SPECIFICATION Spec
CONSTANTS
  NShards = 3
  RPS = 1
  NSlots = 3
  Scenarios <- FaultScenarios
INVARIANT HealthyIsServed
PROPERTY LastCopyDiesWithItsProcess
PROPERTY AssignsOnlyLostRanges
 
