SPECIFICATION FairSpec
CONSTANTS
  NShards = 3
  RPS = 1
  NSlots = 3
  Scenarios <- LiveScenarios
PROPERTY Converges
