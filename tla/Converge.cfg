SPECIFICATION LiveSpec
CONSTANTS
    Replicas = 1
    AllowUnsafe = FALSE
    Scenarios <- FaultsThatStop
    MaxEpoch = 7
    MaxWrites = 1
INVARIANTS EpochsStayBounded
PROPERTIES Converges
