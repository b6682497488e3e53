SPECIFICATION Spec
CONSTANTS
    Replicas = 2
    AllowUnsafe = FALSE
    Scenarios <- Elections
    MaxEpoch = 5
    MaxWrites = 1
PROPERTIES PromoteDiscardsNothing NoElectionAcrossFork
