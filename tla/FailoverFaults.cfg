SPECIFICATION Spec
CONSTANTS
    Replicas = 1
    AllowUnsafe = FALSE
    Scenarios <- SingleFaults
    MaxEpoch = 5
    MaxWrites = 1
INVARIANTS EpochInv OneMasterPerEpoch StampsReleaseParkedPods
PROPERTIES EpochsNeverRegress NoEmptyStart PromotionFollowsIntent DemotionSparesIntent
