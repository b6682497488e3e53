SPECIFICATION FairSpec
CONSTANTS
    Slots <- TwoSlots
    Keys <- ThreeKeys
    SlotOf <- KeySlots
    MaxVersion = 2
    MaxKeys = 2
    MaxErrors = 2
INVARIANTS MoveInv OneServer
PROPERTIES StoreSpec MoveCompletes
