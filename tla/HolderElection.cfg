SPECIFICATION Spec
CONSTANTS
    Ids <- FourIds
    Slices <- ThreeSlices
INVARIANTS DivergedExactly BestIsBest
