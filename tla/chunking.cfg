SPECIFICATION Spec
CONSTANTS
    Documents <- AllDocuments
    MaxTexts = 1000
INVARIANTS
    TypeOK
    EveryWordIsChunked
    NeighboursOverlap
    RefusedOnlyBeyondCapacity
PROPERTIES
    AdvancesOrEnds
CHECK_DEADLOCK FALSE
