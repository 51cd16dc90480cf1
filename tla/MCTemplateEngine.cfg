CONSTANTS
    Sites <- MCSites
    Names <- MCNames
    Working <- MCWorking
    Values <- MCValues
    AlphaNum = {"k", "b", "c", "i", "m"}
    MaxOperations = 4
    MaxPieces = 4
SPECIFICATION Spec
INVARIANTS LoadIsExpansion OneOwner
PROPERTY OperationsAreLocal
CHECK_DEADLOCK FALSE
