CONSTANTS
    U32 <- Words
    Ids <- CandidateIds
    Unwritten = {0, 3, 130}
SPECIFICATION Spec
INVARIANTS RightOrSignExtended WireStopsEarly
CHECK_DEADLOCK FALSE
