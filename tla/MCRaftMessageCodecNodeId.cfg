CONSTANTS
    U32 <- Words
    Ids <- CandidateIds
    Unwritten = {0, 3, 130}
SPECIFICATION Spec
INVARIANT NodeIdSurvives
CHECK_DEADLOCK FALSE
