CONSTANTS
    c1 = c1
    c2 = c2
    c3 = c3
    Call = {c1, c2, c3}
SPECIFICATION FairSpec
INVARIANTS SignalHasPromise NoCallForgotten LoopBarrier
PROPERTIES CallReturns DemobilizeReturns
CHECK_DEADLOCK FALSE
