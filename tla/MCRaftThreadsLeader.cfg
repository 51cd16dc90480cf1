CONSTANTS
    p1 = p1
    p2 = p2
    Peer = {p1}
    MaxTerm = 2
    MaxSeconds = 2
    MaxVotes = 2
SPECIFICATION FairSpec
INVARIANTS HeartBeatsAreOwn
PROPERTIES HandlerReturns
