CONSTANTS
    p1 = p1
    p2 = p2
    Peer = {p1, p2}
    MaxTerm = 2
    MaxSeconds = 1
    MaxVotes = 2
SYMMETRY Symmetry
SPECIFICATION Spec
INVARIANTS OneVotePerTerm CandidacyIsOwn ResendsSomething
PROPERTIES TermNeverFalls
