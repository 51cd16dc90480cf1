CONSTANTS
    n1 = n1
    n2 = n2
    n3 = n3
    Node = {n1, n2, n3}
    Instances <- FullMesh
    MaxElections = 2
    MaxVotes = 2
    MaxRestarts <- OneMortal
SYMMETRY Symmetry
SPECIFICATION Spec
INVARIANTS TypeOK CandidacyIsOwn RetransmissionIsCurrent OneVotePerTerm ElectionSafety
PROPERTIES TermNeverFalls ImplementsLedger
CHECK_DEADLOCK FALSE
