CONSTANTS
    n1 = n1
    n2 = n2
    n3 = n3
    Node = {n1, n2}
    Instances <- FullMesh
    MaxElections = 3
    MaxVotes = 2
    MaxRestarts <- NoRestart
SPECIFICATION FairSpec
PROPERTIES StaleLeaderStepsDown
CHECK_DEADLOCK FALSE
