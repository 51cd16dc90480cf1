CONSTANTS
    Thread = {"worker", "serverWorker"}
    EndPoint <- Peers
    MaxSockets = 4
    MaxMishaps = 1
    MaxDeaths = 1
SPECIFICATION Spec
INVARIANTS RightPeer SocketsBounded LostForGood
CHECK_DEADLOCK FALSE
