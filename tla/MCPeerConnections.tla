------------------------- MODULE MCPeerConnections -------------------------
(* Worker and ServerWorker, and two peers of one host, as in config/raft.conf. *)
EXTENDS PeerConnections

Peers == {[host |-> "127.0.0.1", port |-> 8891], [host |-> "127.0.0.1", port |-> 8892]}
=============================================================================
