--------------------------- MODULE MCRaftThreads ---------------------------
(* One server with small sets of peers for RaftThreads. *)
EXTENDS RaftThreads, TLC

CONSTANTS p1, p2

Symmetry == Permutations(Peer)
=============================================================================
