--------------------------- MODULE MCRaftElection ---------------------------
(* Small clusters for RaftElection. *)
EXTENDS RaftElection, TLC

CONSTANTS n1, n2, n3

\* Every server lists the two others, as config/raft.conf lists its peers.
FullMesh == [n \in Node |-> Node \ {n}]

\* One process may die.
OneMortal == [n \in Node |-> IF n = n1 THEN 1 ELSE 0]

NoRestart == [n \in Node |-> 0]

Symmetry == Permutations(Node \ {n1})
=============================================================================
