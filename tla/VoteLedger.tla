----------------------------- MODULE VoteLedger -----------------------------
(***************************************************************************)
(* What an election promises, without messages, terms kept by servers or   *)
(* timers: a ledger of the votes cast.  A voter that has not restarted      *)
(* (same incarnation) gives at most one candidate its vote in a term, and   *)
(* no vote is ever taken back.                                              *)
(***************************************************************************)
EXTENDS Naturals

CONSTANT Node              \* the servers of the cluster

VARIABLE votes

Vote == [voter : Node, candidate : Node, term : Nat, incarnation : Nat]

LedgerTypeOK == votes \subseteq Vote

\* v can be entered beside the votes already cast.
Compatible(v) ==
    \A w \in votes :
        (w.voter = v.voter /\ w.term = v.term /\ w.incarnation = v.incarnation)
            => w.candidate = v.candidate

Init == votes = {}

Cast(v) == Compatible(v) /\ votes' = votes \cup {v}

Next == \E v \in votes' \ votes : v \in Vote /\ Cast(v)

LedgerSpec == Init /\ [][Next]_votes

-----------------------------------------------------------------------------
\* The nodes whose vote for c in term t is in the ledger vs.
Voters(vs, c, t) == {w.voter : w \in {u \in vs : u.candidate = c /\ u.term = t}}

\* p cast votes in term t in two of its incarnations.
VotedAcrossRestart(vs, p, t) ==
    \E v, w \in vs : /\ v.voter = p /\ w.voter = p
                     /\ v.term = t /\ w.term = t
                     /\ v.incarnation # w.incarnation

\* In one incarnation a node votes for at most one candidate per term.
VoteOnce ==
    \A v, w \in votes :
        (v.voter = w.voter /\ v.term = w.term /\ v.incarnation = w.incarnation)
            => v.candidate = w.candidate
=============================================================================
