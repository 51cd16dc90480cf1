---------------------------- MODULE RaftElection ----------------------------
(***************************************************************************)
(* Leader election between RaftServer instances, at the interface of       *)
(* IRaftServer: ReceiveMessage takes a typed message, SendMessageDelegate   *)
(* takes one away.  A step is one call of ReceiveMessage, or one half of an *)
(* iteration of RaftServerImpl::Worker (reading isLeader and the elapsed    *)
(* time, then acting on what was read), or the death of a process.          *)
(*                                                                         *)
(* The network: msgs holds every message ever sent and a delivery does not  *)
(* remove one, so a message may be lost (never delivered), delayed,          *)
(* reordered and delivered twice.  DoRetransmission makes duplicates.       *)
(*                                                                         *)
(* Time: TimeKeeperImpl counts whole seconds and every timeout is below     *)
(* one, so a timer has run out exactly when the second changed since it     *)
(* was reset; timerExpired says so for the election timer.                  *)
(***************************************************************************)
EXTENDS Integers, FiniteSets

CONSTANTS
    Node,            \* the servers
    Instances,       \* configuration.instancesNumbers of each server
    MaxElections,    \* bound: elections started in the whole cluster
    MaxVotes,        \* bound: votes a server counts
    MaxRestarts      \* bound: deaths of each process

ASSUME NodeAssumption == IsFiniteSet(Node)
ASSUME InstancesAssumption == Instances \in [Node -> SUBSET Node]
ASSUME BoundsAssumption == /\ MaxElections \in Nat
                           /\ MaxVotes \in Nat
                           /\ MaxRestarts \in [Node -> Nat]

VARIABLES
    currentTerm,     \* configuration.currentTerm
    votedThisTerm, votedFor, votesForUs, isLeader,
    awaitingVote,    \* instances[p].awaitingVote
    lastRequest,     \* instances[p].lastRequest
    timerExpired,    \* now - timeOfLastLeaderMessage >= the timeout
    decision,        \* what the worker read, until it acts
    msgs,            \* every message handed to a sendMessageDelegate
    incarnation,     \* deaths of the process, carried by what it sends
    elections        \* elections decided so far, in the whole cluster

serverVars == <<currentTerm, votedThisTerm, votedFor, votesForUs, isLeader,
                awaitingVote, lastRequest, timerExpired>>
vars == <<serverVars, decision, msgs, incarnation, elections>>

Types == {"RequestVote", "RequestVoteResults", "HeartBeat"}

Message == [type : Types, src : Node, dst : Node, term : Nat,
            voteGranted : BOOLEAN, incarnation : Nat]

None == [type |-> "None"]

Decisions == {"idle", "heartbeat", "election"}

\* votedFor is 0 until the first vote, which is no server's number.
Nobody == "nobody"

Peers(n) == Instances[n] \ {n}

Quorum(n) == Cardinality(Instances[n]) \div 2 + 1

Init ==
    /\ currentTerm   = [n \in Node |-> 0]
    /\ votedThisTerm = [n \in Node |-> FALSE]
    /\ votedFor      = [n \in Node |-> Nobody]
    /\ votesForUs    = [n \in Node |-> 0]
    /\ isLeader      = [n \in Node |-> FALSE]
    /\ awaitingVote  = [n \in Node |-> [p \in Node |-> FALSE]]
    /\ lastRequest   = [n \in Node |-> [p \in Node |-> None]]
    /\ timerExpired  = [n \in Node |-> FALSE]
    /\ decision      = [n \in Node |-> "idle"]
    /\ msgs          = {}
    /\ incarnation   = [n \in Node |-> 0]
    /\ elections     = 0

NewMessage(type, n, p, term, granted) ==
    [type |-> type, src |-> n, dst |-> p, term |-> term,
     voteGranted |-> granted, incarnation |-> incarnation[n]]

\* SendMessage: what is sent to p, a response too, becomes its lastRequest.
SendTo(n, sent) ==
    /\ msgs' = msgs \cup {sent[p] : p \in DOMAIN sent}
    /\ lastRequest' = [lastRequest EXCEPT ![n] =
           [p \in Node |-> IF p \in DOMAIN sent THEN sent[p]
                       ELSE lastRequest[n][p]]]

-----------------------------------------------------------------------------
\* The second changes: every timer of n that was reset before has run out.
Tick(n) ==
    /\ ~timerExpired[n]
    /\ timerExpired' = [timerExpired EXCEPT ![n] = TRUE]
    /\ UNCHANGED <<currentTerm, votedThisTerm, votedFor, votesForUs, isLeader,
                   awaitingVote, lastRequest, decision, msgs, incarnation,
                   elections>>

\* Worker reads isLeader, without the lock, and the time; a message may be
\* received before it acts.
WorkerDecides(n) ==
    /\ decision[n] = "idle"
    /\ timerExpired[n]
    /\ \/ /\ isLeader[n]
          /\ decision' = [decision EXCEPT ![n] = "heartbeat"]
          /\ UNCHANGED elections
       \/ /\ ~isLeader[n]
          /\ elections < MaxElections
          /\ decision' = [decision EXCEPT ![n] = "election"]
          /\ elections' = elections + 1
    /\ UNCHANGED <<serverVars, msgs, incarnation>>

\* Bug: the term is not incremented.
StartElection_SameTerm(n) ==
    /\ decision[n] = "election"
    /\ decision' = [decision EXCEPT ![n] = "idle"]
    /\ votedThisTerm' = [votedThisTerm EXCEPT ![n] = TRUE]
    /\ votedFor' = [votedFor EXCEPT ![n] = n]
    /\ votesForUs' = [votesForUs EXCEPT ![n] = 1]
    /\ awaitingVote' = [awaitingVote EXCEPT ![n] =
                            [p \in Node |-> p \in Peers(n)]]
    /\ SendTo(n, [p \in Peers(n) |->
                     NewMessage("RequestVote", n, p, currentTerm[n], FALSE)])
    /\ timerExpired' = [timerExpired EXCEPT ![n] = FALSE]
    /\ UNCHANGED <<currentTerm, isLeader, incarnation, elections>>

StartElection(n) ==
    LET term == currentTerm[n] + 1 IN
    /\ decision[n] = "election"
    /\ decision' = [decision EXCEPT ![n] = "idle"]
    /\ currentTerm' = [currentTerm EXCEPT ![n] = term]
    /\ votedThisTerm' = [votedThisTerm EXCEPT ![n] = TRUE]
    /\ votedFor' = [votedFor EXCEPT ![n] = n]
    /\ votesForUs' = [votesForUs EXCEPT ![n] = 1]
    /\ awaitingVote' = [awaitingVote EXCEPT ![n] =
                            [p \in Node |-> p \in Peers(n)]]
    /\ SendTo(n, [p \in Peers(n) |->
                     NewMessage("RequestVote", n, p, term, FALSE)])
    /\ timerExpired' = [timerExpired EXCEPT ![n] = FALSE]
    /\ UNCHANGED <<isLeader, incarnation, elections>>

SendHeartBeat(n) ==
    /\ decision[n] = "heartbeat"
    /\ decision' = [decision EXCEPT ![n] = "idle"]
    /\ votesForUs' = [votesForUs EXCEPT ![n] = 1]
    /\ SendTo(n, [p \in Peers(n) |->
                     NewMessage("HeartBeat", n, p, currentTerm[n], FALSE)])
    /\ timerExpired' = [timerExpired EXCEPT ![n] = FALSE]
    /\ UNCHANGED <<currentTerm, votedThisTerm, votedFor, isLeader,
                   awaitingVote, incarnation, elections>>

\* Bug: awaitingVote is not looked at.
DoRetransmission_ToAll(n) ==
    /\ decision[n] = "idle"
    /\ ~timerExpired[n]
    /\ SendTo(n, [p \in Node |-> lastRequest[n][p]])
    /\ UNCHANGED <<currentTerm, votedThisTerm, votedFor, votesForUs, isLeader,
                   awaitingVote, timerExpired, decision, incarnation,
                   elections>>

\* An iteration of Worker in which no timer has run out.  After a heartbeat or
\* an election of the same iteration nothing is due: what was sent carries the
\* same now.  Which of the awaited peers are due is left open.
DoRetransmission(n) ==
    /\ decision[n] = "idle"
    /\ ~timerExpired[n]
    /\ \E due \in SUBSET {p \in Node : awaitingVote[n][p]} :
          SendTo(n, [p \in due |-> lastRequest[n][p]])
    /\ UNCHANGED <<currentTerm, votedThisTerm, votedFor, votesForUs, isLeader,
                   awaitingVote, timerExpired, decision, incarnation,
                   elections>>

-----------------------------------------------------------------------------
\* Bug: the votes still awaited are kept.
RevertToFollower_KeepsAwaiting(n) ==
    /\ isLeader' = [isLeader EXCEPT ![n] = FALSE]
    /\ timerExpired' = [timerExpired EXCEPT ![n] = FALSE]
    /\ UNCHANGED awaitingVote

\* Bug: the leader stays one.
RevertToFollower_StaysLeader(n) ==
    /\ awaitingVote' = [awaitingVote EXCEPT ![n] = [p \in Node |-> FALSE]]
    /\ timerExpired' = [timerExpired EXCEPT ![n] = FALSE]
    /\ UNCHANGED isLeader

\* RevertToFollower, with the ResetElectionTimer it ends in.
RevertToFollower(n) ==
    /\ awaitingVote' = [awaitingVote EXCEPT ![n] = [p \in Node |-> FALSE]]
    /\ isLeader' = [isLeader EXCEPT ![n] = FALSE]
    /\ timerExpired' = [timerExpired EXCEPT ![n] = FALSE]

\* Bug: an old term is not refused.
Refuses_NoTermCheck(n, m) ==
    /\ currentTerm[n] = m.term
    /\ votedThisTerm[n]
    /\ votedFor[n] # m.src

\* Bug: a vote already given in the term does not count.
Refuses_OldTermOnly(n, m) == currentTerm[n] > m.term

Refuses(n, m) ==
    \/ currentTerm[n] > m.term
    \/ /\ currentTerm[n] = m.term
       /\ votedThisTerm[n]
       /\ votedFor[n] # m.src

RespondTo(n, m, term, granted) ==
    SendTo(n, [p \in {m.src} |->
                  NewMessage("RequestVoteResults", n, p, term, granted)])

RefuseVote(n, m) ==
    /\ m.type = "RequestVote"
    /\ Refuses(n, m)
    /\ RespondTo(n, m, currentTerm[n], FALSE)
    /\ UNCHANGED <<currentTerm, votedThisTerm, votedFor, votesForUs, isLeader,
                   awaitingVote, timerExpired>>

GrantVote(n, m) ==
    /\ m.type = "RequestVote"
    /\ ~Refuses(n, m)
    /\ votedThisTerm' = [votedThisTerm EXCEPT ![n] = TRUE]
    /\ votedFor' = [votedFor EXCEPT ![n] = m.src]
    /\ currentTerm' = [currentTerm EXCEPT ![n] = m.term]
    /\ RevertToFollower(n)
    /\ RespondTo(n, m, m.term, TRUE)
    /\ UNCHANGED votesForUs

\* The handler does not look at the term, and does not clear awaitingVote.
CountVote(n, m) ==
    /\ m.type = "RequestVoteResults"
    /\ m.voteGranted
    /\ awaitingVote[n][m.src]
    /\ votesForUs[n] < MaxVotes
    /\ votesForUs' = [votesForUs EXCEPT ![n] = @ + 1]
    /\ isLeader' = [isLeader EXCEPT ![n] = @ \/ votesForUs[n] + 1 >= Quorum(n)]
    /\ UNCHANGED <<currentTerm, votedThisTerm, votedFor, awaitingVote,
                   lastRequest, timerExpired, msgs>>

\* Bug: a leader does not look at the heartbeats of others.
AdoptTerm_NotLeading(n, m) ==
    /\ m.type = "HeartBeat"
    /\ ~isLeader[n]
    /\ currentTerm[n] < m.term
    /\ currentTerm' = [currentTerm EXCEPT ![n] = m.term]
    /\ RevertToFollower(n)
    /\ UNCHANGED <<votedThisTerm, votedFor, votesForUs, lastRequest, msgs>>

\* A newer term is adopted; votedThisTerm is left as it is.
AdoptTerm(n, m) ==
    /\ m.type = "HeartBeat"
    /\ currentTerm[n] < m.term
    /\ currentTerm' = [currentTerm EXCEPT ![n] = m.term]
    /\ RevertToFollower(n)
    /\ UNCHANGED <<votedThisTerm, votedFor, votesForUs, lastRequest, msgs>>

KeepFollowing(n, m) ==
    /\ m.type = "HeartBeat"
    /\ currentTerm[n] = m.term
    /\ timerExpired' = [timerExpired EXCEPT ![n] = FALSE]
    /\ UNCHANGED <<currentTerm, votedThisTerm, votedFor, votesForUs, isLeader,
                   awaitingVote, lastRequest, msgs>>

\* ReceiveMessage; the messages it has no case for change nothing.
ReceiveMessage(m) ==
    /\ \/ RefuseVote(m.dst, m)
       \/ GrantVote(m.dst, m)
       \/ CountVote(m.dst, m)
       \/ AdoptTerm(m.dst, m)
       \/ KeepFollowing(m.dst, m)
    /\ UNCHANGED <<decision, incarnation, elections>>

-----------------------------------------------------------------------------
\* The process dies and starts again.  Nothing is on disk: the new one has the
\* configuration's term and an empty ServerSharedProperties.
Restart(n) ==
    /\ incarnation[n] < MaxRestarts[n]
    /\ incarnation'   = [incarnation EXCEPT ![n] = @ + 1]
    /\ currentTerm'   = [currentTerm EXCEPT ![n] = 0]
    /\ votedThisTerm' = [votedThisTerm EXCEPT ![n] = FALSE]
    /\ votedFor'      = [votedFor EXCEPT ![n] = Nobody]
    /\ votesForUs'    = [votesForUs EXCEPT ![n] = 0]
    /\ isLeader'      = [isLeader EXCEPT ![n] = FALSE]
    /\ awaitingVote'  = [awaitingVote EXCEPT ![n] = [p \in Node |-> FALSE]]
    /\ lastRequest'   = [lastRequest EXCEPT ![n] = [p \in Node |-> None]]
    /\ timerExpired'  = [timerExpired EXCEPT ![n] = FALSE]
    /\ decision'      = [decision EXCEPT ![n] = "idle"]
    /\ UNCHANGED <<msgs, elections>>

Next ==
    \/ \E n \in Node : \/ Tick(n)
                       \/ WorkerDecides(n)
                       \/ StartElection(n)
                       \/ SendHeartBeat(n)
                       \/ DoRetransmission(n)
                       \/ Restart(n)
    \/ \E m \in msgs : ReceiveMessage(m)

Spec == Init /\ [][Next]_vars

\* The worker thread keeps running and seconds keep passing.  A leader repeats
\* its heartbeat as long as it leads, so one of them arrives.
Fairness ==
    /\ \A n \in Node :
          /\ WF_vars(Tick(n))
          /\ WF_vars(WorkerDecides(n) \/ StartElection(n) \/ SendHeartBeat(n))
    /\ \A n, p \in Node :
          WF_vars(/\ isLeader[n]
                  /\ \E m \in msgs : /\ m.type = "HeartBeat"
                                     /\ m.src = n
                                     /\ m.dst = p
                                     /\ m.term = currentTerm[n]
                                     /\ ReceiveMessage(m))

FairSpec == Spec /\ Fairness

-----------------------------------------------------------------------------
\* Every variable stays in its type.
TypeOK ==
    /\ currentTerm   \in [Node -> Nat]
    /\ votedThisTerm \in [Node -> BOOLEAN]
    /\ votedFor      \in [Node -> Node \cup {Nobody}]
    /\ votesForUs    \in [Node -> Nat]
    /\ isLeader      \in [Node -> BOOLEAN]
    /\ awaitingVote  \in [Node -> [Node -> BOOLEAN]]
    /\ lastRequest   \in [Node -> [Node -> Message \cup {None}]]
    /\ timerExpired  \in [Node -> BOOLEAN]
    /\ decision      \in [Node -> Decisions]
    /\ msgs          \subseteq Message
    /\ incarnation   \in [Node -> Nat]
    /\ elections     \in Nat

\* Who leads, or still waits for votes, stands in its present term: it voted for
\* itself and for no other since, and asked each awaited peer for this term's
\* vote.  Granting a vote, adopting a term and dying all end the candidacy.
\* RaftServerImpl keeps this in five variables that it never compares.
CandidacyOf(n) ==
    /\ isLeader[n] => \E p \in Peers(n) : awaitingVote[n][p]
    /\ \A p \in Node : awaitingVote[n][p] =>
          /\ p \in Peers(n)
          /\ votedThisTerm[n] /\ votedFor[n] = n
          /\ NewMessage("RequestVote", n, p, currentTerm[n], FALSE) \in msgs

CandidacyIsOwn == \A n \in Node : CandidacyOf(n)

\* What DoRetransmission would send to a peer is of the server's present term,
\* although SendMessage lets a refusal or a heartbeat replace the vote request.
\* A vote that was granted is never given again by it, and the heartbeat of a
\* leadership that is over never repeated.
RetransmissionIsCurrent ==
    \A n, p \in Node :
        awaitingVote[n][p] => /\ lastRequest[n][p] # None
                              /\ lastRequest[n][p].term = currentTerm[n]
                              /\ lastRequest[n][p].src = n
                              /\ lastRequest[n][p].dst = p
                              /\ ~lastRequest[n][p].voteGranted
                              /\ lastRequest[n][p].type = "HeartBeat" => isLeader[n]

\* A worker that is to send heartbeats leads, or was demoted meanwhile, which
\* ended its candidacy.
HeartBeatDecided ==
    \A n \in Node : decision[n] = "heartbeat" =>
        isLeader[n] \/ \A p \in Node : ~awaitingVote[n][p]

\* The votes that left a server: a granted RequestVoteResults, and its own in
\* the RequestVote it sends.
VoteOf(m) == [voter |-> m.src, term |-> m.term, incarnation |-> m.incarnation,
              candidate |-> IF m.type = "RequestVote" THEN m.src ELSE m.dst]

VotesIn(M) == {VoteOf(m) : m \in {v \in M : v.type = "RequestVote" \/ v.voteGranted}}

Votes == VotesIn(msgs)

Ledger == INSTANCE VoteLedger WITH votes <- Votes

\* In one life a server votes for at most one candidate of a term, however its
\* elections, grants, adopted terms and retransmissions interleave.
OneVotePerTerm == Ledger!VoteOnce

\* Every step enters votes in the ledger that are compatible with those in it.
ImplementsLedger == Ledger!LedgerSpec

\* A server in its present life remembers the vote it gave in its present term,
\* and its term is never behind one it voted in.
Remembered(v) ==
    /\ v.incarnation <= incarnation[v.voter]
    /\ v.incarnation = incarnation[v.voter] =>
          /\ v.term <= currentTerm[v.voter]
          /\ v.term = currentTerm[v.voter] =>
                /\ votedThisTerm[v.voter]
                /\ votedFor[v.voter] = v.candidate

VotesRemembered == \A v \in Votes : Remembered(v)

\* lastRequest only ever holds what SendMessage handed to the delegate.
LastRequestSent ==
    \A n, p \in Node : lastRequest[n][p] \in msgs \cup {None}

\* The inductive invariant.
ElectionInv ==
    /\ TypeOK
    /\ CandidacyIsOwn
    /\ RetransmissionIsCurrent
    /\ HeartBeatDecided
    /\ LastRequestSent
    /\ VotesRemembered
    /\ OneVotePerTerm

IsMajority(Q) == 2 * Cardinality(Q) > Cardinality(Node)

\* Two leaders of one term, each with the votes of a majority, are one server,
\* or a server that voted for both had died in between.
ElectionSafety ==
    \A a, b \in Node :
        /\ isLeader[a] /\ isLeader[b]
        /\ currentTerm[a] = currentTerm[b]
        /\ IsMajority(Ledger!Voters(Votes, a, currentTerm[a]))
        /\ IsMajority(Ledger!Voters(Votes, b, currentTerm[b]))
        => \/ a = b
           \/ \E p \in Ledger!Voters(Votes, a, currentTerm[a])
                           \cap Ledger!Voters(Votes, b, currentTerm[b]) :
                  Ledger!VotedAcrossRestart(Votes, p, currentTerm[a])

\* Within one life of its process no step lowers a server's term, whatever old
\* message arrives and whatever the worker had decided before it arrived.
TermNeverFalls ==
    [][\A n \in Node : incarnation'[n] = incarnation[n]
                           => currentTerm'[n] >= currentTerm[n]]_vars

\* A leader of an older term that the leader of a newer one knows as a peer
\* steps down, or the newer one does.
StaleLeaderStepsDown ==
    \A a, b \in Node :
        (a \in Peers(b) /\ isLeader[a] /\ isLeader[b] /\ currentTerm[a] < currentTerm[b])
            ~> (~isLeader[a] \/ ~isLeader[b] \/ currentTerm[a] >= currentTerm[b])
=============================================================================
