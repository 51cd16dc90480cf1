---------------------------- MODULE RaftThreads ----------------------------
(***************************************************************************)
(* One RaftServer at the granularity of statements: its thread Worker and   *)
(* its thread ServerWorker, which runs ReceiveMessage, on the fields of     *)
(* ServerSharedProperties.  StartElection and ReceiveMessage take no lock,   *)
(* so their loads and stores interleave.  RaftElection lets each of them    *)
(* run as a whole; this module says what that leaves out.                   *)
(*                                                                         *)
(* A load or a store of a shared field is a step; neighbouring stores are    *)
(* one where no step of the other thread can tell.  The accesses are data    *)
(* races; the outcomes taken are those of some order of them.                *)
(*                                                                         *)
(* The peers are the environment: they may ask for a vote or send a          *)
(* heartbeat of any term, and grant any vote that was asked of them.         *)
(***************************************************************************)
EXTENDS Integers, FiniteSets

CONSTANTS
    Peer,              \* instancesNumbers without the server itself
    MaxTerm,           \* bound: the terms peers send
    MaxSeconds,        \* bound: how often a timer runs out
    MaxVotes           \* bound: votes counted

ASSUME PeerAssumption == IsFiniteSet(Peer)
ASSUME BoundAssumption == MaxTerm \in Nat /\ MaxSeconds \in Nat /\ MaxVotes \in Nat

VARIABLES
    currentTerm, votedThisTerm, votedFor, votesForUs, isLeader,
    awaitingVote,      \* instances[p].awaitingVote
    lastRequest,       \* instances[p].lastRequest
    expired,           \* a second has begun since the election timer was reset
    seconds,           \* how often it did
    worker,            \* where Worker is
    due,               \* its locals: has the timer run out,
    ownTerm,           \*   the term loaded, then that of the message,
    dest, todo,        \*   the peer in hand, and those that are left
    receiver,          \* where ServerWorker is
    msg, value,        \* its locals: the message, and a number loaded
    sent,              \* the messages sent, without refusals
    raced              \* ghost: the kinds of overlap that have happened

voteVars == <<currentTerm, votedThisTerm, votedFor>>
roleVars == <<votesForUs, isLeader, awaitingVote>>
sendVars == <<lastRequest, sent>>
timeVars == <<expired, seconds>>
sharedVars == <<voteVars, roleVars, sendVars, timeVars>>
locals == <<due, ownTerm, dest, todo>>
workerVars == <<worker, due, ownTerm, dest, todo>>
receiverVars == <<receiver, msg, value>>
vars == <<sharedVars, workerVars, receiverVars, raced>>

ASSUME NamesAssumption == {"self", "nobody"} \cap Peer = {}
Self == "self"
Nobody == "nobody"

None == [type |-> "None"]
NewMessage(type, p, term, granted) ==
    [type |-> type, peer |-> p, term |-> term, voteGranted |-> granted]

Quorum == Cardinality(Peer) \div 2 + 1

\* Mobilize starts ServerWorker while it still has to clear the instances.
Init ==
    /\ currentTerm = 0 /\ votedThisTerm = FALSE /\ votedFor = Nobody
    /\ votesForUs = 0 /\ isLeader = FALSE
    /\ awaitingVote = [p \in Peer |-> FALSE]
    /\ lastRequest = [p \in Peer |-> None]
    /\ expired = TRUE /\ seconds = 0
    /\ worker = "mobilize" /\ due = FALSE
    /\ ownTerm = 0 /\ dest = Nobody /\ todo = {}
    /\ receiver = "idle" /\ msg = None /\ value = 0
    /\ sent = {}
    /\ raced = {}

\* Bug: ReceiveMessage holds the mutex that RevertToFollower takes.
MutexFree_HandlerHolds ==
    /\ worker \notin {"beat", "beating", "resending", "resend"}
    /\ receiver = "idle"

\* Only Worker holds the mutex over several steps, to send.
MutexFree == worker \notin {"beat", "beating", "resending", "resend"}

SendMessage(m) ==
    /\ lastRequest' = [lastRequest EXCEPT ![m.peer] = m]
    /\ sent' = sent \cup {x \in {m} : x.type = "RequestVoteResults" => x.voteGranted}

\* TimeKeeperImpl counts whole seconds, and every timeout is below one.
Tick ==
    /\ ~expired
    /\ seconds < MaxSeconds
    /\ expired' = TRUE
    /\ seconds' = seconds + 1
    /\ UNCHANGED <<voteVars, roleVars, sendVars, workerVars, receiverVars>>

-----------------------------------------------------------------------------
(* Worker *)

WorkerAt(from, next) == worker = from /\ worker' = next

\* The rest of Mobilize; ServerWorker may already handle a message.
ClearInstances ==
    /\ WorkerAt("mobilize", "start")
    /\ awaitingVote' = [p \in Peer |-> FALSE]
    /\ lastRequest' = [p \in Peer |-> None]
    /\ isLeader' = FALSE
    /\ votesForUs' = 0
    /\ expired' = TRUE
    /\ UNCHANGED <<voteVars, sent, seconds, receiverVars, locals>>

\* Worker begins with ResetElectionTimer.
StartWorker ==
    /\ WorkerAt("start", "wait")
    /\ expired' = FALSE
    /\ UNCHANGED <<voteVars, roleVars, sendVars, seconds, receiverVars, locals>>

ReadTimer ==
    /\ WorkerAt("wait", "decide")
    /\ due' = expired
    /\ UNCHANGED <<sharedVars, receiverVars, ownTerm, dest, todo>>

ReadRole ==
    /\ WorkerAt("decide", IF ~due THEN "retransmit"
                          ELSE IF isLeader THEN "heartbeat" ELSE "election")
    /\ UNCHANGED <<sharedVars, receiverVars, locals>>

LoadTerm ==
    /\ WorkerAt("election", "increment")
    /\ ownTerm' = currentTerm
    /\ UNCHANGED <<sharedVars, receiverVars, due, dest, todo>>

StoreTerm ==
    /\ WorkerAt("increment", "vote")
    /\ currentTerm' = ownTerm + 1
    /\ UNCHANGED <<votedThisTerm, votedFor, roleVars, sendVars, timeVars,
                   receiverVars, locals>>

VoteForSelf ==
    /\ WorkerAt("vote", "votes")
    /\ votedThisTerm' = TRUE
    /\ votedFor' = Self
    /\ UNCHANGED <<currentTerm, roleVars, sendVars, timeVars, receiverVars,
                   locals>>

ResetVotes ==
    /\ WorkerAt("votes", "request")
    /\ votesForUs' = 1
    /\ UNCHANGED <<voteVars, isLeader, awaitingVote, sendVars, timeVars,
                   receiverVars, locals>>

\* The term of the request is loaded again.
MakeRequest ==
    /\ WorkerAt("request", "clear")
    /\ ownTerm' = currentTerm
    /\ UNCHANGED <<sharedVars, receiverVars, due, dest, todo>>

\* Every awaitingVote, as one step: between two of them nothing shows but how
\* far the loop is.
ClearAwaiting ==
    /\ WorkerAt("clear", "mark")
    /\ todo' = Peer
    /\ awaitingVote' = [p \in Peer |-> FALSE]
    /\ UNCHANGED <<voteVars, votesForUs, isLeader, sendVars, timeVars,
                   receiverVars, due, ownTerm, dest>>

Mark(p) ==
    /\ WorkerAt("mark", "ask")
    /\ p \in todo
    /\ dest' = p
    /\ todo' = todo \ {p}
    /\ awaitingVote' = [awaitingVote EXCEPT ![p] = TRUE]
    /\ UNCHANGED <<voteVars, votesForUs, isLeader, sendVars, timeVars,
                   receiverVars, due, ownTerm>>

Ask ==
    /\ WorkerAt("ask", "mark")
    /\ SendMessage(NewMessage("RequestVote", dest, ownTerm, FALSE))
    /\ UNCHANGED <<voteVars, roleVars, timeVars, receiverVars, locals>>

\* The timer is restarted, without the mutex.  Nothing that was just sent is
\* due for retransmission.
EndElection ==
    /\ todo = {}
    /\ WorkerAt("mark", "wait")
    /\ expired' = FALSE
    /\ UNCHANGED <<voteVars, roleVars, sendVars, seconds, receiverVars, locals>>

BeginHeartBeat ==
    /\ WorkerAt("heartbeat", "beat")
    /\ votesForUs' = 1
    /\ UNCHANGED <<voteVars, isLeader, awaitingVote, sendVars, timeVars,
                   receiverVars, locals>>

\* Bug: the term of the heartbeat is one too many.
MakeHeartBeat_NextTerm ==
    /\ WorkerAt("beat", "beating")
    /\ ownTerm' = currentTerm + 1
    /\ todo' = Peer
    /\ UNCHANGED <<sharedVars, receiverVars, due, dest>>

MakeHeartBeat ==
    /\ WorkerAt("beat", "beating")
    /\ ownTerm' = currentTerm
    /\ todo' = Peer
    /\ UNCHANGED <<sharedVars, receiverVars, due, dest>>

SendBeat(p) ==
    /\ worker = "beating"
    /\ p \in todo
    /\ todo' = todo \ {p}
    /\ SendMessage(NewMessage("HeartBeat", p, ownTerm, FALSE))
    /\ UNCHANGED <<voteVars, roleVars, timeVars, receiverVars, worker, due,
                   ownTerm, dest>>

EndHeartBeat ==
    /\ todo = {}
    /\ WorkerAt("beating", "wait")
    /\ expired' = FALSE
    /\ UNCHANGED <<voteVars, roleVars, sendVars, seconds, receiverVars, locals>>

BeginRetransmission ==
    /\ WorkerAt("retransmit", "resending")
    /\ todo' = Peer
    /\ UNCHANGED <<sharedVars, receiverVars, due, ownTerm, dest>>

\* Bug: awaitingVote is not looked at.
FindDue_Any(p) ==
    /\ WorkerAt("resending", "resend")
    /\ p \in todo
    /\ dest' = p
    /\ todo' = todo \ {p}
    /\ UNCHANGED <<sharedVars, receiverVars, due, ownTerm>>

\* A peer whose vote is awaited and whose rpcTimeout has passed.
FindDue(p) ==
    /\ WorkerAt("resending", "resend")
    /\ p \in todo
    /\ awaitingVote[p]
    /\ dest' = p
    /\ todo' = todo \ {p}
    /\ UNCHANGED <<sharedVars, receiverVars, due, ownTerm>>

\* What is sent is what lastRequest is by now.
Resend ==
    /\ WorkerAt("resend", "resending")
    /\ SendMessage(lastRequest[dest])
    /\ UNCHANGED <<voteVars, roleVars, timeVars, receiverVars, locals>>

\* No other peer is due.
EndRetransmission ==
    /\ WorkerAt("resending", "wait")
    /\ UNCHANGED <<sharedVars, receiverVars, locals>>

WorkerNext ==
    \/ ClearInstances \/ StartWorker \/ ReadTimer \/ ReadRole
    \/ LoadTerm \/ StoreTerm \/ VoteForSelf \/ ResetVotes
    \/ MakeRequest \/ ClearAwaiting \/ Ask \/ EndElection
    \/ BeginHeartBeat \/ MakeHeartBeat \/ EndHeartBeat
    \/ BeginRetransmission \/ Resend \/ EndRetransmission
    \/ \E p \in Peer : Mark(p) \/ SendBeat(p) \/ FindDue(p)

-----------------------------------------------------------------------------
(* ReceiveMessage, in ServerWorker *)

ReceiverAt(from, next) == receiver = from /\ receiver' = next

\* A peer answers only what it was asked, but maybe late and twice.
Incoming ==
    [type : {"RequestVote", "HeartBeat"}, peer : Peer, term : 1..MaxTerm,
     voteGranted : {FALSE}]
    \cup {NewMessage("RequestVoteResults", m.peer, m.term, TRUE) :
             m \in {s \in sent : s.type = "RequestVote"}}

Receive(m) ==
    /\ receiver = "idle"
    /\ m.type = "RequestVoteResults" => votesForUs < MaxVotes
    /\ receiver' = m.type
    /\ msg' = m
    /\ value' = 0
    /\ UNCHANGED <<sharedVars, workerVars>>

\* The term of the response is chosen before the terms are compared.
ChooseResponseTerm ==
    /\ ReceiverAt("RequestVote", "term")
    /\ value' = IF msg.term > currentTerm THEN msg.term ELSE currentTerm
    /\ UNCHANGED <<sharedVars, workerVars, msg>>

\* Bug: an older term is not refused.
CompareTerm_No ==
    /\ ReceiverAt("term", "same")
    /\ UNCHANGED <<sharedVars, workerVars, msg, value>>

CompareTerm ==
    /\ ReceiverAt("term", IF currentTerm > msg.term THEN "refuse" ELSE "same")
    /\ UNCHANGED <<sharedVars, workerVars, msg, value>>

IsSameTerm ==
    /\ ReceiverAt("same", IF currentTerm = msg.term THEN "vote" ELSE "grant")
    /\ UNCHANGED <<sharedVars, workerVars, msg, value>>

CompareVote ==
    /\ ReceiverAt("vote", IF votedThisTerm /\ votedFor # msg.peer
                          THEN "refuse" ELSE "grant")
    /\ UNCHANGED <<sharedVars, workerVars, msg, value>>

\* Bug: the vote is granted but not remembered.
GrantVote_Forgets ==
    /\ ReceiverAt("grant", "adopt")
    /\ UNCHANGED <<sharedVars, workerVars, msg, value>>

GrantVote ==
    /\ ReceiverAt("grant", "adopt")
    /\ votedThisTerm' = TRUE
    /\ votedFor' = msg.peer
    /\ UNCHANGED <<currentTerm, roleVars, sendVars, timeVars, workerVars, msg,
                   value>>

AdoptTerm ==
    /\ ReceiverAt("adopt", "clear")
    /\ currentTerm' = msg.term
    /\ UNCHANGED <<votedThisTerm, votedFor, roleVars, sendVars, timeVars,
                   workerVars, msg, value>>

\* Bug: the votes still awaited are kept.
StopAwaiting_Keeps ==
    /\ ReceiverAt("clear", "demote")
    /\ UNCHANGED <<sharedVars, workerVars, msg, value>>

\* RevertToFollower, in three steps.
StopAwaiting ==
    /\ ReceiverAt("clear", "demote")
    /\ awaitingVote' = [p \in Peer |-> FALSE]
    /\ UNCHANGED <<voteVars, votesForUs, isLeader, sendVars, timeVars,
                   workerVars, msg, value>>

Demote ==
    /\ ReceiverAt("demote", "reset")
    /\ isLeader' = FALSE
    /\ UNCHANGED <<voteVars, votesForUs, awaitingVote, sendVars, timeVars,
                   workerVars, msg, value>>

ResetElectionTimer ==
    /\ MutexFree
    /\ ReceiverAt("reset", IF msg.type = "RequestVote" THEN "accept" ELSE "idle")
    /\ expired' = FALSE
    /\ UNCHANGED <<voteVars, roleVars, sendVars, seconds, workerVars, msg,
                   value>>

Respond ==
    /\ receiver \in {"accept", "refuse"}
    /\ receiver' = "idle"
    /\ SendMessage(NewMessage("RequestVoteResults", msg.peer, value,
                              receiver = "accept"))
    /\ UNCHANGED <<voteVars, roleVars, timeVars, workerVars, msg, value>>

IsAwaited ==
    /\ ReceiverAt("RequestVoteResults",
                  IF awaitingVote[msg.peer] THEN "load" ELSE "idle")
    /\ UNCHANGED <<sharedVars, workerVars, msg, value>>

LoadVotes ==
    /\ ReceiverAt("load", "store")
    /\ value' = votesForUs
    /\ UNCHANGED <<sharedVars, workerVars, msg>>

StoreVotes ==
    /\ ReceiverAt("store", "quorum")
    /\ votesForUs' = value + 1
    /\ UNCHANGED <<voteVars, isLeader, awaitingVote, sendVars, timeVars,
                   workerVars, msg, value>>

CheckQuorum ==
    /\ ReceiverAt("quorum", IF votesForUs >= Quorum THEN "lead" ELSE "idle")
    /\ UNCHANGED <<sharedVars, workerVars, msg, value>>

BecomeLeader ==
    /\ ReceiverAt("lead", "idle")
    /\ isLeader' = TRUE
    /\ UNCHANGED <<voteVars, votesForUs, awaitingVote, sendVars, timeVars,
                   workerVars, msg, value>>

IsNewerTerm ==
    /\ ReceiverAt("HeartBeat", IF currentTerm < msg.term THEN "adopt" ELSE "follow")
    /\ UNCHANGED <<sharedVars, workerVars, msg, value>>

IsLeadersTerm ==
    /\ ReceiverAt("follow", IF currentTerm = msg.term THEN "reset" ELSE "idle")
    /\ UNCHANGED <<sharedVars, workerVars, msg, value>>

HandlerNext ==
    \/ ChooseResponseTerm \/ CompareTerm \/ IsSameTerm \/ CompareVote
    \/ GrantVote \/ AdoptTerm \/ StopAwaiting \/ Demote \/ Respond
    \/ IsAwaited \/ LoadVotes \/ StoreVotes \/ CheckQuorum \/ BecomeLeader
    \/ IsNewerTerm \/ IsLeadersTerm \/ ResetElectionTimer

-----------------------------------------------------------------------------
\* The worker is between the increment of the term and the last request.
InElection ==
    worker \in {"increment", "vote", "votes", "request", "clear", "mark", "ask"}

\* The receiver has found the message's term not to be old, and has not yet
\* stored it.
AboutToAdopt == receiver \in {"same", "grant", "adopt"}

\* The receiver has stored a new term under a worker that is to send the
\* heartbeat of a leader.
UnderHeartBeat ==
    worker \in {"heartbeat", "beat"} /\ receiver \in {"clear", "demote"}

Races == {k \in {"election", "heartbeat"} :
             IF k = "election" THEN InElection /\ AboutToAdopt ELSE UnderHeartBeat}

WithRaces(A) == A /\ raced' = raced \cup Races'

Next ==
    \/ WithRaces(Tick)
    \/ WithRaces(WorkerNext)
    \/ \E m \in Incoming : WithRaces(Receive(m))
    \/ WithRaces(HandlerNext)

Spec == Init /\ [][Next]_vars

\* Both threads run.  The worker gives the mutex up in every iteration, for as
\* long as it waits, and a handler that asks for it gets it some time.
Fairness ==
    /\ WF_vars(WithRaces(WorkerNext))
    /\ WF_vars(WithRaces(HandlerNext))
    /\ SF_vars(WithRaces(ResetElectionTimer))

FairSpec == Spec /\ Fairness

-----------------------------------------------------------------------------
MessageType == {"RequestVote", "RequestVoteResults", "HeartBeat"}
Message == [type : MessageType, peer : Peer, term : Nat, voteGranted : BOOLEAN]

WorkerPlace ==
    {"mobilize", "start", "wait", "decide", "election", "increment", "vote",
     "votes", "request", "clear", "mark", "ask", "heartbeat", "beat", "beating",
     "retransmit", "resending", "resend"}

ReceiverPlace ==
    MessageType \cup {"idle", "term", "same", "vote", "grant", "adopt", "clear",
                     "demote", "reset", "accept", "refuse", "load", "store",
                     "quorum", "lead", "follow"}

\* Every variable stays in its type; a handler has a message and a sender a peer.
TypeOK ==
    /\ currentTerm \in Nat
    /\ votedThisTerm \in BOOLEAN
    /\ votedFor \in Peer \cup {Self, Nobody}
    /\ votesForUs \in Nat
    /\ isLeader \in BOOLEAN
    /\ awaitingVote \in [Peer -> BOOLEAN]
    /\ lastRequest \in [Peer -> Message \cup {None}]
    /\ expired \in BOOLEAN /\ seconds \in 0..MaxSeconds
    /\ worker \in WorkerPlace /\ due \in BOOLEAN /\ ownTerm \in Nat
    /\ dest \in Peer \cup {Nobody} /\ todo \subseteq Peer
    /\ worker \in {"ask", "resend"} => dest \in Peer
    /\ receiver \in ReceiverPlace /\ value \in Nat
    /\ msg \in Message \cup {None}
    /\ receiver # "idle" => msg \in Message
    /\ sent \subseteq Message
    /\ raced \subseteq {"election", "heartbeat"}

Requested(term) == \E m \in sent : m.type = "RequestVote" /\ m.term = term

Vote(c, t) == [candidate |-> c, term |-> t]

\* A granted result is a vote, and a request is the server's vote for itself.
IsVote(m) == m.type = "RequestVote" \/ m.voteGranted
VoteIn(m) == Vote(IF m.type = "RequestVote" THEN Self ELSE m.peer, m.term)

\* Two votes that leave the server in one term are for one candidate; only a
\* grant that overlaps StartElection can make them differ.
OneVotePerTerm ==
    "election" \notin raced =>
        \A m, n \in {x \in sent : IsVote(x)} :
            m.term = n.term => VoteIn(m) = VoteIn(n)

\* The term falls only when StartElection overlaps a handler that has already
\* compared the terms.
TermNeverFalls ==
    [][("election" \notin raced') => currentTerm' >= currentTerm]_vars

\* Between elections and grants a leader, and a server that still waits for
\* votes, is the candidate of its present term, unless the two overlapped.
CandidacyIsOwn ==
    (/\ "election" \notin raced
     /\ ~InElection
     /\ receiver \notin {"adopt", "clear", "demote"}
     /\ isLeader \/ \E p \in Peer : awaitingVote[p])
        => votedFor = Self /\ Requested(currentTerm)

\* A heartbeat is of a term in which the server stood for election, unless a
\* handler ended the leadership under the worker that was to send it.
HeartBeatsAreOwn ==
    raced = {} => \A m \in sent : m.type = "HeartBeat" => Requested(m.term)

\* Retransmission never passes a null message to the delegate, whatever the
\* receiver does to the instance between the check and the send.
ResendsSomething ==
    worker = "resend" => lastRequest[dest] # None

\* What is known of the message in hand at each place.
HandlesItsType ==
    /\ receiver \in {"RequestVote", "term", "same", "vote", "grant", "accept",
                       "refuse"} => msg.type = "RequestVote"
    /\ receiver \in {"HeartBeat", "follow"} => msg.type = "HeartBeat"
    /\ receiver \in {"adopt", "clear", "demote", "reset"} =>
           msg.type \in {"RequestVote", "HeartBeat"}

\* The instance of an awaited peer has a request, unless it is just to get one.
AwaitedHaveRequests ==
    \A p \in Peer :
        awaitingVote[p] => \/ lastRequest[p] # None
                           \/ worker = "ask" /\ dest = p

LastRequestsSent ==
    \A p \in Peer :
        \/ lastRequest[p] \in sent \cup {None}
        \/ lastRequest[p].type = "RequestVoteResults" /\ ~lastRequest[p].voteGranted

\* A vote that is stored but not yet sent.
Granting ==
    /\ receiver \in {"clear", "demote", "reset", "accept"}
    /\ msg.type = "RequestVote"

CastVotes == {VoteIn(m) : m \in {x \in sent : IsVote(x)}}
             \cup IF Granting THEN {Vote(msg.peer, msg.term)} ELSE {}

\* No vote is ahead of currentTerm, and the fields remember the one of the term.
VotesRemembered ==
    \A v \in CastVotes :
        /\ v.term <= currentTerm
        /\ v.term = currentTerm =>
              \/ votedThisTerm /\ votedFor = v.candidate
              \/ receiver = "adopt" /\ msg.type = "RequestVote"

\* The vote that a handler is about to give is compatible with those given.
GrantIsCompatible ==
    (receiver \in {"grant", "adopt"} /\ msg.type = "RequestVote") =>
        \A v \in CastVotes : v.term = msg.term => v.candidate = msg.peer

CastOnce == \A v, w \in CastVotes : v.term = w.term => v = w

\* What a handler knows of the terms it has compared.
ComparedTerms ==
    /\ receiver = "term" =>
           \/ value = msg.term
           \/ value <= currentTerm /\ value > msg.term
    /\ receiver \in {"same", "vote", "grant", "adopt", "clear", "demote", "reset",
                       "accept"} /\ msg.type = "RequestVote" =>
           value = msg.term
    /\ receiver \in {"same", "grant", "adopt"} => currentTerm <= msg.term
    /\ receiver = "vote" =>
           \/ currentTerm <= msg.term
           \/ worker = "vote"
           \/ votedThisTerm /\ votedFor = Self
    /\ receiver = "adopt" =>
           \/ msg.type = "HeartBeat" /\ currentTerm < msg.term
           \/ votedThisTerm /\ votedFor = msg.peer

\* What the worker relies on during an election.
ElectionUndisturbed ==
    /\ ~(InElection /\ AboutToAdopt)
    /\ worker \in {"increment", "clear", "mark", "ask"} => ownTerm = currentTerm
    /\ worker = "vote" => \A v \in CastVotes : v.term < currentTerm
    /\ worker \in {"votes", "request", "clear", "mark", "ask"} =>
           votedThisTerm /\ votedFor = Self

UnracedInv ==
    /\ ElectionUndisturbed
    /\ ComparedTerms
    /\ VotesRemembered
    /\ GrantIsCompatible
    /\ CastOnce

\* The inductive invariant.
ThreadsInv ==
    /\ TypeOK
    /\ HandlesItsType
    /\ ResendsSomething
    /\ AwaitedHaveRequests
    /\ LastRequestsSent
    /\ "election" \notin raced => UnracedInv

\* The server stands: it leads, waits for votes, or counts one it waited for.
Standing ==
    \/ isLeader
    \/ \E p \in Peer : awaitingVote[p]
    \/ receiver \in {"load", "store", "quorum", "lead"}

\* What makes a server that stands the candidate of its term.  A handler that
\* adopts a term takes first the vote, then the term, then the candidacy away.
StandsForItself ==
    /\ isLeader => Peer # {}
    /\ worker = "ask" => dest \notin todo
    /\ worker = "mark" /\ todo # Peer => Requested(ownTerm)
    /\ Standing /\ ~InElection =>
          /\ receiver \notin {"clear", "demote"} => Requested(currentTerm)
          /\ receiver \notin {"adopt", "clear", "demote"} => votedFor = Self
    /\ receiver = "demote" /\ ~InElection /\ (\E p \in Peer : awaitingVote[p]) =>
          votedFor = Self /\ Requested(currentTerm)

\* What a leader's heartbeat relies on, from the role read to the last send.
BeatsForItself ==
    /\ worker \in {"heartbeat", "beat"} => Requested(currentTerm)
    /\ worker = "beating" => Requested(ownTerm)
    /\ \A m \in sent : m.type = "HeartBeat" => Requested(m.term)

\* The inductive invariant, with what it says of candidates and leaders.
CandidacyInv ==
    /\ ThreadsInv
    /\ "election" \notin raced => StandsForItself
    /\ raced = {} => BeatsForItself

\* Every message is handled to its end: the mutex that ResetElectionTimer takes
\* in a handler is not kept for ever.
HandlerReturns == (receiver # "idle") ~> (receiver = "idle")
=============================================================================
