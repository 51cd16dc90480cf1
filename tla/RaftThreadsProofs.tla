------------------------- MODULE RaftThreadsProofs -------------------------
(* The invariant of RaftThreads, for any peers and any bounds. *)
EXTENDS RaftThreads, TLAPS

BaseInv ==
    /\ TypeOK
    /\ HandlesItsType
    /\ ResendsSomething
    /\ AwaitedHaveRequests
    /\ LastRequestsSent

LEMMA MessageTypes ==
    /\ None \notin Message
    /\ \A type \in MessageType, p \in Peer, t \in Nat, g \in BOOLEAN :
          /\ NewMessage(type, p, t, g) \in Message
          /\ NewMessage(type, p, t, g).type = type
          /\ NewMessage(type, p, t, g).peer = p
          /\ NewMessage(type, p, t, g).term = t
          /\ NewMessage(type, p, t, g).voteGranted = g
BY DEF None, Message, NewMessage, MessageType

\* What SendMessage does to the instances and to what was sent.
LEMMA Sending ==
    ASSUME NEW m \in Message, SendMessage(m), LastRequestsSent,
           lastRequest \in [Peer -> Message \cup {None}], sent \subseteq Message
    PROVE  /\ lastRequest' \in [Peer -> Message \cup {None}]
           /\ sent' \subseteq Message
           /\ LastRequestsSent'
           /\ \A p \in Peer : lastRequest[p] # None => lastRequest'[p] # None
           /\ lastRequest'[m.peer] # None
<1>1. m.peer \in Peer /\ m # None
  BY MessageTypes DEF Message
<1>2. \A p \in Peer : lastRequest'[p] = IF p = m.peer THEN m ELSE lastRequest[p]
  BY <1>1 DEF SendMessage
<1>3. lastRequest' \in [Peer -> Message \cup {None}]
  BY <1>1 DEF SendMessage
<1>4. sent \subseteq sent' /\ sent' \subseteq Message
  BY DEF SendMessage
<1>5. m \in sent' \/ (m.type = "RequestVoteResults" /\ ~m.voteGranted)
  BY DEF SendMessage
<1> QED
  BY <1>1, <1>2, <1>3, <1>4, <1>5 DEF LastRequestsSent

LEMMA WorkerBase ==
    ASSUME BaseInv, WorkerNext, raced' = raced \cup Races'
    PROVE  BaseInv'
<1> USE DEF BaseInv, TypeOK, HandlesItsType, ResendsSomething, AwaitedHaveRequests, LastRequestsSent, WorkerAt, WorkerPlace, Races, sharedVars, voteVars, roleVars, sendVars, timeVars, receiverVars, locals
<1>1. CASE ClearInstances
  BY <1>1, MessageTypes DEF ClearInstances
<1>2. CASE StartWorker
  BY <1>2, MessageTypes DEF StartWorker
<1>3. CASE ReadTimer
  BY <1>3, MessageTypes DEF ReadTimer
<1>4. CASE ReadRole
  BY <1>4, MessageTypes DEF ReadRole
<1>5. CASE LoadTerm
  BY <1>5, MessageTypes DEF LoadTerm
<1>6. CASE StoreTerm
  <2>1. ownTerm + 1 \in Nat
    BY DEF TypeOK
  <2> QED
    BY <1>6, <2>1, MessageTypes DEF StoreTerm
<1>7. CASE VoteForSelf
  BY <1>7, MessageTypes DEF VoteForSelf
<1>8. CASE ResetVotes
  BY <1>8, MessageTypes DEF ResetVotes
<1>9. CASE MakeRequest
  BY <1>9, MessageTypes DEF MakeRequest
<1>10. CASE ClearAwaiting
  BY <1>10, MessageTypes DEF ClearAwaiting
<1>11. CASE Ask
  <2> DEFINE m == NewMessage("RequestVote", dest, ownTerm, FALSE)
  <2>1. dest \in Peer /\ ownTerm \in Nat
    BY <1>11 DEF Ask
  <2>2. m \in Message /\ m.peer = dest
    BY <2>1 DEF NewMessage, Message, MessageType
  <2>3. SendMessage(m)
    BY <1>11 DEF Ask
  <2> HIDE DEF m
  <2>4. lastRequest'[dest] # None
    BY <2>2, <2>3, Sending
  <2> QED
    BY <1>11, <2>1, <2>2, <2>3, <2>4, Sending DEF Ask
<1>12. CASE EndElection
  BY <1>12, MessageTypes DEF EndElection
<1>13. CASE BeginHeartBeat
  BY <1>13, MessageTypes DEF BeginHeartBeat
<1>14. CASE MakeHeartBeat
  BY <1>14, MessageTypes DEF MakeHeartBeat
<1>15. CASE EndHeartBeat
  BY <1>15, MessageTypes DEF EndHeartBeat
<1>16. CASE BeginRetransmission
  BY <1>16, MessageTypes DEF BeginRetransmission
<1>17. CASE Resend
  <2>1. lastRequest[dest] \in Message
    BY <1>17 DEF Resend
  <2>2. SendMessage(lastRequest[dest])
    BY <1>17 DEF Resend
  <2> QED
    BY <1>17, <2>1, <2>2, Sending DEF Resend
<1>18. CASE EndRetransmission
  BY <1>18, MessageTypes DEF EndRetransmission
<1>19. ASSUME NEW p \in Peer, Mark(p) PROVE BaseInv'
  <2>1. \A q \in Peer : awaitingVote'[q] => q = p \/ awaitingVote[q]
    BY <1>19 DEF Mark
  <2>2. awaitingVote' \in [Peer -> BOOLEAN]
    BY <1>19 DEF Mark
  <2> QED
    BY <1>19, <2>1, <2>2 DEF Mark
<1>20. ASSUME NEW p \in Peer, SendBeat(p) PROVE BaseInv'
  <2> DEFINE m == NewMessage("HeartBeat", p, ownTerm, FALSE)
  <2>1. m \in Message
    BY <1>20, MessageTypes DEF MessageType
  <2>2. SendMessage(m)
    BY <1>20 DEF SendBeat
  <2> QED
    BY <1>20, <2>1, <2>2, Sending DEF SendBeat
<1>21. ASSUME NEW p \in Peer, FindDue(p) PROVE BaseInv'
  BY <1>21, MessageTypes DEF FindDue
<1> QED
  BY <1>1, <1>2, <1>3, <1>4, <1>5, <1>6, <1>7, <1>8, <1>9, <1>10, <1>11, <1>12, <1>13, <1>14, <1>15, <1>16, <1>17, <1>18, <1>19, <1>20, <1>21 DEF WorkerNext

LEMMA IncomingTypes ==
    ASSUME TypeOK, NEW m \in Incoming
    PROVE  /\ m \in Message
           /\ m.type \in MessageType
<1>1. CASE m \in [type : {"RequestVote", "HeartBeat"}, peer : Peer, term : 1..MaxTerm,
                  voteGranted : {FALSE}]
  <2>1. 1..MaxTerm \subseteq Nat
    BY BoundAssumption
  <2>2. /\ m = [type |-> m.type, peer |-> m.peer, term |-> m.term,
               voteGranted |-> m.voteGranted]
        /\ m.type \in {"RequestVote", "HeartBeat"} /\ m.peer \in Peer
        /\ m.term \in 1..MaxTerm /\ m.voteGranted = FALSE
    BY <1>1
  <2> QED
    BY <2>1, <2>2 DEF Message, MessageType
<1>2. ASSUME NEW x \in sent, m = NewMessage("RequestVoteResults", x.peer, x.term, TRUE)
      PROVE  m \in Message /\ m.type \in MessageType
  BY <1>2 DEF TypeOK, NewMessage, Message, MessageType
<1> QED
  BY <1>1, <1>2 DEF Incoming

LEMMA HandlerBase ==
    ASSUME BaseInv, HandlerNext, raced' = raced \cup Races'
    PROVE  BaseInv'
<1> USE DEF BaseInv, TypeOK, HandlesItsType, ResendsSomething, AwaitedHaveRequests,
            LastRequestsSent, ReceiverAt, ReceiverPlace, MessageType, Races, sharedVars,
            voteVars, roleVars, sendVars, timeVars, workerVars
<1>0. msg \in Message => /\ msg.peer \in Peer
                         /\ msg.term \in Nat
                         /\ msg.type \in MessageType
  BY DEF Message
<1>1. CASE ChooseResponseTerm
  BY <1>1, <1>0 DEF ChooseResponseTerm
<1>2. CASE CompareTerm
  BY <1>2, <1>0 DEF CompareTerm
<1>3. CASE IsSameTerm
  BY <1>3, <1>0 DEF IsSameTerm
<1>4. CASE CompareVote
  BY <1>4, <1>0 DEF CompareVote
<1>5. CASE GrantVote
  BY <1>5, <1>0 DEF GrantVote
<1>6. CASE AdoptTerm
  BY <1>6, <1>0 DEF AdoptTerm
<1>7. CASE StopAwaiting
  BY <1>7, <1>0 DEF StopAwaiting
<1>8. CASE Demote
  BY <1>8, <1>0 DEF Demote
<1>9. CASE IsAwaited
  BY <1>9, <1>0 DEF IsAwaited
<1>10. CASE LoadVotes
  BY <1>10, <1>0 DEF LoadVotes
<1>11. CASE StoreVotes
  <2>1. value + 1 \in Nat
    OBVIOUS
  <2> QED
    BY <1>11, <1>0, <2>1 DEF StoreVotes
<1>12. CASE CheckQuorum
  BY <1>12, <1>0 DEF CheckQuorum
<1>13. CASE IsNewerTerm
  BY <1>13, <1>0 DEF IsNewerTerm
<1>14. CASE IsLeadersTerm
  BY <1>14, <1>0 DEF IsLeadersTerm
<1>15. CASE ResetElectionTimer
  BY <1>15, <1>0 DEF ResetElectionTimer
<1>16. CASE Respond
  <2> DEFINE m == NewMessage("RequestVoteResults", msg.peer, value, receiver = "accept")
  <2>1. m \in Message
    BY <1>16, <1>0 DEF Respond, NewMessage, Message
  <2>2. SendMessage(m)
    BY <1>16 DEF Respond
  <2> HIDE DEF m
  <2> QED
    BY <1>16, <2>1, <2>2, Sending DEF Respond
<1>17. CASE BecomeLeader
  BY <1>17, <1>0 DEF BecomeLeader
<1> QED
  BY <1>1, <1>2, <1>3, <1>4, <1>5, <1>6, <1>7, <1>8, <1>9, <1>10, <1>11, <1>12, <1>13, <1>14, <1>15, <1>16, <1>17 DEF HandlerNext

LEMMA BaseStep ==
    ASSUME BaseInv, [Next]_vars
    PROVE  BaseInv'
<1> USE DEF BaseInv, TypeOK, HandlesItsType, ResendsSomething, AwaitedHaveRequests,
            LastRequestsSent
<1>1. CASE WithRaces(Tick)
  <2>1. seconds' \in 0..MaxSeconds
    BY <1>1, BoundAssumption DEF WithRaces, Tick
  <2> QED
    BY <1>1, <2>1 DEF WithRaces, Tick, Races, voteVars, roleVars, sendVars, workerVars,
                      receiverVars
<1>2. CASE WithRaces(WorkerNext)
  BY <1>2, WorkerBase DEF WithRaces
<1>3. ASSUME NEW m \in Incoming, WithRaces(Receive(m))
      PROVE  BaseInv'
  <2>1. m \in Message /\ m.type \in MessageType
    BY IncomingTypes
  <2> QED
    BY <1>3, <2>1 DEF WithRaces, Receive, Races, ReceiverPlace, MessageType, sharedVars,
                      voteVars, roleVars, sendVars, timeVars, workerVars
<1>4. CASE WithRaces(HandlerNext)
  BY <1>4, HandlerBase DEF WithRaces
<1>5. CASE UNCHANGED vars
  BY <1>5 DEF vars, sharedVars, voteVars, roleVars, sendVars, timeVars, workerVars,
              receiverVars
<1> QED
  BY <1>1, <1>2, <1>3, <1>4, <1>5 DEF Next

LEMMA BaseInit == Init => BaseInv
<1> SUFFICES ASSUME Init PROVE BaseInv
  OBVIOUS
<1>1. seconds \in 0..MaxSeconds
  BY BoundAssumption DEF Init
<1>2. TypeOK
  BY <1>1 DEF Init, TypeOK, WorkerPlace, ReceiverPlace
<1> QED
  BY <1>2 DEF Init, BaseInv, HandlesItsType, ResendsSomething, AwaitedHaveRequests,
              LastRequestsSent

LEMMA VoteTypes ==
    ASSUME BaseInv
    PROVE  \A v \in CastVotes : v.term \in Nat /\ v = Vote(v.candidate, v.term)
<1>1. \A m \in sent : m.term \in Nat
  BY DEF BaseInv, TypeOK, Message
<1>2. Granting => msg.term \in Nat
  BY DEF BaseInv, TypeOK, Message, Granting
<1> QED
  BY <1>1, <1>2 DEF CastVotes, VoteIn, Vote

LEMMA SameVotes ==
    ASSUME sent' = sent, msg' = msg, Granting' <=> Granting
    PROVE  CastVotes' = CastVotes
BY DEF CastVotes

\* What a step that sends m adds to the votes.
LEMMA AddedVotes ==
    ASSUME NEW m, SendMessage(m), msg' = msg, Granting' => Granting
    PROVE  \A v \in CastVotes' : v \in CastVotes \/ (IsVote(m) /\ v = VoteIn(m))
BY DEF CastVotes, SendMessage

LEMMA UnracedWorker ==
    ASSUME BaseInv, UnracedInv, WorkerNext, ~(InElection /\ AboutToAdopt)'
    PROVE  UnracedInv'
<1> USE DEF UnracedInv, ElectionUndisturbed, ComparedTerms, VotesRemembered,
            GrantIsCompatible, CastOnce, WorkerAt, sharedVars, voteVars, roleVars,
            sendVars, timeVars, receiverVars, locals, InElection, AboutToAdopt
<1>0. /\ currentTerm \in Nat /\ ownTerm \in Nat /\ value \in Nat
      /\ receiver # "idle" => msg.term \in Nat
      /\ \A v \in CastVotes : v.term \in Nat /\ v = Vote(v.candidate, v.term)
  BY VoteTypes DEF BaseInv, TypeOK, Message
<1>a. UNCHANGED <<sent, receiverVars>> => CastVotes' = CastVotes
  BY SameVotes DEF Granting
<1>1. CASE StartWorker
  BY <1>1, <1>0, <1>a DEF StartWorker
<1>2. CASE ReadTimer
  BY <1>2, <1>0, <1>a DEF ReadTimer
<1>3. CASE ReadRole
  BY <1>3, <1>0, <1>a DEF ReadRole
<1>4. CASE LoadTerm
  BY <1>4, <1>0, <1>a DEF LoadTerm
<1>5. CASE StoreTerm
  BY <1>5, <1>0, <1>a DEF StoreTerm
<1>6. CASE VoteForSelf
  BY <1>6, <1>0, <1>a DEF VoteForSelf
<1>7. CASE ResetVotes
  BY <1>7, <1>0, <1>a DEF ResetVotes
<1>8. CASE MakeRequest
  BY <1>8, <1>0, <1>a DEF MakeRequest
<1>9. CASE ClearAwaiting
  BY <1>9, <1>0, <1>a DEF ClearAwaiting
<1>10. CASE EndElection
  BY <1>10, <1>0, <1>a DEF EndElection
<1>11. CASE BeginHeartBeat
  BY <1>11, <1>0, <1>a DEF BeginHeartBeat
<1>12. CASE MakeHeartBeat
  BY <1>12, <1>0, <1>a DEF MakeHeartBeat
<1>13. CASE EndHeartBeat
  BY <1>13, <1>0, <1>a DEF EndHeartBeat
<1>14. CASE BeginRetransmission
  BY <1>14, <1>0, <1>a DEF BeginRetransmission
<1>15. CASE EndRetransmission
  BY <1>15, <1>0, <1>a DEF EndRetransmission
<1>16. CASE ClearInstances
  BY <1>16, <1>0, <1>a DEF ClearInstances
<1>17. ASSUME NEW p \in Peer, Mark(p) PROVE UnracedInv'
  BY <1>17, <1>0, <1>a DEF Mark
<1>18. ASSUME NEW p \in Peer, FindDue(p) PROVE UnracedInv'
  BY <1>18, <1>0, <1>a DEF FindDue
<1>19. CASE Ask
  <2> DEFINE m == NewMessage("RequestVote", dest, ownTerm, FALSE)
  <2>1. SendMessage(m) /\ VoteIn(m) = Vote(Self, currentTerm)
    BY <1>19 DEF Ask, NewMessage, VoteIn
  <2> HIDE DEF m
  <2>2. \A v \in CastVotes' : v \in CastVotes \/ v = Vote(Self, currentTerm)
    BY <1>19, <2>1, AddedVotes DEF Ask, Granting
  <2>3. \A v \in CastVotes : v.term = currentTerm => v = Vote(Self, currentTerm)
    BY <1>0, <1>19 DEF Ask
  <2> QED
    BY <1>0, <1>19, <2>2, <2>3 DEF Ask, Vote
<1>20. ASSUME NEW p \in Peer, SendBeat(p) PROVE UnracedInv'
  <2> DEFINE m == NewMessage("HeartBeat", p, ownTerm, FALSE)
  <2>1. SendMessage(m) /\ ~IsVote(m)
    BY <1>20 DEF SendBeat, NewMessage, IsVote
  <2> HIDE DEF m
  <2>2. CastVotes' \subseteq CastVotes
    BY <1>20, <2>1, AddedVotes DEF SendBeat, Granting
  <2> QED
    BY <1>0, <1>20, <2>2 DEF SendBeat
<1>21. CASE Resend
  <2> DEFINE m == lastRequest[dest]
  <2>1. m \in sent \/ ~IsVote(m)
    BY <1>21 DEF Resend, BaseInv, TypeOK, ResendsSomething, LastRequestsSent, IsVote
  <2>2. SendMessage(m)
    BY <1>21 DEF Resend
  <2> HIDE DEF m
  <2>3. IsVote(m) => VoteIn(m) \in CastVotes
    BY <2>1 DEF CastVotes
  <2>4. CastVotes' \subseteq CastVotes
    BY <1>21, <2>2, <2>3, AddedVotes DEF Resend, Granting
  <2> QED
    BY <1>0, <1>21, <2>4 DEF Resend
<1> QED
  BY <1>1, <1>2, <1>3, <1>4, <1>5, <1>6, <1>7, <1>8, <1>9, <1>10, <1>11, <1>12, <1>13, <1>14, <1>15, <1>16, <1>17, <1>18, <1>19, <1>20, <1>21 DEF WorkerNext

LEMMA UnracedHandler ==
    ASSUME BaseInv, UnracedInv, HandlerNext, ~(InElection /\ AboutToAdopt)'
    PROVE  UnracedInv'
<1> USE DEF UnracedInv, ElectionUndisturbed, ComparedTerms, VotesRemembered,
            GrantIsCompatible, CastOnce, ReceiverAt, sharedVars, voteVars, roleVars,
            sendVars, timeVars, workerVars, InElection, AboutToAdopt
<1>0. /\ currentTerm \in Nat /\ value \in Nat /\ votesForUs \in Nat
      /\ receiver # "idle" => msg.term \in Nat /\ msg.peer \in Peer
      /\ \A v \in CastVotes : v.term \in Nat /\ v = Vote(v.candidate, v.term)
  BY VoteTypes DEF BaseInv, TypeOK, Message
<1>a. sent' = sent /\ msg' = msg /\ (Granting' <=> Granting) => CastVotes' = CastVotes
  BY SameVotes
<1>1. CASE ChooseResponseTerm
  BY <1>1, <1>0, <1>a DEF ChooseResponseTerm, Granting, BaseInv, HandlesItsType
<1>2. CASE CompareTerm
  BY <1>2, <1>0, <1>a DEF CompareTerm, Granting, BaseInv, HandlesItsType
<1>3. CASE IsSameTerm
  BY <1>3, <1>0, <1>a DEF IsSameTerm, Granting, BaseInv, HandlesItsType
<1>4. CASE CompareVote
  <2>1. msg.peer # Self
    BY <1>0, <1>4, NamesAssumption DEF CompareVote, Self
  <2> QED
    BY <1>0, <1>4, <1>a, <2>1 DEF CompareVote, Granting, BaseInv, HandlesItsType
<1>5. CASE GrantVote
  BY <1>5, <1>0, <1>a DEF GrantVote, Granting, BaseInv, HandlesItsType
<1>6. CASE StopAwaiting
  BY <1>6, <1>0, <1>a DEF StopAwaiting, Granting, BaseInv, HandlesItsType
<1>7. CASE Demote
  BY <1>7, <1>0, <1>a DEF Demote, Granting, BaseInv, HandlesItsType
<1>8. CASE IsAwaited
  BY <1>8, <1>0, <1>a DEF IsAwaited, Granting, BaseInv, HandlesItsType
<1>9. CASE LoadVotes
  BY <1>9, <1>0, <1>a DEF LoadVotes, Granting, BaseInv, HandlesItsType
<1>10. CASE StoreVotes
  BY <1>10, <1>0, <1>a DEF StoreVotes, Granting, BaseInv, HandlesItsType
<1>11. CASE CheckQuorum
  BY <1>11, <1>0, <1>a DEF CheckQuorum, Granting, BaseInv, HandlesItsType
<1>12. CASE IsNewerTerm
  BY <1>12, <1>0, <1>a DEF IsNewerTerm, Granting, BaseInv, HandlesItsType
<1>13. CASE IsLeadersTerm
  BY <1>13, <1>0, <1>a DEF IsLeadersTerm, Granting, BaseInv, HandlesItsType
<1>14. CASE ResetElectionTimer
  BY <1>14, <1>0, <1>a DEF ResetElectionTimer, Granting, BaseInv, HandlesItsType
<1>15. CASE AdoptTerm
  <2>1. \A v \in CastVotes' :
           \/ v \in CastVotes
           \/ msg.type = "RequestVote" /\ v = Vote(msg.peer, msg.term)
    BY <1>15 DEF AdoptTerm, CastVotes, Granting
  <2>2. msg.type = "RequestVote" =>
           \A v \in CastVotes : v.term = msg.term => v = Vote(msg.peer, msg.term)
    BY <1>0, <1>15 DEF AdoptTerm
  <2> QED
    BY <1>0, <1>15, <2>1, <2>2 DEF AdoptTerm, Vote, BaseInv, HandlesItsType
<1>16. CASE Respond
  <2> DEFINE m == NewMessage("RequestVoteResults", msg.peer, value, receiver = "accept")
  <2>1. /\ SendMessage(m)
        /\ IsVote(m) => receiver = "accept"
        /\ VoteIn(m) = Vote(msg.peer, value)
    BY <1>16 DEF Respond, NewMessage, IsVote, VoteIn
  <2> HIDE DEF m
  <2>2. receiver = "accept" => Vote(msg.peer, value) \in CastVotes
    BY <1>16 DEF BaseInv, HandlesItsType, CastVotes, Granting
  <2>3. CastVotes' \subseteq CastVotes
    BY <1>16, <2>1, <2>2, AddedVotes DEF Respond, Granting
  <2> QED
    BY <1>0, <1>16, <2>3 DEF Respond
<1>17. CASE BecomeLeader
  BY <1>17, <1>0, <1>a DEF BecomeLeader, Granting, BaseInv, HandlesItsType
<1> QED
  BY <1>1, <1>2, <1>3, <1>4, <1>5, <1>6, <1>7, <1>8, <1>9, <1>10, <1>11, <1>12, <1>13, <1>14, <1>15, <1>16, <1>17 DEF HandlerNext

LEMMA UnracedStep ==
    ASSUME BaseInv, UnracedInv, [Next]_vars, "election" \notin raced'
    PROVE  UnracedInv'
<1> USE DEF WithRaces
<1>1. raced' = raced \cup Races' => ~(InElection /\ AboutToAdopt)'
  BY DEF Races
<1>2. ASSUME UNCHANGED <<sent, voteVars, workerVars>>, Granting' <=> Granting,
             \/ UNCHANGED receiverVars
             \/ receiver = "idle" /\ receiver' \in MessageType
      PROVE  UnracedInv'
  <2> USE DEF UnracedInv, ElectionUndisturbed, ComparedTerms, VotesRemembered,
              GrantIsCompatible, CastOnce, InElection, AboutToAdopt, voteVars, workerVars
  <2>1. UNCHANGED msg \/ ~Granting
    BY <1>2 DEF receiverVars, Granting
  <2>2. CastVotes' = CastVotes
    BY <1>2, <2>1 DEF CastVotes
  <2>3. CASE UNCHANGED receiverVars
    BY <1>2, <2>2, <2>3 DEF receiverVars
  <2>4. CASE receiver = "idle" /\ receiver' \in MessageType
    <3>1. \/ receiver' = "RequestVote"
          \/ receiver' = "RequestVoteResults"
          \/ receiver' = "HeartBeat"
      BY <2>4 DEF MessageType
    <3>2. ElectionUndisturbed' /\ ComparedTerms' /\ GrantIsCompatible'
      BY <1>2, <2>2, <2>4, <3>1
    <3>3. VotesRemembered' /\ CastOnce'
      BY <1>2, <2>2, <2>4, <3>1
    <3> QED
      BY <3>2, <3>3
  <2> QED
    BY <1>2, <2>3, <2>4
<1>3. CASE WithRaces(Tick)
  BY <1>2, <1>3 DEF Tick, sendVars, Granting, receiverVars
<1>4. CASE WithRaces(WorkerNext)
  BY <1>1, <1>4, UnracedWorker
<1>5. ASSUME NEW m \in Incoming, WithRaces(Receive(m))
      PROVE  UnracedInv'
  BY <1>2, <1>5, IncomingTypes DEF Receive, BaseInv, MessageType, Granting, sharedVars,
     sendVars
<1>6. CASE WithRaces(HandlerNext)
  BY <1>1, <1>6, UnracedHandler
<1>7. CASE UNCHANGED vars
  BY <1>2, <1>7 DEF vars, sharedVars, sendVars, receiverVars, Granting
<1> QED
  BY <1>3, <1>4, <1>5, <1>6, <1>7 DEF Next

LEMMA ThreadsInit == Init => ThreadsInv
<1> SUFFICES ASSUME Init PROVE ThreadsInv
  OBVIOUS
<1>1. CastVotes = {}
  BY DEF Init, CastVotes, Granting
<1>2. UnracedInv
  BY <1>1 DEF Init, UnracedInv, ElectionUndisturbed, ComparedTerms, VotesRemembered,
              GrantIsCompatible, CastOnce, InElection, AboutToAdopt
<1> QED
  BY <1>2, BaseInit DEF ThreadsInv, BaseInv

LEMMA ThreadsStep == ThreadsInv /\ [Next]_vars => ThreadsInv'
<1> SUFFICES ASSUME ThreadsInv, [Next]_vars PROVE ThreadsInv'
  OBVIOUS
<1>1. BaseInv /\ BaseInv'
  BY BaseStep DEF ThreadsInv, BaseInv
<1>2. raced \subseteq raced'
  BY DEF Next, WithRaces, vars
<1>3. "election" \notin raced' => UnracedInv'
  BY <1>1, <1>2, UnracedStep DEF ThreadsInv
<1> QED
  BY <1>1, <1>3 DEF ThreadsInv, BaseInv

\* The invariant holds of every execution of the two threads.
THEOREM ThreadsInvariant == Spec => []ThreadsInv
  BY ThreadsInit, ThreadsStep, PTL DEF Spec

\* Every variable stays in its type, for all peers and bounds.
THEOREM ThreadsTypeCorrect == Spec => []TypeOK
<1>1. ThreadsInv => TypeOK
  BY DEF ThreadsInv
<1> QED
  BY <1>1, ThreadsInvariant, PTL

\* DoRetransmission never sends a null message.
THEOREM ResendsAMessage == Spec => []ResendsSomething
<1>1. ThreadsInv => ResendsSomething
  BY DEF ThreadsInv
<1> QED
  BY <1>1, ThreadsInvariant, PTL

\* However the statements of the two threads interleave, the server votes once
\* in a term as long as no grant overlaps StartElection.
THEOREM VotesOnceUnlessRaced == Spec => []OneVotePerTerm
<1>1. ThreadsInv => OneVotePerTerm
  <2> SUFFICES ASSUME ThreadsInv, "election" \notin raced,
                      NEW m \in sent, NEW n \in sent, IsVote(m), IsVote(n),
                      m.term = n.term
               PROVE  VoteIn(m) = VoteIn(n)
    BY DEF OneVotePerTerm
  <2>1. VoteIn(m) \in CastVotes /\ VoteIn(n) \in CastVotes
    BY DEF CastVotes
  <2>2. VoteIn(m).term = VoteIn(n).term
    BY DEF VoteIn, Vote
  <2> QED
    BY <2>1, <2>2 DEF ThreadsInv, UnracedInv, CastOnce
<1> QED
  BY <1>1, ThreadsInvariant, PTL

\* Nor does its term fall: what a handler has compared, and what StartElection
\* has loaded, is still so when it is stored.
THEOREM TermFallsOnlyInARace == Spec => TermNeverFalls
<1>1. ASSUME ThreadsInv, ThreadsInv', [Next]_vars, "election" \notin raced'
      PROVE  currentTerm' >= currentTerm
  <2>1. "election" \notin raced
    BY <1>1 DEF Next, WithRaces, vars
  <2>2. currentTerm \in Nat /\ (receiver = "adopt" => msg.term \in Nat)
    BY <1>1 DEF ThreadsInv, TypeOK, Message
  <2>3. /\ worker = "increment" => ownTerm = currentTerm
        /\ receiver = "adopt" => currentTerm <= msg.term
    BY <1>1, <2>1 DEF ThreadsInv, UnracedInv, ElectionUndisturbed, ComparedTerms
  <2>4. \/ currentTerm' = currentTerm
        \/ worker = "increment" /\ currentTerm' = ownTerm + 1
        \/ receiver = "adopt" /\ currentTerm' = msg.term
    <3> USE <1>1 DEF voteVars, sharedVars, WithRaces
    <3>1. CASE WorkerNext
      BY <3>1 DEF WorkerNext, ClearInstances, StartWorker, ReadTimer, ReadRole, LoadTerm,
         StoreTerm, VoteForSelf, ResetVotes, MakeRequest, ClearAwaiting, Ask, EndElection,
         BeginHeartBeat, MakeHeartBeat, EndHeartBeat, BeginRetransmission, Resend,
         EndRetransmission, Mark, SendBeat, FindDue, WorkerAt
    <3>2. CASE HandlerNext
      BY <3>2 DEF HandlerNext, ChooseResponseTerm, CompareTerm, IsSameTerm, CompareVote,
         GrantVote, AdoptTerm, StopAwaiting, Demote, Respond, IsAwaited, LoadVotes,
         StoreVotes, CheckQuorum, BecomeLeader, IsNewerTerm, IsLeadersTerm,
         ResetElectionTimer, ReceiverAt
    <3> QED
      BY <3>1, <3>2 DEF Next, Tick, Receive, vars
  <2> QED
    BY <2>2, <2>3, <2>4
<1> QED
  BY <1>1, ThreadsInvariant, PTL DEF Spec, TermNeverFalls

-----------------------------------------------------------------------------
(* Candidates and leaders. *)

\* A request once sent stays sent.
LEMMA RequestsStay ==
    ASSUME [Next]_vars
    PROVE  /\ sent \subseteq sent'
           /\ \A t : Requested(t) => Requested(t)'
<1>1. sent \subseteq sent'
  <2> USE DEF WithRaces, sharedVars, voteVars, roleVars, sendVars, timeVars, SendMessage
  <2>1. CASE WithRaces(WorkerNext)
    BY <2>1 DEF WorkerNext, ClearInstances, StartWorker, ReadTimer, ReadRole, LoadTerm,
       StoreTerm, VoteForSelf, ResetVotes, MakeRequest, ClearAwaiting, Ask, EndElection,
       BeginHeartBeat, MakeHeartBeat, EndHeartBeat, BeginRetransmission, Resend,
       EndRetransmission, Mark, SendBeat, FindDue
  <2>2. CASE WithRaces(HandlerNext)
    BY <2>2 DEF HandlerNext, ChooseResponseTerm, CompareTerm, IsSameTerm, CompareVote,
       GrantVote, AdoptTerm, StopAwaiting, Demote, Respond, IsAwaited, LoadVotes,
       StoreVotes, CheckQuorum, BecomeLeader, IsNewerTerm, IsLeadersTerm,
       ResetElectionTimer
  <2> QED
    BY <2>1, <2>2 DEF Next, Tick, Receive, vars
<1> QED
  BY <1>1 DEF Requested

LEMMA StandsWorker ==
    ASSUME BaseInv, UnracedInv, StandsForItself, WorkerNext,
           ~(InElection /\ AboutToAdopt)',
           \A t : Requested(t) => Requested(t)'
    PROVE  StandsForItself'
<1> USE DEF StandsForItself, Standing, UnracedInv, ElectionUndisturbed, WorkerAt,
            sharedVars, voteVars, roleVars, sendVars, timeVars, receiverVars, locals,
            InElection, AboutToAdopt
<1>0. /\ awaitingVote \in [Peer -> BOOLEAN] /\ todo \subseteq Peer
      /\ isLeader \in BOOLEAN
      /\ worker \in {"ask", "resend"} => dest \in Peer
      /\ receiver # "idle" => msg.peer \in Peer
  BY DEF BaseInv, TypeOK, Message
<1>1. CASE ClearInstances
  BY <1>1, <1>0 DEF ClearInstances
<1>2. CASE StartWorker
  BY <1>2, <1>0 DEF StartWorker
<1>3. CASE ReadTimer
  BY <1>3, <1>0 DEF ReadTimer
<1>4. CASE ReadRole
  BY <1>4, <1>0 DEF ReadRole
<1>5. CASE LoadTerm
  BY <1>5, <1>0 DEF LoadTerm
<1>6. CASE StoreTerm
  BY <1>6, <1>0 DEF StoreTerm
<1>7. CASE VoteForSelf
  BY <1>7, <1>0 DEF VoteForSelf
<1>8. CASE ResetVotes
  BY <1>8, <1>0 DEF ResetVotes
<1>9. CASE MakeRequest
  BY <1>9, <1>0 DEF MakeRequest
<1>10. CASE ClearAwaiting
  BY <1>10, <1>0 DEF ClearAwaiting
<1>11. CASE BeginHeartBeat
  BY <1>11, <1>0 DEF BeginHeartBeat
<1>12. CASE MakeHeartBeat
  BY <1>12, <1>0 DEF MakeHeartBeat
<1>13. CASE EndHeartBeat
  BY <1>13, <1>0 DEF EndHeartBeat
<1>14. CASE BeginRetransmission
  BY <1>14, <1>0 DEF BeginRetransmission
<1>15. CASE Resend
  BY <1>15, <1>0 DEF Resend
<1>16. CASE EndRetransmission
  BY <1>16, <1>0 DEF EndRetransmission
<1>17. CASE Ask
  <2> DEFINE m == NewMessage("RequestVote", dest, ownTerm, FALSE)
  <2>1. m \in sent' /\ m.type = "RequestVote" /\ m.term = ownTerm
    BY <1>17 DEF Ask, SendMessage, NewMessage
  <2>2. Requested(ownTerm)'
    BY <1>17, <2>1 DEF Ask, Requested
  <2> QED
    BY <1>17, <1>0, <2>2 DEF Ask
<1>18. CASE EndElection
  <2>1. votedFor = Self /\ ownTerm = currentTerm /\ todo = {} /\ worker = "mark"
    BY <1>18 DEF EndElection
  <2>2. Peer # {} => Requested(currentTerm)
    BY <2>1
  <2> QED
    BY <1>18, <1>0, <2>1, <2>2 DEF EndElection
<1>19. ASSUME NEW p \in Peer, Mark(p) PROVE StandsForItself'
  BY <1>19, <1>0 DEF Mark
<1>20. ASSUME NEW p \in Peer, SendBeat(p) PROVE StandsForItself'
  BY <1>20, <1>0 DEF SendBeat
<1>21. ASSUME NEW p \in Peer, FindDue(p) PROVE StandsForItself'
  BY <1>21, <1>0 DEF FindDue
<1> QED
  BY <1>1, <1>2, <1>3, <1>4, <1>5, <1>6, <1>7, <1>8, <1>9, <1>10, <1>11, <1>12, <1>13, <1>14, <1>15, <1>16, <1>17, <1>18, <1>19, <1>20, <1>21 DEF WorkerNext

LEMMA StandsHandler ==
    ASSUME BaseInv, UnracedInv, StandsForItself, HandlerNext,
           ~(InElection /\ AboutToAdopt)',
           \A t : Requested(t) => Requested(t)'
    PROVE  StandsForItself'
<1> USE DEF StandsForItself, Standing, ReceiverAt, sharedVars, voteVars, roleVars,
            sendVars, timeVars, workerVars, InElection, AboutToAdopt
<1>0. /\ awaitingVote \in [Peer -> BOOLEAN] /\ isLeader \in BOOLEAN
      /\ receiver # "idle" => msg.peer \in Peer
      /\ receiver \in {"adopt", "clear", "demote", "reset"} =>
             msg.type \in {"RequestVote", "HeartBeat"}
  BY DEF BaseInv, TypeOK, HandlesItsType, Message
<1>1. CASE ChooseResponseTerm
  BY <1>1, <1>0 DEF ChooseResponseTerm
<1>2. CASE CompareTerm
  BY <1>2, <1>0 DEF CompareTerm
<1>3. CASE IsSameTerm
  BY <1>3, <1>0 DEF IsSameTerm
<1>4. CASE CompareVote
  BY <1>4, <1>0 DEF CompareVote
<1>5. CASE GrantVote
  BY <1>5, <1>0 DEF GrantVote
<1>6. CASE AdoptTerm
  BY <1>6, <1>0 DEF AdoptTerm
<1>7. CASE StopAwaiting
  BY <1>7, <1>0 DEF StopAwaiting
<1>8. CASE Demote
  BY <1>8, <1>0 DEF Demote
<1>9. CASE Respond
  BY <1>9, <1>0 DEF Respond
<1>10. CASE IsAwaited
  BY <1>10, <1>0 DEF IsAwaited
<1>11. CASE LoadVotes
  BY <1>11, <1>0 DEF LoadVotes
<1>12. CASE StoreVotes
  BY <1>12, <1>0 DEF StoreVotes
<1>13. CASE CheckQuorum
  BY <1>13, <1>0 DEF CheckQuorum
<1>14. CASE IsNewerTerm
  BY <1>14, <1>0 DEF IsNewerTerm
<1>15. CASE IsLeadersTerm
  BY <1>15, <1>0 DEF IsLeadersTerm
<1>16. CASE ResetElectionTimer
  BY <1>16, <1>0 DEF ResetElectionTimer
<1>17. CASE BecomeLeader
  BY <1>17, <1>0 DEF BecomeLeader
<1> QED
  BY <1>1, <1>2, <1>3, <1>4, <1>5, <1>6, <1>7, <1>8, <1>9, <1>10, <1>11, <1>12, <1>13, <1>14, <1>15, <1>16, <1>17 DEF HandlerNext

LEMMA BeatsWorker ==
    ASSUME BaseInv, StandsForItself, BeatsForItself, WorkerNext, ~UnderHeartBeat',
           \A t : Requested(t) => Requested(t)'
    PROVE  BeatsForItself'
<1> USE DEF BeatsForItself, StandsForItself, Standing, WorkerAt, sharedVars, voteVars,
            roleVars, sendVars, timeVars, receiverVars, locals, InElection,
            UnderHeartBeat
<1>1. CASE ClearInstances
  BY <1>1 DEF ClearInstances
<1>2. CASE StartWorker
  BY <1>2 DEF StartWorker
<1>3. CASE ReadTimer
  BY <1>3 DEF ReadTimer
<1>4. CASE ReadRole
  BY <1>4 DEF ReadRole
<1>5. CASE LoadTerm
  BY <1>5 DEF LoadTerm
<1>6. CASE StoreTerm
  BY <1>6 DEF StoreTerm
<1>7. CASE VoteForSelf
  BY <1>7 DEF VoteForSelf
<1>8. CASE ResetVotes
  BY <1>8 DEF ResetVotes
<1>9. CASE MakeRequest
  BY <1>9 DEF MakeRequest
<1>10. CASE ClearAwaiting
  BY <1>10 DEF ClearAwaiting
<1>11. CASE EndElection
  BY <1>11 DEF EndElection
<1>12. CASE BeginHeartBeat
  BY <1>12 DEF BeginHeartBeat
<1>13. CASE MakeHeartBeat
  BY <1>13 DEF MakeHeartBeat
<1>14. CASE EndHeartBeat
  BY <1>14 DEF EndHeartBeat
<1>15. CASE BeginRetransmission
  BY <1>15 DEF BeginRetransmission
<1>16. CASE EndRetransmission
  BY <1>16 DEF EndRetransmission
<1>17. CASE Ask
  <2> DEFINE m == NewMessage("RequestVote", dest, ownTerm, FALSE)
  <2>1. sent' = sent \cup {m} /\ m.type # "HeartBeat"
    BY <1>17 DEF Ask, SendMessage, NewMessage
  <2> HIDE DEF m
  <2> QED
    BY <1>17, <2>1 DEF Ask
<1>18. CASE Resend
  <2> DEFINE m == lastRequest[dest]
  <2>1. m \in sent \/ (m.type = "RequestVoteResults" /\ ~m.voteGranted)
    BY <1>18 DEF Resend, BaseInv, TypeOK, ResendsSomething, LastRequestsSent
  <2>2. sent' = sent
    BY <1>18, <2>1 DEF Resend, SendMessage
  <2> QED
    BY <1>18, <2>2 DEF Resend
<1>19. ASSUME NEW p \in Peer, SendBeat(p) PROVE BeatsForItself'
  <2> DEFINE m == NewMessage("HeartBeat", p, ownTerm, FALSE)
  <2>1. sent' = sent \cup {m} /\ m.term = ownTerm
    BY <1>19 DEF SendBeat, SendMessage, NewMessage
  <2> HIDE DEF m
  <2> QED
    BY <1>19, <2>1 DEF SendBeat
<1>20. ASSUME NEW p \in Peer, Mark(p) PROVE BeatsForItself'
  BY <1>20 DEF Mark
<1>21. ASSUME NEW p \in Peer, FindDue(p) PROVE BeatsForItself'
  BY <1>21 DEF FindDue
<1> QED
  BY <1>1, <1>2, <1>3, <1>4, <1>5, <1>6, <1>7, <1>8, <1>9, <1>10, <1>11, <1>12, <1>13, <1>14, <1>15, <1>16, <1>17, <1>18, <1>19, <1>20, <1>21 DEF WorkerNext

LEMMA BeatsHandler ==
    ASSUME BaseInv, BeatsForItself, HandlerNext, ~UnderHeartBeat',
           \A t : Requested(t) => Requested(t)'
    PROVE  BeatsForItself'
<1> USE DEF BeatsForItself, ReceiverAt, sharedVars, voteVars, roleVars, sendVars,
            timeVars, workerVars, UnderHeartBeat
<1>1. CASE ChooseResponseTerm
  BY <1>1 DEF ChooseResponseTerm
<1>2. CASE CompareTerm
  BY <1>2 DEF CompareTerm
<1>3. CASE IsSameTerm
  BY <1>3 DEF IsSameTerm
<1>4. CASE CompareVote
  BY <1>4 DEF CompareVote
<1>5. CASE GrantVote
  BY <1>5 DEF GrantVote
<1>6. CASE AdoptTerm
  BY <1>6 DEF AdoptTerm
<1>7. CASE StopAwaiting
  BY <1>7 DEF StopAwaiting
<1>8. CASE Demote
  BY <1>8 DEF Demote
<1>9. CASE Respond
  <2> DEFINE m == NewMessage("RequestVoteResults", msg.peer, value, receiver = "accept")
  <2>1. sent' \subseteq sent \cup {m} /\ m.type # "HeartBeat"
    BY <1>9 DEF Respond, SendMessage, NewMessage
  <2> HIDE DEF m
  <2> QED
    BY <1>9, <2>1 DEF Respond
<1>10. CASE IsAwaited
  BY <1>10 DEF IsAwaited
<1>11. CASE LoadVotes
  BY <1>11 DEF LoadVotes
<1>12. CASE StoreVotes
  BY <1>12 DEF StoreVotes
<1>13. CASE CheckQuorum
  BY <1>13 DEF CheckQuorum
<1>14. CASE IsNewerTerm
  BY <1>14 DEF IsNewerTerm
<1>15. CASE IsLeadersTerm
  BY <1>15 DEF IsLeadersTerm
<1>16. CASE ResetElectionTimer
  BY <1>16 DEF ResetElectionTimer
<1>17. CASE BecomeLeader
  BY <1>17 DEF BecomeLeader
<1> QED
  BY <1>1, <1>2, <1>3, <1>4, <1>5, <1>6, <1>7, <1>8, <1>9, <1>10, <1>11, <1>12, <1>13, <1>14, <1>15, <1>16, <1>17 DEF HandlerNext

LEMMA StandsStep ==
    ASSUME ThreadsInv, StandsForItself, [Next]_vars, "election" \notin raced'
    PROVE  StandsForItself'
<1>0. BaseInv /\ UnracedInv /\ \A t : Requested(t) => Requested(t)'
  <2>1. raced \subseteq raced'
    BY DEF Next, WithRaces, vars
  <2> QED
    BY <2>1, RequestsStay DEF ThreadsInv, BaseInv
<1>1. raced' = raced \cup Races' => ~(InElection /\ AboutToAdopt)'
  BY DEF Races
<1>2. ASSUME UNCHANGED <<sent, voteVars, roleVars, workerVars>>,
             \/ UNCHANGED receiver
             \/ receiver = "idle" /\ receiver' \in MessageType
      PROVE  StandsForItself'
  BY <1>0, <1>2 DEF StandsForItself, Standing, InElection, MessageType, voteVars,
     roleVars, workerVars
<1>3. CASE WithRaces(Tick)
  BY <1>2, <1>3 DEF WithRaces, Tick, sendVars, receiverVars
<1>4. CASE WithRaces(WorkerNext)
  BY <1>0, <1>1, <1>4, StandsWorker DEF WithRaces
<1>5. ASSUME NEW m \in Incoming, WithRaces(Receive(m))
      PROVE  StandsForItself'
  BY <1>2, <1>5, IncomingTypes DEF WithRaces, Receive, ThreadsInv, sharedVars, sendVars
<1>6. CASE WithRaces(HandlerNext)
  BY <1>0, <1>1, <1>6, StandsHandler DEF WithRaces
<1>7. CASE UNCHANGED vars
  BY <1>2, <1>7 DEF vars, sharedVars, sendVars, receiverVars
<1> QED
  BY <1>3, <1>4, <1>5, <1>6, <1>7 DEF Next

LEMMA BeatsStep ==
    ASSUME ThreadsInv, StandsForItself, BeatsForItself, [Next]_vars, raced' = {}
    PROVE  BeatsForItself'
<1>0. BaseInv /\ \A t : Requested(t) => Requested(t)'
  BY RequestsStay DEF ThreadsInv, BaseInv
<1>1. raced' = raced \cup Races' => ~UnderHeartBeat'
  BY DEF Races
<1>2. ASSUME UNCHANGED <<sent, voteVars, workerVars>>
      PROVE  BeatsForItself'
  BY <1>0, <1>2 DEF BeatsForItself, voteVars, workerVars
<1>3. CASE WithRaces(Tick)
  BY <1>2, <1>3 DEF WithRaces, Tick, sendVars
<1>4. CASE WithRaces(WorkerNext)
  BY <1>0, <1>1, <1>4, BeatsWorker DEF WithRaces
<1>5. ASSUME NEW m \in Incoming, WithRaces(Receive(m))
      PROVE  BeatsForItself'
  BY <1>2, <1>5 DEF WithRaces, Receive, sharedVars, sendVars
<1>6. CASE WithRaces(HandlerNext)
  BY <1>0, <1>1, <1>6, BeatsHandler DEF WithRaces
<1>7. CASE UNCHANGED vars
  BY <1>2, <1>7 DEF vars, sharedVars, sendVars
<1> QED
  BY <1>3, <1>4, <1>5, <1>6, <1>7 DEF Next

LEMMA CandidacyInit == Init => CandidacyInv
<1> SUFFICES ASSUME Init PROVE CandidacyInv
  OBVIOUS
<1>1. StandsForItself
  BY DEF Init, StandsForItself, Standing
<1>2. BeatsForItself
  BY DEF Init, BeatsForItself
<1> QED
  BY <1>1, <1>2, ThreadsInit DEF CandidacyInv

LEMMA CandidacyStep == CandidacyInv /\ [Next]_vars => CandidacyInv'
<1> SUFFICES ASSUME CandidacyInv, [Next]_vars PROVE CandidacyInv'
  OBVIOUS
<1>1. ThreadsInv'
  BY ThreadsStep DEF CandidacyInv
<1>2. raced \subseteq raced'
  BY DEF Next, WithRaces, vars
<1>3. "election" \notin raced' => StandsForItself'
  BY <1>2, StandsStep DEF CandidacyInv
<1>4. raced' = {} => BeatsForItself'
  BY <1>2, BeatsStep DEF CandidacyInv
<1> QED
  BY <1>1, <1>3, <1>4 DEF CandidacyInv

\* The invariant with what it says of candidates and leaders holds of every
\* execution, too.
THEOREM CandidacyInvariant == Spec => []CandidacyInv
  BY CandidacyInit, CandidacyStep, PTL DEF Spec

\* Between elections and grants, a leader and a server that awaits votes is the
\* candidate of its present term, as long as no grant overlapped StartElection.
THEOREM CandidaciesOwn == Spec => []CandidacyIsOwn
<1>1. CandidacyInv => CandidacyIsOwn
  BY DEF CandidacyInv, StandsForItself, Standing, CandidacyIsOwn
<1> QED
  BY <1>1, CandidacyInvariant, PTL

\* SendHeartBeat announces only terms the server stood for, as long as neither
\* overlap happens.
THEOREM HeartBeatsOwn == Spec => []HeartBeatsAreOwn
<1>1. CandidacyInv => HeartBeatsAreOwn
  BY DEF CandidacyInv, BeatsForItself, HeartBeatsAreOwn
<1> QED
  BY <1>1, CandidacyInvariant, PTL
=============================================================================
