-------------------------- MODULE HttpServerProofs --------------------------
(***************************************************************************)
(* The descriptors and events of HttpServer, for every number of clients and  *)
(* descriptors; that it keeps the promise of HttpExchange; and what it        *)
(* answers, and when it stops, for all requests, segments and leftovers.     *)
(***************************************************************************)
EXTENDS HttpServer, HttpRequestParserProofs

(* What is known of the events that are left, of the batch that kevent returned:
   - data is announced only for a descriptor that is open, was open then, and that
     no other event of the batch closes;
   - EOF is announced only for a client that has ended, unless the descriptor has
     gone to a connection accepted since;
   - the descriptor that is answered on is open and no data is left for it. *)
DataCurrent ==
    \A e \in events : Data(e) =>
        /\ e.fd \in Owned /\ owner[e.fd] \notin fresh
        /\ \A f \in events : f.fd = e.fd => ~f.eof

EofDeserved ==
    \A e \in events, c \in Client :
        e.eof /\ Serves(e.fd, c) => c \in fresh \/ peer[c] # "sending"

ReplyCurrent ==
    at = "respond" =>
        /\ current.fd \in Owned /\ owner[current.fd] \notin fresh
        /\ \A e \in events : Data(e) => e.fd # current.fd

IInv == TypeOK /\ OneDescriptorEach /\ DataCurrent /\ EofDeserved /\ ReplyCurrent

\* What closing a descriptor does to the table.
LEMMA Closing ==
    ASSUME TypeOK, OneDescriptorEach,
           NEW fd, NEW s \in {"answered", "dropped"}, Close(fd, s)
    PROVE  /\ stage' \in [Client -> {"idle", "backlog", "open", "answered", "dropped"}]
           /\ owner' \in [Descriptor -> Client \cup {NoClient}]
           /\ Owned' = Owned \ {fd}
           /\ \A d \in Owned' : owner'[d] = owner[d]
           /\ writeKnotes' \subseteq Owned'
           /\ OneDescriptorEach'
<1>1. /\ stage' \in [Client -> {"idle", "backlog", "open", "answered", "dropped"}]
      /\ owner' \in [Descriptor -> Client \cup {NoClient}]
  BY DEF TypeOK, Close
<1>2. Owned' = Owned \ {fd} /\ \A d \in Owned' : owner'[d] = owner[d]
  BY DEF TypeOK, Close, Owned
<1>3. writeKnotes' \subseteq Owned'
  BY <1>2 DEF TypeOK, Close
<1>4. \A d, f \in Owned' : owner'[d] = owner'[f] => d = f
  BY <1>2 DEF OneDescriptorEach
<1>5. ASSUME NEW c \in Client
      PROVE  stage'[c] = "open" <=> \E d \in Owned' : owner'[d] = c
  <2>1. CASE Serves(fd, c)
    <3>1. stage'[c] # "open"
      BY <2>1 DEF Close
    <3>2. \A d \in Owned' : owner'[d] # c
      BY <2>1, <1>2 DEF OneDescriptorEach, Serves
    <3> QED BY <3>1, <3>2
  <2>2. CASE ~Serves(fd, c)
    <3>1. stage'[c] = stage[c]
      BY <2>2 DEF Close
    <3> QED BY <2>2, <3>1, <1>2 DEF OneDescriptorEach, Serves
  <2> QED BY <2>1, <2>2
<1> QED BY <1>1, <1>2, <1>3, <1>4, <1>5 DEF OneDescriptorEach

\* What accepting a connection does to it.
LEMMA Taking ==
    ASSUME TypeOK, OneDescriptorEach, TakeConnection
    PROVE  /\ stage' \in [Client -> {"idle", "backlog", "open", "answered", "dropped"}]
           /\ owner' \in [Descriptor -> Client \cup {NoClient}]
           /\ fresh' \subseteq Client
           /\ Owned \subseteq Owned'
           /\ \A d \in Owned : owner'[d] = owner[d] /\ (owner[d] \in fresh' => owner[d] \in fresh)
           /\ \A d \in Owned' \ Owned : owner'[d] \in fresh'
           /\ fresh \subseteq fresh'
           /\ writeKnotes' \subseteq Owned'
           /\ OneDescriptorEach'
<1>1. PICK c \in Backlog, d \in Descriptor \ Owned :
          /\ stage' = [stage EXCEPT ![c] = "open"]
          /\ owner' = [owner EXCEPT ![d] = c]
          /\ writeKnotes' = writeKnotes \cup {d}
          /\ fresh' = fresh \cup {c}
  BY DEF TakeConnection
<1>2. c \in Client /\ stage[c] = "backlog" /\ c # NoClient
  BY NamesAssumption DEF Backlog
<1>3. /\ stage' \in [Client -> {"idle", "backlog", "open", "answered", "dropped"}]
      /\ owner' \in [Descriptor -> Client \cup {NoClient}]
      /\ fresh' \subseteq Client /\ fresh \subseteq fresh'
  BY <1>1, <1>2 DEF TypeOK
<1>4. Owned' = Owned \cup {d}
  BY <1>1, <1>2 DEF Owned, TypeOK
<1>5. owner'[d] = c /\ \A f \in Owned : owner'[f] = owner[f] /\ owner[f] # c /\ f # d
  BY <1>1, <1>2 DEF Owned, TypeOK, OneDescriptorEach
<1>6. writeKnotes' \subseteq Owned'
  BY <1>1, <1>4 DEF TypeOK
<1>7. OneDescriptorEach'
  <2>1. \A f, g \in Owned' : owner'[f] = owner'[g] => f = g
    BY <1>4, <1>5 DEF OneDescriptorEach
  <2>2. ASSUME NEW x \in Client
        PROVE  stage'[x] = "open" <=> \E f \in Owned' : owner'[f] = x
    <3>1. CASE x = c
      BY <3>1, <1>1, <1>2, <1>4, <1>5 DEF TypeOK
    <3>2. CASE x # c
      <4>1. stage'[x] = stage[x]
        BY <3>2, <1>1 DEF TypeOK
      <4> QED BY <3>2, <4>1, <1>4, <1>5 DEF OneDescriptorEach
    <3> QED BY <3>1, <3>2
  <2> QED BY <2>1, <2>2 DEF OneDescriptorEach
<1> QED BY <1>1, <1>3, <1>4, <1>5, <1>6, <1>7

\* Every route lookup gives an answer there is.
LEMMA RoutedIsAnswer == \A uri, m : Routed(uri, m) \in Answers
BY DEF Routed, Answers

LEMMA InitHolds == Init => IInv
<1> SUFFICES ASSUME Init PROVE IInv
  OBVIOUS
<1>1. Owned = {}
  BY DEF Init, Owned
<1>2. TypeOK
  BY <1>1 DEF Init, TypeOK, NoReply, Answers
<1>3. OneDescriptorEach
  BY <1>1 DEF Init, OneDescriptorEach
<1> QED BY <1>2, <1>3 DEF Init, IInv, DataCurrent, EofDeserved, ReplyCurrent

\* The clients touch neither the table nor the events.
LEMMA ClientsHold == IInv /\ Clients => IInv'
<1> SUFFICES ASSUME IInv, NEW c \in Client,
                    Connect(c) \/ Send(c) \/ Finish(c) \/ Reset(c)
             PROVE  IInv'
  BY DEF Clients
<1> USE DEF IInv
<1>1. UNCHANGED loopVars
  BY DEF Connect, Send, Finish, Reset
<1>2. Owned' = Owned
  BY <1>1 DEF Owned, loopVars
<1>3. TypeOK'
  <2>1. CASE Connect(c)
    BY <2>1, <1>1, <1>2 DEF TypeOK, Connect, loopVars
  <2>2. CASE Send(c)
    BY <2>2, <1>1, <1>2 DEF TypeOK, Send, loopVars
  <2>3. CASE Finish(c)
    BY <2>3, <1>1, <1>2 DEF TypeOK, Finish, loopVars
  <2>4. CASE Reset(c)
    BY <2>4, <1>1, <1>2 DEF TypeOK, Reset, loopVars
  <2> QED BY <2>1, <2>2, <2>3, <2>4
<1>4. \A x \in Client : stage'[x] = "open" <=> stage[x] = "open"
  BY DEF TypeOK, Connect, Send, Finish, Reset, Sending
<1>5. \A x \in Client : peer[x] # "sending" => peer'[x] # "sending"
  BY DEF TypeOK, Connect, Send, Finish, Reset, Sending
<1>6. OneDescriptorEach'
  BY <1>1, <1>2, <1>4 DEF OneDescriptorEach, loopVars
<1>7. DataCurrent' /\ ReplyCurrent'
  BY <1>1, <1>2 DEF DataCurrent, ReplyCurrent, Data, loopVars
<1>8. EofDeserved'
  BY <1>1, <1>2, <1>5 DEF EofDeserved, Serves, loopVars
<1> QED BY <1>3, <1>6, <1>7, <1>8

LEMMA KeventHolds == IInv /\ Kevent => IInv'
<1> SUFFICES ASSUME IInv, Kevent PROVE IInv'
  OBVIOUS
<1> USE DEF IInv
<1>1. Owned' = Owned /\ UNCHANGED clientVars
  BY DEF Kevent, Owned
<1>2. ASSUME NEW e \in Ready
      PROVE  /\ e \in [fd : Descriptor \cup {Listener}, filter : {"read", "write"},
                       eof : BOOLEAN]
             /\ e.fd = Listener => ~e.eof
             /\ e.fd # Listener =>
                   /\ e.fd \in Owned
                   /\ e.filter = "read" => e.eof = (peer[owner[e.fd]] # "sending")
                   /\ e.filter = "write" => e.eof = (peer[owner[e.fd]] = "reset")
  <2>1. CASE e = Event(Listener, "read", FALSE)
    BY <2>1 DEF Event
  <2>2. ASSUME NEW d \in Owned, e = Event(d, "read", peer[owner[d]] # "sending")
        PROVE  <1>2!2
    BY <2>2, NamesAssumption DEF Event, Owned
  <2>3. ASSUME NEW d \in writeKnotes, e = Event(d, "write", peer[owner[d]] = "reset")
        PROVE  <1>2!2
    BY <2>3, NamesAssumption DEF Event, Owned, TypeOK
  <2> QED BY <2>1, <2>2, <2>3 DEF Ready
<1>3. TypeOK'
  BY <1>1, <1>2 DEF TypeOK, Kevent, clientVars
<1>4. OneDescriptorEach'
  BY <1>1 DEF OneDescriptorEach, Kevent, clientVars
<1>5. DataCurrent'
  BY <1>1, <1>2 DEF DataCurrent, Data, Kevent
<1>6. EofDeserved'
  <2> SUFFICES ASSUME NEW e \in Ready, NEW c \in Client, e.eof, Serves(e.fd, c)
               PROVE  peer[c] # "sending"
    BY <1>1 DEF EofDeserved, Kevent, Serves, clientVars
  <2>1. e.fd # Listener /\ owner[e.fd] = c
    BY <1>2 DEF Serves
  <2> QED BY <2>1, <1>2
<1>7. ReplyCurrent'
  BY DEF ReplyCurrent, Kevent
<1> QED BY <1>3, <1>4, <1>5, <1>6, <1>7

LEMMA CloseAtEofHolds ==
    ASSUME IInv, NEW e \in events, CloseAtEof(e)
    PROVE  IInv'
<1> USE DEF IInv
<1>1. Close(e.fd, "dropped") /\ events' = events \ {e} /\ at = "loop" /\ e.eof
      /\ UNCHANGED <<peer, request, answer, fresh, at, current, running>>
  BY DEF CloseAtEof, Begin
<1>2. /\ Owned' = Owned \ {e.fd} /\ \A d \in Owned' : owner'[d] = owner[d]
      /\ OneDescriptorEach'
  BY <1>1, Closing
<1>3. TypeOK'
  BY <1>1, Closing DEF TypeOK
<1>4. DataCurrent'
  BY <1>1, <1>2 DEF DataCurrent, Data
<1>5. EofDeserved'
  BY <1>1, <1>2 DEF EofDeserved, Serves
<1>6. ReplyCurrent'
  BY <1>1 DEF ReplyCurrent
<1> QED BY <1>2, <1>3, <1>4, <1>5, <1>6

LEMMA TakeHolds ==
    ASSUME IInv, TakeConnection,
           events' \subseteq events, at' = "loop",
           UNCHANGED <<peer, request, answer, current, running>>
    PROVE  IInv'
<1> USE DEF IInv
<1>1. /\ Owned \subseteq Owned' /\ fresh \subseteq fresh'
      /\ \A d \in Owned : owner'[d] = owner[d] /\ (owner[d] \in fresh' => owner[d] \in fresh)
      /\ \A d \in Owned' \ Owned : owner'[d] \in fresh'
      /\ OneDescriptorEach'
  BY Taking
<1>2. TypeOK'
  BY Taking DEF TypeOK
<1>3. DataCurrent'
  BY <1>1 DEF DataCurrent, Data
<1>4. EofDeserved'
  BY <1>1 DEF EofDeserved, Serves
<1>5. ReplyCurrent'
  BY DEF ReplyCurrent
<1> QED BY <1>1, <1>2, <1>3, <1>4, <1>5

\* An event that changes neither the table nor a connection.
LEMMA PassHolds ==
    ASSUME IInv, events' \subseteq events,
           UNCHANGED <<clientVars, owner, writeKnotes, fresh, current>>,
           at' \in {"loop", "accept"} \/ at' = at,
           running' \in BOOLEAN
    PROVE  IInv'
<1> USE DEF IInv
<1>1. Owned' = Owned
  BY DEF Owned
<1>2. TypeOK'
  BY <1>1 DEF TypeOK, clientVars
<1>3. OneDescriptorEach'
  BY <1>1 DEF OneDescriptorEach, clientVars
<1>4. DataCurrent' /\ EofDeserved' /\ ReplyCurrent'
  BY <1>1 DEF DataCurrent, EofDeserved, ReplyCurrent, Data, Serves, clientVars
<1> QED BY <1>2, <1>3, <1>4

LEMMA ReceiveHolds ==
    ASSUME IInv, NEW e \in events, Receive(e)
    PROVE  IInv'
<1> USE DEF IInv
<1>1. /\ Data(e) /\ events' = events \ {e} /\ at = "loop"
      /\ UNCHANGED <<stage, peer, request, answer, owner, writeKnotes, fresh>>
      /\ \/ /\ \E a \in Answers : current' = [fd |-> e.fd, answer |-> a]
            /\ at' = "respond" /\ UNCHANGED running
         \/ running' = FALSE /\ UNCHANGED <<at, current>>
  BY RoutedIsAnswer DEF Receive, Begin
<1>2. Owned' = Owned
  BY <1>1 DEF Owned
<1>3. TypeOK'
  <2>1. current' \in [fd : Descriptor \cup {Listener}, answer : Answers]
    <3>1. e.fd \in Descriptor \cup {Listener}
      BY DEF TypeOK
    <3> QED BY <1>1, <3>1 DEF TypeOK
  <2>2. at' \in {"loop", "respond"} /\ running' \in BOOLEAN
    BY <1>1 DEF TypeOK
  <2> QED BY <1>1, <1>2, <2>1, <2>2 DEF TypeOK
<1>4. OneDescriptorEach'
  BY <1>1, <1>2 DEF OneDescriptorEach
<1>5. DataCurrent' /\ EofDeserved'
  BY <1>1, <1>2 DEF DataCurrent, EofDeserved, Data, Serves
<1>6. \A f \in events' : Data(f) => f.fd # e.fd
  <2> SUFFICES ASSUME NEW f \in events, Data(f), f.fd = e.fd
               PROVE  f = e
    BY <1>1
  <2>1. f.filter = e.filter /\ f.eof = e.eof
    BY <1>1 DEF Data, TypeOK
  <2> QED BY <2>1, <1>1 DEF TypeOK
<1>7. ReplyCurrent'
  BY <1>1, <1>2, <1>6 DEF ReplyCurrent, DataCurrent, Data
<1> QED BY <1>3, <1>4, <1>5, <1>7

LEMMA RespondHolds == IInv /\ Respond => IInv'
<1> SUFFICES ASSUME IInv, Respond PROVE IInv'
  OBVIOUS
<1> USE DEF IInv
<1>1. /\ Close(current.fd, "answered") /\ at = "respond" /\ at' = "loop"
      /\ current' = NoReply
      /\ UNCHANGED <<peer, request, events, fresh, running>>
  BY DEF Respond
<1>2. /\ Owned' = Owned \ {current.fd} /\ \A d \in Owned' : owner'[d] = owner[d]
      /\ OneDescriptorEach'
  BY <1>1, Closing
<1>3. answer' \in [Client -> Answers \cup {NoAnswer}]
  BY DEF TypeOK, Respond
<1>4. TypeOK'
  BY <1>1, <1>3, Closing DEF TypeOK, NoReply, Answers
<1>5. DataCurrent'
  BY <1>1, <1>2 DEF DataCurrent, ReplyCurrent, Data
<1>6. EofDeserved'
  BY <1>1, <1>2 DEF EofDeserved, Serves
<1>7. ReplyCurrent'
  BY <1>1 DEF ReplyCurrent
<1> QED BY <1>2, <1>4, <1>5, <1>6, <1>7

LEMMA NextHolds == IInv /\ [Next]_vars => IInv'
<1> SUFFICES ASSUME IInv, [Next]_vars PROVE IInv'
  OBVIOUS
<1>1. CASE Clients
  BY <1>1, ClientsHold
<1>2. CASE Kevent
  BY <1>2, KeventHolds
<1>3. ASSUME NEW e \in events, Handle(e)
      PROVE  IInv'
  <2>1. CASE CloseAtEof(e)
    BY <2>1, CloseAtEofHolds
  <2>2. CASE AcceptConnection(e)
    BY <2>2, TakeHolds DEF AcceptConnection, Begin
  <2>3. CASE AcceptFails(e) \/ AcceptBlocks(e) \/ IgnoreWritable(e)
    BY <2>3, PassHolds DEF AcceptFails, AcceptBlocks, IgnoreWritable, Begin, IInv, TypeOK
  <2>4. CASE Receive(e)
    BY <2>4, ReceiveHolds
  <2> QED BY <1>3, <2>1, <2>2, <2>3, <2>4 DEF Handle
<1>4. CASE AcceptReturns
  <2>1. CASE TakeConnection
    BY <1>4, <2>1, TakeHolds DEF AcceptReturns
  <2>2. CASE ~TakeConnection
    BY <1>4, <2>2, PassHolds DEF AcceptReturns, IInv, TypeOK, clientVars
  <2> QED BY <2>1, <2>2
<1>5. CASE Respond
  BY <1>5, RespondHolds
<1>6. CASE BrokenPipe
  BY <1>6, PassHolds DEF BrokenPipe
<1>7. CASE UNCHANGED vars
  BY <1>7, PassHolds DEF vars, clientVars, loopVars, IInv, TypeOK
<1> QED BY <1>1, <1>2, <1>3, <1>4, <1>5, <1>6, <1>7 DEF Next, ServerWorker

(* The strengthening is an invariant. *)
THEOREM ServerInvariant == Spec => []IInv
<1> QED BY InitHolds, NextHolds, PTL DEF Spec

(* Type correctness of the server, for any clients and descriptors. *)
THEOREM ServerTypeCorrect == Spec => []TypeOK
<1>1. IInv => TypeOK
  BY DEF IInv
<1> QED BY <1>1, ServerInvariant, PTL

(* No descriptor leaks, none is of two connections: the table that accept and
   close keep. *)
THEOREM DescriptorsKept == Spec => []OneDescriptorEach
<1>1. IInv => OneDescriptorEach
  BY DEF IInv
<1> QED BY <1>1, ServerInvariant, PTL

(* Data is received from the connection that kevent announced it for, and an
   answer is written to the connection that asked. *)
THEOREM DataNeverStale == Spec => []DataIsOfItsConnection
<1>1. IInv => DataIsOfItsConnection
  BY DEF IInv, DataCurrent, ReplyCurrent, DataIsOfItsConnection
<1> QED BY <1>1, ServerInvariant, PTL

\* The connection that a descriptor closed as s belonged to, if it did, moves there.
LEMMA ClosedOne ==
    ASSUME IInv, NEW fd, NEW s \in {"answered", "dropped"}, Close(fd, s)
    PROVE  \/ UNCHANGED stage /\ \A c \in Client : ~Serves(fd, c)
           \/ \E c \in Client :
                 /\ Promise!Move(c, "open", s)
                 /\ \A x \in Client : Serves(fd, x) <=> x = c
<1>1. CASE \A c \in Client : ~Serves(fd, c)
  BY <1>1 DEF Close, IInv, TypeOK
<1>2. CASE \E c \in Client : Serves(fd, c)
  <2>1. PICK c \in Client : Serves(fd, c)
    BY <1>2
  <2>2. \A x \in Client : Serves(fd, x) <=> x = c
    BY <2>1 DEF Serves
  <2>3. stage[c] = "open"
    BY <2>1 DEF IInv, OneDescriptorEach, Serves
  <2>4. stage' = [stage EXCEPT ![c] = s]
    BY <2>2 DEF Close, IInv, TypeOK
  <2> QED BY <2>2, <2>3, <2>4 DEF Promise!Move
<1> QED BY <1>1, <1>2

LEMMA TakenOne ==
    ASSUME TakeConnection
    PROVE  \E c \in Client : Promise!Move(c, "backlog", "open")
BY DEF TakeConnection, Backlog, Promise!Move

LEMMA StepImplements == IInv /\ [Next]_vars => [Promise!Next]_(Promise!vars)
<1> SUFFICES ASSUME IInv, [Next]_vars PROVE Promise!Next \/ UNCHANGED Promise!vars
  OBVIOUS
<1> USE DEF Promise!Next, Promise!vars
<1>1. CASE Clients
  <2>1. PICK c \in Client : Connect(c) \/ Send(c) \/ Finish(c) \/ Reset(c)
    BY <1>1 DEF Clients
  <2>2. CASE Connect(c)
    BY <2>2 DEF Connect, loopVars, Promise!Connect, Promise!Move
  <2>3. CASE Send(c) \/ Finish(c)
    BY <2>3 DEF Send, Finish, loopVars
  <2>4. CASE Reset(c)
    <3>1. CASE stage[c] = "backlog"
      BY <2>4, <3>1 DEF Reset, loopVars, Promise!Drop, Promise!Move
    <3>2. CASE stage[c] # "backlog"
      <4>1. stage' = stage
        BY <2>4, <3>2 DEF Reset, IInv, TypeOK
      <4> QED BY <2>4, <4>1 DEF Reset, loopVars
    <3> QED BY <3>1, <3>2
  <2> QED BY <2>1, <2>2, <2>3, <2>4
<1>2. ASSUME NEW e \in events, CloseAtEof(e)
      PROVE  Promise!Next \/ UNCHANGED Promise!vars
  <2>1. UNCHANGED <<answer, running>> /\ Close(e.fd, "dropped")
    BY <1>2 DEF CloseAtEof
  <2> QED BY <2>1, ClosedOne DEF Promise!Drop
<1>3. ASSUME TakeConnection, running, UNCHANGED <<answer, running>>
      PROVE  Promise!Next
  BY <1>3, TakenOne DEF Promise!Accept
<1>4. CASE Respond
  <2>1. /\ Close(current.fd, "answered") /\ running /\ running' = running
        /\ answer' = [c \in Client |->
                         IF Serves(current.fd, c) THEN current.answer ELSE answer[c]]
        /\ at = "respond"
    BY <1>4 DEF Respond
  <2>2. CASE UNCHANGED stage /\ \A c \in Client : ~Serves(current.fd, c)
    BY <2>1, <2>2 DEF IInv, TypeOK
  <2>3. ASSUME NEW c \in Client, Promise!Move(c, "open", "answered"),
               \A x \in Client : Serves(current.fd, x) <=> x = c
        PROVE  Promise!Answer(c)
    <3>1. answer' = [answer EXCEPT ![c] = current.answer]
      BY <2>1, <2>3 DEF IInv, TypeOK
    <3>2. current.answer \in Answers
      BY DEF IInv, TypeOK
    <3> QED BY <2>1, <2>3, <3>1, <3>2 DEF Promise!Answer
  <2> QED BY <2>1, <2>2, <2>3, ClosedOne
<1>5. ASSUME NEW e \in events, Receive(e)
      PROVE  Promise!Next \/ UNCHANGED Promise!vars
  <2>1. running /\ UNCHANGED <<stage, answer>> /\ (running' = running \/ running' = FALSE)
    BY <1>5 DEF Receive, Begin
  <2> QED BY <2>1 DEF Promise!Stop
<1>6. CASE BrokenPipe
  BY <1>6 DEF BrokenPipe, clientVars, Promise!Stop
<1>7. CASE Kevent
  BY <1>7 DEF Kevent, clientVars
<1>8. ASSUME NEW e \in events, AcceptFails(e) \/ AcceptBlocks(e) \/ IgnoreWritable(e)
      PROVE  UNCHANGED Promise!vars
  BY <1>8 DEF AcceptFails, AcceptBlocks, IgnoreWritable, clientVars
<1>9. ASSUME NEW e \in events, AcceptConnection(e)
      PROVE  Promise!Next
  BY <1>9, <1>3 DEF AcceptConnection, Begin
<1>10. CASE AcceptReturns
  BY <1>10, <1>3 DEF AcceptReturns
<1>11. CASE UNCHANGED vars
  BY <1>11 DEF vars, clientVars, loopVars
<1> QED BY <1>1, <1>2, <1>4, <1>5, <1>6, <1>7, <1>8, <1>9, <1>10, <1>11
        DEF Next, ServerWorker, Handle

(* Every behaviour of the server is one of HttpExchange: each connection is
   accepted once and answered at most once, with an answer of the router, whatever
   the order of events, reuse of descriptors and contents of the buffer. *)
THEOREM ServerImplementsExchange == Spec => ImplementsExchange
<1>1. Init => Promise!Init
  BY DEF Init, Promise!Init
<1> QED BY <1>1, StepImplements, ServerInvariant, PTL DEF Spec, ImplementsExchange, Promise!Spec

LEMMA DropDeserved ==
    ASSUME IInv, [Next]_vars, NEW c \in Client,
           stage[c] = "open", stage'[c] = "dropped", peer[c] = "sending"
    PROVE  c \in fresh
<1>1. CASE \E e \in events : CloseAtEof(e)
  <2>1. PICK e \in events : e.eof /\ Close(e.fd, "dropped")
    BY <1>1 DEF CloseAtEof
  <2>2. Serves(e.fd, c)
    BY <2>1 DEF Close
  <2> QED BY <2>1, <2>2 DEF IInv, EofDeserved
<1>2. CASE Respond
  <2>1. stage'[c] \in {"answered", stage[c]}
    BY <1>2 DEF Respond, Close
  <2> QED BY <2>1
<1>3. CASE TakeConnection
  <2>1. stage'[c] \in {"open", stage[c]}
    BY <1>3 DEF TakeConnection, IInv, TypeOK
  <2> QED BY <2>1
<1>4. CASE Clients
  <2>1. stage'[c] \in {"backlog", stage[c]}
    BY <1>4 DEF Clients, Connect, Send, Finish, Reset, IInv, TypeOK
  <2> QED BY <2>1
<1>5. CASE UNCHANGED stage
  BY <1>5
<1> QED
  BY <1>1, <1>2, <1>3, <1>4, <1>5
  DEF Next, ServerWorker, Handle, Kevent, AcceptConnection, AcceptFails, AcceptBlocks,
      AcceptReturns, Receive, IgnoreWritable, BrokenPipe, vars, clientVars

(* What a stale EOF closes was accepted in the batch that the EOF is of; no other
   connection is dropped before its client has ended. *)
THEOREM StaleEofBounded == Spec => DropsAreDeserved
<1> DEFINE Deserved == \A c \in Client :
        stage[c] = "open" /\ stage'[c] = "dropped" /\ peer[c] = "sending" => c \in fresh
<1>1. IInv /\ [Next]_vars => [Deserved]_vars
  BY DropDeserved
<1> QED BY <1>1, ServerInvariant, PTL DEF Spec, DropsAreDeserved

-----------------------------------------------------------------------------
(* The text that is decoded. *)

\* What buf is at any time.
Buffer(m) ==
    /\ m \in [1..Size -> Characters \cup {NUL}]
    /\ \E i \in 1..Size : m[i] = NUL /\ \A r \in Requests : Len(Request(r)) < i

FirstZero(m, n) == n \in 1..Size /\ m[n] = NUL /\ \A i \in 1..(n - 1) : m[i] # NUL

LEMMA TextEnds ==
    ASSUME NEW m, Buffer(m)
    PROVE  \E n \in 1..Size : /\ FirstZero(m, n)
                              /\ TextOf(m) \in Seq(Characters)
                              /\ Len(TextOf(m)) = n - 1
                              /\ \A i \in 1..(n - 1) : TextOf(m)[i] = m[i]
<1>1. Size \in Nat /\ m \in Seq(Characters \cup {NUL}) /\ Len(m) = Size
  BY SizeAssumption DEF Buffer
<1> DEFINE S == {i \in 1..Size : m[i] = NUL}
<1>2. S \in SUBSET Nat /\ S # {}
  BY DEF Buffer
<1> HIDE DEF S
<1>3. PICK z \in S : \A i \in S : z <= i
  BY <1>2, LeastNumber
<1>4. FirstZero(m, z)
  <2>1. z \in 1..Size /\ m[z] = NUL
    BY <1>3 DEF S
  <2>2. ASSUME NEW i \in 1..(z - 1), m[i] = NUL PROVE FALSE
    <3>1. i \in 1..Size /\ i < z
      BY <1>1, <2>1
    <3>2. i \in S
      BY <2>2, <3>1 DEF S
    <3> QED BY <1>3, <2>1, <3>1, <3>2
  <2> QED BY <2>1, <2>2 DEF FirstZero
<1> DEFINE n == CHOOSE n \in 1..Size : m[n] = NUL /\ \A i \in 1..(n - 1) : m[i] # NUL
<1>5. FirstZero(m, n)
  BY <1>4 DEF FirstZero
<1>6. TextOf(m) = SubSeq(m, 1, n - 1)
  BY <1>1 DEF TextOf
<1> HIDE DEF n
<1>7. n \in 1..Size /\ n - 1 \in 0..Size /\ n - 1 \in Nat
  BY <1>1, <1>5 DEF FirstZero
<1> DEFINE k == n - 1
           t == SubSeq(m, 1, k)
<1>8. Len(t) = k /\ \A i \in 1..k : t[i] = m[i]
  <2> HIDE DEF k
  <2> QED BY <1>1, <1>7 DEF k
<1>9. t \in Seq(Characters \cup {NUL})
  BY <1>1, <1>7
<1>10. \A i \in 1..k : t[i] \in Characters
  <2> SUFFICES ASSUME NEW i \in 1..k PROVE t[i] \in Characters
    OBVIOUS
  <2>1. i \in 1..Size /\ m[i] # NUL /\ t[i] = m[i]
    BY <1>1, <1>5, <1>7, <1>8 DEF FirstZero
  <2> QED BY <2>1 DEF Buffer
<1>11. t \in Seq(Characters)
  <2> HIDE DEF t, k
  <2>1. k \in Nat
    BY <1>7 DEF k
  <2>2. t \in [1..k -> Characters]
    BY <1>8, <1>9, <1>10, <2>1
  <2> QED BY <2>1, <2>2
<1> HIDE DEF t
<1> QED BY <1>5, <1>6, <1>7, <1>8, <1>11 DEF t

\* recv puts the first n characters of a request in front of what lies in buf.
LEMMA TextBegins ==
    ASSUME Buffer(memory), NEW r \in Requests, NEW n \in 0..Len(Request(r))
    PROVE  LET m == Filled(SubSeq(Request(r), 1, n))
               t == TextOf(m)
           IN  /\ Buffer(m) /\ t \in Seq(Characters) /\ n <= Len(t)
               /\ \A i \in 1..n : t[i] = Request(r)[i]
<1>1. PICK b \in Seq(Characters) : b = r.body
  BY PartTypes
<1>2. PICK w \in Seq(Characters) : w = Request(r)
  BY <1>1, RequestLength
<1> DEFINE d == SubSeq(w, 1, n)
           m == Filled(d)
           t == TextOf(m)
<1>3. Len(w) \in Nat /\ n \in Nat /\ n <= Len(w)
  BY <1>2
<1>4. Len(d) = n /\ \A i \in 1..n : d[i] = w[i] /\ w[i] \in Characters
  BY <1>3
<1> HIDE DEF d
<1>5. m = [i \in 1..Size |-> IF i <= n THEN d[i] ELSE memory[i]]
  BY <1>4 DEF Filled
<1> HIDE DEF m
<1>6. PICK z \in 1..Size : memory[z] = NUL /\ n < z
  <2>1. PICK z \in 1..Size : memory[z] = NUL /\ \A q \in Requests : Len(Request(q)) < z
    BY DEF Buffer
  <2>2. Len(w) < z
    BY <1>2, <2>1
  <2> QED BY <1>3, <2>1, <2>2, SizeAssumption
<1>7. m \in [1..Size -> Characters \cup {NUL}]
  <2> SUFFICES ASSUME NEW i \in 1..Size
               PROVE  (IF i <= n THEN d[i] ELSE memory[i]) \in Characters \cup {NUL}
    BY <1>5
  <2>1. i <= n => i \in 1..n
    BY SizeAssumption, <1>3
  <2> QED BY <1>4, <2>1 DEF Buffer
<1>8. \A i \in 1..Size : i > n => m[i] = memory[i]
  BY <1>3, <1>5, SizeAssumption
<1>9. Buffer(m)
  <2>1. PICK i \in 1..Size : memory[i] = NUL /\ \A q \in Requests : Len(Request(q)) < i
    BY DEF Buffer
  <2>2. Len(w) < i
    BY <1>2, <2>1
  <2>3. i > n
    BY <1>3, <2>2, SizeAssumption
  <2>4. m[i] = NUL
    BY <1>8, <2>1, <2>3
  <2> QED BY <1>7, <2>1, <2>4 DEF Buffer
<1>10. PICK e \in 1..Size : /\ FirstZero(m, e)
                            /\ t \in Seq(Characters)
                            /\ Len(t) = e - 1
                            /\ \A i \in 1..(e - 1) : t[i] = m[i]
  BY <1>9, TextEnds
<1> HIDE DEF t
<1>11. \A i \in 1..n : i \in 1..Size /\ m[i] = w[i] /\ m[i] # NUL
  <2> SUFFICES ASSUME NEW i \in 1..n PROVE i \in 1..Size /\ m[i] = w[i] /\ m[i] # NUL
    OBVIOUS
  <2>1. i \in 1..Size /\ i <= n
    BY <1>3, <1>6, SizeAssumption
  <2>2. m[i] = d[i]
    BY <1>5, <2>1
  <2> QED BY <1>4, <2>1, <2>2, BufferAssumption
<1>12. n < e
  <2>1. e \notin 1..n
    BY <1>10, <1>11 DEF FirstZero
  <2> QED BY <1>3, <2>1, SizeAssumption
<1>13. n <= Len(t) /\ \A i \in 1..n : t[i] = w[i]
  <2>1. e \in Nat /\ Len(t) = e - 1
    BY <1>10, SizeAssumption
  <2>2. n <= e - 1
    BY <1>3, <1>12, <2>1
  <2>3. \A i \in 1..n : i \in 1..(e - 1)
    BY <1>3, <2>1, <2>2
  <2> QED BY <1>10, <1>11, <2>1, <2>2, <2>3
<1> QED BY <1>2, <1>9, <1>10, <1>13 DEF m, t, d

\* What is decoded, if at least the method and the uri were received; and if the whole
\* of a request was that has a header and a method which is known.
LEMMA TextDecides ==
    ASSUME Buffer(memory), NEW r \in Requests, NEW n \in 0..Len(Request(r)), NEW t,
           t = TextOf(Filled(SubSeq(Request(r), 1, n)))
    PROVE  /\ n >= Len(r.method \o r.uri) + 2 =>
                 DecodeMessage(t).method = Found(r.method) /\ DecodeMessage(t).uri = r.uri
           /\ n = Len(Request(r)) /\ r.headers # <<>> =>
                 /\ DecodeMessage(t).state # "abort"
                 /\ DecodeMessage(t).method = Found(r.method)
<1>1. PICK m \in Seq(Characters) : m = r.method
  BY PartTypes
<1>2. PICK u \in Seq(Characters) : u = r.uri
  BY PartTypes
<1>3. PICK b \in Seq(Characters) : b = r.body
  BY PartTypes
<1>4. PICK w \in Seq(Characters) : w = Request(r)
  BY <1>3, RequestLength
<1>5. /\ t \in Seq(Characters) /\ n <= Len(t) /\ \A i \in 1..n : t[i] = w[i]
  BY <1>4, TextBegins
<1>6. Len(w) \in Nat /\ n \in Nat /\ n <= Len(w) /\ Len(t) \in Nat
  BY <1>4, <1>5
<1>7. PICK s \in Seq(Characters) : s = SubSeq(w, 1, n) /\ Len(s) = n
  <2>1. SubSeq(w, 1, n) \in Seq(Characters)
    BY <1>6
  <2>2. Len(SubSeq(w, 1, n)) = n
    BY <1>6
  <2> QED BY <2>1, <2>2
<1>8. HoldsRequest(s, r)
  <2>1. ASSUME NEW i \in 1..Len(w), 0 + i <= Len(s) PROVE s[0 + i] = w[i]
    <3>1. i \in 1..n /\ 0 + i = i
      BY <1>6, <1>7, <2>1
    <3> QED BY <1>6, <1>7, <3>1
  <2>2. WordAt(s, 0, w)
    BY <2>1 DEF WordAt
  <2> QED BY <1>4, <2>2, RequestWords
<1>9. \A i \in 1..n : t[i] = s[i]
  BY <1>5, <1>6, <1>7
<1>10. BeginsWithLine(s, m, u)
  BY <1>1, <1>2, <1>8 DEF HoldsRequest
<1>11. Len(m) \in Nat /\ Len(u) \in Nat
  OBVIOUS
<1>12. Len(m \o u) + 2 = ProtocolAt(m, u)
  <2>1. Len(m \o u) = Len(m) + Len(u)
    BY ConcatProperties
  <2> QED BY <2>1 DEF ProtocolAt
<1>13. ASSUME n >= ProtocolAt(m, u)
       PROVE  DecodeMessage(t).method = Found(m) /\ DecodeMessage(t).uri = u
  <2>1. ASSUME NEW i \in Nat, 1 <= i, i <= ProtocolAt(m, u)
        PROVE  i \in 1..n /\ i <= Len(s) /\ i <= Len(t) /\ t[i] = s[i]
    <3>1. ProtocolAt(m, u) \in Nat
      BY <1>11 DEF ProtocolAt
    <3>2. i \in 1..n
      BY <1>6, <1>13, <2>1, <3>1
    <3> QED BY <1>5, <1>6, <1>7, <1>9, <3>2
  <2>2. BeginsWithLine(t, m, u)
    <3>1. \A i \in 1..Len(m) : t[i] = m[i]
      <4> SUFFICES ASSUME NEW i \in 1..Len(m) PROVE t[i] = m[i]
        OBVIOUS
      <4>1. i \in Nat /\ 1 <= i /\ i <= ProtocolAt(m, u)
        BY <1>11 DEF ProtocolAt
      <4> QED BY <1>10, <2>1, <4>1 DEF BeginsWithLine
    <3>2. t[UriAt(m)] = SP
      <4>1. UriAt(m) \in Nat /\ 1 <= UriAt(m) /\ UriAt(m) <= ProtocolAt(m, u)
        BY <1>11 DEF ProtocolAt, UriAt
      <4> QED BY <1>10, <2>1, <4>1 DEF BeginsWithLine
    <3>3. \A i \in 1..Len(u) : t[UriAt(m) + i] = u[i]
      <4> SUFFICES ASSUME NEW i \in 1..Len(u) PROVE t[UriAt(m) + i] = u[i]
        OBVIOUS
      <4>1. UriAt(m) + i \in Nat /\ 1 <= UriAt(m) + i /\ UriAt(m) + i <= ProtocolAt(m, u)
        BY <1>11 DEF ProtocolAt, UriAt
      <4> QED BY <1>10, <2>1, <4>1 DEF BeginsWithLine
    <3>4. t[ProtocolAt(m, u)] = SP
      <4>1. ProtocolAt(m, u) \in Nat /\ 1 <= ProtocolAt(m, u)
            /\ ProtocolAt(m, u) <= ProtocolAt(m, u)
        BY <1>11 DEF ProtocolAt
      <4> QED BY <1>10, <2>1, <4>1 DEF BeginsWithLine
    <3> QED BY <3>1, <3>2, <3>3, <3>4 DEF BeginsWithLine
  <2>3. Len(t) >= ProtocolAt(m, u)
    <3>1. ProtocolAt(m, u) \in Nat
      BY <1>11 DEF ProtocolAt
    <3> QED BY <1>5, <1>6, <1>13, <3>1
  <2>4. (\A i \in 1..Len(m) : m[i] # SP) /\ (\A i \in 1..Len(u) : u[i] # SP)
    BY <1>1, <1>2, RequestTypes
  <2> QED BY <1>5, <2>2, <2>3, <2>4, LineDecides
<1>14. ASSUME n = Len(Request(r)), r.headers # <<>>
       PROVE  DecodeMessage(t).state # "abort" /\ DecodeMessage(t).method = Found(r.method)
  <2>1. WordAt(t, 0, w)
    <3>1. ASSUME NEW i \in 1..Len(w) PROVE t[0 + i] = w[i]
      <4>1. i \in 1..n /\ 0 + i = i
        BY <1>4, <1>6, <1>14
      <4> QED BY <1>5, <4>1
    <3> QED BY <3>1 DEF WordAt
  <2>2. HoldsRequest(t, r)
    BY <1>4, <1>5, <2>1, RequestWords
  <2>3. Len(r.headers) > 0
    <3>1. r.headers \in Seq([name : Without({COLON, CR}), value : Without({CR})])
      <4>1. r \in [method : Without({SP}), uri : Without({SP}), protocol : Without({CR}),
                   headers : Seq([name : Without({COLON, CR}), value : Without({CR})]),
                   body : Seq(Characters)]
        BY RequestAssumption, Zenon
      <4> QED BY <4>1
    <3> QED BY <1>14, <3>1
  <2>4. Len(Request(r)) <= Len(t)
    BY <1>5, <1>14
  <2>5. DecodeMessage(t).state # "abort" /\ Came(t, r, Len(t), DecodeMessage(t))
    BY <1>5, <2>2, <2>3, <2>4, DecodesWholeRequest
  <2>6. Len(t) > Len(r.method)
    <3>1. PICK e \in Nat : e = BodyAt(r) /\ Len(w) = e + Len(b)
      BY <1>3, <1>4, RequestLength
    <3>2. PICK i \in Nat, x \in Nat, l \in Nat, c \in Nat, j \in Nat, h \in Nat :
              /\ LinePlacesAre(r, i, x, l, c, j, h)
              /\ l = i + x + 2 /\ j = l + c + 2 /\ j <= h
      BY LinePlaces
    <3>3. i = Len(r.method) /\ e = h + 2
      BY <3>1, <3>2 DEF LinePlacesAre
    <3>4. Len(b) \in Nat /\ Len(w) <= Len(t)
      BY <1>4, <2>4
    <3>5. i < h
      BY <3>2
    <3>6. e <= Len(t) /\ i < e
      BY <1>6, <3>1, <3>3, <3>4, <3>5
    <3>7. i < Len(t)
      BY <1>6, <3>6
    <3> QED BY <3>3, <3>7
  <2>7. MethodCame(r, Len(t)) = Found(r.method)
    BY <2>6 DEF MethodCame
  <2> QED BY <2>5, <2>7 DEF Came, Decoded
<1> QED BY <1>1, <1>2, <1>12, <1>13, <1>14

-----------------------------------------------------------------------------
(* What the clients have sent, and what has become of it. *)

\* The first n characters that c sends.
Begun(c, n) == SubSeq(Request(request[c]), 1, n)

\* Nothing has been received from c.
Untouched(c) ==
    /\ running /\ stage[c] \in {"idle", "backlog", "open"}
    /\ ~(at = "respond" /\ Serves(current.fd, c))

(* The further parts of the invariant:
   - what lies unread on a connection that nothing was received from is all that was
     sent, unless a reset has discarded it;
   - data that is announced is there, unless a reset has discarded it;
   - what was received is a beginning of the request;
   - the answer to a request whose method and uri came is the page for them;
   - what is answered stays as it is. *)
UnreadBegins ==
    /\ unread \in [Client -> Seq(Characters)]
    /\ sent \in [Client -> Nat]
    /\ \A c \in Client :
          /\ sent[c] <= Len(Request(request[c]))
          /\ Untouched(c) => \/ unread[c] = Begun(c, sent[c])
                             \/ peer[c] = "reset" /\ unread[c] = <<>>

DataHere ==
    \A e \in events : Data(e) => unread[owner[e.fd]] # <<>> \/ peer[owner[e.fd]] = "reset"

FirstBegins ==
    \A c \in Client : \E n \in 0..Len(Request(request[c])) : first[c] = Begun(c, n)

RightAnswer(c, a) ==
    \E m \in Methods([method |-> Found(request[c].method)]) : a = Routed(request[c].uri, m)

ReplyRight ==
    at = "respond" =>
        \A c \in Client : Serves(current.fd, c) /\ LineCame(c) => RightAnswer(c, current.answer)

AnsweredOnce == \A c \in Client : answer[c] # NoAnswer => stage[c] = "answered"

HInv ==
    /\ Buffer(memory) /\ UnreadBegins /\ DataHere /\ FirstBegins /\ ReplyRight
    /\ AnsweredOnce /\ RequestLineDecides /\ StopsForAReason

LEMMA RequestLineDecidesIs ==
    RequestLineDecides <=>
        \A c \in Client : answer[c] # NoAnswer /\ LineCame(c) => RightAnswer(c, answer[c])
BY DEF RequestLineDecides, RightAnswer

LEMMA RequestSent ==
    ASSUME IInv, NEW c \in Client
    PROVE  /\ request[c] \in Requests
           /\ Request(request[c]) \in Seq(Characters) /\ Len(Request(request[c])) \in Nat
<1>1. request[c] \in Requests
  BY DEF IInv, TypeOK
<1>2. PICK b \in Seq(Characters) : b = request[c].body
  BY <1>1, PartTypes
<1>3. Request(request[c]) \in Seq(Characters)
  BY <1>1, <1>2, RequestLength
<1> QED BY <1>1, <1>3

\* A segment continues what was sent before it.
LEMMA SegmentGrows ==
    ASSUME NEW w \in Seq(Characters), NEW n \in 0..Len(w), NEW k \in 1..Len(w), n < k,
           NEW x \in Seq(Characters)
    PROVE  LET s == SubSeq(w, n + 1, k)
           IN  /\ SubSeq(w, 1, n) \o s = SubSeq(w, 1, k)
               /\ x \o s \in Seq(Characters) /\ x \o s # <<>>
<1> DEFINE s == SubSeq(w, n + 1, k)
<1>1. Len(w) \in Nat /\ n + 1 \in 1..Len(w) /\ k \in (n + 1)..Len(w)
  OBVIOUS
<1>2. s \in Seq(Characters)
  BY <1>1
<1>3. Len(s) > 0
  BY <1>1
<1>4. SubSeq(w, 1, n) \o s = SubSeq(w, 1, k)
  <2>1. 1 \in 1..(Len(w) + 1) /\ n \in (1 - 1)..Len(w) /\ k \in n..Len(w)
    BY <1>1
  <2> QED BY <2>1, ConcatAdjacentSubSeq
<1> HIDE DEF s
<1>5. x \o s \in Seq(Characters) /\ Len(x \o s) = Len(x) + Len(s)
  BY <1>2, ConcatProperties
<1>6. Len(x) \in Nat /\ Len(s) \in Nat
  BY <1>2
<1>7. Len(x \o s) # 0
  BY <1>3, <1>5, <1>6
<1>8. x \o s # <<>>
  BY <1>7
<1> QED BY <1>4, <1>5, <1>8 DEF s

LEMMA EmptyBegun == \A c \in Client : IInv => Begun(c, 0) = <<>>
<1> SUFFICES ASSUME NEW c \in Client, IInv PROVE Begun(c, 0) = <<>>
  OBVIOUS
<1>1. PICK w \in Seq(Characters) : w = Request(request[c])
  BY RequestSent
<1>2. SubSeq(w, 1, 0) = <<>>
  BY EmptySubSeq
<1> QED BY <1>1, <1>2 DEF Begun

LEMMA InitHoldsToo == Init /\ IInv => HInv
<1> SUFFICES ASSUME Init, IInv PROVE HInv
  OBVIOUS
<1>1. Buffer(memory)
  BY BufferAssumption DEF Init, Buffer
<1>2. \A c \in Client : /\ unread[c] = <<>> /\ sent[c] = 0 /\ first[c] = <<>>
                        /\ answer[c] = NoAnswer
  BY DEF Init
<1>3. \A c \in Client : 0 \in 0..Len(Request(request[c])) /\ Begun(c, 0) = <<>>
  BY RequestSent, EmptyBegun
<1>4. UnreadBegins
  <2>1. unread \in [Client -> Seq(Characters)] /\ sent \in [Client -> Nat]
    BY DEF Init
  <2>2. \A c \in Client : 0 <= Len(Request(request[c]))
    BY RequestSent
  <2> QED BY <1>2, <1>3, <2>1, <2>2 DEF UnreadBegins
<1>5. FirstBegins
  BY <1>2, <1>3 DEF FirstBegins
<1>6. DataHere /\ ReplyRight /\ AnsweredOnce /\ StopsForAReason
  BY <1>2 DEF Init, DataHere, ReplyRight, AnsweredOnce, StopsForAReason
<1>7. RequestLineDecides
  BY <1>2 DEF RequestLineDecides
<1> QED BY <1>1, <1>4, <1>5, <1>6, <1>7 DEF HInv

\* Where neither a client nor what was received changes, and no thread stops.
LEMMA ReceivedStays ==
    ASSUME IInv, HInv, UNCHANGED <<peer, request, first, answer, running>>
    PROVE  FirstBegins' /\ RequestLineDecides' /\ StopsForAReason'
<1>1. FirstBegins'
  BY DEF HInv, FirstBegins, Begun
<1>2. RequestLineDecides'
  BY DEF HInv, RequestLineDecides, LineCame
<1>3. StopsForAReason'
  BY DEF HInv, StopsForAReason, Harmless
<1> QED BY <1>1, <1>2, <1>3

\* A segment.
LEMMA SendHolds ==
    ASSUME IInv, UnreadBegins, NEW c \in Client, Send(c)
    PROVE  /\ unread' \in [Client -> Seq(Characters)] /\ sent' \in [Client -> Nat]
           /\ \A x \in Client \ {c} : unread'[x] = unread[x] /\ sent'[x] = sent[x]
           /\ sent'[c] <= Len(Request(request[c]))
           /\ unread'[c] # <<>>
           /\ unread[c] = Begun(c, sent[c]) => unread'[c] = Begun(c, sent'[c])
<1>1. PICK w \in Seq(Characters) : w = Request(request[c])
  BY RequestSent
<1>2. PICK k \in Cuts \cup {Len(w)} :
          /\ sent[c] < k /\ k <= Len(w)
          /\ sent' = [sent EXCEPT ![c] = k]
          /\ unread' = [unread EXCEPT ![c] = @ \o SubSeq(w, sent[c] + 1, k)]
  BY <1>1 DEF Send
<1>3. PICK x \in Seq(Characters), n \in Nat : x = unread[c] /\ n = sent[c]
  BY DEF UnreadBegins
<1>4. k \in Nat
  BY CutsAssumption
<1>5. n \in 0..Len(w) /\ k \in 1..Len(w) /\ n < k
  BY <1>2, <1>3, <1>4
<1>6. /\ SubSeq(w, 1, n) \o SubSeq(w, n + 1, k) = SubSeq(w, 1, k)
      /\ x \o SubSeq(w, n + 1, k) \in Seq(Characters)
      /\ x \o SubSeq(w, n + 1, k) # <<>>
  BY <1>5, SegmentGrows
<1> DEFINE y == x \o SubSeq(w, n + 1, k)
<1>7. unread' = [unread EXCEPT ![c] = y]
  BY <1>2, <1>3
<1>8. y \in Seq(Characters) /\ y # <<>> /\ (x = SubSeq(w, 1, n) => y = SubSeq(w, 1, k))
  BY <1>6
<1> HIDE DEF y
<1>9. /\ unread' \in [Client -> Seq(Characters)] /\ sent' \in [Client -> Nat]
      /\ \A z \in Client \ {c} : unread'[z] = unread[z] /\ sent'[z] = sent[z]
      /\ unread'[c] = y /\ sent'[c] = k
  BY <1>2, <1>4, <1>7, <1>8 DEF UnreadBegins
<1>10. request'[c] = request[c]
  BY DEF Send
<1>11. unread[c] = Begun(c, sent[c]) => unread'[c] = Begun(c, sent'[c])
  BY <1>1, <1>3, <1>8, <1>9 DEF Begun
<1> QED BY <1>1, <1>2, <1>8, <1>9, <1>11

\* The clients send, finish, and reset.
LEMMA ClientsHoldToo == IInv /\ HInv /\ Clients => HInv'
<1> SUFFICES ASSUME IInv, HInv, NEW c \in Client,
                    Connect(c) \/ Send(c) \/ Finish(c) \/ Reset(c)
             PROVE  HInv'
  BY DEF Clients
<1>1. UNCHANGED loopVars /\ UNCHANGED <<request, first, answer>>
  BY DEF Connect, Send, Finish, Reset
<1>2. Buffer(memory)' /\ FirstBegins'
  BY <1>1 DEF HInv, loopVars, FirstBegins, Begun, Buffer
<1>3. ReplyRight'
  BY <1>1 DEF HInv, loopVars, ReplyRight, RightAnswer, LineCame, Serves, Owned
<1>4. RequestLineDecides'
  BY <1>1 DEF HInv, RequestLineDecides, LineCame
<1>5. \A x \in Client : /\ stage[x] = "answered" => stage'[x] = "answered"
                        /\ stage'[x] \in {"idle", "backlog", "open"} =>
                              stage[x] \in {"idle", "backlog", "open"}
                        /\ peer[x] = "reset" => peer'[x] = "reset"
  BY DEF IInv, TypeOK, Connect, Send, Finish, Reset, Sending
<1>6. AnsweredOnce'
  BY <1>1, <1>5 DEF HInv, AnsweredOnce
<1>7. StopsForAReason'
  BY <1>1, <1>5 DEF HInv, StopsForAReason, Harmless, loopVars
<1>8. \A x \in Client : Untouched(x)' => Untouched(x)
  BY <1>1, <1>5 DEF Untouched, Serves, Owned, loopVars
<1>9. UnreadBegins
  BY DEF HInv
<1>10. /\ unread' \in [Client -> Seq(Characters)] /\ sent' \in [Client -> Nat]
       /\ \A x \in Client :
             /\ sent'[x] <= Len(Request(request[x]))
             /\ Untouched(x) => \/ unread'[x] = Begun(x, sent'[x])
                                \/ peer'[x] = "reset" /\ unread'[x] = <<>>
             /\ unread[x] # <<>> => unread'[x] # <<>> \/ peer'[x] = "reset"
  <2>1. CASE UNCHANGED <<unread, sent>>
    BY <1>5, <1>9, <2>1 DEF UnreadBegins
  <2>2. CASE Connect(c) \/ Finish(c)
    BY <2>1, <2>2 DEF Connect, Finish
  <2>3. CASE Send(c)
    <3>1. peer[c] = "sending" /\ peer' = peer
      BY <2>3 DEF Send, Sending
    <3>2. /\ unread' \in [Client -> Seq(Characters)] /\ sent' \in [Client -> Nat]
          /\ \A x \in Client \ {c} : unread'[x] = unread[x] /\ sent'[x] = sent[x]
          /\ sent'[c] <= Len(Request(request[c]))
          /\ unread'[c] # <<>>
          /\ unread[c] = Begun(c, sent[c]) => unread'[c] = Begun(c, sent'[c])
      BY <1>9, <2>3, SendHolds
    <3>3. Untouched(c) => unread[c] = Begun(c, sent[c])
      BY <1>9, <3>1 DEF UnreadBegins
    <3> QED BY <1>9, <3>1, <3>2, <3>3 DEF UnreadBegins
  <2>4. CASE Reset(c)
    <3>1. sent' = sent /\ peer'[c] = "reset" /\ \A x \in Client \ {c} : peer'[x] = peer[x]
      BY <2>4 DEF Reset, IInv, TypeOK
    <3>2. /\ unread' \in [Client -> Seq(Characters)]
          /\ \A x \in Client \ {c} : unread'[x] = unread[x]
          /\ unread'[c] \in {unread[c], <<>>}
      <4>1. unread' \in {unread, [unread EXCEPT ![c] = <<>>]} /\ <<>> \in Seq(Characters)
        BY <2>4 DEF Reset
      <4> QED BY <1>9, <4>1 DEF UnreadBegins
    <3> QED BY <1>9, <3>1, <3>2 DEF UnreadBegins
  <2> QED BY <2>1, <2>2, <2>3, <2>4
<1>11. UnreadBegins'
  <2>1. \A x \in Client : request'[x] = request[x]
    BY <1>1
  <2>2. \A x \in Client : (Begun(x, sent[x]))' = Begun(x, sent'[x])
    BY <1>1 DEF Begun
  <2> QED BY <1>8, <1>10, <2>1, <2>2 DEF UnreadBegins
<1>12. DataHere'
  <2> SUFFICES ASSUME NEW e \in events, Data(e)
               PROVE  unread'[owner[e.fd]] # <<>> \/ peer'[owner[e.fd]] = "reset"
    BY <1>1 DEF DataHere, Data, loopVars
  <2>1. owner[e.fd] \in Client
    BY DEF IInv, DataCurrent, TypeOK, Owned
  <2>2. unread[owner[e.fd]] # <<>> \/ peer[owner[e.fd]] = "reset"
    BY DEF HInv, DataHere
  <2> QED BY <1>5, <1>10, <2>1, <2>2
<1> QED BY <1>2, <1>3, <1>4, <1>6, <1>7, <1>11, <1>12 DEF HInv

LEMMA KeventHoldsToo == IInv /\ HInv /\ Kevent => HInv'
<1> SUFFICES ASSUME IInv, HInv, Kevent PROVE HInv'
  OBVIOUS
<1>1. /\ UNCHANGED <<clientVars, owner, at, current, running>> /\ at = "loop"
      /\ events' = Ready /\ memory' \in {memory} \cup Leftovers
  BY DEF Kevent
<1>2. Buffer(memory)'
  <2>1. \A m \in Leftovers : Buffer(m)
    BY BufferAssumption DEF Buffer
  <2>2. Buffer(memory')
    BY <1>1, <2>1 DEF HInv
  <2> QED BY <2>2 DEF Buffer
<1>3. FirstBegins' /\ RequestLineDecides' /\ StopsForAReason'
  BY <1>1, ReceivedStays DEF clientVars
<1>4. UnreadBegins'
  BY <1>1 DEF HInv, UnreadBegins, Untouched, Begun, clientVars
<1>5. DataHere'
  <2> SUFFICES ASSUME NEW e \in Ready, Data(e)
               PROVE  unread[owner[e.fd]] # <<>> \/ peer[owner[e.fd]] = "reset"
    BY <1>1 DEF DataHere, Data, clientVars
  <2>1. CASE e = Event(Listener, "read", FALSE)
    BY <2>1 DEF Event, Data
  <2>2. ASSUME NEW d \in Owned, Readable(owner[d]),
               e = Event(d, "read", peer[owner[d]] # "sending")
        PROVE  unread[owner[e.fd]] # <<>> \/ peer[owner[e.fd]] = "reset"
    <3>1. e.fd = d /\ peer[owner[d]] = "sending"
      BY <2>2 DEF Event, Data
    <3> QED BY <2>2, <3>1 DEF Readable
  <2>3. ASSUME NEW d \in writeKnotes, e = Event(d, "write", peer[owner[d]] = "reset")
        PROVE  FALSE
    BY <2>3 DEF Event, Data
  <2> QED BY <2>1, <2>2, <2>3 DEF Ready
<1>6. ReplyRight' /\ AnsweredOnce'
  BY <1>1 DEF HInv, ReplyRight, AnsweredOnce, clientVars
<1> QED BY <1>2, <1>3, <1>4, <1>5, <1>6 DEF HInv

LEMMA CloseAtEofHoldsToo ==
    ASSUME IInv, HInv, NEW e \in events, CloseAtEof(e)
    PROVE  HInv'
<1>1. /\ UNCHANGED <<peer, request, sent, unread, first, answer, fresh, at, current,
                     memory, running>>
      /\ at = "loop" /\ e.eof /\ events' = events \ {e} /\ Close(e.fd, "dropped")
  BY DEF CloseAtEof, Begin
<1>2. Owned' = Owned \ {e.fd} /\ \A d \in Owned' : owner'[d] = owner[d]
  BY <1>1, Closing DEF IInv
<1>3. \A c \in Client : /\ stage'[c] \in {stage[c], "dropped"}
                        /\ stage[c] # "open" => stage'[c] = stage[c]
  BY <1>1 DEF Close, IInv, OneDescriptorEach, Serves
<1>4. FirstBegins' /\ RequestLineDecides' /\ StopsForAReason'
  BY <1>1, ReceivedStays
<1>5. \A c \in Client : Untouched(c)' => Untouched(c)
  BY <1>1, <1>3 DEF Untouched
<1>6. UnreadBegins'
  BY <1>1, <1>5 DEF HInv, UnreadBegins, Begun
<1>7. DataHere'
  <2> SUFFICES ASSUME NEW f \in events, Data(f)
               PROVE  unread[owner'[f.fd]] # <<>> \/ peer[owner'[f.fd]] = "reset"
    BY <1>1 DEF DataHere, Data
  <2>1. f.fd \in Owned /\ f.fd # e.fd
    BY <1>1 DEF IInv, DataCurrent
  <2> QED BY <1>2, <2>1 DEF HInv, DataHere
<1>8. Buffer(memory)' /\ ReplyRight' /\ AnsweredOnce'
  <2>1. Buffer(memory)' /\ ReplyRight'
    BY <1>1 DEF HInv, Buffer, ReplyRight
  <2>2. AnsweredOnce'
    BY <1>1, <1>3 DEF HInv, AnsweredOnce
  <2> QED BY <2>1, <2>2
<1> QED BY <1>4, <1>6, <1>7, <1>8 DEF HInv

LEMMA TakeHoldsToo ==
    ASSUME IInv, HInv, TakeConnection, events' \subseteq events,
           at \in {"loop", "accept"}, at' = "loop",
           UNCHANGED <<peer, request, sent, unread, first, answer, current, memory,
                       running>>
    PROVE  HInv'
<1>1. Owned \subseteq Owned' /\ \A d \in Owned : owner'[d] = owner[d]
  BY Taking DEF IInv
<1>2. \A c \in Client : /\ stage'[c] \in {stage[c], "open"}
                        /\ stage[c] # "backlog" => stage'[c] = stage[c]
  BY DEF TakeConnection, Backlog, IInv, TypeOK
<1>3. FirstBegins' /\ RequestLineDecides' /\ StopsForAReason'
  BY ReceivedStays
<1>4. \A c \in Client : Untouched(c)' => Untouched(c)
  BY <1>2 DEF Untouched
<1>5. UnreadBegins'
  BY <1>4 DEF HInv, UnreadBegins, Begun
<1>6. DataHere'
  BY <1>1 DEF HInv, DataHere, IInv, DataCurrent, Data
<1>7. Buffer(memory)' /\ ReplyRight' /\ AnsweredOnce'
  BY <1>2 DEF HInv, Buffer, ReplyRight, AnsweredOnce
<1> QED BY <1>3, <1>5, <1>6, <1>7 DEF HInv

LEMMA PassHoldsToo ==
    ASSUME IInv, HInv, events' \subseteq events,
           UNCHANGED <<clientVars, owner, current, memory, running>>,
           at' = at \/ (at' # "respond" /\ at # "respond")
    PROVE  HInv'
<1> USE DEF clientVars
<1>1. Owned' = Owned
  BY DEF Owned
<1>2. FirstBegins' /\ RequestLineDecides' /\ StopsForAReason'
  BY ReceivedStays
<1>3. UnreadBegins'
  BY <1>1 DEF HInv, UnreadBegins, Begun, Untouched, Serves
<1>4. DataHere'
  BY DEF HInv, DataHere, Data
<1>5. Buffer(memory)' /\ ReplyRight' /\ AnsweredOnce'
  BY <1>1 DEF HInv, Buffer, ReplyRight, AnsweredOnce, Serves, LineCame, RightAnswer
<1> QED BY <1>2, <1>3, <1>4, <1>5 DEF HInv

LEMMA BrokenPipeHoldsToo == IInv /\ HInv /\ BrokenPipe => HInv'
<1> SUFFICES ASSUME IInv, HInv, BrokenPipe PROVE HInv'
  OBVIOUS
<1> USE DEF clientVars
<1>1. /\ UNCHANGED <<clientVars, owner, events, at, current, memory>> /\ ~running'
      /\ \E c \in Client : peer[c] = "reset"
  BY DEF BrokenPipe
<1>2. Owned' = Owned
  BY <1>1 DEF Owned
<1>3. UnreadBegins'
  BY <1>1 DEF HInv, UnreadBegins, Begun, Untouched
<1>4. DataHere' /\ FirstBegins'
  BY <1>1 DEF HInv, DataHere, Data, FirstBegins, Begun
<1>5. Buffer(memory)' /\ ReplyRight' /\ AnsweredOnce'
  BY <1>1, <1>2 DEF HInv, Buffer, ReplyRight, AnsweredOnce, Serves, LineCame, RightAnswer
<1>6. RequestLineDecides'
  BY <1>1 DEF HInv, RequestLineDecides, LineCame
<1>7. StopsForAReason'
  BY <1>1 DEF StopsForAReason
<1> QED BY <1>3, <1>4, <1>5, <1>6, <1>7 DEF HInv

LEMMA RespondHoldsToo == IInv /\ HInv /\ Respond => HInv'
<1> SUFFICES ASSUME IInv, HInv, Respond PROVE HInv'
  OBVIOUS
<1>1. /\ UNCHANGED <<peer, request, sent, unread, first, events, memory, running>>
      /\ at = "respond" /\ at' = "loop" /\ Close(current.fd, "answered")
      /\ answer' = [c \in Client |->
                       IF Serves(current.fd, c) THEN current.answer ELSE answer[c]]
  BY DEF Respond
<1>2. /\ Owned' = Owned \ {current.fd} /\ \A d \in Owned' : owner'[d] = owner[d]
  BY <1>1, Closing DEF IInv
<1>3. \A c \in Client : stage'[c] = IF Serves(current.fd, c) THEN "answered" ELSE stage[c]
  BY <1>1 DEF Close
<1>4. \A c \in Client : Untouched(c)' => Untouched(c)
  BY <1>1, <1>3 DEF Untouched
<1>5. UnreadBegins'
  BY <1>1, <1>4 DEF HInv, UnreadBegins, Begun
<1>6. DataHere'
  <2> SUFFICES ASSUME NEW f \in events, Data(f)
               PROVE  unread[owner'[f.fd]] # <<>> \/ peer[owner'[f.fd]] = "reset"
    BY <1>1 DEF DataHere, Data
  <2>1. f.fd \in Owned /\ f.fd # current.fd
    BY <1>1 DEF IInv, DataCurrent, ReplyCurrent
  <2> QED BY <1>2, <2>1 DEF HInv, DataHere
<1>7. Buffer(memory)' /\ FirstBegins' /\ StopsForAReason'
  BY <1>1 DEF HInv, Buffer, FirstBegins, Begun, StopsForAReason, Harmless
<1>8. ReplyRight'
  BY <1>1 DEF ReplyRight
<1>9. AnsweredOnce'
  BY <1>1, <1>3 DEF HInv, AnsweredOnce
<1>10. RequestLineDecides'
  <2> SUFFICES ASSUME NEW c \in Client, answer'[c] # NoAnswer, LineCame(c)
               PROVE  RightAnswer(c, answer'[c])
    BY <1>1 DEF RequestLineDecides, LineCame, RightAnswer
  <2>1. CASE Serves(current.fd, c)
    BY <1>1, <2>1 DEF HInv, ReplyRight
  <2>2. CASE ~Serves(current.fd, c)
    <3>1. answer'[c] = answer[c]
      BY <1>1, <2>2
    <3> QED BY <3>1, RequestLineDecidesIs DEF HInv
  <2> QED BY <2>1, <2>2
<1> QED BY <1>5, <1>6, <1>7, <1>8, <1>9, <1>10 DEF HInv

\* What recv takes from a connection.
LEMMA Received ==
    ASSUME IInv, HInv, NEW e \in events, Receive(e)
    PROVE  \E c \in Client, n \in Nat :
              /\ \A x \in Client : Serves(e.fd, x) <=> x = c
              /\ stage[c] = "open"
              /\ n <= Len(Request(request[c])) /\ unread[c] = Begun(c, n)
              /\ unread[c] # <<>> \/ peer[c] = "reset"
              /\ memory' = Filled(Begun(c, n))
<1>1. Data(e) /\ running /\ at = "loop" /\ memory' = Filled(Arriving(e.fd))
  BY DEF Receive, Begin
<1>2. e.fd \in Owned
  BY <1>1 DEF IInv, DataCurrent
<1>3. PICK c \in Client : c = owner[e.fd]
  BY <1>2 DEF IInv, TypeOK, Owned
<1>4. \A x \in Client : Serves(e.fd, x) <=> x = c
  BY <1>2, <1>3 DEF Serves
<1>5. stage[c] = "open"
  BY <1>2, <1>3 DEF IInv, OneDescriptorEach
<1>6. Untouched(c)
  BY <1>1, <1>5 DEF Untouched
<1>7. memory' = Filled(unread[c])
  BY <1>1, <1>2, <1>3 DEF Arriving
<1>8. unread[c] # <<>> \/ peer[c] = "reset"
  BY <1>1, <1>3 DEF HInv, DataHere
<1>9. \E n \in Nat : n <= Len(Request(request[c])) /\ unread[c] = Begun(c, n)
  <2>1. CASE unread[c] = Begun(c, sent[c])
    BY <2>1 DEF HInv, UnreadBegins
  <2>2. CASE unread[c] = <<>>
    <3>1. 0 <= Len(Request(request[c])) /\ 0 \in Nat
      BY RequestSent
    <3> QED BY <2>2, <3>1, EmptyBegun
  <2> QED BY <1>6, <2>1, <2>2 DEF HInv, UnreadBegins
<1> QED BY <1>4, <1>5, <1>7, <1>8, <1>9

LEMMA ReceiveHoldsToo ==
    ASSUME IInv, HInv, NEW e \in events, Receive(e)
    PROVE  HInv'
<1>1. PICK c \in Client, n \in Nat :
          /\ \A x \in Client : Serves(e.fd, x) <=> x = c
          /\ stage[c] = "open"
          /\ n <= Len(Request(request[c])) /\ unread[c] = Begun(c, n)
          /\ unread[c] # <<>> \/ peer[c] = "reset"
          /\ memory' = Filled(Begun(c, n))
  BY Received
<1> DEFINE t == TextOf(memory')
           p == DecodeMessage(t)
<1>2. /\ Data(e) /\ running /\ at = "loop" /\ events' = events \ {e}
      /\ UNCHANGED <<stage, peer, request, sent, answer, owner, writeKnotes, fresh>>
      /\ unread' = [x \in Client |-> IF Serves(e.fd, x) THEN <<>> ELSE unread[x]]
      /\ first' = [x \in Client |-> IF Serves(e.fd, x) THEN unread[x] ELSE first[x]]
  BY DEF Receive, Begin
<1>3. \/ /\ \E m \in Methods(p) : current' = [fd |-> e.fd, answer |-> Routed(p.uri, m)]
         /\ at' = "respond"
         /\ UNCHANGED running
      \/ /\ p.state = "abort" \/ p.method = Undefined
         /\ running' = FALSE
         /\ UNCHANGED <<at, current>>
  BY DEF Receive
<1> HIDE DEF p
<1>4. PICK r \in Requests, w \in Seq(Characters) : r = request[c] /\ w = Request(r)
  BY RequestSent
<1>5. n \in 0..Len(w) /\ n \in 0..Len(Request(r)) /\ Begun(c, n) = SubSeq(w, 1, n)
  BY <1>1, <1>4 DEF Begun
<1>6. Buffer(memory)'
  <2>1. Buffer(memory')
    BY <1>1, <1>4, <1>5, TextBegins DEF HInv
  <2> QED BY <2>1 DEF Buffer
<1>7. /\ n >= Len(r.method \o r.uri) + 2 => p.method = Found(r.method) /\ p.uri = r.uri
      /\ n = Len(Request(r)) /\ r.headers # <<>> =>
            p.state # "abort" /\ p.method = Found(r.method)
  BY <1>1, <1>4, <1>5, TextDecides DEF HInv, p
<1>8. Owned' = Owned /\ \A f, x : Serves(f, x)' <=> Serves(f, x)
  BY <1>2 DEF Owned, Serves
<1>9. /\ first'[c] = Begun(c, n) /\ unread'[c] = <<>>
      /\ \A x \in Client \ {c} : first'[x] = first[x] /\ unread'[x] = unread[x]
  BY <1>1, <1>2
<1>10. Len(Begun(c, n)) = n
  BY <1>5
<1>11. UnreadBegins'
  <2>1. unread' \in [Client -> Seq(Characters)]
    <3>1. <<>> \in Seq(Characters)
      OBVIOUS
    <3> QED BY <1>2, <3>1 DEF HInv, UnreadBegins
  <2>2. \A x \in Client : Untouched(x)' => x # c /\ Untouched(x)
    <3>1. ~Untouched(c)'
      BY <1>1, <1>3, <1>8 DEF Untouched
    <3>2. \A x \in Client : Untouched(x)' => Untouched(x)
      BY <1>2 DEF Untouched
    <3> QED BY <3>1, <3>2
  <2> QED BY <1>2, <1>9, <2>1, <2>2 DEF HInv, UnreadBegins, Begun
<1>12. FirstBegins'
  <2>1. ASSUME NEW x \in Client
        PROVE  \E k \in 0..Len(Request(request[x])) : first'[x] = Begun(x, k)
    <3>1. CASE x = c
      BY <1>4, <1>5, <1>9, <3>1
    <3>2. CASE x # c
      BY <1>9, <3>2 DEF HInv, FirstBegins
    <3> QED BY <3>1, <3>2
  <2> QED BY <1>2, <2>1 DEF FirstBegins, Begun
<1>13. DataHere'
  <2> SUFFICES ASSUME NEW f \in events \ {e}, Data(f)
               PROVE  unread'[owner[f.fd]] # <<>> \/ peer[owner[f.fd]] = "reset"
    BY <1>2 DEF DataHere, Data
  <2>1. f.fd \in Owned /\ e.fd \in Owned /\ owner[f.fd] \in Client
    BY <1>2 DEF IInv, DataCurrent, TypeOK, Owned
  <2>2. f.fd # e.fd
    <3> SUFFICES ASSUME f.fd = e.fd PROVE f = e
      OBVIOUS
    <3>1. f.filter = e.filter /\ f.eof = e.eof
      BY <1>2 DEF Data, IInv, TypeOK
    <3> QED BY <3>1 DEF IInv, TypeOK
  <2>3. owner[f.fd] # c
    BY <1>1, <2>1, <2>2 DEF IInv, OneDescriptorEach, Serves
  <2> QED BY <1>9, <2>1, <2>3 DEF HInv, DataHere
<1>14. answer[c] = NoAnswer
  BY <1>1 DEF HInv, AnsweredOnce
<1>15. AnsweredOnce'
  BY <1>2 DEF HInv, AnsweredOnce
<1>16. RequestLineDecides'
  BY <1>2, <1>9, <1>14 DEF HInv, RequestLineDecides, LineCame
<1>17. ReplyRight'
  <2> SUFFICES ASSUME at' = "respond", NEW x \in Client, Serves(current'.fd, x),
                      Len(first'[x]) >= Len(request[x].method \o request[x].uri) + 2
               PROVE  RightAnswer(x, current'.answer)
    BY <1>2, <1>8 DEF ReplyRight, LineCame, RightAnswer
  <2>1. PICK m \in Methods(p) : current' = [fd |-> e.fd, answer |-> Routed(p.uri, m)]
    BY <1>2, <1>3
  <2>2. x = c
    BY <1>1, <2>1
  <2>3. p.method = Found(r.method) /\ p.uri = r.uri
    BY <1>4, <1>7, <1>9, <1>10, <2>2
  <2>4. m \in Methods([method |-> Found(r.method)])
    BY <2>3 DEF Methods
  <2> QED BY <1>4, <2>1, <2>2, <2>3, <2>4 DEF RightAnswer
<1>18. StopsForAReason'
  <2> SUFFICES ASSUME ~running'
               PROVE  \E x \in Client : peer[x] = "reset" \/ ~Harmless(x)'
    BY <1>2 DEF StopsForAReason
  <2>1. p.state = "abort" \/ p.method = Undefined
    BY <1>2, <1>3
  <2> SUFFICES ASSUME peer[c] # "reset", Harmless(c)' PROVE FALSE
    OBVIOUS
  <2>2. /\ first'[c] \in {<<>>, Request(r)} /\ r.headers # <<>>
        /\ Found(r.method) # Undefined
    BY <1>2, <1>4 DEF Harmless
  <2>3. first'[c] # <<>>
    BY <1>1, <1>9
  <2>4. n = Len(Request(r))
    BY <1>9, <1>10, <2>2, <2>3
  <2> QED BY <1>7, <2>1, <2>2, <2>4
<1> QED BY <1>6, <1>11, <1>12, <1>13, <1>15, <1>16, <1>17, <1>18 DEF HInv

LEMMA NextHoldsToo == IInv /\ HInv /\ [Next]_vars => HInv'
<1> SUFFICES ASSUME IInv, HInv, [Next]_vars PROVE HInv'
  OBVIOUS
<1>1. CASE Clients
  BY <1>1, ClientsHoldToo
<1>2. CASE Kevent
  BY <1>2, KeventHoldsToo
<1>3. ASSUME NEW e \in events, Handle(e)
      PROVE  HInv'
  <2>1. CASE CloseAtEof(e)
    BY <2>1, CloseAtEofHoldsToo
  <2>2. CASE AcceptConnection(e)
    BY <2>2, TakeHoldsToo DEF AcceptConnection, Begin
  <2>3. CASE AcceptFails(e) \/ AcceptBlocks(e) \/ IgnoreWritable(e)
    BY <2>3, PassHoldsToo DEF AcceptFails, AcceptBlocks, IgnoreWritable, Begin
  <2>4. CASE Receive(e)
    BY <2>4, ReceiveHoldsToo
  <2> QED BY <1>3, <2>1, <2>2, <2>3, <2>4 DEF Handle
<1>4. CASE AcceptReturns
  <2>1. CASE TakeConnection
    BY <1>4, <2>1, TakeHoldsToo DEF AcceptReturns
  <2>2. CASE ~TakeConnection
    BY <1>4, <2>2, PassHoldsToo DEF AcceptReturns, clientVars
  <2> QED BY <2>1, <2>2
<1>5. CASE Respond
  BY <1>5, RespondHoldsToo
<1>6. CASE BrokenPipe
  BY <1>6, BrokenPipeHoldsToo
<1>7. CASE UNCHANGED vars
  <2>1. events' \subseteq events
    <3>1. events' = events
      BY <1>7 DEF vars, loopVars
    <3> QED BY <3>1
  <2>2. at' = at \/ (at' # "respond" /\ at # "respond")
    BY <1>7 DEF vars, loopVars
  <2>3. UNCHANGED <<clientVars, owner, current, memory, running>>
    BY <1>7 DEF vars, loopVars
  <2> QED BY <2>1, <2>2, <2>3, PassHoldsToo
<1> QED BY <1>1, <1>2, <1>3, <1>4, <1>5, <1>6, <1>7 DEF Next, ServerWorker

THEOREM ExchangeInvariant == Spec => []HInv
<1> QED BY InitHoldsToo, NextHoldsToo, ServerInvariant, PTL DEF Spec

(* Whoever sends the method and the uri of a request in the first segment gets the
   page for them, for every request, every segmentation and whatever other requests
   have left in buf: recv ends the text with no zero, and DecodeMessage reads on. *)
THEOREM RequestLineAnswered == Spec => []RequestLineDecides
<1>1. HInv => RequestLineDecides
  BY DEF HInv
<1> QED BY <1>1, ExchangeInvariant, PTL

(* The process stops, by an assert of DecodeMessage, in methodToString or by SIGPIPE,
   only after a client has reset its connection, has sent its request in pieces,
   without a header or with a method that is not known. *)
THEOREM StopHasReason == Spec => []StopsForAReason
<1>1. HInv => StopsForAReason
  BY DEF HInv
<1> QED BY <1>1, ExchangeInvariant, PTL
=============================================================================
