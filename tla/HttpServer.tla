----------------------------- MODULE HttpServer -----------------------------
(***************************************************************************)
(* The HTTP server: SocketImpl::Accept, which takes a batch of events from    *)
(* kevent and handles one after the other, and HttpServerImpl, which decodes, *)
(* routes, answers and closes in the handler.  One thread, ServerWorker.     *)
(*                                                                         *)
(* Outside are the clients, which send a request in segments, finish or reset *)
(* the connection at any time, and the kernel: kevent lists what is ready in  *)
(* any order, a new connection gets any free descriptor, and closing a        *)
(* descriptor forgets its knotes but not the events already listed.           *)
(*                                                                         *)
(* memory is the buffer on Accept's stack.  recv ends nothing with a zero, so *)
(* the text that is decoded goes on with what lay there before.              *)
(***************************************************************************)
EXTENDS HttpMessages, FiniteSets

CONSTANTS
    Client,            \* the connections that clients make
    Descriptor,        \* the descriptors accept can return
    Listener, NoClient, NoAnswer,
    Routes,            \* what AddRoute put into the router: [uri, method]
    Cuts,              \* bound: where a segment may end before the request does
    Size,              \* bound: the bytes of buf
    Leftovers          \* what other calls leave where buf is

NUL == "nul"
NotFound == [uri |-> <<"404">>, method |-> <<"404">>]
Answers == Routes \cup {NotFound}

ASSUME NamesAssumption ==
    /\ NoClient \notin Client
    /\ NoAnswer \notin Answers
    /\ Listener \notin Descriptor
ASSUME SizeAssumption == Size \in Nat
ASSUME CutsAssumption == Cuts \subseteq Nat

\* Requests are text, and behind the longest of them there is a zero in buf.
ASSUME BufferAssumption ==
    /\ NUL \notin Characters
    /\ \A m \in Leftovers :
          /\ m \in [1..Size -> Characters \cup {NUL}]
          /\ \E i \in 1..Size : m[i] = NUL /\ \A r \in Requests : Len(Request(r)) < i

VARIABLES
    stage, peer,       \* per connection: for the server, and for the client
    request, sent,     \* what the client sends, and how much it has sent
    unread,            \* the receive buffer of the socket
    first,             \* ghost: what recv returned on the connection
    answer,            \* what was written to it
    owner,             \* the descriptor table
    writeKnotes,       \* descriptors whose one-shot EVFILT_WRITE is armed
    events,            \* what is left of eventList
    fresh,             \* ghost: accepted since events were listed
    at, current,       \* where the thread is, and the answer it will write
    memory,            \* buf
    running            \* FALSE once an assert or a signal ended the process

clientVars == <<stage, peer, request, sent, unread, first, answer>>
loopVars == <<owner, writeKnotes, events, fresh, at, current, memory, running>>
vars == <<clientVars, loopVars>>

NoReply == [fd |-> Listener, answer |-> NotFound]

\* After Mobilize: the listener is registered and no one has connected.
Init ==
    /\ stage = [c \in Client |-> "idle"]
    /\ peer = [c \in Client |-> "sending"]
    /\ request \in [Client -> Requests]
    /\ sent = [c \in Client |-> 0]
    /\ unread = [c \in Client |-> <<>>]
    /\ first = [c \in Client |-> <<>>]
    /\ answer = [c \in Client |-> NoAnswer]
    /\ owner = [d \in Descriptor |-> NoClient]
    /\ writeKnotes = {}
    /\ events = {}
    /\ fresh = {}
    /\ at = "loop"
    /\ current = NoReply
    /\ memory \in Leftovers
    /\ running = TRUE

Backlog == {c \in Client : stage[c] = "backlog"}

-----------------------------------------------------------------------------
(* The clients. *)

Connect(c) ==
    /\ stage[c] = "idle"
    /\ stage' = [stage EXCEPT ![c] = "backlog"]
    /\ UNCHANGED <<peer, request, sent, unread, first, answer, loopVars>>

Sending(c) == stage[c] \in {"backlog", "open"} /\ peer[c] = "sending"

\* A segment goes as far as the position k.
Send(c) ==
    /\ Sending(c)
    /\ \E k \in Cuts \cup {Len(Request(request[c]))} :
          /\ sent[c] < k /\ k <= Len(Request(request[c]))
          /\ sent' = [sent EXCEPT ![c] = k]
          /\ unread' = [unread EXCEPT
                          ![c] = @ \o SubSeq(Request(request[c]), sent[c] + 1, k)]
    /\ UNCHANGED <<stage, peer, request, first, answer, loopVars>>

\* The client has nothing more to send and waits for the answer.
Finish(c) ==
    /\ Sending(c)
    /\ peer' = [peer EXCEPT ![c] = "finished"]
    /\ UNCHANGED <<stage, request, sent, unread, first, answer, loopVars>>

\* A connection reset in the backlog leaves it.  What came before the reset may
\* be lost with it.
Reset(c) ==
    /\ stage[c] \in {"backlog", "open"} /\ peer[c] # "reset"
    /\ peer' = [peer EXCEPT ![c] = "reset"]
    /\ stage' = [stage EXCEPT ![c] = IF @ = "backlog" THEN "dropped" ELSE @]
    /\ unread' \in {unread, [unread EXCEPT ![c] = <<>>]}
    /\ UNCHANGED <<request, sent, first, answer, loopVars>>

-----------------------------------------------------------------------------
(* kevent. *)

Event(fd, filter, eof) == [fd |-> fd, filter |-> filter, eof |-> eof]

Owned == {d \in Descriptor : owner[d] # NoClient}

\* fd is the descriptor of c.
Serves(fd, c) == fd \in Owned /\ owner[fd] = c

Readable(c) == unread[c] # <<>> \/ peer[c] # "sending"

\* An event that says there is something to recv.
Data(e) == e.fd # Listener /\ e.filter = "read" /\ ~e.eof

Ready ==
    {Event(Listener, "read", FALSE) : c \in Backlog}
    \cup {Event(d, "read", peer[owner[d]] # "sending") :
            d \in {x \in Owned : Readable(owner[x])}}
    \cup {Event(d, "write", peer[owner[d]] = "reset") :
            d \in writeKnotes}

\* Bug: kevent is called before the list is done.
Kevent_Appends ==
    /\ running /\ at = "loop"
    /\ Ready # {}
    /\ events' = events \cup Ready
    /\ writeKnotes' = {}
    /\ fresh' = {}
    /\ memory' \in {memory} \cup Leftovers
    /\ UNCHANGED <<clientVars, owner, at, current, running>>

\* kevent returns with all that is ready and fires the one-shot knotes.
Kevent ==
    /\ running /\ at = "loop" /\ events = {}
    /\ Ready # {}
    /\ events' = Ready
    /\ writeKnotes' = {}
    /\ fresh' = {}
    /\ memory' \in {memory} \cup Leftovers
    /\ UNCHANGED <<clientVars, owner, at, current, running>>

-----------------------------------------------------------------------------
(* The events. *)

Begin(e) ==
    /\ running /\ at = "loop" /\ e \in events
    /\ events' = events \ {e}

\* Bug: the knote stays.
Close_KeepsKnote(fd, s) ==
    /\ stage' = [c \in Client |-> IF Serves(fd, c) THEN s ELSE stage[c]]
    /\ owner' = [d \in Descriptor |-> IF d = fd THEN NoClient ELSE owner[d]]
    /\ UNCHANGED writeKnotes

\* Bug: shutdown in place of close.
Close_Leaks(fd, s) ==
    /\ stage' = [c \in Client |-> IF Serves(fd, c) THEN s ELSE stage[c]]
    /\ UNCHANGED <<owner, writeKnotes>>

\* close(fd): whoever has that descriptor now is left, as stage s.
Close(fd, s) ==
    /\ stage' = [c \in Client |->
                    IF Serves(fd, c) THEN s ELSE stage[c]]
    /\ owner' = [d \in Descriptor |-> IF d = fd THEN NoClient ELSE owner[d]]
    /\ writeKnotes' = writeKnotes \ {fd}

\* Bug: EOF is left to the client.
CloseAtEof_Ignored(e) ==
    /\ Begin(e) /\ e.eof
    /\ UNCHANGED <<clientVars, owner, writeKnotes, fresh, at, current, memory, running>>

\* EV_EOF: the descriptor is closed, whatever is still unread.
CloseAtEof(e) ==
    /\ Begin(e) /\ e.eof
    /\ Close(e.fd, "dropped")
    /\ UNCHANGED <<peer, request, sent, unread, first, answer, fresh, at, current,
                   memory, running>>

\* accept, and the two knotes of the new descriptor.
TakeConnection ==
    \E c \in Backlog, d \in Descriptor \ Owned :
        /\ stage' = [stage EXCEPT ![c] = "open"]
        /\ owner' = [owner EXCEPT ![d] = c]
        /\ writeKnotes' = writeKnotes \cup {d}
        /\ fresh' = fresh \cup {c}

AcceptConnection(e) ==
    /\ Begin(e) /\ ~e.eof /\ e.fd = Listener
    /\ TakeConnection
    /\ UNCHANGED <<peer, request, sent, unread, first, answer, at, current, memory,
                   running>>

\* accept fails, for want of a descriptor (the process may have others open, the
\* system too), and that is all.
AcceptFails(e) ==
    /\ Begin(e) /\ ~e.eof /\ e.fd = Listener
    /\ Backlog # {}
    /\ UNCHANGED <<clientVars, owner, writeKnotes, fresh, at, current, memory, running>>

\* The connection that was announced is gone.  The listener is a blocking
\* socket, so accept waits for the next.
AcceptBlocks(e) ==
    /\ Begin(e) /\ ~e.eof /\ e.fd = Listener
    /\ Backlog = {}
    /\ at' = "accept"
    /\ UNCHANGED <<clientVars, owner, writeKnotes, fresh, current, memory, running>>

AcceptReturns ==
    /\ running /\ at = "accept"
    /\ at' = "loop"
    /\ \/ TakeConnection
       \/ /\ Backlog # {}
          /\ UNCHANGED <<stage, owner, writeKnotes, fresh>>
    /\ UNCHANGED <<peer, request, sent, unread, first, answer, events, current, memory,
                   running>>

\* The text that buf holds: up to the first zero.
TextOf(m) ==
    LET n == CHOOSE n \in 1..Len(m) :
                m[n] = NUL /\ \A i \in 1..(n - 1) : m[i] # NUL
    IN  SubSeq(m, 1, n - 1)

\* Bug: while there is room, what was received before is kept in front.
Filled_Appends(data) ==
    LET n == IF Len(TextOf(memory)) + Len(data) < Size THEN Len(TextOf(memory)) ELSE 0
    IN  [i \in 1..Size |-> IF n < i /\ i <= n + Len(data) THEN data[i - n] ELSE memory[i]]

\* recv puts data in front of what lies in buf.
Filled(data) == [i \in 1..Size |-> IF i <= Len(data) THEN data[i] ELSE memory[i]]

\* The methods that a parser's method is read as.  One that was not assigned, or
\* was read from httpMethodMap.end(), may be any, or none.
Methods(p) == IF p.method = Undefined THEN MethodNames \cup {Undefined} ELSE {p.method}

Route(uri, method) == [uri |-> uri, method |-> method]

\* ReceiveMessage: the handler of the route, or the page for none.
Routed(uri, method) ==
    IF Route(uri, method) \in Routes THEN Route(uri, method) ELSE NotFound

\* What recv returns: nothing if it fails.
Arriving(fd) == IF fd \in Owned THEN unread[owner[fd]] ELSE <<>>

\* recv, DecodeMessage, and the look into the router.  A recv that fails leaves
\* buf alone and is not noticed.
Receive(e) ==
    /\ Begin(e) /\ Data(e)
    /\ memory' = Filled(Arriving(e.fd))
    /\ unread' = [c \in Client |-> IF Serves(e.fd, c) THEN <<>> ELSE unread[c]]
    /\ first' = [c \in Client |-> IF Serves(e.fd, c) THEN unread[c] ELSE first[c]]
    /\ \E t \in {TextOf(memory')} : \E p \in {DecodeMessage(t)} :
          \/ /\ p.state # "abort"
             /\ \E m \in Methods(p) : current' = [fd |-> e.fd, answer |-> Routed(p.uri, m)]
             /\ at' = "respond"
             /\ UNCHANGED running
          \/ \* an assert, or methodToString of what is no method
             /\ p.state = "abort" \/ p.method = Undefined
             /\ running' = FALSE
             /\ UNCHANGED <<at, current>>
    /\ UNCHANGED <<stage, peer, request, sent, answer, owner, writeKnotes, fresh>>

\* Bug: the descriptor is not closed.
Respond_NoClose ==
    /\ running /\ at = "respond"
    /\ \A c \in Client : Serves(current.fd, c) => peer[c] # "reset"
    /\ answer' = [c \in Client |->
                    IF Serves(current.fd, c) THEN current.answer ELSE answer[c]]
    /\ at' = "loop"
    /\ current' = NoReply
    /\ UNCHANGED <<stage, peer, request, sent, unread, first, owner, writeKnotes, events,
                   fresh, memory, running>>

\* write and close.
Respond ==
    /\ running /\ at = "respond"
    /\ \A c \in Client : Serves(current.fd, c) => peer[c] # "reset"
    /\ answer' = [c \in Client |->
                    IF Serves(current.fd, c) THEN current.answer ELSE answer[c]]
    /\ Close(current.fd, "answered")
    /\ at' = "loop"
    /\ current' = NoReply
    /\ UNCHANGED <<peer, request, sent, unread, first, events, fresh, memory, running>>

\* write to a connection that the client has reset: SIGPIPE, which no one handles.
BrokenPipe ==
    /\ running /\ at = "respond"
    /\ \E c \in Client : Serves(current.fd, c) /\ peer[c] = "reset"
    /\ running' = FALSE
    /\ UNCHANGED <<clientVars, owner, writeKnotes, events, fresh, at, current, memory>>

\* Bug: every other event ends in close.
IgnoreWritable_Closes(e) ==
    /\ Begin(e) /\ ~e.eof /\ e.fd # Listener /\ e.filter = "write"
    /\ Close(e.fd, "dropped")
    /\ UNCHANGED <<peer, request, sent, unread, first, answer, fresh, at, current,
                   memory, running>>

\* EVFILT_WRITE: nothing is done.
IgnoreWritable(e) ==
    /\ Begin(e) /\ ~e.eof /\ e.fd # Listener /\ e.filter = "write"
    /\ UNCHANGED <<clientVars, owner, writeKnotes, fresh, at, current, memory, running>>

Handle(e) ==
    \/ CloseAtEof(e)
    \/ AcceptConnection(e)
    \/ AcceptFails(e)
    \/ AcceptBlocks(e)
    \/ Receive(e)
    \/ IgnoreWritable(e)

ServerWorker ==
    \/ Kevent
    \/ \E e \in events : Handle(e)
    \/ AcceptReturns
    \/ Respond
    \/ BrokenPipe

Clients == \E c \in Client : Connect(c) \/ Send(c) \/ Finish(c) \/ Reset(c)

Next == ServerWorker \/ Clients

Spec == Init /\ [][Next]_vars

\* The thread runs for as long as it has something to do.
FairSpec == Spec /\ WF_vars(ServerWorker)

-----------------------------------------------------------------------------
TypeOK ==
    /\ stage \in [Client -> {"idle", "backlog", "open", "answered", "dropped"}]
    /\ peer \in [Client -> {"sending", "finished", "reset"}]
    /\ request \in [Client -> Requests]
    /\ answer \in [Client -> Answers \cup {NoAnswer}]
    /\ owner \in [Descriptor -> Client \cup {NoClient}]
    /\ writeKnotes \subseteq Owned
    /\ events \subseteq [fd : Descriptor \cup {Listener}, filter : {"read", "write"},
                         eof : BOOLEAN]
    /\ fresh \subseteq Client
    /\ at \in {"loop", "accept", "respond"}
    /\ current \in [fd : Descriptor \cup {Listener}, answer : Answers]
    /\ running \in BOOLEAN

\* No two descriptors are of one connection, and exactly the connections that
\* are open have one: none leaks, and none is closed and still served.
OneDescriptorEach ==
    /\ \A d, f \in Owned : owner[d] = owner[f] => d = f
    /\ \A c \in Client : stage[c] = "open" <=> \E d \in Owned : owner[d] = c

\* What kevent announced as data is still about the connection it was announced
\* for when its turn comes, which no other event of the batch has closed; and so
\* is the descriptor that an answer is about to be written to.
DataIsOfItsConnection ==
    /\ \A e \in events : Data(e) => e.fd \in Owned /\ owner[e.fd] \notin fresh
    /\ at = "respond" => current.fd \in Owned /\ owner[current.fd] \notin fresh

\* An event that says EOF may be stale: its descriptor was closed for another
\* event of the batch and given to a new connection, which is then closed in
\* its place.  That costs only connections accepted in that very batch; any other
\* one that is dropped was finished or reset by its client.
DropsAreDeserved ==
    [][\A c \in Client :
          stage[c] = "open" /\ stage'[c] = "dropped" /\ peer[c] = "sending" =>
              c \in fresh]_vars

\* The first segment ends no earlier than the space after the uri.
LineCame(c) == Len(first[c]) >= Len(request[c].method \o request[c].uri) + 2

\* Whoever sends the method and the uri in the first segment gets the page for
\* them, whatever other requests have left in the buffer behind the segment.
\* (A shorter segment is completed with theirs.)
RequestLineDecides ==
    \A c \in Client :
        answer[c] # NoAnswer /\ LineCame(c) =>
            \E m \in Methods([method |-> Found(request[c].method)]) :
                answer[c] = Routed(request[c].uri, m)

\* A request that came in one segment, has a header and a method that is known.
Harmless(c) ==
    /\ first[c] \in {<<>>, Request(request[c])}
    /\ request[c].headers # <<>>
    /\ Found(request[c].method) # Undefined

\* The process stops only after a reset or a request that is not harmless.
StopsForAReason ==
    ~running => \E c \in Client : peer[c] = "reset" \/ ~Harmless(c)

Promise == INSTANCE HttpExchange
ImplementsExchange == Promise!Spec

\* A connection with something to read, data or EOF, is answered or dropped, unless
\* the process stops or the thread is left in accept for ever.
Served ==
    \A c \in Client :
        []<>(at # "accept") =>
            (stage[c] = "open" /\ Readable(c) ~> stage[c] # "open" \/ ~running)
=============================================================================
