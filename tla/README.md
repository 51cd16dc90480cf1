# YAWS: a verification of its Raft server and its web server

YAWS is a web server with a Raft server beside it, one process, written in C++.
This directory holds TLA+ models of it, the TLC configurations that check them,
and proofs for TLAPS. `tlc -config X.cfg M` checks a model, `tlapm M.tla` a
module of proofs.

## The system

| Part | Code | State it keeps | Operations |
| --- | --- | --- | --- |
| Raft election | `src/raft/RaftServerImpl.cpp` | `ServerSharedProperties`: term, vote, votes counted, `isLeader`, timers; `InstanceInfo` per peer: `awaitingVote`, `lastRequest` | `ReceiveMessage`, `StartElection`, `SendHeartBeat`, `DoRetransmission`, `RevertToFollower`, `ResetElectionTimer` |
| Raft life cycle | `src/raft/RaftServer.cpp`, `Worker` | the two threads, `mutex`, the condition variable, `stopWorker`, `workerLoopCompletion` | `Mobilize`, `Demobilize`, `WaitForAtLeastOneWorkerLoop`, `Worker`, `ServerWorker` |
| Raft messages | `src/raft/RaftMessageImpl.cpp`, `Common::ReadMem*` | none | `EncodeMessage`, `DecodeMessage` |
| Connections to peers | `src/connect/ConnectionPool.cpp`, `SocketImpl::Send`, `Connect` | the map from end point to socket | `Send`, `GetConnection`, `AddConnection` |
| Accept loop | `SocketImpl::SetUp`, `Accept` | kqueue, the event list, a buffer on the stack | accept, close at EOF, one recv and one handler call per readable descriptor |
| HTTP server | `src/http` | the router | `Mobilize`, `AddRoute`, `Handler`, `ReceiveMessage` |
| HTTP messages | `HttpMessageImpl.cpp` | none | `DecodeMessage` (a state machine over characters), `EncodeMessage` |
| Template engine | `src/templateEngine` | a tree of fragments, the stacks of `LoadRecursive` | `Load`, `Set`, `SetBlock`, `Repeat`, `Render`, the tokenizer |
| JSON | `src/json`, `Common::Escape`, `UnEscape` | a value | `FromString` and its parsers, `ToString` |
| Timer | `src/timer` | none | `GetCurrentTime`: whole seconds |
| Bootstrap | `src/Bootstrap.cpp`, `main.cpp` | the configuration | `LoadConfigFile`, `Run` |
| Applications | `src/app` | none | five routes of fixed pages |

How they interact. `Run` reads the configuration, mobilizes the Raft server and
then the HTTP server, and spins. The Raft server has two threads: `Worker`
wakes every `rpcTimeout` and, by the time since the last leader message, sends
heartbeats, starts an election or retransmits; `ServerWorker` runs the accept
loop and hands what it receives through `DecodeMessage` to `ReceiveMessage`.
Both send through `SocketImpl::Send` and the pool. They share
`ServerSharedProperties`; `Worker` takes its mutex for heartbeats and
retransmissions, but `StartElection` and `ReceiveMessage` take none. A third
thread may demobilize, or wait for a turn of the worker. The HTTP server has one
thread of its own, an accept loop that calls the routes.

What is hard here: votes and terms under lost, late and duplicated messages; a
decision of the worker that is stale when it acts; restarts without a disk;
promises and a condition variable shared by several threads; a pool without a
lock whose entries are never replaced; a codec for signed chars; one recv taken
for one message; descriptors closed while events of them are listed; asserts on
what the network sends; a tree of copies that own each other; parsers that need
not end. `hazards` in PROJECT.json lists each at its line.

What makes each part correct: one vote per server and term, candidacies that end
completely, terms that only grow (election); no promise lost or kept twice,
every wait and the join come back (life cycle); what is decoded is what was
encoded (messages); messages go to the peer they are for, sockets are bounded
(connections); one answer per connection and the one for its request, no data event
for a closed descriptor (accept, HTTP); a page that is what its includes expand to,
copies that are independent and freed once (templates); parsers that read what was
written and end (JSON, HTTP).

## The modules

| Module | Models |
| --- | --- |
| `VoteLedger` | what an election promises: a set of votes to which only compatible ones are added |
| `RaftElection` | the servers of a cluster at the interface `IRaftServer` |
| `RaftElectionProofs` | its theorems |
| `RaftThreads` | one of those servers, its two threads statement by statement |
| `RaftThreadsProofs` | its theorems |
| `WorkerLoop` | one server's worker thread and its callers |
| `WorkerLoopProofs` | its theorems |
| `RaftMessageCodec` | `EncodeMessage`, `DecodeMessage`, and what `Send` transmits |
| `PeerConnections` | `Send` and the pool, used by two threads |
| `PeerConnectionsProofs` | its theorems |
| `HttpMessages` | `DecodeMessage`, one character at a time, and what a request is |
| `HttpRequestParser` | its runs over whole, cut and malformed requests |
| `HttpRequestParserProofs` | its theorems, and the lemmas they share with the server's: what `DecodeMessage` makes of a request, of a part of one, and of a text that begins with one |
| `HttpExchange` | what a connection is promised: accepted once, then answered once or dropped |
| `HttpServer` | the accept loop and the HTTP handler among clients; uses `HttpMessages` and implements `HttpExchange` |
| `HttpServerProofs` | its theorems |
| `TemplateEngine` | the tokenizer, `LoadRecursive`, and the tree its user changes |
| `TemplateRendering` | what such a tree renders to, and what an operation changes of that |
| `TemplateTexts` | which page it is the tree of |
| `TemplateEngineProofs` | the theorems about the tree and its rendering |
| `JsonValues` | `FromString` with its loops and automata, `ToString`, and which numbers are read |
| `JsonTexts` | which values come back from their texts, and which texts are never finished |
| `CodecProofs` | the theorems about `RaftMessageCodec`, `JsonValues` and `JsonTexts` |
| `MC*` | the constants of the runs |

### RaftElection

State: the fields of `ServerSharedProperties` and `InstanceInfo` under their own
names, as functions of the server. `timerExpired` replaces times:
`TimeKeeperImpl` counts whole seconds and every timeout is below one second
(0.15 to 0.3, half of 0.15 for heartbeats, 0.015 for retransmissions), so a timer
has run out exactly when the second changed since it was reset; `Tick` is that
change as one server sees it. `decision` is the local state of `Worker` between
reading `isLeader` and the time, under no lock, and acting on them: handlers may
run in between, so a leader may start an election and a follower send
heartbeats, as in the code.

Actions: one per handler or worker action, each with all that the code calls in
it (`GrantVote` includes `RevertToFollower` and `ResetElectionTimer`, every
sender includes the `lastRequest` that `SendMessage` stores). A retransmission
happens in an iteration in which nothing else was sent: after a heartbeat or an
election of the same iteration what was sent carries the same `now`, so nothing
is due. Which of the awaited peers are due depends on times that are abstracted,
so it is left open. `CountVote` looks at no term and leaves `awaitingVote`, and
`AdoptTerm` leaves `votedThisTerm`, as the code does.

The network keeps every message and delivers it any number of times or never.
`Restart` kills a process; the new one starts with term 0 and no vote.

The granularity is that of handlers. The code lets `StartElection` and
`ReceiveMessage` run at the same time without a lock; the theorems of this module
are about a server whose handlers exclude each other, and `RaftThreads` says what
is left of them when they do not.

The module is about `IRaftServer`, where messages arrive as they were sent. Over
the sockets they do not (see `RaftMessageCodec`): a vote result arrives as a vote
request, and the term and sender of a vote are cut off. What is checked and
proved of the election is the algorithm, not this transport of it.

### RaftThreads

State: the same fields, of one server; for each of its two threads the place it
is at and its locals (`due`, `ownTerm`, `dest`, `todo` of `Worker`; `msg` and the
number it has loaded, `value`, of `ServerWorker`). An action is one load or store
of a shared field; `currentTerm++` and `votesForUs++` are a load and a store, and so
are `CheckQuorum` and `BecomeLeader`, the test of the votes and what follows it.
Neighbouring stores are one step where the other thread cannot tell them apart:
`votedThisTerm` with `votedFor`, the loop that clears `awaitingVote`, and the
sections of `Worker` under the mutex, of which only the sends are steps of their
own. The one place where a handler takes the mutex is `ResetElectionTimer`
(`MutexFree`). `StartElection` resets the election timer without it. `Mobilize`
starts `ServerWorker` before it clears the instances, and so does `Init`.

The accesses are data races; what is modelled is every interleaving of them, not
what a compiler may make of them beyond that. Two threads that change the map
`instances` at once are not modelled either, as its effect is undefined. The code
is exposed to it: `Mobilize` clears the map (`RaftServer.cpp:49`) while
`ServerWorker` may be in a handler, and the first access to each peer afterwards,
by either thread, inserts the peer's key again.

The peers are the environment: any vote request and any heartbeat of any term may
come at any time, and a grant of any vote that was asked for, late and twice.

Some interleavings do break the election. The ghost `raced` names them, and only
them:

* `"election"`: a handler has compared its message's term and not yet stored it
  (`AboutToAdopt`) while `StartElection` is between loading the old term and its
  last request (`InElection`). The server then votes for itself and for the
  sender in one term, or stores a term below the one it had, or asks for votes of
  a term it never stood in.
* `"heartbeat"`: a handler has adopted a term and not yet reset `isLeader` while
  `Worker` is on its way to a leader's heartbeat. The heartbeat then carries the
  term of somebody else's leadership.

The windows are as small as they can be: without any one of their places one of
the properties fails in one of the runs below, or in the second with two peers.
Outside them every interleaving is harmless, also those that look bad, such as a
grant that passes its comparison with the old term, finds `votedFor` of that
term, and is overtaken by a whole election. The exemption means that the properties
of this module do not hold of a server in which these two overlaps happen; they say
that nothing else is needed to break them.

### WorkerLoop

State: where the worker is between two operations on the mutex, its local
`signal`, the promise `workerLoopCompletion` (named by the call it belongs to),
`stopWorker`, and where each call and the controlling thread are. Steps are
critical sections. The mutex is held over several steps only by the worker
(before its wait, and while it sends), so it is the predicate `MutexFree` on the
worker's place. `InstallPromise` destroys a promise that is still there, which
makes its future ready as broken: `wait()` returns for that too. `Mobilize`
happens once, because `serverWorker` is never joined and stays joinable.
`WaitTimesOut` is also the spurious wakeup. Three ghosts (`began`, `looped`,
`overlapped`) say since which calls an iteration began and was completed, and
which calls overlapped another.

### RaftMessageCodec

A number is its four bytes, so that sign extension is visible. A byte that
`EncodeMessage` does not write is any of `Unwritten`. `ReadMemU32` is written as
what widening a signed char and or-ing does: a byte is 255 if any byte below it
is 128 or more, else itself. `Sent` is the prefix before the first zero byte, as
`Send` measures a binary frame with `strlen`.

### PeerConnections

State: the pool as a set of entries, where each thread is in `Send`, and every
socket ever created with its peer and condition. The map has no lock, which is a
data race of undefined effect; the outcomes taken are that a thread misses an
entry while another inserts, and that of two overlapping insertions one is lost.
The ghost `mishaps` counts both, up to `MaxMishaps` for each peer. The other end is
external: a connection whose peer died takes one more send, is then reset, and the
send after that raises SIGPIPE, for which the program has no handler. A failed
`Connect` leaves its socket open, unless it was `socket()` that failed, and its -1 is
pooled.

As nothing removes or replaces an entry, a peer whose entry is a failed or a dead
connection is given up (`GivenUp`), even when it listens again. The ghost `late`
counts the messages that reach such a peer all the same, over a connection that a
thread made for itself and the pool does not have. `LostForGood` bounds them.

### HttpMessages and HttpRequestParser

The parser is a record of the locals of `DecodeMessage`; `Process` is one turn of its
loop, with one operator per `case`. A text is a sequence of symbols: the characters the
parser compares with, and letters that stand for whole words (a method, a path, a
name). `consume` after a CR or a colon eats the next character whatever it is
(`Lookahead`), and `peek` at the end of a header asserts that the request goes on
(`EndOfHeader`); an assert that fails is the state "abort". The build defines no
NDEBUG. A method the map does not know is `end()->second`, and one that never came is
not initialised: both are `Undefined`, which whoever uses it reads as anything.

`Request(r)` is the text that a client writes for the request `r`, and the reference:
`DecodesWhatCame` says of every beginning of it which parts come out, `AbortsAtCuts`
at exactly which places a cut ends the process.

### HttpServer

State: the descriptor table (`owner`), the one-shot knotes, `eventList`, where the
thread is, and the buffer of `Accept` (`memory`); for each client what it sends, has
sent, and what the server has not read. Actions of the server: `Kevent`, then one action
per branch of the loop of `Accept` (`CloseAtEof`, `AcceptConnection`, `AcceptFails`,
`AcceptBlocks` with `AcceptReturns`, `Receive`, `IgnoreWritable`), and the second half of
the handler, `Respond`, which writes and closes, or `BrokenPipe`. Between them the
clients connect, send the next segment, finish or reset, at any time.

The kernel is external and takes every freedom it has: `kevent` returns all that is
ready, in any order; `accept` gives any free descriptor or fails; closing a descriptor
forgets its knotes but not the events that are listed; a reset may discard what was
unread. That an event which is stale can hit another connection is thus in the model:
a connection accepted in the batch may get the number of one that was closed in it.
`recv` puts no zero behind what it reads, so the text that is decoded goes on with the
bytes an earlier call left (`Filled`, `TextOf`), or with whatever other calls of the
loop put there (`Leftovers`, chosen anew by every `Kevent`).

The answer is the route, or `NotFound`: pages are constants. `write` is taken to send
all of it; a page larger than the send buffer would be cut, as the descriptor does not
block and the result of `write` is not looked at. `EncodeMessage` formats the answer
and is left out.

`RequestLineDecides` needs the first segment to hold the method and the uri, and
`DropsAreDeserved` excepts connections accepted in the same batch: without either
exception the property fails in the run.

### TemplateEngine

A page is a sequence of symbols: the fixed parts of tags, characters of names, others.
The tree is a heap of objects, so that a copy that shares, a leak and a double deletion
can be told from a clean tree. `LoadRecursive` is its two vectors, `files` and `nodes`,
and one action per `case` of its switch; recursion is the stack of tokenizers. Undefined
steps end in "dead": `back()` or `pop_back()` of an empty vector, and a stack that
overflows, which an include of a page in itself must bring (`LoadInclude` recognises it
by a stack deeper than there are pages). A missing page makes a `std::string` of
`nullptr`, an exception in one library and undefined in another: "failed" or "dead".

What is reachable in the heap (what a destructor deletes, what a copy copies, what
`SetBlock` and `operator[]` give) is one operator, `Reached`, a closure written as a
recursive function. A new object has an identity above all in use (`New`), and a copy is
the tree of the copied block with its identities moved by that number.

Between loads the user sets values, enables, disables and repeats what `SetBlock` and
`operator[]` reach; setting a key that does not occur in the block is left out, as it
does not show.

Rendering, in `TemplateRendering`, is a recursive function of the heap: what a block shows
comes from what its fragments or its copies show. `OperationsAreLocal` compares it before and
after an operation of the user: at every place of the tree at most one block may show
something else, none of the changed node's own blocks may, and copies show either what they
did or, when they are new, what the copied block does with everything below it enabled and
not repeated (`Pristine`), as `Block::Copy` drops both.

`TemplateTexts` has the operators that are recursive in a way the prover cannot use. There
`LoadIsExpansion` compares the tree with the page in which every include is replaced by its
page, and says of each page that does not load why.

### JsonValues

A text is a sequence of characters, where `null`, `true` and `false` are one each. The
automata of `ParseInteger` and `ParseFloat` are steps folded over the text, one
character each, the turns of the loop that consume nothing taken together with the next.
An int wraps behind `IntMax`: the code overflows one, which is undefined, and the
build asks for no optimisation. A double is the decimal it is computed from. The loop of
`ParseArray` is a state machine, because it need not end: `calls` is its call stack,
`Element` a turn, `Return` the end.

`JsonTexts` adds the values that are written and read back: `Values` is any set of scalars and
of arrays of values in it, and `Depth`, by which the elements of an array lie less deep than
the array, excludes that an array is an element of itself; a `Json` holds copies of its
elements, so that it cannot be. `Written` is a value's text, by `ToString` but for arrays,
of which `ToString` writes nothing. `ReturnsUnlessUnclosed` states, without the parser's stack of delimiters, for which texts
the loop never ends: an array in which some quote or bracket is left open, at any depth.
An escaped quote counts as a quote here, so `["\""]`, which is JSON, is such a text;
`ReadsWhatIsWritten` excepts arrays whose strings hold a quote for that reason.
`ReadsNumbers`, in `JsonValues`, names the two departures from the grammar of RFC 7159: a lone minus is 0,
and a double may have leading zeros, because `PARSE_ZERO` falls through.

## The runs

| Run | Bounds | Shows |
| --- | --- | --- |
| `raft_election` | 3 servers, 2 elections, 2 counted votes, 1 death of one server; symmetry of the two others | all safety properties, the action property `TermNeverFalls`, refinement of `VoteLedger` |
| `raft_step_down` | 2 servers, 3 elections, no deaths, fairness, no symmetry | `StaleLeaderStepsDown` |
| `raft_threads` | 2 peers, terms up to 2 from them, 2 elections of its own, 2 counted votes; symmetry of the peers | `OneVotePerTerm`, `TermNeverFalls`, `CandidacyIsOwn`, `ResendsSomething` in every interleaving of the two threads |
| `raft_threads_leader` | 1 peer, one more second, fairness, no symmetry | `HeartBeatsAreOwn`, `HandlerReturns` |
| `worker_loop` | 3 calls | safety, `CallReturns`, `DemobilizeReturns` |
| `raft_codec` | 5 numbers, 4 candidate ids, 3 contents of an unwritten byte | what survives a round trip and what is transmitted |
| `raft_codec_node_id` | the same | violated: the node id, as `test.cpp:101` asserts it |
| `peer_connections` | 2 threads, 2 peers, 4 sockets, 1 mishap per peer, 1 death | `RightPeer`, `SocketsBounded`, `LostForGood` |
| `http_parser` | every beginning of requests with up to two headers, and every text of up to five symbols, of which those that no request begins with are only run | `DecodesWhatCame`, `AbortsAtCuts` |
| `http_server` | 2 clients, 2 descriptors, 3 requests, segments that end at 1, 9 or the end, fairness | safety, `DropsAreDeserved`, refinement of `HttpExchange`, `Served` |
| `templates` | pages of up to 4 pieces that include one of up to 1, or a missing one; 4 operations on a block in a block, repeated up to twice | `LoadIsExpansion`, `OneOwner`, `OperationsAreLocal` |
| `json` | arrays of up to 6 symbols, numbers of up to 5, values with arrays in arrays, an int of -8 to 7, fairness | `ReadsWhatIsWritten`, `ReadsNumbers`, `ReturnsUnlessUnclosed` |

Why the bounds are enough. Two elections are the least in which two candidates
compete, with the same term or with different ones, and in which a late result of
the first counts in the second; one death is the least that forgets a vote; two
counted votes make a leader of three servers and let a duplicate count. A step
down needs two leaders of different terms, which two servers reach with three
elections. Three calls give a call that is replaced, one that replaces it and one
after them. Four sockets are what two threads can create for two peers without a
race, or three and a lost entry; one mishap is one more socket, or one more late
message, than there are without. Two peers are two candidates that ask one server
in one term, and the least for which a handler runs between two requests of one
election; the timer runs out at the start, so one second is a second election; a
leader's heartbeat followed by another election needs one more. The numbers of the codec are those of the test,
zero, and numbers with bytes at and above 128. Two clients and two
descriptors give a stale event a connection to hit and a leftover a reader; the first
request is answered with a page, the second has a method the map does not know, the third
has no header; a cut at 1 lies in the method, one at 9 behind the colon of a header or
behind the whole request line. Two headers are the least with a repeated name. Four pieces
make a block in a block, one end too many, and an include between them; four operations
repeat a block, a block in its copy, and change both. Six symbols close a string and a
bracket in each other, or fail to. All the bounds are guards or constants of the runs,
and the theorems hold for every value of them.

The two runs of `RaftThreads` need no exemption from deadlock, as its worker turns
for ever; that its handlers come back is `HandlerReturns`. The other runs do not
check deadlock: with bounded elections, calls or
sockets, and a process that SIGPIPE may end, the models stop where the bound says
so.

Fairness. `raft_step_down`: the worker's loop has no exit but `stopWorker`, so it
keeps acting; seconds pass; a leader repeats its heartbeat every second for as
long as it leads, so one of them is received. That the network loses every one of
them for ever is excluded, and nothing else is assumed of it. `worker_loop`: the
worker runs and its `wait_for` has a timeout; `join` and futures return when they
are ready; a caller gets the mutex some time, because the worker gives it up in
every iteration for as long as it waits, and that is strong fairness.
`raft_threads_leader`: the same two, for `Worker`, the handler and the mutex that
`ResetElectionTimer` takes. `http_server`: the thread loops for as long as the server
runs and each of its steps returns, except `accept` on an empty backlog, for which
`Served` makes its one exception; clients owe nothing. `json`: the loop goes on. No
fairness says an election ever succeeds, and none is claimed.

## What the passing properties leave out

Some properties hold only with an exception, which is then a place where the code may go
wrong and no run says so:

* `OneVotePerTerm` counts the votes of one life of a server: one that restarts may vote
  again. `ElectionSafety` speaks of leaders with a majority of voters that did not
  restart, as duplicated results make leaders without one.
* The properties of `RaftThreads` except its two overlaps, the ghost `raced`.
* `StopsForAReason` and `HttpExchange` permit the web server to end by SIGPIPE, when a
  client resets before it is answered, and `Served` permits it to wait in `accept`, when
  a connection is gone before it is accepted.
* `ReadsWhatIsWritten` excepts arrays whose strings hold a quote, and `ReadsNumbers` compares
  integers as far as an int holds them, and of a double only that it is one.
* `DecodesWhatCame` and `AbortsAtCuts` speak of texts that a request begins with. The
  other short texts of `http_parser` take the parser through its remaining turns, and
  nothing is asserted of what comes out.

## What the violated property says

* `NodeIdSurvives`: `Common.cpp:82` widens signed chars; `test.cpp:101` asserts
  the round trip of a number whose bytes are small.

What other runs show besides, as the code does it: a vote result is decoded as a vote
request, because `EncodeMessage` writes type 1 for it (`RaftMessageImpl.cpp:59`) and
`DecodeMessage` expects 2 (`:112`); a failed connect is pooled as a connection; a request
cut behind a CR, a colon or a header's line ends the process; a client that resets early
can leave the web server in `accept`, or end it with SIGPIPE; a segment that ends in the
request line is completed with the bytes of an earlier request; `FromString` of an array
with an unclosed quote does not return.

## The proofs

The eight proof modules are checked for every value of the constants, from the
named assumptions in the modules: `Node` and `Peer` are finite, each configuration
is a set of nodes, `Thread` is finite and not empty, bounds are natural numbers, an end point is its
host and port; the markers for no call, for the
server itself, for nobody and for no client are not calls, peers or clients, and the
listening descriptor is none that `accept` returns.

The assumptions about HTTP say what a request is. Its parts are texts without what ends
them: no space in a method or uri, no CR in a protocol or a header's value, neither colon
nor CR in a header's name, and no colon in a body that follows no header, which the parser
would take for one (`RequestAssumption`); texts are made of the same `Characters`
(`TextsAssumption`). Requests hold no zero byte and are shorter than `buf`, and a zero lies
behind the longest of them (`BufferAssumption`): without that the code reads past its
buffer, which these models leave out. A segment ends at a number of bytes
(`CutsAssumption`).

Election. Of the properties, one vote per term is not inductive by itself: that a
vote cast now does not contradict an earlier one follows only if the server
remembers the earlier one. So `ElectionInv` has `VotesRemembered`: each vote that
left the server in this life has a term at most `currentTerm`, and if equal, then
`votedThisTerm` and `votedFor` agree with it. A retransmission may resend a
vote request, a heartbeat or a refusal; for it to repeat an old vote and not cast a new
one, `LastRequestSent` (what `lastRequest` holds was sent) and
`RetransmissionIsCurrent` are needed, and that a candidacy is of the present term
is `CandidacyOf`. That what is resent grants nothing, and is a heartbeat only of a
server that leads, rests on what `Worker` may do with a decision that is out of date:
`HeartBeatDecided` says that a server which decided to send heartbeats leads, or awaits
no vote. One lemma per action (`StartElectionStep`, `GrantVoteStep`, ...)
shows that the action keeps `ElectionInv` and is a step of `VoteLedger`;
`ElectionStep` combines them, and `ElectionInvariant`, `ElectionImplementsLedger`
and the others follow by temporal reasoning. `SafeElections` adds the counting
argument: two majorities of a finite set share a member (`MajoritiesShareAVoter`),
whose two votes are of one life or not. It claims nothing of a leader without a
majority: duplicates are counted, and a server list may leave the server out, so
such leaders exist.

Threads. `ThreadsInv` is what each place of one thread may rely on whatever the
other does. Without a race of kind `"election"` it has `UnracedInv`: a worker in
an election has the term it loaded (`ElectionUndisturbed`), a handler about to
store a term has one that is still not below `currentTerm` (`ComparedTerms`), a
grant about to be stored agrees with every vote given (`GrantIsCompatible`), and
the fields remember the vote of the term (`VotesRemembered`), where a vote counts
as given from the store on, before it is sent (`CastVotes`). The delicate place is
the comparison of `votedFor`: a worker may increment the term under it, and the
invariant says why that is harmless: then `votedFor` is, or is about to be, the
server itself. One lemma for the steps of each thread (`UnracedWorker`,
`UnracedHandler`) shows that they keep it, `ThreadsStep` that `ThreadsInv` is
inductive. `VotesOnceUnlessRaced` and `TermFallsOnlyInARace` follow;
`ResendsAMessage` needs no exclusion of races at all.

`CandidacyInv` adds the role to that. A server that stands (it leads, awaits votes, or a
handler is counting one) has asked for votes in its term and is its own vote; a handler
that adopts a term takes these away one after another, first the vote, then the term,
then the role, and `StandsForItself` says what is left at each place, and that a worker
which has asked one peer has asked in the term it loaded. `BeatsForItself` carries that
from the read of the role to the last heartbeat. `CandidaciesOwn` and `HeartBeatsOwn`
are what follows.

Connections. `RightPeer` follows from what the pool and the threads hold
(`HeldConnections`). The bound on sockets is not inductive, because a thread that has
found no entry will create one more: `SocketsCounted` counts these threads with the
sockets, and says that without an entry every socket is in the hands of a thread about
to insert it, or its entry was lost. It assumes that end points are their host and port,
which is what `EndPoint`'s order compares. For `LostForGood` the same is done with the
threads that are to send over a connection the pool does not have (`Outside`): a late
message comes from one of them and takes it inside, the thread whose entry gave the peer
up was inside already, and only a mishap sends one out again. `LateCounted` counts them
with the late messages.

Worker loop. `WorkerInv` says that the promise held is that of a pending call,
that every pending call is held, that a worker that decided to signal has a
promise, and, for `LoopBarrier`, that the held promise of such a worker belongs to
a call since which the iteration began, or to one that overlapped another
(`AnswersHaveReasons`).

HTTP server. That a data event is not stale when its turn comes is not inductive: the
batch may close descriptors and accept gives them again. `IInv` adds to the types and to
`OneDescriptorEach` what the listed events say: a descriptor announced with data is open,
its connection is none accepted since, and no event of the batch says EOF of it
(`DataCurrent`, which rests on `kevent` giving both filters of a descriptor one view of
its end); EOF is announced only for a client that has ended, unless the number has gone
to a connection accepted since (`EofDeserved`); and the descriptor about to be answered is
still that connection's (`ReplyCurrent`). `Closing` and `Taking` are what `close` and
`accept` do to the table, one lemma per action shows that it keeps `IInv`, and
`StepImplements` that it is a step of `HttpExchange` or a stutter. That needs nothing
of the parser.

Which page is answered, and that a harmless request stops nothing, does. `HInv` adds that
what lies unread on a connection is all that its client has sent (`UnreadBegins`), that
announced data is there unless a reset discarded it (`DataHere`), that what was received is
a beginning of the request (`FirstBegins`), that the reply about to be written is the page
for it (`ReplyRight`), and that `buf` holds a zero behind every request, whatever is written
over its front (`Buffer`). `TextDecides` then says what `DecodeMessage` makes of such a
buffer.

Raft messages. A frame is spelled out byte by byte, and a byte that comes out wrong is
traced to the sign of one below it; every case is a finite computation on four bytes.

HTTP messages. `DecodeMessage` is a recursive function over the text, and the theorem that
defines such a function by induction cannot be used. The induction is instead on sets of
numbers: the numbers a claim fails for have a least one (`LeastNumber`), which is neither
the first nor has a predecessor (`Induction`). The claim is that the parser is at place k
of a text in one of a few ways (`InRequest`): in the method, the uri, the protocol, the
name or the value of the i-th header, in the body, or past the end of a request without
headers; each says what the buffer holds (`Reading`), what was reported so far, and that
the text from the last delimiter to k has no delimiter. `FromMethod`, `FromResource`, ...
take one character from each of them, `RequestContinues` combines them, and `RequestEnds`
says what is reported where the text ends and at which places it cannot end. For
`HttpRequestParser` the claim is made of its state, which is then an inductive invariant
(`InEveryCut`), and `CutDecodesWhatCame` and `CutAborts` are read off its last state. For
`HttpServer` it is made of `DecodeMessage` (`DecodesWholeRequest`), and `LineDecides` of a
text that only begins like a request.

Templates. `OneOwner` is not inductive by itself: it says nothing of the stack, on whose last
node new fragments are hung, nor that lists hold only what is allocated, and so one identity
could be freed in one place and hang in another. `IInv` says that the heap
is a `Tree`: what lists hold are objects of it, the engine is in none, no object is in two
places (`Forest`), and all hang below the engine; and that the stack of `LoadRecursive`
holds objects of it. Everything reachable rests on one lemma, that `Reached` is the least set
closed under the steps (`ReachedIsLeast`). `Reached` is recursive over sets that grow, and as
no induction theorem can be instantiated, it is the function itself that is shown to exist:
the least closed sets satisfy its equation (`LeastIsClosure`), and of the sets on which another
solution differs from them one would be maximal (`MinimalSet`, of the complements), though the
equation leads from it to a larger one (`ClosureIsLeast`). A tree then has no cycles (`NoCycle`:
what lies outside of one would hold the engine and lead nowhere into it). Two lemmas carry
the steps: `Clears`, that deleting what hangs in some lists with all below it leaves a tree,
which `Clear` and `Repeat` do, and `Grafts`, that hanging a tree of new identities into one
list gives a tree, which `Add` and `Block::Copy` do. `LoadKeepsTree` and `WorkKeepsTree` apply
them action by action. A load that stops half way, by an exception, leaves a tree as well.

`OperationsAreLocal` is about what a tree shows, which is recursive over the tree. Of the
blocks for which a claim fails one is lowest, as there are no cycles (`Lowest`); that gives
the induction, and that the recursive definition has a solution at all (`RenderingExists`).
One lemma then carries everything: parts of two trees that are alike but for the identities
of their objects show the same (`MirrorShows`). Alike are what an operation leaves untouched,
a copy and what it was copied from but for what `Copy` drops (`CopyShows`), and the same block
before and after its copies are replaced (`PristineSame`). Branches of a tree have nothing in
common (`Apart`, `Branches`), so that a change below one of them is seen by no other
(`BesideChanges`); that is where `Forest` is needed: an object hanging in two places would
show in both. `RepeatedLocal` and `WritesLocal` put this together for the operations.

JSON. `ReadsNumbers` compares two automata, folds of a step over the text, with a grammar that
speaks of parts of the text. In between stand predicates of the first n characters: they end
in the digits before the point, with the point, in the digits behind it, with the letter of
the exponent, ... (`InWhole`, `InPoint`, `InFraction`, `InExponent`, ...). `MoreWhole` and
`MoreFraction` say which of them hold with one character more; by induction each state of
`ParseFloat` is one of them (`FloatSays`, `FloatEnds`), and so is each of `ParseInteger`
(`IntegerSays`), and at the end of the text they are the grammar (`LooseNumbers`,
`StrictNumbers`). For the value, `Reads` says that what was read is the decimal of the digits
so far, or that decimal wrapped, as long as an int can hold it or its negative: one digit more
makes it greater, so a number an int can hold never left it on the way. The least int is the
case in which it did, by one, and comes back with its sign (`IntegersAreExact`).

`ReadsWhatIsWritten` is about texts put together from texts, so its lemmas say what a loop
makes of one text behind another (`RunOverBoth`). Of a scalar it is that `UnEscape` undoes
`Escape` (`EscapedIsUnEscaped`), and that the digits written for a number are a number of
RFC 7159 that says it (`NumberTextIs`), which `NumbersAreRead` is then applied to. Of an
array it needs where its elements are found again. `ParseValueStr` that begins in no string
and with any brackets open has read the text of a value when it has passed it, and has the
same brackets open (`WrittenIsScanned`, by induction on `Depth`); with none open it stops
behind the next comma. So it takes from each offset the element that begins there, and leaves
the offset of the next (`ElementStands`, `ElementIsParsed`). Here the strings must hold no
quote: the escaped one closes the string for the scanner, and its brackets and commas would
count. Of the state machine `ReadSoFar` is inductive: the calls of `ParseArray` are a path
from the value being read (`IsPath`), each but the innermost waits for the element that the
next one reads (`Waiting`), and each has the elements before it and the offset behind what it
took (`CallAt`). `ElementReads` and `ReturnReads` extend the path, shorten it, or end with
the value. That `Written` and `StringsOf` satisfy their equations at all is shown first
(`BodiesExist`), from solutions for what lies less deep, which agree (`BodiesAgree`).

Only model-checked: liveness (the provers have no fairness), with it for which texts
`FromString` returns (`ReturnsUnlessUnclosed`), and what pages a template's tree is of
(`LoadIsExpansion`), which compares the code with definitions over nested pages that are
declared RECURSIVE, which leaves the prover without SMT.

## Not modelled

Logging, the splash screen, the tests and the string helpers of the configuration have no
state a property could be about. `Bootstrap` reads a file once and starts the servers. The
handlers of `Dashboard` load a page, set fixed values and render it, which are actions of
`TemplateEngine`. `EncodeMessage` of HTTP and the conversions of a JSON value to C++ types
read one field each. The rounding of doubles is left out.

Memory safety (the write one past the buffer of `EncodeMessage`, a received segment that
fills the buffer to its last byte, leaks of messages and connections) is outside what
these models can say, but for the objects of the template engine. So is the time that
passes: whole seconds make all servers time out together, which only makes split votes
likely.

Two hazards remain without a property. Two servers that each hold the mutex in a blocking
send to the other, with full socket buffers, wait for each other; that needs the transport
and the threads in one model. A candidate may be refused for a vote of an older term,
which is safe and costs an election; no liveness of elections is claimed.

## Plan

1. `RaftTransport`: two servers of `RaftThreads` with bounded socket buffers between them,
   for the mutual wait of two senders that hold their mutexes.
2. What tree `LoadRecursive` makes of its pages (`LoadIsExpansion`), with the expansion as a
   function of the pages instead of a RECURSIVE operator.
