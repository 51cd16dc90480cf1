--------------------------- MODULE PeerConnections ---------------------------
(***************************************************************************)
(* SocketImpl::Send and the ConnectionPool it looks its connections up in,   *)
(* used by the two threads of a RaftServer: Worker sends requests,           *)
(* ServerWorker sends responses.                                            *)
(*                                                                         *)
(* The pool is a std::map without a lock.  A second thread in it is a data   *)
(* race: while one inserts, another may miss an entry, and of two insertions *)
(* one may be lost.  mishaps counts both, per end point.                    *)
(*                                                                         *)
(* The other end is outside: it listens or not, and when it dies each        *)
(* connection to it takes one more send before it is reset.                 *)
(***************************************************************************)
EXTENDS Integers, FiniteSets, Sequences

CONSTANTS
    Thread,          \* the threads that call Send
    EndPoint,        \* the peers, as records [host, port]
    MaxSockets,      \* bound: sockets ever created
    MaxMishaps,      \* bound: mishaps of each peer
    MaxDeaths        \* bound: deaths of all peers

ASSUME ThreadAssumption == IsFiniteSet(Thread) /\ Thread # {}
ASSUME ConnectionBounds == /\ MaxSockets \in Nat
                           /\ MaxMishaps \in Nat
                           /\ MaxDeaths \in Nat
ASSUME EndPointAssumption ==
    \A e, f \in EndPoint : e.host = f.host /\ e.port = f.port => e = f

VARIABLES
    pool,            \* ConnectionPool::connections, a set of [endPoint, socketFd]
    at, to, sock,    \* where each thread is in Send, its endPoint, its socket
    sockets,         \* every socket created: its peer and its condition
    listening,       \* the peers that are up
    deaths,
    running,         \* FALSE once SIGPIPE has ended the process
    mishaps,         \* ghost: entries missed or lost in a race
    late             \* ghost: messages that reached a peer that was given up

peerVars == <<listening, deaths>>
ghosts == <<mishaps, late>>
vars == <<pool, at, to, sock, sockets, peerVars, running, ghosts>>

Failed == -1         \* what Connect returns without a connection

NoSocket == 0

NoPeer == [host |-> "none", port |-> 0]

Init ==
    /\ pool = {}
    /\ at = [t \in Thread |-> "idle"]
    /\ to = [t \in Thread |-> NoPeer]
    /\ sock = [t \in Thread |-> NoSocket]
    /\ sockets = <<>>
    /\ listening \in SUBSET EndPoint
    /\ deaths = 0
    /\ running = TRUE
    /\ mishaps = [e \in EndPoint |-> 0]
    /\ late = [e \in EndPoint |-> 0]

\* Bug: the port is not compared.
SameEndPoint_HostOnly(e, f) == e.host = f.host

\* Neither is less than the other in EndPoint's order.
SameEndPoint(e, f) == e.host = f.host /\ e.port = f.port

\* What GetConnection finds.
Entries(e) == {c \in pool : SameEndPoint(c.endPoint, e)}

\* Another thread than t is inserting.
Raced(t) == \E u \in Thread \ {t} : at[u] = "inserting"

\* What t looks for, or inserts, is missed or lost.
Mishap(t, e) ==
    /\ Raced(t)
    /\ mishaps[e] < MaxMishaps
    /\ mishaps' = [mishaps EXCEPT ![e] = @ + 1]

-----------------------------------------------------------------------------
\* GetConnection finds an entry.
FindConnection(t, e) ==
    /\ at[t] = "idle"
    /\ to' = [to EXCEPT ![t] = e]
    /\ \E c \in Entries(e) : sock' = [sock EXCEPT ![t] = c.socketFd]
    /\ at' = [at EXCEPT ![t] = "sending"]
    /\ UNCHANGED <<pool, sockets, peerVars, running, ghosts>>

\* Bug: a failed connection is made again, which insert does not replace it by.
MissConnection_Retries(t, e) ==
    /\ at[t] = "idle"
    /\ to' = [to EXCEPT ![t] = e]
    /\ at' = [at EXCEPT ![t] = "connecting"]
    /\ \/ /\ \A c \in Entries(e) : c.socketFd = Failed
          /\ UNCHANGED mishaps
       \/ Entries(e) # {} /\ Mishap(t, e)
    /\ UNCHANGED <<pool, sock, sockets, peerVars, running, late>>

\* GetConnection finds none, or misses the one there is.
MissConnection(t, e) ==
    /\ at[t] = "idle"
    /\ to' = [to EXCEPT ![t] = e]
    /\ at' = [at EXCEPT ![t] = "connecting"]
    /\ \/ Entries(e) = {} /\ UNCHANGED mishaps
       \/ Entries(e) # {} /\ Mishap(t, e)
    /\ UNCHANGED <<pool, sock, sockets, peerVars, running, late>>

\* Connect: none is made when there are no descriptors left, and a failed one
\* does not close the socket it made.  With what it returns the thread goes into
\* the map.
Connect(t) ==
    /\ at[t] = "connecting"
    /\ at' = [at EXCEPT ![t] = "inserting"]
    /\ \/ /\ to[t] \in listening
          /\ Len(sockets) < MaxSockets
          /\ sockets' = Append(sockets, [peer |-> to[t], state |-> "open"])
          /\ sock' = [sock EXCEPT ![t] = Len(sockets) + 1]
       \/ /\ Len(sockets) < MaxSockets
          /\ sockets' = Append(sockets, [peer |-> to[t], state |-> "unconnected"])
          /\ sock' = [sock EXCEPT ![t] = Failed]
       \/ /\ sock' = [sock EXCEPT ![t] = Failed]
          /\ UNCHANGED sockets
    /\ UNCHANGED <<pool, to, peerVars, running, ghosts>>

\* Bug: the entry is not put into the pool.
AddConnection_Forgets(t) ==
    /\ at[t] = "inserting"
    /\ at' = [at EXCEPT ![t] = "sending"]
    /\ UNCHANGED <<pool, to, sock, sockets, peerVars, running, ghosts>>

\* AddConnection, whatever Connect returned.  insert leaves an entry that is
\* already there.
AddConnection(t) ==
    /\ at[t] = "inserting"
    /\ at' = [at EXCEPT ![t] = "sending"]
    /\ \/ /\ Entries(to[t]) = {}
          /\ pool' = pool \cup {[endPoint |-> to[t], socketFd |-> sock[t]]}
          /\ UNCHANGED mishaps
       \/ /\ Entries(to[t]) # {}
          /\ UNCHANGED <<pool, mishaps>>
       \/ /\ Entries(to[t]) = {} /\ Mishap(t, to[t])
          /\ UNCHANGED pool
    /\ UNCHANGED <<to, sock, sockets, peerVars, running, late>>

Condition(s) == IF s = Failed THEN "failed" ELSE sockets[s].state

\* The connection in the pool was never made, or its peer has died.
GivenUp(e) == \E c \in Entries(e) : Condition(c.socketFd) # "open"

Return(t) ==
    /\ at' = [at EXCEPT ![t] = "idle"]
    /\ to' = [to EXCEPT ![t] = NoPeer]
    /\ sock' = [sock EXCEPT ![t] = NoSocket]

\* send: an error that is only logged, or a delivery.
Send(t) ==
    /\ at[t] = "sending"
    /\ Condition(sock[t]) \in {"failed", "open"}
    /\ late' = IF Condition(sock[t]) = "open" /\ GivenUp(to[t])
               THEN [late EXCEPT ![to[t]] = @ + 1] ELSE late
    /\ Return(t)
    /\ UNCHANGED <<pool, sockets, peerVars, running, mishaps>>

\* The first send after the peer closed: the bytes are lost, a reset comes back.
SendToClosed(t) ==
    /\ at[t] = "sending"
    /\ Condition(sock[t]) = "closed"
    /\ sockets' = [sockets EXCEPT ![sock[t]].state = "reset"]
    /\ Return(t)
    /\ UNCHANGED <<pool, peerVars, running, ghosts>>

\* The next one raises SIGPIPE, which nothing handles.
SendToReset(t) ==
    /\ at[t] = "sending"
    /\ Condition(sock[t]) = "reset"
    /\ running' = FALSE
    /\ UNCHANGED <<pool, at, to, sock, sockets, peerVars, ghosts>>

PeerStarts(e) ==
    /\ e \notin listening
    /\ listening' = listening \cup {e}
    /\ UNCHANGED <<pool, at, to, sock, sockets, deaths, running, ghosts>>

PeerDies(e) ==
    /\ e \in listening
    /\ deaths < MaxDeaths
    /\ deaths' = deaths + 1
    /\ listening' = listening \ {e}
    /\ sockets' = [s \in DOMAIN sockets |->
           IF sockets[s].peer = e /\ sockets[s].state = "open"
           THEN [sockets[s] EXCEPT !.state = "closed"]
           ELSE sockets[s]]
    /\ UNCHANGED <<pool, at, to, sock, running, ghosts>>

SendSteps(t) ==
    \/ \E e \in EndPoint : FindConnection(t, e) \/ MissConnection(t, e)
    \/ Connect(t) \/ AddConnection(t)
    \/ Send(t) \/ SendToClosed(t) \/ SendToReset(t)

Next ==
    \/ running /\ \E t \in Thread : SendSteps(t)
    \/ running /\ \E e \in EndPoint : PeerStarts(e) \/ PeerDies(e)

Spec == Init /\ [][Next]_vars

-----------------------------------------------------------------------------
\* A message goes out on a connection to the peer it is for, whichever thread
\* made the connection.
RightPeer ==
    \A t \in Thread :
        at[t] = "sending" /\ sock[t] # Failed => sockets[sock[t]].peer = to[t]

\* Nothing ever closes a socket, yet no peer costs more of them than there are
\* threads that send, and one for each entry a race lost: a thread that has once
\* been through AddConnection finds an entry.
SocketsBounded ==
    \A e \in EndPoint :
        Cardinality({s \in DOMAIN sockets : sockets[s].peer = e})
            <= Cardinality(Thread) + mishaps[e]

\* A peer is given up for good: once its entry is a failed or a dead connection,
\* no more messages reach it, however long it listens, than there are other
\* threads whose own Connect was on its way, and one for each entry a race lost.
LostForGood ==
    \A e \in EndPoint : late[e] < Cardinality(Thread) + mishaps[e]

Place == {"idle", "connecting", "inserting", "sending"}
SocketState == {"unconnected", "open", "closed", "reset"}

TypeOK ==
    /\ pool \subseteq [endPoint : EndPoint, socketFd : Nat \cup {Failed}]
    /\ at \in [Thread -> Place]
    /\ to \in [Thread -> EndPoint \cup {NoPeer}]
    /\ sock \in [Thread -> Nat \cup {Failed}]
    /\ sockets \in Seq([peer : EndPoint, state : SocketState])
    /\ mishaps \in [EndPoint -> Nat]
    /\ late \in [EndPoint -> Nat]

\* s is the result of a Connect to e.
ConnectedTo(s, e) == s = Failed \/ (s \in DOMAIN sockets /\ sockets[s].peer = e)

\* The pool and the threads hold, for each end point, a connection to it.
HeldConnections ==
    /\ \A c \in pool : ConnectedTo(c.socketFd, c.endPoint)
    /\ \A t \in Thread :
          /\ at[t] # "idle" => to[t] \in EndPoint
          /\ at[t] \in {"inserting", "sending"} => ConnectedTo(sock[t], to[t])

SocketsOf(e) == {s \in DOMAIN sockets : sockets[s].peer = e}
ThreadsAt(place, e) == {t \in Thread : at[t] = place /\ to[t] = e}

\* Without an entry every socket of e is in the hands of a thread, or its entry
\* was lost.  A thread that is to connect has found no entry, or missed it.
SocketsCounted ==
    \A e \in EndPoint :
        /\ Entries(e) = {} =>
              Cardinality(SocketsOf(e))
                  <= Cardinality(ThreadsAt("inserting", e)) + mishaps[e]
        /\ Cardinality(SocketsOf(e)) + Cardinality(ThreadsAt("connecting", e))
               <= Cardinality(Thread) + mishaps[e]

IsPooled(e, s) == \E c \in Entries(e) : c.socketFd = s

\* The threads that are to send to e over a connection of their own, which the
\* pool does not have.
Outside(e) ==
    {t \in Thread : /\ to[t] = e
                    /\ \/ at[t] \in {"connecting", "inserting"}
                       \/ at[t] = "sending" /\ ~IsPooled(e, sock[t])}

\* A message that reaches a peer that was given up is from a thread outside, and
\* takes it inside.  The thread that gave the peer up was inside.
LateCounted ==
    \A e \in EndPoint :
        /\ \A c, d \in Entries(e) : c = d
        /\ Entries(e) = {} => late[e] = 0
        /\ Entries(e) # {} =>
              late[e] + Cardinality(Outside(e)) < Cardinality(Thread) + mishaps[e]

\* The inductive invariant.
PoolInv == TypeOK /\ HeldConnections /\ SocketsCounted /\ LateCounted
=============================================================================
