------------------------- MODULE PeerConnectionsProofs -------------------------
(* The invariant of PeerConnections, for any threads, peers and bounds. *)
EXTENDS PeerConnections, FiniteSetTheorems, TLAPS

USE DEF ghosts

LEMMA EntriesAreOf ==
    ASSUME TypeOK, NEW e \in EndPoint
    PROVE  Entries(e) = {c \in pool : c.endPoint = e}
BY EndPointAssumption DEF TypeOK, Entries, SameEndPoint

LEMMA CountsAreNumbers ==
    ASSUME TypeOK, NEW e \in EndPoint
    PROVE  /\ IsFiniteSet(SocketsOf(e)) /\ Cardinality(SocketsOf(e)) \in Nat
           /\ \A place \in Place :
                 /\ IsFiniteSet(ThreadsAt(place, e))
                 /\ Cardinality(ThreadsAt(place, e)) \in Nat
           /\ Cardinality(Thread) \in Nat
<1>1. DOMAIN sockets = 1..Len(sockets) /\ Len(sockets) \in Nat
  BY DEF TypeOK
<1>2. IsFiniteSet(1..Len(sockets))
  BY <1>1, FS_Interval
<1>3. IsFiniteSet(SocketsOf(e))
  BY <1>1, <1>2, FS_Subset DEF SocketsOf
<1>4. ASSUME NEW place \in Place
      PROVE  IsFiniteSet(ThreadsAt(place, e))
  BY ThreadAssumption, FS_Subset DEF ThreadsAt
<1> QED
  BY <1>3, <1>4, ThreadAssumption, FS_CardinalityType

\* Threads that are apart are not more than all.
LEMMA ThreadsApart ==
    ASSUME NEW S \in SUBSET Thread, NEW T \in SUBSET Thread, S \cap T = {}
    PROVE  Cardinality(S) + Cardinality(T) <= Cardinality(Thread)
<1>1. IsFiniteSet(S) /\ IsFiniteSet(T)
  BY ThreadAssumption, FS_Subset
<1>2. Cardinality(S \cup T) = Cardinality(S) + Cardinality(T)
  <2>1. Cardinality(S) \in Nat /\ Cardinality(T) \in Nat
    BY <1>1, FS_CardinalityType
  <2>2. /\ Cardinality(S \cup T) = Cardinality(S) + Cardinality(T) - Cardinality(S \cap T)
        /\ Cardinality(S \cap T) = 0
    BY <1>1, FS_Union, FS_EmptySet
  <2> QED
    BY <2>1, <2>2
<1>3. Cardinality(S \cup T) <= Cardinality(Thread)
  BY ThreadAssumption, FS_Subset
<1> QED
  BY <1>2, <1>3

\* A thread goes from one place to another, with the peer it is to send to.
LEMMA ThreadMoves ==
    ASSUME TypeOK, NEW t \in Thread, NEW from \in Place, NEW place \in Place,
           NEW e \in EndPoint, at[t] = from, from # place,
           at' = [at EXCEPT ![t] = place], to'[t] = e,
           \A u \in Thread \ {t} : to'[u] = to[u]
    PROVE  /\ Cardinality(ThreadsAt(place, e))' = Cardinality(ThreadsAt(place, e)) + 1
           /\ to[t] = e =>
                  Cardinality(ThreadsAt(from, e))' = Cardinality(ThreadsAt(from, e)) - 1
<1>0. /\ at'[t] = place
      /\ \A u \in Thread \ {t} : at'[u] = at[u]
  BY DEF TypeOK
<1>1. /\ IsFiniteSet(ThreadsAt(place, e)) /\ IsFiniteSet(ThreadsAt(from, e))
  BY CountsAreNumbers
<1>2. Cardinality(ThreadsAt(place, e))' = Cardinality(ThreadsAt(place, e)) + 1
  <2>1. t \notin ThreadsAt(place, e) /\ ThreadsAt(place, e)' = ThreadsAt(place, e) \cup {t}
    BY <1>0 DEF ThreadsAt
  <2> QED
    BY <1>1, <2>1, FS_AddElement
<1>3. ASSUME to[t] = e
      PROVE  Cardinality(ThreadsAt(from, e))' = Cardinality(ThreadsAt(from, e)) - 1
  <2>1. t \in ThreadsAt(from, e) /\ ThreadsAt(from, e)' = ThreadsAt(from, e) \ {t}
    BY <1>0, <1>3 DEF ThreadsAt
  <2>2. Cardinality(ThreadsAt(from, e) \ {t}) = Cardinality(ThreadsAt(from, e)) - 1
    BY <1>1, <2>1, FS_RemoveElement
  <2> QED
    BY <2>1, <2>2
<1> QED
  BY <1>2, <1>3

\* A sequence that another replaces element by element.
LEMMA SequenceOf ==
    ASSUME NEW S, NEW q \in Seq(S), NEW r, r = [i \in DOMAIN q |-> r[i]],
           \A i \in DOMAIN q : r[i] \in S
    PROVE  r \in Seq(S)
<1>1. DOMAIN q = 1..Len(q) /\ Len(q) \in Nat
  OBVIOUS
<1>2. r \in [1..Len(q) -> S]
  BY <1>1
<1> QED
  BY <1>1, <1>2

LEMMA SequenceElements ==
    ASSUME NEW S, NEW q \in Seq(S)
    PROVE  \A i \in DOMAIN q : q[i] \in S
OBVIOUS

\* Sockets are created, and change their condition, but keep their peer.
SocketsKept ==
    /\ sockets' \in Seq([peer : EndPoint, state : SocketState])
    /\ DOMAIN sockets \subseteq DOMAIN sockets'
    /\ \A s \in DOMAIN sockets : sockets'[s].peer = sockets[s].peer

LEMMA ConnectedStays ==
    ASSUME SocketsKept
    PROVE  \A s, e : ConnectedTo(s, e) => ConnectedTo(s, e)'
BY DEF SocketsKept, ConnectedTo

LEMMA SocketsOfStay ==
    ASSUME SocketsKept, DOMAIN sockets' = DOMAIN sockets, NEW e
    PROVE  SocketsOf(e)' = SocketsOf(e)
BY DEF SocketsKept, SocketsOf

LEMMA NewSocket ==
    ASSUME TypeOK, NEW f \in EndPoint, NEW state \in SocketState,
           sockets' = Append(sockets, [peer |-> f, state |-> state])
    PROVE  /\ SocketsKept
           /\ Len(sockets) + 1 \in Nat
           /\ Len(sockets) + 1 \in DOMAIN sockets'
           /\ sockets'[Len(sockets) + 1].peer = f
           /\ Cardinality(SocketsOf(f))' = Cardinality(SocketsOf(f)) + 1
           /\ \A e \in EndPoint \ {f} : SocketsOf(e)' = SocketsOf(e)
<1> DEFINE n == Len(sockets) + 1
           new == [peer |-> f, state |-> state]
<1>1. /\ Len(sockets) \in Nat
      /\ DOMAIN sockets = 1..Len(sockets)
      /\ DOMAIN sockets' = DOMAIN sockets \cup {n}
      /\ n \notin DOMAIN sockets
      /\ \A s \in DOMAIN sockets : sockets'[s] = sockets[s]
      /\ sockets'[n] = new
      /\ sockets' \in Seq([peer : EndPoint, state : SocketState])
  BY DEF TypeOK
<1> HIDE DEF n
<1>2. SocketsOf(f)' = SocketsOf(f) \cup {n} /\ n \notin SocketsOf(f)
  BY <1>1 DEF SocketsOf
<1>3. \A e \in EndPoint \ {f} : SocketsOf(e)' = SocketsOf(e)
  BY <1>1 DEF SocketsOf
<1>4. Cardinality(SocketsOf(f))' = Cardinality(SocketsOf(f)) + 1
  BY <1>2, CountsAreNumbers, FS_AddElement
<1>5. SocketsKept
  BY <1>1 DEF SocketsKept
<1>6. n \in DOMAIN sockets' /\ sockets'[n].peer = f
  BY <1>1
<1>7. n \in Nat
  BY <1>1 DEF n
<1> QED
  BY <1>3, <1>4, <1>5, <1>6, <1>7 DEF n

-----------------------------------------------------------------------------
(* The messages that reach a peer that was given up. *)

LEMMA OutsideIsFinite ==
    ASSUME NEW e
    PROVE  /\ IsFiniteSet(Outside(e)) /\ Cardinality(Outside(e)) \in Nat
           /\ Cardinality(Thread) \in Nat
  BY ThreadAssumption, FS_Subset, FS_CardinalityType DEF Outside

LEMMA LateStays ==
    ASSUME TypeOK, LateCounted, UNCHANGED <<pool, ghosts>>,
           \A e \in EndPoint : Outside(e)' \subseteq Outside(e)
    PROVE  LateCounted'
<1> SUFFICES ASSUME NEW e \in EndPoint
             PROVE  /\ \A c, d \in Entries(e)' : c = d
                    /\ Entries(e)' = {} => late'[e] = 0
                    /\ Entries(e)' # {} =>
                          late'[e] + Cardinality(Outside(e))'
                              < Cardinality(Thread) + mishaps'[e]
  BY DEF LateCounted
<1>1. Entries(e)' = Entries(e)
  BY DEF Entries
<1>2. Cardinality(Outside(e)') <= Cardinality(Outside(e))
  BY OutsideIsFinite, FS_Subset
<1>3. Cardinality(Outside(e)') \in Nat
  BY OutsideIsFinite, FS_Subset, FS_CardinalityType
<1>4. Cardinality(Outside(e)) \in Nat /\ Cardinality(Thread) \in Nat
  BY OutsideIsFinite
<1>5. late[e] \in Nat /\ mishaps[e] \in Nat
  BY DEF TypeOK
<1> QED
  BY <1>1, <1>2, <1>3, <1>4, <1>5 DEF LateCounted

\* A thread that missed the entry goes outside, and the mishap is counted.
LEMMA LateMissed ==
    ASSUME PoolInv, NEW t \in Thread, NEW e \in EndPoint, MissConnection(t, e)
    PROVE  LateCounted'
<1> SUFFICES ASSUME NEW f \in EndPoint
             PROVE  /\ \A c, d \in Entries(f)' : c = d
                    /\ Entries(f)' = {} => late'[f] = 0
                    /\ Entries(f)' # {} =>
                          late'[f] + Cardinality(Outside(f))'
                              < Cardinality(Thread) + mishaps'[f]
  BY DEF LateCounted
<1> USE DEF PoolInv
<1>1. /\ at[t] = "idle" /\ at' = [at EXCEPT ![t] = "connecting"]
      /\ to' = [to EXCEPT ![t] = e] /\ UNCHANGED <<pool, sock, late>>
  BY DEF MissConnection
<1>2. Entries(f)' = Entries(f) /\ \A s : IsPooled(f, s)' = IsPooled(f, s)
  BY <1>1 DEF Entries, IsPooled
<1>3. \/ Entries(e) = {} /\ mishaps' = mishaps
      \/ Entries(e) # {} /\ mishaps' = [mishaps EXCEPT ![e] = @ + 1]
  BY DEF MissConnection, Mishap
<1>4. /\ late[f] \in Nat /\ mishaps[f] \in Nat
      /\ Cardinality(Outside(f)) \in Nat /\ Cardinality(Thread) \in Nat
  BY OutsideIsFinite DEF TypeOK
<1>5. CASE f # e
  <2>1. Outside(f)' = Outside(f)
    BY <1>1, <1>2, <1>5 DEF Outside, TypeOK
  <2>2. mishaps'[f] = mishaps[f]
    BY <1>3, <1>5 DEF TypeOK
  <2> QED
    BY <1>1, <1>2, <2>1, <2>2 DEF LateCounted
<1>6. CASE f = e
  <2>1. Outside(e)' = Outside(e) \cup {t} /\ t \notin Outside(e)
    BY <1>1, <1>2, <1>6 DEF Outside, TypeOK
  <2>2. Cardinality(Outside(e)') = Cardinality(Outside(e)) + 1
    BY <2>1, OutsideIsFinite, FS_AddElement
  <2>3. Entries(e) # {} => mishaps'[e] = mishaps[e] + 1
    BY <1>3 DEF TypeOK
  <2> QED
    BY <1>1, <1>2, <1>4, <1>6, <2>2, <2>3 DEF LateCounted
<1> QED
  BY <1>5, <1>6

\* The thread whose entry is the first of the peer goes inside.
LEMMA LateAdded ==
    ASSUME PoolInv, NEW t \in Thread, AddConnection(t)
    PROVE  LateCounted'
<1> SUFFICES ASSUME NEW f \in EndPoint
             PROVE  /\ \A c, d \in Entries(f)' : c = d
                    /\ Entries(f)' = {} => late'[f] = 0
                    /\ Entries(f)' # {} =>
                          late'[f] + Cardinality(Outside(f))'
                              < Cardinality(Thread) + mishaps'[f]
  BY DEF LateCounted
<1> USE DEF PoolInv
<1>1. PICK e \in EndPoint : to[t] = e /\ at[t] = "inserting"
  BY DEF AddConnection, HeldConnections
<1>2. /\ at' = [at EXCEPT ![t] = "sending"]
      /\ UNCHANGED <<to, sock, late>>
  BY DEF AddConnection
<1>3. PICK new : /\ new = [endPoint |-> e, socketFd |-> sock[t]]
                 /\ \/ /\ Entries(e) = {}
                       /\ pool' = pool \cup {new} /\ mishaps' = mishaps
                    \/ Entries(e) # {} /\ pool' = pool /\ mishaps' = mishaps
                    \/ /\ Entries(e) = {}
                       /\ pool' = pool /\ mishaps' = [mishaps EXCEPT ![e] = @ + 1]
  BY <1>1 DEF AddConnection, Mishap
<1>4. /\ late[f] \in Nat /\ mishaps[f] \in Nat
      /\ Cardinality(Outside(f)) \in Nat /\ Cardinality(Thread) \in Nat
  BY OutsideIsFinite DEF TypeOK
<1>5. CASE f # e
  <2>1. ~SameEndPoint(e, f)
    BY <1>5, EndPointAssumption DEF SameEndPoint
  <2>2. Entries(f)' = Entries(f) /\ mishaps'[f] = mishaps[f]
    BY <1>3, <1>5, <2>1 DEF Entries, TypeOK
  <2>3. \A s : IsPooled(f, s)' = IsPooled(f, s)
    BY <2>2 DEF IsPooled
  <2>4. Outside(f)' = Outside(f)
    BY <1>1, <1>2, <1>5, <2>3 DEF Outside, TypeOK
  <2> QED
    BY <1>2, <2>2, <2>4 DEF LateCounted
<1>6. CASE f = e /\ Entries(e) = {} /\ pool' = pool \cup {new} /\ mishaps' = mishaps
  <2>1. Entries(e)' = {new}
    BY <1>3, <1>6 DEF Entries, SameEndPoint
  <2>2. IsPooled(e, sock[t])'
    BY <1>2, <1>3, <2>1 DEF IsPooled
  <2>3. Outside(e)' \subseteq Thread \ {t}
    BY <1>1, <1>2, <2>2 DEF Outside, TypeOK
  <2>4. /\ Cardinality(Thread \ {t}) = Cardinality(Thread) - 1
        /\ IsFiniteSet(Thread \ {t})
    BY ThreadAssumption, FS_RemoveElement
  <2>5. Cardinality(Outside(e)') \in Nat /\ Cardinality(Outside(e)') <= Cardinality(Thread) - 1
    BY <2>3, <2>4, FS_Subset, FS_CardinalityType
  <2>6. late[e] = 0
    BY <1>6 DEF LateCounted
  <2> QED
    BY <1>2, <1>4, <1>6, <2>1, <2>5, <2>6
<1>7. CASE f = e /\ pool' = pool /\ (Entries(e) # {} => mishaps' = mishaps)
  <2>1. Entries(e)' = Entries(e) /\ \A s : IsPooled(e, s)' = IsPooled(e, s)
    BY <1>7 DEF Entries, IsPooled
  <2>2. Outside(e)' \subseteq Outside(e)
    BY <1>1, <1>2, <2>1 DEF Outside, TypeOK
  <2>3. Cardinality(Outside(e)') \in Nat /\ Cardinality(Outside(e)') <= Cardinality(Outside(e))
    BY <2>2, OutsideIsFinite, FS_Subset, FS_CardinalityType
  <2> QED
    BY <1>2, <1>4, <1>7, <2>1, <2>3 DEF LateCounted
<1> QED
  BY <1>3, <1>5, <1>6, <1>7

\* The message is from a thread outside, which is back inside.
LEMMA LateSent ==
    ASSUME PoolInv, NEW t \in Thread, Send(t)
    PROVE  LateCounted'
<1> USE DEF PoolInv
<1>1. PICK e \in EndPoint : to[t] = e /\ at[t] = "sending"
  BY DEF Send, HeldConnections
<1>2. /\ at' = [at EXCEPT ![t] = "idle"] /\ to' = [to EXCEPT ![t] = NoPeer]
      /\ sock' = [sock EXCEPT ![t] = NoSocket] /\ UNCHANGED <<pool, mishaps>>
  BY DEF Send, Return
<1>3. \A f : Entries(f)' = Entries(f) /\ \A s : IsPooled(f, s)' = IsPooled(f, s)
  BY <1>2 DEF Entries, IsPooled
<1>4. \A f \in EndPoint : Outside(f)' \subseteq Outside(f) \ {t}
  BY <1>2, <1>3 DEF Outside, TypeOK
<1>5. CASE late' = late
  BY <1>2, <1>4, <1>5, LateStays
<1>6. CASE /\ Condition(sock[t]) = "open" /\ GivenUp(e)
           /\ late' = [late EXCEPT ![e] = @ + 1]
  <2>1. PICK c \in Entries(e) : Condition(c.socketFd) # "open"
    BY <1>6 DEF GivenUp
  <2>2. ~IsPooled(e, sock[t])
    <3> SUFFICES ASSUME NEW d \in Entries(e), d.socketFd = sock[t] PROVE FALSE
      BY DEF IsPooled
    <3>1. d = c
      BY DEF LateCounted
    <3> QED
      BY <1>6, <2>1, <3>1
  <2>3. t \in Outside(e)
    BY <1>1, <2>2 DEF Outside
  <2> SUFFICES ASSUME NEW f \in EndPoint
               PROVE  /\ \A x, y \in Entries(f)' : x = y
                      /\ Entries(f)' = {} => late'[f] = 0
                      /\ Entries(f)' # {} =>
                            late'[f] + Cardinality(Outside(f))'
                                < Cardinality(Thread) + mishaps'[f]
    BY DEF LateCounted
  <2>4. /\ late[f] \in Nat /\ mishaps[f] \in Nat
        /\ Cardinality(Outside(f)) \in Nat /\ Cardinality(Thread) \in Nat
    BY OutsideIsFinite DEF TypeOK
  <2>5. CASE f # e
    <3>1. late'[f] = late[f]
      BY <1>6, <2>5 DEF TypeOK
    <3>2. Cardinality(Outside(f)') \in Nat /\ Cardinality(Outside(f)') <= Cardinality(Outside(f))
      BY <1>4, OutsideIsFinite, FS_Subset, FS_CardinalityType
    <3> QED
      BY <1>2, <1>3, <2>4, <3>1, <3>2 DEF LateCounted
  <2>6. CASE f = e
    <3>1. /\ IsFiniteSet(Outside(e) \ {t})
          /\ Cardinality(Outside(e) \ {t}) = Cardinality(Outside(e)) - 1
      BY <2>3, OutsideIsFinite, FS_RemoveElement
    <3>2. /\ Cardinality(Outside(e)') \in Nat
          /\ Cardinality(Outside(e)') <= Cardinality(Outside(e)) - 1
      BY <1>4, <3>1, FS_Subset, FS_CardinalityType
    <3>3. late'[e] = late[e] + 1
      BY <1>6 DEF TypeOK
    <3>4. Entries(e) # {}
      BY <2>1
    <3> QED
      BY <1>2, <1>3, <2>4, <2>6, <3>2, <3>3, <3>4 DEF LateCounted
  <2> QED
    BY <2>5, <2>6
<1> QED
  BY <1>1, <1>5, <1>6 DEF Send

-----------------------------------------------------------------------------
LEMMA MishapsAreNumbers ==
    ASSUME TypeOK, NEW e \in EndPoint,
           mishaps' = mishaps \/ mishaps' = [mishaps EXCEPT ![e] = @ + 1]
    PROVE  mishaps' \in [EndPoint -> Nat]
<1>1. mishaps \in [EndPoint -> Nat] /\ mishaps[e] + 1 \in Nat
  BY DEF TypeOK
<1>2. CASE mishaps' = mishaps
  BY <1>1, <1>2
<1>3. CASE mishaps' = [mishaps EXCEPT ![e] = @ + 1]
  BY <1>1, <1>3
<1> QED
  BY <1>2, <1>3

LEMMA FindStep ==
    ASSUME PoolInv, NEW t \in Thread, NEW e \in EndPoint, FindConnection(t, e)
    PROVE  PoolInv'
<1> USE DEF PoolInv, FindConnection
<1>1. PICK c \in Entries(e) : sock' = [sock EXCEPT ![t] = c.socketFd]
  OBVIOUS
<1>2. c \in pool /\ c.endPoint = e
  BY EntriesAreOf DEF Entries
<1>3. TypeOK'
  BY <1>1, <1>2 DEF TypeOK, Place
<1>4. HeldConnections'
  BY <1>1, <1>2 DEF TypeOK, HeldConnections, ConnectedTo
<1>5. ASSUME NEW f \in EndPoint
      PROVE  /\ SocketsOf(f)' = SocketsOf(f)
             /\ ThreadsAt("connecting", f)' = ThreadsAt("connecting", f)
             /\ ThreadsAt("inserting", f)' = ThreadsAt("inserting", f)
             /\ Entries(f)' = Entries(f)
  BY DEF TypeOK, SocketsOf, ThreadsAt, Entries
<1>6. SocketsCounted'
  BY <1>5 DEF SocketsCounted
<1>7. LateCounted'
  <2>1. IsPooled(e, c.socketFd)
    BY DEF IsPooled
  <2>2. \A f, s : IsPooled(f, s)' = IsPooled(f, s)
    BY DEF IsPooled, Entries
  <2>3. \A f \in EndPoint : Outside(f)' \subseteq Outside(f)
    BY <1>1, <2>1, <2>2 DEF Outside, TypeOK
  <2> QED
    BY <2>3, LateStays
<1> QED
  BY <1>3, <1>4, <1>6, <1>7

LEMMA MissStep ==
    ASSUME PoolInv, NEW t \in Thread, NEW e \in EndPoint, MissConnection(t, e)
    PROVE  PoolInv'
<1> USE DEF PoolInv, MissConnection
<1>0. \/ Entries(e) = {} /\ mishaps' = mishaps
      \/ Entries(e) # {} /\ mishaps' = [mishaps EXCEPT ![e] = @ + 1]
  BY DEF Mishap
<1>1. TypeOK'
  <2>1. mishaps' \in [EndPoint -> Nat]
    BY <1>0, MishapsAreNumbers
  <2>2. at' \in [Thread -> Place] /\ to' \in [Thread -> EndPoint \cup {NoPeer}]
    BY DEF TypeOK, Place
  <2> QED
    BY <2>1, <2>2 DEF TypeOK
<1>2. HeldConnections'
  BY DEF TypeOK, HeldConnections, ConnectedTo
<1>3. ASSUME NEW f \in EndPoint
      PROVE  /\ SocketsOf(f)' = SocketsOf(f)
             /\ ThreadsAt("inserting", f)' = ThreadsAt("inserting", f)
             /\ Entries(f)' = Entries(f)
             /\ f # e => mishaps'[f] = mishaps[f]
  <2>1. f # e => mishaps'[f] = mishaps[f]
    BY <1>0 DEF TypeOK
  <2>2. SocketsOf(f)' = SocketsOf(f) /\ Entries(f)' = Entries(f)
    BY DEF SocketsOf, Entries
  <2>3. ThreadsAt("inserting", f)' = ThreadsAt("inserting", f)
    BY DEF TypeOK, ThreadsAt
  <2> QED
    BY <2>1, <2>2, <2>3
<1>4. ASSUME NEW f \in EndPoint, f # e
      PROVE  ThreadsAt("connecting", f)' = ThreadsAt("connecting", f)
  BY <1>4 DEF TypeOK, ThreadsAt
<1>5. Cardinality(ThreadsAt("connecting", e))' = Cardinality(ThreadsAt("connecting", e)) + 1
  <2>1. /\ at' = [at EXCEPT ![t] = "connecting"]
        /\ \A u \in Thread \ {t} : to'[u] = to[u]
        /\ to'[t] = e /\ at[t] = "idle" /\ TypeOK
        /\ "idle" \in Place /\ "connecting" \in Place /\ "idle" # "connecting"
    BY DEF TypeOK, Place
  <2> HIDE DEF PoolInv, MissConnection
  <2> QED
    BY <2>1, ThreadMoves
<1>6. Cardinality(ThreadsAt("connecting", e))' + Cardinality(ThreadsAt("inserting", e))'
          <= Cardinality(Thread)
  <2>1. /\ ThreadsAt("connecting", e)' \in SUBSET Thread
        /\ ThreadsAt("inserting", e)' \in SUBSET Thread
        /\ ThreadsAt("connecting", e)' \cap ThreadsAt("inserting", e)' = {}
    BY DEF ThreadsAt
  <2> QED
    BY <2>1, ThreadsApart
<1>7. /\ \A f \in EndPoint : /\ Cardinality(SocketsOf(f)) \in Nat
                              /\ mishaps[f] \in Nat
                              /\ Cardinality(ThreadsAt("inserting", f)) \in Nat
                              /\ Cardinality(ThreadsAt("connecting", f)) \in Nat
      /\ Cardinality(Thread) \in Nat
  BY CountsAreNumbers DEF TypeOK, Place
<1>8. SocketsCounted'
  <2> SUFFICES ASSUME NEW f \in EndPoint
               PROVE  /\ Entries(f)' = {} =>
                            Cardinality(SocketsOf(f))'
                                <= Cardinality(ThreadsAt("inserting", f))' + mishaps'[f]
                      /\ Cardinality(SocketsOf(f))' + Cardinality(ThreadsAt("connecting", f))'
                             <= Cardinality(Thread) + mishaps'[f]
    BY DEF SocketsCounted
  <2>1. CASE f # e
    BY <2>1, <1>3, <1>4 DEF SocketsCounted
  <2>2. CASE f = e /\ Entries(e) = {}
    <3>1. Entries(e)' = {} /\ mishaps'[e] = mishaps[e]
      BY <2>2, <1>0, <1>3
    <3>2. Cardinality(SocketsOf(e)) <= Cardinality(ThreadsAt("inserting", e)) + mishaps[e]
      BY <2>2 DEF SocketsCounted
    <3> QED
      BY <2>2, <3>1, <3>2, <1>3, <1>5, <1>6, <1>7
  <2>3. CASE f = e /\ Entries(e) # {}
    <3>1. Entries(e)' # {} /\ mishaps'[e] = mishaps[e] + 1
      BY <2>3, <1>0, <1>3 DEF TypeOK
    <3>2. Cardinality(SocketsOf(e)) + Cardinality(ThreadsAt("connecting", e))
              <= Cardinality(Thread) + mishaps[e]
      BY DEF SocketsCounted
    <3> QED
      BY <2>3, <3>1, <3>2, <1>3, <1>5, <1>7
  <2> QED
    BY <2>1, <2>2, <2>3
<1>9. LateCounted'
  BY LateMissed
<1> QED
  BY <1>1, <1>2, <1>8, <1>9

LEMMA ConnectStep ==
    ASSUME PoolInv, NEW t \in Thread, Connect(t)
    PROVE  PoolInv'
<1> USE DEF PoolInv
<1>1. PICK e \in EndPoint : to[t] = e /\ at[t] = "connecting"
  BY DEF Connect, HeldConnections
<1>2. /\ at' = [at EXCEPT ![t] = "inserting"]
      /\ UNCHANGED <<pool, to, mishaps, late>>
  BY DEF Connect
<1>3. PICK s \in Nat \cup {Failed} : sock' = [sock EXCEPT ![t] = s]
  <2>1. Len(sockets) + 1 \in Nat
    BY DEF TypeOK
  <2> QED
    BY <2>1 DEF Connect
<1>4. /\ SocketsKept
      /\ ConnectedTo(s, e)'
      /\ \/ Cardinality(SocketsOf(e))' = Cardinality(SocketsOf(e)) + 1
         \/ Cardinality(SocketsOf(e))' = Cardinality(SocketsOf(e))
      /\ \A f \in EndPoint \ {e} : SocketsOf(f)' = SocketsOf(f)
  <2>1. CASE UNCHANGED sockets
    <3>1. s = Failed
      <4>1. sock'[t] = s
        BY <1>3 DEF TypeOK
      <4>2. ~ \E x : sockets' = Append(sockets, x)
        BY <2>1 DEF TypeOK
      <4>3. sock' = [sock EXCEPT ![t] = Failed]
        BY <4>2 DEF Connect
      <4> QED
        BY <4>1, <4>3 DEF TypeOK
    <3> QED
      BY <2>1, <3>1 DEF SocketsKept, TypeOK, ConnectedTo, SocketsOf
  <2>2. ASSUME NEW state \in SocketState,
               sockets' = Append(sockets, [peer |-> e, state |-> state])
        PROVE  /\ SocketsKept
               /\ ConnectedTo(s, e)'
               /\ Cardinality(SocketsOf(e))' = Cardinality(SocketsOf(e)) + 1
               /\ \A f \in EndPoint \ {e} : SocketsOf(f)' = SocketsOf(f)
    <3>1. /\ SocketsKept
          /\ Len(sockets) + 1 \in Nat
          /\ Len(sockets) + 1 \in DOMAIN sockets' /\ sockets'[Len(sockets) + 1].peer = e
          /\ Cardinality(SocketsOf(e))' = Cardinality(SocketsOf(e)) + 1
          /\ \A f \in EndPoint \ {e} : SocketsOf(f)' = SocketsOf(f)
      BY <2>2, NewSocket
    <3>2. sock' = [sock EXCEPT ![t] = Len(sockets) + 1] \/ sock' = [sock EXCEPT ![t] = Failed]
      BY DEF Connect
    <3>3. s = Len(sockets) + 1 \/ s = Failed
      BY <1>3, <3>2 DEF TypeOK
    <3> QED
      BY <3>1, <3>3 DEF ConnectedTo
  <2>3. \/ UNCHANGED sockets
        \/ \E state \in SocketState :
              sockets' = Append(sockets, [peer |-> e, state |-> state])
    BY <1>1 DEF Connect, SocketState
  <2> QED
    BY <2>1, <2>2, <2>3
<1>6. TypeOK'
  <2>1. sock' \in [Thread -> Nat \cup {Failed}]
    BY <1>3 DEF TypeOK
  <2> QED
    BY <2>1, <1>2, <1>4 DEF TypeOK, Place, SocketsKept
<1>7. HeldConnections'
  <2>1. \A u \in Thread \ {t} : at'[u] = at[u] /\ sock'[u] = sock[u]
    BY <1>2, <1>3 DEF TypeOK
  <2>2. sock'[t] = s
    BY <1>3 DEF TypeOK
  <2>3. ConnectedTo(sock[t], to[t])'
    BY <1>1, <1>2, <1>4, <2>2 DEF ConnectedTo
  <2>4. \A r, f : ConnectedTo(r, f) => ConnectedTo(r, f)'
    BY <1>4, ConnectedStays
  <2>5. \A c \in pool' : ConnectedTo(c.socketFd, c.endPoint)'
    BY <1>2, <2>4 DEF HeldConnections
  <2>6. ASSUME NEW u \in Thread \ {t}
        PROVE  /\ at'[u] # "idle" => to'[u] \in EndPoint
               /\ at'[u] \in {"inserting", "sending"} => ConnectedTo(sock[u], to[u])'
    BY <1>2, <2>1, <2>4 DEF HeldConnections
  <2> QED
    BY <1>1, <1>2, <2>3, <2>5, <2>6 DEF HeldConnections
<1>8. ASSUME NEW f \in EndPoint
      PROVE  /\ Entries(f)' = Entries(f) /\ mishaps'[f] = mishaps[f]
             /\ f # e => /\ ThreadsAt("connecting", f)' = ThreadsAt("connecting", f)
                         /\ ThreadsAt("inserting", f)' = ThreadsAt("inserting", f)
  BY <1>1, <1>2 DEF Entries, ThreadsAt, TypeOK
<1>9. /\ Cardinality(ThreadsAt("inserting", e))' = Cardinality(ThreadsAt("inserting", e)) + 1
      /\ Cardinality(ThreadsAt("connecting", e))' = Cardinality(ThreadsAt("connecting", e)) - 1
  <2>1. /\ to'[t] = e /\ \A u \in Thread \ {t} : to'[u] = to[u]
        /\ "inserting" \in Place /\ "connecting" \in Place
    BY <1>1, <1>2 DEF Place
  <2> QED
    BY <1>1, <1>2, <2>1, ThreadMoves
<1>10. /\ \A f \in EndPoint : /\ Cardinality(SocketsOf(f)) \in Nat
                               /\ mishaps[f] \in Nat
                               /\ Cardinality(ThreadsAt("inserting", f)) \in Nat
                               /\ Cardinality(ThreadsAt("connecting", f)) \in Nat
       /\ Cardinality(Thread) \in Nat
  BY CountsAreNumbers DEF TypeOK, Place
<1>11. SocketsCounted'
  <2> SUFFICES ASSUME NEW f \in EndPoint
               PROVE  /\ Entries(f)' = {} =>
                            Cardinality(SocketsOf(f))'
                                <= Cardinality(ThreadsAt("inserting", f))' + mishaps'[f]
                      /\ Cardinality(SocketsOf(f))' + Cardinality(ThreadsAt("connecting", f))'
                             <= Cardinality(Thread) + mishaps'[f]
    BY DEF SocketsCounted
  <2>1. CASE f # e
    BY <2>1, <1>4, <1>8 DEF SocketsCounted
  <2>2. CASE f = e
    <3>1. /\ Entries(e) = {} =>
                Cardinality(SocketsOf(e))
                    <= Cardinality(ThreadsAt("inserting", e)) + mishaps[e]
          /\ Cardinality(SocketsOf(e)) + Cardinality(ThreadsAt("connecting", e))
                 <= Cardinality(Thread) + mishaps[e]
      BY DEF SocketsCounted
    <3>2. Entries(e)' = Entries(e) /\ mishaps'[e] = mishaps[e]
      BY <1>8
    <3> QED
      BY <2>2, <3>1, <3>2, <1>4, <1>9, <1>10
  <2> QED
    BY <2>1, <2>2
<1>12. LateCounted'
  <2>1. \A u \in Thread \ {t} : at'[u] = at[u] /\ sock'[u] = sock[u]
    BY <1>2, <1>3 DEF TypeOK
  <2>2. \A f, r : IsPooled(f, r)' = IsPooled(f, r)
    BY <1>2 DEF IsPooled, Entries
  <2>3. t \in Outside(e) /\ \A f \in EndPoint : t \in Outside(f)' => f = e
    BY <1>1, <1>2 DEF Outside
  <2>4. \A f \in EndPoint : Outside(f)' \subseteq Outside(f)
    BY <1>2, <2>1, <2>2, <2>3 DEF Outside
  <2> QED
    BY <1>2, <2>4, LateStays
<1> QED
  BY <1>6, <1>7, <1>11, <1>12

LEMMA AddStep ==
    ASSUME PoolInv, NEW t \in Thread, AddConnection(t)
    PROVE  PoolInv'
<1> USE DEF PoolInv
<1>1. PICK e \in EndPoint : to[t] = e /\ at[t] = "inserting"
  BY DEF AddConnection, HeldConnections
<1>2. /\ at' = [at EXCEPT ![t] = "sending"]
      /\ UNCHANGED <<to, sock, sockets, late>>
  BY DEF AddConnection
<1>3. PICK new : /\ new = [endPoint |-> e, socketFd |-> sock[t]]
                 /\ \/ /\ Entries(e) = {}
                       /\ pool' = pool \cup {new} /\ mishaps' = mishaps
                    \/ Entries(e) # {} /\ pool' = pool /\ mishaps' = mishaps
                    \/ /\ Entries(e) = {}
                       /\ pool' = pool /\ mishaps' = [mishaps EXCEPT ![e] = @ + 1]
  BY <1>1 DEF AddConnection, Mishap
<1>4. TypeOK'
  <2>1. mishaps' \in [EndPoint -> Nat]
    BY <1>3, MishapsAreNumbers
  <2>2. pool' \subseteq [endPoint : EndPoint, socketFd : Nat \cup {Failed}]
    BY <1>2, <1>3 DEF TypeOK
  <2>3. at' \in [Thread -> Place]
    BY <1>2 DEF TypeOK, Place
  <2> QED
    BY <1>2, <2>1, <2>2, <2>3 DEF TypeOK
<1>5. HeldConnections'
  <2>1. ConnectedTo(sock[t], e)
    BY <1>1 DEF HeldConnections
  <2>2. \A c \in pool' : c \in pool \/ (c.socketFd = sock[t] /\ c.endPoint = e)
    <3>1. new.socketFd = sock[t] /\ new.endPoint = e
      BY <1>3
    <3>2. pool' \subseteq pool \cup {new}
      BY <1>3
    <3> QED
      BY <3>1, <3>2
  <2>3. \A c \in pool' : ConnectedTo(c.socketFd, c.endPoint)'
    BY <1>2, <2>1, <2>2 DEF HeldConnections, ConnectedTo
  <2> QED
    BY <1>1, <1>2, <2>3 DEF TypeOK, HeldConnections, ConnectedTo
<1>6. ASSUME NEW f \in EndPoint
      PROVE  /\ SocketsOf(f)' = SocketsOf(f)
             /\ ThreadsAt("connecting", f)' = ThreadsAt("connecting", f)
  BY <1>1, <1>2 DEF TypeOK, SocketsOf, ThreadsAt
<1>7. ASSUME NEW f \in EndPoint, f # e
      PROVE  /\ Entries(f)' = Entries(f)
             /\ ThreadsAt("inserting", f)' = ThreadsAt("inserting", f)
             /\ mishaps'[f] = mishaps[f]
  <2>1. ~SameEndPoint(e, f)
    BY <1>7, EndPointAssumption DEF SameEndPoint
  <2>2. Entries(f)' = Entries(f)
    BY <1>3, <2>1 DEF Entries
  <2>3. mishaps'[f] = mishaps[f] /\ ThreadsAt("inserting", f)' = ThreadsAt("inserting", f)
    BY <1>1, <1>2, <1>3, <1>7 DEF TypeOK, ThreadsAt
  <2> QED
    BY <2>2, <2>3
<1>8. Cardinality(ThreadsAt("inserting", e))' = Cardinality(ThreadsAt("inserting", e)) - 1
  <2>1. /\ IsFiniteSet(ThreadsAt("inserting", e)) /\ t \in ThreadsAt("inserting", e)
        /\ ThreadsAt("inserting", e)' = ThreadsAt("inserting", e) \ {t}
    BY <1>1, <1>2, CountsAreNumbers DEF ThreadsAt, TypeOK, Place
  <2> QED
    BY <2>1, FS_RemoveElement
<1>9. /\ Cardinality(SocketsOf(e)) \in Nat /\ mishaps[e] \in Nat
      /\ Cardinality(ThreadsAt("inserting", e)) \in Nat
      /\ Cardinality(ThreadsAt("connecting", e)) \in Nat
      /\ Cardinality(Thread) \in Nat
  BY CountsAreNumbers DEF TypeOK, Place
<1>10. new \in pool' => Entries(e)' # {}
  BY <1>3 DEF Entries, SameEndPoint
<1>11. SocketsCounted'
  <2> SUFFICES ASSUME NEW f \in EndPoint
               PROVE  /\ Entries(f)' = {} =>
                            Cardinality(SocketsOf(f))'
                                <= Cardinality(ThreadsAt("inserting", f))' + mishaps'[f]
                      /\ Cardinality(SocketsOf(f))' + Cardinality(ThreadsAt("connecting", f))'
                             <= Cardinality(Thread) + mishaps'[f]
    BY DEF SocketsCounted
  <2>1. CASE f # e
    BY <2>1, <1>6, <1>7 DEF SocketsCounted
  <2>2. CASE f = e
    <3>1. /\ Entries(e) = {} =>
                Cardinality(SocketsOf(e))
                    <= Cardinality(ThreadsAt("inserting", e)) + mishaps[e]
          /\ Cardinality(SocketsOf(e)) + Cardinality(ThreadsAt("connecting", e))
                 <= Cardinality(Thread) + mishaps[e]
      BY DEF SocketsCounted
    <3>2. mishaps'[e] = mishaps[e] \/ mishaps'[e] = mishaps[e] + 1
      BY <1>3 DEF TypeOK
    <3>3. Entries(e)' = {} => Entries(e) = {} /\ mishaps'[e] = mishaps[e] + 1
      <4>1. CASE pool' = pool \cup {new}
        BY <4>1, <1>10
      <4>2. CASE Entries(e) # {} /\ pool' = pool
        BY <4>2 DEF Entries
      <4>3. CASE Entries(e) = {} /\ mishaps' = [mishaps EXCEPT ![e] = @ + 1]
        BY <4>3 DEF TypeOK
      <4> QED
        BY <1>3, <4>1, <4>2, <4>3
    <3> QED
      BY <2>2, <3>1, <3>2, <3>3, <1>6, <1>8, <1>9
  <2> QED
    BY <2>1, <2>2
<1>12. LateCounted'
  BY LateAdded
<1> QED
  BY <1>4, <1>5, <1>11, <1>12

\* A step that leaves the pool and the mishaps alone, and starts no send.
LEMMA QuietStep ==
    ASSUME PoolInv, SocketsKept, DOMAIN sockets' = DOMAIN sockets,
           UNCHANGED <<pool, mishaps>>, late' \in [EndPoint -> Nat], LateCounted',
           \/ UNCHANGED <<at, to, sock>>
           \/ \E t \in Thread : at[t] = "sending" /\ Return(t)
    PROVE  PoolInv'
<1> USE DEF PoolInv
<1>1. TypeOK'
  <2>1. CASE UNCHANGED <<at, to, sock>>
    BY <2>1 DEF TypeOK, SocketsKept
  <2>2. ASSUME NEW t \in Thread, Return(t)
        PROVE  TypeOK'
    <3>1. "idle" \in Place /\ NoSocket \in Nat
      BY DEF Place, NoSocket
    <3> QED
      BY <2>2, <3>1 DEF TypeOK, SocketsKept, Return
  <2> QED
    BY <2>1, <2>2
<1>2. \A s, e : ConnectedTo(s, e) => ConnectedTo(s, e)'
  BY ConnectedStays
<1>3. HeldConnections'
  <2>1. \A c \in pool' : ConnectedTo(c.socketFd, c.endPoint)'
    BY <1>2 DEF HeldConnections
  <2>2. ASSUME NEW u \in Thread, at'[u] # "idle"
        PROVE  at'[u] = at[u] /\ to'[u] = to[u] /\ sock'[u] = sock[u]
    BY <2>2 DEF TypeOK, Return
  <2> QED
    BY <1>2, <2>1, <2>2 DEF HeldConnections
<1>4. ASSUME NEW f \in EndPoint
      PROVE  /\ SocketsOf(f)' = SocketsOf(f) /\ Entries(f)' = Entries(f)
             /\ ThreadsAt("connecting", f)' = ThreadsAt("connecting", f)
             /\ ThreadsAt("inserting", f)' = ThreadsAt("inserting", f)
  <2>1. SocketsOf(f)' = SocketsOf(f)
    BY SocketsOfStay
  <2> QED
    BY <2>1 DEF Entries, ThreadsAt, Return, TypeOK
<1>5. SocketsCounted'
  BY <1>4 DEF SocketsCounted
<1> QED
  BY <1>1, <1>3, <1>5

LEMMA LateQuiet ==
    ASSUME PoolInv, UNCHANGED <<pool, ghosts>>,
           \/ UNCHANGED <<at, to, sock>>
           \/ \E t \in Thread : at[t] = "sending" /\ Return(t)
    PROVE  LateCounted'
<1>1. \A f, s : IsPooled(f, s)' = IsPooled(f, s)
  BY DEF IsPooled, Entries
<1>2. CASE UNCHANGED <<at, to, sock>>
  <2>1. \A f \in EndPoint : Outside(f)' \subseteq Outside(f)
    BY <1>1, <1>2 DEF Outside
  <2> QED
    BY <2>1, LateStays DEF PoolInv
<1>3. ASSUME NEW t \in Thread, Return(t)
      PROVE  LateCounted'
  <2>1. \A f \in EndPoint : Outside(f)' \subseteq Outside(f)
    BY <1>1, <1>3 DEF Outside, Return, PoolInv, TypeOK
  <2> QED
    BY <2>1, LateStays DEF PoolInv
<1> QED
  BY <1>2, <1>3

LEMMA SendingSteps ==
    ASSUME PoolInv, NEW t \in Thread, Send(t) \/ SendToClosed(t) \/ SendToReset(t)
    PROVE  PoolInv'
<1>1. SocketsKept /\ DOMAIN sockets' = DOMAIN sockets
  <2>1. CASE sockets' = sockets
    BY <2>1 DEF SocketsKept, PoolInv, TypeOK
  <2>2. CASE SendToClosed(t)
    <3>1. sockets' = [sockets EXCEPT ![sock[t]].state = "reset"]
      BY <2>2 DEF SendToClosed
    <3>2. \A s \in DOMAIN sockets : sockets[s] \in [peer : EndPoint, state : SocketState]
      BY SequenceElements DEF PoolInv, TypeOK
    <3>3. DOMAIN sockets' = DOMAIN sockets
      BY <3>1
    <3>4. \A s \in DOMAIN sockets :
              sockets'[s] = sockets[s] \/ sockets'[s] = [sockets[s] EXCEPT !.state = "reset"]
      BY <3>1
    <3>5. \A s \in DOMAIN sockets :
              /\ sockets'[s] \in [peer : EndPoint, state : SocketState]
              /\ sockets'[s].peer = sockets[s].peer
      BY <3>2, <3>4 DEF SocketState
    <3>6. sockets' \in Seq([peer : EndPoint, state : SocketState])
      <4>1. sockets' = [s \in DOMAIN sockets |-> sockets'[s]]
        BY <3>1
      <4> QED
        BY <3>5, <4>1, SequenceOf DEF PoolInv, TypeOK
    <3> QED
      BY <3>3, <3>5, <3>6 DEF SocketsKept
  <2> QED
    BY <2>1, <2>2 DEF Send, SendToReset
<1>2. late' \in [EndPoint -> Nat]
  <2>1. to[t] \in EndPoint
    BY DEF PoolInv, HeldConnections, Send, SendToClosed, SendToReset
  <2> QED
    BY <2>1 DEF PoolInv, TypeOK, Send, SendToClosed, SendToReset
<1>3. LateCounted'
  <2>1. CASE Send(t)
    BY <2>1, LateSent
  <2>2. CASE SendToClosed(t)
    BY <2>2, LateQuiet DEF SendToClosed
  <2>3. CASE SendToReset(t)
    BY <2>3, LateQuiet DEF SendToReset
  <2> QED
    BY <2>1, <2>2, <2>3
<1> QED
  BY <1>1, <1>2, <1>3, QuietStep DEF Send, SendToClosed, SendToReset

LEMMA PeerSteps ==
    ASSUME PoolInv, NEW e \in EndPoint, PeerStarts(e) \/ PeerDies(e)
    PROVE  PoolInv'
<1>1. SocketsKept /\ DOMAIN sockets' = DOMAIN sockets
  <2>1. CASE PeerStarts(e)
    BY <2>1 DEF SocketsKept, PoolInv, TypeOK, PeerStarts
  <2>2. CASE PeerDies(e)
    <3>1. \A s \in DOMAIN sockets : sockets[s] \in [peer : EndPoint, state : SocketState]
      BY SequenceElements DEF PoolInv, TypeOK
    <3>2. DOMAIN sockets' = DOMAIN sockets
      BY <2>2 DEF PeerDies
    <3>3. \A s \in DOMAIN sockets :
              sockets'[s] = sockets[s] \/ sockets'[s] = [sockets[s] EXCEPT !.state = "closed"]
      BY <2>2 DEF PeerDies
    <3>4. \A s \in DOMAIN sockets :
              /\ sockets'[s] \in [peer : EndPoint, state : SocketState]
              /\ sockets'[s].peer = sockets[s].peer
      BY <3>1, <3>3 DEF SocketState
    <3>5. sockets' \in Seq([peer : EndPoint, state : SocketState])
      <4>1. sockets' = [s \in DOMAIN sockets |-> sockets'[s]]
        BY <2>2 DEF PeerDies
      <4> QED
        BY <3>4, <4>1, SequenceOf DEF PoolInv, TypeOK
    <3> QED
      BY <3>2, <3>4, <3>5 DEF SocketsKept
  <2> QED
    BY <2>1, <2>2
<1>2. UNCHANGED <<pool, at, to, sock, ghosts>>
  BY DEF PeerStarts, PeerDies
<1>3. late' \in [EndPoint -> Nat] /\ LateCounted'
  BY <1>2, LateQuiet DEF PoolInv, TypeOK
<1> QED
  BY <1>1, <1>2, <1>3, QuietStep

LEMMA PoolInit == Init => PoolInv
<1> SUFFICES ASSUME Init PROVE PoolInv
  OBVIOUS
<1>1. TypeOK
  BY DEF Init, TypeOK, Place, NoSocket
<1>2. HeldConnections
  BY DEF Init, HeldConnections
<1>3. SocketsCounted
  <2> SUFFICES ASSUME NEW e \in EndPoint
               PROVE  /\ Cardinality(SocketsOf(e))
                              <= Cardinality(ThreadsAt("inserting", e)) + mishaps[e]
                      /\ Cardinality(SocketsOf(e)) + Cardinality(ThreadsAt("connecting", e))
                             <= Cardinality(Thread) + mishaps[e]
    BY DEF SocketsCounted
  <2>1. SocketsOf(e) = {} /\ ThreadsAt("inserting", e) = {} /\ ThreadsAt("connecting", e) = {}
    BY DEF Init, SocketsOf, ThreadsAt
  <2>2. Cardinality(Thread) \in Nat /\ mishaps[e] = 0
    BY ThreadAssumption, FS_CardinalityType DEF Init
  <2> QED
    BY <2>1, <2>2, FS_EmptySet
<1>4. LateCounted
  BY DEF Init, LateCounted, Entries
<1> QED
  BY <1>1, <1>2, <1>3, <1>4 DEF PoolInv

LEMMA PoolStep == PoolInv /\ [Next]_vars => PoolInv'
<1> SUFFICES ASSUME PoolInv, [Next]_vars PROVE PoolInv'
  OBVIOUS
<1>1. ASSUME NEW t \in Thread, SendSteps(t)
      PROVE  PoolInv'
  BY <1>1, FindStep, MissStep, ConnectStep, AddStep, SendingSteps DEF SendSteps
<1>2. ASSUME NEW e \in EndPoint, PeerStarts(e) \/ PeerDies(e)
      PROVE  PoolInv'
  BY <1>2, PeerSteps
<1>3. CASE UNCHANGED vars
  <2>1. TypeOK' /\ HeldConnections'
    BY <1>3 DEF vars, PoolInv, TypeOK, HeldConnections, ConnectedTo
  <2>2. SocketsCounted'
    BY <1>3 DEF vars, PoolInv, SocketsCounted, SocketsOf, ThreadsAt, Entries
  <2>3. UNCHANGED <<pool, ghosts, at, to, sock>>
    BY <1>3 DEF vars
  <2>4. LateCounted'
    BY <2>3, LateQuiet
  <2> QED
    BY <2>1, <2>2, <2>4 DEF PoolInv
<1> QED
  BY <1>1, <1>2, <1>3 DEF Next

\* The invariant holds of every execution of Send by any threads.
THEOREM PoolInvariant == Spec => []PoolInv
  BY PoolInit, PoolStep, PTL DEF Spec

\* Send writes to a connection to the peer the message is for, although the pool
\* has no lock and its entries may be lost.
THEOREM MessagesGoToTheirPeer == Spec => []RightPeer
<1>1. PoolInv => RightPeer
  BY DEF PoolInv, HeldConnections, ConnectedTo, RightPeer
<1> QED
  BY <1>1, PoolInvariant, PTL

\* However often Send is called, and whatever connects fail, a peer costs no more
\* sockets than there are threads, and one more for each entry missed or lost.
THEOREM SocketsStayBounded == Spec => []SocketsBounded
<1>1. PoolInv => SocketsBounded
  <2> SUFFICES ASSUME PoolInv, NEW e \in EndPoint
               PROVE  Cardinality(SocketsOf(e)) <= Cardinality(Thread) + mishaps[e]
    BY DEF SocketsBounded, SocketsOf
  <2>1. /\ Cardinality(SocketsOf(e)) \in Nat /\ mishaps[e] \in Nat
        /\ Cardinality(ThreadsAt("connecting", e)) \in Nat
        /\ Cardinality(Thread) \in Nat
    BY CountsAreNumbers DEF PoolInv, TypeOK, Place
  <2> QED
    BY <2>1 DEF PoolInv, SocketsCounted
<1> QED
  BY <1>1, PoolInvariant, PTL

\* A peer whose entry in the pool is a failed or a dead connection is lost for
\* good: whatever the peers do, no more messages reach it than there are other
\* threads whose Connect was on its way when the entry was made, and one more for
\* each entry missed or lost.
THEOREM GivenUpForGood == Spec => []LostForGood
<1>1. PoolInv => LostForGood
  <2> SUFFICES ASSUME PoolInv, NEW e \in EndPoint
               PROVE  late[e] < Cardinality(Thread) + mishaps[e]
    BY DEF LostForGood
  <2>1. late[e] \in Nat /\ mishaps[e] \in Nat
    BY DEF PoolInv, TypeOK
  <2>2. Cardinality(Thread) \in Nat /\ Cardinality(Outside(e)) \in Nat
    BY OutsideIsFinite
  <2>3. Cardinality(Thread) # 0
    BY ThreadAssumption, FS_EmptySet
  <2> QED
    BY <2>1, <2>2, <2>3 DEF PoolInv, LateCounted
<1> QED
  BY <1>1, PoolInvariant, PTL
=============================================================================
