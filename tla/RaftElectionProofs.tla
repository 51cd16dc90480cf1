------------------------- MODULE RaftElectionProofs -------------------------
(***************************************************************************)
(* For every set of servers, every configuration of peers and every bound:  *)
(* the inductive invariant of RaftElection, what follows from it, and that  *)
(* an election implements VoteLedger.                                       *)
(***************************************************************************)
EXTENDS RaftElection, FiniteSetTheorems, TLAPS

-----------------------------------------------------------------------------
(* What is sent. *)

LEMMA NewMessageType ==
    ASSUME TypeOK, NEW type \in Types, NEW n \in Node, NEW p \in Node,
           NEW term \in Nat, NEW granted \in BOOLEAN
    PROVE  NewMessage(type, n, p, term, granted) \in Message
BY DEF TypeOK, NewMessage, Message

LEMMA PeersType == \A n \in Node : Peers(n) \subseteq Node
BY InstancesAssumption DEF Peers

\* SendTo keeps the types and what it enters in lastRequest was sent.
LEMMA SendToType ==
    ASSUME TypeOK, LastRequestSent, NEW n \in Node, NEW sent,
           DOMAIN sent \subseteq Node,
           \A p \in DOMAIN sent : sent[p] \in Message,
           SendTo(n, sent)
    PROVE  /\ lastRequest' \in [Node -> [Node -> Message \cup {None}]]
           /\ msgs' \subseteq Message
           /\ \A a, b \in Node : lastRequest'[a][b] \in msgs' \cup {None}
           /\ \A b \in DOMAIN sent : lastRequest'[n][b] = sent[b]
           /\ \A b \in Node \ DOMAIN sent : lastRequest'[n][b] = lastRequest[n][b]
           /\ \A a \in Node \ {n} : lastRequest'[a] = lastRequest[a]
<1>1. /\ msgs' = msgs \cup {sent[p] : p \in DOMAIN sent}
      /\ lastRequest' = [lastRequest EXCEPT ![n] =
             [p \in Node |-> IF p \in DOMAIN sent THEN sent[p] ELSE lastRequest[n][p]]]
  BY DEF SendTo
<1>2. /\ lastRequest \in [Node -> [Node -> Message \cup {None}]]
      /\ msgs \subseteq Message
  BY DEF TypeOK
<1>3. \A a, b \in Node : lastRequest'[a][b] =
          IF a = n /\ b \in DOMAIN sent THEN sent[b] ELSE lastRequest[a][b]
  BY <1>1, <1>2
<1>4. lastRequest' \in [Node -> [Node -> Message \cup {None}]]
  <2>1. [p \in Node |-> IF p \in DOMAIN sent THEN sent[p] ELSE lastRequest[n][p]]
            \in [Node -> Message \cup {None}]
    BY <1>2
  <2>. QED  BY <2>1, <1>1, <1>2
<1>5. msgs' \subseteq Message
  BY <1>1, <1>2
<1>6. \A a, b \in Node : lastRequest'[a][b] \in msgs' \cup {None}
  BY <1>1, <1>3 DEF LastRequestSent
<1>7. \A a \in Node \ {n} : lastRequest'[a] = lastRequest[a]
  BY <1>1, <1>2
<1>. QED  BY <1>3, <1>4, <1>5, <1>6, <1>7

-----------------------------------------------------------------------------
(* Votes. *)

LEMMA VotesInUnion ==
    ASSUME NEW M, NEW S
    PROVE  VotesIn(M \cup S) = VotesIn(M) \cup VotesIn(S)
BY DEF VotesIn

LEMMA VotesType == TypeOK => Votes \subseteq Ledger!Vote
BY DEF TypeOK, Votes, VotesIn, VoteOf, Message, Ledger!Vote

\* A server that voted for no other in the term of v may cast v.
LEMMA FreshVoteCompatible ==
    ASSUME TypeOK, VotesRemembered, NEW v \in Ledger!Vote,
           v.incarnation = incarnation[v.voter],
           \/ currentTerm[v.voter] < v.term
           \/ /\ currentTerm[v.voter] = v.term
              /\ votedThisTerm[v.voter] => votedFor[v.voter] = v.candidate
    PROVE  Ledger!Compatible(v)
<1>. SUFFICES ASSUME NEW w \in Votes,
                     w.voter = v.voter, w.term = v.term,
                     w.incarnation = v.incarnation
              PROVE  w.candidate = v.candidate
  BY DEF Ledger!Compatible
<1>1. /\ v.voter \in Node
      /\ v.term \in Nat
      /\ currentTerm[v.voter] \in Nat
  BY DEF TypeOK, Ledger!Vote
<1>. QED  BY <1>1 DEF VotesRemembered, Remembered

\* A step of n's process in its present life keeps what was remembered when the
\* term does not fall and a vote of the present term is kept.
LEMMA RememberedKept ==
    ASSUME TypeOK, NEW n \in Node, NEW v \in Ledger!Vote, Remembered(v),
           \A p \in Node : incarnation'[p] = incarnation[p],
           \A p \in Node \ {n} : /\ currentTerm'[p] = currentTerm[p]
                                 /\ votedThisTerm'[p] = votedThisTerm[p]
                                 /\ votedFor'[p] = votedFor[p],
           currentTerm'[n] \in Nat,
           currentTerm'[n] >= currentTerm[n],
           (currentTerm'[n] = currentTerm[n] /\ votedThisTerm[n]) =>
                 /\ votedThisTerm'[n]
                 /\ votedFor'[n] = votedFor[n]
    PROVE  Remembered(v)'
<1>1. /\ v.voter \in Node
      /\ v.term \in Nat
      /\ v.incarnation \in Nat
      /\ currentTerm \in [Node -> Nat]
  BY DEF TypeOK, Ledger!Vote
<1>2. CASE v.voter = n
  BY <1>1, <1>2 DEF Remembered
<1>3. CASE v.voter # n
  BY <1>1, <1>3 DEF Remembered
<1>. QED  BY <1>2, <1>3

\* One compatible vote more, which its voter remembers.
LEMMA VoteEntered ==
    ASSUME VotesRemembered, OneVotePerTerm, NEW v,
           Ledger!Compatible(v),
           Votes' \subseteq Votes \cup {v},
           Remembered(v)',
           \A w \in Votes : Remembered(w)'
    PROVE  VotesRemembered' /\ OneVotePerTerm'
<1>1. VotesRemembered'
  BY DEF VotesRemembered
<1>2. OneVotePerTerm'
  BY DEF OneVotePerTerm, Ledger!VoteOnce, Ledger!Compatible
<1>. QED  BY <1>1, <1>2

LEMMA NoVoteEntered ==
    ASSUME VotesRemembered, OneVotePerTerm, Votes' = Votes,
           \A w \in Votes : Remembered(w)'
    PROVE  VotesRemembered' /\ OneVotePerTerm'
BY DEF VotesRemembered, OneVotePerTerm, Ledger!VoteOnce

\* What a step adds to the ledger it adds as VoteLedger does.
LEMMA LedgerStep ==
    ASSUME NEW v \in Ledger!Vote, Ledger!Compatible(v),
           Votes \subseteq Votes', Votes' \subseteq Votes \cup {v}
    PROVE  [Ledger!Next]_Votes
<1>1. CASE Votes' = Votes
  BY <1>1
<1>2. CASE Votes' # Votes
  <2>1. v \in Votes' \ Votes /\ Votes' = Votes \cup {v}
    BY <1>2
  <2>. QED  BY <2>1 DEF Ledger!Next, Ledger!Cast
<1>. QED  BY <1>1, <1>2

-----------------------------------------------------------------------------
(* Candidacies: untouched, or ended. *)

LEMMA CandidacyKept ==
    ASSUME NEW a \in Node, CandidacyOf(a),
           awaitingVote'[a] = awaitingVote[a],
           votedThisTerm'[a] = votedThisTerm[a],
           votedFor'[a] = votedFor[a],
           currentTerm'[a] = currentTerm[a],
           incarnation'[a] = incarnation[a],
           msgs \subseteq msgs',
           isLeader'[a] => (isLeader[a] \/ \E p \in Node : awaitingVote[a][p])
    PROVE  CandidacyOf(a)'
<1>1. \A p \in Node : NewMessage("RequestVote", a, p, currentTerm[a], FALSE)'
                          = NewMessage("RequestVote", a, p, currentTerm[a], FALSE)
  BY DEF NewMessage
<1>2. Peers(a)' = Peers(a)
  BY DEF Peers
<1>3. isLeader'[a] => \E p \in Peers(a) : awaitingVote'[a][p]
  BY DEF CandidacyOf
<1>. QED  BY <1>1, <1>2, <1>3 DEF CandidacyOf

LEMMA CandidacyEnded ==
    ASSUME NEW a \in Node, ~isLeader'[a], \A p \in Node : ~awaitingVote'[a][p]
    PROVE  CandidacyOf(a)'
BY DEF CandidacyOf

-----------------------------------------------------------------------------
(* Every action preserves the invariant and takes a step of the ledger. *)

LEMMA StartElectionStep ==
    ASSUME ElectionInv, NEW n \in Node, StartElection(n)
    PROVE  /\ ElectionInv'
           /\ [Ledger!Next]_Votes
<1>1. TypeOK /\ LastRequestSent /\ VotesRemembered /\ OneVotePerTerm
  BY DEF ElectionInv
<1>term. PICK term \in Nat : term = currentTerm[n] + 1
  BY <1>1 DEF TypeOK
<1>vote. PICK v \in Ledger!Vote :
          v = [voter |-> n, term |-> term, incarnation |-> incarnation[n],
               candidate |-> n]
  BY <1>1 DEF TypeOK, Ledger!Vote
<1>. DEFINE sent == [p \in Peers(n) |->
                        NewMessage("RequestVote", n, p, term, FALSE)]
<1>2. Peers(n) \subseteq Node
  BY PeersType
<1>3. \A p \in Peers(n) : /\ sent[p] \in Message
                          /\ sent[p].type = "RequestVote"
                          /\ ~sent[p].voteGranted
                          /\ sent[p].src = n
                          /\ sent[p].dst = p
                          /\ sent[p].term = term
                          /\ VoteOf(sent[p]) = v
  BY <1>1, <1>2, <1>vote, NewMessageType DEF Types, NewMessage, VoteOf
<1>4. SendTo(n, sent) /\ DOMAIN sent = Peers(n)
  BY <1>term DEF StartElection
<1>. HIDE DEF sent
<1>5. /\ lastRequest' \in [Node -> [Node -> Message \cup {None}]]
      /\ msgs' \subseteq Message
      /\ LastRequestSent'
      /\ \A p \in Peers(n) : lastRequest'[n][p] = sent[p]
      /\ \A a \in Node \ {n} : lastRequest'[a] = lastRequest[a]
  BY <1>1, <1>2, <1>3, <1>4, SendToType DEF LastRequestSent
<1>6. /\ currentTerm' = [currentTerm EXCEPT ![n] = term]
      /\ awaitingVote' = [awaitingVote EXCEPT ![n] = [p \in Node |-> p \in Peers(n)]]
  BY <1>term DEF StartElection
<1>7. TypeOK'
  BY <1>1, <1>2, <1>5, <1>6 DEF StartElection, TypeOK, Decisions
<1>8. CandidacyIsOwn'
  <2>1. /\ awaitingVote'[n] = [p \in Node |-> p \in Peers(n)]
        /\ currentTerm'[n] = term
        /\ \A a \in Node \ {n} : /\ awaitingVote'[a] = awaitingVote[a]
                                /\ currentTerm'[a] = currentTerm[a]
    BY <1>1, <1>6 DEF TypeOK
  <2>2. \A p \in Peers(n) : NewMessage("RequestVote", n, p, term, FALSE)' \in msgs'
    BY <1>4 DEF sent, SendTo, NewMessage, StartElection
  <2>3. \A p \in Node : awaitingVote'[n][p] =>
            NewMessage("RequestVote", n, p, currentTerm[n], FALSE)' \in msgs'
    BY <2>1, <2>2
  <2>4. CandidacyOf(n)'
    <3>1. isLeader'[n] => \E p \in Peers(n) : awaitingVote'[n][p]
      <4>1. isLeader' = isLeader /\ CandidacyOf(n)
        BY DEF StartElection, ElectionInv, CandidacyIsOwn
      <4>2. isLeader[n] => \E p \in Peers(n) : TRUE
        BY <4>1 DEF CandidacyOf
      <4>. QED  BY <1>2, <2>1, <4>1, <4>2
    <3>2. votedThisTerm'[n] /\ votedFor'[n] = n
      BY <1>1 DEF StartElection, TypeOK
    <3>. QED  BY <2>1, <2>3, <3>1, <3>2 DEF CandidacyOf, Peers
  <2>5. ASSUME NEW a \in Node, a # n
        PROVE  CandidacyOf(a)'
    <3>1. /\ votedThisTerm'[a] = votedThisTerm[a]
          /\ votedFor'[a] = votedFor[a]
          /\ isLeader' = isLeader /\ incarnation' = incarnation
          /\ msgs \subseteq msgs'
      BY <1>1, <1>4, <2>5 DEF StartElection, TypeOK, SendTo
    <3>. QED  BY <2>1, <2>5, <3>1, CandidacyKept DEF ElectionInv, CandidacyIsOwn
  <2>. QED  BY <2>4, <2>5 DEF CandidacyIsOwn
<1>9. RetransmissionIsCurrent'
  <2>. SUFFICES ASSUME NEW a \in Node, NEW p \in Node, awaitingVote'[a][p]
                PROVE  /\ lastRequest'[a][p] # None
                       /\ lastRequest'[a][p].term = currentTerm'[a]
                       /\ lastRequest'[a][p].src = a
                       /\ lastRequest'[a][p].dst = p
                       /\ ~lastRequest'[a][p].voteGranted
                       /\ lastRequest'[a][p].type = "HeartBeat" => isLeader'[a]
    BY DEF RetransmissionIsCurrent
  <2>1. CASE a = n
    <3>1. p \in Peers(n) /\ currentTerm'[n] = term
      BY <1>1, <1>6, <2>1 DEF TypeOK
    <3>. QED  BY <1>3, <1>5, <2>1, <3>1 DEF None
  <2>2. CASE a # n
    BY <1>1, <1>5, <1>6, <2>2 DEF StartElection, TypeOK, ElectionInv, RetransmissionIsCurrent
  <2>. QED  BY <2>1, <2>2
<1>10. Ledger!Compatible(v)
  BY <1>1, <1>term, <1>vote, FreshVoteCompatible DEF TypeOK
<1>11. Votes \subseteq Votes' /\ Votes' \subseteq Votes \cup {v}
  <2>1. Votes' = Votes \cup VotesIn({sent[p] : p \in Peers(n)})
    BY <1>4, VotesInUnion DEF SendTo, Votes
  <2>2. VotesIn({sent[p] : p \in Peers(n)}) \subseteq {v}
    BY <1>3 DEF VotesIn
  <2>. QED  BY <2>1, <2>2
<1>12. \A w \in Votes : Remembered(w)'
  <2>1. currentTerm'[n] \in Nat /\ currentTerm'[n] > currentTerm[n]
    BY <1>1, <1>term, <1>6 DEF TypeOK
  <2>2. \A p \in Node \ {n} : /\ currentTerm'[p] = currentTerm[p]
                              /\ votedThisTerm'[p] = votedThisTerm[p]
                              /\ votedFor'[p] = votedFor[p]
    BY <1>1 DEF StartElection, TypeOK
  <2>3. incarnation' = incarnation /\ currentTerm[n] \in Nat
    BY <1>1 DEF StartElection, TypeOK
  <2>. QED  BY <1>1, <2>1, <2>2, <2>3, VotesType, RememberedKept DEF VotesRemembered
<1>13. Remembered(v)'
  BY <1>1, <1>vote, <1>6 DEF StartElection, TypeOK, Remembered
<1>14. VotesRemembered' /\ OneVotePerTerm'
  BY <1>1, <1>10, <1>11, <1>12, <1>13, VoteEntered
<1>15. [Ledger!Next]_Votes
  BY <1>10, <1>11, LedgerStep
<1>16. HeartBeatDecided'
  BY <1>1, <1>6 DEF StartElection, TypeOK, ElectionInv, HeartBeatDecided
<1>. QED  BY <1>5, <1>7, <1>8, <1>9, <1>14, <1>15, <1>16 DEF ElectionInv

LEMMA SendHeartBeatStep ==
    ASSUME ElectionInv, NEW n \in Node, SendHeartBeat(n)
    PROVE  /\ ElectionInv'
           /\ [Ledger!Next]_Votes
<1>. DEFINE sent == [p \in Peers(n) |->
                        NewMessage("HeartBeat", n, p, currentTerm[n], FALSE)]
<1>1. TypeOK /\ LastRequestSent /\ VotesRemembered /\ OneVotePerTerm
  BY DEF ElectionInv
<1>2. currentTerm[n] \in Nat /\ Peers(n) \subseteq Node
  BY <1>1, PeersType DEF TypeOK
<1>3. \A p \in Peers(n) : /\ sent[p] \in Message
                          /\ sent[p].type = "HeartBeat"
                          /\ ~sent[p].voteGranted
                          /\ sent[p].src = n
                          /\ sent[p].dst = p
                          /\ sent[p].term = currentTerm[n]
  BY <1>1, <1>2, NewMessageType DEF Types, NewMessage
<1>4. SendTo(n, sent) /\ DOMAIN sent = Peers(n)
  BY DEF SendHeartBeat
<1>. HIDE DEF sent
<1>5. /\ lastRequest' \in [Node -> [Node -> Message \cup {None}]]
      /\ msgs' \subseteq Message
      /\ LastRequestSent'
      /\ \A p \in Peers(n) : lastRequest'[n][p] = sent[p]
      /\ \A p \in Node \ Peers(n) : lastRequest'[n][p] = lastRequest[n][p]
      /\ \A a \in Node \ {n} : lastRequest'[a] = lastRequest[a]
  BY <1>1, <1>2, <1>3, <1>4, SendToType DEF LastRequestSent
<1>6. TypeOK'
  BY <1>1, <1>5 DEF SendHeartBeat, TypeOK, Decisions
<1>7. CandidacyIsOwn'
  <2>1. msgs \subseteq msgs'
    BY <1>4 DEF SendTo
  <2>. QED  BY <2>1, CandidacyKept DEF ElectionInv, CandidacyIsOwn, SendHeartBeat
<1>8. RetransmissionIsCurrent'
  <2>. SUFFICES ASSUME NEW a \in Node, NEW p \in Node, awaitingVote[a][p]
                PROVE  /\ lastRequest'[a][p] # None
                       /\ lastRequest'[a][p].term = currentTerm[a]
                       /\ lastRequest'[a][p].src = a
                       /\ lastRequest'[a][p].dst = p
                       /\ ~lastRequest'[a][p].voteGranted
                       /\ lastRequest'[a][p].type = "HeartBeat" => isLeader'[a]
    BY DEF RetransmissionIsCurrent, SendHeartBeat
  <2>1. CASE a = n /\ p \in Peers(n)
    <3>1. isLeader'[n]
      BY <2>1 DEF SendHeartBeat, ElectionInv, HeartBeatDecided
    <3>. QED  BY <1>3, <1>5, <2>1, <3>1 DEF None
  <2>2. CASE a # n \/ p \notin Peers(n)
    BY <1>5, <2>2 DEF SendHeartBeat, ElectionInv, RetransmissionIsCurrent
  <2>. QED  BY <2>1, <2>2
<1>9. Votes' = Votes
  <2>1. Votes' = Votes \cup VotesIn({sent[p] : p \in Peers(n)})
    BY <1>4, VotesInUnion DEF SendTo, Votes
  <2>2. VotesIn({sent[p] : p \in Peers(n)}) = {}
    BY <1>3 DEF VotesIn
  <2>. QED  BY <2>1, <2>2
<1>10. \A w \in Votes : Remembered(w)'
  BY <1>1 DEF VotesRemembered, Remembered, SendHeartBeat
<1>11. VotesRemembered' /\ OneVotePerTerm'
  BY <1>1, <1>9, <1>10, NoVoteEntered
<1>12. HeartBeatDecided'
  BY <1>1 DEF SendHeartBeat, TypeOK, ElectionInv, HeartBeatDecided
<1>. QED  BY <1>5, <1>6, <1>7, <1>8, <1>9, <1>11, <1>12 DEF ElectionInv

LEMMA DoRetransmissionStep ==
    ASSUME ElectionInv, NEW n \in Node, DoRetransmission(n)
    PROVE  /\ ElectionInv'
           /\ [Ledger!Next]_Votes
<1>1. TypeOK /\ LastRequestSent /\ VotesRemembered /\ OneVotePerTerm
  BY DEF ElectionInv
<1>2. PICK due \in SUBSET {p \in Node : awaitingVote[n][p]} :
          SendTo(n, [p \in due |-> lastRequest[n][p]])
  BY DEF DoRetransmission
<1>3. \A p \in due : /\ p \in Node
                     /\ lastRequest[n][p] \in msgs
  BY <1>1, <1>2 DEF LastRequestSent, ElectionInv, RetransmissionIsCurrent
<1>4. msgs' = msgs
  BY <1>2, <1>3 DEF SendTo
<1>5. lastRequest' = lastRequest
  BY <1>1, <1>2, <1>3 DEF SendTo, TypeOK
<1>6. UNCHANGED vars
  BY <1>4, <1>5 DEF DoRetransmission, vars, serverVars
<1>7. ElectionInv'
  <2>1. CandidacyIsOwn'
    BY <1>6, CandidacyKept DEF vars, serverVars, ElectionInv, CandidacyIsOwn
  <2>. QED
   BY <1>6, <2>1 DEF vars, serverVars, ElectionInv, TypeOK,
              RetransmissionIsCurrent, HeartBeatDecided, LastRequestSent, VotesRemembered,
              Remembered, OneVotePerTerm, Ledger!VoteOnce, Votes
<1>. QED  BY <1>4, <1>7 DEF Votes

\* A step that sends nothing and leaves every candidacy, term and vote alone.
LEMMA QuietStep ==
    ASSUME ElectionInv, TypeOK',
           UNCHANGED <<currentTerm, votedThisTerm, votedFor, awaitingVote,
                       lastRequest, msgs, incarnation>>,
           \A n \in Node : isLeader'[n] =>
               (isLeader[n] \/ \E p \in Node : awaitingVote[n][p]),
           \A n \in Node : isLeader[n] => isLeader'[n],
           \A n \in Node : decision'[n] = "heartbeat" =>
               decision[n] = "heartbeat" \/ isLeader[n]
    PROVE  /\ ElectionInv'
           /\ [Ledger!Next]_Votes
<1>1. CandidacyIsOwn'
  BY CandidacyKept DEF ElectionInv, CandidacyIsOwn
<1>2. RetransmissionIsCurrent' /\ LastRequestSent'
  BY DEF ElectionInv, RetransmissionIsCurrent, LastRequestSent
<1>3. Votes' = Votes
  BY DEF Votes
<1>4. VotesRemembered' /\ OneVotePerTerm'
  BY <1>3 DEF ElectionInv, VotesRemembered, Remembered, OneVotePerTerm, Ledger!VoteOnce
<1>5. HeartBeatDecided'
  BY DEF ElectionInv, HeartBeatDecided
<1>. QED  BY <1>1, <1>2, <1>3, <1>4, <1>5 DEF ElectionInv

LEMMA RestartStep ==
    ASSUME ElectionInv, NEW n \in Node, Restart(n)
    PROVE  /\ ElectionInv'
           /\ [Ledger!Next]_Votes
<1>1. TypeOK /\ LastRequestSent /\ VotesRemembered /\ OneVotePerTerm
  BY DEF ElectionInv
<1>2. TypeOK'
  BY <1>1 DEF Restart, TypeOK, Decisions, None
<1>3. CandidacyIsOwn'
  <2>1. CandidacyOf(n)'
    BY <1>1, CandidacyEnded DEF Restart, TypeOK
  <2>2. ASSUME NEW a \in Node, a # n
        PROVE  CandidacyOf(a)'
    BY <1>1, <2>2, CandidacyKept DEF ElectionInv, CandidacyIsOwn, Restart, TypeOK
  <2>. QED  BY <2>1, <2>2 DEF CandidacyIsOwn
<1>4. RetransmissionIsCurrent' /\ LastRequestSent'
  BY <1>1 DEF ElectionInv, RetransmissionIsCurrent, LastRequestSent, Restart, TypeOK
<1>5. Votes' = Votes
  BY DEF Votes, Restart
<1>6. ASSUME NEW w \in Votes
      PROVE  Remembered(w)'
  <2>1. /\ w.voter \in Node
        /\ w.incarnation \in Nat
        /\ incarnation \in [Node -> Nat]
        /\ Remembered(w)
    BY <1>1, VotesType DEF TypeOK, Ledger!Vote, VotesRemembered
  <2>2. CASE w.voter = n
    BY <2>1, <2>2 DEF Restart, Remembered
  <2>3. CASE w.voter # n
    BY <1>1, <2>1, <2>3 DEF Restart, Remembered, TypeOK
  <2>. QED  BY <2>2, <2>3
<1>7. VotesRemembered' /\ OneVotePerTerm'
  BY <1>1, <1>5, <1>6, NoVoteEntered
<1>8. HeartBeatDecided'
  BY <1>1 DEF Restart, TypeOK, ElectionInv, HeartBeatDecided
<1>. QED  BY <1>2, <1>3, <1>4, <1>5, <1>7, <1>8 DEF ElectionInv

\* What a response adds to lastRequest and to msgs.
LEMMA RespondToType ==
    ASSUME TypeOK, LastRequestSent, NEW n \in Node, NEW m \in msgs,
           NEW term \in Nat, NEW granted \in BOOLEAN,
           RespondTo(n, m, term, granted)
    PROVE  /\ NewMessage("RequestVoteResults", n, m.src, term, granted) \in Message
           /\ msgs' = msgs \cup {NewMessage("RequestVoteResults", n, m.src, term, granted)}
           /\ lastRequest' \in [Node -> [Node -> Message \cup {None}]]
           /\ msgs' \subseteq Message
           /\ LastRequestSent'
           /\ lastRequest'[n][m.src] =
                  NewMessage("RequestVoteResults", n, m.src, term, granted)
           /\ \A a, b \in Node : (a # n \/ b # m.src) =>
                  lastRequest'[a][b] = lastRequest[a][b]
<1>. DEFINE response(p) == NewMessage("RequestVoteResults", n, p, term, granted)
            sent == [p \in {m.src} |-> response(p)]
<1>1. m.src \in Node
  BY DEF TypeOK, Message
<1>2. response(m.src) \in Message
  BY <1>1, NewMessageType DEF Types
<1>3. SendTo(n, sent)
  BY DEF RespondTo
<1>4. DOMAIN sent = {m.src} /\ sent[m.src] = response(m.src)
  OBVIOUS
<1>. HIDE DEF sent, response
<1>5. /\ lastRequest' \in [Node -> [Node -> Message \cup {None}]]
      /\ msgs' \subseteq Message
      /\ LastRequestSent'
      /\ lastRequest'[n][m.src] = response(m.src)
      /\ \A b \in Node \ {m.src} : lastRequest'[n][b] = lastRequest[n][b]
      /\ \A a \in Node \ {n} : lastRequest'[a] = lastRequest[a]
  BY <1>1, <1>2, <1>3, <1>4, SendToType DEF LastRequestSent
<1>6. msgs' = msgs \cup {response(m.src)}
  BY <1>3, <1>4 DEF SendTo
<1>. QED  BY <1>2, <1>5, <1>6 DEF response

LEMMA RefuseVoteStep ==
    ASSUME ElectionInv, NEW m \in msgs, RefuseVote(m.dst, m),
           UNCHANGED <<decision, incarnation, elections>>
    PROVE  /\ ElectionInv'
           /\ [Ledger!Next]_Votes
<1>. DEFINE n == m.dst
            response == NewMessage("RequestVoteResults", n, m.src, currentTerm[n], FALSE)
<1>1. TypeOK /\ LastRequestSent /\ VotesRemembered /\ OneVotePerTerm
  BY DEF ElectionInv
<1>2. n \in Node /\ m.src \in Node /\ currentTerm[n] \in Nat
  BY <1>1 DEF TypeOK, Message
<1>3. RespondTo(n, m, currentTerm[n], FALSE)
  BY DEF RefuseVote
<1>. HIDE DEF n
<1>4. /\ msgs' = msgs \cup {response}
      /\ lastRequest' \in [Node -> [Node -> Message \cup {None}]]
      /\ msgs' \subseteq Message
      /\ LastRequestSent'
      /\ lastRequest'[n][m.src] = response
      /\ \A a, b \in Node : (a # n \/ b # m.src) =>
             lastRequest'[a][b] = lastRequest[a][b]
  BY <1>1, <1>2, <1>3, RespondToType
<1>5. TypeOK'
  BY <1>1, <1>4 DEF RefuseVote, TypeOK
<1>6. CandidacyIsOwn'
  <2>1. msgs \subseteq msgs'
    BY <1>4
  <2>. QED  BY <2>1, CandidacyKept DEF ElectionInv, CandidacyIsOwn, RefuseVote
<1>7. RetransmissionIsCurrent'
  <2>. SUFFICES ASSUME NEW a \in Node, NEW p \in Node, awaitingVote[a][p]
                PROVE  /\ lastRequest'[a][p] # None
                       /\ lastRequest'[a][p].term = currentTerm[a]
                       /\ lastRequest'[a][p].src = a
                       /\ lastRequest'[a][p].dst = p
                       /\ ~lastRequest'[a][p].voteGranted
                       /\ lastRequest'[a][p].type = "HeartBeat" => isLeader'[a]
    BY DEF RetransmissionIsCurrent, RefuseVote
  <2>1. CASE a = n /\ p = m.src
    BY <1>4, <2>1 DEF NewMessage, None
  <2>2. CASE a # n \/ p # m.src
    BY <1>4, <2>2 DEF RefuseVote, ElectionInv, RetransmissionIsCurrent
  <2>. QED  BY <2>1, <2>2
<1>8. Votes' = Votes
  <2>1. VotesIn({response}) = {}
    BY DEF VotesIn, NewMessage
  <2>2. Votes' = Votes \cup VotesIn({response})
    BY <1>4, VotesInUnion DEF Votes
  <2>. QED  BY <2>1, <2>2
<1>9. \A w \in Votes : Remembered(w)'
  BY <1>1 DEF VotesRemembered, Remembered, RefuseVote
<1>10. VotesRemembered' /\ OneVotePerTerm'
  BY <1>1, <1>8, <1>9, NoVoteEntered
<1>11. HeartBeatDecided'
  BY DEF RefuseVote, ElectionInv, HeartBeatDecided
<1>. QED  BY <1>4, <1>5, <1>6, <1>7, <1>8, <1>10, <1>11 DEF ElectionInv

LEMMA GrantVoteStep ==
    ASSUME ElectionInv, NEW m \in msgs, GrantVote(m.dst, m),
           UNCHANGED <<decision, incarnation, elections>>
    PROVE  /\ ElectionInv'
           /\ [Ledger!Next]_Votes
<1>1. TypeOK /\ LastRequestSent /\ VotesRemembered /\ OneVotePerTerm
  BY DEF ElectionInv
<1>n. PICK n \in Node : n = m.dst
  BY <1>1 DEF TypeOK, Message
<1>c. PICK c \in Node : c = m.src
  BY <1>1 DEF TypeOK, Message
<1>term. PICK term \in Nat : term = m.term
  BY <1>1 DEF TypeOK, Message
<1>vote. PICK v \in Ledger!Vote :
             v = [voter |-> n, term |-> term, incarnation |-> incarnation[n],
                  candidate |-> c]
  BY <1>1 DEF TypeOK, Ledger!Vote
<1>. DEFINE response == NewMessage("RequestVoteResults", n, m.src, term, TRUE)
<1>2. /\ ~Refuses(n, m)
      /\ RespondTo(n, m, term, TRUE)
      /\ currentTerm' = [currentTerm EXCEPT ![n] = term]
      /\ votedThisTerm' = [votedThisTerm EXCEPT ![n] = TRUE]
      /\ votedFor' = [votedFor EXCEPT ![n] = c]
      /\ awaitingVote' = [awaitingVote EXCEPT ![n] = [p \in Node |-> FALSE]]
      /\ isLeader' = [isLeader EXCEPT ![n] = FALSE]
      /\ timerExpired' = [timerExpired EXCEPT ![n] = FALSE]
      /\ UNCHANGED votesForUs
  BY <1>n, <1>c, <1>term DEF GrantVote, RevertToFollower
<1>3. /\ currentTerm[n] <= term
      /\ currentTerm[n] = term /\ votedThisTerm[n] => votedFor[n] = c
  BY <1>1, <1>2, <1>c, <1>term DEF Refuses, TypeOK
<1>4. /\ msgs' = msgs \cup {response}
      /\ lastRequest' \in [Node -> [Node -> Message \cup {None}]]
      /\ msgs' \subseteq Message
      /\ LastRequestSent'
      /\ \A a, b \in Node : a # n => lastRequest'[a][b] = lastRequest[a][b]
  <2>1. TypeOK /\ LastRequestSent
    BY <1>1
  <2>2. RespondTo(n, m, term, TRUE)
    BY <1>2
  <2>3. /\ msgs' = msgs \cup {response}
        /\ lastRequest' \in [Node -> [Node -> Message \cup {None}]]
        /\ msgs' \subseteq Message
        /\ LastRequestSent'
        /\ \A a, b \in Node : (a # n \/ b # m.src) =>
               lastRequest'[a][b] = lastRequest[a][b]
    BY <2>1, <2>2, RespondToType
  <2>. QED  BY <2>3
<1>5. TypeOK'
  BY <1>1, <1>2, <1>4 DEF TypeOK
<1>6. CandidacyIsOwn'
  <2>1. CandidacyOf(n)'
    BY <1>1, <1>2, CandidacyEnded DEF TypeOK
  <2>2. ASSUME NEW a \in Node, a # n
        PROVE  CandidacyOf(a)'
    BY <1>1, <1>2, <1>4, <2>2, CandidacyKept DEF ElectionInv, CandidacyIsOwn, TypeOK
  <2>. QED  BY <2>1, <2>2 DEF CandidacyIsOwn
<1>7. RetransmissionIsCurrent'
  BY <1>1, <1>2, <1>4 DEF ElectionInv, RetransmissionIsCurrent, TypeOK
<1>8. Ledger!Compatible(v)
  <2>1. /\ v.voter = n /\ v.term = term /\ v.candidate = c
        /\ v.incarnation = incarnation[v.voter]
    BY <1>vote
  <2>2. currentTerm[n] \in Nat /\ currentTerm[n] <= term
    BY <1>1, <1>3 DEF TypeOK
  <2>3. currentTerm[n] < term \/ currentTerm[n] = term
    BY <2>2
  <2>. QED  BY <1>1, <1>3, <2>1, <2>3, FreshVoteCompatible
<1>9. Votes' = Votes \cup {v}
  <2>1. response.type = "RequestVoteResults" /\ response.voteGranted /\ VoteOf(response) = v
    BY <1>c, <1>vote DEF NewMessage, VoteOf
  <2>2. VotesIn({response}) = {v}
    <3>. HIDE DEF response
    <3>. QED  BY <2>1 DEF VotesIn
  <2>3. Votes' = Votes \cup VotesIn({response})
    BY <1>4, VotesInUnion DEF Votes
  <2>. QED  BY <2>2, <2>3
<1>10. \A w \in Votes : Remembered(w)'
  <2>1. /\ currentTerm'[n] \in Nat
        /\ currentTerm'[n] >= currentTerm[n]
        /\ (currentTerm'[n] = currentTerm[n] /\ votedThisTerm[n]) =>
               votedThisTerm'[n] /\ votedFor'[n] = votedFor[n]
    BY <1>1, <1>2, <1>3 DEF TypeOK
  <2>2. \A p \in Node \ {n} : /\ currentTerm'[p] = currentTerm[p]
                              /\ votedThisTerm'[p] = votedThisTerm[p]
                              /\ votedFor'[p] = votedFor[p]
    BY <1>1, <1>2 DEF TypeOK
  <2>. QED  BY <1>1, <2>1, <2>2, VotesType, RememberedKept DEF VotesRemembered
<1>11. Remembered(v)'
  BY <1>1, <1>2, <1>vote DEF TypeOK, Remembered
<1>12. VotesRemembered' /\ OneVotePerTerm'
  BY <1>1, <1>8, <1>9, <1>10, <1>11, VoteEntered
<1>13. [Ledger!Next]_Votes
  BY <1>8, <1>9, LedgerStep
<1>14. HeartBeatDecided'
  BY <1>1, <1>2 DEF ElectionInv, HeartBeatDecided, TypeOK
<1>. QED  BY <1>4, <1>5, <1>6, <1>7, <1>12, <1>13, <1>14 DEF ElectionInv

LEMMA AdoptTermStep ==
    ASSUME ElectionInv, NEW m \in msgs, AdoptTerm(m.dst, m),
           UNCHANGED <<decision, incarnation, elections>>
    PROVE  /\ ElectionInv'
           /\ [Ledger!Next]_Votes
<1>1. TypeOK /\ LastRequestSent /\ VotesRemembered /\ OneVotePerTerm
  BY DEF ElectionInv
<1>n. PICK n \in Node : n = m.dst
  BY <1>1 DEF TypeOK, Message
<1>2. /\ m.term \in Nat
      /\ currentTerm[n] < m.term
      /\ currentTerm' = [currentTerm EXCEPT ![n] = m.term]
      /\ awaitingVote' = [awaitingVote EXCEPT ![n] = [p \in Node |-> FALSE]]
      /\ isLeader' = [isLeader EXCEPT ![n] = FALSE]
      /\ timerExpired' = [timerExpired EXCEPT ![n] = FALSE]
      /\ UNCHANGED <<votedThisTerm, votedFor, votesForUs, lastRequest, msgs>>
  BY <1>1, <1>n DEF AdoptTerm, RevertToFollower, TypeOK, Message
<1>3. TypeOK'
  BY <1>1, <1>2 DEF TypeOK
<1>4. CandidacyIsOwn'
  <2>1. CandidacyOf(n)'
    BY <1>1, <1>2, CandidacyEnded DEF TypeOK
  <2>2. ASSUME NEW a \in Node, a # n
        PROVE  CandidacyOf(a)'
    BY <1>1, <1>2, <2>2, CandidacyKept DEF ElectionInv, CandidacyIsOwn, TypeOK
  <2>. QED  BY <2>1, <2>2 DEF CandidacyIsOwn
<1>5. RetransmissionIsCurrent' /\ LastRequestSent'
  BY <1>1, <1>2 DEF ElectionInv, RetransmissionIsCurrent, LastRequestSent, TypeOK
<1>6. Votes' = Votes
  BY <1>2 DEF Votes
<1>7. \A w \in Votes : Remembered(w)'
  <2>1. /\ currentTerm[n] \in Nat
        /\ currentTerm'[n] = m.term
        /\ \A p \in Node \ {n} : currentTerm'[p] = currentTerm[p]
    BY <1>1, <1>n, <1>2 DEF TypeOK
  <2>. QED  BY <1>1, <1>2, <2>1, VotesType, RememberedKept DEF VotesRemembered
<1>8. VotesRemembered' /\ OneVotePerTerm'
  BY <1>1, <1>6, <1>7, NoVoteEntered
<1>9. HeartBeatDecided'
  BY <1>1, <1>2 DEF ElectionInv, HeartBeatDecided, TypeOK
<1>. QED  BY <1>3, <1>4, <1>5, <1>6, <1>8, <1>9 DEF ElectionInv

LEMMA ReceiveMessageStep ==
    ASSUME ElectionInv, NEW m \in msgs, ReceiveMessage(m)
    PROVE  /\ ElectionInv'
           /\ [Ledger!Next]_Votes
<1>1. UNCHANGED <<decision, incarnation, elections>>
  BY DEF ReceiveMessage
<1>2. TypeOK /\ m.dst \in Node /\ m.src \in Node
  BY DEF ElectionInv, TypeOK, Message
<1>3. CASE RefuseVote(m.dst, m)
  BY <1>1, <1>3, RefuseVoteStep
<1>4. CASE GrantVote(m.dst, m)
  BY <1>1, <1>4, GrantVoteStep
<1>5. CASE CountVote(m.dst, m)
  <2>1. TypeOK'
    BY <1>1, <1>2, <1>5 DEF CountVote, TypeOK
  <2>2. \A n \in Node : isLeader'[n] =>
            (isLeader[n] \/ \E p \in Node : awaitingVote[n][p])
    BY <1>2, <1>5 DEF CountVote, TypeOK
  <2>3. \A n \in Node : isLeader[n] => isLeader'[n]
    BY <1>2, <1>5 DEF CountVote, TypeOK
  <2>. QED  BY <1>1, <1>5, <2>1, <2>2, <2>3, QuietStep DEF CountVote
<1>6. CASE AdoptTerm(m.dst, m)
  BY <1>1, <1>6, AdoptTermStep
<1>7. CASE KeepFollowing(m.dst, m)
  <2>1. TypeOK'
    BY <1>1, <1>2, <1>7 DEF KeepFollowing, TypeOK
  <2>. QED  BY <1>1, <1>7, <2>1, QuietStep DEF KeepFollowing
<1>. QED  BY <1>3, <1>4, <1>5, <1>6, <1>7 DEF ReceiveMessage

LEMMA ElectionStep == ElectionInv /\ [Next]_vars => ElectionInv' /\ [Ledger!Next]_Votes
<1>. SUFFICES ASSUME ElectionInv, [Next]_vars
              PROVE  ElectionInv' /\ [Ledger!Next]_Votes
  OBVIOUS
<1>. USE DEF ElectionInv
<1>1. CASE UNCHANGED vars
  <2>1. TypeOK'
    BY <1>1 DEF vars, serverVars, TypeOK
  <2>. QED  BY <1>1, <2>1, QuietStep DEF vars, serverVars
<1>2. ASSUME NEW n \in Node, Tick(n)
      PROVE  ElectionInv' /\ [Ledger!Next]_Votes
  <2>1. TypeOK'
    BY <1>2 DEF Tick, TypeOK
  <2>. QED  BY <1>2, <2>1, QuietStep DEF Tick
<1>3. ASSUME NEW n \in Node, WorkerDecides(n)
      PROVE  ElectionInv' /\ [Ledger!Next]_Votes
  <2>1. TypeOK'
    BY <1>3 DEF WorkerDecides, serverVars, TypeOK, Decisions
  <2>2. \A p \in Node : decision'[p] = "heartbeat" =>
            decision[p] = "heartbeat" \/ isLeader[p]
    BY <1>3 DEF WorkerDecides, TypeOK
  <2>. QED  BY <1>3, <2>1, <2>2, QuietStep DEF WorkerDecides, serverVars
<1>. QED  BY <1>1, <1>2, <1>3, StartElectionStep, SendHeartBeatStep,
             DoRetransmissionStep, RestartStep, ReceiveMessageStep DEF Next

LEMMA ElectionInit == Init => ElectionInv /\ Ledger!Init
<1>. SUFFICES ASSUME Init
              PROVE  ElectionInv /\ Ledger!Init
  OBVIOUS
<1>1. TypeOK /\ LastRequestSent
  BY DEF Init, TypeOK, LastRequestSent, Decisions, None
<1>2. CandidacyIsOwn /\ RetransmissionIsCurrent /\ HeartBeatDecided
  BY DEF Init, CandidacyIsOwn, CandidacyOf, RetransmissionIsCurrent, HeartBeatDecided
<1>3. Votes = {}
  BY DEF Init, Votes, VotesIn
<1>4. VotesRemembered /\ OneVotePerTerm /\ Ledger!Init
  BY <1>3 DEF VotesRemembered, OneVotePerTerm, Ledger!VoteOnce, Ledger!Init
<1>. QED  BY <1>1, <1>2, <1>4 DEF ElectionInv

-----------------------------------------------------------------------------
(* The theorems. *)

\* The inductive invariant holds: every variable keeps its type, a candidate
\* or leader has voted for itself, a retransmission is of the present term,
\* and no vote is forgotten within one life of a server.
THEOREM ElectionInvariant == Spec => []ElectionInv
<1>1. Init => ElectionInv
  BY ElectionInit
<1>2. ElectionInv /\ [Next]_vars => ElectionInv'
  BY ElectionStep
<1>. QED  BY <1>1, <1>2, PTL DEF Spec

\* Every variable of every server keeps its type.
THEOREM TypeCorrect == Spec => []TypeOK
<1>1. ElectionInv => TypeOK
  BY DEF ElectionInv
<1>. QED  BY <1>1, ElectionInvariant, PTL

\* A leader or candidate stands in its present term: it voted for itself and
\* asked every peer it still awaits.
THEOREM CandidaciesOwn == Spec => []CandidacyIsOwn
<1>1. ElectionInv => CandidacyIsOwn
  BY DEF ElectionInv
<1>. QED  BY <1>1, ElectionInvariant, PTL

\* DoRetransmission sends only messages of the server's present term, and neither
\* a granted vote nor, without leading, a heartbeat.
THEOREM RetransmissionsCurrent == Spec => []RetransmissionIsCurrent
<1>1. ElectionInv => RetransmissionIsCurrent
  BY DEF ElectionInv
<1>. QED  BY <1>1, ElectionInvariant, PTL

\* In one life a server votes for at most one candidate of a term.
THEOREM VotesUnique == Spec => []OneVotePerTerm
<1>1. ElectionInv => OneVotePerTerm
  BY DEF ElectionInv
<1>. QED  BY <1>1, ElectionInvariant, PTL

\* The election implements the ledger: every step casts at most one vote,
\* compatible with all votes cast before.
THEOREM ElectionImplementsLedger == Spec => ImplementsLedger
<1>1. Init => Ledger!Init
  BY ElectionInit
<1>2. ElectionInv /\ [Next]_vars => [Ledger!Next]_Votes
  BY ElectionStep
<1>. QED  BY <1>1, <1>2, ElectionInvariant, PTL
          DEF Spec, ImplementsLedger, Ledger!LedgerSpec

\* Two majorities of voters share one; it voted once, or in two lives.
LEMMA MajoritiesShareAVoter ==
    ASSUME TypeOK, OneVotePerTerm, NEW a \in Node, NEW b \in Node, NEW t,
           IsMajority(Ledger!Voters(Votes, a, t)),
           IsMajority(Ledger!Voters(Votes, b, t))
    PROVE  \/ a = b
           \/ \E p \in Ledger!Voters(Votes, a, t) \cap Ledger!Voters(Votes, b, t) :
                  Ledger!VotedAcrossRestart(Votes, p, t)
<1>. DEFINE A == Ledger!Voters(Votes, a, t)
            B == Ledger!Voters(Votes, b, t)
<1>maj. IsMajority(A) /\ IsMajority(B)
  OBVIOUS
<1>1. A \subseteq Node /\ B \subseteq Node
  BY VotesType DEF Ledger!Voters, Ledger!Vote
<1>2. /\ IsFiniteSet(A) /\ IsFiniteSet(B)
      /\ Cardinality(A) \in Nat /\ Cardinality(B) \in Nat
      /\ Cardinality(Node) \in Nat
  BY <1>1, NodeAssumption, FS_Subset, FS_CardinalityType
<1>3. A \cap B # {}
  <2>. HIDE DEF A, B
  <2>1. 2 * Cardinality(A) > Cardinality(Node) /\ 2 * Cardinality(B) > Cardinality(Node)
    BY <1>maj DEF IsMajority
  <2>2. Cardinality(A) + Cardinality(B) > Cardinality(Node)
    BY <1>2, <2>1
  <2>. QED  BY <1>1, <2>2, NodeAssumption, FS_MajoritiesIntersect
<1>4. PICK p \in A \cap B : TRUE
  BY <1>3
<1>5. PICK v \in Votes : v.voter = p /\ v.candidate = a /\ v.term = t
  BY <1>4 DEF Ledger!Voters
<1>6. PICK w \in Votes : w.voter = p /\ w.candidate = b /\ w.term = t
  BY <1>4 DEF Ledger!Voters
<1>7. CASE v.incarnation = w.incarnation
  BY <1>5, <1>6, <1>7 DEF OneVotePerTerm, Ledger!VoteOnce
<1>8. CASE v.incarnation # w.incarnation
  BY <1>4, <1>5, <1>6, <1>8 DEF Ledger!VotedAcrossRestart
<1>. QED  BY <1>7, <1>8

\* Two leaders of one term with a majority each are one server, or a voter of
\* both died between its votes: whatever else the handlers do, no split brain
\* comes from votes that were really cast.
THEOREM SafeElections == Spec => []ElectionSafety
<1>1. ElectionInv => ElectionSafety
  BY MajoritiesShareAVoter DEF ElectionInv, ElectionSafety
<1>. QED  BY <1>1, ElectionInvariant, PTL

\* No step but the death of its process lowers the term of a server.
THEOREM TermsNeverFall == Spec => TermNeverFalls
<1>1. ElectionInv /\ [Next]_vars =>
          [\A n \in Node : incarnation'[n] = incarnation[n]
                               => currentTerm'[n] >= currentTerm[n]]_vars
  <2>. SUFFICES ASSUME ElectionInv, Next, NEW n \in Node,
                       incarnation'[n] = incarnation[n]
                PROVE  currentTerm'[n] >= currentTerm[n]
    OBVIOUS
  <2>1. TypeOK
    BY DEF ElectionInv
  <2>2. currentTerm[n] \in Nat /\ incarnation[n] \in Nat
    BY <2>1 DEF TypeOK
  <2>3. CASE UNCHANGED currentTerm
    BY <2>2, <2>3
  <2>4. ASSUME NEW q \in Node, StartElection(q)
        PROVE  currentTerm'[n] >= currentTerm[n]
    BY <2>1, <2>2, <2>4 DEF StartElection, TypeOK
  <2>5. ASSUME NEW q \in Node, Restart(q)
        PROVE  currentTerm'[n] >= currentTerm[n]
    <3>1. q # n
      BY <2>1, <2>2, <2>5 DEF Restart, TypeOK
    <3>. QED  BY <2>1, <2>2, <2>5, <3>1 DEF Restart, TypeOK
  <2>6. ASSUME NEW m \in msgs, ReceiveMessage(m)
        PROVE  currentTerm'[n] >= currentTerm[n]
    <3>1. m.dst \in Node /\ m.term \in Nat
      BY <2>1 DEF TypeOK, Message
    <3>2. CASE GrantVote(m.dst, m)
      BY <2>1, <2>2, <3>1, <3>2 DEF GrantVote, Refuses, TypeOK
    <3>3. CASE AdoptTerm(m.dst, m)
      BY <2>1, <2>2, <3>1, <3>3 DEF AdoptTerm, TypeOK
    <3>4. CASE UNCHANGED currentTerm
      BY <2>2, <3>4
    <3>. QED  BY <2>6, <3>2, <3>3, <3>4
              DEF ReceiveMessage, RefuseVote, CountVote, KeepFollowing
  <2>. QED  BY <2>3, <2>4, <2>5, <2>6
            DEF Next, Tick, WorkerDecides, SendHeartBeat, DoRetransmission, serverVars
<1>. QED  BY <1>1, ElectionInvariant, PTL DEF Spec, TermNeverFalls
=============================================================================
