----------------------- MODULE HttpRequestParserProofs -----------------------
(***************************************************************************)
(* What DecodeMessage makes of a text, for every request and every length;    *)
(* and what HttpRequestParser decodes of a request that is cut off.          *)
(*                                                                         *)
(* The turns of the parser and the lines of a request are recursive functions. *)
(* That they exist, and what holds of all their values, is shown from the      *)
(* least number for which it would fail.                                     *)
(***************************************************************************)
EXTENDS HttpRequestParser, SequenceTheorems, WellFoundedInduction, TLAPS

-----------------------------------------------------------------------------
(* Induction, over sets of numbers. *)

\* A set of numbers that is not empty has a least one.
LEMMA LeastNumber ==
    ASSUME NEW S \in SUBSET Nat, S # {}
    PROVE  \E n \in S : \A m \in S : n <= m
<1> DEFINE R == OpToRel(<, Nat)
           Pairs == Nat \X Nat
<1>1. IsWellFoundedOn(R, Nat)
  BY NatLessThanWellFounded
<1>2. R = {ss \in Pairs : ss[1] < ss[2]}
  BY DEF OpToRel
<1> HIDE DEF R
<1>3. PICK x \in S : \A y \in S : ~ (<<y, x>> \in R)
  BY <1>1, WFMin
<1>4. ASSUME NEW y \in S PROVE ~(y < x)
  <2>1. <<y, x>> \in Pairs /\ <<y, x>>[1] = y /\ <<y, x>>[2] = x
    OBVIOUS
  <2> HIDE DEF Pairs
  <2> SUFFICES ASSUME y < x PROVE <<y, x>> \in R
    BY <1>3
  <2>2. <<y, x>>[1] < <<y, x>>[2]
    BY <2>1
  <2> QED BY <2>1, <2>2, <1>2, Zenon
<1>5. \A y \in S : x <= y
  BY <1>4
<1> QED BY <1>5

\* What holds of 0, and of n + 1 when it holds of n, holds of all numbers up to k.
LEMMA Induction ==
    ASSUME NEW k \in Nat, NEW S, 0 \in S, \A n \in 0..(k - 1) : n \in S => n + 1 \in S
    PROVE  0..k \subseteq S
<1> SUFFICES ASSUME (0..k) \ S # {} PROVE FALSE
  OBVIOUS
<1>1. (0..k) \ S \in SUBSET Nat
  OBVIOUS
<1>2. PICK n \in (0..k) \ S : \A m \in (0..k) \ S : n <= m
  BY <1>1, LeastNumber
<1>3. n # 0 /\ n - 1 \in 0..(k - 1) /\ (n - 1) + 1 = n
  BY <1>2
<1>4. n - 1 \in S
  BY <1>2, <1>3
<1> QED BY <1>2, <1>3, <1>4

-----------------------------------------------------------------------------
(* The turns of the loop. *)

\* The parser after one more turn, if there is one.
TurnOf(t, p) == IF Running(t, p) THEN Process(t, p) ELSE p

\* The first k turns, as DecodeMessage defines them.
AreTurns(t, k, turn) ==
    turn = [n \in 0..k |->
               IF n = 0 THEN Start
               ELSE CHOOSE q \in {IF Running(t, p) THEN Process(t, p) ELSE p :
                                     p \in {turn[n - 1]}} : TRUE]

LEMMA ChosenOfOne == \A x : (CHOOSE q \in {x} : TRUE) = x
OBVIOUS

LEMMA TurnIsChosen ==
    ASSUME NEW t, NEW q
    PROVE  (CHOOSE x \in {IF Running(t, p) THEN Process(t, p) ELSE p : p \in {q}} : TRUE)
               = TurnOf(t, q)
<1>1. {IF Running(t, p) THEN Process(t, p) ELSE p : p \in {q}} = {TurnOf(t, q)}
  BY DEF TurnOf
<1> QED BY <1>1, ChosenOfOne

\* As the model checker evaluates them: one after the other.
LEMMA TurnsAre ==
    ASSUME NEW t, NEW k \in Nat, NEW turn
    PROVE  AreTurns(t, k, turn) <=>
               turn = [n \in 0..k |-> IF n = 0 THEN Start ELSE TurnOf(t, turn[n - 1])]
<1>1. \A n \in 0..k :
          (IF n = 0 THEN Start
           ELSE CHOOSE q \in {IF Running(t, p) THEN Process(t, p) ELSE p :
                                 p \in {turn[n - 1]}} : TRUE)
              = (IF n = 0 THEN Start ELSE TurnOf(t, turn[n - 1]))
  BY TurnIsChosen
<1> QED BY <1>1 DEF AreTurns

LEMMA TurnsExist ==
    ASSUME NEW t, NEW k \in Nat
    PROVE  \E turn : AreTurns(t, k, turn)
<1> DEFINE S == {n \in Nat : \E turn : AreTurns(t, n, turn)}
<1>1. 0 \in S
  <2>1. AreTurns(t, 0, [n \in 0..0 |-> Start])
    BY TurnsAre
  <2> QED BY <2>1
<1>2. ASSUME NEW n \in 0..(k - 1), n \in S PROVE n + 1 \in S
  <2>1. PICK turn : AreTurns(t, n, turn)
    BY <1>2
  <2>2. turn = [i \in 0..n |-> IF i = 0 THEN Start ELSE TurnOf(t, turn[i - 1])]
    BY <2>1, TurnsAre
  <2> DEFINE more == [i \in 0..(n + 1) |-> IF i <= n THEN turn[i] ELSE TurnOf(t, turn[n])]
  <2>3. \A i \in 0..(n + 1) : more[i] = IF i = 0 THEN Start ELSE TurnOf(t, more[i - 1])
    <3> TAKE i \in 0..(n + 1)
    <3>1. CASE i = 0
      BY <3>1, <2>2
    <3>2. CASE i # 0 /\ i <= n
      BY <3>2, <2>2
    <3>3. CASE i = n + 1
      BY <3>3
    <3> QED BY <3>1, <3>2, <3>3
  <2>4. more = [i \in 0..(n + 1) |-> IF i = 0 THEN Start ELSE TurnOf(t, more[i - 1])]
    BY <2>3
  <2> HIDE DEF more
  <2>5. AreTurns(t, n + 1, more)
    BY <2>4, TurnsAre
  <2> QED BY <2>5
<1> HIDE DEF S
<1>3. k \in S
  BY <1>1, <1>2, Induction
<1> QED BY <1>3 DEF S

\* DecodeMessage is the last of the turns.
LEMMA Turns ==
    ASSUME NEW t, Len(t) \in Nat
    PROVE  \E turn : /\ turn[0] = Start
                     /\ \A n \in 0..(Len(t) - 1) : turn[n + 1] = TurnOf(t, turn[n])
                     /\ DecodeMessage(t) = turn[Len(t)]
<1> DEFINE turn == CHOOSE turn : AreTurns(t, Len(t), turn)
<1>1. DecodeMessage(t) = turn[Len(t)]
  BY DEF DecodeMessage, AreTurns
<1>2. AreTurns(t, Len(t), turn)
  BY TurnsExist
<1> HIDE DEF turn
<1>3. turn = [n \in 0..Len(t) |-> IF n = 0 THEN Start ELSE TurnOf(t, turn[n - 1])]
  BY <1>2, TurnsAre
<1>4. turn[0] = Start
  BY <1>3
<1>5. ASSUME NEW n \in 0..(Len(t) - 1) PROVE turn[n + 1] = TurnOf(t, turn[n])
  <2>1. n + 1 \in 0..Len(t) /\ n + 1 # 0 /\ (n + 1) - 1 = n
    OBVIOUS
  <2> QED BY <1>3, <2>1
<1> QED BY <1>1, <1>4, <1>5

-----------------------------------------------------------------------------
(* One turn. *)

States == {"method", "resource", "protocol", "name", "value", "content"}

\* A parser is a record of these fields.
IsParser(p) == DOMAIN p = {"state", "index", "buffer", "name", "method", "uri", "protocol",
                           "header", "body"}

Has(q, state, index, buffer, name, method, uri, protocol, header, body) ==
    /\ IsParser(q)
    /\ q.state = state /\ q.index = index /\ q.buffer = buffer /\ q.name = name
    /\ q.method = method /\ q.uri = uri /\ q.protocol = protocol
    /\ q.header = header /\ q.body = body

LEMMA Pushed ==
    ASSUME NEW p, IsParser(p), NEW chr, NEW n
    PROVE  Has(Push(p, chr, n), p.state, p.index + n, Append(p.buffer, chr), p.name,
               p.method, p.uri, p.protocol, p.header, p.body)
BY DEF IsParser, Push, Has

LEMMA Transformed ==
    ASSUME NEW p, IsParser(p), NEW state, NEW n
    PROVE  Has(Transform(p, state, n), state, p.index + n, <<>>, p.name,
               p.method, p.uri, p.protocol, p.header, p.body)
BY DEF IsParser, Transform, Has

LEMMA Aborted ==
    ASSUME NEW p, IsParser(p)
    PROVE  Has(Abort(p), "abort", p.index, p.buffer, p.name,
               p.method, p.uri, p.protocol, p.header, p.body)
BY DEF IsParser, Abort, Has

\* The six states, one by one.
LEMMA MethodTurn ==
    ASSUME NEW t, NEW p, IsParser(p), p.state = "method"
    PROVE  IF t[p.index + 1] = SP
           THEN Has(Process(t, p), "resource", p.index + 1, <<>>, p.name,
                    Found(p.buffer), p.uri, p.protocol, p.header, p.body)
           ELSE Process(t, p) = Push(p, t[p.index + 1], 1)
<1>1. Process(t, p) = ProcessMethod(p, t[p.index + 1])
  BY DEF Process
<1> DEFINE q == Transform(p, "resource", 1)
<1>2. Has(q, "resource", p.index + 1, <<>>, p.name,
          p.method, p.uri, p.protocol, p.header, p.body)
  BY Transformed
<1>3. CASE t[p.index + 1] = SP
  <2>1. Process(t, p) = [q EXCEPT !.method = Found(p.buffer)]
    BY <1>1, <1>3 DEF ProcessMethod
  <2> HIDE DEF q
  <2> QED BY <2>1, <1>2, <1>3 DEF IsParser, Has
<1>4. CASE t[p.index + 1] # SP
  BY <1>1, <1>4 DEF ProcessMethod
<1> QED BY <1>3, <1>4

LEMMA ResourceTurn ==
    ASSUME NEW t, NEW p, IsParser(p), p.state = "resource"
    PROVE  IF t[p.index + 1] = SP
           THEN Has(Process(t, p), "protocol", p.index + 1, <<>>, p.name,
                    p.method, p.buffer, p.protocol, p.header, p.body)
           ELSE Process(t, p) = Push(p, t[p.index + 1], 1)
<1>1. Process(t, p) = ProcessResource(p, t[p.index + 1])
  BY DEF Process
<1> DEFINE q == Transform(p, "protocol", 1)
<1>2. Has(q, "protocol", p.index + 1, <<>>, p.name,
          p.method, p.uri, p.protocol, p.header, p.body)
  BY Transformed
<1>3. CASE t[p.index + 1] = SP
  <2>1. Process(t, p) = [q EXCEPT !.uri = p.buffer]
    BY <1>1, <1>3 DEF ProcessResource
  <2> HIDE DEF q
  <2> QED BY <2>1, <1>2, <1>3 DEF IsParser, Has
<1>4. CASE t[p.index + 1] # SP
  BY <1>1, <1>4 DEF ProcessResource
<1> QED BY <1>3, <1>4

\* The states that look ahead: at the end of the text they abort, and a second
\* character that differs is gone.
LEMMA ProtocolTurn ==
    ASSUME NEW t, Len(t) \in Nat, NEW p, IsParser(p), p.state = "protocol", p.index \in Nat
    PROVE  /\ t[p.index + 1] # CR => Process(t, p) = Push(p, t[p.index + 1], 1)
           /\ t[p.index + 1] = CR /\ p.index + 2 > Len(t) => Process(t, p) = Abort(p)
           /\ t[p.index + 1] = CR /\ p.index + 2 <= Len(t) =>
                 IF t[p.index + 2] = LF
                 THEN Has(Process(t, p), "name", p.index + 2, <<>>, p.name,
                          p.method, p.uri, p.buffer, p.header, p.body)
                 ELSE Process(t, p) = Push(p, t[p.index + 1], 2)
<1>1. Process(t, p) = ProcessProtocol(t, p, t[p.index + 1])
  BY DEF Process
<1> DEFINE q == Transform(p, "name", 2)
<1>2. Has(q, "name", p.index + 2, <<>>, p.name,
          p.method, p.uri, p.protocol, p.header, p.body)
  BY Transformed
<1>3. CASE t[p.index + 1] = CR /\ p.index + 2 <= Len(t) /\ t[p.index + 2] = LF
  <2>1. Process(t, p) = [q EXCEPT !.protocol = p.buffer]
    BY <1>1, <1>3 DEF ProcessProtocol, Lookahead
  <2> HIDE DEF q
  <2>2. Has(Process(t, p), "name", p.index + 2, <<>>, p.name,
            p.method, p.uri, p.buffer, p.header, p.body)
    BY <2>1, <1>2 DEF IsParser, Has
  <2> QED BY <2>2, <1>3
<1>4. CASE t[p.index + 1] # CR
  BY <1>1, <1>4 DEF ProcessProtocol
<1>5. CASE t[p.index + 1] = CR /\ p.index + 2 > Len(t)
  BY <1>1, <1>5 DEF ProcessProtocol, Lookahead
<1>6. CASE t[p.index + 1] = CR /\ p.index + 2 <= Len(t) /\ t[p.index + 2] # LF
  BY <1>1, <1>6 DEF ProcessProtocol, Lookahead
<1> QED BY <1>3, <1>4, <1>5, <1>6

LEMMA NameTurn ==
    ASSUME NEW t, Len(t) \in Nat, NEW p, IsParser(p), p.state = "name", p.index \in Nat
    PROVE  /\ t[p.index + 1] # COLON => Process(t, p) = Push(p, t[p.index + 1], 1)
           /\ t[p.index + 1] = COLON /\ p.index + 2 > Len(t) => Process(t, p) = Abort(p)
           /\ t[p.index + 1] = COLON /\ p.index + 2 <= Len(t) =>
                 IF t[p.index + 2] = SP
                 THEN Has(Process(t, p), "value", p.index + 2, <<>>, p.buffer,
                          p.method, p.uri, p.protocol, p.header, p.body)
                 ELSE Process(t, p) = Push(p, t[p.index + 1], 2)
<1>1. Process(t, p) = ProcessHeaderName(t, p, t[p.index + 1])
  BY DEF Process
<1> DEFINE q == Transform(p, "value", 2)
<1>2. Has(q, "value", p.index + 2, <<>>, p.name,
          p.method, p.uri, p.protocol, p.header, p.body)
  BY Transformed
<1>3. CASE t[p.index + 1] = COLON /\ p.index + 2 <= Len(t) /\ t[p.index + 2] = SP
  <2>1. Process(t, p) = [q EXCEPT !.name = p.buffer]
    BY <1>1, <1>3 DEF ProcessHeaderName, Lookahead
  <2> HIDE DEF q
  <2>2. Has(Process(t, p), "value", p.index + 2, <<>>, p.buffer,
            p.method, p.uri, p.protocol, p.header, p.body)
    BY <2>1, <1>2 DEF IsParser, Has
  <2> QED BY <2>2, <1>3
<1>4. CASE t[p.index + 1] # COLON
  BY <1>1, <1>4 DEF ProcessHeaderName
<1>5. CASE t[p.index + 1] = COLON /\ p.index + 2 > Len(t)
  BY <1>1, <1>5 DEF ProcessHeaderName, Lookahead
<1>6. CASE t[p.index + 1] = COLON /\ p.index + 2 <= Len(t) /\ t[p.index + 2] # SP
  BY <1>1, <1>6 DEF ProcessHeaderName, Lookahead
<1> QED BY <1>3, <1>4, <1>5, <1>6

LEMMA TwoCharacters ==
    ASSUME NEW C, NEW t \in Seq(C), NEW k \in Nat, k + 2 <= Len(t), NEW a, NEW b
    PROVE  SubSeq(t, k + 1, k + 2) = <<a, b>> <=> t[k + 1] = a /\ t[k + 2] = b
<1> DEFINE two == SubSeq(t, k + 1, k + 2)
           ab == <<a, b>>
<1>1. two \in Seq(C) /\ Len(two) = 2 /\ two[1] = t[k + 1] /\ two[2] = t[k + 2]
  OBVIOUS
<1>2. ab \in Seq({a, b}) /\ Len(ab) = 2 /\ ab[1] = a /\ ab[2] = b
  OBVIOUS
<1>3. two[1] = a /\ two[2] = b => ab \in Seq(C)
  <2> SUFFICES ASSUME two[1] = a, two[2] = b PROVE ab \in Seq(C)
    OBVIOUS
  <2>1. two[1] \in C /\ two[2] \in C
    <3> HIDE DEF two
    <3> QED BY <1>1
  <2>2. a \in C /\ b \in C
    <3> HIDE DEF two
    <3> QED BY <2>1
  <2> HIDE DEF two
  <2> QED BY <2>2
<1> HIDE DEF two, ab
<1>4. 1..2 = {1, 2}
  OBVIOUS
<1>5. ASSUME two[1] = a, two[2] = b PROVE two = ab
  <2>1. \A i \in 1..2 : two[i] = ab[i]
    BY <1>2, <1>4, <1>5
  <2>2. ab \in Seq(C)
    BY <1>3, <1>5
  <2> QED BY <1>1, <1>2, <2>1, <2>2, SeqEqual
<1>6. two = ab <=> two[1] = a /\ two[2] = b
  BY <1>2, <1>5
<1> QED BY <1>1, <1>6 DEF two, ab

\* After the line of a header there must be two more characters, or one that is no CR.
Peeks(t, k) == k + 1 <= Len(t) /\ (k + 1 = Len(t) => t[k + 1] # CR)

EmptyLine(t, k) == k + 2 <= Len(t) /\ t[k + 1] = CR /\ t[k + 2] = LF

LEMMA ValueTurn ==
    ASSUME NEW C, NEW t \in Seq(C), NEW p, IsParser(p), p.state = "value", p.index \in Nat
    PROVE  /\ t[p.index + 1] # CR => Process(t, p) = Push(p, t[p.index + 1], 1)
           /\ t[p.index + 1] = CR /\ p.index + 2 > Len(t) => Process(t, p) = Abort(p)
           /\ t[p.index + 1] = CR /\ p.index + 2 <= Len(t) =>
                 IF t[p.index + 2] = LF
                 THEN \E q : /\ Has(q, "value", p.index + 2, <<>>, p.name, p.method, p.uri,
                                    p.protocol, Insert(p.header, p.name, p.buffer), p.body)
                             /\ Process(t, p) = IF ~Peeks(t, q.index) THEN Abort(q)
                                                ELSE IF EmptyLine(t, q.index)
                                                     THEN Transform(q, "content", 2)
                                                     ELSE Transform(q, "name", 0)
                 ELSE Process(t, p) = Push(p, t[p.index + 1], 2)
<1>1. Process(t, p) = ProcessHeaderValue(t, p, t[p.index + 1])
  BY DEF Process
<1> DEFINE q == Transform(p, "value", 2)
           r == [q EXCEPT !.header = Insert(@, p.name, p.buffer)]
<1>2. Has(q, "value", p.index + 2, <<>>, p.name,
          p.method, p.uri, p.protocol, p.header, p.body)
  BY Transformed
<1>3. CASE t[p.index + 1] = CR /\ p.index + 2 <= Len(t) /\ t[p.index + 2] = LF
  <2>1. Process(t, p) = EndOfHeader(t, r)
    BY <1>1, <1>3 DEF ProcessHeaderValue, Lookahead
  <2>2. Has(r, "value", p.index + 2, <<>>, p.name, p.method, p.uri,
            p.protocol, Insert(p.header, p.name, p.buffer), p.body)
    <3> HIDE DEF q
    <3> QED BY <1>2 DEF IsParser, Has
  <2> HIDE DEF r
  <2>3. r.index \in Nat
    BY <2>2 DEF Has
  <2>4. EndOfHeader(t, r) = IF ~Peeks(t, r.index) THEN Abort(r)
                            ELSE IF EmptyLine(t, r.index) THEN Transform(r, "content", 2)
                                 ELSE Transform(r, "name", 0)
    <3>1. CASE ~Peeks(t, r.index)
      BY <2>3, <3>1 DEF EndOfHeader, Peeks
    <3>2. CASE Peeks(t, r.index) /\ r.index + 2 <= Len(t)
      <4>1. EmptyLine(t, r.index) <=> SubSeq(t, r.index + 1, r.index + 2) = <<CR, LF>>
        <5> DEFINE k == r.index
        <5>1. k \in Nat /\ k + 2 <= Len(t)
          BY <2>3, <3>2
        <5> HIDE DEF k
        <5>2. SubSeq(t, k + 1, k + 2) = <<CR, LF>> <=> t[k + 1] = CR /\ t[k + 2] = LF
          BY <5>1, TwoCharacters
        <5> QED BY <5>1, <5>2 DEF EmptyLine, k
      <4>2. r.index + 1 <= Len(t) /\ (r.index + 1 = Len(t) => t[r.index + 1] # CR)
        BY <3>2 DEF Peeks
      <4>3. EndOfHeader(t, r) = IF SubSeq(t, r.index + 1, r.index + 2) = <<CR, LF>>
                                THEN Transform(r, "content", 2) ELSE Transform(r, "name", 0)
        BY <2>3, <3>2, <4>2 DEF EndOfHeader
      <4> QED BY <3>2, <4>1, <4>3
    <3>3. CASE Peeks(t, r.index) /\ ~(r.index + 2 <= Len(t))
      BY <2>3, <3>3 DEF EndOfHeader, Peeks, EmptyLine
    <3> QED BY <3>1, <3>2, <3>3
  <2> QED BY <1>3, <2>1, <2>2, <2>4
<1>4. CASE t[p.index + 1] # CR
  BY <1>1, <1>4 DEF ProcessHeaderValue
<1>5. CASE t[p.index + 1] = CR /\ p.index + 2 > Len(t)
  BY <1>1, <1>5 DEF ProcessHeaderValue, Lookahead
<1>6. CASE t[p.index + 1] = CR /\ p.index + 2 <= Len(t) /\ t[p.index + 2] # LF
  BY <1>1, <1>6 DEF ProcessHeaderValue, Lookahead
<1> QED BY <1>3, <1>4, <1>5, <1>6

LEMMA ContentTurn ==
    ASSUME NEW t, NEW p, IsParser(p), p.state = "content"
    PROVE  LET buffer == Append(p.buffer, t[p.index + 1])
           IN  Has(Process(t, p), "content", p.index + 1, buffer, p.name, p.method, p.uri,
                   p.protocol, p.header, IF p.index + 1 = Len(t) THEN buffer ELSE p.body)
<1>1. Process(t, p) = ProcessContent(t, p, t[p.index + 1])
  BY DEF Process
<1> DEFINE q == Push(p, t[p.index + 1], 1)
<1>2. Has(q, "content", p.index + 1, Append(p.buffer, t[p.index + 1]), p.name,
          p.method, p.uri, p.protocol, p.header, p.body)
  BY Pushed
<1>3. Process(t, p) = IF q.index = Len(t) THEN [q EXCEPT !.body = q.buffer] ELSE q
  BY <1>1 DEF ProcessContent
<1> HIDE DEF q
<1>4. CASE p.index + 1 = Len(t)
  BY <1>2, <1>3, <1>4 DEF IsParser, Has
<1>5. CASE p.index + 1 # Len(t)
  BY <1>2, <1>3, <1>5 DEF IsParser, Has
<1> QED BY <1>4, <1>5

\* Every turn consumes a character, unless it aborts, and none that the text does
\* not have.  The method and the uri are final once the parser has left them.
LEMMA LaterTurn ==
    ASSUME NEW C, NEW t \in Seq(C), NEW p, IsParser(p), p.index \in Nat, p.index < Len(t),
           p.state \in States \ {"method", "resource"}
    PROVE  LET q == Process(t, p)
           IN  /\ IsParser(q) /\ q.index \in Nat /\ q.index >= p.index /\ q.index <= Len(t)
               /\ q.state # "abort" => q.index > p.index
               /\ q.state \in (States \ {"method", "resource"}) \cup {"abort"}
               /\ q.method = p.method /\ q.uri = p.uri
<1> DEFINE q == Process(t, p)
           Good(x, least) ==
               /\ IsParser(x) /\ x.index \in Nat /\ x.index >= least /\ x.index <= Len(t)
               /\ x.state \in (States \ {"method", "resource"}) \cup {"abort"}
               /\ x.method = p.method /\ x.uri = p.uri
<1>1. p.index + 1 \in Nat /\ p.index + 1 <= Len(t) /\ Len(t) \in Nat
  OBVIOUS
<1>2. Good(Push(p, t[p.index + 1], 1), p.index + 1)
  BY <1>1, Pushed DEF Has
<1>3. p.index + 2 <= Len(t) => Good(Push(p, t[p.index + 1], 2), p.index + 1)
  BY <1>1, Pushed DEF Has
<1>4. Good(Abort(p), p.index) /\ Abort(p).state = "abort"
  BY <1>1, Aborted DEF Has
<1>5. CASE p.state = "protocol"
  <2> HIDE DEF Good
  <2>1. p.index + 2 <= Len(t) /\ t[p.index + 1] = CR /\ t[p.index + 2] = LF
            => Good(q, p.index + 1)
    BY <1>1, <1>5, ProtocolTurn DEF Has, States, Good
  <2>2. /\ t[p.index + 1] # CR => q = Push(p, t[p.index + 1], 1)
        /\ t[p.index + 1] = CR /\ ~(p.index + 2 <= Len(t)) => q = Abort(p)
        /\ t[p.index + 1] = CR /\ p.index + 2 <= Len(t) /\ t[p.index + 2] # LF =>
              q = Push(p, t[p.index + 1], 2)
    BY <1>1, <1>5, ProtocolTurn
  <2> HIDE DEF q
  <2>3. Good(q, p.index + 1) \/ (Good(q, p.index) /\ q.state = "abort")
    BY <1>2, <1>3, <1>4, <2>1, <2>2
  <2> QED BY <1>1, <2>3 DEF Good, q
<1>6. CASE p.state = "name"
  <2> HIDE DEF Good
  <2>1. p.index + 2 <= Len(t) /\ t[p.index + 1] = COLON /\ t[p.index + 2] = SP
            => Good(q, p.index + 1)
    BY <1>1, <1>6, NameTurn DEF Has, States, Good
  <2>2. /\ t[p.index + 1] # COLON => q = Push(p, t[p.index + 1], 1)
        /\ t[p.index + 1] = COLON /\ ~(p.index + 2 <= Len(t)) => q = Abort(p)
        /\ t[p.index + 1] = COLON /\ p.index + 2 <= Len(t) /\ t[p.index + 2] # SP =>
              q = Push(p, t[p.index + 1], 2)
    BY <1>1, <1>6, NameTurn
  <2> HIDE DEF q
  <2>3. Good(q, p.index + 1) \/ (Good(q, p.index) /\ q.state = "abort")
    BY <1>2, <1>3, <1>4, <2>1, <2>2
  <2> QED BY <1>1, <2>3 DEF Good, q
<1>7. CASE p.state = "value"
  <2>1. ASSUME p.index + 2 <= Len(t), t[p.index + 1] = CR, t[p.index + 2] = LF
        PROVE  Good(q, p.index + 1)
    <3>1. PICK v : /\ Has(v, "value", p.index + 2, <<>>, p.name, p.method, p.uri,
                          p.protocol, Insert(p.header, p.name, p.buffer), p.body)
                   /\ q = IF ~Peeks(t, v.index) THEN Abort(v)
                          ELSE IF EmptyLine(t, v.index) THEN Transform(v, "content", 2)
                               ELSE Transform(v, "name", 0)
      BY <1>1, <1>7, <2>1, ValueTurn
    <3>2. IsParser(v) /\ v.index = p.index + 2 /\ v.method = p.method /\ v.uri = p.uri
      BY <3>1 DEF Has
    <3>3. Good(Abort(v), p.index + 1)
      BY <1>1, <2>1, <3>2, Aborted DEF Has
    <3>4. v.index + 2 <= Len(t) => Good(Transform(v, "content", 2), p.index + 1)
      BY <1>1, <2>1, <3>2, Transformed DEF Has, States
    <3>5. Good(Transform(v, "name", 0), p.index + 1)
      BY <1>1, <2>1, <3>2, Transformed DEF Has, States
    <3> HIDE DEF Good, q
    <3> QED BY <3>1, <3>3, <3>4, <3>5 DEF EmptyLine
  <2> HIDE DEF Good
  <2>2. /\ t[p.index + 1] # CR => q = Push(p, t[p.index + 1], 1)
        /\ t[p.index + 1] = CR /\ ~(p.index + 2 <= Len(t)) => q = Abort(p)
        /\ t[p.index + 1] = CR /\ p.index + 2 <= Len(t) /\ t[p.index + 2] # LF =>
              q = Push(p, t[p.index + 1], 2)
    BY <1>1, <1>7, ValueTurn
  <2> HIDE DEF q
  <2>3. Good(q, p.index + 1) \/ (Good(q, p.index) /\ q.state = "abort")
    BY <1>2, <1>3, <1>4, <2>1, <2>2
  <2> QED BY <1>1, <2>3 DEF Good, q
<1>8. CASE p.state = "content"
  BY <1>1, <1>8, ContentTurn DEF Has, States
<1> QED BY <1>5, <1>6, <1>7, <1>8 DEF States

-----------------------------------------------------------------------------
(* The request line: what follows it does not matter. *)

\* The buffer is the part of the text since the place a.
LEMMA SubSeqGrows ==
    ASSUME NEW C, NEW t \in Seq(C), NEW k \in 0..(Len(t) - 1), NEW a \in 1..(k + 1)
    PROVE  Append(SubSeq(t, a, k), t[k + 1]) = SubSeq(t, a, k + 1)
<1>1. SubSeq(t, a, k) \in Seq(C) /\ t[k + 1] \in C
  OBVIOUS
<1>2. Append(SubSeq(t, a, k), t[k + 1]) = SubSeq(t, a, k) \o <<t[k + 1]>>
  BY <1>1, AppendIsConcat
<1>3. a \in 1..Len(t) /\ k + 1 \in a..Len(t) /\ (k + 1) - 1 = k
  OBVIOUS
<1> DEFINE n == k + 1
<1>4. SubSeq(t, a, n) = SubSeq(t, a, n - 1) \o <<t[n]>>
  <2> HIDE DEF n
  <2> QED BY <1>3, SubSeqRecursiveSecond DEF n
<1> QED BY <1>2, <1>3, <1>4

LEMMA EmptySubSeq ==
    ASSUME NEW C, NEW t \in Seq(C), NEW a \in Nat, NEW k \in Int, k < a
    PROVE  SubSeq(t, a, k) = <<>>
BY SubSeqEmpty

\* The text has the word w after the place a.
HasWord(t, a, w) ==
    /\ a + Len(w) <= Len(t)
    /\ \A i \in 1..Len(w) : t[a + i] = w[i]

LEMMA SubSeqIsWord ==
    ASSUME NEW C, NEW t \in Seq(C), NEW D, NEW w \in Seq(D), NEW a \in Nat, HasWord(t, a, w)
    PROVE  SubSeq(t, a + 1, a + Len(w)) = w
<1> DEFINE s == SubSeq(t, a + 1, a + Len(w))
<1>1. s \in Seq(C) /\ Len(s) = Len(w) /\ \A i \in 1..Len(w) : s[i] = t[a + i]
  BY DEF HasWord
<1>2. s \in Seq(C \cup D) /\ w \in Seq(C \cup D)
  BY <1>1, SeqMonotonic, Zenon
<1> HIDE DEF s
<1>3. s = w
  BY <1>1, <1>2, SeqEqual DEF HasWord
<1> QED BY <1>3 DEF s

\* Where the uri and the protocol begin, after the method m and the uri u.
UriAt(m) == Len(m) + 1
ProtocolAt(m, u) == Len(m) + Len(u) + 2

\* As far as it goes, the text begins with the method and the uri.
BeginsWithLine(t, m, u) ==
    /\ \A i \in 1..Len(m) : i <= Len(t) => t[i] = m[i]
    /\ UriAt(m) <= Len(t) => t[UriAt(m)] = SP
    /\ \A i \in 1..Len(u) : UriAt(m) + i <= Len(t) => t[UriAt(m) + i] = u[i]
    /\ ProtocolAt(m, u) <= Len(t) => t[ProtocolAt(m, u)] = SP

\* Where the parser is in such a text, at the place k.
InMethod(t, m, k, p) ==
    /\ p.state = "method" /\ k <= Len(m)
    /\ p.buffer = SubSeq(t, 1, k)
    /\ p.method = Undefined /\ p.uri = <<>>

InResource(t, m, u, k, p) ==
    /\ p.state = "resource" /\ UriAt(m) <= k /\ k < ProtocolAt(m, u)
    /\ p.buffer = SubSeq(t, UriAt(m) + 1, k)
    /\ p.method = Found(m) /\ p.uri = <<>>

BeyondUri(m, u, k, p) ==
    /\ p.state \in (States \ {"method", "resource"}) \cup {"abort"}
    /\ ProtocolAt(m, u) <= k
    /\ p.method = Found(m) /\ p.uri = u

InLine(t, m, u, k, p) ==
    /\ IsParser(p) /\ k \in 0..Len(t) /\ p.index = k
    /\ InMethod(t, m, k, p) \/ InResource(t, m, u, k, p) \/ BeyondUri(m, u, k, p)

LEMMA LineStarts ==
    ASSUME NEW C, NEW t \in Seq(C), NEW m \in Seq(Characters), NEW u
    PROVE  InLine(t, m, u, 0, Start)
<1>1. IsParser(Start) /\ Start.state = "method" /\ Start.index = 0 /\ Start.buffer = <<>>
      /\ Start.method = Undefined /\ Start.uri = <<>>
  BY DEF Start, IsParser
<1>2. SubSeq(t, 1, 0) = <<>>
  BY EmptySubSeq
<1>3. Len(t) \in Nat /\ Len(m) \in Nat
  OBVIOUS
<1> QED BY <1>1, <1>2, <1>3 DEF InLine, InMethod

LEMMA LineContinues ==
    ASSUME NEW C, NEW t \in Seq(C), NEW m \in Seq(Characters), NEW u \in Seq(Characters),
           \A i \in 1..Len(m) : m[i] # SP, \A i \in 1..Len(u) : u[i] # SP,
           BeginsWithLine(t, m, u),
           NEW k, NEW p, InLine(t, m, u, k, p), Running(t, p)
    PROVE  \E n \in Nat : /\ InLine(t, m, u, n, Process(t, p))
                          /\ Process(t, p).state # "abort" => n > k
<1> DEFINE q == Process(t, p)
<1>1. IsParser(p) /\ k \in 0..(Len(t) - 1) /\ p.index = k /\ p.state # "abort"
      /\ k + 1 \in 1..Len(t)
  BY DEF InLine, Running
<1>2. Len(m) \in Nat /\ Len(u) \in Nat /\ Len(t) \in Nat
  OBVIOUS
<1>3. Has(Push(p, t[k + 1], 1), p.state, k + 1, Append(p.buffer, t[k + 1]), p.name,
          p.method, p.uri, p.protocol, p.header, p.body)
  BY <1>1, Pushed
<1> SUFFICES \/ InLine(t, m, u, k + 1, q)
             \/ \E n \in Nat : InLine(t, m, u, n, q) /\ (q.state # "abort" => n > k)
  BY <1>1
<1>4. CASE InMethod(t, m, k, p)
  <2>1. /\ p.state = "method" /\ k <= Len(m) /\ p.buffer = SubSeq(t, 1, k)
        /\ p.method = Undefined /\ p.uri = <<>>
    BY <1>4 DEF InMethod
  <2>2. CASE k < Len(m)
    <3>1. t[k + 1] # SP
      BY <1>1, <1>2, <2>2 DEF BeginsWithLine
    <3>2. Has(q, "method", k + 1, Append(p.buffer, t[k + 1]), p.name,
              p.method, p.uri, p.protocol, p.header, p.body)
      BY <1>1, <1>3, <2>1, <3>1, MethodTurn
    <3>3. Append(p.buffer, t[k + 1]) = SubSeq(t, 1, k + 1)
      BY <1>1, <2>1, SubSeqGrows
    <3>4. k + 1 <= Len(m)
      BY <1>1, <1>2, <2>2
    <3> HIDE DEF q
    <3>5. InMethod(t, m, k + 1, q)
      BY <2>1, <3>2, <3>3, <3>4 DEF InMethod, Has
    <3> QED BY <1>1, <3>2, <3>5 DEF InLine, Has
  <2>3. CASE k = Len(m)
    <3>1. t[k + 1] = SP
      BY <1>1, <2>3 DEF BeginsWithLine, UriAt
    <3>2. Has(q, "resource", k + 1, <<>>, p.name,
              Found(p.buffer), p.uri, p.protocol, p.header, p.body)
      BY <1>1, <2>1, <3>1, MethodTurn
    <3>3. p.buffer = m
      <4>1. HasWord(t, 0, m)
        BY <1>1, <1>2, <2>3 DEF BeginsWithLine, HasWord
      <4>2. SubSeq(t, 0 + 1, 0 + Len(m)) = m
        BY <1>2, <4>1, SubSeqIsWord
      <4> QED BY <1>2, <2>1, <2>3, <4>2
    <3>4. SubSeq(t, UriAt(m) + 1, k + 1) = <<>>
      BY <1>1, <1>2, <2>3, EmptySubSeq DEF UriAt
    <3>5. UriAt(m) <= k + 1 /\ k + 1 < ProtocolAt(m, u)
      BY <1>2, <2>3 DEF UriAt, ProtocolAt
    <3> HIDE DEF q
    <3>6. InResource(t, m, u, k + 1, q)
      BY <2>1, <3>2, <3>3, <3>4, <3>5 DEF InResource, Has
    <3> QED BY <1>1, <3>2, <3>6 DEF InLine, Has
  <2> QED BY <1>1, <1>2, <2>1, <2>2, <2>3
<1>5. CASE InResource(t, m, u, k, p)
  <2> DEFINE a == UriAt(m)
             b == ProtocolAt(m, u)
  <2>1. /\ p.state = "resource" /\ a <= k /\ k < b /\ p.buffer = SubSeq(t, a + 1, k)
        /\ p.method = Found(m) /\ p.uri = <<>>
    BY <1>5 DEF InResource
  <2>2. a \in Nat /\ b \in Nat /\ b = a + Len(u) + 1
    BY <1>2 DEF UriAt, ProtocolAt
  <2>3. /\ \A i \in 1..Len(u) : a + i <= Len(t) => t[a + i] = u[i]
        /\ b <= Len(t) => t[b] = SP
    BY DEF BeginsWithLine
  <2>4. CASE k + 1 < b
    <3>1. t[k + 1] # SP
      <4> DEFINE i == k + 1 - a
      <4> HIDE DEF a, b
      <4>1. i \in 1..Len(u) /\ a + i = k + 1
        BY <1>1, <1>2, <2>1, <2>2, <2>4
      <4> HIDE DEF i
      <4>2. t[k + 1] = u[i]
        BY <1>1, <2>3, <4>1
      <4> QED BY <4>1, <4>2
    <3>2. Has(q, "resource", k + 1, Append(p.buffer, t[k + 1]), p.name,
              p.method, p.uri, p.protocol, p.header, p.body)
      BY <1>1, <1>3, <2>1, <3>1, ResourceTurn
    <3>3. Append(p.buffer, t[k + 1]) = SubSeq(t, a + 1, k + 1)
      <4> HIDE DEF a, b
      <4>1. a + 1 \in 1..(k + 1)
        BY <1>1, <2>1, <2>2
      <4> QED BY <1>1, <2>1, <4>1, SubSeqGrows
    <3> HIDE DEF q
    <3>4. a <= k + 1
      <4> HIDE DEF a, b
      <4> QED BY <1>1, <2>1, <2>2
    <3>5. InResource(t, m, u, k + 1, q)
      BY <2>1, <2>4, <3>2, <3>3, <3>4 DEF InResource, Has
    <3> QED BY <1>1, <3>2, <3>5 DEF InLine, Has
  <2>5. CASE k + 1 = b
    <3>1. t[k + 1] = SP
      BY <1>1, <2>3, <2>5
    <3>2. Has(q, "protocol", k + 1, <<>>, p.name,
              p.method, p.buffer, p.protocol, p.header, p.body)
      BY <1>1, <2>1, <3>1, ResourceTurn
    <3>3. p.buffer = u
      <4> HIDE DEF a, b
      <4>1. HasWord(t, a, u)
        <5>1. a + Len(u) <= Len(t)
          BY <1>1, <1>2, <2>2, <2>5
        <5>2. \A i \in 1..Len(u) : a + i <= Len(t)
          BY <1>1, <1>2, <2>2, <5>1
        <5> QED BY <2>3, <5>1, <5>2 DEF HasWord
      <4>2. SubSeq(t, a + 1, a + Len(u)) = u
        BY <2>2, <4>1, SubSeqIsWord
      <4>3. a + Len(u) = k
        <5> DEFINE n == Len(u)
        <5>1. a \in Nat /\ n \in Nat /\ k \in Nat /\ b = a + n + 1 /\ k + 1 = b
          BY <1>1, <1>2, <2>2, <2>5
        <5> HIDE DEF n
        <5>2. a + n = k
          BY <5>1
        <5> QED BY <5>2 DEF n
      <4> QED BY <2>1, <4>2, <4>3
    <3> HIDE DEF q
    <3>4. BeyondUri(m, u, k + 1, q)
      BY <1>1, <2>1, <2>2, <2>5, <3>2, <3>3 DEF BeyondUri, Has, States
    <3> QED BY <1>1, <3>2, <3>4 DEF InLine, Has
  <2> HIDE DEF a, b
  <2> QED BY <1>1, <2>1, <2>2, <2>4, <2>5
<1>6. CASE BeyondUri(m, u, k, p)
  <2>1. ProtocolAt(m, u) <= k /\ p.method = Found(m) /\ p.uri = u
        /\ p.state \in States \ {"method", "resource"}
    BY <1>1, <1>6 DEF BeyondUri
  <2>2. /\ IsParser(q) /\ q.index \in Nat /\ q.index >= k /\ q.index <= Len(t)
        /\ q.state # "abort" => q.index > k
        /\ q.state \in (States \ {"method", "resource"}) \cup {"abort"}
        /\ q.method = p.method /\ q.uri = p.uri
    BY <1>1, <2>1, LaterTurn
  <2> HIDE DEF q
  <2>3. PICK n \in Nat : n = q.index
    BY <2>2
  <2>4. n \in 0..Len(t) /\ n >= k /\ (q.state # "abort" => n > k) /\ ProtocolAt(m, u) <= n
    <3>1. ProtocolAt(m, u) \in Nat
      BY <1>2 DEF ProtocolAt
    <3> QED BY <1>1, <1>2, <2>1, <2>2, <2>3, <3>1
  <2>5. BeyondUri(m, u, n, q)
    BY <2>1, <2>2, <2>4 DEF BeyondUri
  <2> QED BY <2>2, <2>3, <2>4, <2>5 DEF InLine
<1> QED BY <1>4, <1>5, <1>6 DEF InLine

\* Once a text holds the method and the uri, they are what is decoded, whatever
\* comes after them.
LEMMA LineDecides ==
    ASSUME NEW C, NEW t \in Seq(C), NEW m \in Seq(Characters), NEW u \in Seq(Characters),
           \A i \in 1..Len(m) : m[i] # SP, \A i \in 1..Len(u) : u[i] # SP,
           BeginsWithLine(t, m, u), Len(t) >= ProtocolAt(m, u)
    PROVE  DecodeMessage(t).method = Found(m) /\ DecodeMessage(t).uri = u
<1>1. Len(t) \in Nat /\ Len(m) \in Nat /\ Len(u) \in Nat
  OBVIOUS
<1>2. PICK turn : /\ turn[0] = Start
                  /\ \A n \in 0..(Len(t) - 1) : turn[n + 1] = TurnOf(t, turn[n])
                  /\ DecodeMessage(t) = turn[Len(t)]
  BY <1>1, Turns
<1> DEFINE S == {n \in Nat : \E k \in Nat : /\ InLine(t, m, u, k, turn[n])
                                            /\ turn[n].state # "abort" => k >= n}
<1>3. 0 \in S
  <2>1. InLine(t, m, u, 0, turn[0])
    BY <1>2, LineStarts
  <2>2. 0 \in Nat /\ 0 >= 0
    OBVIOUS
  <2> QED BY <2>1, <2>2
<1>4. ASSUME NEW n \in 0..(Len(t) - 1), n \in S PROVE n + 1 \in S
  <2>1. turn[n + 1] = TurnOf(t, turn[n])
    BY <1>2
  <2>2. PICK k \in Nat : InLine(t, m, u, k, turn[n]) /\ (turn[n].state # "abort" => k >= n)
    BY <1>4
  <2>3. CASE Running(t, turn[n])
    <3>1. turn[n + 1] = Process(t, turn[n])
      BY <2>1, <2>3 DEF TurnOf
    <3>2. PICK j \in Nat : /\ InLine(t, m, u, j, turn[n + 1])
                           /\ turn[n + 1].state # "abort" => j > k
      BY <2>2, <2>3, <3>1, LineContinues
    <3>3. k >= n
      BY <2>2, <2>3 DEF Running
    <3>4. turn[n + 1].state # "abort" => j >= n + 1
      BY <3>2, <3>3
    <3> QED BY <3>2, <3>4
  <2>4. CASE ~Running(t, turn[n])
    <3>1. turn[n + 1] = turn[n]
      BY <2>1, <2>4 DEF TurnOf
    <3>2. turn[n].state # "abort" => k >= n + 1
      BY <1>1, <2>2, <2>4 DEF InLine, Running
    <3> QED BY <2>2, <3>1, <3>2
  <2> QED BY <2>3, <2>4
<1> HIDE DEF S
<1>5. Len(t) \in S
  <2>1. 0..Len(t) \subseteq S
    BY <1>1, <1>3, <1>4, Induction
  <2> QED BY <1>1, <2>1
<1> DEFINE p == turn[Len(t)]
<1>6. PICK k \in Nat : InLine(t, m, u, k, p) /\ (p.state # "abort" => k >= Len(t))
  BY <1>5 DEF S
<1> HIDE DEF p
<1>7. UriAt(m) < ProtocolAt(m, u) /\ ProtocolAt(m, u) <= Len(t) /\ ProtocolAt(m, u) \in Nat
      /\ Len(m) < ProtocolAt(m, u)
  BY <1>1 DEF UriAt, ProtocolAt
<1>8. BeyondUri(m, u, k, p)
  BY <1>1, <1>6, <1>7 DEF InLine, InMethod, InResource
<1> QED BY <1>2, <1>8 DEF BeyondUri, p

-----------------------------------------------------------------------------
(* The words of a request, and where they are. *)

\* As far as it goes, the text has the word w after the place a.
WordAt(t, a, w) == \A i \in 1..Len(w) : a + i <= Len(t) => t[a + i] = w[i]

LEMMA WordsInARow ==
    ASSUME NEW C, NEW t \in Seq(C), NEW a \in Nat,
           NEW v \in Seq(Characters), NEW w \in Seq(Characters)
    PROVE  WordAt(t, a, v \o w) <=> WordAt(t, a, v) /\ WordAt(t, a + Len(v), w)
<1> DEFINE vw == v \o w
<1>1. /\ vw \in Seq(Characters) /\ Len(vw) = Len(v) + Len(w)
      /\ \A i \in 1..(Len(v) + Len(w)) : vw[i] = IF i <= Len(v) THEN v[i] ELSE w[i - Len(v)]
  BY ConcatProperties
<1>2. Len(t) \in Nat /\ Len(v) \in Nat /\ Len(w) \in Nat
  OBVIOUS
<1> HIDE DEF vw
<1>3. ASSUME WordAt(t, a, vw) PROVE WordAt(t, a, v) /\ WordAt(t, a + Len(v), w)
  <2>1. WordAt(t, a, v)
    BY <1>1, <1>2, <1>3 DEF WordAt
  <2>2. ASSUME NEW i \in 1..Len(w), (a + Len(v)) + i <= Len(t)
        PROVE  t[(a + Len(v)) + i] = w[i]
    <3> DEFINE j == Len(v) + i
    <3>1. j \in 1..Len(vw) /\ a + j = (a + Len(v)) + i /\ ~(j <= Len(v)) /\ j - Len(v) = i
      BY <1>1, <1>2
    <3> HIDE DEF j
    <3>2. t[a + j] = vw[j]
      BY <1>3, <2>2, <3>1 DEF WordAt
    <3> QED BY <1>1, <3>1, <3>2
  <2> QED BY <2>1, <2>2 DEF WordAt
<1>4. ASSUME WordAt(t, a, v), WordAt(t, a + Len(v), w) PROVE WordAt(t, a, vw)
  <2> SUFFICES ASSUME NEW i \in 1..Len(vw), a + i <= Len(t) PROVE t[a + i] = vw[i]
    BY DEF WordAt
  <2>1. CASE i <= Len(v)
    BY <1>1, <1>2, <1>4, <2>1 DEF WordAt
  <2>2. CASE ~(i <= Len(v))
    <3> DEFINE j == i - Len(v)
    <3>1. j \in 1..Len(w) /\ (a + Len(v)) + j = a + i
      BY <1>1, <1>2, <2>2
    <3> HIDE DEF j
    <3>2. t[(a + Len(v)) + j] = w[j]
      BY <1>4, <3>1 DEF WordAt
    <3> QED BY <1>1, <1>2, <2>2, <3>1, <3>2 DEF j
  <2> QED BY <2>1, <2>2
<1> QED BY <1>3, <1>4 DEF vw

LEMMA OneAndTwo ==
    ASSUME NEW t, Len(t) \in Nat, NEW a \in Nat, NEW x, NEW y
    PROVE  /\ WordAt(t, a, <<x>>) <=> (a + 1 <= Len(t) => t[a + 1] = x)
           /\ WordAt(t, a, <<x, y>>) <=> /\ a + 1 <= Len(t) => t[a + 1] = x
                                         /\ a + 2 <= Len(t) => t[a + 2] = y
BY DEF WordAt

LEMMA RequestTypes ==
    ASSUME NEW r \in Requests
    PROVE  /\ r.method \in Seq(Characters) /\ \A i \in 1..Len(r.method) : r.method[i] # SP
           /\ r.uri \in Seq(Characters) /\ \A i \in 1..Len(r.uri) : r.uri[i] # SP
           /\ r.protocol \in Seq(Characters)
           /\ \A i \in 1..Len(r.protocol) : r.protocol[i] # CR
           /\ r.body \in Seq(Characters)
           /\ Len(r.method) \in Nat /\ Len(r.uri) \in Nat /\ Len(r.protocol) \in Nat
           /\ Len(r.body) \in Nat /\ Len(r.headers) \in Nat
           /\ \A h \in 1..Len(r.headers) :
                 /\ r.headers[h].name \in Seq(Characters) /\ Len(r.headers[h].name) \in Nat
                 /\ \A i \in 1..Len(r.headers[h].name) :
                       r.headers[h].name[i] # COLON /\ r.headers[h].name[i] # CR
                 /\ r.headers[h].value \in Seq(Characters) /\ Len(r.headers[h].value) \in Nat
                 /\ \A i \in 1..Len(r.headers[h].value) : r.headers[h].value[i] # CR
           /\ Len(r.headers) = 0 => \A i \in 1..Len(r.body) : r.body[i] # COLON
<1>1. /\ r.method \in Without({SP}) /\ r.uri \in Without({SP}) /\ r.protocol \in Without({CR})
      /\ r.headers \in Seq([name : Without({COLON, CR}), value : Without({CR})])
      /\ r.body \in Seq(Characters)
      /\ r.headers = <<>> => r.body \in Without({COLON})
  <2>1. r \in [method : Without({SP}), uri : Without({SP}), protocol : Without({CR}),
               headers : Seq([name : Without({COLON, CR}), value : Without({CR})]),
               body : Seq(Characters)]
    BY RequestAssumption, Zenon
  <2>2. r.headers = <<>> => r.body \in Without({COLON})
    BY RequestAssumption, Zenon
  <2> QED BY <2>1, <2>2
<1>2. ASSUME NEW some, NEW w \in Without(some)
      PROVE  w \in Seq(Characters) /\ Len(w) \in Nat /\ \A i \in 1..Len(w) : w[i] \notin some
  BY <1>2 DEF Without
<1> DEFINE Lines == [name : Without({COLON, CR}), value : Without({CR})]
           headers == r.headers
<1>3. headers \in Seq(Lines)
  BY <1>1
<1>4. ASSUME NEW h \in 1..Len(headers) PROVE headers[h] \in Lines
  <2> HIDE DEF Lines, headers
  <2> QED BY <1>3, ElementOfSeq
<1>5. Len(headers) \in Nat /\ (Len(headers) = 0 => headers = <<>>)
  <2> HIDE DEF Lines, headers
  <2>1. \A seq \in Seq(Lines) : seq # <<>> => Len(seq) \in Nat \ {0}
    BY EmptySeq, Zenon
  <2>2. Len(headers) \in Nat
    BY <1>3, LenProperties
  <2> QED BY <1>3, <2>1, <2>2, Zenon
<1>6. ASSUME NEW h \in 1..Len(headers)
      PROVE  /\ r.headers[h].name \in Seq(Characters) /\ Len(r.headers[h].name) \in Nat
             /\ \A i \in 1..Len(r.headers[h].name) :
                   r.headers[h].name[i] # COLON /\ r.headers[h].name[i] # CR
             /\ r.headers[h].value \in Seq(Characters) /\ Len(r.headers[h].value) \in Nat
             /\ \A i \in 1..Len(r.headers[h].value) : r.headers[h].value[i] # CR
  <2>1. headers[h].name \in Without({COLON, CR}) /\ headers[h].value \in Without({CR})
    BY <1>4
  <2> QED BY <2>1, <1>2
<1>7. /\ \A i \in 1..Len(r.method) : r.method[i] # SP
      /\ \A i \in 1..Len(r.uri) : r.uri[i] # SP
      /\ \A i \in 1..Len(r.protocol) : r.protocol[i] # CR
      /\ r.method \in Seq(Characters) /\ r.uri \in Seq(Characters)
      /\ r.protocol \in Seq(Characters)
      /\ Len(r.method) \in Nat /\ Len(r.uri) \in Nat /\ Len(r.protocol) \in Nat
      /\ Len(r.body) \in Nat
  BY <1>1, <1>2
<1>8. Len(r.headers) = 0 => \A i \in 1..Len(r.body) : r.body[i] # COLON
  BY <1>1, <1>2, <1>5
<1> QED BY <1>1, <1>5, <1>6, <1>7, <1>8

\* The same, part by part.
LEMMA PartTypes ==
    ASSUME NEW r \in Requests
    PROVE  /\ r.method \in Seq(Characters) /\ r.uri \in Seq(Characters)
           /\ r.protocol \in Seq(Characters) /\ r.body \in Seq(Characters)
           /\ Len(r.headers) \in Nat
BY RequestTypes

LEMMA HeaderTypes ==
    ASSUME NEW r \in Requests, NEW i \in 1..Len(r.headers)
    PROVE  /\ r.headers[i].name \in Seq(Characters)
           /\ r.headers[i].value \in Seq(Characters)
BY RequestTypes

LEMMA Separators ==
    /\ <<SP>> \in Seq(Characters) /\ Len(<<SP>>) = 1
    /\ <<COLON, SP>> \in Seq(Characters) /\ Len(<<COLON, SP>>) = 2
    /\ <<CR, LF>> \in Seq(Characters) /\ Len(<<CR, LF>>) = 2
<1>1. SP \in Characters /\ CR \in Characters /\ LF \in Characters /\ COLON \in Characters
  BY RequestAssumption
<1> QED BY <1>1

LEMMA Joined ==
    ASSUME NEW S, NEW x \in Seq(S), NEW y \in Seq(S), NEW n \in Nat, Len(x) = n
    PROVE  x \o y \in Seq(S) /\ Len(x \o y) = n + Len(y) /\ Len(y) \in Nat
<1>1. x \o y \in Seq(S) /\ Len(x \o y) = Len(x) + Len(y)
  BY ConcatProperties
<1>2. Len(y) \in Nat
  BY LenProperties
<1> QED BY <1>1, <1>2

\* first before mid before last, with what comes between and after them.
LEMMA LineOfWords ==
    ASSUME NEW v \in Seq(Characters), NEW w \in Seq(Characters), NEW between \in Seq(Characters),
           NEW C, NEW t \in Seq(C), NEW a \in Nat
    PROVE  /\ v \o between \o w \o <<CR, LF>> \in Seq(Characters)
           /\ Len(v \o between \o w \o <<CR, LF>>) = Len(v) + Len(between) + Len(w) + 2
           /\ WordAt(t, a, v \o between \o w \o <<CR, LF>>) <=>
                 /\ WordAt(t, a, v)
                 /\ WordAt(t, a + Len(v), between)
                 /\ WordAt(t, a + Len(v) + Len(between), w)
                 /\ WordAt(t, a + Len(v) + Len(between) + Len(w), <<CR, LF>>)
<1> DEFINE x == v \o between
           y == x \o w
           e == <<CR, LF>>
<1>1. x \in Seq(Characters) /\ Len(x) = Len(v) + Len(between)
  BY ConcatProperties
<1>2. WordAt(t, a, x) <=> WordAt(t, a, v) /\ WordAt(t, a + Len(v), between)
  BY WordsInARow
<1> HIDE DEF x
<1>3. y \in Seq(Characters) /\ Len(y) = Len(v) + Len(between) + Len(w)
  <2>1. Len(v) + Len(between) \in Nat
    OBVIOUS
  <2> QED BY <1>1, <2>1, Joined
<1>4. WordAt(t, a, y) <=> WordAt(t, a, x) /\ WordAt(t, a + Len(v) + Len(between), w)
  <2>1. WordAt(t, a, y) <=> WordAt(t, a, x) /\ WordAt(t, a + Len(x), w)
    BY <1>1, WordsInARow
  <2>2. a + Len(x) = a + Len(v) + Len(between)
    BY <1>1
  <2> QED BY <2>1, <2>2
<1> HIDE DEF y
<1>5. e \in Seq(Characters) /\ Len(e) = 2
  BY Separators
<1> HIDE DEF e
<1>6. y \o e \in Seq(Characters) /\ Len(y \o e) = Len(v) + Len(between) + Len(w) + 2
  <2>1. Len(v) + Len(between) + Len(w) \in Nat
    OBVIOUS
  <2> DEFINE n == Len(v) + Len(between) + Len(w)
  <2> HIDE DEF y, n
  <2>2. y \in Seq(Characters) /\ Len(y) = n /\ n \in Nat
    BY <1>3, <2>1 DEF n
  <2>3. y \o e \in Seq(Characters) /\ Len(y \o e) = n + Len(e)
    BY <2>2, <1>5, Joined
  <2>4. n + Len(e) = n + 2
    BY <1>5
  <2> QED BY <2>3, <2>4 DEF n
<1>7. WordAt(t, a, y \o e)
          <=> WordAt(t, a, y) /\ WordAt(t, a + Len(v) + Len(between) + Len(w), e)
  <2>1. WordAt(t, a, y \o e) <=> WordAt(t, a, y) /\ WordAt(t, a + Len(y), e)
    BY <1>3, <1>5, WordsInARow
  <2>2. a + Len(y) = a + Len(v) + Len(between) + Len(w)
    BY <1>3
  <2> QED BY <2>1, <2>2
<1> QED BY <1>2, <1>4, <1>6, <1>7 DEF x, y, e

\* A header's line: its name, COLON SP, its value, CR LF.
LEMMA HeaderWords ==
    ASSUME NEW h, NEW v \in Seq(Characters), NEW w \in Seq(Characters),
           h.name = v, h.value = w, NEW C, NEW t \in Seq(C), NEW a \in Nat
    PROVE  /\ HeaderLine(h) \in Seq(Characters)
           /\ Len(HeaderLine(h)) = Len(v) + Len(w) + 4
           /\ WordAt(t, a, HeaderLine(h)) <=>
                 /\ WordAt(t, a, v)
                 /\ WordAt(t, a + Len(v), <<COLON, SP>>)
                 /\ WordAt(t, a + Len(v) + 2, w)
                 /\ WordAt(t, a + Len(v) + 2 + Len(w), <<CR, LF>>)
<1> DEFINE c == <<COLON, SP>>
<1>1. c \in Seq(Characters) /\ Len(c) = 2
  BY Separators
<1>2. HeaderLine(h) = v \o c \o w \o <<CR, LF>>
  BY DEF HeaderLine
<1> HIDE DEF c
<1>3. /\ v \o c \o w \o <<CR, LF>> \in Seq(Characters)
      /\ Len(v \o c \o w \o <<CR, LF>>) = Len(v) + Len(c) + Len(w) + 2
      /\ WordAt(t, a, v \o c \o w \o <<CR, LF>>) <=>
            /\ WordAt(t, a, v)
            /\ WordAt(t, a + Len(v), c)
            /\ WordAt(t, a + Len(v) + Len(c), w)
            /\ WordAt(t, a + Len(v) + Len(c) + Len(w), <<CR, LF>>)
  BY <1>1, LineOfWords
<1>4. Len(v) + Len(c) + Len(w) + 2 = Len(v) + Len(w) + 4
  BY <1>1
<1> QED BY <1>1, <1>2, <1>3, <1>4 DEF c

LEMMA RequestLineWords ==
    ASSUME NEW r, NEW m \in Seq(Characters), NEW u \in Seq(Characters),
           NEW l \in Seq(Characters), r.method = m, r.uri = u, r.protocol = l,
           NEW C, NEW t \in Seq(C)
    PROVE  /\ RequestLine(r) \in Seq(Characters)
           /\ Len(RequestLine(r)) = ProtocolAt(m, u) + Len(l) + 2
           /\ WordAt(t, 0, RequestLine(r)) <=>
                 /\ BeginsWithLine(t, m, u)
                 /\ WordAt(t, ProtocolAt(m, u), l)
                 /\ WordAt(t, ProtocolAt(m, u) + Len(l), <<CR, LF>>)
<1> DEFINE s == <<SP>>
           v == m \o s \o u
<1>1. s \in Seq(Characters) /\ Len(s) = 1
  BY Separators
<1>2. RequestLine(r) = v \o s \o l \o <<CR, LF>>
  BY DEF RequestLine
<1>3. Len(m) \in Nat /\ Len(u) \in Nat /\ Len(l) \in Nat /\ Len(t) \in Nat
  OBVIOUS
<1>4. WordAt(t, Len(m), s) <=> (UriAt(m) <= Len(t) => t[UriAt(m)] = SP)
  BY <1>3, OneAndTwo DEF UriAt
<1>5. WordAt(t, Len(m) + 1 + Len(u), s)
          <=> (ProtocolAt(m, u) <= Len(t) => t[ProtocolAt(m, u)] = SP)
  <2>1. (Len(m) + 1 + Len(u)) + 1 = ProtocolAt(m, u) /\ Len(m) + 1 + Len(u) \in Nat
    BY <1>3 DEF ProtocolAt
  <2> DEFINE b == Len(m) + 1 + Len(u)
  <2>2. b \in Nat /\ b + 1 = ProtocolAt(m, u)
    BY <2>1
  <2> HIDE DEF b
  <2>3. WordAt(t, b, s) <=> (b + 1 <= Len(t) => t[b + 1] = SP)
    BY <1>3, <2>2, OneAndTwo
  <2> QED BY <2>2, <2>3 DEF b
<1> HIDE DEF s
<1>6. v \in Seq(Characters) /\ Len(v) = Len(m) + 1 + Len(u)
  <2> DEFINE x == m \o s
             n == Len(m) + 1
  <2>1. x \in Seq(Characters) /\ Len(x) = n
    <3>1. x \in Seq(Characters) /\ Len(x) = Len(m) + Len(s)
      BY <1>1, ConcatProperties
    <3> QED BY <1>1, <3>1
  <2>2. n \in Nat
    BY <1>3
  <2> HIDE DEF x, n
  <2>3. x \o u \in Seq(Characters) /\ Len(x \o u) = n + Len(u)
    BY <2>1, <2>2, Joined
  <2> QED BY <2>3 DEF x, n
<1>7. WordAt(t, 0, v) <=> /\ WordAt(t, 0, m)
                          /\ WordAt(t, Len(m), s)
                          /\ WordAt(t, Len(m) + 1, u)
  <2> DEFINE x == m \o s
  <2>1. x \in Seq(Characters) /\ Len(x) = Len(m) + 1
    <3>1. x \in Seq(Characters) /\ Len(x) = Len(m) + Len(s)
      BY <1>1, ConcatProperties
    <3> QED BY <1>1, <3>1
  <2>2. WordAt(t, 0, x) <=> WordAt(t, 0, m) /\ WordAt(t, 0 + Len(m), s)
    BY <1>1, WordsInARow
  <2> HIDE DEF x
  <2>3. WordAt(t, 0, x \o u) <=> WordAt(t, 0, x) /\ WordAt(t, 0 + Len(x), u)
    BY <2>1, WordsInARow
  <2>4. 0 + Len(x) = Len(m) + 1 /\ 0 + Len(m) = Len(m)
    BY <1>3, <2>1
  <2> QED BY <2>2, <2>3, <2>4 DEF x
<1> HIDE DEF v
<1>8. /\ v \o s \o l \o <<CR, LF>> \in Seq(Characters)
      /\ Len(v \o s \o l \o <<CR, LF>>) = Len(v) + Len(s) + Len(l) + 2
      /\ WordAt(t, 0, v \o s \o l \o <<CR, LF>>) <=>
            /\ WordAt(t, 0, v)
            /\ WordAt(t, 0 + Len(v), s)
            /\ WordAt(t, 0 + Len(v) + Len(s), l)
            /\ WordAt(t, 0 + Len(v) + Len(s) + Len(l), <<CR, LF>>)
  BY <1>1, <1>6, LineOfWords
<1>9. /\ 0 + Len(v) = Len(m) + 1 + Len(u)
      /\ 0 + Len(v) + Len(s) = ProtocolAt(m, u)
      /\ Len(v) + Len(s) + Len(l) + 2 = ProtocolAt(m, u) + Len(l) + 2
  BY <1>1, <1>3, <1>6 DEF ProtocolAt
<1>10. BeginsWithLine(t, m, u) <=> /\ WordAt(t, 0, m)
                                   /\ UriAt(m) <= Len(t) => t[UriAt(m)] = SP
                                   /\ WordAt(t, Len(m) + 1, u)
                                   /\ ProtocolAt(m, u) <= Len(t) => t[ProtocolAt(m, u)] = SP
  BY <1>3 DEF BeginsWithLine, WordAt, UriAt
<1> QED BY <1>2, <1>4, <1>5, <1>7, <1>8, <1>9, <1>10

-----------------------------------------------------------------------------
(* One turn within a word of a request: the text has w after the place a, the   *)
(* parser has consumed it as far as the place k.                             *)

Reading(t, state, a, w, k, p) ==
    /\ IsParser(p) /\ p.state = state /\ p.index = k
    /\ a <= k /\ k <= a + Len(w)
    /\ p.buffer = SubSeq(t, a + 1, k)

\* The word w lies between the places a and e, and x after it.
Ends(t, a, w, e, x) ==
    a \in Nat /\ e \in Nat /\ e = a + Len(w) /\ WordAt(t, a, w) /\ WordAt(t, e, x)

\* What is decoded already.
Decoded(p, method, uri, protocol, header, body) ==
    /\ p.method = method /\ p.uri = uri /\ p.protocol = protocol
    /\ p.header = header /\ p.body = body

LEMMA StartsReading ==
    ASSUME NEW C, NEW t \in Seq(C), NEW D, NEW w \in Seq(D), NEW a \in Nat, NEW state,
           NEW q, IsParser(q), q.state = state, q.index = a, q.buffer = <<>>
    PROVE  Reading(t, state, a, w, a, q)
<1>1. SubSeq(t, a + 1, a) = <<>>
  BY EmptySubSeq
<1> QED BY <1>1 DEF Reading

\* Within the word the character is the word's; at its end the buffer is the word.
LEMMA InWord ==
    ASSUME NEW C, NEW t \in Seq(C), NEW w \in Seq(Characters), NEW a \in Nat,
           WordAt(t, a, w), NEW k \in 0..(Len(t) - 1), NEW state, NEW p,
           Reading(t, state, a, w, k, p)
    PROVE  /\ k < a + Len(w) => /\ \E i \in 1..Len(w) : t[k + 1] = w[i]
                                /\ Reading(t, state, a, w, k + 1, Push(p, t[k + 1], 1))
           /\ k = a + Len(w) => p.buffer = w
<1>1. /\ IsParser(p) /\ p.state = state /\ p.index = k /\ a <= k /\ k <= a + Len(w)
      /\ p.buffer = SubSeq(t, a + 1, k)
  BY DEF Reading
<1>2. CASE k < a + Len(w)
  <2> DEFINE i == k + 1 - a
  <2>1. i \in 1..Len(w) /\ a + i = k + 1 /\ a + i <= Len(t)
    BY <1>1, <1>2
  <2> HIDE DEF i
  <2>2. t[k + 1] = w[i]
    BY <2>1 DEF WordAt
  <2>3. Append(p.buffer, t[k + 1]) = SubSeq(t, a + 1, k + 1)
    <3>1. a + 1 \in 1..(k + 1)
      BY <1>1
    <3> QED BY <1>1, <3>1, SubSeqGrows
  <2>4. Reading(t, state, a, w, k + 1, Push(p, t[k + 1], 1))
    <3>1. Has(Push(p, t[k + 1], 1), state, k + 1, SubSeq(t, a + 1, k + 1), p.name,
              p.method, p.uri, p.protocol, p.header, p.body)
      BY <1>1, <2>3, Pushed
    <3>2. a <= k + 1 /\ k + 1 <= a + Len(w)
      BY <1>1, <1>2
    <3> QED BY <3>1, <3>2 DEF Reading, Has
  <2> QED BY <1>2, <2>1, <2>2, <2>4
<1>3. CASE k = a + Len(w)
  <2>1. HasWord(t, a, w)
    BY <1>3 DEF WordAt, HasWord
  <2>2. SubSeq(t, a + 1, a + Len(w)) = w
    BY <2>1, SubSeqIsWord
  <2> QED BY <1>1, <1>3, <2>2
<1> QED BY <1>1, <1>2, <1>3

ProtocolRead(t, a, w, e, k, p, q) ==
    \/ q = Push(p, t[k + 1], 1) /\ Reading(t, "protocol", a, w, k + 1, q)
    \/ k = e /\ k + 1 = Len(t) /\ q = Abort(p)
    \/ /\ k = e /\ k + 2 <= Len(t)
       /\ Has(q, "name", k + 2, <<>>, p.name, p.method, p.uri, w, p.header, p.body)

LEMMA ReadsProtocol ==
    ASSUME NEW C, NEW t \in Seq(C), NEW w \in Seq(Characters), NEW a, NEW e,
           Ends(t, a, w, e, <<CR, LF>>), \A i \in 1..Len(w) : w[i] # CR,
           NEW k \in 0..(Len(t) - 1), NEW p, Reading(t, "protocol", a, w, k, p)
    PROVE  ProtocolRead(t, a, w, e, k, p, Process(t, p))
<1>0. a \in Nat /\ e \in Nat /\ e = a + Len(w) /\ WordAt(t, a, w) /\ WordAt(t, e, <<CR, LF>>)
  BY DEF Ends
<1>1. /\ IsParser(p) /\ p.state = "protocol" /\ p.index = k /\ a <= k /\ k <= e
      /\ k < e => k < a + Len(w)
      /\ k \in Nat /\ Len(t) \in Nat
  BY <1>0 DEF Reading
<1>2. CASE k < e
  <2>1. t[k + 1] # CR /\ Reading(t, "protocol", a, w, k + 1, Push(p, t[k + 1], 1))
    BY <1>0, <1>1, <1>2, InWord
  <2>2. Process(t, p) = Push(p, t[k + 1], 1)
    BY <1>1, <2>1, ProtocolTurn
  <2> QED BY <2>1, <2>2 DEF ProtocolRead
<1>3. CASE k = e
  <2>1. p.buffer = w
    BY <1>0, <1>3, InWord
  <2>2. t[k + 1] = CR /\ (k + 2 <= Len(t) => t[k + 2] = LF)
    <3>1. WordAt(t, e, <<CR, LF>>)
              <=> /\ e + 1 <= Len(t) => t[e + 1] = CR
                  /\ e + 2 <= Len(t) => t[e + 2] = LF
      BY <1>0, <1>1, OneAndTwo
    <3>2. e + 1 <= Len(t)
      BY <1>1, <1>3
    <3> QED BY <1>0, <1>3, <3>1, <3>2
  <2> QED BY <1>1, <1>3, <2>1, <2>2, ProtocolTurn DEF ProtocolRead
<1> QED BY <1>0, <1>1, <1>2, <1>3

NameRead(t, a, w, e, k, p, q) ==
    \/ q = Push(p, t[k + 1], 1) /\ Reading(t, "name", a, w, k + 1, q)
    \/ k = e /\ k + 1 = Len(t) /\ q = Abort(p)
    \/ /\ k = e /\ k + 2 <= Len(t)
       /\ Has(q, "value", k + 2, <<>>, w, p.method, p.uri, p.protocol, p.header, p.body)

LEMMA ReadsName ==
    ASSUME NEW C, NEW t \in Seq(C), NEW w \in Seq(Characters), NEW a, NEW e,
           Ends(t, a, w, e, <<COLON, SP>>), \A i \in 1..Len(w) : w[i] # COLON,
           NEW k \in 0..(Len(t) - 1), NEW p, Reading(t, "name", a, w, k, p)
    PROVE  NameRead(t, a, w, e, k, p, Process(t, p))
<1>0. a \in Nat /\ e \in Nat /\ e = a + Len(w) /\ WordAt(t, a, w) /\ WordAt(t, e, <<COLON, SP>>)
  BY DEF Ends
<1>1. /\ IsParser(p) /\ p.state = "name" /\ p.index = k /\ a <= k /\ k <= e
      /\ k < e => k < a + Len(w)
      /\ k \in Nat /\ Len(t) \in Nat
  BY <1>0 DEF Reading
<1>2. CASE k < e
  <2>1. t[k + 1] # COLON /\ Reading(t, "name", a, w, k + 1, Push(p, t[k + 1], 1))
    BY <1>0, <1>1, <1>2, InWord
  <2>2. Process(t, p) = Push(p, t[k + 1], 1)
    BY <1>1, <2>1, NameTurn
  <2> QED BY <2>1, <2>2 DEF NameRead
<1>3. CASE k = e
  <2>1. p.buffer = w
    BY <1>0, <1>3, InWord
  <2>2. t[k + 1] = COLON /\ (k + 2 <= Len(t) => t[k + 2] = SP)
    <3>1. WordAt(t, e, <<COLON, SP>>)
              <=> /\ e + 1 <= Len(t) => t[e + 1] = COLON
                  /\ e + 2 <= Len(t) => t[e + 2] = SP
      BY <1>0, <1>1, OneAndTwo
    <3>2. e + 1 <= Len(t)
      BY <1>1, <1>3
    <3> QED BY <1>0, <1>3, <3>1, <3>2
  <2> QED BY <1>1, <1>3, <2>1, <2>2, NameTurn DEF NameRead
<1> QED BY <1>0, <1>1, <1>2, <1>3

ValueRead(t, a, w, e, k, p, q) ==
    LET header == Insert(p.header, p.name, w)
        Leaves(state, n) == Has(q, state, n, <<>>, p.name, p.method, p.uri, p.protocol, header,
                               p.body)
    IN  \/ q = Push(p, t[k + 1], 1) /\ Reading(t, "value", a, w, k + 1, q)
        \/ k = e /\ k + 1 = Len(t) /\ q = Abort(p)
        \/ /\ k = e /\ k + 2 <= Len(t)
           /\ \/ ~Peeks(t, k + 2) /\ Leaves("abort", k + 2)
              \/ Peeks(t, k + 2) /\ EmptyLine(t, k + 2) /\ Leaves("content", k + 4)
              \/ Peeks(t, k + 2) /\ ~EmptyLine(t, k + 2) /\ Leaves("name", k + 2)

LEMMA ReadsValue ==
    ASSUME NEW C, NEW t \in Seq(C), NEW w \in Seq(Characters), NEW a, NEW e,
           Ends(t, a, w, e, <<CR, LF>>), \A i \in 1..Len(w) : w[i] # CR,
           NEW k \in 0..(Len(t) - 1), NEW p, Reading(t, "value", a, w, k, p)
    PROVE  ValueRead(t, a, w, e, k, p, Process(t, p))
<1>0. a \in Nat /\ e \in Nat /\ e = a + Len(w) /\ WordAt(t, a, w) /\ WordAt(t, e, <<CR, LF>>)
  BY DEF Ends
<1>1. /\ IsParser(p) /\ p.state = "value" /\ p.index = k /\ a <= k /\ k <= e
      /\ k < e => k < a + Len(w)
      /\ k \in Nat /\ Len(t) \in Nat
  BY <1>0 DEF Reading
<1>2. CASE k < e
  <2>1. t[k + 1] # CR /\ Reading(t, "value", a, w, k + 1, Push(p, t[k + 1], 1))
    BY <1>0, <1>1, <1>2, InWord
  <2>2. Process(t, p) = Push(p, t[k + 1], 1)
    BY <1>1, <2>1, ValueTurn
  <2> QED BY <2>1, <2>2 DEF ValueRead
<1>3. CASE k = e
  <2>1. p.buffer = w
    BY <1>0, <1>3, InWord
  <2>2. t[k + 1] = CR /\ (k + 2 <= Len(t) => t[k + 2] = LF)
    <3>1. WordAt(t, e, <<CR, LF>>)
              <=> /\ e + 1 <= Len(t) => t[e + 1] = CR
                  /\ e + 2 <= Len(t) => t[e + 2] = LF
      BY <1>0, <1>1, OneAndTwo
    <3>2. e + 1 <= Len(t)
      BY <1>1, <1>3
    <3> QED BY <1>0, <1>3, <3>1, <3>2
  <2>3. CASE k + 2 > Len(t)
    BY <1>1, <1>3, <2>2, <2>3, ValueTurn DEF ValueRead
  <2>4. CASE k + 2 <= Len(t)
    <3>1. PICK v : /\ Has(v, "value", k + 2, <<>>, p.name, p.method, p.uri, p.protocol,
                          Insert(p.header, p.name, w), p.body)
                   /\ Process(t, p) = IF ~Peeks(t, v.index) THEN Abort(v)
                                      ELSE IF EmptyLine(t, v.index)
                                           THEN Transform(v, "content", 2)
                                           ELSE Transform(v, "name", 0)
      BY <1>1, <2>1, <2>2, <2>4, ValueTurn
    <3> DEFINE header == Insert(p.header, p.name, w)
    <3>2. /\ IsParser(v) /\ v.index = k + 2 /\ v.buffer = <<>> /\ v.name = p.name
          /\ v.method = p.method /\ v.uri = p.uri /\ v.protocol = p.protocol
          /\ v.header = header /\ v.body = p.body
      BY <3>1 DEF Has
    <3> HIDE DEF header
    <3>3. Has(Abort(v), "abort", k + 2, <<>>, p.name, p.method, p.uri, p.protocol, header,
              p.body)
      BY <3>2, Aborted
    <3>4. Has(Transform(v, "content", 2), "content", k + 4, <<>>, p.name, p.method, p.uri,
              p.protocol, header, p.body)
      <4>1. (k + 2) + 2 = k + 4
        OBVIOUS
      <4> QED BY <3>2, <4>1, Transformed
    <3>5. Has(Transform(v, "name", 0), "name", k + 2, <<>>, p.name, p.method, p.uri,
              p.protocol, header, p.body)
      <4>1. (k + 2) + 0 = k + 2
        OBVIOUS
      <4> QED BY <3>2, <4>1, Transformed
    <3> QED BY <1>3, <2>4, <3>1, <3>2, <3>3, <3>4, <3>5 DEF header, ValueRead
  <2> QED BY <2>3, <2>4
<1> QED BY <1>0, <1>1, <1>2, <1>3

-----------------------------------------------------------------------------
(* The lines of a request, and the places where their words begin. *)

AreLines(r, n, lines) ==
    lines = [i \in 0..n |-> IF i = 0 THEN RequestLine(r)
                            ELSE lines[i - 1] \o HeaderLine(r.headers[i])]

LEMMA LinesExist ==
    ASSUME NEW r, NEW k \in Nat
    PROVE  \E lines : AreLines(r, k, lines)
<1> DEFINE S == {n \in Nat : \E lines : AreLines(r, n, lines)}
<1>1. 0 \in S
  <2>1. AreLines(r, 0, [i \in 0..0 |-> RequestLine(r)])
    BY DEF AreLines
  <2> QED BY <2>1
<1>2. ASSUME NEW n \in 0..(k - 1), n \in S PROVE n + 1 \in S
  <2>1. PICK lines : AreLines(r, n, lines)
    BY <1>2
  <2> DEFINE Line(f, i) == f[i - 1] \o HeaderLine(r.headers[i])
             last == Line(lines, n + 1)
             more == [i \in 0..(n + 1) |-> IF i <= n THEN lines[i] ELSE last]
  <2>2. \A i \in 0..(n + 1) : more[i] = IF i = 0 THEN RequestLine(r) ELSE Line(more, i)
    <3> TAKE i \in 0..(n + 1)
    <3>1. CASE i = 0
      BY <3>1, <2>1 DEF AreLines
    <3>2. CASE i # 0 /\ i <= n
      <4>1. more[i] = lines[i] /\ more[i - 1] = lines[i - 1]
        BY <3>2
      <4>2. lines[i] = Line(lines, i)
        BY <3>2, <2>1 DEF AreLines
      <4> QED BY <3>2, <4>1, <4>2
    <3>3. CASE i = n + 1
      <4>1. more[i] = last /\ more[i - 1] = lines[i - 1] /\ i # 0
        BY <3>3
      <4> QED BY <3>3, <4>1
    <3> QED BY <3>1, <3>2, <3>3
  <2>3. more = [i \in 0..(n + 1) |-> IF i = 0 THEN RequestLine(r) ELSE Line(more, i)]
    <3> HIDE DEF Line, last
    <3> QED BY <2>2
  <2>4. AreLines(r, n + 1, more)
    <3> HIDE DEF more
    <3> QED BY <2>3 DEF AreLines
  <2> HIDE DEF more
  <2> QED BY <2>4
<1> HIDE DEF S
<1>3. k \in S
  BY <1>1, <1>2, Induction
<1> QED BY <1>3 DEF S

LEMMA LinesAgree ==
    ASSUME NEW r, NEW k \in Nat, NEW n \in Nat, k <= n,
           NEW f, AreLines(r, k, f), NEW g, AreLines(r, n, g)
    PROVE  f[k] = g[k]
<1> DEFINE S == {i \in Nat : i <= k => f[i] = g[i]}
<1>1. 0 \in S
  BY DEF AreLines
<1>2. ASSUME NEW i \in 0..(k - 1), i \in S PROVE i + 1 \in S
  <2> DEFINE j == i + 1
  <2>1. j \in 0..k /\ j \in 0..n /\ j # 0 /\ j - 1 = i /\ f[i] = g[i]
    BY <1>2
  <2> HIDE DEF j
  <2>2. f[j] = f[j - 1] \o HeaderLine(r.headers[j])
    BY <2>1 DEF AreLines
  <2>3. g[j] = g[j - 1] \o HeaderLine(r.headers[j])
    BY <2>1 DEF AreLines
  <2>4. f[j - 1] = g[j - 1]
    BY <2>1
  <2>5. f[j] = g[j]
    BY <2>2, <2>3, <2>4
  <2> QED BY <2>5 DEF j
<1> HIDE DEF S
<1>3. k \in S
  BY <1>1, <1>2, Induction
<1> QED BY <1>3 DEF S

\* HeadOf, line by line.
LEMMA Heads ==
    ASSUME NEW r, NEW n \in Nat
    PROVE  /\ HeadOf(r, 0) = RequestLine(r)
           /\ HeadOf(r, n + 1) = HeadOf(r, n) \o HeaderLine(r.headers[n + 1])
<1>1. ASSUME NEW k \in Nat
      PROVE  \E lines : AreLines(r, k, lines) /\ HeadOf(r, k) = lines[k]
  <2> DEFINE lines == CHOOSE lines : AreLines(r, k, lines)
  <2>1. HeadOf(r, k) = lines[k]
    BY DEF HeadOf, AreLines
  <2>2. AreLines(r, k, lines)
    BY LinesExist
  <2> HIDE DEF lines
  <2> QED BY <2>1, <2>2
<1>2. HeadOf(r, 0) = RequestLine(r)
  <2>1. PICK lines : AreLines(r, 0, lines) /\ HeadOf(r, 0) = lines[0]
    BY <1>1
  <2> QED BY <2>1 DEF AreLines
<1>3. HeadOf(r, n + 1) = HeadOf(r, n) \o HeaderLine(r.headers[n + 1])
  <2>1. PICK f : AreLines(r, n, f) /\ HeadOf(r, n) = f[n]
    BY <1>1
  <2>2. PICK g : AreLines(r, n + 1, g) /\ HeadOf(r, n + 1) = g[n + 1]
    BY <1>1
  <2>3. f[n] = g[n]
    BY <2>1, <2>2, LinesAgree
  <2>4. g[n + 1] = g[(n + 1) - 1] \o HeaderLine(r.headers[n + 1])
    BY <2>2 DEF AreLines
  <2>5. (n + 1) - 1 = n
    OBVIOUS
  <2> QED BY <2>1, <2>2, <2>3, <2>4, <2>5
<1> QED BY <1>2, <1>3

\* Where the lines of a request begin, and the words of its headers.
NameAt(r, i) == Len(HeadOf(r, i - 1))
ColonAt(r, i) == NameAt(r, i) + Len(r.headers[i].name)
ValueAt(r, i) == ColonAt(r, i) + 2
ReturnAt(r, i) == ValueAt(r, i) + Len(r.headers[i].value)
EmptyLineAt(r) == NameAt(r, Len(r.headers) + 1)
BodyAt(r) == EmptyLineAt(r) + 2

LEMMA HeadTypes ==
    ASSUME NEW r \in Requests
    PROVE  \A n \in 0..Len(r.headers) : HeadOf(r, n) \in Seq(Characters)
<1> DEFINE S == {n \in Nat : HeadOf(r, n) \in Seq(Characters)}
<1>1. Len(r.headers) \in Nat
  BY PartTypes
<1>2. 0 \in S
  <2>1. PICK m \in Seq(Characters) : m = r.method
    BY PartTypes
  <2>2. PICK u \in Seq(Characters) : u = r.uri
    BY PartTypes
  <2>3. PICK l \in Seq(Characters) : l = r.protocol
    BY PartTypes
  <2>4. <<>> \in Seq({})
    OBVIOUS
  <2>5. RequestLine(r) \in Seq(Characters)
    BY <2>1, <2>2, <2>3, <2>4, RequestLineWords
  <2>6. HeadOf(r, 0) = RequestLine(r)
    BY Heads
  <2> QED BY <2>5, <2>6
<1>3. ASSUME NEW n \in 0..(Len(r.headers) - 1), n \in S PROVE n + 1 \in S
  <2> DEFINE h == r.headers[n + 1]
  <2>1. n + 1 \in 1..Len(r.headers) /\ n \in Nat
    BY <1>1
  <2>2. PICK v \in Seq(Characters) : v = h.name
    BY <2>1, HeaderTypes
  <2>3. PICK w \in Seq(Characters) : w = h.value
    BY <2>1, HeaderTypes
  <2>4. <<>> \in Seq({})
    OBVIOUS
  <2> HIDE DEF h
  <2>5. HeaderLine(h) \in Seq(Characters)
    BY <2>2, <2>3, <2>4, HeaderWords
  <2>6. HeadOf(r, n + 1) = HeadOf(r, n) \o HeaderLine(h)
    BY <2>1, Heads DEF h
  <2>7. HeadOf(r, n) \in Seq(Characters)
    BY <1>3
  <2>8. HeadOf(r, n) \o HeaderLine(h) \in Seq(Characters)
    BY <2>5, <2>7, ConcatProperties
  <2>9. HeadOf(r, n + 1) \in Seq(Characters)
    BY <2>6, <2>8
  <2> QED BY <2>1, <2>9
<1> HIDE DEF S
<1>4. 0..Len(r.headers) \subseteq S
  BY <1>1, <1>2, <1>3, Induction
<1> QED BY <1>4 DEF S

\* The places follow each other.
LEMMA Places ==
    ASSUME NEW r \in Requests, NEW i \in 1..Len(r.headers)
    PROVE  /\ NameAt(r, i) \in Nat /\ ColonAt(r, i) \in Nat
           /\ ValueAt(r, i) \in Nat /\ ReturnAt(r, i) \in Nat /\ NameAt(r, i + 1) \in Nat
           /\ NameAt(r, i) <= ColonAt(r, i) /\ ValueAt(r, i) = ColonAt(r, i) + 2
           /\ ValueAt(r, i) <= ReturnAt(r, i) /\ NameAt(r, i + 1) = ReturnAt(r, i) + 2
<1>1. PICK v \in Seq(Characters) : v = r.headers[i].name
  BY HeaderTypes
<1>2. PICK w \in Seq(Characters) : w = r.headers[i].value
  BY HeaderTypes
<1>3. Len(r.headers) \in Nat
  BY PartTypes
<1>4. i - 1 \in 0..Len(r.headers) /\ i - 1 \in Nat /\ (i - 1) + 1 = i /\ (i + 1) - 1 = i
  BY <1>3
<1> DEFINE line == HeaderLine(r.headers[i])
<1>5. line \in Seq(Characters) /\ Len(line) = Len(v) + Len(w) + 4
  <2>1. <<>> \in Seq({})
    OBVIOUS
  <2> QED BY <1>1, <1>2, <2>1, HeaderWords
<1>6. PICK x \in Seq(Characters) : x = HeadOf(r, i - 1)
  BY <1>4, HeadTypes
<1> HIDE DEF line
<1>7. HeadOf(r, i) = x \o line
  <2>1. HeadOf(r, (i - 1) + 1) = HeadOf(r, i - 1) \o HeaderLine(r.headers[(i - 1) + 1])
    BY <1>4, Heads
  <2> QED BY <1>4, <1>6, <2>1 DEF line
<1>8. Len(x \o line) = Len(x) + Len(line)
  BY <1>5, <1>6, ConcatProperties
<1>9. Len(x) \in Nat /\ Len(v) \in Nat /\ Len(w) \in Nat
  OBVIOUS
<1>10. NameAt(r, i) = Len(x) /\ NameAt(r, i + 1) = Len(x) + (Len(v) + Len(w) + 4)
  BY <1>4, <1>5, <1>6, <1>7, <1>8 DEF NameAt
<1>11. ColonAt(r, i) = Len(x) + Len(v)
  BY <1>1, <1>10 DEF ColonAt
<1>12. ReturnAt(r, i) = (Len(x) + Len(v) + 2) + Len(w)
  BY <1>2, <1>11 DEF ReturnAt, ValueAt
<1> QED BY <1>9, <1>10, <1>11, <1>12 DEF ValueAt

LEMMA FirstPlace ==
    ASSUME NEW r \in Requests, NEW m \in Seq(Characters), NEW u \in Seq(Characters),
           NEW l \in Seq(Characters), r.method = m, r.uri = u, r.protocol = l
    PROVE  NameAt(r, 1) = ProtocolAt(m, u) + Len(l) + 2 /\ NameAt(r, 1) = Len(RequestLine(r))
<1>1. <<>> \in Seq({})
  OBVIOUS
<1>2. Len(RequestLine(r)) = ProtocolAt(m, u) + Len(l) + 2
  BY <1>1, RequestLineWords
<1>3. NameAt(r, 1) = Len(RequestLine(r))
  <2>1. 1 - 1 = 0
    OBVIOUS
  <2>2. HeadOf(r, 0) = RequestLine(r)
    BY Heads
  <2> QED BY <2>1, <2>2 DEF NameAt
<1> QED BY <1>2, <1>3

\* The words of a header, in the text.
HoldsHeader(t, r, i) ==
    /\ WordAt(t, NameAt(r, i), r.headers[i].name)
    /\ WordAt(t, ColonAt(r, i), <<COLON, SP>>)
    /\ WordAt(t, ValueAt(r, i), r.headers[i].value)
    /\ WordAt(t, ReturnAt(r, i), <<CR, LF>>)

\* As far as it goes, the text begins with the request, word by word.
HoldsRequest(t, r) ==
    /\ BeginsWithLine(t, r.method, r.uri)
    /\ WordAt(t, ProtocolAt(r.method, r.uri), r.protocol)
    /\ WordAt(t, ProtocolAt(r.method, r.uri) + Len(r.protocol), <<CR, LF>>)
    /\ \A i \in 1..Len(r.headers) : HoldsHeader(t, r, i)
    /\ WordAt(t, EmptyLineAt(r), <<CR, LF>>)
    /\ WordAt(t, BodyAt(r), r.body)

LEMMA HeaderHeld ==
    ASSUME NEW v \in Seq(Characters), NEW w \in Seq(Characters),
           NEW C, NEW t \in Seq(C), NEW a \in Nat,
           WordAt(t, a, v \o <<COLON, SP>> \o w \o <<CR, LF>>)
    PROVE  /\ WordAt(t, a, v)
           /\ WordAt(t, a + Len(v), <<COLON, SP>>)
           /\ WordAt(t, a + Len(v) + 2, w)
           /\ WordAt(t, a + Len(v) + 2 + Len(w), <<CR, LF>>)
<1> DEFINE h == [name |-> v, value |-> w]
<1>1. h.name = v /\ h.value = w
  OBVIOUS
<1>2. HeaderLine(h) = v \o <<COLON, SP>> \o w \o <<CR, LF>>
  BY <1>1 DEF HeaderLine
<1> HIDE DEF h
<1>3. WordAt(t, a, HeaderLine(h)) <=>
          /\ WordAt(t, a, v)
          /\ WordAt(t, a + Len(v), <<COLON, SP>>)
          /\ WordAt(t, a + Len(v) + 2, w)
          /\ WordAt(t, a + Len(v) + 2 + Len(w), <<CR, LF>>)
  BY <1>1, HeaderWords
<1> QED BY <1>2, <1>3

LEMMA RequestWords ==
    ASSUME NEW r \in Requests, NEW C, NEW t \in Seq(C), WordAt(t, 0, Request(r))
    PROVE  HoldsRequest(t, r)
<1> DEFINE N == Len(r.headers)
           e == <<CR, LF>>
<1>1. N \in Nat /\ N \in 0..N
  BY PartTypes
<1> HIDE DEF N
<1>2. PICK b \in Seq(Characters) : b = r.body
  BY PartTypes
<1>3. PICK x \in Seq(Characters) : x = HeadOf(r, N)
  BY <1>1, HeadTypes DEF N
<1>4. e \in Seq(Characters) /\ Len(e) = 2
  BY Separators
<1>5. Request(r) = (x \o e) \o b
  BY <1>2, <1>3 DEF Request, N
<1> HIDE DEF e
<1>6. x \o e \in Seq(Characters) /\ Len(x \o e) = Len(x) + 2
  <2>1. x \o e \in Seq(Characters) /\ Len(x \o e) = Len(x) + Len(e)
    BY <1>4, ConcatProperties
  <2> QED BY <1>4, <2>1
<1>7. EmptyLineAt(r) = Len(x) /\ BodyAt(r) = Len(x) + 2
  <2>1. (N + 1) - 1 = N
    BY <1>1
  <2> QED BY <1>3, <2>1 DEF EmptyLineAt, BodyAt, NameAt, N
<1>8. WordAt(t, 0, x \o e) /\ WordAt(t, 0 + Len(x \o e), b)
  <2> DEFINE y == x \o e
  <2>1. y \in Seq(Characters) /\ WordAt(t, 0, y \o b)
    BY <1>5, <1>6
  <2> HIDE DEF y
  <2>2. WordAt(t, 0, y \o b) <=> WordAt(t, 0, y) /\ WordAt(t, 0 + Len(y), b)
    BY <2>1, WordsInARow
  <2> QED BY <2>1, <2>2 DEF y
<1>9. WordAt(t, 0, x) /\ WordAt(t, 0 + Len(x), e)
  <2>1. WordAt(t, 0, x \o e) <=> WordAt(t, 0, x) /\ WordAt(t, 0 + Len(x), e)
    BY <1>4, WordsInARow
  <2> QED BY <1>8, <2>1
<1>10. 0 + Len(x) = Len(x) /\ 0 + Len(x \o e) = Len(x) + 2
  BY <1>6
<1>11. WordAt(t, EmptyLineAt(r), <<CR, LF>>) /\ WordAt(t, BodyAt(r), r.body)
  BY <1>2, <1>7, <1>8, <1>9, <1>10 DEF e
<1>12. ASSUME NEW i \in 1..N
       PROVE  /\ i - 1 \in 0..N /\ i \in 0..N /\ NameAt(r, i) = Len(HeadOf(r, i - 1))
              /\ HeadOf(r, i - 1) \in Seq(Characters)
              /\ HeaderLine(r.headers[i]) \in Seq(Characters)
              /\ WordAt(t, 0, HeadOf(r, i)) <=>
                    /\ WordAt(t, 0, HeadOf(r, i - 1))
                    /\ WordAt(t, NameAt(r, i), HeaderLine(r.headers[i]))
  <2>1. i - 1 \in 0..N /\ i \in 0..N /\ i - 1 \in Nat /\ (i - 1) + 1 = i
    BY <1>1
  <2>2. PICK y \in Seq(Characters) : y = HeadOf(r, i - 1)
    BY <2>1, HeadTypes DEF N
  <2>3. PICK v \in Seq(Characters) : v = r.headers[i].name
    BY HeaderTypes DEF N
  <2>4. PICK w \in Seq(Characters) : w = r.headers[i].value
    BY HeaderTypes DEF N
  <2>5. PICK line \in Seq(Characters) : line = HeaderLine(r.headers[i])
    BY <2>3, <2>4, HeaderWords
  <2>6. HeadOf(r, (i - 1) + 1) = HeadOf(r, i - 1) \o HeaderLine(r.headers[(i - 1) + 1])
    BY <2>1, Heads
  <2>7. HeadOf(r, i) = y \o line
    BY <2>1, <2>2, <2>5, <2>6
  <2>8. WordAt(t, 0, y \o line) <=> WordAt(t, 0, y) /\ WordAt(t, 0 + Len(y), line)
    BY WordsInARow
  <2>9. 0 + Len(y) = NameAt(r, i) /\ NameAt(r, i) = Len(HeadOf(r, i - 1))
    BY <2>2 DEF NameAt
  <2> QED BY <2>1, <2>2, <2>5, <2>7, <2>8, <2>9
<1> DEFINE S == {j \in Nat : j <= N => WordAt(t, 0, HeadOf(r, N - j))}
<1>13. 0..N \subseteq S
  <2>1. 0 \in S
    <3>1. N - 0 = N
      BY <1>1
    <3> QED BY <1>3, <1>9, <3>1
  <2>2. ASSUME NEW j \in 0..(N - 1), j \in S PROVE j + 1 \in S
    <3> DEFINE i == N - j
    <3>1. i \in 1..N /\ i - 1 = N - (j + 1) /\ j + 1 \in Nat /\ j <= N
      BY <1>1
    <3>2. WordAt(t, 0, HeadOf(r, i))
      BY <2>2, <3>1
    <3> HIDE DEF i
    <3>3. WordAt(t, 0, HeadOf(r, i - 1))
      BY <1>12, <3>1, <3>2
    <3> QED BY <3>1, <3>3
  <2> HIDE DEF S
  <2> QED BY <1>1, <2>1, <2>2, Induction
<1>14. ASSUME NEW i \in 0..N PROVE WordAt(t, 0, HeadOf(r, i))
  <2> DEFINE j == N - i
  <2>1. j \in 0..N /\ N - j = i /\ j <= N
    BY <1>1
  <2> HIDE DEF j
  <2> QED BY <1>13, <2>1
<1>15. ASSUME NEW i \in 1..N PROVE HoldsHeader(t, r, i)
  <2>1. PICK v \in Seq(Characters) : v = r.headers[i].name
    BY HeaderTypes DEF N
  <2>2. PICK w \in Seq(Characters) : w = r.headers[i].value
    BY HeaderTypes DEF N
  <2>3. WordAt(t, NameAt(r, i), HeaderLine(r.headers[i]))
    BY <1>12, <1>14
  <2>4. NameAt(r, i) \in Nat
    BY Places DEF N
  <2>5. PICK a \in Nat : a = NameAt(r, i)
    BY <2>4
  <2>6. HeaderLine(r.headers[i]) = v \o <<COLON, SP>> \o w \o <<CR, LF>>
    BY <2>1, <2>2 DEF HeaderLine
  <2>7. WordAt(t, a, v \o <<COLON, SP>> \o w \o <<CR, LF>>)
    BY <2>3, <2>5, <2>6
  <2>8. /\ WordAt(t, a, v)
        /\ WordAt(t, a + Len(v), <<COLON, SP>>)
        /\ WordAt(t, a + Len(v) + 2, w)
        /\ WordAt(t, a + Len(v) + 2 + Len(w), <<CR, LF>>)
    BY <2>7, HeaderHeld
  <2> QED BY <2>1, <2>2, <2>5, <2>8 DEF HoldsHeader, ColonAt, ValueAt, ReturnAt
<1>16. /\ BeginsWithLine(t, r.method, r.uri)
       /\ WordAt(t, ProtocolAt(r.method, r.uri), r.protocol)
       /\ WordAt(t, ProtocolAt(r.method, r.uri) + Len(r.protocol), <<CR, LF>>)
  <2>1. PICK m \in Seq(Characters) : m = r.method
    BY PartTypes
  <2>2. PICK u \in Seq(Characters) : u = r.uri
    BY PartTypes
  <2>3. PICK l \in Seq(Characters) : l = r.protocol
    BY PartTypes
  <2>4. WordAt(t, 0, RequestLine(r))
    <3>1. 0 \in 0..N
      BY <1>1
    <3>2. HeadOf(r, 0) = RequestLine(r)
      BY Heads
    <3> QED BY <1>14, <3>1, <3>2
  <2>5. /\ BeginsWithLine(t, m, u)
        /\ WordAt(t, ProtocolAt(m, u), l)
        /\ WordAt(t, ProtocolAt(m, u) + Len(l), <<CR, LF>>)
    BY <2>1, <2>2, <2>3, <2>4, RequestLineWords
  <2> QED BY <2>1, <2>2, <2>3, <2>5
<1> QED BY <1>11, <1>15, <1>16 DEF HoldsRequest, N

-----------------------------------------------------------------------------
(* The header map, header by header: the first value of a name stays. *)

NameOf(r, i) == r.headers[i].name
ValueOf(r, i) == r.headers[i].value

FirstWith(r, S, n) ==
    CHOOSE i \in S : /\ NameOf(r, i) = n
                     /\ \A j \in 1..(i - 1) : NameOf(r, j) # n

HeaderFrom(r, S) ==
    [n \in {NameOf(r, i) : i \in S} |-> ValueOf(r, FirstWith(r, S, n))]

LEMMA HeaderOfIs ==
    ASSUME NEW r, NEW k
    PROVE  HeaderOf(r, k) = HeaderFrom(r, Complete(r, k))
BY DEF HeaderOf, HeaderFrom, FirstWith, NameOf, ValueOf

LEMMA FirstIs ==
    ASSUME NEW r, NEW k \in Nat, NEW n, NEW j \in 1..k, NameOf(r, j) = n,
           \A i \in 1..(j - 1) : NameOf(r, i) # n
    PROVE  FirstWith(r, 1..k, n) = j
<1> DEFINE First(i) == /\ NameOf(r, i) = n
                       /\ \A x \in 1..(i - 1) : NameOf(r, x) # n
<1>1. FirstWith(r, 1..k, n) = CHOOSE i \in 1..k : First(i)
  BY DEF FirstWith
<1>2. j \in 1..k /\ First(j)
  OBVIOUS
<1>3. ASSUME NEW i \in 1..k, First(i) PROVE i = j
  BY <1>3, <1>2
<1> HIDE DEF First
<1> QED BY <1>1, <1>2, <1>3

LEMMA FirstExists ==
    ASSUME NEW r, NEW k \in Nat, NEW i \in 1..k
    PROVE  \E j \in 1..i : /\ NameOf(r, j) = NameOf(r, i)
                           /\ \A x \in 1..(j - 1) : NameOf(r, x) # NameOf(r, i)
<1> DEFINE S == {j \in 1..k : NameOf(r, j) = NameOf(r, i)}
<1>1. S \in SUBSET Nat /\ S # {} /\ i \in S
  OBVIOUS
<1> HIDE DEF S
<1>2. PICK j \in S : \A x \in S : j <= x
  BY <1>1, LeastNumber
<1>3. j \in 1..k /\ NameOf(r, j) = NameOf(r, i) /\ j <= i
  BY <1>1, <1>2 DEF S
<1>4. ASSUME NEW x \in 1..(j - 1), NameOf(r, x) = NameOf(r, i) PROVE FALSE
  <2>1. x \in 1..k /\ x < j
    BY <1>3
  <2>2. x \in S
    BY <1>4, <2>1 DEF S
  <2> QED BY <1>2, <1>3, <2>1, <2>2
<1>5. j \in 1..i
  BY <1>3
<1> QED BY <1>3, <1>4, <1>5

LEMMA HeaderGrows ==
    ASSUME NEW r, NEW i \in Nat, i # 0
    PROVE  HeaderFrom(r, 1..i) = Insert(HeaderFrom(r, 1..(i - 1)), NameOf(r, i), ValueOf(r, i))
<1> DEFINE Names(S) == {NameOf(r, j) : j \in S}
           f == HeaderFrom(r, 1..i)
           g == HeaderFrom(r, 1..(i - 1))
<1>1. i - 1 \in Nat /\ 1..i = (1..(i - 1)) \cup {i}
  OBVIOUS
<1>2. /\ f = [n \in Names(1..i) |-> ValueOf(r, FirstWith(r, 1..i, n))]
      /\ g = [n \in Names(1..(i - 1)) |-> ValueOf(r, FirstWith(r, 1..(i - 1), n))]
  BY DEF HeaderFrom
<1>3. Names(1..i) = Names(1..(i - 1)) \cup {NameOf(r, i)}
  BY <1>1
<1>4. ASSUME NEW j \in 1..(i - 1)
      PROVE  FirstWith(r, 1..i, NameOf(r, j)) = FirstWith(r, 1..(i - 1), NameOf(r, j))
  <2> DEFINE n == NameOf(r, j)
  <2>1. PICK x \in 1..j : /\ NameOf(r, x) = n
                          /\ \A y \in 1..(x - 1) : NameOf(r, y) # n
    BY <1>1, FirstExists
  <2>2. x \in 1..i /\ x \in 1..(i - 1)
    OBVIOUS
  <2> HIDE DEF n
  <2>3. FirstWith(r, 1..i, n) = x
    BY <2>1, <2>2, FirstIs
  <2>4. FirstWith(r, 1..(i - 1), n) = x
    BY <1>1, <2>1, <2>2, FirstIs
  <2> QED BY <2>3, <2>4 DEF n
<1>5. ASSUME NameOf(r, i) \notin Names(1..(i - 1))
      PROVE  FirstWith(r, 1..i, NameOf(r, i)) = i
  <2>1. \A y \in 1..(i - 1) : NameOf(r, y) # NameOf(r, i)
    BY <1>5
  <2>2. i \in 1..i
    BY <1>1
  <2> QED BY <2>1, <2>2, FirstIs
<1>6. DOMAIN g = Names(1..(i - 1))
  BY <1>2
<1>7. ASSUME NEW n \in Names(1..i)
      PROVE  f[n] = IF n \in DOMAIN g THEN g[n] ELSE ValueOf(r, i)
  <2>1. CASE n \in Names(1..(i - 1))
    <3>1. PICK j \in 1..(i - 1) : n = NameOf(r, j)
      BY <2>1
    <3> HIDE DEF Names, f, g
    <3> QED BY <1>2, <1>4, <1>6, <2>1, <3>1
  <2>2. CASE n \notin Names(1..(i - 1))
    <3>1. n = NameOf(r, i)
      BY <1>3, <2>2
    <3> HIDE DEF Names, f, g
    <3> QED BY <1>2, <1>5, <1>6, <2>2, <3>1
  <2> QED BY <2>1, <2>2
<1>8. f = [n \in Names(1..i) |-> IF n \in DOMAIN g THEN g[n] ELSE ValueOf(r, i)]
  <2> HIDE DEF Names, g
  <2>1. f = [n \in Names(1..i) |-> f[n]]
    BY <1>2
  <2> HIDE DEF f
  <2> QED BY <1>7, <2>1
<1> HIDE DEF Names, f, g
<1>9. f = Insert(g, NameOf(r, i), ValueOf(r, i))
  BY <1>3, <1>6, <1>8 DEF Insert
<1> QED BY <1>9 DEF f, g

-----------------------------------------------------------------------------
(* A text that begins with a request: where the parser is. *)

\* Everything up to the header i is decoded.
DecodedTo(p, r, i) ==
    Decoded(p, Found(r.method), r.uri, r.protocol, HeaderFrom(r, 1..i), <<>>)

AtMethod(t, r, k, p) ==
    /\ Reading(t, "method", 0, r.method, k, p)
    /\ Decoded(p, Undefined, <<>>, <<>>, <<>>, <<>>)

AtResource(t, r, k, p) ==
    /\ Reading(t, "resource", UriAt(r.method), r.uri, k, p)
    /\ Decoded(p, Found(r.method), <<>>, <<>>, <<>>, <<>>)

AtProtocol(t, r, k, p) ==
    /\ Reading(t, "protocol", ProtocolAt(r.method, r.uri), r.protocol, k, p)
    /\ Decoded(p, Found(r.method), r.uri, <<>>, <<>>, <<>>)

\* (The line before was not the end of the text, or the parser would have aborted.)
AtName(t, r, i, k, p) ==
    /\ Reading(t, "name", NameAt(r, i), NameOf(r, i), k, p)
    /\ i > 1 => NameAt(r, i) < Len(t)
    /\ DecodedTo(p, r, i - 1)

AtValue(t, r, i, k, p) ==
    /\ Reading(t, "value", ValueAt(r, i), ValueOf(r, i), k, p)
    /\ p.name = NameOf(r, i)
    /\ DecodedTo(p, r, i - 1)

AtBody(t, r, k, p) ==
    LET came == SubSeq(t, BodyAt(r) + 1, k)
    IN  /\ p.state = "content" /\ BodyAt(r) <= k
        /\ p.buffer = came
        /\ Decoded(p, Found(r.method), r.uri, r.protocol, HeaderFrom(r, 1..Len(r.headers)),
                   IF k = Len(t) /\ BodyAt(r) < k THEN came ELSE <<>>)

\* Without a header, all that follows the request line is taken for a name.
AtTail(r, k, p) ==
    /\ p.state = "name" /\ NameAt(r, 1) <= k
    /\ DecodedTo(p, r, 0)

AtPlace(t, r, k, p) ==
    \/ AtMethod(t, r, k, p)
    \/ AtResource(t, r, k, p)
    \/ AtProtocol(t, r, k, p)
    \/ \E i \in 1..Len(r.headers) : AtName(t, r, i, k, p) \/ AtValue(t, r, i, k, p)
    \/ Len(r.headers) > 0 /\ AtBody(t, r, k, p)
    \/ Len(r.headers) = 0 /\ AtTail(r, k, p)
    \/ p.state = "abort" /\ Len(t) \in AbortCuts(r)

\* Where the parser is in a text that begins with a request, at the place k.
InRequest(t, r, k, p) ==
    IsParser(p) /\ k \in 0..Len(t) /\ p.index = k /\ AtPlace(t, r, k, p)

MethodRead(t, a, w, e, k, p, q) ==
    \/ q = Push(p, t[k + 1], 1) /\ Reading(t, "method", a, w, k + 1, q)
    \/ /\ k = e
       /\ Has(q, "resource", k + 1, <<>>, p.name, Found(w), p.uri, p.protocol, p.header, p.body)

LEMMA ReadsMethod ==
    ASSUME NEW C, NEW t \in Seq(C), NEW w \in Seq(Characters), NEW a, NEW e,
           Ends(t, a, w, e, <<SP>>), \A i \in 1..Len(w) : w[i] # SP,
           NEW k \in 0..(Len(t) - 1), NEW p, Reading(t, "method", a, w, k, p)
    PROVE  MethodRead(t, a, w, e, k, p, Process(t, p))
<1>0. a \in Nat /\ e \in Nat /\ e = a + Len(w) /\ WordAt(t, a, w) /\ WordAt(t, e, <<SP>>)
  BY DEF Ends
<1>1. /\ IsParser(p) /\ p.state = "method" /\ p.index = k /\ a <= k /\ k <= e
      /\ k < e => k < a + Len(w)
      /\ k \in Nat /\ Len(t) \in Nat
  BY <1>0 DEF Reading
<1>2. CASE k < e
  <2>1. t[k + 1] # SP /\ Reading(t, "method", a, w, k + 1, Push(p, t[k + 1], 1))
    BY <1>0, <1>1, <1>2, InWord
  <2>2. Process(t, p) = Push(p, t[k + 1], 1)
    BY <1>1, <2>1, MethodTurn
  <2> QED BY <2>1, <2>2 DEF MethodRead
<1>3. CASE k = e
  <2>1. p.buffer = w
    BY <1>0, <1>3, InWord
  <2>2. t[k + 1] = SP
    <3>1. WordAt(t, e, <<SP>>) <=> (e + 1 <= Len(t) => t[e + 1] = SP)
      BY <1>0, <1>1, OneAndTwo
    <3>2. e + 1 <= Len(t)
      BY <1>1, <1>3
    <3> QED BY <1>0, <1>3, <3>1, <3>2
  <2> QED BY <1>1, <1>3, <2>1, <2>2, MethodTurn DEF MethodRead
<1> QED BY <1>0, <1>1, <1>2, <1>3

UriRead(t, a, w, e, k, p, q) ==
    \/ q = Push(p, t[k + 1], 1) /\ Reading(t, "resource", a, w, k + 1, q)
    \/ /\ k = e
       /\ Has(q, "protocol", k + 1, <<>>, p.name, p.method, w, p.protocol, p.header, p.body)

LEMMA ReadsUri ==
    ASSUME NEW C, NEW t \in Seq(C), NEW w \in Seq(Characters), NEW a, NEW e,
           Ends(t, a, w, e, <<SP>>), \A i \in 1..Len(w) : w[i] # SP,
           NEW k \in 0..(Len(t) - 1), NEW p, Reading(t, "resource", a, w, k, p)
    PROVE  UriRead(t, a, w, e, k, p, Process(t, p))
<1>0. a \in Nat /\ e \in Nat /\ e = a + Len(w) /\ WordAt(t, a, w) /\ WordAt(t, e, <<SP>>)
  BY DEF Ends
<1>1. /\ IsParser(p) /\ p.state = "resource" /\ p.index = k /\ a <= k /\ k <= e
      /\ k < e => k < a + Len(w)
      /\ k \in Nat /\ Len(t) \in Nat
  BY <1>0 DEF Reading
<1>2. CASE k < e
  <2>1. t[k + 1] # SP /\ Reading(t, "resource", a, w, k + 1, Push(p, t[k + 1], 1))
    BY <1>0, <1>1, <1>2, InWord
  <2>2. Process(t, p) = Push(p, t[k + 1], 1)
    BY <1>1, <2>1, ResourceTurn
  <2> QED BY <2>1, <2>2 DEF UriRead
<1>3. CASE k = e
  <2>1. p.buffer = w
    BY <1>0, <1>3, InWord
  <2>2. t[k + 1] = SP
    <3>1. WordAt(t, e, <<SP>>) <=> (e + 1 <= Len(t) => t[e + 1] = SP)
      BY <1>0, <1>1, OneAndTwo
    <3>2. e + 1 <= Len(t)
      BY <1>1, <1>3
    <3> QED BY <1>0, <1>3, <3>1, <3>2
  <2> QED BY <1>1, <1>3, <2>1, <2>2, ResourceTurn DEF UriRead
<1> QED BY <1>0, <1>1, <1>2, <1>3

\* AbortCuts, by the places of the words.
LEMMA AbortPlaces ==
    ASSUME NEW r \in Requests, NEW c
    PROVE  c \in AbortCuts(r) <=>
              \/ c = NameAt(r, 1) - 1
              \/ Len(r.headers) > 0 /\ c = EmptyLineAt(r) + 1
              \/ \E i \in 1..Len(r.headers) : \/ c = ColonAt(r, i) + 1
                                              \/ c = ReturnAt(r, i) + 1
                                              \/ c = NameAt(r, i + 1)
<1> DEFINE N == Len(r.headers)
<1>1. N \in Nat /\ DOMAIN r.headers = 1..N
  <2>1. r.headers \in Seq([name : Without({COLON, CR}), value : Without({CR})])
    <3>1. r \in [method : Without({SP}), uri : Without({SP}), protocol : Without({CR}),
                 headers : Seq([name : Without({COLON, CR}), value : Without({CR})]),
                 body : Seq(Characters)]
      BY RequestAssumption, Zenon
    <3> QED BY <3>1
  <2> QED BY <2>1
<1>2. PICK m \in Seq(Characters) : m = r.method
  BY PartTypes
<1>3. PICK u \in Seq(Characters) : u = r.uri
  BY PartTypes
<1>4. PICK l \in Seq(Characters) : l = r.protocol
  BY PartTypes
<1>5. Len(RequestLine(r)) = NameAt(r, 1)
  BY <1>2, <1>3, <1>4, FirstPlace
<1>6. ASSUME NEW i \in 1..N
      PROVE  /\ Len(HeadOf(r, i - 1) \o r.headers[i].name) + 1 = ColonAt(r, i) + 1
             /\ Len(HeadOf(r, i)) - 1 = ReturnAt(r, i) + 1
             /\ Len(HeadOf(r, i)) = NameAt(r, i + 1)
  <2>1. i - 1 \in 0..N /\ (i + 1) - 1 = i
    BY <1>1
  <2>2. PICK x \in Seq(Characters) : x = HeadOf(r, i - 1)
    BY <2>1, HeadTypes
  <2>3. PICK v \in Seq(Characters) : v = r.headers[i].name
    BY HeaderTypes
  <2>4. Len(x \o v) = Len(x) + Len(v)
    BY ConcatProperties
  <2>5. Len(HeadOf(r, i)) = NameAt(r, i + 1)
    BY <2>1 DEF NameAt
  <2>6. NameAt(r, i + 1) = ReturnAt(r, i) + 2 /\ ReturnAt(r, i) \in Nat
    BY Places
  <2>7. NameAt(r, i + 1) - 1 = ReturnAt(r, i) + 1
    BY <2>6
  <2> QED BY <2>2, <2>3, <2>4, <2>5, <2>7 DEF ColonAt, NameAt
<1>7. Len(HeadOf(r, N)) = EmptyLineAt(r)
  <2>1. (N + 1) - 1 = N
    BY <1>1
  <2> QED BY <2>1 DEF EmptyLineAt, NameAt
<1> HIDE DEF N
<1>8. AbortCuts(r) =
          {NameAt(r, 1) - 1}
          \cup {EmptyLineAt(r) + 1 : n \in {N} \ {0}}
          \cup UNION {{ColonAt(r, i) + 1, ReturnAt(r, i) + 1, NameAt(r, i + 1)} : i \in 1..N}
  <2>1. {Len(HeadOf(r, n)) + 1 : n \in {N} \ {0}} = {EmptyLineAt(r) + 1 : n \in {N} \ {0}}
    BY <1>7
  <2>2. UNION {{Len(HeadOf(r, i - 1) \o r.headers[i].name) + 1,
                Len(HeadOf(r, i)) - 1, Len(HeadOf(r, i))} : i \in 1..N}
        = UNION {{ColonAt(r, i) + 1, ReturnAt(r, i) + 1, NameAt(r, i + 1)} : i \in 1..N}
    BY <1>6
  <2> QED BY <1>1, <1>5, <2>1, <2>2 DEF AbortCuts, N
<1>9. c \in {EmptyLineAt(r) + 1 : n \in {N} \ {0}} <=> N > 0 /\ c = EmptyLineAt(r) + 1
  BY <1>1
<1> QED BY <1>8, <1>9 DEF N

LEMMA PushKeeps ==
    ASSUME NEW p, IsParser(p), NEW chr, NEW method, NEW uri, NEW protocol, NEW header, NEW body,
           Decoded(p, method, uri, protocol, header, body)
    PROVE  /\ Decoded(Push(p, chr, 1), method, uri, protocol, header, body)
           /\ IsParser(Push(p, chr, 1)) /\ Push(p, chr, 1).index = p.index + 1
           /\ Push(p, chr, 1).name = p.name
<1>1. Has(Push(p, chr, 1), p.state, p.index + 1, Append(p.buffer, chr), p.name,
          p.method, p.uri, p.protocol, p.header, p.body)
  BY Pushed
<1> HIDE DEF Push
<1> QED BY <1>1 DEF Has, Decoded

LEMMA EmptyHeader == \A r : HeaderFrom(r, 1..0) = <<>>
<1> TAKE r
<1>1. {NameOf(r, i) : i \in 1..0} = {}
  OBVIOUS
<1> QED BY <1>1 DEF HeaderFrom

LEMMA RequestLength ==
    ASSUME NEW r \in Requests, NEW b \in Seq(Characters), b = r.body
    PROVE  /\ EmptyLineAt(r) \in Nat /\ BodyAt(r) \in Nat /\ BodyAt(r) = EmptyLineAt(r) + 2
           /\ Len(Request(r)) = BodyAt(r) + Len(b)
           /\ Request(r) \in Seq(Characters)
<1> DEFINE N == Len(r.headers)
           e == <<CR, LF>>
<1>1. N \in Nat /\ N \in 0..N /\ (N + 1) - 1 = N
  BY PartTypes
<1>2. PICK x \in Seq(Characters) : x = HeadOf(r, N)
  BY <1>1, HeadTypes
<1>3. e \in Seq(Characters) /\ Len(e) = 2
  BY Separators
<1>4. Request(r) = (x \o e) \o b
  BY <1>2 DEF Request
<1> HIDE DEF e
<1> DEFINE y == x \o e
<1>5. y \in Seq(Characters) /\ Len(y) = Len(x) + 2
  <2>1. y \in Seq(Characters) /\ Len(y) = Len(x) + Len(e)
    BY <1>3, ConcatProperties
  <2> QED BY <1>3, <2>1
<1>6. EmptyLineAt(r) = Len(x) /\ BodyAt(r) = Len(x) + 2
  BY <1>1, <1>2 DEF EmptyLineAt, BodyAt, NameAt
<1>7. Request(r) = y \o b
  BY <1>4
<1> HIDE DEF y, N
<1>8. y \o b \in Seq(Characters) /\ Len(y \o b) = Len(y) + Len(b)
  BY <1>5, ConcatProperties
<1>9. Len(x) \in Nat
  OBVIOUS
<1>10. Len(Request(r)) = (Len(x) + 2) + Len(b) /\ Request(r) \in Seq(Characters)
  BY <1>5, <1>7, <1>8
<1>11. EmptyLineAt(r) \in Nat /\ BodyAt(r) \in Nat
  BY <1>6, <1>9
<1> QED BY <1>6, <1>10, <1>11

\* A header's line begins with no CR, which would be taken for the empty line.
LEMMA LineBegins ==
    ASSUME NEW r \in Requests, NEW C, NEW t \in Seq(C), HoldsRequest(t, r),
           NEW i \in 1..Len(r.headers), NameAt(r, i) + 1 <= Len(t)
    PROVE  t[NameAt(r, i) + 1] # CR
<1>1. PICK v \in Seq(Characters) : v = r.headers[i].name
  BY HeaderTypes
<1>2. \A j \in 1..Len(v) : v[j] # CR
  BY <1>1, RequestTypes
<1>3. PICK a \in Nat : a = NameAt(r, i)
  BY Places
<1>4. WordAt(t, a, v) /\ WordAt(t, a + Len(v), <<COLON, SP>>)
  BY <1>1, <1>3 DEF HoldsRequest, HoldsHeader, ColonAt
<1>5. Len(t) \in Nat /\ Len(v) \in Nat /\ a + 1 <= Len(t)
  BY <1>3
<1>6. CASE Len(v) = 0
  <2>1. a + Len(v) = a
    BY <1>6
  <2>2. WordAt(t, a, <<COLON, SP>>) <=> /\ a + 1 <= Len(t) => t[a + 1] = COLON
                                        /\ a + 2 <= Len(t) => t[a + 2] = SP
    BY <1>5, OneAndTwo
  <2>3. t[a + 1] = COLON
    BY <1>4, <1>5, <2>1, <2>2
  <2> QED BY <1>3, <2>3 DEF COLON, CR
<1>7. CASE Len(v) # 0
  <2>1. 1 \in 1..Len(v)
    BY <1>5, <1>7
  <2>2. t[a + 1] = v[1]
    BY <1>4, <1>5, <2>1 DEF WordAt
  <2> QED BY <1>2, <1>3, <2>1, <2>2
<1> QED BY <1>6, <1>7

\* Without a header there is no colon after the request line.
LEMMA TailHasNoColon ==
    ASSUME NEW r \in Requests, NEW C, NEW t \in Seq(C), HoldsRequest(t, r),
           Len(r.headers) = 0, Len(t) <= Len(Request(r)),
           NEW j \in Nat, NameAt(r, 1) < j, j <= Len(t)
    PROVE  t[j] # COLON
<1>1. PICK b \in Seq(Characters) : b = r.body
  BY PartTypes
<1>2. \A i \in 1..Len(b) : b[i] # COLON
  BY <1>1, RequestTypes
<1>3. NameAt(r, 1) = EmptyLineAt(r)
  BY DEF EmptyLineAt
<1>4. PICK a \in Nat : a = EmptyLineAt(r) /\ BodyAt(r) = a + 2
  BY <1>1, RequestLength
<1>5. Len(Request(r)) = BodyAt(r) + Len(b)
  BY <1>1, RequestLength
<1>6. a < j /\ j <= Len(t) /\ j <= a + 2 + Len(b) /\ Len(t) \in Nat /\ Len(b) \in Nat
  BY <1>3, <1>4, <1>5
<1>7. WordAt(t, a, <<CR, LF>>) /\ WordAt(t, a + 2, b)
  BY <1>1, <1>4 DEF HoldsRequest
<1>8. CASE j <= a + 2
  <2>1. WordAt(t, a, <<CR, LF>>) <=> /\ a + 1 <= Len(t) => t[a + 1] = CR
                                     /\ a + 2 <= Len(t) => t[a + 2] = LF
    BY <1>6, OneAndTwo
  <2>2. j = a + 1 \/ j = a + 2
    BY <1>6, <1>8
  <2>3. t[j] = CR \/ t[j] = LF
    BY <1>6, <1>7, <2>1, <2>2
  <2> QED BY <2>3 DEF CR, LF, COLON
<1>9. CASE ~(j <= a + 2)
  <2> DEFINE i == j - (a + 2)
  <2>1. i \in 1..Len(b) /\ (a + 2) + i = j
    BY <1>6, <1>9
  <2> HIDE DEF i
  <2>2. t[j] = b[i]
    BY <1>6, <1>7, <2>1 DEF WordAt
  <2> QED BY <1>2, <2>1, <2>2
<1> QED BY <1>8, <1>9

\* A turn leads from the place k to a later one, or aborts.
Moves(t, r, k, q) ==
    \E n \in Nat : InRequest(t, r, n, q) /\ (q.state # "abort" => n > k)

LEMMA FromMethod ==
    ASSUME NEW r \in Requests, NEW C, NEW t \in Seq(C), HoldsRequest(t, r),
           NEW k \in 0..(Len(t) - 1), NEW p, AtMethod(t, r, k, p)
    PROVE  Moves(t, r, k, Process(t, p))
<1>1. PICK m \in Seq(Characters) : m = r.method
  BY PartTypes
<1>2. PICK u \in Seq(Characters) : u = r.uri
  BY PartTypes
<1>3. /\ \A i \in 1..Len(m) : m[i] # SP
      /\ Len(m) \in Nat /\ Len(u) \in Nat /\ Len(t) \in Nat /\ k + 1 \in Nat /\ k + 1 \in 0..Len(t)
      /\ k + 1 > k
  BY <1>1, RequestTypes
<1>4. Ends(t, 0, m, Len(m), <<SP>>)
  <2>1. BeginsWithLine(t, m, u)
    BY <1>1, <1>2 DEF HoldsRequest
  <2>2. WordAt(t, Len(m), <<SP>>) <=> (UriAt(m) <= Len(t) => t[UriAt(m)] = SP)
    BY <1>3, OneAndTwo DEF UriAt
  <2>3. WordAt(t, 0, m) /\ WordAt(t, Len(m), <<SP>>)
    BY <1>3, <2>1, <2>2 DEF BeginsWithLine, WordAt
  <2> QED BY <1>3, <2>3 DEF Ends
<1>5. /\ Reading(t, "method", 0, m, k, p)
      /\ Decoded(p, Undefined, <<>>, <<>>, <<>>, <<>>)
  BY <1>1 DEF AtMethod
<1> DEFINE q == Process(t, p)
<1>6. \/ q = Push(p, t[k + 1], 1) /\ Reading(t, "method", 0, m, k + 1, q)
      \/ /\ k = Len(m)
         /\ Has(q, "resource", k + 1, <<>>, p.name, Found(m), p.uri, p.protocol,
                p.header, p.body)
  <2>1. MethodRead(t, 0, m, Len(m), k, p, Process(t, p))
    BY <1>3, <1>4, <1>5, ReadsMethod
  <2> QED BY <2>1 DEF MethodRead
<1> HIDE DEF q
<1>7. CASE q = Push(p, t[k + 1], 1) /\ Reading(t, "method", 0, m, k + 1, q)
  <2>1. IsParser(p)
    BY <1>5 DEF Reading
  <2>2. Decoded(q, Undefined, <<>>, <<>>, <<>>, <<>>)
    BY <1>5, <1>7, <2>1, PushKeeps
  <2>3. AtMethod(t, r, k + 1, q)
    BY <1>1, <1>7, <2>2 DEF AtMethod
  <2>4. InRequest(t, r, k + 1, q)
    BY <1>3, <1>7, <2>3 DEF InRequest, AtPlace, Reading
  <2> QED BY <1>3, <2>4 DEF Moves, q
<1>8. CASE /\ k = Len(m)
           /\ Has(q, "resource", k + 1, <<>>, p.name, Found(m), p.uri, p.protocol,
                  p.header, p.body)
  <2>1. Reading(t, "resource", k + 1, u, k + 1, q)
    BY <1>3, <1>8, StartsReading DEF Has
  <2>2. k + 1 = UriAt(m)
    BY <1>8 DEF UriAt
  <2>3. Decoded(q, Found(m), <<>>, <<>>, <<>>, <<>>)
    BY <1>5, <1>8 DEF Decoded, Has
  <2>4. AtResource(t, r, k + 1, q)
    BY <1>1, <1>2, <2>1, <2>2, <2>3 DEF AtResource
  <2>5. InRequest(t, r, k + 1, q)
    BY <1>3, <2>1, <2>4 DEF InRequest, AtPlace, Reading
  <2> QED BY <1>3, <2>5 DEF Moves, q
<1> QED BY <1>6, <1>7, <1>8

LEMMA FromResource ==
    ASSUME NEW r \in Requests, NEW C, NEW t \in Seq(C), HoldsRequest(t, r),
           NEW k \in 0..(Len(t) - 1), NEW p, AtResource(t, r, k, p)
    PROVE  Moves(t, r, k, Process(t, p))
<1>1. PICK m \in Seq(Characters) : m = r.method
  BY PartTypes
<1>2. PICK u \in Seq(Characters) : u = r.uri
  BY PartTypes
<1>3. PICK l \in Seq(Characters) : l = r.protocol
  BY PartTypes
<1>4. /\ \A i \in 1..Len(u) : u[i] # SP
      /\ Len(m) \in Nat /\ Len(u) \in Nat /\ Len(t) \in Nat /\ k + 1 \in Nat /\ k + 1 \in 0..Len(t)
      /\ k + 1 > k
  BY <1>2, RequestTypes
<1>5. PICK a \in Nat : a = UriAt(m)
  BY <1>4 DEF UriAt
<1>6. PICK e \in Nat : e = a + Len(u)
  BY <1>4, <1>5
<1>7. ProtocolAt(m, u) = e + 1
  BY <1>4, <1>5, <1>6 DEF ProtocolAt, UriAt
<1>8. Ends(t, a, u, e, <<SP>>)
  <2>1. BeginsWithLine(t, m, u)
    BY <1>1, <1>2 DEF HoldsRequest
  <2>2. WordAt(t, e, <<SP>>) <=> (e + 1 <= Len(t) => t[e + 1] = SP)
    BY <1>4, OneAndTwo
  <2>3. WordAt(t, a, u) /\ WordAt(t, e, <<SP>>)
    BY <1>5, <1>7, <2>1, <2>2 DEF BeginsWithLine, WordAt
  <2> QED BY <1>6, <2>3 DEF Ends
<1>9. /\ Reading(t, "resource", a, u, k, p)
      /\ Decoded(p, Found(m), <<>>, <<>>, <<>>, <<>>)
  BY <1>1, <1>2, <1>5 DEF AtResource
<1> DEFINE q == Process(t, p)
<1>10. \/ q = Push(p, t[k + 1], 1) /\ Reading(t, "resource", a, u, k + 1, q)
       \/ /\ k = e
          /\ Has(q, "protocol", k + 1, <<>>, p.name, p.method, u, p.protocol,
                 p.header, p.body)
  <2>1. UriRead(t, a, u, e, k, p, Process(t, p))
    BY <1>4, <1>6, <1>8, <1>9, ReadsUri
  <2> QED BY <2>1 DEF UriRead
<1> HIDE DEF q
<1>11. CASE q = Push(p, t[k + 1], 1) /\ Reading(t, "resource", a, u, k + 1, q)
  <2>1. IsParser(p)
    BY <1>9 DEF Reading
  <2>2. Decoded(q, Found(m), <<>>, <<>>, <<>>, <<>>)
    BY <1>9, <1>11, <2>1, PushKeeps
  <2>3. AtResource(t, r, k + 1, q)
    BY <1>1, <1>2, <1>5, <1>11, <2>2 DEF AtResource
  <2>4. InRequest(t, r, k + 1, q)
    BY <1>4, <1>11, <2>3 DEF InRequest, AtPlace, Reading
  <2> QED BY <1>4, <2>4 DEF Moves, q
<1>12. CASE /\ k = e
            /\ Has(q, "protocol", k + 1, <<>>, p.name, p.method, u, p.protocol,
                   p.header, p.body)
  <2>1. Reading(t, "protocol", k + 1, l, k + 1, q)
    BY <1>4, <1>12, StartsReading DEF Has
  <2>2. Decoded(q, Found(m), u, <<>>, <<>>, <<>>)
    BY <1>9, <1>12 DEF Decoded, Has
  <2>3. AtProtocol(t, r, k + 1, q)
    BY <1>1, <1>2, <1>3, <1>7, <1>12, <2>1, <2>2 DEF AtProtocol
  <2>4. InRequest(t, r, k + 1, q)
    BY <1>4, <2>1, <2>3 DEF InRequest, AtPlace, Reading
  <2> QED BY <1>4, <2>4 DEF Moves, q
<1> QED BY <1>10, <1>11, <1>12

LEMMA FromProtocol ==
    ASSUME NEW r \in Requests, NEW C, NEW t \in Seq(C), HoldsRequest(t, r),
           NEW k \in 0..(Len(t) - 1), NEW p, AtProtocol(t, r, k, p)
    PROVE  Moves(t, r, k, Process(t, p))
<1>1. PICK m \in Seq(Characters) : m = r.method
  BY PartTypes
<1>2. PICK u \in Seq(Characters) : u = r.uri
  BY PartTypes
<1>3. PICK l \in Seq(Characters) : l = r.protocol
  BY PartTypes
<1>4. /\ \A i \in 1..Len(l) : l[i] # CR
      /\ Len(m) \in Nat /\ Len(u) \in Nat /\ Len(l) \in Nat /\ Len(t) \in Nat
      /\ k + 1 \in Nat /\ k + 1 \in 0..Len(t) /\ k + 1 > k /\ k \in Nat
  BY <1>3, RequestTypes
<1>5. PICK a \in Nat : a = ProtocolAt(m, u)
  BY <1>4 DEF ProtocolAt
<1>6. PICK e \in Nat : e = a + Len(l)
  BY <1>4, <1>5
<1>7. NameAt(r, 1) = e + 2
  BY <1>1, <1>2, <1>3, <1>5, <1>6, FirstPlace
<1>8. Ends(t, a, l, e, <<CR, LF>>)
  <2>1. WordAt(t, a, l) /\ WordAt(t, e, <<CR, LF>>)
    BY <1>1, <1>2, <1>3, <1>5, <1>6 DEF HoldsRequest
  <2> QED BY <1>6, <2>1 DEF Ends
<1>9. /\ Reading(t, "protocol", a, l, k, p)
      /\ Decoded(p, Found(m), u, <<>>, <<>>, <<>>)
  BY <1>1, <1>2, <1>3, <1>5 DEF AtProtocol
<1> DEFINE q == Process(t, p)
<1>10. \/ q = Push(p, t[k + 1], 1) /\ Reading(t, "protocol", a, l, k + 1, q)
       \/ k = e /\ k + 1 = Len(t) /\ q = Abort(p)
       \/ /\ k = e /\ k + 2 <= Len(t)
          /\ Has(q, "name", k + 2, <<>>, p.name, p.method, p.uri, l, p.header, p.body)
  <2>1. ProtocolRead(t, a, l, e, k, p, Process(t, p))
    BY <1>4, <1>6, <1>8, <1>9, ReadsProtocol
  <2> QED BY <2>1 DEF ProtocolRead
<1> HIDE DEF q
<1>11. IsParser(p) /\ p.index = k
  BY <1>9 DEF Reading
<1>12. CASE q = Push(p, t[k + 1], 1) /\ Reading(t, "protocol", a, l, k + 1, q)
  <2>1. Decoded(q, Found(m), u, <<>>, <<>>, <<>>)
    BY <1>9, <1>11, <1>12, PushKeeps
  <2>2. AtProtocol(t, r, k + 1, q)
    BY <1>1, <1>2, <1>3, <1>5, <1>12, <2>1 DEF AtProtocol
  <2>3. InRequest(t, r, k + 1, q)
    BY <1>4, <1>12, <2>2 DEF InRequest, AtPlace, Reading
  <2> QED BY <1>4, <2>3 DEF Moves, q
<1>13. CASE k = e /\ k + 1 = Len(t) /\ q = Abort(p)
  <2>1. IsParser(q) /\ q.state = "abort" /\ q.index = k
    BY <1>11, <1>13, Aborted DEF Has
  <2>2. Len(t) = NameAt(r, 1) - 1
    BY <1>4, <1>7, <1>13
  <2>3. Len(t) \in AbortCuts(r)
    BY <2>2, AbortPlaces
  <2>4. InRequest(t, r, k, q)
    BY <1>4, <2>1, <2>3 DEF InRequest, AtPlace
  <2> QED BY <1>4, <2>1, <2>4 DEF Moves, q
<1>14. CASE /\ k = e /\ k + 2 <= Len(t)
            /\ Has(q, "name", k + 2, <<>>, p.name, p.method, p.uri, l, p.header, p.body)
  <2>1. IsParser(q) /\ q.state = "name" /\ q.index = k + 2 /\ q.buffer = <<>>
    BY <1>14 DEF Has
  <2>2. DecodedTo(q, r, 0)
    BY <1>1, <1>2, <1>3, <1>9, <1>14, EmptyHeader DEF DecodedTo, Decoded, Has
  <2>3. k + 2 \in 0..Len(t) /\ k + 2 \in Nat /\ k + 2 > k /\ k + 2 = NameAt(r, 1)
    BY <1>4, <1>7, <1>14
  <2>4. CASE Len(r.headers) = 0
    <3>1. AtTail(r, k + 2, q)
      BY <2>1, <2>2, <2>3 DEF AtTail
    <3>2. InRequest(t, r, k + 2, q)
      BY <2>1, <2>3, <2>4, <3>1 DEF InRequest, AtPlace
    <3> QED BY <2>3, <3>2 DEF Moves, q
  <2>5. CASE Len(r.headers) # 0
    <3>1. 1 \in 1..Len(r.headers)
      BY <2>5, PartTypes
    <3>2. PICK v \in Seq(Characters) : v = NameOf(r, 1)
      BY <3>1, HeaderTypes DEF NameOf
    <3>3. Reading(t, "name", k + 2, v, k + 2, q)
      BY <2>1, <2>3, StartsReading
    <3>4. AtName(t, r, 1, k + 2, q)
      BY <2>2, <2>3, <3>2, <3>3 DEF AtName
    <3>5. InRequest(t, r, k + 2, q)
      BY <2>1, <2>3, <3>1, <3>4 DEF InRequest, AtPlace
    <3> QED BY <2>3, <3>5 DEF Moves, q
  <2> QED BY <2>4, <2>5
<1> QED BY <1>10, <1>12, <1>13, <1>14

LEMMA FromName ==
    ASSUME NEW r \in Requests, NEW C, NEW t \in Seq(C), HoldsRequest(t, r),
           NEW k \in 0..(Len(t) - 1), NEW i \in 1..Len(r.headers), NEW p, AtName(t, r, i, k, p)
    PROVE  Moves(t, r, k, Process(t, p))
<1>1. PICK v \in Seq(Characters) : v = NameOf(r, i)
  BY HeaderTypes DEF NameOf
<1>2. PICK w \in Seq(Characters) : w = ValueOf(r, i)
  BY HeaderTypes DEF ValueOf
<1>3. \A j \in 1..Len(v) : v[j] # COLON
  BY <1>1, RequestTypes DEF NameOf
<1>4. Len(t) \in Nat /\ k \in Nat /\ k + 1 \in Nat /\ k + 1 \in 0..Len(t) /\ k + 1 > k
  OBVIOUS
<1>5. PICK a \in Nat : a = NameAt(r, i)
  BY Places
<1>6. PICK e \in Nat : e = ColonAt(r, i)
  BY Places
<1>7. Ends(t, a, v, e, <<COLON, SP>>)
  <2>1. WordAt(t, a, v) /\ WordAt(t, e, <<COLON, SP>>)
    BY <1>1, <1>5, <1>6 DEF HoldsRequest, HoldsHeader, NameOf
  <2>2. e = a + Len(v)
    BY <1>1, <1>5, <1>6 DEF ColonAt, NameOf
  <2> QED BY <2>1, <2>2 DEF Ends
<1>8. Reading(t, "name", a, v, k, p) /\ (i > 1 => a < Len(t)) /\ DecodedTo(p, r, i - 1)
  BY <1>1, <1>5 DEF AtName
<1>9. IsParser(p) /\ p.index = k
  BY <1>8 DEF Reading
<1> DEFINE q == Process(t, p)
<1>10. NameRead(t, a, v, e, k, p, q)
  BY <1>3, <1>7, <1>8, ReadsName
<1> HIDE DEF q
<1>11. \/ q = Push(p, t[k + 1], 1) /\ Reading(t, "name", a, v, k + 1, q)
       \/ k = e /\ k + 1 = Len(t) /\ q = Abort(p)
       \/ /\ k = e /\ k + 2 <= Len(t)
          /\ Has(q, "value", k + 2, <<>>, v, p.method, p.uri, p.protocol, p.header, p.body)
  BY <1>10 DEF NameRead
<1>12. CASE q = Push(p, t[k + 1], 1) /\ Reading(t, "name", a, v, k + 1, q)
  <2>1. DecodedTo(q, r, i - 1)
    BY <1>8, <1>9, <1>12, PushKeeps DEF DecodedTo
  <2>2. AtName(t, r, i, k + 1, q)
    BY <1>1, <1>5, <1>8, <1>12, <2>1 DEF AtName
  <2>3. InRequest(t, r, k + 1, q)
    BY <1>4, <1>12, <2>2 DEF InRequest, AtPlace, Reading
  <2> QED BY <1>4, <2>3 DEF Moves, q
<1>13. CASE k = e /\ k + 1 = Len(t) /\ q = Abort(p)
  <2>1. IsParser(q) /\ q.state = "abort" /\ q.index = k
    BY <1>9, <1>13, Aborted DEF Has
  <2>2. Len(t) \in AbortCuts(r)
    BY <1>6, <1>13, AbortPlaces
  <2>3. InRequest(t, r, k, q)
    BY <1>4, <2>1, <2>2 DEF InRequest, AtPlace
  <2> QED BY <1>4, <2>1, <2>3 DEF Moves, q
<1>14. CASE /\ k = e /\ k + 2 <= Len(t)
            /\ Has(q, "value", k + 2, <<>>, v, p.method, p.uri, p.protocol, p.header, p.body)
  <2>1. IsParser(q) /\ q.state = "value" /\ q.index = k + 2 /\ q.buffer = <<>> /\ q.name = v
    BY <1>14 DEF Has
  <2>2. DecodedTo(q, r, i - 1)
    BY <1>8, <1>14 DEF DecodedTo, Decoded, Has
  <2>3. k + 2 \in 0..Len(t) /\ k + 2 \in Nat /\ k + 2 > k
    BY <1>4, <1>14
  <2>4. k + 2 = ValueAt(r, i)
    BY <1>6, <1>14 DEF ValueAt
  <2>5. Reading(t, "value", k + 2, w, k + 2, q)
    BY <2>1, <2>3, StartsReading
  <2>6. AtValue(t, r, i, k + 2, q)
    BY <1>1, <1>2, <2>1, <2>2, <2>4, <2>5 DEF AtValue
  <2>7. InRequest(t, r, k + 2, q)
    BY <2>1, <2>3, <2>6 DEF InRequest, AtPlace
  <2> QED BY <2>3, <2>7 DEF Moves, q
<1> QED BY <1>11, <1>12, <1>13, <1>14

\* At the end of the line of the header i: the empty line follows the last header,
\* and only the last.
LEMMA AfterHeader ==
    ASSUME NEW r \in Requests, NEW C, NEW t \in Seq(C), HoldsRequest(t, r),
           NEW i \in 1..Len(r.headers), NEW k \in Nat, k = NameAt(r, i + 1), k <= Len(t)
    PROVE  /\ ~Peeks(t, k) => Len(t) \in AbortCuts(r)
           /\ Peeks(t, k) => (EmptyLine(t, k) <=> i = Len(r.headers))
<1> DEFINE N == Len(r.headers)
<1>1. N \in Nat
  BY PartTypes
<1>2. Len(t) \in Nat /\ k + 1 \in Nat
  OBVIOUS
<1>3. CASE i = N
  <2>1. k = EmptyLineAt(r)
    BY <1>3 DEF EmptyLineAt
  <2>2. WordAt(t, k, <<CR, LF>>)
    BY <2>1 DEF HoldsRequest
  <2>3. WordAt(t, k, <<CR, LF>>) <=> /\ k + 1 <= Len(t) => t[k + 1] = CR
                                     /\ k + 2 <= Len(t) => t[k + 2] = LF
    BY <1>2, OneAndTwo
  <2>4. /\ k + 1 <= Len(t) => t[k + 1] = CR
        /\ k + 2 <= Len(t) => t[k + 2] = LF
    BY <2>2, <2>3
  <2>5. ASSUME ~Peeks(t, k) PROVE Len(t) \in AbortCuts(r)
    <3>1. Len(t) = k \/ Len(t) = k + 1
      BY <1>2, <2>5 DEF Peeks
    <3>2. N > 0
      BY <1>1, <1>3
    <3> QED BY <2>1, <3>1, <3>2, AbortPlaces
  <2>6. ASSUME Peeks(t, k) PROVE EmptyLine(t, k)
    <3>1. k + 1 <= Len(t) /\ k + 1 # Len(t)
      BY <2>4, <2>6 DEF Peeks
    <3>2. k + 2 <= Len(t)
      BY <1>2, <3>1
    <3> QED BY <2>4, <3>1, <3>2 DEF EmptyLine
  <2> QED BY <1>3, <2>5, <2>6
<1>4. CASE i # N
  <2>1. i + 1 \in 1..N
    BY <1>1, <1>4
  <2>2. k + 1 <= Len(t) => t[k + 1] # CR
    BY <2>1, LineBegins
  <2>3. ASSUME ~Peeks(t, k) PROVE Len(t) \in AbortCuts(r)
    <3>1. Len(t) = k
      BY <1>2, <2>2, <2>3 DEF Peeks
    <3> QED BY <3>1, AbortPlaces
  <2>4. Peeks(t, k) => ~EmptyLine(t, k)
    BY <2>2 DEF Peeks, EmptyLine
  <2> QED BY <1>4, <2>3, <2>4
<1> QED BY <1>3, <1>4

LEMMA FromValue ==
    ASSUME NEW r \in Requests, NEW C, NEW t \in Seq(C), HoldsRequest(t, r),
           NEW k \in 0..(Len(t) - 1), NEW i \in 1..Len(r.headers), NEW p, AtValue(t, r, i, k, p)
    PROVE  Moves(t, r, k, Process(t, p))
<1>1. PICK v \in Seq(Characters) : v = NameOf(r, i)
  BY HeaderTypes DEF NameOf
<1>2. PICK w \in Seq(Characters) : w = ValueOf(r, i)
  BY HeaderTypes DEF ValueOf
<1>3. \A j \in 1..Len(w) : w[j] # CR
  BY <1>2, RequestTypes DEF ValueOf
<1>4. Len(t) \in Nat /\ k \in Nat /\ k + 1 \in Nat /\ k + 1 \in 0..Len(t) /\ k + 1 > k
  OBVIOUS
<1>5. PICK a \in Nat : a = ValueAt(r, i)
  BY Places
<1>6. PICK e \in Nat : e = ReturnAt(r, i) /\ NameAt(r, i + 1) = e + 2
  BY Places
<1>7. Ends(t, a, w, e, <<CR, LF>>)
  <2>1. WordAt(t, a, w) /\ WordAt(t, e, <<CR, LF>>)
    BY <1>2, <1>5, <1>6 DEF HoldsRequest, HoldsHeader, ValueOf
  <2>2. e = a + Len(w)
    BY <1>2, <1>5, <1>6 DEF ReturnAt, ValueOf
  <2> QED BY <2>1, <2>2 DEF Ends
<1>8. Reading(t, "value", a, w, k, p) /\ p.name = v /\ DecodedTo(p, r, i - 1)
  BY <1>1, <1>2, <1>5 DEF AtValue
<1>9. IsParser(p) /\ p.index = k
  BY <1>8 DEF Reading
<1> DEFINE q == Process(t, p)
           header == Insert(p.header, p.name, w)
           Leaves(state, n) == Has(q, state, n, <<>>, p.name, p.method, p.uri, p.protocol,
                                   header, p.body)
<1>10. ValueRead(t, a, w, e, k, p, q)
  BY <1>3, <1>7, <1>8, ReadsValue
<1>11. header = HeaderFrom(r, 1..i)
  <2>1. p.header = HeaderFrom(r, 1..(i - 1))
    BY <1>8 DEF DecodedTo, Decoded
  <2>2. i \in Nat /\ i # 0
    OBVIOUS
  <2> QED BY <1>1, <1>2, <1>8, <2>1, <2>2, HeaderGrows
<1> HIDE DEF q
<1>12. \/ q = Push(p, t[k + 1], 1) /\ Reading(t, "value", a, w, k + 1, q)
       \/ k = e /\ k + 1 = Len(t) /\ q = Abort(p)
       \/ k = e /\ k + 2 <= Len(t) /\ ~Peeks(t, k + 2) /\ Leaves("abort", k + 2)
       \/ /\ k = e /\ k + 2 <= Len(t)
          /\ Peeks(t, k + 2) /\ EmptyLine(t, k + 2) /\ Leaves("content", k + 4)
       \/ /\ k = e /\ k + 2 <= Len(t)
          /\ Peeks(t, k + 2) /\ ~EmptyLine(t, k + 2) /\ Leaves("name", k + 2)
  BY <1>10 DEF ValueRead
<1>13. ASSUME k = e, k + 2 <= Len(t)
       PROVE  /\ k + 2 \in Nat /\ k + 2 \in 0..Len(t) /\ k + 2 > k /\ k + 2 = NameAt(r, i + 1)
              /\ ~Peeks(t, k + 2) => Len(t) \in AbortCuts(r)
              /\ Peeks(t, k + 2) => (EmptyLine(t, k + 2) <=> i = Len(r.headers))
  <2>1. k + 2 \in Nat /\ k + 2 \in 0..Len(t) /\ k + 2 > k /\ k + 2 = NameAt(r, i + 1)
    BY <1>4, <1>6, <1>13
  <2> QED BY <1>13, <2>1, AfterHeader
<1>14. ASSUME NEW state, NEW n, Leaves(state, n)
       PROVE  /\ IsParser(q) /\ q.state = state /\ q.index = n /\ q.buffer = <<>>
              /\ DecodedTo(q, r, i)
  <2> HIDE DEF header
  <2> QED BY <1>8, <1>11, <1>14 DEF DecodedTo, Decoded, Has
<1> HIDE DEF Leaves, header
<1>15. CASE q = Push(p, t[k + 1], 1) /\ Reading(t, "value", a, w, k + 1, q)
  <2>1. DecodedTo(q, r, i - 1) /\ q.name = p.name
    BY <1>8, <1>9, <1>15, PushKeeps DEF DecodedTo
  <2>2. AtValue(t, r, i, k + 1, q)
    BY <1>1, <1>2, <1>5, <1>8, <1>15, <2>1 DEF AtValue
  <2>3. InRequest(t, r, k + 1, q)
    BY <1>4, <1>15, <2>2 DEF InRequest, AtPlace, Reading
  <2> QED BY <1>4, <2>3 DEF Moves, q
<1>16. CASE k = e /\ k + 1 = Len(t) /\ q = Abort(p)
  <2>1. IsParser(q) /\ q.state = "abort" /\ q.index = k
    BY <1>9, <1>16, Aborted DEF Has
  <2>2. Len(t) \in AbortCuts(r)
    BY <1>6, <1>16, AbortPlaces
  <2>3. InRequest(t, r, k, q)
    BY <1>4, <2>1, <2>2 DEF InRequest, AtPlace
  <2> QED BY <1>4, <2>1, <2>3 DEF Moves, q
<1>17. CASE k = e /\ k + 2 <= Len(t) /\ ~Peeks(t, k + 2) /\ Leaves("abort", k + 2)
  <2>1. IsParser(q) /\ q.state = "abort" /\ q.index = k + 2
    BY <1>14, <1>17
  <2>2. InRequest(t, r, k + 2, q)
    BY <1>13, <1>17, <2>1 DEF InRequest, AtPlace
  <2>3. k + 2 \in Nat /\ k + 2 > k
    BY <1>13, <1>17
  <2> QED BY <2>2, <2>3 DEF Moves, q
<1>18. CASE /\ k = e /\ k + 2 <= Len(t)
            /\ Peeks(t, k + 2) /\ EmptyLine(t, k + 2) /\ Leaves("content", k + 4)
  <2>1. i = Len(r.headers) /\ k + 2 = EmptyLineAt(r)
    BY <1>13, <1>18 DEF EmptyLineAt
  <2>2. /\ IsParser(q) /\ q.state = "content" /\ q.index = k + 4 /\ q.buffer = <<>>
        /\ DecodedTo(q, r, Len(r.headers))
    BY <1>14, <1>18, <2>1
  <2>3. k + 4 \in Nat /\ k + 4 \in 0..Len(t) /\ k + 4 > k /\ (k + 2) + 2 = k + 4
    BY <1>4, <1>18 DEF EmptyLine
  <2>4. BodyAt(r) = k + 4
    BY <2>1, <2>3 DEF BodyAt
  <2>5. SubSeq(t, BodyAt(r) + 1, k + 4) = <<>>
    BY <2>3, <2>4, EmptySubSeq
  <2>6. ~(BodyAt(r) < k + 4)
    BY <2>3, <2>4
  <2>7. AtBody(t, r, k + 4, q)
    BY <2>2, <2>4, <2>5, <2>6 DEF AtBody, DecodedTo
  <2>8. Len(r.headers) > 0
    OBVIOUS
  <2>9. InRequest(t, r, k + 4, q)
    BY <2>2, <2>3, <2>7, <2>8 DEF InRequest, AtPlace
  <2> QED BY <2>3, <2>9 DEF Moves, q
<1>19. CASE /\ k = e /\ k + 2 <= Len(t)
            /\ Peeks(t, k + 2) /\ ~EmptyLine(t, k + 2) /\ Leaves("name", k + 2)
  <2>1. i # Len(r.headers) /\ k + 2 = NameAt(r, i + 1) /\ k + 2 \in Nat /\ k + 2 > k
        /\ k + 2 \in 0..Len(t)
    BY <1>13, <1>19
  <2>2. i + 1 \in 1..Len(r.headers) /\ (i + 1) - 1 = i
    BY <2>1, PartTypes
  <2>3. /\ IsParser(q) /\ q.state = "name" /\ q.index = k + 2 /\ q.buffer = <<>>
        /\ DecodedTo(q, r, i)
    BY <1>14, <1>19
  <2>4. PICK x \in Seq(Characters) : x = NameOf(r, i + 1)
    BY <2>2, HeaderTypes DEF NameOf
  <2>5. Reading(t, "name", k + 2, x, k + 2, q)
    BY <2>1, <2>3, StartsReading
  <2>6. k + 2 < Len(t)
    BY <1>4, <1>19 DEF Peeks
  <2>7. AtName(t, r, i + 1, k + 2, q)
    BY <2>1, <2>2, <2>3, <2>4, <2>5, <2>6 DEF AtName
  <2>8. InRequest(t, r, k + 2, q)
    BY <2>1, <2>2, <2>3, <2>7 DEF InRequest, AtPlace
  <2> QED BY <2>1, <2>8 DEF Moves, q
<1> QED BY <1>12, <1>15, <1>16, <1>17, <1>18, <1>19

\* In the body nothing but characters is read.
LEMMA FromBody ==
    ASSUME NEW r \in Requests, Len(r.headers) > 0, NEW C, NEW t \in Seq(C),
           NEW k \in 0..(Len(t) - 1), NEW p, InRequest(t, r, k, p), AtBody(t, r, k, p)
    PROVE  Moves(t, r, k, Process(t, p))
<1>1. PICK b \in Seq(Characters) : b = r.body
  BY PartTypes
<1>2. PICK a \in Nat : a = BodyAt(r)
  BY <1>1, RequestLength
<1> DEFINE came(n) == SubSeq(t, a + 1, n)
           header == HeaderFrom(r, 1..Len(r.headers))
           q == Process(t, p)
<1>3. /\ p.state = "content" /\ a <= k /\ p.buffer = came(k)
      /\ Decoded(p, Found(r.method), r.uri, r.protocol, header,
                 IF k = Len(t) /\ a < k THEN came(k) ELSE <<>>)
  BY <1>2 DEF AtBody
<1>4. IsParser(p) /\ p.index = k
  BY DEF InRequest
<1>5. /\ Len(t) \in Nat /\ k \in Nat /\ k + 1 \in Nat /\ k + 1 \in 0..Len(t) /\ k + 1 > k
      /\ k # Len(t) /\ a + 1 \in 1..(k + 1) /\ a <= k + 1 /\ a < k + 1
  BY <1>3
<1>6. Append(p.buffer, t[k + 1]) = came(k + 1)
  BY <1>3, <1>5, SubSeqGrows
<1>7. Has(q, "content", k + 1, came(k + 1), p.name, p.method, p.uri, p.protocol, p.header,
          IF k + 1 = Len(t) THEN came(k + 1) ELSE p.body)
  <2> DEFINE buffer == Append(p.buffer, t[p.index + 1])
  <2>1. Has(q, "content", p.index + 1, buffer, p.name, p.method, p.uri, p.protocol, p.header,
            IF p.index + 1 = Len(t) THEN buffer ELSE p.body)
    BY <1>3, <1>4, ContentTurn
  <2>2. buffer = came(k + 1)
    BY <1>4, <1>6
  <2> HIDE DEF buffer, came, q
  <2> QED BY <1>4, <2>1, <2>2
<1> HIDE DEF came, header, q
<1>8. p.body = <<>>
  BY <1>3, <1>5 DEF Decoded
<1>9. Decoded(q, Found(r.method), r.uri, r.protocol, header,
              IF k + 1 = Len(t) /\ a < k + 1 THEN came(k + 1) ELSE <<>>)
  BY <1>3, <1>5, <1>7, <1>8 DEF Decoded, Has
<1>10. IsParser(q) /\ q.state = "content" /\ q.index = k + 1 /\ q.buffer = came(k + 1)
  BY <1>7 DEF Has
<1>11. AtBody(t, r, k + 1, q)
  BY <1>2, <1>5, <1>9, <1>10 DEF AtBody, came, header
<1>12. InRequest(t, r, k + 1, q)
  BY <1>5, <1>10, <1>11 DEF InRequest, AtPlace
<1> QED BY <1>5, <1>12 DEF Moves, q

LEMMA FromTail ==
    ASSUME NEW r \in Requests, Len(r.headers) = 0, NEW C, NEW t \in Seq(C), HoldsRequest(t, r),
           Len(t) <= Len(Request(r)),
           NEW k \in 0..(Len(t) - 1), NEW p, InRequest(t, r, k, p), AtTail(r, k, p)
    PROVE  Moves(t, r, k, Process(t, p))
<1>1. IsParser(p) /\ p.index = k
  BY DEF InRequest
<1>2. p.state = "name" /\ NameAt(r, 1) <= k /\ DecodedTo(p, r, 0)
  BY DEF AtTail
<1>3. PICK b \in Seq(Characters) : b = r.body
  BY PartTypes
<1>4. NameAt(r, 1) = EmptyLineAt(r)
  BY DEF EmptyLineAt
<1>5. PICK a \in Nat : a = NameAt(r, 1)
  BY <1>3, <1>4, RequestLength
<1>6. /\ Len(t) \in Nat /\ k \in Nat /\ k + 1 \in Nat /\ k + 1 \in 0..Len(t) /\ k + 1 > k
      /\ a <= k + 1 /\ a < k + 1
  BY <1>2, <1>5
<1>7. k + 1 <= Len(t)
  BY <1>6
<1>8. t[k + 1] # COLON
  BY <1>5, <1>6, <1>7, TailHasNoColon
<1> DEFINE q == Process(t, p)
<1>9. q = Push(p, t[k + 1], 1)
  BY <1>1, <1>2, <1>6, <1>8, NameTurn
<1> HIDE DEF q
<1>10. DecodedTo(q, r, 0) /\ IsParser(q) /\ q.index = k + 1
  BY <1>1, <1>2, <1>9, PushKeeps DEF DecodedTo
<1>11. q.state = "name"
  BY <1>1, <1>2, <1>9, Pushed DEF Has
<1>12. AtTail(r, k + 1, q)
  BY <1>5, <1>6, <1>10, <1>11 DEF AtTail
<1>13. InRequest(t, r, k + 1, q)
  BY <1>6, <1>10, <1>12 DEF InRequest, AtPlace
<1> QED BY <1>6, <1>13 DEF Moves, q

LEMMA RequestStarts ==
    ASSUME NEW r \in Requests, NEW C, NEW t \in Seq(C)
    PROVE  InRequest(t, r, 0, Start)
<1>1. PICK m \in Seq(Characters) : m = r.method
  BY PartTypes
<1>2. /\ IsParser(Start) /\ Start.state = "method" /\ Start.index = 0 /\ Start.buffer = <<>>
      /\ Decoded(Start, Undefined, <<>>, <<>>, <<>>, <<>>)
  BY DEF Start, IsParser, Decoded
<1>3. 0 \in Nat /\ 0 \in 0..Len(t)
  OBVIOUS
<1>4. Reading(t, "method", 0, m, 0, Start)
  BY <1>2, <1>3, StartsReading
<1>5. AtMethod(t, r, 0, Start)
  BY <1>1, <1>2, <1>4 DEF AtMethod
<1> QED BY <1>2, <1>3, <1>5 DEF InRequest, AtPlace

\* A turn in a text that begins with a request, of which no more is known if it has a
\* header, and that is no longer than the request if it has none.
LEMMA RequestContinues ==
    ASSUME NEW r \in Requests, NEW C, NEW t \in Seq(C), HoldsRequest(t, r),
           Len(r.headers) > 0 \/ Len(t) <= Len(Request(r)),
           NEW k, NEW p, InRequest(t, r, k, p), Running(t, p)
    PROVE  Moves(t, r, k, Process(t, p))
<1>1. p.state # "abort" /\ k \in 0..(Len(t) - 1)
  BY DEF InRequest, Running
<1>2. \/ AtMethod(t, r, k, p)
      \/ AtResource(t, r, k, p)
      \/ AtProtocol(t, r, k, p)
      \/ \E i \in 1..Len(r.headers) : AtName(t, r, i, k, p) \/ AtValue(t, r, i, k, p)
      \/ Len(r.headers) > 0 /\ AtBody(t, r, k, p)
      \/ Len(r.headers) = 0 /\ AtTail(r, k, p)
  BY <1>1 DEF InRequest, AtPlace
<1>3. CASE AtMethod(t, r, k, p)
  BY <1>1, <1>3, FromMethod
<1>4. CASE AtResource(t, r, k, p)
  BY <1>1, <1>4, FromResource
<1>5. CASE AtProtocol(t, r, k, p)
  BY <1>1, <1>5, FromProtocol
<1>6. CASE \E i \in 1..Len(r.headers) : AtName(t, r, i, k, p) \/ AtValue(t, r, i, k, p)
  BY <1>1, <1>6, FromName, FromValue
<1>7. CASE Len(r.headers) > 0 /\ AtBody(t, r, k, p)
  BY <1>1, <1>7, FromBody
<1>8. CASE Len(r.headers) = 0 /\ AtTail(r, k, p)
  BY <1>1, <1>8, FromTail
<1> QED BY <1>2, <1>3, <1>4, <1>5, <1>6, <1>7, <1>8

-----------------------------------------------------------------------------
(* A text that begins with a request, when the parser has ended. *)

LEMMA NameAtType ==
    ASSUME NEW r \in Requests, NEW i \in 1..(Len(r.headers) + 1)
    PROVE  NameAt(r, i) \in Nat
<1>1. Len(r.headers) \in Nat
  BY PartTypes
<1>2. i - 1 \in 0..Len(r.headers)
  BY <1>1
<1>3. PICK x \in Seq(Characters) : x = HeadOf(r, i - 1)
  BY <1>2, HeadTypes
<1> QED BY <1>3 DEF NameAt

\* Every header is at least four characters long.
LEMMA PlacesGrow ==
    ASSUME NEW r \in Requests, NEW i \in 1..(Len(r.headers) + 1),
           NEW j \in 1..(Len(r.headers) + 1), i < j
    PROVE  NameAt(r, i) + 4 <= NameAt(r, j)
<1> DEFINE N == Len(r.headers)
           S == {n \in Nat : i + n + 1 <= N + 1 => NameAt(r, i) + 4 <= NameAt(r, i + n + 1)}
<1>1. N \in Nat
  BY PartTypes
<1>2. ASSUME NEW x \in 1..N
      PROVE  NameAt(r, x) \in Nat /\ NameAt(r, x + 1) \in Nat
             /\ NameAt(r, x) + 4 <= NameAt(r, x + 1)
  BY Places
<1>3. 0 \in S
  <2>1. CASE i \in 1..N
    <3>1. i + 0 + 1 = i + 1
      OBVIOUS
    <3> QED BY <1>2, <2>1, <3>1
  <2>2. CASE i \notin 1..N
    BY <1>1, <2>2
  <2> QED BY <2>1, <2>2
<1>4. ASSUME NEW n \in 0..(j - 1), n \in S PROVE n + 1 \in S
  <2> SUFFICES ASSUME i + (n + 1) + 1 <= N + 1
               PROVE  NameAt(r, i) + 4 <= NameAt(r, i + (n + 1) + 1)
    OBVIOUS
  <2>1. i + n + 1 \in 1..N /\ i + n + 1 <= N + 1 /\ (i + n + 1) + 1 = i + (n + 1) + 1
    BY <1>1
  <2>2. NameAt(r, i) + 4 <= NameAt(r, i + n + 1)
    BY <1>4, <2>1
  <2> DEFINE x == i + n + 1
  <2>3. NameAt(r, x) + 4 <= NameAt(r, x + 1) /\ NameAt(r, x) \in Nat /\ NameAt(r, x + 1) \in Nat
    BY <1>2, <2>1
  <2>4. NameAt(r, i) \in Nat
    BY NameAtType
  <2>5. NameAt(r, i) + 4 <= NameAt(r, x + 1)
    <3>1. NameAt(r, i) + 4 <= NameAt(r, x)
      BY <2>2
    <3> HIDE DEF x
    <3> QED BY <2>3, <2>4, <3>1
  <2> QED BY <2>1, <2>5
<1> HIDE DEF S
<1>5. 0..j \subseteq S
  <2>1. j \in Nat
    OBVIOUS
  <2> QED BY <1>3, <1>4, <2>1, Induction
<1> DEFINE d == j - i - 1
<1>6. d \in 0..j /\ i + d + 1 = j /\ j <= N + 1
  BY <1>1
<1> HIDE DEF d
<1>7. d \in S
  BY <1>5, <1>6
<1> QED BY <1>6, <1>7 DEF S

\* The header i is complete where the next one begins.
LEMMA CompleteIs ==
    ASSUME NEW r \in Requests, NEW k \in Nat, NEW i \in 0..Len(r.headers),
           i > 0 => NameAt(r, i + 1) <= k,
           i < Len(r.headers) => k < NameAt(r, i + 2)
    PROVE  Complete(r, k) = 1..i
<1> DEFINE N == Len(r.headers)
<1>1. N \in Nat /\ DOMAIN r.headers = 1..N
  <2>1. r.headers \in Seq([name : Without({COLON, CR}), value : Without({CR})])
    <3>1. r \in [method : Without({SP}), uri : Without({SP}), protocol : Without({CR}),
                 headers : Seq([name : Without({COLON, CR}), value : Without({CR})]),
                 body : Seq(Characters)]
      BY RequestAssumption, Zenon
    <3> QED BY <3>1
  <2> QED BY <2>1
<1>2. ASSUME NEW j \in 1..N
      PROVE  Len(HeadOf(r, j)) = NameAt(r, j + 1) /\ j + 1 \in 1..(N + 1)
  <2>1. (j + 1) - 1 = j /\ j + 1 \in 1..(N + 1)
    BY <1>1
  <2> QED BY <2>1 DEF NameAt
<1>3. ASSUME NEW j \in 1..N PROVE NameAt(r, j + 1) <= k <=> j \in 1..i
  <2>1. PICK x \in Nat : x = NameAt(r, j + 1)
    BY <1>2, NameAtType
  <2>2. CASE j \in 1..i
    <3>1. i + 1 \in 1..(N + 1) /\ i > 0
      BY <1>1, <2>2
    <3>2. PICK y \in Nat : y = NameAt(r, i + 1)
      BY <3>1, NameAtType
    <3>3. CASE j = i
      BY <2>2, <3>1, <3>3
    <3>4. CASE j # i
      <4>1. j + 1 < i + 1
        BY <2>2, <3>4
      <4>2. NameAt(r, j + 1) + 4 <= NameAt(r, i + 1)
        BY <1>2, <3>1, <4>1, PlacesGrow
      <4> QED BY <2>1, <2>2, <3>1, <3>2, <4>2
    <3> QED BY <3>3, <3>4
  <2>3. CASE j \notin 1..i
    <3>1. i + 2 \in 1..(N + 1) /\ i < N /\ i + 2 <= j + 1
      BY <1>1, <2>3
    <3>2. PICK y \in Nat : y = NameAt(r, i + 2)
      BY <3>1, NameAtType
    <3>3. CASE j + 1 = i + 2
      BY <2>1, <2>3, <3>1, <3>2, <3>3
    <3>4. CASE j + 1 # i + 2
      <4>1. i + 2 < j + 1
        BY <3>1, <3>4
      <4>2. NameAt(r, i + 2) + 4 <= NameAt(r, j + 1)
        BY <1>2, <3>1, <4>1, PlacesGrow
      <4> QED BY <2>1, <2>3, <3>1, <3>2, <4>2
    <3> QED BY <3>3, <3>4
  <2> QED BY <2>2, <2>3
<1>4. 1..i \subseteq 1..N
  BY <1>1
<1>5. Complete(r, k) = {j \in 1..N : NameAt(r, j + 1) <= k}
  BY <1>1, <1>2 DEF Complete
<1> QED BY <1>3, <1>4, <1>5

LEMMA PlacesInOrder ==
    ASSUME NEW r \in Requests, NEW i \in 1..(Len(r.headers) + 1),
           NEW j \in 1..(Len(r.headers) + 1), i <= j
    PROVE  NameAt(r, i) \in Nat /\ NameAt(r, j) \in Nat /\ NameAt(r, i) <= NameAt(r, j)
<1>1. PICK x \in Nat : x = NameAt(r, i)
  BY NameAtType
<1>2. PICK y \in Nat : y = NameAt(r, j)
  BY NameAtType
<1>3. CASE i = j
  BY <1>1, <1>3
<1>4. CASE i # j
  <2>1. i < j
    BY <1>4
  <2>2. NameAt(r, i) + 4 <= NameAt(r, j)
    BY <2>1, PlacesGrow
  <2> QED BY <1>1, <1>2, <2>2
<1> QED BY <1>3, <1>4

\* No cut lies before the end of the request line, and none behind the empty line.
LEMMA CutsFollow ==
    ASSUME NEW r \in Requests, NEW c, c \in AbortCuts(r)
    PROVE  /\ c \in Int /\ NameAt(r, 1) - 1 <= c /\ c < BodyAt(r)
           /\ Len(r.headers) = 0 => c = NameAt(r, 1) - 1
<1> DEFINE N == Len(r.headers)
<1>1. N \in Nat /\ 1 \in 1..(N + 1) /\ N + 1 \in 1..(N + 1) /\ 1 <= N + 1
  BY PartTypes
<1>2. PICK a \in Nat : a = NameAt(r, 1)
  BY <1>1, NameAtType
<1>3. PICK e \in Nat : e = EmptyLineAt(r) /\ BodyAt(r) = e + 2
  BY <1>1, NameAtType DEF EmptyLineAt, BodyAt
<1>4. a <= e
  BY <1>1, <1>2, <1>3, PlacesInOrder DEF EmptyLineAt
<1>5. CASE c = NameAt(r, 1) - 1
  BY <1>2, <1>3, <1>4, <1>5
<1>6. CASE N > 0 /\ c = EmptyLineAt(r) + 1
  BY <1>2, <1>3, <1>4, <1>6
<1>7. ASSUME NEW i \in 1..N, \/ c = ColonAt(r, i) + 1
                             \/ c = ReturnAt(r, i) + 1
                             \/ c = NameAt(r, i + 1)
      PROVE  c \in Int /\ a <= c /\ c <= e /\ N # 0
  <2>1. i \in 1..(N + 1) /\ i + 1 \in 1..(N + 1) /\ 1 <= i /\ i + 1 <= N + 1
    BY <1>1
  <2>2. a <= NameAt(r, i) /\ NameAt(r, i + 1) <= e
    BY <1>1, <1>2, <1>3, <2>1, PlacesInOrder DEF EmptyLineAt
  <2>3. PICK n \in Nat, x \in Nat, y \in Nat, z \in Nat :
            /\ n = NameAt(r, i) /\ x = ColonAt(r, i) /\ y = ReturnAt(r, i)
            /\ z = NameAt(r, i + 1) /\ n <= x /\ x + 2 <= y /\ z = y + 2
    <3>1. /\ NameAt(r, i) \in Nat /\ ColonAt(r, i) \in Nat
          /\ ValueAt(r, i) \in Nat /\ ReturnAt(r, i) \in Nat /\ NameAt(r, i + 1) \in Nat
          /\ NameAt(r, i) <= ColonAt(r, i) /\ ValueAt(r, i) = ColonAt(r, i) + 2
          /\ ValueAt(r, i) <= ReturnAt(r, i) /\ NameAt(r, i + 1) = ReturnAt(r, i) + 2
      BY Places
    <3> QED BY <3>1
  <2> QED BY <1>1, <1>7, <2>2, <2>3
<1>8. \/ c = NameAt(r, 1) - 1
      \/ N > 0 /\ c = EmptyLineAt(r) + 1
      \/ \E i \in 1..N : \/ c = ColonAt(r, i) + 1
                         \/ c = ReturnAt(r, i) + 1
                         \/ c = NameAt(r, i + 1)
  BY AbortPlaces
<1> QED BY <1>1, <1>2, <1>3, <1>4, <1>5, <1>6, <1>7, <1>8

\* The cuts from the line of a header to the next.
LEMMA NoCutInHeader ==
    ASSUME NEW r \in Requests, NEW i \in 1..Len(r.headers), NEW k \in Nat,
           NameAt(r, i) <= k, i > 1 => NameAt(r, i) < k,
           k <= ReturnAt(r, i), k # ColonAt(r, i) + 1
    PROVE  k \notin AbortCuts(r)
<1> DEFINE N == Len(r.headers)
<1>1. N \in Nat /\ i \in 1..(N + 1) /\ i + 1 \in 1..(N + 1) /\ N + 1 \in 1..(N + 1)
      /\ 1 \in 1..(N + 1) /\ 1 <= i /\ i + 1 <= N + 1
  BY PartTypes
<1> HIDE DEF N
<1>2. ASSUME NEW j \in 1..N
      PROVE  \E n \in Nat, x \in Nat, y \in Nat, z \in Nat :
                /\ n = NameAt(r, j) /\ x = ColonAt(r, j) /\ y = ReturnAt(r, j)
                /\ z = NameAt(r, j + 1) /\ n <= x /\ x + 2 <= y /\ z = y + 2
  <2>1. /\ NameAt(r, j) \in Nat /\ ColonAt(r, j) \in Nat
        /\ ValueAt(r, j) \in Nat /\ ReturnAt(r, j) \in Nat /\ NameAt(r, j + 1) \in Nat
        /\ NameAt(r, j) <= ColonAt(r, j) /\ ValueAt(r, j) = ColonAt(r, j) + 2
        /\ ValueAt(r, j) <= ReturnAt(r, j) /\ NameAt(r, j + 1) = ReturnAt(r, j) + 2
    BY Places DEF N
  <2> QED BY <2>1
<1>3. PICK n \in Nat, x \in Nat, y \in Nat, z \in Nat :
            /\ n = NameAt(r, i) /\ x = ColonAt(r, i) /\ y = ReturnAt(r, i)
            /\ z = NameAt(r, i + 1) /\ n <= x /\ x + 2 <= y /\ z = y + 2
  BY <1>2 DEF N
<1>4. n <= k /\ (i > 1 => n < k) /\ k <= y /\ k # x + 1
  BY <1>3
<1>5. k # NameAt(r, 1) - 1
  <2>1. NameAt(r, 1) \in Nat /\ NameAt(r, 1) <= n
    BY <1>1, <1>3, PlacesInOrder DEF N
  <2> QED BY <1>4, <2>1
<1>6. k # EmptyLineAt(r) + 1
  <2>1. EmptyLineAt(r) \in Nat /\ z <= EmptyLineAt(r)
    BY <1>1, <1>3, PlacesInOrder DEF N, EmptyLineAt
  <2> QED BY <1>3, <1>4, <2>1
<1>7. ASSUME NEW j \in 1..N
      PROVE  k # ColonAt(r, j) + 1 /\ k # ReturnAt(r, j) + 1 /\ k # NameAt(r, j + 1)
  <2>1. PICK nj \in Nat, xj \in Nat, yj \in Nat, zj \in Nat :
            /\ nj = NameAt(r, j) /\ xj = ColonAt(r, j) /\ yj = ReturnAt(r, j)
            /\ zj = NameAt(r, j + 1) /\ nj <= xj /\ xj + 2 <= yj /\ zj = yj + 2
    BY <1>2
  <2>2. j \in 1..(N + 1) /\ j + 1 \in 1..(N + 1)
    BY <1>1
  <2>3. CASE j < i
    <3>1. j + 1 <= i /\ i > 1
      BY <2>3
    <3>2. zj <= n
      BY <1>1, <1>3, <2>1, <2>2, <3>1, PlacesInOrder DEF N
    <3> QED BY <1>4, <2>1, <3>1, <3>2
  <2>4. CASE j = i
    BY <1>3, <1>4, <2>4
  <2>5. CASE i < j
    <3>1. i + 1 <= j
      BY <2>5
    <3>2. z <= nj
      BY <1>1, <1>3, <2>1, <2>2, <3>1, PlacesInOrder DEF N
    <3>3. z = y + 2 /\ nj <= xj /\ xj + 2 <= yj /\ zj = yj + 2
      BY <1>3, <2>1
    <3>4. k # xj + 1 /\ k # yj + 1 /\ k # zj
      BY <1>4, <3>2, <3>3
    <3> QED BY <2>1, <3>4
  <2> QED BY <2>3, <2>4, <2>5
<1> QED BY <1>5, <1>6, <1>7, AbortPlaces DEF N

\* What has come of a request that is cut off after k characters.
MethodCame(r, k) == IF k > Len(r.method) THEN Found(r.method) ELSE Undefined
UriCame(r, k) == IF k >= ProtocolAt(r.method, r.uri) THEN r.uri ELSE <<>>
ProtocolCame(r, k) == IF k >= NameAt(r, 1) THEN r.protocol ELSE <<>>
BodyCame(t, r, k) ==
    IF k > BodyAt(r) /\ Len(r.headers) > 0 THEN SubSeq(t, BodyAt(r) + 1, k) ELSE <<>>

Came(t, r, k, p) ==
    Decoded(p, MethodCame(r, k), UriCame(r, k), ProtocolCame(r, k), HeaderOf(r, k),
            BodyCame(t, r, k))

\* The places of a request that do not depend on a header: its method ends at m, its
\* uri of the length u before l, its protocol of the length c before n.
LinePlacesAre(r, m, u, l, c, n, e) ==
    /\ m = Len(r.method) /\ u = Len(r.uri) /\ c = Len(r.protocol)
    /\ UriAt(r.method) = m + 1
    /\ ProtocolAt(r.method, r.uri) = l /\ NameAt(r, 1) = n
    /\ EmptyLineAt(r) = e /\ BodyAt(r) = e + 2

LEMMA LinePlaces ==
    ASSUME NEW r \in Requests
    PROVE  \E m \in Nat, u \in Nat, l \in Nat, c \in Nat, n \in Nat, e \in Nat :
              /\ LinePlacesAre(r, m, u, l, c, n, e)
              /\ l = m + u + 2 /\ n = l + c + 2 /\ n <= e
<1>1. PICK m \in Seq(Characters) : m = r.method
  BY PartTypes
<1>2. PICK u \in Seq(Characters) : u = r.uri
  BY PartTypes
<1>3. PICK l \in Seq(Characters) : l = r.protocol
  BY PartTypes
<1>4. Len(m) \in Nat /\ Len(u) \in Nat /\ Len(l) \in Nat
  OBVIOUS
<1>5. NameAt(r, 1) = ProtocolAt(m, u) + Len(l) + 2
  BY <1>1, <1>2, <1>3, FirstPlace
<1>6. ProtocolAt(m, u) \in Nat /\ UriAt(m) = Len(m) + 1 /\ ProtocolAt(m, u) = Len(m) + Len(u) + 2
  BY <1>4 DEF ProtocolAt, UriAt
<1>7. /\ EmptyLineAt(r) \in Nat /\ BodyAt(r) = EmptyLineAt(r) + 2
      /\ NameAt(r, 1) \in Nat /\ NameAt(r, 1) <= EmptyLineAt(r)
  <2>1. Len(r.headers) \in Nat
    BY PartTypes
  <2>2. 1 \in 1..(Len(r.headers) + 1) /\ Len(r.headers) + 1 \in 1..(Len(r.headers) + 1)
        /\ 1 <= Len(r.headers) + 1
    BY <2>1
  <2> QED BY <2>2, PlacesInOrder DEF EmptyLineAt, BodyAt
<1>8. LinePlacesAre(r, Len(m), Len(u), ProtocolAt(m, u), Len(l), NameAt(r, 1), EmptyLineAt(r))
  BY <1>1, <1>2, <1>3, <1>6, <1>7 DEF LinePlacesAre
<1> QED BY <1>4, <1>5, <1>6, <1>7, <1>8

\* Before the request line is complete.
LEMMA EndsInLine ==
    ASSUME NEW r \in Requests, NEW C, NEW t \in Seq(C), NEW k \in Nat, NEW p,
           AtMethod(t, r, k, p) \/ AtResource(t, r, k, p) \/ AtProtocol(t, r, k, p)
    PROVE  k \notin AbortCuts(r) /\ p.state # "abort" /\ Came(t, r, k, p)
<1>1. PICK m \in Nat, u \in Nat, l \in Nat, c \in Nat, n \in Nat, e \in Nat :
          /\ LinePlacesAre(r, m, u, l, c, n, e)
          /\ l = m + u + 2 /\ n = l + c + 2 /\ n <= e
  BY LinePlaces
<1>2. /\ p.state # "abort" /\ k <= n - 2
      /\ Decoded(p, MethodCame(r, k), UriCame(r, k), <<>>, <<>>, <<>>)
  <2>1. CASE AtMethod(t, r, k, p)
    <3>1. p.state = "method" /\ k <= m /\ Decoded(p, Undefined, <<>>, <<>>, <<>>, <<>>)
      BY <1>1, <2>1 DEF AtMethod, Reading, LinePlacesAre
    <3>2. k <= n - 2 /\ ~(k > m) /\ ~(k >= l)
      BY <1>1, <3>1
    <3> QED BY <1>1, <3>1, <3>2 DEF MethodCame, UriCame, LinePlacesAre
  <2>2. CASE AtResource(t, r, k, p)
    <3>1. /\ p.state = "resource" /\ m + 1 <= k /\ k <= (m + 1) + u
          /\ Decoded(p, Found(r.method), <<>>, <<>>, <<>>, <<>>)
      BY <1>1, <2>2 DEF AtResource, Reading, LinePlacesAre
    <3>2. k <= n - 2 /\ k > m /\ ~(k >= l)
      BY <1>1, <3>1
    <3> QED BY <1>1, <3>1, <3>2 DEF MethodCame, UriCame, LinePlacesAre
  <2>3. CASE AtProtocol(t, r, k, p)
    <3>1. /\ p.state = "protocol" /\ l <= k /\ k <= l + c
          /\ Decoded(p, Found(r.method), r.uri, <<>>, <<>>, <<>>)
      BY <1>1, <2>3 DEF AtProtocol, Reading, LinePlacesAre
    <3>2. k <= n - 2 /\ k > m /\ k >= l
      BY <1>1, <3>1
    <3> QED BY <1>1, <3>1, <3>2 DEF MethodCame, UriCame, LinePlacesAre
  <2> QED BY <2>1, <2>2, <2>3
<1>3. ~(k >= n) /\ ~(k > e + 2) /\ k < n /\ n - 1 > k
  BY <1>1, <1>2
<1>4. k \notin AbortCuts(r)
  <2>1. k \in AbortCuts(r) => n - 1 <= k
    BY <1>1, CutsFollow DEF LinePlacesAre
  <2> QED BY <1>3, <2>1
<1>5. HeaderOf(r, k) = <<>>
  <2>1. 0 \in 0..Len(r.headers) /\ 0 + 2 \in 1..2
    BY PartTypes
  <2>2. Len(r.headers) > 0 => k < NameAt(r, 0 + 2)
    <3>1. ASSUME Len(r.headers) > 0
          PROVE  1 \in 1..(Len(r.headers) + 1) /\ 0 + 2 \in 1..(Len(r.headers) + 1) /\ 1 <= 0 + 2
      BY <3>1, PartTypes
    <3>2. Len(r.headers) > 0 => NameAt(r, 0 + 2) \in Nat /\ n <= NameAt(r, 0 + 2)
      BY <1>1, <3>1, PlacesInOrder DEF LinePlacesAre
    <3> QED BY <1>3, <3>2
  <2>3. Complete(r, k) = 1..0
    BY <2>1, <2>2, CompleteIs
  <2> QED BY <2>3, HeaderOfIs, EmptyHeader
<1>6. ProtocolCame(r, k) = <<>> /\ BodyCame(t, r, k) = <<>>
  BY <1>1, <1>3 DEF ProtocolCame, BodyCame, LinePlacesAre
<1> QED BY <1>2, <1>4, <1>5, <1>6 DEF Came

\* In the header i.
LEMMA EndsInHeader ==
    ASSUME NEW r \in Requests, NEW C, NEW t \in Seq(C), NEW k \in Nat, k = Len(t), NEW p,
           NEW i \in 1..Len(r.headers), AtName(t, r, i, k, p) \/ AtValue(t, r, i, k, p)
    PROVE  k \notin AbortCuts(r) /\ p.state # "abort" /\ Came(t, r, k, p)
<1> DEFINE N == Len(r.headers)
<1>1. PICK n \in Nat, x \in Nat, y \in Nat, z \in Nat :
            /\ n = NameAt(r, i) /\ x = ColonAt(r, i) /\ y = ReturnAt(r, i)
            /\ z = NameAt(r, i + 1) /\ n <= x /\ x + 2 <= y /\ z = y + 2
            /\ ValueAt(r, i) = x + 2
  <2>1. /\ NameAt(r, i) \in Nat /\ ColonAt(r, i) \in Nat
        /\ ValueAt(r, i) \in Nat /\ ReturnAt(r, i) \in Nat /\ NameAt(r, i + 1) \in Nat
        /\ NameAt(r, i) <= ColonAt(r, i) /\ ValueAt(r, i) = ColonAt(r, i) + 2
        /\ ValueAt(r, i) <= ReturnAt(r, i) /\ NameAt(r, i + 1) = ReturnAt(r, i) + 2
    BY Places
  <2> QED BY <2>1
<1>2. PICK m \in Nat, u \in Nat, l \in Nat, c \in Nat, first \in Nat, e \in Nat :
          /\ LinePlacesAre(r, m, u, l, c, first, e)
          /\ l = m + u + 2 /\ first = l + c + 2 /\ first <= e
  BY LinePlaces
<1>3. N \in Nat /\ i \in 1..(N + 1) /\ i + 1 \in 1..(N + 1) /\ N + 1 \in 1..(N + 1)
      /\ 1 \in 1..(N + 1) /\ 1 <= i /\ i + 1 <= N + 1 /\ i - 1 \in 0..N
      /\ (i - 1) + 1 = i /\ (i - 1) + 2 = i + 1
  BY PartTypes
<1>4. /\ p.state # "abort" /\ DecodedTo(p, r, i - 1)
      /\ n <= k /\ (i > 1 => n < k) /\ k <= y /\ k # x + 1
  <2>1. CASE AtName(t, r, i, k, p)
    <3>1. x = n + Len(NameOf(r, i))
      BY <1>1 DEF NameOf, ColonAt
    <3>2. p.state = "name" /\ DecodedTo(p, r, i - 1)
      BY <2>1 DEF AtName, Reading
    <3>3. n <= k /\ (i > 1 => n < k)
      BY <1>1, <2>1 DEF AtName, Reading
    <3>4. k <= x
      BY <1>1, <2>1, <3>1 DEF AtName, Reading
    <3>5. k <= y /\ k # x + 1
      BY <1>1, <3>4
    <3>6. p.state # "abort"
      BY <3>2
    <3> QED BY <3>2, <3>3, <3>5, <3>6
  <2>2. CASE AtValue(t, r, i, k, p)
    <3>1. y = (x + 2) + Len(ValueOf(r, i))
      BY <1>1 DEF ValueOf, ReturnAt
    <3>2. p.state = "value" /\ DecodedTo(p, r, i - 1)
      BY <2>2 DEF AtValue, Reading
    <3>3. x + 2 <= k
      BY <1>1, <2>2 DEF AtValue, Reading
    <3>4. k <= y
      BY <1>1, <2>2, <3>1 DEF AtValue, Reading
    <3>5. n < k /\ n <= k /\ k # x + 1
      BY <1>1, <3>3
    <3>6. p.state # "abort"
      BY <3>2
    <3> QED BY <3>2, <3>4, <3>5, <3>6
  <2> QED BY <2>1, <2>2
<1>5. k \notin AbortCuts(r)
  BY <1>1, <1>4, NoCutInHeader
<1>6. first <= n /\ z <= e
  BY <1>1, <1>2, <1>3, PlacesInOrder DEF EmptyLineAt, LinePlacesAre
<1>7. k > m /\ k >= l /\ k >= first /\ k < z /\ ~(k > e + 2)
  <2>1. l = m + u + 2 /\ first = l + c + 2 /\ first <= k
    BY <1>2, <1>4, <1>6
  <2>2. k < z
    BY <1>1, <1>4
  <2> QED BY <1>6, <2>1, <2>2
<1>8. HeaderOf(r, k) = HeaderFrom(r, 1..(i - 1))
  <2>1. i - 1 > 0 => NameAt(r, (i - 1) + 1) <= k
    BY <1>1, <1>3, <1>4
  <2>2. k < NameAt(r, (i - 1) + 2)
    BY <1>1, <1>3, <1>7
  <2>3. Complete(r, k) = 1..(i - 1)
    BY <1>3, <2>1, <2>2, CompleteIs
  <2> QED BY <2>3, HeaderOfIs
<1>9. /\ MethodCame(r, k) = Found(r.method) /\ UriCame(r, k) = r.uri
      /\ ProtocolCame(r, k) = r.protocol /\ BodyCame(t, r, k) = <<>>
  BY <1>2, <1>7 DEF MethodCame, UriCame, ProtocolCame, BodyCame, LinePlacesAre
<1> QED BY <1>4, <1>5, <1>8, <1>9 DEF Came, DecodedTo

LEMMA EndsBehind ==
    ASSUME NEW r \in Requests, NEW C, NEW t \in Seq(C), NEW k \in Nat, k = Len(t), NEW p,
           \/ Len(r.headers) > 0 /\ AtBody(t, r, k, p)
           \/ Len(r.headers) = 0 /\ AtTail(r, k, p)
    PROVE  k \notin AbortCuts(r) /\ p.state # "abort" /\ Came(t, r, k, p)
<1> DEFINE N == Len(r.headers)
<1>1. N \in Nat /\ N \in 0..N /\ ~(N < N)
  BY PartTypes
<1>2. PICK m \in Nat, u \in Nat, l \in Nat, c \in Nat, first \in Nat, e \in Nat :
          /\ LinePlacesAre(r, m, u, l, c, first, e)
          /\ l = m + u + 2 /\ first = l + c + 2 /\ first <= e
  BY LinePlaces
<1>3. CASE N > 0 /\ AtBody(t, r, k, p)
  <2>1. /\ p.state = "content" /\ e + 2 <= k
        /\ Decoded(p, Found(r.method), r.uri, r.protocol, HeaderFrom(r, 1..N),
                   IF k = Len(t) /\ BodyAt(r) < k THEN SubSeq(t, BodyAt(r) + 1, k) ELSE <<>>)
    BY <1>2, <1>3 DEF AtBody, LinePlacesAre
  <2>2. k > m /\ k >= l /\ k >= first /\ e <= k
    BY <1>2, <2>1
  <2>3. k \notin AbortCuts(r)
    BY <1>2, <2>1, CutsFollow DEF LinePlacesAre
  <2>4. HeaderOf(r, k) = HeaderFrom(r, 1..N)
    <3>1. Complete(r, k) = 1..N
      BY <1>1, <1>2, <2>2, CompleteIs DEF EmptyLineAt, LinePlacesAre
    <3> QED BY <3>1, HeaderOfIs
  <2>5. BodyAt(r) < k <=> k > BodyAt(r)
    BY <1>2 DEF LinePlacesAre
  <2>6. /\ MethodCame(r, k) = Found(r.method) /\ UriCame(r, k) = r.uri
        /\ ProtocolCame(r, k) = r.protocol
        /\ BodyCame(t, r, k) = IF k = Len(t) /\ BodyAt(r) < k
                               THEN SubSeq(t, BodyAt(r) + 1, k) ELSE <<>>
    BY <1>2, <1>3, <2>2, <2>5 DEF MethodCame, UriCame, ProtocolCame, BodyCame, LinePlacesAre
  <2> QED BY <2>1, <2>3, <2>4, <2>6 DEF Came
<1>4. CASE N = 0 /\ AtTail(r, k, p)
  <2>1. p.state = "name" /\ first <= k /\ DecodedTo(p, r, 0)
    BY <1>2, <1>4 DEF AtTail, LinePlacesAre
  <2>2. k > m /\ k >= l /\ k >= first
    BY <1>2, <2>1
  <2>3. k \notin AbortCuts(r)
    <3>1. k \in AbortCuts(r) => k = first - 1
      BY <1>2, <1>4, CutsFollow DEF LinePlacesAre
    <3> QED BY <2>1, <3>1
  <2>4. HeaderOf(r, k) = HeaderFrom(r, 1..0)
    <3>1. Complete(r, k) = 1..0
      BY <1>1, <1>4, CompleteIs
    <3> QED BY <3>1, HeaderOfIs
  <2>5. /\ MethodCame(r, k) = Found(r.method) /\ UriCame(r, k) = r.uri
        /\ ProtocolCame(r, k) = r.protocol /\ BodyCame(t, r, k) = <<>>
    <3>1. ~(Len(r.headers) > 0)
      BY <1>4
    <3> QED BY <1>2, <2>2, <3>1 DEF MethodCame, UriCame, ProtocolCame, BodyCame, LinePlacesAre
  <2> QED BY <2>1, <2>3, <2>4, <2>5 DEF Came, DecodedTo
<1> QED BY <1>3, <1>4

\* Where the parser has ended it aborts exactly at the cuts, and otherwise has what came.
LEMMA RequestEnds ==
    ASSUME NEW r \in Requests, NEW C, NEW t \in Seq(C), NEW k, NEW p,
           InRequest(t, r, k, p), ~Running(t, p)
    PROVE  /\ p.state = "abort" <=> Len(t) \in AbortCuts(r)
           /\ p.state # "abort" => Came(t, r, Len(t), p)
<1>1. /\ \/ AtMethod(t, r, k, p) \/ AtResource(t, r, k, p) \/ AtProtocol(t, r, k, p)
         \/ \E i \in 1..Len(r.headers) : AtName(t, r, i, k, p) \/ AtValue(t, r, i, k, p)
         \/ Len(r.headers) > 0 /\ AtBody(t, r, k, p)
         \/ Len(r.headers) = 0 /\ AtTail(r, k, p)
         \/ p.state = "abort" /\ Len(t) \in AbortCuts(r)
      /\ k \in Nat
      /\ p.state # "abort" => k = Len(t)
  BY DEF InRequest, AtPlace, Running
<1>2. CASE p.state = "abort"
  <2>1. ~(AtMethod(t, r, k, p) \/ AtResource(t, r, k, p) \/ AtProtocol(t, r, k, p))
    BY <1>2 DEF AtMethod, AtResource, AtProtocol, Reading
  <2>2. \A i \in 1..Len(r.headers) : ~(AtName(t, r, i, k, p) \/ AtValue(t, r, i, k, p))
    BY <1>2 DEF AtName, AtValue, Reading
  <2>3. ~AtBody(t, r, k, p) /\ ~AtTail(r, k, p)
    BY <1>2 DEF AtBody, AtTail
  <2> QED BY <1>1, <1>2, <2>1, <2>2, <2>3
<1>3. CASE p.state # "abort"
  <2>1. k = Len(t) /\ k \in Nat
    BY <1>1, <1>3
  <2>2. CASE AtMethod(t, r, k, p) \/ AtResource(t, r, k, p) \/ AtProtocol(t, r, k, p)
    BY <2>1, <2>2, EndsInLine
  <2>3. CASE \E i \in 1..Len(r.headers) : AtName(t, r, i, k, p) \/ AtValue(t, r, i, k, p)
    BY <2>1, <2>3, EndsInHeader
  <2>4. CASE \/ Len(r.headers) > 0 /\ AtBody(t, r, k, p)
             \/ Len(r.headers) = 0 /\ AtTail(r, k, p)
    BY <2>1, <2>4, EndsBehind
  <2> QED BY <1>1, <1>3, <2>2, <2>3, <2>4
<1> QED BY <1>2, <1>3

\* DecodeMessage of a text that begins with a request.
LEMMA DecodesRequest ==
    ASSUME NEW r \in Requests, NEW C, NEW t \in Seq(C), HoldsRequest(t, r),
           Len(r.headers) > 0 \/ Len(t) <= Len(Request(r))
    PROVE  LET p == DecodeMessage(t)
           IN  /\ p.state = "abort" <=> Len(t) \in AbortCuts(r)
               /\ p.state # "abort" => Came(t, r, Len(t), p)
<1>1. Len(t) \in Nat
  OBVIOUS
<1>2. PICK turn : /\ turn[0] = Start
                  /\ \A n \in 0..(Len(t) - 1) : turn[n + 1] = TurnOf(t, turn[n])
                  /\ DecodeMessage(t) = turn[Len(t)]
  BY <1>1, Turns
<1> DEFINE S == {n \in Nat : \E k \in Nat : /\ InRequest(t, r, k, turn[n])
                                            /\ turn[n].state # "abort" => k >= n}
<1>3. 0 \in S
  BY <1>2, RequestStarts
<1>4. ASSUME NEW n \in 0..(Len(t) - 1), n \in S PROVE n + 1 \in S
  <2>1. turn[n + 1] = TurnOf(t, turn[n])
    BY <1>2
  <2>2. PICK k \in Nat : InRequest(t, r, k, turn[n]) /\ (turn[n].state # "abort" => k >= n)
    BY <1>4
  <2>3. CASE Running(t, turn[n])
    <3>1. turn[n + 1] = Process(t, turn[n])
      BY <2>1, <2>3 DEF TurnOf
    <3>2. Moves(t, r, k, Process(t, turn[n]))
      BY <2>2, <2>3, RequestContinues
    <3>3. PICK j \in Nat : /\ InRequest(t, r, j, turn[n + 1])
                           /\ turn[n + 1].state # "abort" => j > k
      BY <3>1, <3>2 DEF Moves
    <3>4. k >= n
      BY <2>2, <2>3 DEF Running
    <3>5. turn[n + 1].state # "abort" => j >= n + 1
      BY <3>3, <3>4
    <3> QED BY <3>3, <3>5
  <2>4. CASE ~Running(t, turn[n])
    <3>1. turn[n + 1] = turn[n]
      BY <2>1, <2>4 DEF TurnOf
    <3>2. turn[n].state # "abort" => k >= n + 1
      BY <1>1, <2>2, <2>4 DEF InRequest, Running
    <3> QED BY <2>2, <3>1, <3>2
  <2> QED BY <2>3, <2>4
<1> HIDE DEF S
<1>5. Len(t) \in S
  <2>1. 0..Len(t) \subseteq S
    BY <1>1, <1>3, <1>4, Induction
  <2> QED BY <1>1, <2>1
<1> DEFINE p == turn[Len(t)]
<1>6. PICK k \in Nat : InRequest(t, r, k, p) /\ (p.state # "abort" => k >= Len(t))
  BY <1>5 DEF S
<1> HIDE DEF p
<1>7. ~Running(t, p)
  BY <1>1, <1>6 DEF InRequest, Running
<1>8. /\ p.state = "abort" <=> Len(t) \in AbortCuts(r)
      /\ p.state # "abort" => Came(t, r, Len(t), p)
  BY <1>6, <1>7, RequestEnds
<1> QED BY <1>2, <1>8 DEF p

\* A whole request with a header is decoded, whatever follows it.
LEMMA DecodesWholeRequest ==
    ASSUME NEW r \in Requests, NEW C, NEW t \in Seq(C), HoldsRequest(t, r),
           Len(r.headers) > 0, Len(Request(r)) <= Len(t)
    PROVE  DecodeMessage(t).state # "abort" /\ Came(t, r, Len(t), DecodeMessage(t))
<1>1. PICK b \in Seq(Characters) : b = r.body
  BY PartTypes
<1>2. BodyAt(r) \in Nat /\ Len(Request(r)) = BodyAt(r) + Len(b)
  BY <1>1, RequestLength
<1>3. Len(b) \in Nat /\ Len(t) \in Nat
  OBVIOUS
<1>4. BodyAt(r) <= Len(t)
  BY <1>2, <1>3
<1>5. Len(t) \notin AbortCuts(r)
  BY <1>2, <1>3, <1>4, CutsFollow
<1> DEFINE p == DecodeMessage(t)
<1>6. /\ p.state = "abort" <=> Len(t) \in AbortCuts(r)
      /\ p.state # "abort" => Came(t, r, Len(t), p)
  BY DecodesRequest
<1> QED BY <1>5, <1>6

-----------------------------------------------------------------------------
(* Requests that are cut off. *)

\* Of every request that the text is the beginning of, the parser is at some place.
InEveryCut ==
    /\ text \in Texts
    /\ \A r \in Cut : InRequest(text, r, parser.index, parser)

\* The beginning of a request has its words at their places.
LEMMA PrefixHolds ==
    ASSUME NEW r \in Requests, NEW t \in Seq(Characters), IsPrefix(t, Request(r))
    PROVE  HoldsRequest(t, r) /\ Len(t) <= Len(Request(r))
<1>1. PICK b \in Seq(Characters) : b = r.body
  BY PartTypes
<1>2. PICK w \in Seq(Characters) : w = Request(r)
  BY <1>1, RequestLength
<1>3. Len(t) <= Len(w) /\ SubSeq(t, 1, Len(t)) = SubSeq(w, 1, Len(t))
  BY <1>2 DEF IsPrefix
<1>4. Len(t) \in Nat /\ Len(w) \in Nat
  OBVIOUS
<1>5. ASSUME NEW i \in 1..Len(w), 0 + i <= Len(t)
      PROVE  t[0 + i] = w[i]
  <2>1. i \in 1..Len(t) /\ 0 + i = i
    BY <1>4, <1>5
  <2>2. SubSeq(t, 1, Len(t))[i] = t[i] /\ SubSeq(w, 1, Len(t))[i] = w[i]
    BY <1>3, <1>4, <2>1
  <2> QED BY <1>3, <2>1, <2>2
<1>6. WordAt(t, 0, w)
  BY <1>5 DEF WordAt
<1> QED BY <1>2, <1>3, <1>6, RequestWords

LEMMA CutHolds ==
    ASSUME NEW r \in Cut, text \in Texts
    PROVE  /\ r \in Requests /\ text \in Seq(Characters)
           /\ HoldsRequest(text, r) /\ Len(text) <= Len(Request(r))
BY TextsAssumption, PrefixHolds DEF Cut

LEMMA ParserStarts == ParserInit => InEveryCut
<1> SUFFICES ASSUME ParserInit PROVE InEveryCut
  OBVIOUS
<1>1. text \in Texts /\ parser = Start
  BY DEF ParserInit
<1>2. Start.index = 0
  BY DEF Start
<1> QED BY <1>1, <1>2, CutHolds, RequestStarts DEF InEveryCut

LEMMA ParserContinues == InEveryCut /\ [ParserNext]_parserVars => InEveryCut'
<1> SUFFICES ASSUME InEveryCut, [ParserNext]_parserVars PROVE InEveryCut'
  OBVIOUS
<1>1. CASE UNCHANGED parserVars
  BY <1>1 DEF InEveryCut, Cut, parserVars
<1>2. CASE ParserNext
  <2>1. Running(text, parser) /\ parser' = Process(text, parser) /\ text' = text
    BY <1>2 DEF ParserNext
  <2>2. text \in Texts /\ Cut' = Cut
    BY <2>1 DEF InEveryCut, Cut
  <2>3. ASSUME NEW r \in Cut PROVE InRequest(text, r, parser'.index, parser')
    <3>1. /\ r \in Requests /\ text \in Seq(Characters)
          /\ HoldsRequest(text, r) /\ Len(text) <= Len(Request(r))
      BY <2>2, CutHolds
    <3>2. InRequest(text, r, parser.index, parser)
      BY DEF InEveryCut
    <3>3. Moves(text, r, parser.index, Process(text, parser))
      BY <2>1, <3>1, <3>2, RequestContinues
    <3>4. PICK n \in Nat : InRequest(text, r, n, parser')
      BY <2>1, <3>3 DEF Moves
    <3>5. parser'.index = n
      BY <3>4 DEF InRequest
    <3> QED BY <3>4, <3>5
  <2> QED BY <2>1, <2>2, <2>3 DEF InEveryCut
<1> QED BY <1>1, <1>2

\* What the parser has when it ends, and where it aborts.
LEMMA CutEnds ==
    ASSUME NEW r \in Cut, InEveryCut, Ended
    PROVE  /\ parser.state = "abort" <=> Len(text) \in AbortCuts(r)
           /\ parser.state # "abort" => Came(text, r, Len(text), parser)
<1>1. /\ r \in Requests /\ text \in Seq(Characters)
  BY CutHolds DEF InEveryCut
<1>2. InRequest(text, r, parser.index, parser)
  BY DEF InEveryCut
<1> QED BY <1>1, <1>2, RequestEnds DEF Ended

\* A request that HttpMessageImpl::DecodeMessage gets only the beginning of is decoded,
\* if it is, to those of its parts that came whole: no part is cut short or taken for
\* another one, whatever the words of the request are and however many headers it has.
THEOREM CutDecodesWhatCame == ParserSpec => []DecodesWhatCame
<1>1. InEveryCut => DecodesWhatCame
  <2> SUFFICES ASSUME InEveryCut, Ended, parser.state # "abort", NEW r \in Cut
               PROVE  LET k == Len(text)
                          body == Len(HeadOf(r, Len(r.headers))) + 2
                      IN  /\ parser.method = IF k > Len(r.method) THEN Found(r.method)
                                             ELSE Undefined
                          /\ parser.uri =
                                IF k >= Len(r.method \o r.uri) + 2 THEN r.uri ELSE <<>>
                          /\ parser.protocol =
                                IF k >= Len(RequestLine(r)) THEN r.protocol ELSE <<>>
                          /\ parser.header = HeaderOf(r, k)
                          /\ parser.body = IF k > body /\ r.headers # <<>>
                                            THEN SubSeq(text, body + 1, k) ELSE <<>>
    BY DEF DecodesWhatCame
  <2>1. r \in Requests
    BY CutHolds DEF InEveryCut
  <2> DEFINE k == Len(text)
  <2>2. Decoded(parser, MethodCame(r, k), UriCame(r, k), ProtocolCame(r, k), HeaderOf(r, k),
                BodyCame(text, r, k))
    BY CutEnds DEF Came
  <2>3. PICK m \in Seq(Characters) : m = r.method
    BY <2>1, PartTypes
  <2>4. PICK u \in Seq(Characters) : u = r.uri
    BY <2>1, PartTypes
  <2>5. PICK l \in Seq(Characters) : l = r.protocol
    BY <2>1, PartTypes
  <2>6. Len(m \o u) + 2 = ProtocolAt(m, u)
    <3>1. Len(m \o u) = Len(m) + Len(u)
      BY ConcatProperties
    <3> QED BY <3>1 DEF ProtocolAt
  <2>7. Len(RequestLine(r)) = NameAt(r, 1)
    BY <2>1, <2>3, <2>4, <2>5, FirstPlace
  <2>8. Len(HeadOf(r, Len(r.headers))) + 2 = BodyAt(r)
    <3>1. (Len(r.headers) + 1) - 1 = Len(r.headers)
      BY <2>1, PartTypes
    <3> QED BY <3>1 DEF BodyAt, EmptyLineAt, NameAt
  <2>9. r.headers # <<>> <=> Len(r.headers) > 0
    <3>1. r.headers \in Seq([name : Without({COLON, CR}), value : Without({CR})])
      <4>1. r \in [method : Without({SP}), uri : Without({SP}), protocol : Without({CR}),
                   headers : Seq([name : Without({COLON, CR}), value : Without({CR})]),
                   body : Seq(Characters)]
        BY <2>1, RequestAssumption, Zenon
      <4> QED BY <4>1
    <3> QED BY <3>1
  <2> HIDE DEF k
  <2> QED BY <2>2, <2>3, <2>4, <2>6, <2>7, <2>8, <2>9
          DEF Decoded, MethodCame, UriCame, ProtocolCame, BodyCame, k
<1>2. ParserSpec => []InEveryCut
  BY ParserStarts, ParserContinues, PTL DEF ParserSpec
<1> QED BY <1>1, <1>2, PTL

\* The asserts of DecodeMessage end the process for a request that is cut off after the
\* CR of a line, after a header's colon, after a header's line or after the CR of the
\* empty line, and for a request that is cut off anywhere else, or not at all, they do
\* not: for every request, not only for the short ones of the run.
THEOREM CutAborts == ParserSpec => []AbortsAtCuts
<1>1. InEveryCut => AbortsAtCuts
  BY CutEnds DEF AbortsAtCuts
<1>2. ParserSpec => []InEveryCut
  BY ParserStarts, ParserContinues, PTL DEF ParserSpec
<1> QED BY <1>1, <1>2, PTL
=============================================================================
