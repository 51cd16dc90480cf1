---------------------------- MODULE HttpMessages ----------------------------
(***************************************************************************)
(* HttpMessageImpl::DecodeMessage: one pass over the characters of a        *)
(* request, with assert on every character it looks ahead to.               *)
(*                                                                         *)
(* A text is a sequence of characters, and a character is one of the few     *)
(* the parser tells apart, or a letter that stands for a word: a method, a   *)
(* path, a name, a value.                                                   *)
(***************************************************************************)
EXTENDS Integers, Sequences

CONSTANTS
    Characters,        \* the characters of requests
    MethodNames,       \* the words that httpMethodMap knows
    Requests           \* what clients mean to send: records [method, uri,
                       \* protocol, headers, body], headers of [name, value]

SP == "sp"
CR == "cr"
LF == "lf"
COLON == ":"

\* What end()->second, or an HttpMethod that nobody assigned, is read as.
Undefined == <<"undefined">>

ASSUME MethodAssumption == Undefined \notin MethodNames

Without(some) == Seq(Characters \ some)

\* No part of a request holds the character that ends it, and where no header
\* announces a body there is none that could be taken for a header.
ASSUME RequestAssumption ==
    /\ {SP, CR, LF, COLON} \subseteq Characters
    /\ Requests \subseteq
          [method : Without({SP}), uri : Without({SP}), protocol : Without({CR}),
           headers : Seq([name : Without({COLON, CR}), value : Without({CR})]),
           body : Seq(Characters)]
    /\ \A r \in Requests : r.headers = <<>> => r.body \in Without({COLON})

\* The parser at its first character.  index counts what is consumed.
Start == [state |-> "method", index |-> 0, buffer |-> <<>>, name |-> <<>>,
          method |-> Undefined, uri |-> <<>>, protocol |-> <<>>,
          header |-> <<>>, body |-> <<>>]

\* buffer.push_back, and n characters are consumed.
Push(p, chr, n) == [p EXCEPT !.buffer = Append(@, chr), !.index = @ + n]

\* transformState, and n characters are consumed.
Transform(p, state, n) ==
    [p EXCEPT !.state = state, !.buffer = <<>>, !.index = @ + n]

Abort(p) == [p EXCEPT !.state = "abort"]

Found(word) == IF word \in MethodNames THEN word ELSE Undefined

ProcessMethod(p, chr) ==
    IF chr = SP THEN [Transform(p, "resource", 1) EXCEPT !.method = Found(p.buffer)]
    ELSE Push(p, chr, 1)

ProcessResource(p, chr) ==
    IF chr = SP THEN [Transform(p, "protocol", 1) EXCEPT !.uri = p.buffer]
    ELSE Push(p, chr, 1)

\* The character after the present one is consumed to be compared with second:
\* if it differs it is gone.
Lookahead(t, p, second, Then(_)) ==
    CASE p.index + 2 > Len(t) -> Abort(p)
      [] p.index + 2 <= Len(t) /\ t[p.index + 2] = second -> Then(p)
      [] OTHER -> Push(p, t[p.index + 1], 2)

ProcessProtocol(t, p, chr) ==
    IF chr = CR
    THEN Lookahead(t, p, LF,
                   LAMBDA q : [Transform(q, "name", 2) EXCEPT !.protocol = q.buffer])
    ELSE Push(p, chr, 1)

ProcessHeaderName(t, p, chr) ==
    IF chr = COLON
    THEN Lookahead(t, p, SP,
                   LAMBDA q : [Transform(q, "value", 2) EXCEPT !.name = q.buffer])
    ELSE Push(p, chr, 1)

\* Bug: peek(1) is left out.
EndOfHeader_OnePeek(t, q) ==
    CASE q.index + 1 > Len(t) -> Abort(q)
      [] q.index + 1 <= Len(t) /\ t[q.index + 1] = CR -> Transform(q, "content", 2)
      [] OTHER -> Transform(q, "name", 0)

\* Bug: the first character of the body is looked at too.
EndOfHeader_Body(t, q) ==
    CASE q.index + 3 > Len(t) -> Abort(q)
      [] q.index + 3 <= Len(t) /\ SubSeq(t, q.index + 1, q.index + 2) = <<CR, LF>> ->
            Transform(q, "content", 2)
      [] OTHER -> Transform(q, "name", 0)

\* After the line of a header the parser peeks for the empty line.  The second
\* peek happens only if the first sees a CR.
EndOfHeader(t, q) ==
    CASE \/ q.index + 1 > Len(t)
         \/ q.index + 1 = Len(t) /\ t[q.index + 1] = CR -> Abort(q)
      [] q.index + 2 <= Len(t) /\ SubSeq(t, q.index + 1, q.index + 2) = <<CR, LF>> ->
            Transform(q, "content", 2)
      [] OTHER -> Transform(q, "name", 0)

\* map::insert keeps the first value of a name.
Insert(header, name, value) ==
    [n \in DOMAIN header \cup {name} |->
        IF n \in DOMAIN header THEN header[n] ELSE value]

\* Bug: the last value of a name is kept.
ProcessHeaderValue_Last(t, p, chr) ==
    IF chr = CR
    THEN Lookahead(t, p, LF,
                   LAMBDA q : EndOfHeader(t, [Transform(q, "value", 2) EXCEPT
                                                !.header = [Insert(@, q.name, q.buffer)
                                                              EXCEPT ![q.name] = q.buffer]]))
    ELSE Push(p, chr, 1)

ProcessHeaderValue(t, p, chr) ==
    IF chr = CR
    THEN Lookahead(t, p, LF,
                   LAMBDA q : EndOfHeader(t, [Transform(q, "value", 2) EXCEPT
                                                !.header = Insert(@, q.name, q.buffer)]))
    ELSE Push(p, chr, 1)

\* The body is stored with the last character.
ProcessContent(t, p, chr) ==
    LET q == Push(p, chr, 1)
    IN  IF q.index = Len(t) THEN [q EXCEPT !.body = q.buffer] ELSE q

\* One turn of the loop.
Process(t, p) ==
    LET chr == t[p.index + 1]
    IN  CASE p.state = "method" -> ProcessMethod(p, chr)
          [] p.state = "resource" -> ProcessResource(p, chr)
          [] p.state = "protocol" -> ProcessProtocol(t, p, chr)
          [] p.state = "name" -> ProcessHeaderName(t, p, chr)
          [] p.state = "value" -> ProcessHeaderValue(t, p, chr)
          [] p.state = "content" -> ProcessContent(t, p, chr)

Running(t, p) == p.state # "abort" /\ p.index < Len(t)

\* DecodeMessage as a function: the parser when it returns, or aborts.  (CHOOSE
\* from a set of one names the parser of the turn before.)
DecodeMessage(t) ==
    LET turn[n \in 0..Len(t)] ==
            IF n = 0 THEN Start
            ELSE CHOOSE q \in {IF Running(t, p) THEN Process(t, p) ELSE p :
                                  p \in {turn[n - 1]}} : TRUE
    IN  turn[Len(t)]

(* What a client writes: the reference that the parser is compared with. *)
RequestLine(r) == r.method \o <<SP>> \o r.uri \o <<SP>> \o r.protocol \o <<CR, LF>>
HeaderLine(h) == h.name \o <<COLON, SP>> \o h.value \o <<CR, LF>>

\* The request line and the first n headers.
HeadOf(r, n) ==
    LET lines[i \in 0..n] == IF i = 0 THEN RequestLine(r)
                             ELSE lines[i - 1] \o HeaderLine(r.headers[i])
    IN  lines[n]

Request(r) == HeadOf(r, Len(r.headers)) \o <<CR, LF>> \o r.body

\* The headers that are complete in the first k characters; the first of a name
\* counts.
Complete(r, k) == {i \in DOMAIN r.headers : Len(HeadOf(r, i)) <= k}
HeaderOf(r, k) ==
    [n \in {r.headers[i].name : i \in Complete(r, k)} |->
        LET i == CHOOSE i \in Complete(r, k) :
                    /\ r.headers[i].name = n
                    /\ \A j \in 1..(i - 1) : r.headers[j].name # n
        IN  r.headers[i].value]

\* Where a segment must not end: after the CR of a line, after the colon of a
\* header, after a header's line, and after the CR of the empty line.
AbortCuts(r) ==
    {Len(RequestLine(r)) - 1}
    \cup {Len(HeadOf(r, n)) + 1 : n \in {Len(r.headers)} \ {0}}
    \cup UNION {{Len(HeadOf(r, i - 1) \o r.headers[i].name) + 1,
                 Len(HeadOf(r, i)) - 1, Len(HeadOf(r, i))} : i \in DOMAIN r.headers}
=============================================================================
