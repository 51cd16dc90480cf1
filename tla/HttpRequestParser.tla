-------------------------- MODULE HttpRequestParser --------------------------
(***************************************************************************)
(* DecodeMessage character by character, over requests, beginnings of        *)
(* requests and texts that are neither.                                     *)
(***************************************************************************)
EXTENDS HttpMessages, SequencesExt, FiniteSets

CONSTANT Texts         \* what is received

ASSUME TextsAssumption == Texts \subseteq Seq(Characters)

VARIABLES text, parser

parserVars == <<text, parser>>

ParserInit == text \in Texts /\ parser = Start

ParserNext == Running(text, parser) /\ parser' = Process(text, parser) /\ UNCHANGED text

ParserSpec == ParserInit /\ [][ParserNext]_parserVars

-----------------------------------------------------------------------------

Ended == ~Running(text, parser)

\* The requests that text is the beginning of.
Cut == {r \in Requests : IsPrefix(text, Request(r))}

\* A request that is cut off anywhere decodes, if it does, to exactly those of
\* its parts that came whole, and to as much of the body as came.  A request
\* without a header has no body: its empty line is read as a name.
DecodesWhatCame ==
    Ended /\ parser.state # "abort" =>
        \A r \in Cut :
            LET k == Len(text)
                body == Len(HeadOf(r, Len(r.headers))) + 2
            IN  /\ parser.method = IF k > Len(r.method) THEN Found(r.method) ELSE Undefined
                /\ parser.uri =
                      IF k >= Len(r.method \o r.uri) + 2 THEN r.uri ELSE <<>>
                /\ parser.protocol = IF k >= Len(RequestLine(r)) THEN r.protocol ELSE <<>>
                /\ parser.header = HeaderOf(r, k)
                /\ parser.body = IF k > body /\ r.headers # <<>>
                                  THEN SubSeq(text, body + 1, k) ELSE <<>>

\* The asserts stop the process for a request that is cut off there, and for no
\* other part of a request.
AbortsAtCuts ==
    Ended => \A r \in Cut : parser.state = "abort" <=> Len(text) \in AbortCuts(r)
=============================================================================
