----------------------------- MODULE JsonValues -----------------------------
(***************************************************************************)
(* Json: ToString, and FromString, the loop of ParseArray one turn at a time *)
(* because it need not end.                                                 *)
(*                                                                         *)
(* A text is a sequence of characters; the words null, true and false count   *)
(* as one.  A double is kept as the decimal it is computed from, so that what *)
(* rounding does is left out.  The build asks for no optimisation, and an int *)
(* that overflows wraps.                                                    *)
(***************************************************************************)
EXTENDS Integers, SequencesExt, FiniteSets

CONSTANTS
    Characters,    \* what a text is made of
    Texts,         \* what FromString is given
    Escaped,       \* CHARACTERS_TO_ESCAPE_IN_QUOTED_STRING
    IntMax,        \* INT_MAX
    MaxElements    \* bound: the elements of an array, which may grow for ever

Quote == "\""
Backslash == "\\"
Comma == ","
Digits == <<"0", "1", "2", "3", "4", "5", "6", "7", "8", "9">>
IsDigit(ch) == ch \in ToSet(Digits)
DigitOf(ch) == (CHOOSE i \in DOMAIN Digits : Digits[i] = ch) - 1

\* What the texts of values need.
Symbols == ToSet(Digits) \cup {Quote, Backslash, Comma, "[", "]", "-", "null", "true", "false"}

ASSUME JsonAssumption == /\ Symbols \subseteq Characters
                         /\ Texts \subseteq Seq(Characters)
                         /\ IntMax \in Nat
                         /\ MaxElements \in Nat
                         /\ {Quote, Backslash} \subseteq Escaped

\* The values: the constructors of Json.
Invalid == [type |-> "INVALID"]
Null == [type |-> "Null"]
Boolean(b) == [type |-> "Boolean", booleanValue |-> b]
String(s) == [type |-> "String", strValue |-> s]
Integer(n) == [type |-> "Integer", intValue |-> n]
\* mantissa times ten to the exponent.
Float(mantissa, exponent) ==
    [type |-> "Float", mantissa |-> mantissa, exponent |-> exponent]
Array(vs) == [type |-> "Array", arrayValue |-> vs]

\* Step for each character of s.  What the steps so far give is a bound variable, so
\* that TLC evaluates it once.
Fold(Step(_, _), base, s) ==
    LET after[i \in 0..Len(s)] ==
            IF i = 0 THEN base
            ELSE CHOOSE next \in {Step(now, s[i]) : now \in {after[i - 1]}} : TRUE
    IN  after[Len(s)]

-----------------------------------------------------------------------------
(* Strings. *)

Escape(s) ==
    FlattenSeq([i \in DOMAIN s |-> IF s[i] \in Escaped THEN <<Backslash, s[i]>> ELSE <<s[i]>>])

\* Bug: a backslash behind a backslash is taken for the begin of another escape.
UnEscape_NoPairs(s) == SelectSeq(s, LAMBDA ch : ch # Backslash)

\* A backslash goes, unless another that went stands before it.
UnEscapeStep(r, ch) ==
    IF ~r.escape /\ ch = Backslash THEN [r EXCEPT !.escape = TRUE]
    ELSE [output |-> Append(r.output, ch), escape |-> FALSE]

UnEscape(s) == Fold(UnEscapeStep, [output |-> <<>>, escape |-> FALSE], s).output

-----------------------------------------------------------------------------
(* Numbers. *)

Wrap(n) == ((n + IntMax + 1) % (2 * (IntMax + 1))) - (IntMax + 1)

\* One character in the loop of ParseInteger.
IntegerStep(p, ch) ==
    LET state == IF p.state = "MINUS" /\ ch # "-" THEN "NUMBER" ELSE p.state
    IN  CASE state = "MINUS" -> [p EXCEPT !.state = "NUMBER", !.negative = TRUE]
          [] state = "NUMBER" /\ IsDigit(ch) ->
                [p EXCEPT !.state = IF ch = "0" THEN "ZERO" ELSE "DIGIT", !.value = DigitOf(ch)]
          [] state = "DIGIT" /\ IsDigit(ch) -> [p EXCEPT !.value = Wrap(@ * 10 + DigitOf(ch))]
          [] OTHER -> [p EXCEPT !.state = "INVALID"]

ParseInteger(s) ==
    LET p == Fold(IntegerStep, [state |-> "MINUS", negative |-> FALSE, value |-> 0], s)
    IN  IF p.state \in {"INVALID", "MINUS"} THEN Invalid
        ELSE Integer(Wrap(IF p.negative THEN -p.value ELSE p.value))

\* One character in the loop of ParseFloat, after the turns that consume none.
\* PARSE_ZERO falls through to PARSE_DIGIT.
FloatStep(p, ch) ==
    LET state == CASE p.state = "MINUS" /\ ch # "-" -> "NUMBER"
                   [] p.state = "ZERO" -> "DIGIT"
                   [] p.state = "EXP" /\ ch \notin {"+", "-"} -> "EXP_DIGITS"
                   [] p.state = "EXP_DIGIT" -> "EXP_DIGITS"
                   [] OTHER -> p.state
    IN  CASE state = "MINUS" -> [p EXCEPT !.state = "NUMBER", !.negative = TRUE]
          [] state = "NUMBER" /\ IsDigit(ch) ->
                [p EXCEPT !.state = IF ch = "0" THEN "ZERO" ELSE "DIGIT", !.value = DigitOf(ch)]
          [] state = "DIGIT" /\ IsDigit(ch) ->
                [p EXCEPT !.state = "DIGIT", !.value = @ * 10 + DigitOf(ch)]
          [] state = "DIGIT" /\ ch = "." -> [p EXCEPT !.state = "FRAC_DIGIT"]
          [] state \in {"FRAC_DIGIT", "FRAC_DIGITS"} /\ IsDigit(ch) ->
                [p EXCEPT !.state = "FRAC_DIGITS", !.value = @ * 10 + DigitOf(ch),
                          !.fractionDigits = @ + 1]
          [] state \in {"DIGIT", "FRAC_DIGITS"} /\ ch \in {"e", "E"} -> [p EXCEPT !.state = "EXP"]
          [] state = "EXP" -> [p EXCEPT !.state = "EXP_DIGIT", !.negativeExponent = ch = "-"]
          [] state = "EXP_DIGITS" /\ IsDigit(ch) ->
                [p EXCEPT !.state = "EXP_DIGITS", !.exponent = @ * 10 + DigitOf(ch)]
          [] OTHER -> [p EXCEPT !.state = "INVALID"]

FloatAfter(s) ==
    Fold(FloatStep, [state |-> "MINUS", negative |-> FALSE, negativeExponent |-> FALSE,
                     value |-> 0, fractionDigits |-> 0, exponent |-> 0], s)

\* What ParseFloat returns for the state its loop ends in.
FloatOf(p) ==
    Float(IF p.negative THEN -p.value ELSE p.value,
          (IF p.negativeExponent THEN -p.exponent ELSE p.exponent) - p.fractionDigits)

\* Bug: the states a number may not end in are forgotten.
ParseFloat_AnyEnd(s) ==
    LET p == FloatAfter(s)
    IN  IF p.state = "INVALID" THEN Invalid ELSE FloatOf(p)

ParseFloat(s) ==
    LET p == FloatAfter(s)
    IN  IF p.state \in {"INVALID", "MINUS", "FRAC_DIGIT", "EXP", "EXP_DIGIT"}
        THEN Invalid ELSE FloatOf(p)

-----------------------------------------------------------------------------
(* FromString. *)

Inner(s) == SubSeq(s, 2, Len(s) - 1)

IsArray(s) == s # <<>> /\ s[1] = "[" /\ Last(s) = "]"

\* FromString of what is no array.
ParseScalar(s) ==
    CASE s = <<>> \/ s[1] = "{" -> Invalid
      [] s # <<>> /\ s[1] = Quote /\ Last(s) = Quote -> String(UnEscape(Inner(s)))
      [] s = <<"null">> -> Null
      [] s = <<"true">> -> Boolean(TRUE)
      [] s = <<"false">> -> Boolean(FALSE)
      [] OTHER -> IF ToSet(s) \cap {"+", ".", "e", "E"} # {}
                  THEN ParseFloat(s) ELSE ParseInteger(s)

\* One character in the loop of ParseValueStr; "ended" is its break.
ScanStep(r, ch) ==
    LET taken == [r EXCEPT !.values = Append(@, ch)]
        open == r.expectedDelimiters # <<>>
    IN  CASE r.ended -> r
          [] ~r.ended /\ open /\ ch = Last(r.expectedDelimiters) ->
                [taken EXCEPT !.isInsideStr = FALSE, !.expectedDelimiters = Front(@)]
          [] ~r.ended /\ ~r.isInsideStr /\ ch = Quote ->
                [taken EXCEPT !.isInsideStr = TRUE, !.expectedDelimiters = Append(@, Quote)]
          [] ~r.ended /\ ~r.isInsideStr /\ ch = "[" ->
                [taken EXCEPT !.expectedDelimiters = Append(@, "]")]
          [] ~r.ended /\ ~open /\ ch = Comma -> [taken EXCEPT !.ended = TRUE]
          [] OTHER -> taken

Scanned(s, offset) ==
    Fold(ScanStep, [expectedDelimiters |-> <<>>, isInsideStr |-> FALSE,
                    values |-> <<>>, ended |-> FALSE],
         SubSeq(s, offset + 1, Len(s)))

WithoutComma(s) == IF Last(s) = Comma THEN Front(s) ELSE s

\* Bug: what is not closed is passed over.
ParseValueStr_SkipsUnclosed(s, offset) ==
    LET r == Scanned(s, offset)
    IN  IF r.expectedDelimiters = <<>>
        THEN [valueStr |-> WithoutComma(r.values), offset |-> offset + Len(r.values)]
        ELSE [valueStr |-> <<>>, offset |-> Len(s)]

\* The text of the element at offset and the offset behind it and its comma; what
\* is not closed gives the empty text and leaves the offset alone.
ParseValueStr(s, offset) ==
    LET r == Scanned(s, offset)
    IN  IF r.expectedDelimiters = <<>>
        THEN [valueStr |-> WithoutComma(r.values), offset |-> offset + Len(r.values)]
        ELSE [valueStr |-> <<>>, offset |-> offset]

-----------------------------------------------------------------------------
(* ToString.  Digits without a leading zero, "-" before what is negative; a      *)
(* double with six digits behind the point is left out.                         *)

NumberText(n) ==
    LET digits[m \in 0..n] ==
            IF m < 10 THEN <<Digits[m + 1]>> ELSE Append(digits[m \div 10], Digits[(m % 10) + 1])
    IN  digits[n]

TextOf(v) ==
    CASE v.type = "Null" -> <<"null">>
      [] v.type = "Boolean" -> <<IF v.booleanValue THEN "true" ELSE "false">>
      [] v.type = "String" -> <<Quote>> \o Escape(v.strValue) \o <<Quote>>
      [] v.type = "Integer" -> IF v.intValue < 0 THEN <<"-">> \o NumberText(-v.intValue)
                               ELSE NumberText(v.intValue)
      [] OTHER -> <<"Invalid">>

-----------------------------------------------------------------------------
(* One call of FromString. *)

VARIABLES
    text,        \* what it is given
    calls,       \* the calls of ParseArray, the innermost last
    value        \* what is returned, or NoValue

jsonVars == <<text, calls, value>>

NoValue == [type |-> "None"]

Call(s) == [str |-> Inner(s), offset |-> 0, newArrayValue |-> <<>>]

JsonInit ==
    /\ text \in Texts
    /\ calls = IF IsArray(text) THEN <<Call(text)>> ELSE <<>>
    /\ value = IF IsArray(text) THEN NoValue ELSE ParseScalar(text)

Top == Last(calls)

\* A turn of the loop: the next element, a call of its own if it is an array.
Element ==
    /\ calls # <<>>
    /\ Top.offset < Len(Top.str)
    /\ Len(Top.newArrayValue) < MaxElements
    /\ \E next \in {ParseValueStr(Top.str, Top.offset)} :
           LET passed == [Top EXCEPT !.offset = next.offset]
           IN  calls' = Front(calls) \o
                   IF IsArray(next.valueStr) THEN <<passed, Call(next.valueStr)>>
                   ELSE <<[passed EXCEPT !.newArrayValue = Append(@, ParseScalar(next.valueStr))]>>
    /\ UNCHANGED <<text, value>>

\* The end of the loop: the array goes to the caller's, or is the result.
Return ==
    /\ calls # <<>>
    /\ Top.offset >= Len(Top.str)
    /\ LET n == Len(calls)
           array == Array(Top.newArrayValue)
       IN  IF n = 1 THEN calls' = <<>> /\ value' = array
           ELSE /\ calls' = [Front(calls) EXCEPT ![n - 1].newArrayValue = Append(@, array)]
                /\ UNCHANGED value
    /\ UNCHANGED text

JsonNext == Element \/ Return

\* Nothing stops the loop.
JsonSpec == JsonInit /\ [][JsonNext]_jsonVars /\ WF_jsonVars(JsonNext)

-----------------------------------------------------------------------------
\* The numbers of RFC 7159: parts of s, of which the last two may be missing.
AllDigits(s) == s # <<>> /\ \A i \in DOMAIN s : IsDigit(s[i])
Unsigned(s, signs) == IF s # <<>> /\ s[1] \in signs THEN Tail(s) ELSE s
ExponentPart(s) ==
    s # <<>> => s[1] \in {"e", "E"} /\ AllDigits(Unsigned(Tail(s), {"+", "-"}))
FractionPart(s) == s # <<>> => s[1] = "." /\ AllDigits(Tail(s))
IntegerPart(s) == AllDigits(s) /\ (Len(s) > 1 => s[1] # "0")

Number(s, Whole(_)) ==
    LET digits == Unsigned(s, {"-"})
    IN  \E i \in 0..Len(digits) : \E j \in i..Len(digits) :
            /\ Whole(SubSeq(digits, 1, i))
            /\ FractionPart(SubSeq(digits, i + 1, j))
            /\ ExponentPart(SubSeq(digits, j + 1, Len(digits)))

\* What they say.
Decimal(s) ==
    LET first[i \in 0..Len(s)] == IF i = 0 THEN 0 ELSE first[i - 1] * 10 + DigitOf(s[i])
    IN  first[Len(s)]

\* FromString takes a number of RFC 7159 for a number, and nothing else but a lone
\* minus and a double with leading zeros; an integer that an int can hold is read
\* exactly.
ReadsNumbers ==
    (value # NoValue /\ ~IsArray(text)) =>
        /\ value.type \in {"Integer", "Float"} <=>
              \/ Number(text, IntegerPart)
              \/ text = <<"-">>
              \/ /\ Number(text, AllDigits)
                 /\ \E i \in DOMAIN text : text[i] \in {".", "e", "E"}
        /\ LET digits == Unsigned(text, {"-"})
               n == IF digits = text THEN Decimal(digits) ELSE -Decimal(digits)
           IN  (IntegerPart(digits) /\ n = Wrap(n)) => value = Integer(n)
=============================================================================
