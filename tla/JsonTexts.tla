----------------------------- MODULE JsonTexts -----------------------------
(***************************************************************************)
(* What JsonValues makes of the texts of values, and for which texts its     *)
(* loop ends.                                                               *)
(***************************************************************************)
EXTENDS JsonValues

CONSTANTS
    Values,    \* what is written and read back
    Depth      \* how deep the arrays in each are nested

IsScalar(v) ==
    \/ v \in {Null, Boolean(TRUE), Boolean(FALSE)}
    \/ v.type = "String" /\ v = String(v.strValue) /\ v.strValue \in Seq(Characters)
    \/ v.type = "Integer" /\ v = Integer(v.intValue) /\ v.intValue \in -(IntMax + 1)..IntMax

IsArrayOfLess(v) ==
    /\ v.type = "Array" /\ v = Array(v.arrayValue) /\ v.arrayValue \in Seq(Values)
    /\ \A i \in DOMAIN v.arrayValue : Depth[v.arrayValue[i]] < Depth[v]

ASSUME ValuesAssumption == /\ Depth \in [Values -> Nat]
                           /\ \A v \in Values : IsScalar(v) \/ IsArrayOfLess(v)

\* JSON's text of v.  ToString writes no arrays; this is how RFC 7159 does.
Written[v \in Values] ==
    IF v.type # "Array" THEN TextOf(v)
    ELSE <<"[">> \o FlattenSeq([i \in DOMAIN v.arrayValue |->
                        (IF i = 1 THEN <<>> ELSE <<Comma>>) \o Written[v.arrayValue[i]]]) \o <<"]">>

\* The values that each text is written from.
WrittenFrom == [t \in {Written[v] : v \in Values} |-> {v \in Values : Written[v] = t}]

StringsOf[v \in Values] ==
    IF v.type = "Array" THEN UNION {StringsOf[v.arrayValue[i]] : i \in DOMAIN v.arrayValue}
    ELSE IF v.type = "String" THEN {v.strValue} ELSE {}

\* A value written to its text and read back is the value, and so is an array of
\* them, unless a string in it holds a quote: ParseValueStr takes the escaped quote
\* for the end of the string.
ReadsWhatIsWritten ==
    (value # NoValue /\ text \in DOMAIN WrittenFrom) =>
        \A v \in WrittenFrom[text] :
            (v.type = "Array" => \A s \in StringsOf[v] : Quote \notin ToSet(s)) => value = v

-----------------------------------------------------------------------------
\* Of the characters of s: those in no string, as each quote begins or ends one; a
\* bracket is left open if from some place on more open than close.
Count(s, ch) == Cardinality({i \in DOMAIN s : s[i] = ch})
InString(s, i) == Count(SubSeq(s, 1, i - 1), Quote) % 2 = 1
Bare(s, i, ch) == s[i] = ch /\ ~InString(s, i)
Unclosed(s) ==
    \/ Count(s, Quote) % 2 = 1
    \/ \E k \in DOMAIN s : Cardinality({i \in k..Len(s) : Bare(s, i, "[")})
                             > Cardinality({i \in k..Len(s) : Bare(s, i, "]")})

\* The ends of s and the commas between its elements, and the elements.
Cuts(s) == {i \in DOMAIN s : s[i] = Comma /\ ~Unclosed(SubSeq(s, 1, i - 1))} \cup {0, Len(s) + 1}
Elements(s) ==
    {SubSeq(s, i + 1, Min({j \in Cuts(s) : i < j}) - 1) : i \in Cuts(s) \ {Len(s) + 1}}

Hangs[s \in Seq(Characters)] ==
    /\ IsArray(s)
    /\ Unclosed(Inner(s)) \/ \E e \in Elements(Inner(s)) : Hangs[e]

\* FromString returns, but for an array with something unclosed in it, at any
\* depth: for that it never does.
ReturnsUnlessUnclosed ==
    /\ ~Hangs[text] => <>(calls = <<>>)
    /\ Hangs[text] => [](calls # <<>>)
=============================================================================
