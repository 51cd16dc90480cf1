---------------------------- MODULE MCJsonValues ----------------------------
(* Texts of brackets, quotes and commas, texts of numbers, and values of every *)
(* type with arrays in arrays.                                               *)
EXTENDS JsonTexts

SeqsUpTo(S, n) == UNION {[1..k -> S] : k \in 0..n}

MCEscaped == {Quote, Backslash, "\n"}

Scalars ==
    {Null, Boolean(TRUE), Boolean(FALSE)}
    \cup {Integer(n) : n \in -8..7}
    \cup {String(s) : s \in SeqsUpTo({Quote, Backslash, ",", "[", "]", "a"}, 2)}

\* Elements worth having beside others.
Chosen ==
    {Null, Boolean(FALSE), Integer(-8), Integer(0), String(<<>>), String(<<",", "]">>),
     String(<<Backslash>>), String(<<"[", Backslash>>), String(<<Quote, ",">>)}

Flat == {Array(vs) : vs \in SeqsUpTo(Chosen, 2)}

Deep == {Array(<<String(<<"]">>)>>), Array(<<Array(<<String(<<"]">>)>>)>>)}

MCValues == Scalars \cup {Array(<<v>>) : v \in Scalars} \cup Flat
            \cup {Array(<<Null, Integer(7)>>)} \cup Deep
            \cup {Array(vs) : vs \in SeqsUpTo({Array(<<>>), Array(<<Null, Integer(7)>>),
                                Array(<<Array(<<String(<<"]">>)>>)>>), Boolean(TRUE)}, 3)}

RECURSIVE DepthOf(_)
DepthOf(v) ==
    IF v.type # "Array" THEN 0
    ELSE 1 + Max({0} \cup {DepthOf(v.arrayValue[i]) : i \in DOMAIN v.arrayValue})

MCDepth == [v \in MCValues |-> DepthOf(v)]

MCTexts ==
    {Written[v] : v \in MCValues}
    \cup {<<"[">> \o s \o <<"]">> : s \in SeqsUpTo({"[", "]", ",", Quote, "1"}, 6)}
    \cup SeqsUpTo({"[", "]", ",", Quote, Backslash}, 4)
    \cup SeqsUpTo({"-", "+", ".", "e", "0", "7", "8"}, 5)
    \cup {<<"{", "}">>, <<"true", "1">>, <<"E">>, <<"7", "E", "7">>}

MCCharacters == Symbols \cup UNION {ToSet(s) : s \in MCTexts}
=============================================================================
