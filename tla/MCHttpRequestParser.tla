------------------------ MODULE MCHttpRequestParser ------------------------
(* Requests of a few words for HttpRequestParser, cut off at every place, and  *)
(* every short text.                                                          *)
EXTENDS HttpRequestParser

CONSTANT MaxLength    \* bound: the texts that are no requests

MCCharacters == {"G", "P", "D", "H", "a", "b", "x", SP, CR, LF, COLON}

MCMethodNames == {<<"G">>, <<"P">>}

Headers == [name : {<<"a">>, <<"b">>}, value : {<<"a">>, <<>>, <<"a", COLON, SP, LF>>}]

MCRequests ==
    [method : {<<"G">>, <<"D">>}, uri : {<<"a">>, <<"a", COLON, "b">>},
     protocol : {<<"H">>},
     headers : UNION {[1..n -> Headers] : n \in 0..2},
     body : {<<>>, <<"x", CR, LF>>}]

Prefixed(r) == {SubSeq(Request(r), 1, k) : k \in 0..Len(Request(r))}

MCTexts ==
    UNION {Prefixed(r) : r \in MCRequests}
    \cup UNION {[1..n -> {"G", SP, CR, LF, COLON}] : n \in 0..MaxLength}
=============================================================================
