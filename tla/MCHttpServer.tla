---------------------------- MODULE MCHttpServer ----------------------------
(* Two clients of an HttpServer with two pages.  A segment may end within the   *)
(* request line, before and after it, and where DecodeMessage looks ahead.    *)
EXTENDS HttpServer

MCCharacters == {"G", "P", "D", "H", "/", "x", "h", "v", SP, CR, LF, COLON}

MCMethodNames == {<<"G">>, <<"P">>}

MCRoutes == {Route(<<"/">>, <<"G">>), Route(<<"x">>, <<"G">>)}

Header == [name |-> <<"h">>, value |-> <<"v">>]

HttpRequest(method, uri, headers) ==
    [method |-> method, uri |-> uri, protocol |-> <<"H">>, headers |-> headers,
     body |-> <<>>]

MCRequests ==
    {HttpRequest(<<"G">>, <<"/">>, <<Header>>), HttpRequest(<<"D">>, <<"x">>, <<Header>>),
     HttpRequest(<<"G">>, <<"x">>, <<>>)}

MCLeftovers == {[i \in 1..Size |-> NUL]}
=============================================================================
