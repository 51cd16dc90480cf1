-------------------------- MODULE MCTemplateEngine --------------------------
(* Sites of two pages for TemplateEngine: every page of up to MaxPieces pieces    *)
(* with every page of one or none to include, and a page to work on.           *)
EXTENDS TemplateTexts, TLC

CONSTANT MaxPieces

T(type, value) == Token(type, value)

\* The last is no tag: a variable's beginning with the end of a block's.
Pieces == {T("TEXT", <<"-">>), T("VAR", <<"k">>), T("BLOCK", <<"b">>), T("END_BLOCK", <<>>),
           T("INCLUDE", <<"i">>), T("INCLUDE", <<"m">>), T("TEXT", <<VarTag, "k", TagEnd>>)}

PagesOf(n) == UNION {[1..m -> Pieces] : m \in 0..n}

Site(main, included) == (<<"m">> :> main) @@ (<<"i">> :> included)

\* A list whose items have a detail.
WorkSite ==
    Site(<<T("BLOCK", <<"b">>), T("VAR", <<"k">>), T("BLOCK", <<"c">>), T("VAR", <<"k">>),
           T("END_BLOCK", <<>>), T("END_BLOCK", <<>>), T("VAR", <<"k">>)>>, <<>>)

MCWorking == {WorkSite}

MCSites ==
    {Site(main, included) : main \in PagesOf(MaxPieces), included \in PagesOf(1)}
    \cup {<<"m">> :> main : main \in PagesOf(2)}
    \cup {WorkSite}

MCNames == {<<"m">>}

MCValues == {<<"v">>, <<"w">>}
=============================================================================
