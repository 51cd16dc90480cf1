---------------------------- MODULE TemplateTexts ----------------------------
(***************************************************************************)
(* What a tree of TemplateEngine says of the pages it was loaded from.       *)
(***************************************************************************)
EXTENDS TemplateRendering

RECURSIVE Expanded(_, _)
\* What is written with every page that is included in place of its tag.
Expanded(pieces, including) ==
    IF pieces = <<>> THEN <<>>
    ELSE LET p == Head(pieces)
             here == CASE p.type # "INCLUDE" -> <<p>>
                       [] p.type = "INCLUDE" /\ p.value \notin DOMAIN site ->
                             <<Token("MISSING", p.value)>>
                       [] p.type = "INCLUDE" /\ p.value \in including ->
                             <<Token("CYCLE", p.value)>>
                       [] OTHER -> Expanded(site[p.value], including \cup {p.value})
         IN  here \o Expanded(Tail(pieces), including)

Whole == IF name \in DOMAIN site THEN Expanded(site[name], {name})
         ELSE <<Token("MISSING", name)>>

\* The nodes that are open after i pieces, the engine's own counted.
Depth(pieces, i) ==
    1 + Cardinality({k \in 1..i : pieces[k].type = "BLOCK"})
      - Cardinality({k \in 1..i : pieces[k].type = "END_BLOCK"})

\* The pieces that cannot be loaded: what is missing, what includes itself, and
\* anything that follows the end of a block that is not there.
Stops(pieces) ==
    {i \in DOMAIN pieces : pieces[i].type \in {"MISSING", "CYCLE"} \/ Depth(pieces, i - 1) = 0}

RECURSIVE Unparsed(_, _)
Unparsed(h, x) ==
    LET all == FlattenSeq([i \in DOMAIN h[x].fragments |-> Unparsed(h, h[x].fragments[i])])
    IN  CASE x = Root -> all
          [] x # Root /\ h[x].type = "BLOCK" -> Symbols(h[x]) \o all \o <<EndBlockTag>>
          [] OTHER -> Symbols(h[x])

\* A page that loads gives the tree of what is written in it and in the pages it
\* includes, blocks left open being closed at its end; and the pages that do not
\* load are those with a piece that stops it.
LoadIsExpansion ==
    name # NoName =>
        LET whole == Whole
            depth == Depth(whole, Len(whole))
        IN  /\ phase \in {"dead", "failed"} => Stops(whole) # {}
            /\ phase = "failed" => whole[Min(Stops(whole))].type = "MISSING"
            /\ phase = "ready" /\ operations = 0 =>
                  /\ Stops(whole) = {}
                  /\ IF depth = 0 THEN Append(Unparsed(heap, Root), EndBlockTag) = Written(whole)
                     ELSE Unparsed(heap, Root) =
                             Written(whole) \o [i \in 1..(depth - 1) |-> EndBlockTag]
=============================================================================
