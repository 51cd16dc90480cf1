-------------------------- MODULE TemplateRendering --------------------------
(***************************************************************************)
(* What a tree of TemplateEngine renders to, and what an operation on one    *)
(* block changes of that.                                                   *)
(***************************************************************************)
EXTENDS TemplateEngine

\* Directory::Find.
FindIn(properties, key) == IF key \in DOMAIN properties THEN properties[key] ELSE <<>>

\* Fragment::Render of y in a directory with these properties; shown is what the
\* blocks render to, for which the directory does not count.
RenderFragment(h, y, properties, shown) ==
    CASE h[y].type = "TEXT" -> h[y].value
      [] h[y].type = "VAR" -> FindIn(properties, h[y].value)
      [] h[y].type = "BLOCK" -> shown[y]

\* All that hangs on the block x, in its directory.
RenderFragments(h, x, shown) ==
    FlattenSeq([i \in DOMAIN h[x].fragments |->
                   RenderFragment(h, h[x].fragments[i], h[x].properties, shown)])

RenderNodes(h, x, shown) ==
    FlattenSeq([i \in DOMAIN h[x].nodes |-> shown[h[x].nodes[i]]])

\* Block::Render.
RenderBlock(h, x, shown) ==
    CASE ~h[x].enable -> <<>>
      [] h[x].enable /\ h[x].resized -> RenderNodes(h, x, shown)
      [] h[x].enable /\ ~h[x].resized -> RenderFragments(h, x, shown)

\* What the block x shows.
Shows(h, x) == LET shown[y \in DOMAIN h] == RenderBlock(h, y, shown) IN shown[x]

\* TemplateEngine::Render: enable and resized of the engine itself do not count.
RenderToText(h) == RenderFragments(h, Root, [y \in DOMAIN h |-> Shows(h, y)])

-----------------------------------------------------------------------------
\* x as it would be if nothing below it had been disabled or repeated.
Pristine(h, x) ==
    [y \in DOMAIN h |-> IF y \in Prototype(h, x)
                        THEN [h[y] EXCEPT !.enable = TRUE, !.resized = FALSE] ELSE h[y]]

\* The blocks of xs that do not show in g what they do in h.
Changed(h, g, xs) ==
    {x \in xs : h[x].type = "BLOCK" /\ (x \in DOMAIN g => Shows(h, x) # Shows(g, x))}

\* What happens to t between h and g shows in t only, of the blocks beside it, and in
\* none of its own.  If t is not repeated, it does not show in its copies; if it is,
\* they show what t does without anything that was done to its blocks.
LocalTo(t, h, g) ==
    /\ \A x \in DOMAIN h \ Below(h, t) : Cardinality(Changed(h, g, Children(h, x))) <= 1
    /\ Changed(h, g, ToSet(h[t].fragments)) = {}
    /\ \/ g[t].nodes = h[t].nodes /\ Changed(h, g, ToSet(h[t].nodes)) = {}
       \/ \A y \in ToSet(g[t].nodes) : Shows(g, y) = Shows(Pristine(h, t), t)

\* An operation is local to the node it is called on: copies are independent of each
\* other and of what they are copied from.
OperationsAreLocal ==
    [][operations' > operations => \E t \in Nodes : LocalTo(t, heap, heap')]_vars
=============================================================================
