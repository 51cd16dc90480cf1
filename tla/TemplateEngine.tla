--------------------------- MODULE TemplateEngine ---------------------------
(***************************************************************************)
(* The template engine: Tokenizer cuts a page into tokens, LoadRecursive      *)
(* builds a tree of fragments from them and from the pages they include, and  *)
(* its user sets values, repeats blocks and renders.                         *)
(*                                                                         *)
(* A page is a sequence of symbols: the fixed parts of tags, the characters   *)
(* names are made of, and others.  The tree is a heap of objects with their   *)
(* identities, so that sharing and leaks could be seen.  What is undefined    *)
(* (an empty stack, the missing data of a missing file) ends in "dead".       *)
(***************************************************************************)
EXTENDS Integers, SequencesExt, FiniteSetsExt

CONSTANTS
    Sites,            \* sets of pages: functions from names to what is written,
                      \* a sequence of tags and of texts that hold none
    Names,            \* what is loaded
    AlphaNum,         \* the characters of names
    Values,           \* what is set
    Working,          \* bound: the sites whose trees are worked on
    MaxOperations     \* bound: operations between two loads

\* The symbols of tags.
BlockTag == "{% block "
EndBlockTag == "{% endBlock %}"
IncludeTag == "{% include "
VarTag == "{{ "
TagEnd == " %}"
VarEnd == " }}"

Token(type, value) == [type |-> type, value |-> value]

\* How a tag or a text is written.
Symbols(p) ==
    CASE p.type = "TEXT" -> p.value
      [] p.type = "BLOCK" -> <<BlockTag>> \o p.value \o <<TagEnd>>
      [] p.type = "END_BLOCK" -> <<EndBlockTag>>
      [] p.type = "INCLUDE" -> <<IncludeTag>> \o p.value \o <<TagEnd>>
      [] p.type = "VAR" -> <<VarTag>> \o p.value \o <<VarEnd>>

Written(pieces) == FlattenSeq([i \in DOMAIN pieces |-> Symbols(pieces[i])])

-----------------------------------------------------------------------------
(* Tokenizer. *)

\* Bug: the end of the tag is not compared.
Match_AnyEnd(open, close, text, pos) ==
    LET ends == {j \in (pos + 1)..Len(text) : text[j] \notin AlphaNum}
    IN  IF text[pos] = open /\ ends # {} THEN Min(ends) ELSE 0

\* MatchVar and MatchTagWithParam: the place of close, behind a name (which may
\* be empty) and open at pos; 0 if that is not there.
Match(open, close, text, pos) ==
    LET ends == {j \in (pos + 1)..Len(text) : text[j] \notin AlphaNum}
    IN  IF text[pos] = open /\ ends # {} /\ text[Min(ends)] = close THEN Min(ends) ELSE 0

\* The tag at pos, and its last place; TEXT if there is none.
TagAt(text, pos) ==
    LET block == Match(BlockTag, TagEnd, text, pos)
        include == Match(IncludeTag, TagEnd, text, pos)
        var == Match(VarTag, VarEnd, text, pos)
        Found(type, last) == [token |-> Token(type, SubSeq(text, pos + 1, last - 1)),
                              last |-> last]
    IN  CASE block > 0 -> Found("BLOCK", block)
          [] block = 0 /\ text[pos] = EndBlockTag -> Found("END_BLOCK", pos)
          [] include > 0 -> Found("INCLUDE", include)
          [] var > 0 -> Found("VAR", var)
          [] OTHER -> Found("TEXT", pos)

NewTokenizer(text) ==
    [text |-> text, position |-> 1, peekable |-> FALSE, currentToken |-> Token("END", <<>>)]

\* Tokenizer::Next, the token and the tokenizer after it.  Looking for the end of
\* a text finds the token behind it, which is returned the next time.
NextToken(z) ==
    LET tags == {q \in z.position..Len(z.text) : TagAt(z.text, q).token.type # "TEXT"}
        q == IF tags = {} THEN Len(z.text) + 1 ELSE Min(tags)
        tag == IF tags = {} THEN [token |-> Token("END", <<>>), last |-> Len(z.text)]
               ELSE TagAt(z.text, q)
        isText == q > z.position
    IN  IF z.peekable
        THEN [token |-> z.currentToken, tokenizer |-> [z EXCEPT !.peekable = FALSE]]
        ELSE [token |-> IF isText THEN Token("TEXT", SubSeq(z.text, z.position, q - 1))
                        ELSE tag.token,
              tokenizer |-> [z EXCEPT !.position = tag.last + 1, !.peekable = isText,
                                      !.currentToken = tag.token]]

-----------------------------------------------------------------------------
(* The tree. *)

Root == 0

Fragment(token) == [type |-> token.type, value |-> token.value, properties |-> <<>>,
                    fragments |-> <<>>, nodes |-> <<>>, enable |-> TRUE, resized |-> FALSE]

Extended(h, g) == [i \in DOMAIN h \cup DOMAIN g |-> IF i \in DOMAIN g THEN g[i] ELSE h[i]]

\* An identity that is above all in use.
New(h) == Max(DOMAIN h) + 1

\* fragments.push_back of a new fragment.
Add(h, parent, token) ==
    Extended([h EXCEPT ![parent].fragments = Append(@, New(h))],
             [i \in {New(h)} |-> Fragment(token)])

\* What steps, a function to sets, lead to from the elements of from.
Reached(from, steps) ==
    LET closure[xs \in SUBSET DOMAIN steps] ==
            LET next == UNION {steps[x] : x \in xs}
            IN  IF next \subseteq xs THEN xs ELSE closure[xs \cup next]
    IN  closure[from]

Children(h, x) == ToSet(h[x].fragments) \cup ToSet(h[x].nodes)

\* x and the fragments below it.
Prototype(h, x) == Reached({x}, [y \in DOMAIN h |-> ToSet(h[y].fragments)])

\* x and all that its destructor deletes with it.
Below(h, x) == Reached({x}, [y \in DOMAIN h |-> Children(h, y)])

Without(h, xs) ==
    [i \in DOMAIN h \ UNION {Below(h, x) : x \in xs} |-> h[i]]

\* Bug: a copy has the fragments of the block itself.
WithCopy_Shallow(h, x) ==
    LET copy == [h[x] EXCEPT !.nodes = <<>>, !.enable = TRUE, !.resized = FALSE]
    IN  Extended([h EXCEPT ![x].nodes = Append(@, New(h))], [i \in {New(h)} |-> copy])

\* Block::Copy of y: properties and fragments are copied, the identities moved by n;
\* enable, resized and nodes are those of a new block.
Copied(o, n) ==
    [o EXCEPT !.fragments = [k \in DOMAIN @ |-> @[k] + n],
              !.nodes = <<>>, !.enable = TRUE, !.resized = FALSE]

\* The copy of x and of what is below it is pushed to the nodes of x.
WithCopy(h, x) ==
    LET n == New(h)
        copies == [i \in {y + n : y \in Prototype(h, x)} |-> Copied(h[i - n], n)]
    IN  Extended([h EXCEPT ![x].nodes = Append(@, x + n)], copies)

\* Directory::Set.
SetIn(properties, key, value) ==
    [k \in DOMAIN properties \cup {key} |-> IF k = key THEN value ELSE properties[k]]

-----------------------------------------------------------------------------
VARIABLES
    site,             \* the pages there are
    phase,            \* "ready", "loading", "failed" (an exception) or "dead"
    name,             \* what Load was called with last
    files,            \* LoadRecursive's stack of tokenizers
    nodes,            \* and its stack of nodes
    heap,             \* the objects that are allocated
    operations        \* since the last load

vars == <<site, phase, name, files, nodes, heap, operations>>

NoName == <<>>

Init ==
    /\ site \in Sites
    /\ phase = "ready" /\ name = NoName
    /\ files = <<>> /\ nodes = <<>>
    /\ heap = [i \in {Root} |-> Fragment(Token("BLOCK", <<"main">>))]
    /\ operations = 0

\* LoadRecursive begins with a page.  The Result of a missing one has a string
\* made of nullptr: an exception, or undefined.
Open(page, stack) ==
    IF page \in DOMAIN site
    THEN files' = Append(stack, NewTokenizer(Written(site[page]))) /\ UNCHANGED phase
    ELSE files' = stack /\ phase' \in {"failed", "dead"}

\* Clear deletes what hangs on the engine.
Cleared == [Without(heap, Children(heap, Root)) EXCEPT
              ![Root].fragments = <<>>, ![Root].nodes = <<>>, ![Root].properties = <<>>]

Load(n) ==
    /\ phase \in {"ready", "failed"}
    /\ name = NoName \/ site \in Working
    /\ name' = n /\ operations' = 0
    /\ heap' = Cleared
    /\ nodes' = <<Root>>
    /\ IF n \in DOMAIN site
       THEN files' = <<NewTokenizer(Written(site[n]))>> /\ phase' = "loading"
       ELSE files' = <<>> /\ phase' \in {"failed", "dead"}
    /\ UNCHANGED site

\* One turn of LoadRecursive: Then(token, stack) with the token and the tokenizers
\* after it.
Turn(types, Then(_, _)) ==
    /\ phase = "loading"
    /\ LET next == NextToken(Last(files))
       IN  /\ next.token.type \in types
           /\ Then(next.token, Append(Front(files), next.tokenizer))
    /\ UNCHANGED <<site, name, operations>>

\* nodes.back() or pop_back() of an empty vector.
Dies == nodes = <<>> /\ phase' = "dead" /\ UNCHANGED <<files, nodes, heap>>

LoadEnd == Turn({"END"}, LAMBDA token, stack :
    /\ files' = Front(stack)
    /\ phase' = IF Len(stack) = 1 THEN "ready" ELSE phase
    /\ UNCHANGED <<nodes, heap>>)

LoadBlock == Turn({"BLOCK"}, LAMBDA token, stack :
    \/ Dies
    \/ /\ nodes # <<>>
       /\ heap' = Add(heap, Last(nodes), token)
       /\ nodes' = Append(nodes, New(heap))
       /\ files' = stack /\ UNCHANGED phase)

LoadEndBlock == Turn({"END_BLOCK"}, LAMBDA token, stack :
    \/ Dies
    \/ nodes # <<>> /\ nodes' = Front(nodes) /\ files' = stack /\ UNCHANGED <<phase, heap>>)

LoadLeaf == Turn({"VAR", "TEXT"}, LAMBDA token, stack :
    \/ Dies
    \/ /\ nodes # <<>>
       /\ heap' = Add(heap, Last(nodes), token)
       /\ files' = stack /\ UNCHANGED <<phase, nodes>>)

\* More pages than there are have an include of a page in itself among them: the
\* stack overflows.
LoadInclude == Turn({"INCLUDE"}, LAMBDA token, stack :
    /\ IF Len(stack) > Cardinality(DOMAIN site)
       THEN phase' = "dead" /\ UNCHANGED files
       ELSE Open(token.value, stack)
    /\ UNCHANGED <<nodes, heap>>)

-----------------------------------------------------------------------------
(* The user, between loads. *)

\* SetBlock: the first block of that name among the fragments of x.
BlocksOf(x) ==
    {y \in ToSet(heap[x].fragments) : heap[y].type = "BLOCK" /\
        \A i, j \in DOMAIN heap[x].fragments :
            /\ heap[x].fragments[i] = y /\ j < i
            /\ heap[heap[x].fragments[j]].type = "BLOCK"
            => heap[heap[x].fragments[j]].value # heap[y].value}

\* What SetBlock and operator[] reach from the engine: <<object, is it a block>>.
Offered ==
    Reached({<<Root, TRUE>>},
            [q \in (DOMAIN heap) \X BOOLEAN |->
                {<<y, TRUE>> : y \in BlocksOf(q[1])}
                \cup IF q[2] THEN {<<y, FALSE>> : y \in ToSet(heap[q[1]].nodes)} ELSE {}])

Operation(h) ==
    /\ phase = "ready" /\ site \in Working
    /\ operations < MaxOperations /\ operations' = operations + 1
    /\ heap' = h
    /\ UNCHANGED <<site, phase, name, files, nodes>>

Nodes == {q[1] : q \in Offered}
Blocks == {q[1] : q \in {r \in Offered : r[2]}}

Keys(x) == {heap[y].value : y \in {z \in ToSet(heap[x].fragments) : heap[z].type = "VAR"}}

\* Keys that are not in the node set nothing that shows, and are left out.
Set == \E x \in Nodes : \E key \in Keys(x), value \in Values :
    Operation([heap EXCEPT ![x].properties = SetIn(@, key, value)])

Enable == \E x \in Blocks : Operation([heap EXCEPT ![x].enable = TRUE])

Disable == \E x \in Blocks : Operation([heap EXCEPT ![x].enable = FALSE])

\* Bug: the copies that were there are not deleted.
Repeat_Leaks == \E x \in Blocks : \E times \in 0..2 :
    LET h == [heap EXCEPT ![x].nodes = <<>>, ![x].resized = TRUE]
    IN  Operation(CASE times = 0 -> h [] times = 1 -> WithCopy(h, x)
                    [] times = 2 -> WithCopy(WithCopy(h, x), x))

\* Repeat, at most twice (a bound).
Repeat == \E x \in Blocks : \E times \in 0..2 :
    LET h == [Without(heap, ToSet(heap[x].nodes)) EXCEPT
                 ![x].nodes = <<>>, ![x].resized = TRUE]
    IN  Operation(CASE times = 0 -> h [] times = 1 -> WithCopy(h, x)
                    [] times = 2 -> WithCopy(WithCopy(h, x), x))

Next ==
    \/ \E n \in Names : Load(n)
    \/ LoadEnd \/ LoadBlock \/ LoadEndBlock \/ LoadLeaf \/ LoadInclude
    \/ Set \/ Enable \/ Disable \/ Repeat

Spec == Init /\ [][Next]_vars

-----------------------------------------------------------------------------
Places(s, y) == {k \in DOMAIN s : s[k] = y}

\* Where y hangs: in which list of which object, and at which place.
Owners(h, y) ==
    UNION {({<<x, "fragments">>} \X Places(h[x].fragments, y))
           \cup ({<<x, "nodes">>} \X Places(h[x].nodes, y)) : x \in DOMAIN h}

\* Every object is owned by one other, once, and hangs on the engine: none is
\* deleted twice, none is left behind.
OneOwner ==
    /\ Below(heap, Root) = DOMAIN heap
    /\ \A y \in DOMAIN heap \ {Root} : Cardinality(Owners(heap, y)) = 1
=============================================================================
