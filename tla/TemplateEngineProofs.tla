------------------------ MODULE TemplateEngineProofs ------------------------
(***************************************************************************)
(* The heap of TemplateEngine is a tree, for all pages, names and values and   *)
(* for trees of every size: each object is owned once and hangs on the engine. *)
(* And what is done to a block shows nowhere else.                          *)
(***************************************************************************)
EXTENDS TemplateRendering, FiniteSetTheorems, WellFoundedInduction, TLAPS

-----------------------------------------------------------------------------
(* Finite sets. *)

HasMinimal(B) == \E U \in B : \A V \in B : V \subseteq U => V = U

\* Of some subsets of a finite set, one has none of the others in it.
LEMMA MinimalSet ==
    ASSUME NEW D, IsFiniteSet(D), NEW B, B \subseteq SUBSET D, B # {}
    PROVE  HasMinimal(B)
<1>1. IsWellFoundedOn(StrictSubsetOrdering(D), FiniteSubsetsOf(D))
  BY FS_StrictSubsetOrderingWellFounded
<1>2. B \subseteq FiniteSubsetsOf(D)
  BY FS_Subset DEF FiniteSubsetsOf
<1>3. PICK U \in B : \A V \in B : ~ (<<V, U>> \in StrictSubsetOrdering(D))
  BY <1>1, <1>2, WFMin
<1>4. ASSUME NEW V \in B, V \subseteq U, V # U PROVE FALSE
  <2>1. <<V, U>> \in (SUBSET D) \X (SUBSET D)
    OBVIOUS
  <2>2. <<V, U>>[1] = V /\ <<V, U>>[2] = U
    OBVIOUS
  <2>3. <<V, U>> \in StrictSubsetOrdering(D)
    BY <1>4, <2>1, <2>2, Zenon DEF StrictSubsetOrdering
  <2> QED BY <1>3, <2>3
<1> QED BY <1>4 DEF HasMinimal

LEMMA HasMax ==
    ASSUME NEW D, D \subseteq Nat, IsFiniteSet(D), D # {}
    PROVE  Max(D) \in D /\ \A y \in D : y <= Max(D)
<1> DEFINE Above(m) == {y \in D : y >= m}
           B == {Above(m) : m \in D}
<1>1. PICK U \in B : \A V \in B : V \subseteq U => V = U
  <2>1. B \subseteq SUBSET D /\ B # {}
    OBVIOUS
  <2>2. IsFiniteSet(D)
    OBVIOUS
  <2>3. HasMinimal(B)
    <3> HIDE DEF B
    <3> QED BY <2>1, <2>2, MinimalSet
  <2> HIDE DEF B
  <2> QED BY <2>3 DEF HasMinimal
<1>2. PICK m \in D : U = Above(m)
  BY <1>1
<1>3. ASSUME NEW y \in D PROVE m >= y
  <2> SUFFICES ASSUME y > m PROVE FALSE
    OBVIOUS
  <2>1. m \in Nat /\ y \in Nat
    OBVIOUS
  <2>2. Above(y) \subseteq Above(m)
    <3> SUFFICES ASSUME NEW z \in D, z >= y PROVE z >= m
      OBVIOUS
    <3>1. z \in Nat
      OBVIOUS
    <3> QED BY <2>1, <3>1
  <2>3. m \in Above(m) /\ m \notin Above(y)
    BY <2>1
  <2>4. Above(y) \in B
    OBVIOUS
  <2> HIDE DEF Above, B
  <2> QED BY <1>1, <1>2, <2>2, <2>3, <2>4
<1>4. \E x \in D : \A y \in D : x >= y
  BY <1>3
<1>5. Max(D) \in D /\ \A y \in D : Max(D) >= y
  BY <1>4 DEF Max
<1> QED BY <1>5

-----------------------------------------------------------------------------
(* Reached is the least set that holds what it leads to. *)

\* Steps from elements of D to elements of D.
Leads(steps) ==
    /\ IsFiniteSet(DOMAIN steps)
    /\ \A x \in DOMAIN steps : steps[x] \subseteq DOMAIN steps

Closed(S, steps) == \A x \in S : steps[x] \subseteq S

Least(from, steps) ==
    {y \in DOMAIN steps : \A T \in SUBSET DOMAIN steps :
                              from \subseteq T /\ Closed(T, steps) => y \in T}

\* The closure as Reached defines it.
IsClosure(steps, closure) ==
    closure = [xs \in SUBSET DOMAIN steps |->
                  IF UNION {steps[x] : x \in xs} \subseteq xs THEN xs
                  ELSE closure[xs \cup UNION {steps[x] : x \in xs}]]

LEMMA LeastIsClosure ==
    ASSUME NEW steps, Leads(steps)
    PROVE  IsClosure(steps, [xs \in SUBSET DOMAIN steps |-> Least(xs, steps)])
<1> DEFINE c == [xs \in SUBSET DOMAIN steps |-> Least(xs, steps)]
           next(xs) == UNION {steps[x] : x \in xs}
<1>1. ASSUME NEW xs \in SUBSET DOMAIN steps
      PROVE  c[xs] = IF next(xs) \subseteq xs THEN xs ELSE c[xs \cup next(xs)]
  <2>1. xs \cup next(xs) \in SUBSET DOMAIN steps
    BY DEF Leads
  <2>2. CASE next(xs) \subseteq xs
    <3>1. Closed(xs, steps)
      BY <2>2 DEF Closed
    <3>2. Least(xs, steps) = xs
      BY <3>1 DEF Least
    <3> QED BY <2>2, <3>2
  <2>3. CASE ~(next(xs) \subseteq xs)
    <3>1. ASSUME NEW T \in SUBSET DOMAIN steps, Closed(T, steps)
          PROVE  xs \subseteq T <=> xs \cup next(xs) \subseteq T
      BY <3>1 DEF Closed
    <3>2. Least(xs, steps) = Least(xs \cup next(xs), steps)
      <4> HIDE DEF next
      <4> QED BY <3>1 DEF Least
    <3> HIDE DEF next
    <3> QED BY <2>1, <2>3, <3>2
  <2> QED BY <2>2, <2>3
<1> QED BY <1>1 DEF IsClosure

LEMMA ClosureIsLeast ==
    ASSUME NEW steps, Leads(steps), NEW c, IsClosure(steps, c),
           NEW from \in SUBSET DOMAIN steps
    PROVE  c[from] = Least(from, steps)
<1> DEFINE D == DOMAIN steps
           l == [xs \in SUBSET D |-> Least(xs, steps)]
           next(xs) == UNION {steps[x] : x \in xs}
           B == {U \in SUBSET D : c[D \ U] # l[D \ U]}
<1>1. ASSUME NEW f, IsClosure(steps, f), NEW xs \in SUBSET D
      PROVE  f[xs] = IF next(xs) \subseteq xs THEN xs ELSE f[xs \cup next(xs)]
  BY <1>1 DEF IsClosure
<1>2. IsClosure(steps, l)
  BY LeastIsClosure
<1>3. ASSUME B # {} PROVE FALSE
  <2>1. PICK U \in B : \A V \in B : V \subseteq U => V = U
    <3>1. B \subseteq SUBSET D /\ IsFiniteSet(D)
      BY DEF Leads
    <3> HIDE DEF B
    <3> QED BY <1>3, <3>1, MinimalSet DEF HasMinimal
  <2> DEFINE xs == D \ U
             more == xs \cup next(xs)
  <2>2. xs \in SUBSET D /\ U \in SUBSET D /\ c[xs] # l[xs]
    BY <2>1
  <2>3. next(xs) \subseteq D
    BY DEF Leads
  <2> HIDE DEF next, l
  <2>4. ~(next(xs) \subseteq xs)
    BY <1>1, <1>2, <2>2
  <2>5. c[more] # l[more]
    BY <1>1, <1>2, <2>2, <2>4
  <2>6. D \ (D \ more) = more
    BY <2>2, <2>3
  <2>7. D \ more \in B
    BY <2>5, <2>6
  <2>8. D \ more \subseteq U /\ D \ more # U
    BY <2>2, <2>3, <2>4
  <2> QED BY <2>1, <2>7, <2>8
<1>4. D \ from \in SUBSET D /\ D \ (D \ from) = from
  OBVIOUS
<1>5. c[from] = l[from]
  <2> HIDE DEF l
  <2> QED BY <1>3, <1>4
<1> QED BY <1>5

LEMMA ReachedIsLeast ==
    ASSUME NEW steps, Leads(steps), NEW from \in SUBSET DOMAIN steps
    PROVE  Reached(from, steps) = Least(from, steps)
<1> DEFINE c == CHOOSE closure : IsClosure(steps, closure)
<1>1. Reached(from, steps) = c[from]
  BY DEF Reached, IsClosure
<1>2. IsClosure(steps, c)
  BY LeastIsClosure
<1> HIDE DEF c
<1> QED BY <1>1, <1>2, ClosureIsLeast

\* What is reached, in the form it is used in.
LEMMA Reaches ==
    ASSUME NEW steps, Leads(steps), NEW from \in SUBSET DOMAIN steps
    PROVE  /\ from \subseteq Reached(from, steps)
           /\ Reached(from, steps) \subseteq DOMAIN steps
           /\ \A x \in Reached(from, steps) : steps[x] \subseteq Reached(from, steps)
           /\ \A T \in SUBSET DOMAIN steps :
                 from \subseteq T /\ (\A x \in T : steps[x] \subseteq T)
                 => Reached(from, steps) \subseteq T
<1> DEFINE R == Least(from, steps)
<1>1. from \subseteq R /\ R \subseteq DOMAIN steps
  BY DEF Least
<1>2. ASSUME NEW x \in R PROVE steps[x] \subseteq R
  <2>1. x \in DOMAIN steps /\ steps[x] \subseteq DOMAIN steps
    BY <1>1 DEF Leads
  <2>2. ASSUME NEW T \in SUBSET DOMAIN steps, from \subseteq T, Closed(T, steps)
        PROVE  steps[x] \subseteq T
    BY <2>2 DEF Least, Closed
  <2> QED BY <2>1, <2>2 DEF Least
<1>3. ASSUME NEW T \in SUBSET DOMAIN steps, from \subseteq T, Closed(T, steps)
      PROVE  R \subseteq T
  BY <1>3 DEF Least
<1> HIDE DEF R
<1>4. \A T \in SUBSET DOMAIN steps :
          from \subseteq T /\ (\A x \in T : steps[x] \subseteq T) => R \subseteq T
  BY <1>3 DEF Closed
<1> QED BY <1>1, <1>2, <1>4, ReachedIsLeast DEF R

-----------------------------------------------------------------------------
(* The tree. *)

Lists == {"fragments", "nodes"}

\* An object of a heap of the objects D: the engine hangs on none of them.
IsObject(o, D) ==
    /\ DOMAIN o = {"type", "value", "properties", "fragments", "nodes", "enable", "resized"}
    /\ \A l \in Lists : o[l] \in Seq(D \ {Root})

\* What hangs at two places of the tree is not the same.
OnePlaceEach(h) ==
    \A x, z \in DOMAIN h, l, m \in Lists : \A i \in DOMAIN h[x][l], j \in DOMAIN h[z][m] :
        h[x][l][i] = h[z][m][j] => x = z /\ l = m /\ i = j

Forest(h) ==
    /\ DOMAIN h \subseteq Nat /\ IsFiniteSet(DOMAIN h) /\ Root \in DOMAIN h
    /\ \A x \in DOMAIN h : IsObject(h[x], DOMAIN h)
    /\ OnePlaceEach(h)

Tree(h) == Forest(h) /\ Below(h, Root) = DOMAIN h

LEMMA ChildIs ==
    ASSUME NEW h, NEW x, NEW y
    PROVE  y \in Children(h, x) <=> \E l \in Lists : \E k \in DOMAIN h[x][l] : h[x][l][k] = y
BY DEF Children, ToSet, Lists

LEMMA ChildType ==
    ASSUME NEW h, Forest(h), NEW x \in DOMAIN h
    PROVE  Children(h, x) \subseteq DOMAIN h \ {Root}
<1> SUFFICES ASSUME NEW y \in Children(h, x) PROVE y \in DOMAIN h \ {Root}
  OBVIOUS
<1>1. PICK l \in Lists : \E k \in DOMAIN h[x][l] : h[x][l][k] = y
  BY ChildIs
<1>2. h[x][l] \in Seq(DOMAIN h \ {Root})
  BY DEF Forest, IsObject
<1> QED BY <1>1, <1>2

\* An object has one parent.
LEMMA OneParent ==
    ASSUME NEW h, Forest(h), NEW x \in DOMAIN h, NEW z \in DOMAIN h,
           NEW y \in Children(h, x), y \in Children(h, z)
    PROVE  x = z
<1>1. PICK l \in Lists : \E k \in DOMAIN h[x][l] : h[x][l][k] = y
  BY ChildIs
<1>2. PICK m \in Lists : \E j \in DOMAIN h[z][m] : h[z][m][j] = y
  BY ChildIs
<1>3. PICK k \in DOMAIN h[x][l] : h[x][l][k] = y
  BY <1>1
<1>4. PICK j \in DOMAIN h[z][m] : h[z][m][j] = y
  BY <1>2
<1> QED BY <1>3, <1>4 DEF Forest, OnePlaceEach

\* What is below x.
LEMMA BelowIs ==
    ASSUME NEW h, Forest(h), NEW x \in DOMAIN h
    PROVE  /\ x \in Below(h, x) /\ Below(h, x) \subseteq DOMAIN h
           /\ \A y \in Below(h, x) : Children(h, y) \subseteq Below(h, x)
           /\ \A T \in SUBSET DOMAIN h :
                 x \in T /\ (\A y \in T : Children(h, y) \subseteq T)
                 => Below(h, x) \subseteq T
<1> DEFINE steps == [y \in DOMAIN h |-> Children(h, y)]
<1>1. DOMAIN steps = DOMAIN h /\ \A y \in DOMAIN h : steps[y] = Children(h, y)
  OBVIOUS
<1>2. Below(h, x) = Reached({x}, steps)
  BY DEF Below
<1> HIDE DEF steps
<1>3. Leads(steps)
  BY <1>1, ChildType DEF Leads, Forest
<1>4. {x} \in SUBSET DOMAIN steps
  BY <1>1
<1>5. /\ {x} \subseteq Reached({x}, steps)
      /\ Reached({x}, steps) \subseteq DOMAIN steps
      /\ \A y \in Reached({x}, steps) : steps[y] \subseteq Reached({x}, steps)
      /\ \A T \in SUBSET DOMAIN steps :
            {x} \subseteq T /\ (\A y \in T : steps[y] \subseteq T) => Reached({x}, steps) \subseteq T
  BY <1>3, <1>4, Reaches
<1>6. \A T \in SUBSET DOMAIN h :
          x \in T /\ (\A y \in T : Children(h, y) \subseteq T)
          => Reached({x}, steps) \subseteq T
  <2> SUFFICES ASSUME NEW T \in SUBSET DOMAIN h, x \in T,
                      \A y \in T : Children(h, y) \subseteq T
               PROVE  Reached({x}, steps) \subseteq T
    OBVIOUS
  <2> QED BY <1>1, <1>5
<1>7. \A y \in Reached({x}, steps) : Children(h, y) \subseteq Reached({x}, steps)
  BY <1>1, <1>5
<1>8. x \in Reached({x}, steps) /\ Reached({x}, steps) \subseteq DOMAIN h
  BY <1>1, <1>5
<1> QED BY <1>2, <1>6, <1>7, <1>8

\* And its fragments.
LEMMA PrototypeIs ==
    ASSUME NEW h, Forest(h), NEW x \in DOMAIN h
    PROVE  /\ x \in Prototype(h, x) /\ Prototype(h, x) \subseteq DOMAIN h
           /\ \A y \in Prototype(h, x) : ToSet(h[y].fragments) \subseteq Prototype(h, x)
           /\ \A T \in SUBSET DOMAIN h :
                 x \in T /\ (\A y \in T : ToSet(h[y].fragments) \subseteq T)
                 => Prototype(h, x) \subseteq T
<1> DEFINE steps == [y \in DOMAIN h |-> ToSet(h[y].fragments)]
<1>1. DOMAIN steps = DOMAIN h /\ \A y \in DOMAIN h : steps[y] = ToSet(h[y].fragments)
  OBVIOUS
<1>2. Prototype(h, x) = Reached({x}, steps)
  BY DEF Prototype
<1> HIDE DEF steps
<1>3. Leads(steps)
  BY <1>1, ChildType DEF Leads, Forest, Children
<1>4. {x} \in SUBSET DOMAIN steps
  BY <1>1
<1>5. /\ {x} \subseteq Reached({x}, steps)
      /\ Reached({x}, steps) \subseteq DOMAIN steps
      /\ \A y \in Reached({x}, steps) : steps[y] \subseteq Reached({x}, steps)
      /\ \A T \in SUBSET DOMAIN steps :
            {x} \subseteq T /\ (\A y \in T : steps[y] \subseteq T) => Reached({x}, steps) \subseteq T
  BY <1>3, <1>4, Reaches
<1>6. \A T \in SUBSET DOMAIN h :
          x \in T /\ (\A y \in T : ToSet(h[y].fragments) \subseteq T)
          => Reached({x}, steps) \subseteq T
  <2> SUFFICES ASSUME NEW T \in SUBSET DOMAIN h, x \in T,
                      \A y \in T : ToSet(h[y].fragments) \subseteq T
               PROVE  Reached({x}, steps) \subseteq T
    OBVIOUS
  <2> QED BY <1>1, <1>5
<1>7. \A y \in Reached({x}, steps) : ToSet(h[y].fragments) \subseteq Reached({x}, steps)
  BY <1>1, <1>5
<1>8. x \in Reached({x}, steps) /\ Reached({x}, steps) \subseteq DOMAIN h
  BY <1>1, <1>5
<1> QED BY <1>2, <1>6, <1>7, <1>8

\* A set of objects that has the engine, and what hangs on its objects, has all of a tree.
LEMMA Spans ==
    ASSUME NEW h, Forest(h)
    PROVE  Tree(h) <=> \A T \in SUBSET DOMAIN h :
                          Root \in T /\ (\A y \in T : Children(h, y) \subseteq T) => T = DOMAIN h
<1>1. Root \in DOMAIN h
  BY DEF Forest
<1> DEFINE R == Below(h, Root)
<1>2. /\ Root \in R /\ R \subseteq DOMAIN h
      /\ \A y \in R : Children(h, y) \subseteq R
      /\ \A T \in SUBSET DOMAIN h :
            Root \in T /\ (\A y \in T : Children(h, y) \subseteq T) => R \subseteq T
  BY <1>1, BelowIs
<1> HIDE DEF R
<1>3. Tree(h) <=> R = DOMAIN h
  BY DEF Tree, R
<1> QED BY <1>2, <1>3

\* Everything but the engine hangs on something.
LEMMA HasParent ==
    ASSUME NEW h, Tree(h), NEW y \in DOMAIN h \ {Root}
    PROVE  \E x \in DOMAIN h : y \in Children(h, x)
<1> SUFFICES ASSUME \A x \in DOMAIN h : y \notin Children(h, x) PROVE FALSE
  OBVIOUS
<1>1. Forest(h) /\ Root \in DOMAIN h
  BY DEF Tree, Forest
<1> DEFINE T == DOMAIN h \ {y}
<1>2. T \in SUBSET DOMAIN h /\ Root \in T
  BY <1>1
<1>3. \A x \in T : Children(h, x) \subseteq T
  BY <1>1, ChildType
<1>4. T = DOMAIN h
  BY <1>1, <1>2, <1>3, Spans
<1> QED BY <1>4

\* What is below x hangs on something that is, x itself excepted.
LEMMA ParentBelow ==
    ASSUME NEW h, Forest(h), NEW x \in DOMAIN h, NEW y \in Below(h, x), y # x
    PROVE  \E z \in Below(h, x) : y \in Children(h, z)
<1> SUFFICES ASSUME \A z \in Below(h, x) : y \notin Children(h, z) PROVE FALSE
  OBVIOUS
<1> DEFINE T == Below(h, x) \ {y}
<1>1. T \in SUBSET DOMAIN h /\ x \in T
  BY BelowIs
<1>2. \A z \in T : Children(h, z) \subseteq T
  BY BelowIs
<1>3. Below(h, x) \subseteq T
  <2> HIDE DEF T
  <2> QED BY <1>1, <1>2, BelowIs
<1> QED BY <1>3

\* The engine is below itself only.
LEMMA RootOnTop ==
    ASSUME NEW h, Forest(h), NEW x \in DOMAIN h, x # Root
    PROVE  Root \notin Below(h, x)
<1> SUFFICES ASSUME Root \in Below(h, x) PROVE FALSE
  OBVIOUS
<1>1. PICK z \in Below(h, x) : Root \in Children(h, z)
  BY ParentBelow
<1>2. z \in DOMAIN h
  BY BelowIs
<1> QED BY <1>1, <1>2, ChildType

\* A tree has no cycle.
LEMMA NoCycle ==
    ASSUME NEW h, Tree(h), NEW x \in DOMAIN h, NEW y \in Children(h, x)
    PROVE  x \notin Below(h, y)
<1> SUFFICES ASSUME x \in Below(h, y) PROVE FALSE
  OBVIOUS
<1>1. Forest(h) /\ Root \in DOMAIN h
  BY DEF Tree, Forest
<1>2. y \in DOMAIN h /\ y # Root
  BY <1>1, ChildType
<1>3. y \in Below(h, y) /\ Below(h, y) \subseteq DOMAIN h
  BY <1>1, <1>2, BelowIs
<1> DEFINE T == DOMAIN h \ Below(h, y)
<1>4. T \in SUBSET DOMAIN h /\ Root \in T
  BY <1>1, <1>2, RootOnTop
<1>5. ASSUME NEW z \in T, NEW w \in Children(h, z) PROVE w \in T
  <2> SUFFICES ASSUME w \in Below(h, y) PROVE FALSE
    BY <1>1, ChildType
  <2>1. CASE w = y
    BY <1>1, <1>5, <2>1, OneParent
  <2>2. CASE w # y
    <3>1. PICK v \in Below(h, y) : w \in Children(h, v)
      BY <1>1, <1>2, <2>2, ParentBelow
    <3>2. v = z
      BY <1>1, <1>3, <1>5, <3>1, OneParent
    <3> QED BY <3>2
  <2> QED BY <2>1, <2>2
<1>6. T = DOMAIN h
  <2> HIDE DEF T
  <2> QED BY <1>1, <1>4, <1>5, Spans
<1> QED BY <1>2, <1>3, <1>6

\* In a tree every object but the engine has one owner.
LEMMA OwnedOnce ==
    ASSUME NEW h, Tree(h), NEW y \in DOMAIN h \ {Root}
    PROVE  Cardinality(Owners(h, y)) = 1
<1>1. PICK x \in DOMAIN h : y \in Children(h, x)
  BY HasParent
<1>2. PICK l \in Lists : \E k \in DOMAIN h[x][l] : h[x][l][k] = y
  BY <1>1, ChildIs
<1>3. PICK k \in DOMAIN h[x][l] : h[x][l][k] = y
  BY <1>2
<1>4. OnePlaceEach(h)
  BY DEF Tree, Forest
<1> DEFINE here(z, m) == {<<z, m>>} \X Places(h[z][m], y)
<1>5. Owners(h, y) = UNION {here(z, "fragments") \cup here(z, "nodes") : z \in DOMAIN h}
  BY DEF Owners
<1>6. ASSUME NEW z \in DOMAIN h, NEW m \in Lists, NEW o \in here(z, m)
      PROVE  o = <<<<x, l>>, k>>
  <2>1. PICK j \in Places(h[z][m], y) : o = <<<<z, m>>, j>>
    BY <1>6
  <2>2. j \in DOMAIN h[z][m] /\ h[z][m][j] = y
    BY <2>1 DEF Places
  <2>3. x = z /\ l = m /\ k = j
    BY <1>3, <1>4, <2>2 DEF OnePlaceEach
  <2> QED BY <2>1, <2>3
<1>7. <<<<x, l>>, k>> \in here(x, l)
  <2>1. k \in Places(h[x][l], y)
    BY <1>3 DEF Places
  <2> QED BY <2>1
<1> HIDE DEF here
<1>8. Owners(h, y) = {<<<<x, l>>, k>>}
  <2>1. \A z \in DOMAIN h : here(z, "fragments") \cup here(z, "nodes") \subseteq {<<<<x, l>>, k>>}
    BY <1>6 DEF Lists
  <2>2. <<<<x, l>>, k>> \in here(x, "fragments") \cup here(x, "nodes")
    BY <1>2, <1>7 DEF Lists
  <2> QED BY <1>5, <2>1, <2>2
<1> QED BY <1>8, FS_Singleton

-----------------------------------------------------------------------------
(* What keeps a tree a tree. *)

\* Some lists of x are emptied, and what hangs there, xs, goes with all that is below it.
Emptied(g, h, x, emptied, xs) ==
    /\ xs = UNION {ToSet(h[x][l]) : l \in emptied}
    /\ DOMAIN g = DOMAIN h \ UNION {Below(h, c) : c \in xs}
    /\ \A y \in DOMAIN g : DOMAIN g[y] = DOMAIN h[y]
    /\ \A y \in DOMAIN g, l \in Lists :
          g[y][l] = IF y = x /\ l \in emptied THEN <<>> ELSE h[y][l]

LEMMA Clears ==
    ASSUME NEW h, Tree(h), NEW x \in DOMAIN h, NEW emptied, emptied \subseteq Lists,
           NEW xs, NEW g, Emptied(g, h, x, emptied, xs)
    PROVE  Tree(g) /\ x \in DOMAIN g
<1> USE DEF Emptied
<1> DEFINE gone == UNION {Below(h, c) : c \in xs}
<1>1. Forest(h) /\ Root \in DOMAIN h /\ OnePlaceEach(h)
  BY DEF Tree, Forest
<1>2. xs \subseteq Children(h, x)
  BY ChildIs DEF ToSet
<1>3. xs \subseteq DOMAIN h \ {Root}
  BY <1>1, <1>2, ChildType
<1>4. x \notin gone /\ Root \notin gone
  <2>1. \A c \in xs : x \notin Below(h, c)
    BY <1>2, NoCycle
  <2>2. \A c \in xs : Root \notin Below(h, c)
    BY <1>1, <1>3, RootOnTop
  <2> QED BY <2>1, <2>2
<1>5. gone \subseteq DOMAIN h
  BY <1>1, <1>3, BelowIs
<1>6. ASSUME NEW y \in gone PROVE Children(h, y) \subseteq gone
  <2>1. PICK c \in xs : y \in Below(h, c)
    OBVIOUS
  <2>2. Children(h, y) \subseteq Below(h, c)
    BY <1>1, <1>3, <2>1, BelowIs
  <2> QED BY <2>2
<1>7. xs \subseteq gone
  BY <1>1, <1>3, BelowIs
\* What goes hangs on what goes, or in a list that is emptied.
<1>8. ASSUME NEW y \in DOMAIN g, NEW l \in Lists, NEW k \in DOMAIN g[y][l]
      PROVE  /\ k \in DOMAIN h[y][l] /\ g[y][l][k] = h[y][l][k]
             /\ h[y][l][k] \notin gone
             /\ h[y][l][k] \in Children(h, y)
  <2>1. ~(y = x /\ l \in emptied) /\ g[y][l] = h[y][l]
    <3>1. DOMAIN <<>> = {}
      OBVIOUS
    <3> QED BY <1>8, <3>1
  <2> DEFINE w == h[y][l][k]
  <2>2. w \in Children(h, y) /\ y \in DOMAIN h /\ y \notin gone
    BY <1>8, <2>1, ChildIs
  <2>3. ASSUME w \in gone PROVE FALSE
    <3>1. PICK c \in xs : w \in Below(h, c)
      BY <2>3
    <3>2. CASE w = c
      <4>1. PICK m \in emptied : c \in ToSet(h[x][m])
        BY <3>1
      <4>2. PICK j \in DOMAIN h[x][m] : h[x][m][j] = c
        BY <4>1 DEF ToSet
      <4>3. y = x /\ l = m
        BY <1>1, <1>8, <2>1, <2>2, <3>2, <4>2 DEF OnePlaceEach
      <4> QED BY <2>1, <4>1, <4>3
    <3>3. CASE w # c
      <4>1. PICK z \in Below(h, c) : w \in Children(h, z)
        BY <1>1, <1>3, <3>1, <3>3, ParentBelow
      <4>2. z \in DOMAIN h /\ z \in gone
        BY <1>5, <3>1, <4>1
      <4>3. z = y
        BY <1>1, <2>2, <4>1, <4>2, OneParent
      <4> QED BY <2>2, <4>2, <4>3
    <3> QED BY <3>2, <3>3
  <2> QED BY <1>8, <2>1, <2>2, <2>3
<1> HIDE DEF gone
<1>9. DOMAIN g = DOMAIN h \ gone
  BY DEF gone
<1>10. Forest(g)
  <2>1. DOMAIN g \subseteq Nat /\ IsFiniteSet(DOMAIN g) /\ Root \in DOMAIN g
    BY <1>1, <1>4, <1>9, FS_Subset DEF Forest
  <2>2. ASSUME NEW y \in DOMAIN g PROVE IsObject(g[y], DOMAIN g)
    <3>1. IsObject(h[y], DOMAIN h) /\ y \in DOMAIN h
      BY <1>1, <1>9 DEF Forest
    <3>2. ASSUME NEW l \in Lists PROVE g[y][l] \in Seq(DOMAIN g \ {Root})
      <4>1. h[y][l] \in Seq(DOMAIN h \ {Root})
        BY <3>1 DEF IsObject
      <4>2. g[y][l] \in Seq(DOMAIN h \ {Root})
        <5>1. g[y][l] = <<>> \/ g[y][l] = h[y][l]
          OBVIOUS
        <5>2. <<>> \in Seq(DOMAIN h \ {Root})
          OBVIOUS
        <5> QED BY <4>1, <5>1, <5>2
      <4>3. ASSUME NEW k \in DOMAIN g[y][l] PROVE g[y][l][k] \in DOMAIN g \ {Root}
        <5>1. g[y][l][k] \in Children(h, y) /\ g[y][l][k] \notin gone
          BY <1>8
        <5>2. g[y][l][k] \in DOMAIN h \ {Root}
          BY <1>1, <3>1, <5>1, ChildType
        <5> QED BY <1>9, <5>1, <5>2
      <4> QED BY <4>2, <4>3
    <3> QED BY <3>1, <3>2 DEF IsObject
  <2>3. OnePlaceEach(g)
    BY <1>1, <1>8, <1>9 DEF OnePlaceEach
  <2> QED BY <2>1, <2>2, <2>3 DEF Forest
<1>11. ASSUME NEW T \in SUBSET DOMAIN g, Root \in T, \A y \in T : Children(g, y) \subseteq T
       PROVE  T = DOMAIN g
  <2> DEFINE U == T \cup gone
  <2>1. U \in SUBSET DOMAIN h /\ Root \in U
    BY <1>5, <1>9, <1>11
  <2>2. ASSUME NEW y \in U, NEW w \in Children(h, y) PROVE w \in U
    <3>1. CASE y \in gone
      BY <1>6, <2>2, <3>1
    <3>2. CASE y \in T
      <4>1. PICK l \in Lists : \E k \in DOMAIN h[y][l] : h[y][l][k] = w
        BY <2>2, ChildIs
      <4>2. PICK k \in DOMAIN h[y][l] : h[y][l][k] = w
        BY <4>1
      <4>3. CASE y = x /\ l \in emptied
        <5>1. w \in xs
          BY <4>2, <4>3 DEF ToSet
        <5> QED BY <1>7, <5>1
      <4>4. CASE ~(y = x /\ l \in emptied)
        <5>1. g[y][l] = h[y][l]
          BY <3>2, <4>4
        <5>2. w \in Children(g, y)
          BY <4>2, <5>1, ChildIs
        <5> QED BY <1>11, <3>2, <5>2
      <4> QED BY <4>3, <4>4
    <3> QED BY <3>1, <3>2
  <2>3. U = DOMAIN h
    <3> HIDE DEF U
    <3> QED BY <1>1, <2>1, <2>2, Spans
  <2> QED BY <1>9, <2>3
<1>12. Tree(g)
  BY <1>10, <1>11, Spans
<1> QED BY <1>4, <1>9, <1>12

\* New objects, of which r is the topmost, are hung on a list of p.
Grafted(g, h, N, p, list, r) ==
    /\ DOMAIN g = DOMAIN h \cup N
    /\ \A y \in DOMAIN h : DOMAIN g[y] = DOMAIN h[y]
    /\ \A y \in DOMAIN h, l \in Lists :
          g[y][l] = IF y = p /\ l = list THEN Append(h[y][l], r) ELSE h[y][l]
    /\ \A y \in N : IsObject(g[y], N \ {r})
    /\ \A x, z \in N, l, m \in Lists : \A i \in DOMAIN g[x][l], j \in DOMAIN g[z][m] :
          g[x][l][i] = g[z][m][j] => x = z /\ l = m /\ i = j
    /\ \A T \in SUBSET N : r \in T /\ (\A y \in T : Children(g, y) \subseteq T) => T = N

LEMMA Grafts ==
    ASSUME NEW h, Tree(h), NEW N, N \subseteq Nat, IsFiniteSet(N), N \cap DOMAIN h = {},
           NEW p \in DOMAIN h, NEW list \in Lists, NEW r \in N,
           NEW g, Grafted(g, h, N, p, list, r)
    PROVE  Tree(g)
<1> DEFINE D == DOMAIN h
<1>1. Forest(h) /\ Root \in D /\ OnePlaceEach(h) /\ DOMAIN g = D \cup N
  BY DEF Tree, Forest, Grafted
<1>2. ASSUME NEW y \in D, NEW l \in Lists PROVE h[y][l] \in Seq(D \ {Root})
  BY <1>1 DEF Forest, IsObject
<1>3. ASSUME NEW y \in D, NEW l \in Lists
      PROVE  g[y][l] = IF y = p /\ l = list THEN Append(h[y][l], r) ELSE h[y][l]
  BY DEF Grafted
<1>4. ASSUME NEW y \in N, NEW l \in Lists PROVE g[y][l] \in Seq(N \ {r, Root})
  <2>1. g[y][l] \in Seq((N \ {r}) \ {Root})
    BY DEF Grafted, IsObject
  <2>2. (N \ {r}) \ {Root} = N \ {r, Root}
    OBVIOUS
  <2> QED BY <2>1, <2>2
\* A place of the new tree is an old one, that of r, or one of a new object.
<1> DEFINE Old(y, l, k) == /\ y \in D /\ k \in DOMAIN h[y][l]
                           /\ g[y][l][k] = h[y][l][k] /\ g[y][l][k] \in D \ {Root}
           Top(y, l, k) == /\ y = p /\ l = list /\ k = Len(h[p][list]) + 1
                           /\ g[y][l][k] = r
           Added(y, l, k) == y \in N /\ g[y][l][k] \in N \ {r, Root}
<1>5. ASSUME NEW y \in DOMAIN g, NEW l \in Lists, NEW k \in DOMAIN g[y][l]
      PROVE  Old(y, l, k) \/ Top(y, l, k) \/ Added(y, l, k)
  <2>1. CASE y \in N
    BY <1>4, <1>5, <2>1
  <2>2. CASE y \in D /\ ~(y = p /\ l = list)
    BY <1>2, <1>3, <1>5, <2>2
  <2>3. CASE y = p /\ l = list
    <3>1. PICK s \in Seq(D \ {Root}) : s = h[p][list]
      BY <1>2
    <3>2. g[y][l] = Append(s, r)
      BY <1>3, <2>3, <3>1
    <3>3. k \in 1..(Len(s) + 1)
      BY <1>5, <3>2
    <3>4. CASE k = Len(s) + 1
      BY <2>3, <3>1, <3>2, <3>4
    <3>5. CASE k # Len(s) + 1
      <4>1. k \in 1..Len(s)
        BY <3>3, <3>5
      <4>2. Append(s, r)[k] = s[k] /\ s[k] \in D \ {Root} /\ k \in DOMAIN s
        BY <4>1
      <4> QED BY <2>3, <3>1, <3>2, <4>2
    <3> QED BY <3>4, <3>5
  <2> QED BY <1>1, <2>1, <2>2, <2>3
<1>6. Forest(g)
  <2>1. DOMAIN g \subseteq Nat /\ Root \in DOMAIN g /\ IsFiniteSet(DOMAIN g)
    BY <1>1, FS_Union DEF Forest
  <2>2. ASSUME NEW y \in DOMAIN g PROVE IsObject(g[y], DOMAIN g)
    <3>1. DOMAIN g[y] = {"type", "value", "properties", "fragments", "nodes", "enable",
                         "resized"}
      BY <1>1 DEF Grafted, Forest, IsObject
    <3>2. ASSUME NEW l \in Lists PROVE g[y][l] \in Seq(DOMAIN g \ {Root})
      <4>1. CASE y \in N
        <5>1. g[y][l] \in Seq(N \ {r, Root})
          BY <1>4, <4>1
        <5>2. N \ {r, Root} \subseteq DOMAIN g \ {Root}
          BY <1>1
        <5> QED BY <5>1, <5>2
      <4>2. CASE y \in D
        <5>1. h[y][l] \in Seq(D \ {Root})
          BY <1>2, <4>2
        <5>2. D \ {Root} \subseteq DOMAIN g \ {Root} /\ r \in DOMAIN g \ {Root}
          BY <1>1
        <5>3. h[y][l] \in Seq(DOMAIN g \ {Root})
          BY <5>1, <5>2
        <5>4. g[y][l] = h[y][l] \/ g[y][l] = Append(h[y][l], r)
          BY <1>3, <4>2
        <5> QED BY <5>2, <5>3, <5>4
      <4> QED BY <1>1, <4>1, <4>2
    <3> QED BY <3>1, <3>2 DEF IsObject
  <2>3. ASSUME NEW x \in DOMAIN g, NEW z \in DOMAIN g, NEW l \in Lists, NEW m \in Lists,
               NEW i \in DOMAIN g[x][l], NEW j \in DOMAIN g[z][m], g[x][l][i] = g[z][m][j]
        PROVE  x = z /\ l = m /\ i = j
    <3>1. Old(x, l, i) \/ Top(x, l, i) \/ Added(x, l, i)
      BY <1>5, <2>3
    <3>2. Old(z, m, j) \/ Top(z, m, j) \/ Added(z, m, j)
      BY <1>5, <2>3
    <3>3. CASE Old(x, l, i) /\ Old(z, m, j)
      <4>1. h[x][l][i] = h[z][m][j]
        BY <2>3, <3>3
      <4> QED BY <1>1, <3>3, <4>1 DEF OnePlaceEach
    <3>4. CASE Top(x, l, i) /\ Top(z, m, j)
      BY <3>4
    <3>5. CASE Added(x, l, i) /\ Added(z, m, j)
      BY <2>3, <3>5 DEF Grafted
    <3>6. \/ Old(x, l, i) /\ Old(z, m, j)
          \/ Top(x, l, i) /\ Top(z, m, j)
          \/ Added(x, l, i) /\ Added(z, m, j)
      <4>1. g[x][l][i] = r => Top(x, l, i) /\ Top(z, m, j)
        BY <2>3, <3>1, <3>2
      <4>2. g[x][l][i] \in N => ~Old(x, l, i) /\ ~Old(z, m, j)
        BY <2>3
      <4>3. g[x][l][i] \in D => ~Added(x, l, i) /\ ~Added(z, m, j) /\ g[x][l][i] # r
        BY <2>3
      <4>4. g[x][l][i] # r => ~Top(x, l, i) /\ ~Top(z, m, j)
        BY <2>3
      <4>5. g[x][l][i] = r \/ g[x][l][i] \in N \/ g[x][l][i] \in D
        BY <3>1
      <4> HIDE DEF Old, Top, Added
      <4> QED BY <3>1, <3>2, <4>1, <4>2, <4>3, <4>4, <4>5
    <3> HIDE DEF Old, Top, Added
    <3> QED BY <3>3, <3>4, <3>5, <3>6
  <2> QED BY <2>1, <2>2, <2>3 DEF Forest, OnePlaceEach
<1>7. ASSUME NEW T \in SUBSET DOMAIN g, Root \in T, \A y \in T : Children(g, y) \subseteq T
      PROVE  T = DOMAIN g
  <2>1. ASSUME NEW y \in D, NEW w \in Children(h, y) PROVE w \in Children(g, y)
    <3>1. PICK l \in Lists : \E k \in DOMAIN h[y][l] : h[y][l][k] = w
      BY <2>1, ChildIs
    <3>2. PICK k \in DOMAIN h[y][l] : h[y][l][k] = w
      BY <3>1
    <3>3. k \in DOMAIN g[y][l] /\ g[y][l][k] = h[y][l][k]
      <4>1. PICK s \in Seq(D \ {Root}) : s = h[y][l]
        BY <1>2
      <4>2. k \in 1..Len(s) /\ (g[y][l] = s \/ g[y][l] = Append(s, r))
        <5>1. DOMAIN s = 1..Len(s)
          OBVIOUS
        <5>2. g[y][l] = h[y][l] \/ g[y][l] = Append(h[y][l], r)
          BY <1>3
        <5> QED BY <3>2, <4>1, <5>1, <5>2
      <4>3. k \in DOMAIN Append(s, r) /\ Append(s, r)[k] = s[k]
        BY <4>2
      <4> QED BY <3>2, <4>1, <4>2, <4>3
    <3> QED BY <3>2, <3>3, ChildIs
  <2>2. D \subseteq T
    <3> DEFINE U == T \cap D
    <3>1. U \in SUBSET D /\ Root \in U
      BY <1>1, <1>7
    <3>2. \A y \in U : Children(h, y) \subseteq U
      BY <1>1, <1>7, <2>1, ChildType
    <3>3. U = D
      <4> HIDE DEF U
      <4> QED BY <1>1, <3>1, <3>2, Spans
    <3> QED BY <3>3
  <2>3. r \in T
    <3>1. g[p][list] = Append(h[p][list], r) /\ h[p][list] \in Seq(D \ {Root})
      BY <1>2, <1>3
    <3>2. /\ Len(h[p][list]) + 1 \in DOMAIN g[p][list]
          /\ g[p][list][Len(h[p][list]) + 1] = r
      BY <3>1
    <3>3. r \in Children(g, p)
      BY <3>2, ChildIs
    <3> QED BY <1>7, <2>2, <3>3
  <2>4. N \subseteq T
    <3> DEFINE U == T \cap N
    <3>1. U \in SUBSET N /\ r \in U
      BY <2>3
    <3>2. ASSUME NEW y \in U, NEW w \in Children(g, y) PROVE w \in U
      <4>1. w \in T /\ y \in N
        BY <1>7, <3>2
      <4>2. PICK l \in Lists : \E k \in DOMAIN g[y][l] : g[y][l][k] = w
        BY <3>2, ChildIs
      <4>3. w \in N
        BY <1>4, <4>1, <4>2
      <4> QED BY <4>1, <4>3
    <3>3. U = N
      <4> HIDE DEF U
      <4> QED BY <3>1, <3>2 DEF Grafted
    <3> QED BY <3>3
  <2> QED BY <1>1, <2>2, <2>4
<1> QED BY <1>6, <1>7, Spans

-----------------------------------------------------------------------------
(* The operations on the heap. *)

LEMMA NewIsAbove ==
    ASSUME NEW h, Forest(h)
    PROVE  New(h) \in Nat /\ \A y \in DOMAIN h : y < New(h)
<1> DEFINE D == DOMAIN h
<1>1. D \subseteq Nat /\ IsFiniteSet(D) /\ D # {}
  BY DEF Forest
<1> DEFINE m == Max(D)
<1>2. m \in D /\ \A y \in D : y <= m
  <2> HIDE DEF D
  <2> QED BY <1>1, HasMax
<1>3. New(h) = m + 1
  BY DEF New
<1> HIDE DEF D, m
<1>4. m \in Nat
  BY <1>1, <1>2
<1>5. ASSUME NEW y \in D PROVE y < m + 1
  <2>1. y \in Nat /\ y <= m
    BY <1>1, <1>2
  <2> QED BY <1>4, <2>1
<1> QED BY <1>3, <1>4, <1>5 DEF D

LEMMA ExtendedIs ==
    ASSUME NEW h, NEW g
    PROVE  /\ DOMAIN Extended(h, g) = DOMAIN h \cup DOMAIN g
           /\ \A y \in DOMAIN g : Extended(h, g)[y] = g[y]
           /\ \A y \in DOMAIN h \ DOMAIN g : Extended(h, g)[y] = h[y]
BY DEF Extended

\* A new fragment is the last one of its parent.
LEMMA Adds ==
    ASSUME NEW h, Tree(h), NEW p \in DOMAIN h, NEW token
    PROVE  Tree(Add(h, p, token)) /\ DOMAIN Add(h, p, token) = DOMAIN h \cup {New(h)}
<1> DEFINE n == New(h)
           old == [h EXCEPT ![p].fragments = Append(@, n)]
           new == [i \in {n} |-> Fragment(token)]
           g == Add(h, p, token)
<1>1. Forest(h)
  BY DEF Tree
<1>2. n \in Nat /\ n \notin DOMAIN h
  BY <1>1, NewIsAbove
<1>3. \A y \in DOMAIN h : IsObject(h[y], DOMAIN h)
  BY <1>1 DEF Forest
<1>4. /\ DOMAIN g = DOMAIN h \cup {n}
      /\ g[n] = Fragment(token)
      /\ \A y \in DOMAIN h : g[y] = old[y]
  <2>1. g = Extended(old, new)
    BY DEF Add
  <2>2. DOMAIN old = DOMAIN h /\ DOMAIN new = {n} /\ new[n] = Fragment(token)
    OBVIOUS
  <2> HIDE DEF old, new, g
  <2>3. /\ DOMAIN Extended(old, new) = DOMAIN old \cup DOMAIN new
        /\ \A y \in DOMAIN new : Extended(old, new)[y] = new[y]
        /\ \A y \in DOMAIN old \ DOMAIN new : Extended(old, new)[y] = old[y]
    BY ExtendedIs
  <2> HIDE DEF n
  <2> QED BY <1>2, <2>1, <2>2, <2>3
<1>5. ASSUME NEW y \in DOMAIN h
      PROVE  /\ DOMAIN old[y] = DOMAIN h[y]
             /\ \A l \in Lists :
                   old[y][l] = IF y = p /\ l = "fragments" THEN Append(h[y][l], n) ELSE h[y][l]
  BY <1>3 DEF IsObject, Lists
<1>6. IsObject(g[n], {n} \ {n}) /\ \A l \in Lists : g[n][l] = <<>>
  BY <1>4 DEF Fragment, IsObject, Lists
<1> HIDE DEF g, old
<1>7. Grafted(g, h, {n}, p, "fragments", n)
  <2>1. \A l \in Lists : DOMAIN g[n][l] = {}
    BY <1>6
  <2>2. \A x, z \in {n}, l, m \in Lists : \A i \in DOMAIN g[x][l], j \in DOMAIN g[z][m] :
            g[x][l][i] = g[z][m][j] => x = z /\ l = m /\ i = j
    BY <2>1
  <2>3. \A T \in SUBSET {n} : n \in T => T = {n}
    OBVIOUS
  <2> HIDE DEF n
  <2> QED BY <1>4, <1>5, <1>6, <2>2, <2>3 DEF Grafted
<1>8. IsFiniteSet({n})
  BY FS_Singleton
<1>9. "fragments" \in Lists /\ {n} \subseteq Nat /\ {n} \cap DOMAIN h = {} /\ n \in {n}
  BY <1>2 DEF Lists
<1>10. Tree(g)
  <2> HIDE DEF n
  <2> QED BY <1>7, <1>8, <1>9, Grafts
<1> QED BY <1>4, <1>10 DEF g

\* The prototype of x is part of what is below it.
LEMMA PrototypeBelow ==
    ASSUME NEW h, Forest(h), NEW x \in DOMAIN h
    PROVE  Prototype(h, x) \subseteq Below(h, x)
<1> DEFINE T == Below(h, x)
<1>1. T \in SUBSET DOMAIN h /\ x \in T /\ \A y \in T : Children(h, y) \subseteq T
  BY BelowIs
<1>2. \A y \in T : ToSet(h[y].fragments) \subseteq T
  BY <1>1 DEF Children
<1> HIDE DEF T
<1>3. Prototype(h, x) \subseteq T
  BY <1>1, <1>2, PrototypeIs
<1> QED BY <1>3 DEF T

\* The copies of the objects of a prototype, moved by n.
LEMMA CopiedIs ==
    ASSUME NEW h, Forest(h), NEW y \in DOMAIN h, NEW n
    PROVE  LET o == Copied(h[y], n)
           IN  /\ DOMAIN o = DOMAIN h[y]
               /\ o.nodes = <<>>
               /\ o.fragments = [k \in DOMAIN h[y].fragments |-> h[y].fragments[k] + n]
<1>1. IsObject(h[y], DOMAIN h)
  BY DEF Forest
<1> QED BY <1>1 DEF IsObject, Copied

LEMMA MovedType ==
    ASSUME NEW S, NEW s \in Seq(S), NEW n, NEW T, \A k \in DOMAIN s : s[k] + n \in T
    PROVE  [k \in DOMAIN s |-> s[k] + n] \in Seq(T)
<1>1. DOMAIN s = 1..Len(s) /\ Len(s) \in Nat
  OBVIOUS
<1>2. [k \in 1..Len(s) |-> s[k] + n] \in [1..Len(s) -> T]
  BY <1>1
<1> QED BY <1>1, <1>2

\* The copy of a block is hung on its nodes, and shares no object with it.
LEMMA Copies ==
    ASSUME NEW h, Tree(h), NEW x \in DOMAIN h
    PROVE  Tree(WithCopy(h, x)) /\ DOMAIN h \subseteq DOMAIN WithCopy(h, x)
<1> DEFINE n == New(h)
           D == DOMAIN h
           P == Prototype(h, x)
           N == {y + n : y \in P}
           r == x + n
           old == [h EXCEPT ![x].nodes = Append(@, r)]
           copies == [i \in N |-> Copied(h[i - n], n)]
           g == WithCopy(h, x)
<1>1. Forest(h) /\ D \subseteq Nat /\ Root \in D
  BY DEF Tree, Forest
<1>2. n \in Nat /\ \A y \in D : y < n
  BY <1>1, NewIsAbove
<1>3. /\ x \in P /\ P \subseteq D
      /\ \A y \in P : ToSet(h[y].fragments) \subseteq P
      /\ \A T \in SUBSET D :
            x \in T /\ (\A y \in T : ToSet(h[y].fragments) \subseteq T) => P \subseteq T
  BY <1>1, PrototypeIs
<1>4. g = Extended(old, copies)
  BY DEF WithCopy
<1>5. ASSUME NEW y \in D
      PROVE  /\ DOMAIN old[y] = DOMAIN h[y]
             /\ \A l \in Lists :
                   old[y][l] = IF y = x /\ l = "nodes" THEN Append(h[y][l], r) ELSE h[y][l]
  <2>1. IsObject(h[y], D)
    BY <1>1 DEF Forest
  <2> HIDE DEF r
  <2> QED BY <2>1 DEF IsObject, Lists
<1>6. DOMAIN old = D /\ DOMAIN copies = N
  OBVIOUS
<1> HIDE DEF n, P, g, old
<1>7. N \subseteq Nat /\ r \in N /\ N \cap D = {} /\ Root \notin N
  BY <1>1, <1>2, <1>3 DEF Root
<1>8. IsFiniteSet(N)
  <2>1. \A i \in N : i <= n + n
    BY <1>1, <1>2, <1>3
  <2> HIDE DEF N
  <2> QED BY <1>2, <1>7, <2>1, FS_BoundedSetOfNaturals
<1>9. ASSUME NEW y \in P PROVE copies[y + n] = Copied(h[y], n)
  <2>1. (y + n) - n = y
    BY <1>1, <1>2, <1>3
  <2> QED BY <2>1
<1> HIDE DEF copies
<1>10. /\ DOMAIN g = D \cup N
       /\ \A y \in D : g[y] = old[y]
       /\ \A y \in P : g[y + n] = Copied(h[y], n)
  <2>1. /\ DOMAIN Extended(old, copies) = DOMAIN old \cup DOMAIN copies
        /\ \A y \in DOMAIN copies : Extended(old, copies)[y] = copies[y]
        /\ \A y \in DOMAIN old \ DOMAIN copies : Extended(old, copies)[y] = old[y]
    BY ExtendedIs
  <2>2. \A y \in P : y + n \in N
    OBVIOUS
  <2> HIDE DEF N
  <2> QED BY <1>4, <1>6, <1>7, <1>9, <2>1, <2>2
\* What hangs on the copy of y.
<1>11. ASSUME NEW y \in P
       PROVE  LET o == g[y + n]
              IN  /\ DOMAIN o = DOMAIN h[y]
                  /\ o.nodes = <<>>
                  /\ o.fragments = [k \in DOMAIN h[y].fragments |-> h[y].fragments[k] + n]
                  /\ \A k \in DOMAIN h[y].fragments : h[y].fragments[k] \in P \ {x}
  <2>1. y \in D /\ g[y + n] = Copied(h[y], n)
    BY <1>3, <1>10
  <2>2. ASSUME NEW k \in DOMAIN h[y].fragments PROVE h[y].fragments[k] \in P \ {x}
    <3>1. h[y].fragments[k] \in P
      BY <1>3 DEF ToSet
    <3>2. ASSUME h[y].fragments[k] = x PROVE FALSE
      <4>1. x \in Children(h, y)
        BY <3>2 DEF Children, ToSet
      <4>2. y \notin Below(h, x)
        BY <2>1, <4>1, NoCycle
      <4> QED BY <1>1, <4>2, PrototypeBelow DEF P
    <3> QED BY <3>1, <3>2
  <2>3. LET o == Copied(h[y], n)
        IN  /\ DOMAIN o = DOMAIN h[y]
            /\ o.nodes = <<>>
            /\ o.fragments = [k \in DOMAIN h[y].fragments |-> h[y].fragments[k] + n]
    BY <1>1, <2>1, CopiedIs
  <2> QED BY <2>1, <2>2, <2>3
<1>12. ASSUME NEW y \in P PROVE IsObject(g[y + n], N \ {r})
  <2>1. IsObject(h[y], D)
    BY <1>1, <1>3 DEF Forest
  <2>2. g[y + n].nodes \in Seq((N \ {r}) \ {Root})
    <3>1. g[y + n].nodes = <<>>
      BY <1>11
    <3> HIDE DEF N, r
    <3> QED BY <3>1
  <2>3. g[y + n].fragments \in Seq((N \ {r}) \ {Root})
    <3>1. PICK s \in Seq(D \ {Root}) : s = h[y].fragments
      BY <2>1 DEF IsObject, Lists
    <3>2. ASSUME NEW k \in DOMAIN s PROVE s[k] + n \in (N \ {r}) \ {Root}
      <4>1. s[k] \in P /\ s[k] # x
        BY <1>11, <3>1
      <4>2. s[k] \in Nat /\ x \in Nat
        BY <1>1, <1>3, <4>1
      <4>3. s[k] + n # r
        BY <1>2, <4>1, <4>2
      <4> QED BY <1>7, <4>1, <4>3
    <3>3. [k \in DOMAIN s |-> s[k] + n] \in Seq((N \ {r}) \ {Root})
      <4> DEFINE W == (N \ {r}) \ {Root}
      <4>1. \A k \in DOMAIN s : s[k] + n \in W
        BY <3>2
      <4> HIDE DEF W
      <4>2. [k \in DOMAIN s |-> s[k] + n] \in Seq(W)
        BY <4>1, MovedType
      <4> QED BY <4>2 DEF W
    <3>4. g[y + n].fragments = [k \in DOMAIN s |-> s[k] + n]
      BY <1>11, <3>1
    <3> QED BY <3>3, <3>4
  <2> HIDE DEF N, r
  <2>4. \A l \in Lists : g[y + n][l] \in Seq((N \ {r}) \ {Root})
    BY <2>2, <2>3 DEF Lists
  <2>5. DOMAIN g[y + n] = DOMAIN h[y]
    BY <1>11
  <2> QED BY <2>1, <2>4, <2>5 DEF IsObject
<1>13. ASSUME NEW y \in P, NEW z \in P, NEW l \in Lists, NEW m \in Lists,
              NEW i \in DOMAIN g[y + n][l], NEW j \in DOMAIN g[z + n][m],
              g[y + n][l][i] = g[z + n][m][j]
       PROVE  y = z /\ l = m /\ i = j
  <2>1. DOMAIN <<>> = {}
    OBVIOUS
  <2>2. l = "fragments" /\ m = "fragments"
    BY <1>11, <2>1 DEF Lists
  <2>3. /\ i \in DOMAIN h[y].fragments /\ j \in DOMAIN h[z].fragments
        /\ h[y].fragments[i] + n = h[z].fragments[j] + n
    <3>1. /\ g[y + n].fragments = [k \in DOMAIN h[y].fragments |-> h[y].fragments[k] + n]
          /\ g[z + n].fragments = [k \in DOMAIN h[z].fragments |-> h[z].fragments[k] + n]
      BY <1>11
    <3>2. /\ i \in DOMAIN g[y + n].fragments /\ j \in DOMAIN g[z + n].fragments
          /\ g[y + n].fragments[i] = g[z + n].fragments[j]
      BY <1>13, <2>2
    <3> HIDE DEF N, r
    <3> QED BY <3>1, <3>2
  <2>4. h[y].fragments[i] \in Nat /\ h[z].fragments[j] \in Nat
    BY <1>1, <1>3, <1>11, <2>3
  <2>5. h[y].fragments[i] = h[z].fragments[j]
    BY <1>2, <2>3, <2>4
  <2>6. y \in D /\ z \in D /\ OnePlaceEach(h)
    BY <1>1, <1>3 DEF Forest
  <2> QED BY <2>2, <2>3, <2>5, <2>6 DEF OnePlaceEach
<1>14. ASSUME NEW T \in SUBSET N, r \in T, \A y \in T : Children(g, y) \subseteq T
       PROVE  T = N
  <2> DEFINE U == {y \in P : y + n \in T}
  <2>1. U \in SUBSET D /\ x \in U
    BY <1>3, <1>14
  <2>2. ASSUME NEW y \in U, NEW w \in ToSet(h[y].fragments) PROVE w \in U
    <3>1. PICK k \in DOMAIN h[y].fragments : h[y].fragments[k] = w
      BY <2>2 DEF ToSet
    <3>2. /\ k \in DOMAIN g[y + n].fragments /\ g[y + n].fragments[k] = w + n
          /\ w \in P
      BY <1>11, <3>1
    <3>3. w + n \in Children(g, y + n)
      BY <3>2 DEF Children, ToSet
    <3> QED BY <1>14, <3>2, <3>3
  <2>3. P \subseteq U
    <3> HIDE DEF U
    <3> QED BY <1>3, <2>1, <2>2
  <2> QED BY <1>14, <2>3
<1>15. Grafted(g, h, N, x, "nodes", r)
  <2>1. \A y \in D : DOMAIN g[y] = DOMAIN h[y]
    BY <1>5, <1>10
  <2>2. \A y \in D, l \in Lists :
            g[y][l] = IF y = x /\ l = "nodes" THEN Append(h[y][l], r) ELSE h[y][l]
    BY <1>5, <1>10
  <2>3. \A y \in N : IsObject(g[y], N \ {r})
    BY <1>12
  <2>4. ASSUME NEW u \in N, NEW v \in N, NEW l \in Lists, NEW m \in Lists,
               NEW i \in DOMAIN g[u][l], NEW j \in DOMAIN g[v][m], g[u][l][i] = g[v][m][j]
        PROVE  u = v /\ l = m /\ i = j
    <3>1. PICK y \in P, z \in P : u = y + n /\ v = z + n
      OBVIOUS
    <3> QED BY <1>13, <2>4, <3>1
  <2> HIDE DEF N, r
  <2> QED BY <1>10, <1>14, <2>1, <2>2, <2>3, <2>4 DEF Grafted
<1>16. "nodes" \in Lists
  BY DEF Lists
<1>17. Tree(g)
  <2> HIDE DEF N, r, D
  <2> QED BY <1>7, <1>8, <1>15, <1>16, Grafts DEF D
<1>18. D \subseteq DOMAIN g
  BY <1>10
<1> QED BY <1>17, <1>18 DEF g

LEMMA WithoutIs ==
    ASSUME NEW h, NEW xs
    PROVE  /\ DOMAIN Without(h, xs) = DOMAIN h \ UNION {Below(h, c) : c \in xs}
           /\ \A y \in DOMAIN Without(h, xs) : Without(h, xs)[y] = h[y]
BY DEF Without

\* What else is written in an object changes no tree.
LEMMA Writes ==
    ASSUME NEW h, Tree(h), NEW g, DOMAIN g = DOMAIN h,
           \A y \in DOMAIN h : /\ DOMAIN g[y] = DOMAIN h[y]
                                /\ \A l \in Lists : g[y][l] = h[y][l]
    PROVE  Tree(g)
<1>1. Root \in DOMAIN h
  BY DEF Tree, Forest
<1>2. Emptied(g, h, Root, {}, {})
  BY DEF Emptied
<1> QED BY <1>1, <1>2, Clears

\* Clear leaves the engine.
LEMMA ClearedIsTree == Tree(heap) => Tree(Cleared) /\ Root \in DOMAIN Cleared
<1> SUFFICES ASSUME Tree(heap) PROVE Tree(Cleared) /\ Root \in DOMAIN Cleared
  OBVIOUS
<1> DEFINE xs == Children(heap, Root)
           w == Without(heap, xs)
           g == Cleared
<1>1. Root \in DOMAIN heap /\ \A y \in DOMAIN heap : IsObject(heap[y], DOMAIN heap)
  BY DEF Tree, Forest
<1>2. xs = UNION {ToSet(heap[Root][l]) : l \in Lists}
  BY DEF Children, Lists
<1>3. /\ DOMAIN w = DOMAIN heap \ UNION {Below(heap, c) : c \in xs}
      /\ \A y \in DOMAIN w : w[y] = heap[y]
  BY WithoutIs
<1>4. g = [w EXCEPT ![Root].fragments = <<>>, ![Root].nodes = <<>>, ![Root].properties = <<>>]
  BY DEF Cleared
<1> HIDE DEF w, g, xs
<1>5. DOMAIN g = DOMAIN w
  BY <1>4
<1>6. ASSUME NEW y \in DOMAIN g
      PROVE  /\ DOMAIN g[y] = DOMAIN heap[y]
             /\ \A l \in Lists :
                   g[y][l] = IF y = Root /\ l \in Lists THEN <<>> ELSE heap[y][l]
  <2>1. IsObject(heap[y], DOMAIN heap) /\ w[y] = heap[y] /\ y \in DOMAIN w
    BY <1>1, <1>3, <1>5
  <2> QED BY <1>4, <2>1 DEF IsObject, Lists
<1>7. DOMAIN g = DOMAIN heap \ UNION {Below(heap, c) : c \in xs}
  BY <1>3, <1>5
<1>8. Emptied(g, heap, Root, Lists, xs)
  BY <1>2, <1>6, <1>7 DEF Emptied
<1>9. Tree(g) /\ Root \in DOMAIN g
  BY <1>1, <1>8, Clears
<1> QED BY <1>9 DEF g

\* What the user works on is in the tree.
LEMMA OfferedType == Tree(heap) => Nodes \subseteq DOMAIN heap /\ Blocks \subseteq DOMAIN heap
<1> SUFFICES ASSUME Tree(heap) PROVE Nodes \subseteq DOMAIN heap /\ Blocks \subseteq DOMAIN heap
  OBVIOUS
<1> DEFINE steps == [q \in (DOMAIN heap) \X BOOLEAN |->
                        {<<y, TRUE>> : y \in BlocksOf(q[1])}
                        \cup IF q[2] THEN {<<y, FALSE>> : y \in ToSet(heap[q[1]].nodes)} ELSE {}]
<1>1. Forest(heap) /\ Root \in DOMAIN heap /\ IsFiniteSet(DOMAIN heap)
  BY DEF Tree, Forest
<1>2. Offered = Reached({<<Root, TRUE>>}, steps)
  BY DEF Offered
<1>3. IsFiniteSet(BOOLEAN)
  <2>1. IsFiniteSet({TRUE}) /\ IsFiniteSet({FALSE})
    BY FS_Singleton
  <2>2. IsFiniteSet({TRUE} \cup {FALSE})
    BY <2>1, FS_Union
  <2>3. BOOLEAN = {TRUE} \cup {FALSE}
    OBVIOUS
  <2> QED BY <2>2, <2>3, Zenon
<1>4. IsFiniteSet((DOMAIN heap) \X BOOLEAN)
  BY <1>1, <1>3, FS_Product
<1>5. ASSUME NEW q \in (DOMAIN heap) \X BOOLEAN PROVE steps[q] \subseteq (DOMAIN heap) \X BOOLEAN
  <2>1. q[1] \in DOMAIN heap
    OBVIOUS
  <2>2. BlocksOf(q[1]) \subseteq DOMAIN heap /\ ToSet(heap[q[1]].nodes) \subseteq DOMAIN heap
    BY <1>1, <2>1, ChildType DEF BlocksOf, Children
  <2>3. ASSUME NEW y \in DOMAIN heap, NEW b \in BOOLEAN
        PROVE  <<y, b>> \in (DOMAIN heap) \X BOOLEAN
    OBVIOUS
  <2>4. TRUE \in BOOLEAN /\ FALSE \in BOOLEAN
    OBVIOUS
  <2>5. {<<y, TRUE>> : y \in BlocksOf(q[1])} \subseteq (DOMAIN heap) \X BOOLEAN
    BY <2>2, <2>3, <2>4
  <2>6. {<<y, FALSE>> : y \in ToSet(heap[q[1]].nodes)} \subseteq (DOMAIN heap) \X BOOLEAN
    BY <2>2, <2>3, <2>4
  <2> QED BY <2>5, <2>6
<1>6. DOMAIN steps = (DOMAIN heap) \X BOOLEAN
  OBVIOUS
<1> HIDE DEF steps
<1>7. Leads(steps)
  BY <1>4, <1>5, <1>6 DEF Leads
<1>8. {<<Root, TRUE>>} \in SUBSET DOMAIN steps
  BY <1>1, <1>6
<1>9. Offered \subseteq (DOMAIN heap) \X BOOLEAN
  BY <1>2, <1>6, <1>7, <1>8, Reaches
<1>10. \A q \in Offered : q[1] \in DOMAIN heap
  BY <1>9
<1> QED BY <1>10 DEF Nodes, Blocks

\* Repeat drops the nodes of x.
LEMMA Drops ==
    ASSUME NEW h, Tree(h), NEW x \in DOMAIN h
    PROVE  LET g == [Without(h, ToSet(h[x].nodes)) EXCEPT ![x].nodes = <<>>, ![x].resized = TRUE]
           IN  Tree(g) /\ x \in DOMAIN g
<1> DEFINE xs == ToSet(h[x].nodes)
           w == Without(h, xs)
           g == [w EXCEPT ![x].nodes = <<>>, ![x].resized = TRUE]
<1>1. \A y \in DOMAIN h : IsObject(h[y], DOMAIN h)
  BY DEF Tree, Forest
<1>2. xs = UNION {ToSet(h[x][l]) : l \in {"nodes"}}
  OBVIOUS
<1>3. /\ DOMAIN w = DOMAIN h \ UNION {Below(h, c) : c \in xs}
      /\ \A y \in DOMAIN w : w[y] = h[y]
  BY WithoutIs
<1> HIDE DEF w, xs
<1>5. DOMAIN g = DOMAIN w
  OBVIOUS
<1>6. ASSUME NEW y \in DOMAIN g
      PROVE  /\ DOMAIN g[y] = DOMAIN h[y]
             /\ \A l \in Lists :
                   g[y][l] = IF y = x /\ l \in {"nodes"} THEN <<>> ELSE h[y][l]
  <2>1. IsObject(h[y], DOMAIN h) /\ w[y] = h[y] /\ y \in DOMAIN w
    BY <1>1, <1>3, <1>5
  <2> QED BY <2>1 DEF IsObject, Lists
<1>7. DOMAIN g = DOMAIN h \ UNION {Below(h, c) : c \in xs}
  BY <1>3, <1>5
<1> HIDE DEF g
<1>8. Emptied(g, h, x, {"nodes"}, xs) /\ {"nodes"} \subseteq Lists
  BY <1>2, <1>6, <1>7 DEF Emptied, Lists
<1>9. Tree(g) /\ x \in DOMAIN g
  BY <1>8, Clears
<1> QED BY <1>9 DEF g, w, xs

-----------------------------------------------------------------------------
(* The invariant. *)

\* The heap is a tree, and what LoadRecursive has on its stack of nodes is in it.
IInv ==
    /\ Tree(heap)
    /\ phase = "loading" => nodes \in Seq(DOMAIN heap)

LEMMA FirstTree == Init => IInv
<1> SUFFICES ASSUME Init PROVE IInv
  OBVIOUS
<1> DEFINE main == Fragment(Token("BLOCK", <<"main">>))
<1>1. heap = [i \in {Root} |-> main] /\ phase = "ready"
  BY DEF Init
<1>2. DOMAIN heap = {Root} /\ heap[Root] = main
  BY <1>1
<1>3. IsObject(heap[Root], {Root}) /\ \A l \in Lists : heap[Root][l] = <<>>
  BY <1>2 DEF Fragment, IsObject, Lists
<1>4. Forest(heap)
  <2>1. IsFiniteSet({Root}) /\ {Root} \subseteq Nat
    BY FS_Singleton DEF Root
  <2>2. \A l \in Lists : DOMAIN heap[Root][l] = {}
    BY <1>3
  <2>3. OnePlaceEach(heap)
    BY <1>2, <2>2 DEF OnePlaceEach
  <2> QED BY <1>2, <1>3, <2>1, <2>3 DEF Forest
<1>5. \A T \in SUBSET {Root} : Root \in T => T = {Root}
  OBVIOUS
<1>6. Tree(heap)
  BY <1>2, <1>4, <1>5, Spans
<1> QED BY <1>1, <1>6 DEF IInv

\* The turns of LoadRecursive.
LEMMA LoadKeepsTree ==
    ASSUME IInv, LoadEnd \/ LoadBlock \/ LoadEndBlock \/ LoadLeaf \/ LoadInclude
    PROVE  IInv'
<1>1. Tree(heap)
  BY DEF IInv
<1>2. CASE heap' = heap /\ nodes' = nodes /\ phase = "loading"
  BY <1>2 DEF IInv
<1>3. CASE LoadEnd
  <2>1. heap' = heap /\ nodes' = nodes /\ phase = "loading"
    BY <1>3 DEF LoadEnd, Turn
  <2> QED BY <1>2, <2>1
<1>4. CASE LoadInclude
  <2>1. heap' = heap /\ nodes' = nodes /\ phase = "loading"
    BY <1>4 DEF LoadInclude, Turn
  <2> QED BY <1>2, <2>1
<1>5. CASE Dies
  BY <1>1, <1>5 DEF Dies, IInv
\* The others, where they do not die.
<1>6. ASSUME phase = "loading", nodes # <<>>
      PROVE  Last(nodes) \in DOMAIN heap /\ Front(nodes) \in Seq(DOMAIN heap)
  <2>1. nodes \in Seq(DOMAIN heap)
    BY <1>6 DEF IInv
  <2>2. Len(nodes) \in 1..Len(nodes)
    BY <1>6, <2>1
  <2>3. Last(nodes) \in DOMAIN heap
    BY <2>1, <2>2 DEF Last
  <2>4. SubSeq(nodes, 1, Len(nodes) - 1) \in Seq(DOMAIN heap)
    BY <2>1, <2>2
  <2> QED BY <2>3, <2>4 DEF Front
<1>7. CASE LoadBlock /\ ~Dies
  <2>1. /\ phase = "loading" /\ nodes # <<>>
        /\ \E token : heap' = Add(heap, Last(nodes), token)
        /\ nodes' = Append(nodes, New(heap))
    BY <1>7 DEF LoadBlock, Turn
  <2>2. PICK token : heap' = Add(heap, Last(nodes), token)
    BY <2>1
  <2>3. Tree(heap') /\ DOMAIN heap' = DOMAIN heap \cup {New(heap)}
    BY <1>1, <1>6, <2>1, <2>2, Adds
  <2>4. nodes \in Seq(DOMAIN heap')
    BY <2>1, <2>3 DEF IInv
  <2>5. nodes' \in Seq(DOMAIN heap')
    BY <2>1, <2>3, <2>4
  <2> QED BY <2>3, <2>5 DEF IInv
<1>8. CASE LoadLeaf /\ ~Dies
  <2>1. /\ phase = "loading" /\ nodes # <<>>
        /\ \E token : heap' = Add(heap, Last(nodes), token)
        /\ nodes' = nodes
    BY <1>8 DEF LoadLeaf, Turn
  <2>2. PICK token : heap' = Add(heap, Last(nodes), token)
    BY <2>1
  <2>3. Tree(heap') /\ DOMAIN heap' = DOMAIN heap \cup {New(heap)}
    BY <1>1, <1>6, <2>1, <2>2, Adds
  <2>4. nodes \in Seq(DOMAIN heap')
    BY <2>1, <2>3 DEF IInv
  <2> QED BY <2>1, <2>3, <2>4 DEF IInv
<1>9. CASE LoadEndBlock /\ ~Dies
  <2>1. phase = "loading" /\ nodes # <<>> /\ nodes' = Front(nodes) /\ heap' = heap
    BY <1>9 DEF LoadEndBlock, Turn
  <2> QED BY <1>1, <1>6, <2>1 DEF IInv
<1> QED BY <1>3, <1>4, <1>5, <1>7, <1>8, <1>9

\* The operations of the user.
LEMMA WorkKeepsTree ==
    ASSUME IInv, Set \/ Enable \/ Disable \/ Repeat
    PROVE  IInv'
<1>1. Tree(heap) /\ Nodes \subseteq DOMAIN heap /\ Blocks \subseteq DOMAIN heap
  BY OfferedType DEF IInv
<1>2. \A y \in DOMAIN heap : IsObject(heap[y], DOMAIN heap)
  BY <1>1 DEF Tree, Forest
<1>3. ASSUME NEW h, Operation(h), Tree(h) PROVE IInv'
  <2>1. phase' = "ready" /\ heap' = h
    BY <1>3 DEF Operation
  <2> QED BY <1>3, <2>1 DEF IInv
<1>4. CASE Set
  <2>1. PICK x \in Nodes : \E key \in Keys(x), value \in Values :
            Operation([heap EXCEPT ![x].properties = SetIn(@, key, value)])
    BY <1>4 DEF Set
  <2>2. PICK key \in Keys(x), value \in Values :
            Operation([heap EXCEPT ![x].properties = SetIn(@, key, value)])
    BY <2>1
  <2> DEFINE g == [heap EXCEPT ![x].properties = SetIn(@, key, value)]
  <2>3. DOMAIN g = DOMAIN heap /\ \A y \in DOMAIN heap :
            DOMAIN g[y] = DOMAIN heap[y] /\ \A l \in Lists : g[y][l] = heap[y][l]
    BY <1>2 DEF IsObject, Lists
  <2> HIDE DEF g
  <2>4. Tree(g)
    BY <1>1, <2>3, Writes
  <2>5. Operation(g)
    BY <2>2 DEF g
  <2> QED BY <1>3, <2>4, <2>5
<1>5. CASE Enable \/ Disable
  <2>1. PICK x \in Blocks, b \in BOOLEAN : Operation([heap EXCEPT ![x].enable = b])
    BY <1>5 DEF Enable, Disable
  <2> DEFINE g == [heap EXCEPT ![x].enable = b]
  <2>2. DOMAIN g = DOMAIN heap /\ \A y \in DOMAIN heap :
            DOMAIN g[y] = DOMAIN heap[y] /\ \A l \in Lists : g[y][l] = heap[y][l]
    BY <1>2 DEF IsObject, Lists
  <2> HIDE DEF g
  <2>3. Tree(g)
    BY <1>1, <2>2, Writes
  <2>4. Operation(g)
    BY <2>1 DEF g
  <2> QED BY <1>3, <2>3, <2>4
<1>6. CASE Repeat
  <2>1. PICK x \in Blocks : \E times \in 0..2 :
            LET h == [Without(heap, ToSet(heap[x].nodes)) EXCEPT
                         ![x].nodes = <<>>, ![x].resized = TRUE]
            IN  Operation(CASE times = 0 -> h [] times = 1 -> WithCopy(h, x)
                            [] times = 2 -> WithCopy(WithCopy(h, x), x))
    BY <1>6 DEF Repeat
  <2> DEFINE h == [Without(heap, ToSet(heap[x].nodes)) EXCEPT
                      ![x].nodes = <<>>, ![x].resized = TRUE]
  <2>2. Tree(h) /\ x \in DOMAIN h
    BY <1>1, Drops
  <2>3. PICK times \in 0..2 :
            Operation(CASE times = 0 -> h [] times = 1 -> WithCopy(h, x)
                        [] times = 2 -> WithCopy(WithCopy(h, x), x))
    BY <2>1
  <2> HIDE DEF h
  <2>4. Tree(WithCopy(h, x)) /\ x \in DOMAIN WithCopy(h, x)
    BY <2>2, Copies
  <2>5. Tree(WithCopy(WithCopy(h, x), x))
    BY <2>4, Copies
  <2>6. CASE times = 0
    BY <1>3, <2>2, <2>3, <2>6
  <2>7. CASE times = 1
    BY <1>3, <2>3, <2>4, <2>7
  <2>8. CASE times = 2
    BY <1>3, <2>3, <2>5, <2>8
  <2> QED BY <2>6, <2>7, <2>8
<1> QED BY <1>4, <1>5, <1>6

LEMMA StepsKeepTree == IInv /\ [Next]_vars => IInv'
<1> SUFFICES ASSUME IInv, [Next]_vars PROVE IInv'
  OBVIOUS
<1>1. CASE UNCHANGED vars
  <2>1. heap' = heap /\ phase' = phase /\ nodes' = nodes
    BY <1>1 DEF vars
  <2> QED BY <2>1 DEF IInv
<1>2. ASSUME NEW n \in Names, Load(n) PROVE IInv'
  <2>1. heap' = Cleared /\ nodes' = <<Root>>
    BY <1>2 DEF Load
  <2>2. Tree(Cleared) /\ Root \in DOMAIN Cleared
    BY ClearedIsTree DEF IInv
  <2>3. nodes' \in Seq(DOMAIN heap')
    BY <2>1, <2>2
  <2> QED BY <2>1, <2>2, <2>3 DEF IInv
<1> QED BY <1>1, <1>2, LoadKeepsTree, WorkKeepsTree DEF Next

\* The Fragments and Blocks of a TemplateEngine, which hold each other through plain
\* pointers in fragments and nodes: whatever is loaded, cleared, set and repeated, each is
\* in one list, once, and can be reached from the engine, so the destructors that delete
\* what the lists hold delete each object once and forget none.
THEOREM EachOwnedOnce == Spec => []OneOwner
<1>1. IInv => OneOwner
  BY OwnedOnce DEF IInv, OneOwner, Tree
<1>2. Spec => []IInv
  BY FirstTree, StepsKeepTree, PTL DEF Spec
<1> QED BY <1>1, <1>2, PTL

-----------------------------------------------------------------------------
(* Rendering is recursion over the tree. *)

\* Of some objects, one has none of the others hanging on it.
LEMMA Lowest ==
    ASSUME NEW h, Tree(h), NEW U \in SUBSET DOMAIN h, U # {}
    PROVE  \E x \in U : Children(h, x) \cap U = {}
<1> DEFINE B == {Below(h, x) : x \in U}
<1>1. Forest(h) /\ IsFiniteSet(DOMAIN h)
  BY DEF Tree, Forest
<1>2. B \subseteq SUBSET DOMAIN h /\ B # {}
  BY <1>1, BelowIs
<1>3. HasMinimal(B)
  <2> HIDE DEF B
  <2> QED BY <1>1, <1>2, MinimalSet
<1>4. PICK x \in U : \A y \in U : Below(h, y) \subseteq Below(h, x) => Below(h, x) = Below(h, y)
  BY <1>3 DEF HasMinimal
<1>5. ASSUME NEW y \in U, y \in Children(h, x) PROVE FALSE
  <2>1. y \in Below(h, x) /\ x \in Below(h, x)
    BY <1>1, <1>5, BelowIs
  <2>2. x \notin Below(h, y)
    BY <1>5, NoCycle
  <2>3. Below(h, y) \subseteq Below(h, x)
    <3> DEFINE T == Below(h, x)
    <3>1. T \in SUBSET DOMAIN h /\ y \in T /\ \A z \in T : Children(h, z) \subseteq T
      BY <1>1, <2>1, BelowIs
    <3> HIDE DEF T
    <3>2. Below(h, y) \subseteq T
      BY <1>1, <3>1, BelowIs
    <3> QED BY <3>2 DEF T
  <2> QED BY <1>4, <2>1, <2>2, <2>3
<1> QED BY <1>5

\* x in h renders as z does in g if they look alike and show the same in each place.
Alike(h, x, shown, g, z, shown2) ==
    /\ h[x].enable = g[z].enable /\ h[x].resized = g[z].resized
    /\ h[x].properties = g[z].properties
    /\ DOMAIN h[x].fragments = DOMAIN g[z].fragments
    /\ \A i \in DOMAIN h[x].fragments :
          /\ h[h[x].fragments[i]].type = g[g[z].fragments[i]].type
          /\ h[h[x].fragments[i]].value = g[g[z].fragments[i]].value
          /\ shown[h[x].fragments[i]] = shown2[g[z].fragments[i]]
    /\ h[x].resized => /\ DOMAIN h[x].nodes = DOMAIN g[z].nodes
                       /\ \A i \in DOMAIN h[x].nodes :
                             shown[h[x].nodes[i]] = shown2[g[z].nodes[i]]

LEMMA AlikeRenders ==
    ASSUME NEW h, NEW x, NEW shown, NEW g, NEW z, NEW shown2, Alike(h, x, shown, g, z, shown2)
    PROVE  RenderBlock(h, x, shown) = RenderBlock(g, z, shown2)
<1> USE DEF Alike
<1>1. RenderFragments(h, x, shown) = RenderFragments(g, z, shown2)
  <2> DEFINE Left(i) == RenderFragment(h, h[x].fragments[i], h[x].properties, shown)
             Right(i) == RenderFragment(g, g[z].fragments[i], g[z].properties, shown2)
  <2>1. ASSUME NEW i \in DOMAIN h[x].fragments PROVE Left(i) = Right(i)
    BY DEF RenderFragment
  <2> HIDE DEF Left, Right
  <2>2. [i \in DOMAIN h[x].fragments |-> Left(i)] = [i \in DOMAIN g[z].fragments |-> Right(i)]
    BY <2>1
  <2> QED BY <2>2 DEF RenderFragments, Left, Right
<1>2. ASSUME h[x].resized PROVE RenderNodes(h, x, shown) = RenderNodes(g, z, shown2)
  <2>1. [i \in DOMAIN h[x].nodes |-> shown[h[x].nodes[i]]]
            = [i \in DOMAIN g[z].nodes |-> shown2[g[z].nodes[i]]]
    BY <1>2
  <2> QED BY <2>1 DEF RenderNodes
<1> QED BY <1>1, <1>2 DEF RenderBlock

\* What hangs on x is all that counts of shown.
LEMMA OnlyChildrenCount ==
    ASSUME NEW h, NEW x, NEW shown, NEW shown2, \A y \in Children(h, x) : shown[y] = shown2[y]
    PROVE  RenderBlock(h, x, shown) = RenderBlock(h, x, shown2)
<1>1. \A i \in DOMAIN h[x].fragments : h[x].fragments[i] \in Children(h, x)
  BY DEF Children, ToSet
<1>2. \A i \in DOMAIN h[x].nodes : h[x].nodes[i] \in Children(h, x)
  BY DEF Children, ToSet
<1>3. Alike(h, x, shown, h, x, shown2)
  BY <1>1, <1>2 DEF Alike
<1> QED BY <1>3, AlikeRenders

IsRendering(h, shown) == shown = [y \in DOMAIN h |-> RenderBlock(h, y, shown)]

\* The definition of Shows has a solution: one for what hangs on x gives one for x.
LEMMA RenderingExists ==
    ASSUME NEW h, Tree(h)
    PROVE  \E shown : IsRendering(h, shown)
<1> DEFINE D == DOMAIN h
           Solves(shown, S) == \A y \in S : shown[y] = RenderBlock(h, y, shown)
           Under(S) == \A y \in S : Children(h, y) \subseteq S
           B == {U \in SUBSET D : Under(D \ U) /\ \E shown : Solves(shown, D \ U)}
<1>1. Forest(h) /\ IsFiniteSet(D)
  BY DEF Tree, Forest
<1>2. D \in B
  OBVIOUS
<1>3. PICK U \in B : \A V \in B : V \subseteq U => U = V
  <2>1. HasMinimal(B)
    <3>1. B \subseteq SUBSET D /\ B # {}
      BY <1>2
    <3> HIDE DEF B
    <3> QED BY <1>1, <3>1, MinimalSet
  <2> HIDE DEF B
  <2> QED BY <2>1 DEF HasMinimal
<1>4. PICK shown : Solves(shown, D \ U)
  OBVIOUS
<1>5. ASSUME U # {} PROVE FALSE
  <2>1. PICK x \in U : Children(h, x) \cap U = {}
    <3>1. U \in SUBSET DOMAIN h
      OBVIOUS
    <3> QED BY <1>5, <3>1, Lowest
  <2> DEFINE more == [y \in D |-> IF y = x THEN RenderBlock(h, x, shown) ELSE shown[y]]
             V == U \ {x}
  <2>2. Children(h, x) \subseteq D \ U
    BY <1>1, <2>1, ChildType
  <2>3. Under(D \ V)
    BY <2>2
  <2>4. Solves(more, D \ V)
    <3> SUFFICES ASSUME NEW y \in D \ V PROVE more[y] = RenderBlock(h, y, more)
      OBVIOUS
    <3>1. Children(h, y) \subseteq D \ U
      BY <2>2
    <3>2. \A w \in Children(h, y) : more[w] = shown[w]
      BY <3>1
    <3>3. RenderBlock(h, y, more) = RenderBlock(h, y, shown)
      <4> HIDE DEF more
      <4> QED BY <3>2, OnlyChildrenCount
    <3>4. more[y] = RenderBlock(h, y, shown)
      BY <1>4
    <3> QED BY <3>3, <3>4
  <2>5. V \in B
    BY <2>3, <2>4
  <2>6. V \subseteq U /\ V # U
    OBVIOUS
  <2> HIDE DEF B, V
  <2> QED BY <1>3, <2>5, <2>6
<1> DEFINE all == [y \in D |-> shown[y]]
<1>6. ASSUME NEW y \in D PROVE all[y] = RenderBlock(h, y, all)
  <2>1. \A w \in Children(h, y) : all[w] = shown[w]
    BY <1>1, ChildType
  <2>2. shown[y] = RenderBlock(h, y, shown)
    BY <1>4, <1>5
  <2>3. RenderBlock(h, y, all) = RenderBlock(h, y, shown)
    <3> HIDE DEF all
    <3> QED BY <2>1, OnlyChildrenCount
  <2> QED BY <2>2, <2>3
<1>7. all = [y \in D |-> RenderBlock(h, y, all)]
  <2>1. [y \in D |-> all[y]] = [y \in D |-> RenderBlock(h, y, all)]
    BY <1>6
  <2> QED BY <2>1
<1> QED BY <1>7 DEF IsRendering

\* What each block shows, by what the blocks on it show.
LEMMA ShowsIs ==
    ASSUME NEW h, Tree(h), NEW x \in DOMAIN h
    PROVE  Shows(h, x) = RenderBlock(h, x, [y \in DOMAIN h |-> Shows(h, y)])
<1> DEFINE shown == CHOOSE f : IsRendering(h, f)
<1>1. \A y \in DOMAIN h : Shows(h, y) = shown[y]
  BY DEF Shows, IsRendering
<1>2. IsRendering(h, shown)
  BY RenderingExists
<1> HIDE DEF shown
<1>3. shown = [y \in DOMAIN h |-> RenderBlock(h, y, shown)]
  BY <1>2 DEF IsRendering
<1>4. shown[x] = RenderBlock(h, x, shown)
  BY <1>3
<1>5. DOMAIN shown = DOMAIN h /\ shown = [y \in DOMAIN shown |-> shown[y]]
  BY <1>3
<1>6. shown = [y \in DOMAIN h |-> Shows(h, y)]
  BY <1>1, <1>5
<1> QED BY <1>1, <1>4, <1>6
\* The part S of h has a likeness in g: each object y has one, m[y], which looks like it,
\* and on which the likenesses of what shows of y hang.
Mirrors(h, S, g, m) ==
    /\ S \subseteq DOMAIN h
    /\ \A y \in S :
          /\ m[y] \in DOMAIN g
          /\ \A field \in {"type", "value", "properties", "enable", "resized"} :
                h[y][field] = g[m[y]][field]
          /\ DOMAIN h[y].fragments = DOMAIN g[m[y]].fragments
          /\ \A i \in DOMAIN h[y].fragments :
                h[y].fragments[i] \in S /\ g[m[y]].fragments[i] = m[h[y].fragments[i]]
          /\ h[y].resized =>
                /\ DOMAIN h[y].nodes = DOMAIN g[m[y]].nodes
                /\ \A i \in DOMAIN h[y].nodes :
                      h[y].nodes[i] \in S /\ g[m[y]].nodes[i] = m[h[y].nodes[i]]

LEMMA MirrorShows ==
    ASSUME NEW h, Tree(h), NEW g, Tree(g), NEW S, NEW m, Mirrors(h, S, g, m), NEW x \in S
    PROVE  Shows(h, x) = Shows(g, m[x])
<1> DEFINE U == {y \in S : Shows(h, y) # Shows(g, m[y])}
<1> SUFFICES ASSUME U # {} PROVE FALSE
  OBVIOUS
<1>1. S \subseteq DOMAIN h
  BY DEF Mirrors
<1>2. PICK y \in U : Children(h, y) \cap U = {}
  <2>1. U \in SUBSET DOMAIN h
    BY <1>1
  <2> HIDE DEF U
  <2> QED BY <2>1, Lowest
<1>3. y \in S /\ y \in DOMAIN h /\ m[y] \in DOMAIN g
  BY <1>1 DEF Mirrors
<1> DEFINE shown == [z \in DOMAIN h |-> Shows(h, z)]
           shown2 == [z \in DOMAIN g |-> Shows(g, z)]
<1>4. ASSUME NEW z \in S, z \in Children(h, y) PROVE shown[z] = shown2[m[z]]
  <2>1. z \notin U
    BY <1>2, <1>4
  <2>2. z \in DOMAIN h /\ m[z] \in DOMAIN g
    BY <1>1 DEF Mirrors
  <2> QED BY <2>1, <2>2
<1> HIDE DEF shown, shown2
<1>5. ASSUME NEW i \in DOMAIN h[y].fragments
      PROVE  LET f == h[y].fragments[i]
                 k == g[m[y]].fragments[i]
             IN  /\ h[f].type = g[k].type /\ h[f].value = g[k].value
                 /\ shown[f] = shown2[k]
  <2>1. h[y].fragments[i] \in S /\ g[m[y]].fragments[i] = m[h[y].fragments[i]]
    BY <1>3 DEF Mirrors
  <2>2. h[y].fragments[i] \in Children(h, y)
    BY DEF Children, ToSet
  <2>3. \A z \in S : h[z].type = g[m[z]].type /\ h[z].value = g[m[z]].value
    BY DEF Mirrors
  <2> QED BY <1>4, <2>1, <2>2, <2>3
<1>6. ASSUME h[y].resized, NEW i \in DOMAIN h[y].nodes
      PROVE  shown[h[y].nodes[i]] = shown2[g[m[y]].nodes[i]]
  <2>1. h[y].nodes[i] \in S /\ g[m[y]].nodes[i] = m[h[y].nodes[i]]
    BY <1>3, <1>6 DEF Mirrors
  <2>2. h[y].nodes[i] \in Children(h, y)
    BY DEF Children, ToSet
  <2> QED BY <1>4, <2>1, <2>2
<1>7. /\ h[y].enable = g[m[y]].enable /\ h[y].resized = g[m[y]].resized
      /\ h[y].properties = g[m[y]].properties
      /\ DOMAIN h[y].fragments = DOMAIN g[m[y]].fragments
      /\ h[y].resized => DOMAIN h[y].nodes = DOMAIN g[m[y]].nodes
  BY <1>3 DEF Mirrors
<1>8. Alike(h, y, shown, g, m[y], shown2)
  BY <1>5, <1>6, <1>7 DEF Alike
<1>9. RenderBlock(h, y, shown) = RenderBlock(g, m[y], shown2)
  BY <1>8, AlikeRenders
<1>10. Shows(h, y) = RenderBlock(h, y, shown) /\ Shows(g, m[y]) = RenderBlock(g, m[y], shown2)
  BY <1>3, ShowsIs DEF shown, shown2
<1> QED BY <1>9, <1>10

\* What is below x shows the same where nothing below x has changed.
LEMMA UntouchedShows ==
    ASSUME NEW h, Tree(h), NEW g, Tree(g), NEW x \in DOMAIN h,
           Below(h, x) \subseteq DOMAIN g, \A y \in Below(h, x) : g[y] = h[y]
    PROVE  Shows(h, x) = Shows(g, x)
<1> DEFINE S == Below(h, x)
           m == [y \in S |-> y]
<1>1. Forest(h)
  BY DEF Tree
<1>2. x \in S /\ S \subseteq DOMAIN h /\ \A y \in S : Children(h, y) \subseteq S
  BY <1>1, BelowIs
<1>3. ASSUME NEW y \in S
      PROVE  /\ \A i \in DOMAIN h[y].fragments : h[y].fragments[i] \in S
             /\ \A i \in DOMAIN h[y].nodes : h[y].nodes[i] \in S
  BY <1>2 DEF Children, ToSet
<1> HIDE DEF S
<1>4. S \subseteq DOMAIN g /\ \A y \in S : g[y] = h[y] /\ m[y] = y
  BY DEF S
<1> HIDE DEF m
<1>5. Mirrors(h, S, g, m)
  BY <1>2, <1>3, <1>4 DEF Mirrors
<1>6. Shows(h, x) = Shows(g, m[x])
  BY <1>2, <1>5, MirrorShows
<1> QED BY <1>2, <1>4, <1>6

-----------------------------------------------------------------------------
(* Branches of the tree. *)

LEMMA BelowBelow ==
    ASSUME NEW h, Forest(h), NEW x \in DOMAIN h, NEW y \in Below(h, x)
    PROVE  Below(h, y) \subseteq Below(h, x)
<1> DEFINE T == Below(h, x)
<1>1. T \in SUBSET DOMAIN h /\ y \in T /\ \A z \in T : Children(h, z) \subseteq T
  BY BelowIs
<1> HIDE DEF T
<1>2. Below(h, y) \subseteq T
  BY <1>1, BelowIs
<1> QED BY <1>2 DEF T

\* Of two objects neither of which is below the other, nothing is below both.
LEMMA Apart ==
    ASSUME NEW h, Forest(h), NEW x \in DOMAIN h, NEW z \in DOMAIN h,
           x \notin Below(h, z), z \notin Below(h, x)
    PROVE  Below(h, x) \cap Below(h, z) = {}
<1> DEFINE T == Below(h, x) \ Below(h, z)
<1>1. T \in SUBSET DOMAIN h /\ x \in T
  BY BelowIs
<1>2. ASSUME NEW y \in T, NEW w \in Children(h, y) PROVE w \in T
  <2>1. w \in Below(h, x) /\ y \in DOMAIN h
    BY BelowIs
  <2> SUFFICES ASSUME w \in Below(h, z) PROVE FALSE
    BY <2>1
  <2>2. w # z
    BY <2>1
  <2>3. PICK v \in Below(h, z) : w \in Children(h, v)
    BY <2>2, ParentBelow
  <2>4. v \in DOMAIN h
    BY BelowIs
  <2>5. v = y
    BY <2>1, <2>3, <2>4, OneParent
  <2> QED BY <2>3, <2>5
<1>3. Below(h, x) \subseteq T
  <2> HIDE DEF T
  <2> QED BY <1>1, <1>2, BelowIs
<1> QED BY <1>3

\* The branches of one object are apart.
LEMMA Branches ==
    ASSUME NEW h, Tree(h), NEW p \in DOMAIN h,
           NEW x \in Children(h, p), NEW z \in Children(h, p), x # z
    PROVE  Below(h, x) \cap Below(h, z) = {}
<1>1. Forest(h)
  BY DEF Tree
<1>2. ASSUME NEW u \in Children(h, p), NEW v \in Children(h, p), u # v, u \in Below(h, v)
      PROVE  FALSE
  <2>1. v \in DOMAIN h
    BY <1>1, ChildType
  <2>2. PICK w \in Below(h, v) : u \in Children(h, w)
    BY <1>1, <1>2, <2>1, ParentBelow
  <2>3. w \in DOMAIN h
    BY <1>1, <2>1, BelowIs
  <2>4. w = p
    BY <1>1, <2>2, <2>3, OneParent
  <2> QED BY <2>2, <2>4, NoCycle
<1>3. x \notin Below(h, z) /\ z \notin Below(h, x)
  BY <1>2
<1>4. x \in DOMAIN h /\ z \in DOMAIN h
  BY <1>1, ChildType
<1> QED BY <1>1, <1>3, <1>4, Apart

\* Nothing has happened to x and what is below it.
Kept(h, g, x) == Below(h, x) \subseteq DOMAIN g /\ \A y \in Below(h, x) : g[y] = h[y]

LEMMA KeptUnchanged ==
    ASSUME NEW h, Tree(h), NEW g, Tree(g), NEW xs, xs \subseteq DOMAIN h,
           \A x \in xs : Kept(h, g, x)
    PROVE  Changed(h, g, xs) = {}
<1> SUFFICES ASSUME NEW x \in xs PROVE x \in DOMAIN g /\ Shows(h, x) = Shows(g, x)
  BY DEF Changed
<1>1. x \in Below(h, x)
  BY BelowIs DEF Tree
<1>2. Below(h, x) \subseteq DOMAIN g /\ \A y \in Below(h, x) : g[y] = h[y]
  BY DEF Kept
<1> QED BY <1>1, <1>2, UntouchedShows

\* Of the branches of an object that is not below t, only that with t can change.
LEMMA BesideChanges ==
    ASSUME NEW h, Tree(h), NEW g, Tree(g), NEW t \in DOMAIN h,
           \A y \in DOMAIN h \ Below(h, t) : y \in DOMAIN g /\ g[y] = h[y],
           NEW p \in DOMAIN h \ Below(h, t)
    PROVE  Cardinality(Changed(h, g, Children(h, p))) <= 1
<1> DEFINE C == Changed(h, g, Children(h, p))
<1>1. Forest(h) /\ Children(h, p) \subseteq DOMAIN h
  BY ChildType DEF Tree
<1>2. C \subseteq Children(h, p)
  BY DEF Changed
<1>3. ASSUME NEW x \in C PROVE t \in Below(h, x)
  <2> SUFFICES ASSUME t \notin Below(h, x) PROVE FALSE
    OBVIOUS
  <2>1. x \in DOMAIN h /\ x \in Children(h, p) /\ x \in Below(h, x)
    BY <1>1, <1>2, BelowIs
  <2>2. x \notin Below(h, t)
    <3> SUFFICES ASSUME x \in Below(h, t) PROVE FALSE
      OBVIOUS
    <3>1. x # t
      BY <2>1
    <3>2. PICK w \in Below(h, t) : x \in Children(h, w)
      BY <1>1, <3>1, ParentBelow
    <3>3. w \in DOMAIN h
      BY <1>1, BelowIs
    <3>4. w = p
      BY <1>1, <2>1, <3>2, <3>3, OneParent
    <3> QED BY <3>2, <3>4
  <2>3. Below(h, x) \cap Below(h, t) = {} /\ Below(h, x) \subseteq DOMAIN h
    BY <1>1, <2>1, <2>2, Apart, BelowIs
  <2>4. Below(h, x) \subseteq DOMAIN g /\ \A y \in Below(h, x) : g[y] = h[y]
    BY <2>3
  <2>5. Shows(h, x) = Shows(g, x)
    BY <2>1, <2>4, UntouchedShows
  <2>6. x \in DOMAIN g => Shows(h, x) # Shows(g, x)
    BY DEF Changed
  <2> QED BY <2>1, <2>4, <2>5, <2>6
<1> HIDE DEF C
<1>4. ASSUME NEW x \in C, NEW z \in C PROVE x = z
  BY <1>2, <1>3, Branches
<1>5. CASE C = {}
  <2>1. Cardinality(C) = 0
    BY <1>5, FS_EmptySet
  <2> QED BY <2>1 DEF C
<1>6. CASE C # {}
  <2>1. PICK x : x \in C
    BY <1>6
  <2>2. C = {x}
    BY <1>4, <2>1
  <2>3. Cardinality(C) = 1
    BY <2>2, FS_Singleton
  <2> QED BY <2>3 DEF C
<1> QED BY <1>5, <1>6

\* What is written in t, its lists excepted, is local to it.
LEMMA WritesLocal ==
    ASSUME NEW h, Tree(h), NEW g, Tree(g), NEW t \in DOMAIN h, DOMAIN g = DOMAIN h,
           \A y \in DOMAIN h \ {t} : g[y] = h[y], g[t].nodes = h[t].nodes
    PROVE  LocalTo(t, h, g)
<1>1. Forest(h) /\ t \in Below(h, t)
  BY BelowIs DEF Tree
<1>2. \A y \in DOMAIN h \ Below(h, t) : y \in DOMAIN g /\ g[y] = h[y]
  BY <1>1
<1>3. ASSUME NEW x \in Children(h, t) PROVE x \in DOMAIN h /\ Kept(h, g, x)
  <2>1. x \in DOMAIN h
    BY <1>1, ChildType
  <2>2. Below(h, x) \subseteq DOMAIN h
    BY <1>1, <2>1, BelowIs
  <2>3. t \notin Below(h, x)
    BY NoCycle
  <2> QED BY <2>1, <2>2, <2>3 DEF Kept
<1>4. ASSUME NEW xs, xs \subseteq Children(h, t) PROVE Changed(h, g, xs) = {}
  BY <1>3, <1>4, KeptUnchanged
<1>5. Changed(h, g, ToSet(h[t].fragments)) = {} /\ Changed(h, g, ToSet(h[t].nodes)) = {}
  BY <1>4 DEF Children
<1>6. \A x \in DOMAIN h \ Below(h, t) : Cardinality(Changed(h, g, Children(h, x))) <= 1
  BY <1>2, BesideChanges
<1> QED BY <1>5, <1>6 DEF LocalTo

-----------------------------------------------------------------------------
(* Repeat. *)

Dropped(h, x) ==
    [Without(h, ToSet(h[x].nodes)) EXCEPT ![x].nodes = <<>>, ![x].resized = TRUE]

\* The same but for what is in nodes and resized.
Looks(o, q) ==
    /\ o.type = q.type /\ o.value = q.value /\ o.properties = q.properties
    /\ o.fragments = q.fragments

LEMMA DroppedIs ==
    ASSUME NEW h, Tree(h), NEW x \in DOMAIN h
    PROVE  LET g == Dropped(h, x)
           IN  /\ Tree(g) /\ x \in DOMAIN g
               /\ DOMAIN g = DOMAIN h \ UNION {Below(h, c) : c \in ToSet(h[x].nodes)}
               /\ \A y \in DOMAIN g \ {x} : g[y] = h[y]
               /\ Looks(g[x], h[x]) /\ g[x].nodes = <<>>
<1> DEFINE w == Without(h, ToSet(h[x].nodes))
           g == [w EXCEPT ![x].nodes = <<>>, ![x].resized = TRUE]
<1>1. Tree(g) /\ x \in DOMAIN g
  BY Drops
<1>2. /\ DOMAIN w = DOMAIN h \ UNION {Below(h, c) : c \in ToSet(h[x].nodes)}
      /\ \A y \in DOMAIN w : w[y] = h[y]
  BY WithoutIs
<1>3. IsObject(h[x], DOMAIN h)
  BY DEF Tree, Forest
<1> HIDE DEF w
<1>4. DOMAIN g = DOMAIN w /\ \A y \in DOMAIN g \ {x} : g[y] = w[y]
  OBVIOUS
<1>5. x \in DOMAIN w
  BY <1>1, <1>4
<1>6. w[x] = h[x] /\ IsObject(w[x], DOMAIN h)
  BY <1>2, <1>3, <1>5
<1>7. g[x] = [h[x] EXCEPT !.nodes = <<>>, !.resized = TRUE]
  BY <1>5, <1>6
<1>8. Looks(g[x], h[x]) /\ g[x].nodes = <<>>
  BY <1>3, <1>7 DEF IsObject, Looks
<1>9. Dropped(h, x) = g
  BY DEF Dropped, w
<1> HIDE DEF g
<1> QED BY <1>1, <1>2, <1>4, <1>8, <1>9

LEMMA CopyIs ==
    ASSUME NEW h, Tree(h), NEW x \in DOMAIN h
    PROVE  LET g == WithCopy(h, x)
               n == New(h)
           IN  /\ Tree(g) /\ DOMAIN h \subseteq DOMAIN g
               /\ \A y \in DOMAIN h \ {x} : g[y] = h[y]
               /\ Looks(g[x], h[x]) /\ g[x].nodes = Append(h[x].nodes, x + n)
               /\ \A y \in Prototype(h, x) : y + n \in DOMAIN g /\ g[y + n] = Copied(h[y], n)
<1> DEFINE n == New(h)
           P == Prototype(h, x)
           N == {y + n : y \in P}
           old == [h EXCEPT ![x].nodes = Append(@, x + n)]
           copies == [i \in N |-> Copied(h[i - n], n)]
           g == WithCopy(h, x)
<1>1. Forest(h) /\ DOMAIN h \subseteq Nat /\ IsObject(h[x], DOMAIN h)
  BY DEF Tree, Forest
<1>2. n \in Nat /\ \A y \in DOMAIN h : y < n
  BY <1>1, NewIsAbove
<1>3. P \subseteq DOMAIN h
  BY <1>1, PrototypeIs
<1>4. g = Extended(old, copies)
  BY DEF WithCopy
<1>5. DOMAIN old = DOMAIN h /\ DOMAIN copies = N
  OBVIOUS
<1>6. \A y \in DOMAIN h \ {x} : old[y] = h[y]
  OBVIOUS
<1>7. Looks(old[x], h[x]) /\ old[x].nodes = Append(h[x].nodes, x + n)
  <2> HIDE DEF n
  <2> QED BY <1>1 DEF IsObject, Looks
<1> HIDE DEF n, P, old, g
<1>8. ASSUME NEW y \in P PROVE y + n \in N /\ copies[y + n] = Copied(h[y], n)
  <2>1. (y + n) - n = y
    BY <1>1, <1>2, <1>3
  <2> QED BY <2>1
<1>9. N \cap DOMAIN h = {}
  BY <1>1, <1>2, <1>3
<1> HIDE DEF copies, N
<1>10. /\ DOMAIN Extended(old, copies) = DOMAIN old \cup DOMAIN copies
       /\ \A y \in DOMAIN copies : Extended(old, copies)[y] = copies[y]
       /\ \A y \in DOMAIN old \ DOMAIN copies : Extended(old, copies)[y] = old[y]
  BY ExtendedIs
<1>11. \A y \in DOMAIN h : y \in DOMAIN g /\ g[y] = old[y]
  BY <1>4, <1>5, <1>9, <1>10
<1>12. \A y \in P : y + n \in DOMAIN g /\ g[y + n] = Copied(h[y], n)
  BY <1>4, <1>5, <1>8, <1>10
<1>13. Tree(g)
  BY Copies DEF g
<1> QED BY <1>6, <1>7, <1>11, <1>12, <1>13 DEF g, n, P

LEMMA PristineIs ==
    ASSUME NEW h, Tree(h), NEW x \in DOMAIN h
    PROVE  LET q == Pristine(h, x)
           IN  /\ Tree(q) /\ DOMAIN q = DOMAIN h
               /\ \A y \in DOMAIN h : Looks(q[y], h[y])
               /\ \A y \in Prototype(h, x) : q[y].enable = TRUE /\ q[y].resized = FALSE
<1> DEFINE P == Prototype(h, x)
           q == Pristine(h, x)
<1>1. \A y \in DOMAIN h : IsObject(h[y], DOMAIN h)
  BY DEF Tree, Forest
<1>2. P \subseteq DOMAIN h
  BY PrototypeIs DEF Tree
<1>3. q = [y \in DOMAIN h |-> IF y \in P
                              THEN [h[y] EXCEPT !.enable = TRUE, !.resized = FALSE] ELSE h[y]]
  BY DEF Pristine
<1> HIDE DEF P, q
<1>4. ASSUME NEW y \in DOMAIN h
      PROVE  /\ Looks(q[y], h[y]) /\ DOMAIN q[y] = DOMAIN h[y]
             /\ \A l \in Lists : q[y][l] = h[y][l]
             /\ y \in P => q[y].enable = TRUE /\ q[y].resized = FALSE
  BY <1>1, <1>3 DEF IsObject, Lists, Looks
<1>5. DOMAIN q = DOMAIN h
  BY <1>3
<1>6. Tree(q)
  <2>1. \A y \in DOMAIN h : /\ DOMAIN q[y] = DOMAIN h[y]
                            /\ \A l \in Lists : q[y][l] = h[y][l]
    BY <1>4
  <2> QED BY <1>5, <2>1, Writes
<1> QED BY <1>2, <1>4, <1>5, <1>6 DEF P, q

\* What hangs on the objects of a prototype.
LEMMA PrototypeFragments ==
    ASSUME NEW h, Tree(h), NEW x \in DOMAIN h, NEW y \in Prototype(h, x),
           NEW i \in DOMAIN h[y].fragments
    PROVE  h[y].fragments[i] \in Prototype(h, x)
<1>1. ToSet(h[y].fragments) \subseteq Prototype(h, x)
  BY PrototypeIs DEF Tree
<1> QED BY <1>1 DEF ToSet

\* Objects that look alike show the same where nothing is disabled or repeated.
LEMMA PristineSame ==
    ASSUME NEW h, Tree(h), NEW g, Tree(g), NEW x \in DOMAIN h,
           \A y \in Prototype(h, x) : y \in DOMAIN g /\ Looks(g[y], h[y])
    PROVE  Shows(Pristine(h, x), x) = Shows(Pristine(g, x), x)
<1> DEFINE P == Prototype(h, x)
           Q == Prototype(g, x)
           p == Pristine(h, x)
           q == Pristine(g, x)
           m == [y \in P |-> y]
<1>1. /\ x \in P /\ P \subseteq DOMAIN h
      /\ \A T \in SUBSET DOMAIN h :
            x \in T /\ (\A y \in T : ToSet(h[y].fragments) \subseteq T) => P \subseteq T
  BY PrototypeIs DEF Tree
<1>2. x \in DOMAIN g
  BY <1>1
<1>3. x \in Q /\ \A y \in Q : ToSet(g[y].fragments) \subseteq Q
  BY <1>2, PrototypeIs DEF Tree
<1>4. P \subseteq Q
  <2> DEFINE T == P \cap Q
  <2>1. T \in SUBSET DOMAIN h /\ x \in T
    BY <1>1, <1>3
  <2>2. ASSUME NEW y \in T PROVE ToSet(h[y].fragments) \subseteq T
    <3>1. g[y].fragments = h[y].fragments
      BY DEF Looks
    <3>2. ToSet(h[y].fragments) \subseteq P
      BY PrototypeIs DEF Tree
    <3> QED BY <1>3, <3>1, <3>2
  <2>3. P \subseteq T
    <3> HIDE DEF T, P, Q
    <3> QED BY <1>1, <2>1, <2>2
  <2> QED BY <2>3
<1>5. /\ Tree(p) /\ DOMAIN p = DOMAIN h /\ \A y \in DOMAIN h : Looks(p[y], h[y])
      /\ \A y \in P : p[y].enable = TRUE /\ p[y].resized = FALSE
  BY PristineIs
<1>6. /\ Tree(q) /\ DOMAIN q = DOMAIN g /\ \A y \in DOMAIN g : Looks(q[y], g[y])
      /\ \A y \in Q : q[y].enable = TRUE /\ q[y].resized = FALSE
  BY <1>2, PristineIs
<1>7. \A y \in P : y \in DOMAIN g /\ Looks(g[y], h[y])
  OBVIOUS
<1>8. \A y \in P : \A i \in DOMAIN h[y].fragments : h[y].fragments[i] \in P
  BY PrototypeFragments
<1> HIDE DEF P, Q, p, q
<1>9. \A y \in P : m[y] = y
  OBVIOUS
<1> HIDE DEF m
<1>10. Mirrors(p, P, q, m)
  <2>1. ASSUME NEW y \in P
        PROVE  /\ m[y] = y /\ y \in DOMAIN h /\ y \in DOMAIN q
               /\ p[y].enable = q[y].enable /\ p[y].resized = q[y].resized /\ ~p[y].resized
               /\ Looks(p[y], h[y]) /\ Looks(q[y], g[y]) /\ Looks(g[y], h[y])
    BY <1>1, <1>4, <1>5, <1>6, <1>7, <1>9
  <2>2. ASSUME NEW y \in P
        PROVE  /\ p[y].type = q[y].type /\ p[y].value = q[y].value
               /\ p[y].properties = q[y].properties
               /\ p[y].fragments = h[y].fragments /\ q[y].fragments = h[y].fragments
    BY <2>1 DEF Looks
  <2>3. P \subseteq DOMAIN p
    BY <1>1, <1>5
  <2> QED BY <1>8, <1>9, <2>1, <2>2, <2>3 DEF Mirrors
<1>11. Shows(p, x) = Shows(q, m[x])
  BY <1>1, <1>5, <1>6, <1>10, MirrorShows
<1> QED BY <1>1, <1>9, <1>11 DEF p, q

\* A copy of x shows what x does, but for what was done to the blocks on it.
LEMMA CopyShows ==
    ASSUME NEW h, Tree(h), NEW x \in DOMAIN h
    PROVE  Shows(WithCopy(h, x), x + New(h)) = Shows(Pristine(h, x), x)
<1> DEFINE P == Prototype(h, x)
           n == New(h)
           g == WithCopy(h, x)
           p == Pristine(h, x)
           m == [y \in P |-> y + n]
<1>1. x \in P /\ P \subseteq DOMAIN h /\ Forest(h)
  BY PrototypeIs DEF Tree
<1>2. /\ Tree(g)
      /\ \A y \in P : y + n \in DOMAIN g /\ g[y + n] = Copied(h[y], n)
  BY CopyIs
<1>3. /\ Tree(p) /\ DOMAIN p = DOMAIN h /\ \A y \in DOMAIN h : Looks(p[y], h[y])
      /\ \A y \in P : p[y].enable = TRUE /\ p[y].resized = FALSE
  BY PristineIs
<1>4. \A y \in P : \A i \in DOMAIN h[y].fragments : h[y].fragments[i] \in P
  BY PrototypeFragments
<1>5. \A y \in DOMAIN h : IsObject(h[y], DOMAIN h)
  BY DEF Tree, Forest
<1> HIDE DEF P, n, g, p
<1>6. \A y \in P : m[y] = y + n
  OBVIOUS
<1> HIDE DEF m
<1>7. ASSUME NEW y \in P
      PROVE  LET o == g[m[y]]
             IN  /\ o.type = h[y].type /\ o.value = h[y].value
                 /\ o.properties = h[y].properties /\ o.enable = TRUE /\ o.resized = FALSE
                 /\ o.fragments = [k \in DOMAIN h[y].fragments |-> h[y].fragments[k] + n]
  <2>1. IsObject(h[y], DOMAIN h) /\ g[m[y]] = Copied(h[y], n)
    BY <1>1, <1>2, <1>5, <1>6
  <2> QED BY <2>1 DEF Copied, IsObject
<1>8. Mirrors(p, P, g, m)
  <2>1. ASSUME NEW y \in P
        PROVE  /\ p[y].type = h[y].type /\ p[y].value = h[y].value
               /\ p[y].properties = h[y].properties /\ p[y].fragments = h[y].fragments
               /\ p[y].enable = TRUE /\ p[y].resized = FALSE
    BY <1>1, <1>3 DEF Looks
  <2>2. ASSUME NEW y \in P, NEW i \in DOMAIN h[y].fragments
        PROVE  h[y].fragments[i] \in P /\ g[m[y]].fragments[i] = m[h[y].fragments[i]]
    <3>1. h[y].fragments[i] \in P
      BY <1>4
    <3>2. g[m[y]].fragments[i] = h[y].fragments[i] + n
      BY <1>7
    <3> QED BY <1>6, <3>1, <3>2
  <2>3. ASSUME NEW y \in P
        PROVE  /\ m[y] \in DOMAIN g
               /\ g[m[y]].type = p[y].type /\ g[m[y]].value = p[y].value
               /\ g[m[y]].properties = p[y].properties
               /\ g[m[y]].enable = p[y].enable /\ g[m[y]].resized = p[y].resized
               /\ DOMAIN p[y].fragments = DOMAIN g[m[y]].fragments
               /\ ~p[y].resized
    BY <1>2, <1>6, <1>7, <2>1
  <2>4. ASSUME NEW y \in P, NEW i \in DOMAIN p[y].fragments
        PROVE  p[y].fragments[i] \in P /\ g[m[y]].fragments[i] = m[p[y].fragments[i]]
    <3>1. p[y].fragments = h[y].fragments
      BY <2>1
    <3>2. i \in DOMAIN h[y].fragments
      BY <2>4, <3>1
    <3> QED BY <2>2, <3>1, <3>2
  <2>5. P \subseteq DOMAIN p
    BY <1>1, <1>3
  <2> QED BY <2>3, <2>4, <2>5 DEF Mirrors
<1>9. Shows(p, x) = Shows(g, m[x])
  BY <1>1, <1>2, <1>3, <1>8, MirrorShows
<1> QED BY <1>1, <1>6, <1>9 DEF p, g, n

\* One copy more leaves the others as they are.
LEMMA NextCopy ==
    ASSUME NEW h, Tree(h), NEW x \in DOMAIN h, NEW s, Shows(Pristine(h, x), x) = s,
           \A y \in ToSet(h[x].nodes) : Shows(h, y) = s
    PROVE  LET g == WithCopy(h, x)
           IN  /\ Shows(Pristine(g, x), x) = s
               /\ \A y \in ToSet(g[x].nodes) : Shows(g, y) = s
<1> DEFINE g == WithCopy(h, x)
           r == x + New(h)
<1>1. /\ Tree(g) /\ DOMAIN h \subseteq DOMAIN g
      /\ \A y \in DOMAIN h \ {x} : g[y] = h[y]
      /\ Looks(g[x], h[x]) /\ g[x].nodes = Append(h[x].nodes, r)
  BY CopyIs
<1>2. Shows(g, r) = s
  BY CopyShows
<1> HIDE DEF g, r
<1>3. Forest(h) /\ IsObject(h[x], DOMAIN h)
  BY DEF Tree, Forest
<1>4. ASSUME NEW y \in Prototype(h, x) PROVE y \in DOMAIN g /\ Looks(g[y], h[y])
  <2>1. y \in DOMAIN h
    BY <1>3, PrototypeIs
  <2>2. CASE y = x
    BY <1>1, <2>2
  <2>3. CASE y # x
    BY <1>1, <2>1, <2>3 DEF Looks
  <2> QED BY <2>2, <2>3
<1>5. Shows(Pristine(g, x), x) = s
  BY <1>1, <1>4, PristineSame
<1>6. ASSUME NEW y \in ToSet(g[x].nodes) PROVE Shows(g, y) = s
  <2>1. y \in ToSet(h[x].nodes) \/ y = r
    <3>1. PICK q \in Seq(DOMAIN h) : q = h[x].nodes
      BY <1>3 DEF IsObject, Lists
    <3>2. PICK i \in DOMAIN Append(q, r) : Append(q, r)[i] = y
      BY <1>1, <1>6, <3>1 DEF ToSet
    <3>3. i \in DOMAIN q \/ i = Len(q) + 1
      BY <3>2
    <3> QED BY <3>1, <3>2, <3>3 DEF ToSet
  <2>2. CASE y \in ToSet(h[x].nodes)
    <3>1. y \in Children(h, x)
      BY <2>2 DEF Children
    <3>2. y \in DOMAIN h /\ x \notin Below(h, y)
      BY <1>3, <3>1, ChildType, NoCycle
    <3>3. Below(h, y) \subseteq DOMAIN h
      BY <1>3, <3>2, BelowIs
    <3>4. Below(h, y) \subseteq DOMAIN g /\ \A z \in Below(h, y) : g[z] = h[z]
      BY <1>1, <3>2, <3>3
    <3>5. Shows(h, y) = Shows(g, y)
      BY <1>1, <3>2, <3>4, UntouchedShows
    <3> QED BY <2>2, <3>5
  <2> QED BY <1>2, <2>1, <2>2
<1> QED BY <1>5, <1>6 DEF g

\* What goes with the nodes of x is no part of its prototype and of its fragments.
LEMMA DropKeeps ==
    ASSUME NEW h, Tree(h), NEW x \in DOMAIN h
    PROVE  LET g == Dropped(h, x)
           IN  /\ \A y \in DOMAIN h \ Below(h, x) : y \in DOMAIN g
               /\ \A c \in ToSet(h[x].fragments) : Below(h, c) \subseteq DOMAIN g \ {x}
               /\ Prototype(h, x) \subseteq DOMAIN g
<1> DEFINE g == Dropped(h, x)
           gone == UNION {Below(h, c) : c \in ToSet(h[x].nodes)}
<1>1. Forest(h) /\ OnePlaceEach(h) /\ x \in Below(h, x)
  BY BelowIs DEF Tree, Forest
<1>2. DOMAIN g = DOMAIN h \ gone
  BY DroppedIs
<1> HIDE DEF g
<1>3. ASSUME NEW c \in Children(h, x)
      PROVE  /\ c \in DOMAIN h /\ x \notin Below(h, c)
             /\ Below(h, c) \subseteq Below(h, x) /\ Below(h, c) \subseteq DOMAIN h
  <2>1. c \in DOMAIN h /\ c \in Below(h, x)
    BY <1>1, ChildType, BelowIs
  <2> QED BY <1>1, <2>1, NoCycle, BelowBelow, BelowIs
<1>4. \A c \in ToSet(h[x].nodes) : c \in Children(h, x)
  BY DEF Children
<1>5. \A c \in ToSet(h[x].fragments) : c \in Children(h, x)
  BY DEF Children
<1>6. gone \subseteq Below(h, x) /\ x \notin gone
  BY <1>3, <1>4
<1>7. ASSUME NEW y \in DOMAIN h, NEW c \in ToSet(h[x].nodes), c \in ToSet(h[y].fragments)
      PROVE  FALSE
  <2>1. PICK i \in DOMAIN h[x].nodes : h[x].nodes[i] = c
    BY DEF ToSet
  <2>2. PICK j \in DOMAIN h[y].fragments : h[y].fragments[j] = c
    BY <1>7 DEF ToSet
  <2>3. "nodes" \in Lists /\ "fragments" \in Lists /\ "nodes" # "fragments"
    BY DEF Lists
  <2> QED BY <1>1, <2>1, <2>2, <2>3 DEF OnePlaceEach
<1>8. ASSUME NEW c \in ToSet(h[x].fragments) PROVE Below(h, c) \subseteq DOMAIN g \ {x}
  <2>1. ASSUME NEW d \in ToSet(h[x].nodes) PROVE Below(h, c) \cap Below(h, d) = {}
    <3>1. c # d
      BY <1>7
    <3> QED BY <1>4, <1>5, <3>1, Branches
  <2> QED BY <1>2, <1>3, <1>5, <2>1
<1>9. Prototype(h, x) \subseteq DOMAIN g
  <2> DEFINE P == Prototype(h, x)
             T == P \ gone
  <2>1. /\ x \in P /\ P \subseteq DOMAIN h
        /\ \A y \in P : ToSet(h[y].fragments) \subseteq P
        /\ \A S \in SUBSET DOMAIN h :
              x \in S /\ (\A y \in S : ToSet(h[y].fragments) \subseteq S) => P \subseteq S
    BY <1>1, PrototypeIs
  <2> HIDE DEF P
  <2>2. ASSUME NEW y \in T, NEW w \in ToSet(h[y].fragments) PROVE w \in T
    <3>1. w \in P /\ y \in DOMAIN h
      BY <2>1
    <3> SUFFICES ASSUME w \in gone PROVE FALSE
      BY <3>1
    <3>2. PICK d \in ToSet(h[x].nodes) : w \in Below(h, d)
      OBVIOUS
    <3>3. d \in DOMAIN h /\ w # d
      BY <1>3, <1>4, <1>7, <3>1
    <3>4. PICK v \in Below(h, d) : w \in Children(h, v)
      BY <1>1, <3>2, <3>3, ParentBelow
    <3>5. v \in DOMAIN h /\ w \in Children(h, y)
      BY <1>1, <3>3, BelowIs DEF Children
    <3>6. v = y
      BY <1>1, <3>1, <3>4, <3>5, OneParent
    <3> QED BY <3>4, <3>6
  <2>3. T \in SUBSET DOMAIN h /\ x \in T
    BY <1>6, <2>1
  <2>4. P \subseteq T
    <3> HIDE DEF T
    <3> QED BY <2>1, <2>2, <2>3
  <2> QED BY <1>2, <2>1, <2>4 DEF P
<1> QED BY <1>2, <1>6, <1>8, <1>9 DEF g

\* x after its nodes were dropped, and what was added there shows what x did.
LEMMA RepeatedLocal ==
    ASSUME NEW h, Tree(h), NEW x \in DOMAIN h, NEW g, Tree(g),
           DOMAIN Dropped(h, x) \subseteq DOMAIN g,
           \A y \in DOMAIN Dropped(h, x) \ {x} : g[y] = Dropped(h, x)[y],
           \A y \in ToSet(g[x].nodes) : Shows(g, y) = Shows(Pristine(h, x), x)
    PROVE  LocalTo(x, h, g)
<1> DEFINE d == Dropped(h, x)
<1>1. Forest(h) /\ x \in Below(h, x)
  BY BelowIs DEF Tree
<1>2. \A y \in DOMAIN d \ {x} : d[y] = h[y]
  BY DroppedIs
<1>3. /\ \A y \in DOMAIN h \ Below(h, x) : y \in DOMAIN d
      /\ \A c \in ToSet(h[x].fragments) : Below(h, c) \subseteq DOMAIN d \ {x}
  BY DropKeeps
<1>4. DOMAIN d \subseteq DOMAIN g /\ \A y \in DOMAIN d \ {x} : g[y] = d[y]
  OBVIOUS
<1> HIDE DEF d
<1>5. \A y \in DOMAIN h \ Below(h, x) : y \in DOMAIN g /\ g[y] = h[y]
  BY <1>1, <1>2, <1>3, <1>4
<1>6. \A y \in DOMAIN h \ Below(h, x) : Cardinality(Changed(h, g, Children(h, y))) <= 1
  BY <1>5, BesideChanges
<1>7. \A c \in ToSet(h[x].fragments) : Kept(h, g, c)
  BY <1>2, <1>3, <1>4 DEF Kept
<1>8. ToSet(h[x].fragments) \subseteq DOMAIN h
  BY <1>1, ChildType DEF Children
<1>9. Changed(h, g, ToSet(h[x].fragments)) = {}
  BY <1>7, <1>8, KeptUnchanged
<1> QED BY <1>6, <1>9 DEF LocalTo

LEMMA WorkIsLocal ==
    ASSUME IInv, Set \/ Enable \/ Disable \/ Repeat
    PROVE  \E t \in Nodes : LocalTo(t, heap, heap')
<1>1. Tree(heap) /\ Nodes \subseteq DOMAIN heap /\ Blocks \subseteq Nodes
  BY OfferedType DEF IInv, Nodes, Blocks
<1>2. \A y \in DOMAIN heap : IsObject(heap[y], DOMAIN heap)
  BY <1>1 DEF Tree, Forest
<1>3. Tree(heap')
  BY WorkKeepsTree DEF IInv
<1>4. CASE Set
  <2>1. PICK x \in Nodes : \E key \in Keys(x), value \in Values :
            Operation([heap EXCEPT ![x].properties = SetIn(@, key, value)])
    BY <1>4 DEF Set
  <2>2. PICK key \in Keys(x), value \in Values :
            heap' = [heap EXCEPT ![x].properties = SetIn(@, key, value)]
    BY <2>1 DEF Operation
  <2>3. /\ DOMAIN heap' = DOMAIN heap /\ \A y \in DOMAIN heap \ {x} : heap'[y] = heap[y]
        /\ heap'[x].nodes = heap[x].nodes
    BY <1>1, <1>2, <2>2 DEF IsObject
  <2>4. x \in DOMAIN heap
    BY <1>1
  <2>5. LocalTo(x, heap, heap')
    BY <1>1, <1>3, <2>3, <2>4, WritesLocal
  <2> QED BY <2>5
<1>5. CASE Enable \/ Disable
  <2>1. PICK x \in Blocks, b \in BOOLEAN : heap' = [heap EXCEPT ![x].enable = b]
    BY <1>5 DEF Enable, Disable, Operation
  <2>2. x \in Nodes /\ x \in DOMAIN heap
    BY <1>1
  <2>3. /\ DOMAIN heap' = DOMAIN heap /\ \A y \in DOMAIN heap \ {x} : heap'[y] = heap[y]
        /\ heap'[x].nodes = heap[x].nodes
    BY <1>2, <2>1, <2>2 DEF IsObject
  <2>4. LocalTo(x, heap, heap')
    BY <1>1, <1>3, <2>2, <2>3, WritesLocal
  <2> QED BY <2>2, <2>4
<1>6. CASE Repeat
  <2>1. PICK x \in Blocks : \E times \in 0..2 :
            LET h == Dropped(heap, x)
            IN  heap' = CASE times = 0 -> h [] times = 1 -> WithCopy(h, x)
                          [] times = 2 -> WithCopy(WithCopy(h, x), x)
    BY <1>6 DEF Repeat, Operation, Dropped
  <2>2. x \in Nodes /\ x \in DOMAIN heap
    BY <1>1
  <2> DEFINE h == Dropped(heap, x)
             one == WithCopy(h, x)
             two == WithCopy(one, x)
             s == Shows(Pristine(heap, x), x)
  <2>3. /\ Tree(h) /\ x \in DOMAIN h /\ h[x].nodes = <<>>
        /\ Looks(h[x], heap[x]) /\ \A y \in DOMAIN h \ {x} : h[y] = heap[y]
    BY <1>1, <2>2, DroppedIs
  <2>4. ASSUME NEW y \in Prototype(heap, x) PROVE y \in DOMAIN h /\ Looks(h[y], heap[y])
    <3>1. y \in DOMAIN h
      BY <1>1, <2>2, DropKeeps
    <3> HIDE DEF h
    <3>2. CASE y = x
      BY <2>3, <3>2
    <3>3. CASE y # x
      BY <2>3, <3>1, <3>3 DEF Looks
    <3> QED BY <3>1, <3>2, <3>3
  <2>5. heap' \in {h, one, two}
    BY <2>1
  <2> HIDE DEF h
  <2>6. Shows(Pristine(h, x), x) = s
    BY <1>1, <2>2, <2>3, <2>4, PristineSame
  <2>7. \A y \in ToSet(h[x].nodes) : Shows(h, y) = s
    BY <2>3 DEF ToSet
  <2>8. /\ Tree(one) /\ DOMAIN h \subseteq DOMAIN one
        /\ \A y \in DOMAIN h \ {x} : one[y] = h[y]
    BY <2>3, CopyIs
  <2> HIDE DEF s
  <2>9. /\ Shows(Pristine(one, x), x) = s
        /\ \A y \in ToSet(one[x].nodes) : Shows(one, y) = s
    BY <2>3, <2>6, <2>7, NextCopy
  <2> HIDE DEF one
  <2>10. /\ Tree(two) /\ DOMAIN one \subseteq DOMAIN two
         /\ \A y \in DOMAIN one \ {x} : two[y] = one[y]
    BY <2>3, <2>8, CopyIs
  <2>11. \A y \in ToSet(two[x].nodes) : Shows(two, y) = s
    BY <2>3, <2>8, <2>9, NextCopy
  <2> HIDE DEF two
  <2>12. ASSUME NEW g \in {h, one, two}
         PROVE  /\ DOMAIN h \subseteq DOMAIN g
                /\ \A y \in DOMAIN h \ {x} : g[y] = h[y]
                /\ \A y \in ToSet(g[x].nodes) : Shows(g, y) = s
    BY <2>7, <2>8, <2>9, <2>10, <2>11
  <2>13. LocalTo(x, heap, heap')
    <3> DEFINE g == heap'
    <3>1. /\ Tree(g) /\ DOMAIN Dropped(heap, x) \subseteq DOMAIN g
          /\ \A y \in DOMAIN Dropped(heap, x) \ {x} : g[y] = Dropped(heap, x)[y]
          /\ \A y \in ToSet(g[x].nodes) : Shows(g, y) = Shows(Pristine(heap, x), x)
      BY <1>3, <2>5, <2>12 DEF h, s
    <3> HIDE DEF g
    <3>2. LocalTo(x, heap, g)
      BY <1>1, <2>2, <3>1, RepeatedLocal
    <3> QED BY <3>2 DEF g
  <2> QED BY <2>2, <2>13
<1> QED BY <1>4, <1>5, <1>6

Counted == operations \in Nat

LEMMA StepsCount == Counted /\ [Next]_vars => Counted'
<1> SUFFICES ASSUME Counted, [Next]_vars PROVE Counted'
  OBVIOUS
<1>1. CASE UNCHANGED vars
  BY <1>1 DEF vars, Counted
<1>2. ASSUME NEW n \in Names, Load(n) PROVE Counted'
  BY <1>2 DEF Load, Counted
<1>3. CASE LoadEnd \/ LoadBlock \/ LoadEndBlock \/ LoadLeaf \/ LoadInclude
  BY <1>3 DEF LoadEnd, LoadBlock, LoadEndBlock, LoadLeaf, LoadInclude, Turn, Counted
<1>4. ASSUME NEW h, Operation(h) PROVE Counted'
  BY <1>4 DEF Operation, Counted
<1>5. CASE Set \/ Enable \/ Disable \/ Repeat
  BY <1>4, <1>5 DEF Set, Enable, Disable, Repeat
<1> QED BY <1>1, <1>2, <1>3, <1>5 DEF Next

LEMMA StepIsLocal ==
    ASSUME IInv, Counted, Next, operations' > operations
    PROVE  \E t \in Nodes : LocalTo(t, heap, heap')
<1>1. ASSUME NEW n \in Names, Load(n) PROVE FALSE
  BY <1>1 DEF Load, Counted
<1>2. CASE LoadEnd \/ LoadBlock \/ LoadEndBlock \/ LoadLeaf \/ LoadInclude
  BY <1>2 DEF LoadEnd, LoadBlock, LoadEndBlock, LoadLeaf, LoadInclude, Turn, Counted
<1> QED BY <1>1, <1>2, WorkIsLocal DEF Next

\* Set, Enable, Disable and Repeat of a Block or one of its copies, in any order and at any
\* depth: what it is called on may show something else, and so may what that is part of,
\* but no block beside it and none of its own; and Repeat gives copies that all show what
\* the block itself was loaded to show, with the values it has now.
THEOREM WorkStaysLocal == Spec => OperationsAreLocal
<1>1. Init => Counted
  BY DEF Init, Counted
<1>2. Spec => []IInv
  BY FirstTree, StepsKeepTree, PTL DEF Spec
<1>3. Spec => []Counted
  BY <1>1, StepsCount, PTL DEF Spec
<1>4. IInv /\ Counted /\ [Next]_vars
          => [operations' > operations => \E t \in Nodes : LocalTo(t, heap, heap')]_vars
  BY StepIsLocal
<1> QED BY <1>2, <1>3, <1>4, PTL DEF Spec, OperationsAreLocal
=============================================================================
