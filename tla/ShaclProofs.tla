---------------------------- MODULE ShaclProofs ----------------------------
(***************************************************************************)
(* Proofs about the SHACL validator, for all terms, graphs, shapes,        *)
(* connections and whatever they write meanwhile:                          *)
(*   Typing          every variable has its type (TypeInv);                *)
(*   FailureSafety   a failing call leaves the report there was            *)
(*                   (ReportInv);                                          *)
(*   ReportSafety    a report that is written says what was found          *)
(*                   (AnswerInv);                                          *)
(*   PathSafety      the values of a path are those of its relation        *)
(*                   (PathInv);                                            *)
(*   ViolationSafety what is found is what the data graph violates         *)
(*                   (DoneInv).                                            *)
(* First the mathematics the code's worklists and recursions need: ranks,  *)
(* lists, syntax trees, closures; then the invariants, one theorem each.   *)
(***************************************************************************)
EXTENDS ShaclValidate, FiniteSetTheorems, SequenceTheorems, WellFoundedInduction, TLAPS

-----------------------------------------------------------------------------
(* Induction and recursion as in RuleProofs, whose names clash with those  *)
(* used here: a property is a set, and the body of a recursive definition  *)
(* a function of a point and the function being defined.                   *)

\* Every set of numbers has a least one.
LEMMA LeastNumber ==
  ASSUME NEW T, T \subseteq Nat, T # {}
  PROVE  \E x \in T : \A y \in T : x <= y
<1>1. \E R : /\ IsWellFoundedOn(R, Nat)
             /\ \A x, y \in Nat : x < y => <<x, y>> \in R
  <2>1. IsWellFoundedOn(OpToRel(<, Nat), Nat)
    BY NatLessThanWellFounded
  <2>2. \A x, y \in Nat : x < y => <<x, y>> \in OpToRel(<, Nat)
    BY DEF OpToRel
  <2> QED BY <2>1, <2>2
<1>2. PICK R : /\ IsWellFoundedOn(R, Nat)
               /\ \A x, y \in Nat : x < y => <<x, y>> \in R
  BY <1>1
<1>3. IsWellFoundedOn(R, Nat)
  BY <1>2
<1>4. \E x \in T : \A y \in T : ~(<<y, x>> \in R)
  BY <1>3, WFMin, Zenon
<1>5. PICK x \in T : \A y \in T : ~(<<y, x>> \in R)
  BY <1>4
<1>6. \A y \in T : ~(y < x)
  BY <1>2, <1>5
<1> QED BY <1>5, <1>6

\* Induction over the numbers up to a bound.
LEMMA NumberInduction ==
  ASSUME NEW P, NEW m \in Nat, 0 \in P, \A n \in 0..(m - 1) : n \in P => n + 1 \in P
  PROVE  0..m \subseteq P
<1>1. SUFFICES ASSUME (0..m) \ P # {} PROVE FALSE
  OBVIOUS
<1>2. PICK x \in (0..m) \ P : \A y \in (0..m) \ P : x <= y
  <2> DEFINE T == (0..m) \ P
  <2>1. T \subseteq Nat /\ T # {}
    BY <1>1
  <2> HIDE DEF T
  <2>2. PICK x \in T : \A y \in T : x <= y
    BY <2>1, LeastNumber
  <2> QED BY <2>2 DEF T
<1>3. x # 0 /\ x - 1 \in 0..(m - 1) /\ x - 1 \in 0..m /\ (x - 1) + 1 = x /\ ~(x <= x - 1)
  BY <1>2
<1>4. x - 1 \in P
  BY <1>2, <1>3
<1> QED BY <1>2, <1>3, <1>4

\* Induction over a rank.
LEMMA RankInduction ==
  ASSUME NEW S, NEW rank \in [S -> Nat], NEW P,
         \A x \in S : (\A y \in S : rank[y] < rank[x] => y \in P) => x \in P
  PROVE  S \subseteq P
<1>1. SUFFICES ASSUME S \ P # {} PROVE FALSE
  OBVIOUS
<1> DEFINE T == {rank[x] : x \in S \ P}
<1>2. T \subseteq Nat /\ T # {}
  BY <1>1
<1>3. PICK n \in T : \A m \in T : n <= m
  <2> HIDE DEF T
  <2> QED BY <1>2, LeastNumber
<1>4. PICK x \in S \ P : n = rank[x]
  OBVIOUS
<1>5. \A y \in S \ P : rank[x] <= rank[y]
  BY <1>3, <1>4
<1>6. \A y \in S : rank[y] < rank[x] => y \in P
  BY <1>5
<1> QED BY <1>4, <1>6

\* D[<<x, f>>] is the body of a recursive definition f[x]: its values are in V
\* if those of f are, and of f it uses what is ranked lower only.
Recursion(S, V, U, rank, bound, D) ==
  /\ V # {} /\ V \subseteq U
  /\ rank \in [S -> Nat] /\ bound \in Nat /\ \A x \in S : rank[x] < bound
  /\ \A x \in S, f \in [S -> V] : D[<<x, f>>] \in V
  /\ \A x \in S, f, g \in [S -> U] :
       (\A y \in S : rank[y] < rank[x] => f[y] = g[y]) => D[<<x, f>>] = D[<<x, g>>]

\* Such a definition has a solution.
LEMMA RecursionSolved ==
  ASSUME NEW S, NEW V, NEW rank, NEW bound, NEW D, Recursion(S, V, V, rank, bound, D)
  PROVE  \E f \in [S -> V] : f = [x \in S |-> D[<<x, f>>]]
<1> USE DEF Recursion
<1> DEFINE Solved(n) == \E f \in [S -> V] : \A x \in S : rank[x] < n => f[x] = D[<<x, f>>]
           P == {n \in Nat : Solved(n)}
<1>1. 0 \in P
  <2>1. PICK v \in V : TRUE
    OBVIOUS
  <2>2. [x \in S |-> v] \in [S -> V] /\ \A x \in S : ~(rank[x] < 0)
    BY <2>1
  <2> QED BY <2>2
<1>2. ASSUME NEW n \in Nat, Solved(n) PROVE Solved(n + 1)
  <2>1. PICK f \in [S -> V] : \A x \in S : rank[x] < n => f[x] = D[<<x, f>>]
    BY <1>2
  <2> DEFINE g == [x \in S |-> D[<<x, f>>]]
  <2>2. g \in [S -> V] /\ \A x \in S : g[x] = D[<<x, f>>]
    OBVIOUS
  <2>3. \A x \in S : rank[x] < n => g[x] = f[x]
    BY <2>1, <2>2
  <2> HIDE DEF g
  <2>4. ASSUME NEW x \in S, rank[x] < n + 1 PROVE g[x] = D[<<x, g>>]
    <3>1. \A y \in S : rank[y] < rank[x] => f[y] = g[y]
      BY <2>3, <2>4
    <3>2. D[<<x, f>>] = D[<<x, g>>]
      BY <2>2, <3>1
    <3> QED BY <2>2, <3>2
  <2> QED BY <2>2, <2>4
<1>3. bound \in P
  <2>1. \A n \in 0..(bound - 1) : n \in P => n + 1 \in P
    <3> HIDE DEF Solved
    <3> QED BY <1>2
  <2> HIDE DEF P
  <2>2. 0..bound \subseteq P
    BY <1>1, <2>1, NumberInduction
  <2> QED BY <2>2
<1>4. PICK f \in [S -> V] : \A x \in S : rank[x] < bound => f[x] = D[<<x, f>>]
  BY <1>3
<1>5. \A x \in S : f[x] = D[<<x, f>>]
  BY <1>4
<1> QED BY <1>5

\* Every solution has its values in V.
LEMMA RecursionTyped ==
  ASSUME NEW S, NEW V, NEW U, NEW rank, NEW bound, NEW D, Recursion(S, V, U, rank, bound, D),
         NEW W \in [S -> U], \A x \in S : W[x] = D[<<x, W>>]
  PROVE  W \in [S -> V]
<1> USE DEF Recursion
<1> DEFINE P == {x \in S : W[x] \in V}
<1>1. PICK v \in V : TRUE
  OBVIOUS
<1>2. ASSUME NEW x \in S, \A y \in S : rank[y] < rank[x] => y \in P
      PROVE  x \in P
  <2> DEFINE g == [y \in S |-> IF rank[y] < rank[x] THEN W[y] ELSE v]
  <2>1. g \in [S -> V]
    BY <1>1, <1>2
  <2>2. \A y \in S : rank[y] < rank[x] => W[y] = g[y]
    OBVIOUS
  <2> HIDE DEF g
  <2>3. g \in [S -> U]
    BY <2>1
  <2>4. D[<<x, W>>] = D[<<x, g>>]
    BY <2>2, <2>3
  <2> QED BY <2>1, <2>4
<1>3. S \subseteq P
  <2> HIDE DEF P
  <2> QED BY <1>2, RankInduction
<1> QED BY <1>3

\* One node more seen is one less to see.
LEMMA Descent ==
  ASSUME NEW X, IsFiniteSet(X), NEW seen, NEW x \in X \ seen
  PROVE  /\ Cardinality(X \ (seen \cup {x})) < Cardinality(X \ seen)
         /\ Cardinality(X \ (seen \cup {x})) \in Nat /\ Cardinality(X \ seen) \in Nat
<1>1. IsFiniteSet(X \ seen) /\ x \in X \ seen
  BY FS_Subset
<1>2. X \ (seen \cup {x}) = (X \ seen) \ {x}
  OBVIOUS
<1>3. Cardinality((X \ seen) \ {x}) = Cardinality(X \ seen) - 1 /\ Cardinality(X \ seen) \in Nat
  BY <1>1, FS_RemoveElement, FS_CardinalityType
<1>4. Cardinality((X \ seen) \ {x}) \in Nat
  BY <1>1, FS_RemoveElement, FS_CardinalityType, FS_Subset
<1> QED BY <1>2, <1>3, <1>4

\* The rank of a walk by what it has not seen of a finite set.
Unseen(S, X) == [at \in S |-> Cardinality(X \ at[2])]

\* How many places are not yet seen is a rank.
LEMMA UnseenRanks ==
  ASSUME NEW X, IsFiniteSet(X), NEW S
  PROVE  /\ Unseen(S, X) \in [S -> Nat]
         /\ Cardinality(X) + 1 \in Nat
         /\ \A at \in S : Unseen(S, X)[at] < Cardinality(X) + 1
<1>1. \A T : Cardinality(X \ T) \in Nat /\ Cardinality(X \ T) < Cardinality(X) + 1 /\ Cardinality(X) + 1 \in Nat
  <2> SUFFICES ASSUME NEW T PROVE Cardinality(X \ T) \in Nat /\ Cardinality(X \ T) < Cardinality(X) + 1 /\ Cardinality(X) + 1 \in Nat
    OBVIOUS
  <2>1. X \ T \subseteq X
    OBVIOUS
  <2>2. IsFiniteSet(X \ T) /\ Cardinality(X \ T) <= Cardinality(X)
    BY <2>1, FS_Subset
  <2>3. Cardinality(X) \in Nat /\ Cardinality(X \ T) \in Nat
    BY <2>2, FS_CardinalityType
  <2> QED BY <2>2, <2>3
<1> QED BY <1>1 DEF Unseen

-----------------------------------------------------------------------------
(* Graphs and lists.                                                       *)

Triples == Subjects \X Iris \X Terms

\* Objects are terms.
LEMMA ObjectsTyped ==
  ASSUME NEW G \in SUBSET Triples, NEW s, NEW p
  PROVE  Objects(G, s, p) \subseteq Terms
BY DEF Objects, Triples

\* What Objects finds, in a graph.
LEMMA ObjectsMembers ==
  ASSUME NEW G \in SUBSET Triples, NEW s, NEW p, NEW o
  PROVE  o \in Objects(G, s, p) <=> <<s, p, o>> \in G
<1>1. \A t \in G : t = <<t[1], t[2], t[3]>>
  BY DEF Triples
<1> QED BY <1>1 DEF Objects

\* What SubjectsWith finds, in a graph.
LEMMA SubjectsMembers ==
  ASSUME NEW G \in SUBSET Triples, NEW p, NEW o, NEW s
  PROVE  s \in SubjectsWith(G, p, o) <=> <<s, p, o>> \in G
<1>1. \A t \in G : t = <<t[1], t[2], t[3]>>
  BY DEF Triples
<1> QED BY <1>1 DEF SubjectsWith

\* Only picks an element of a set that has one.
LEMMA OnlyMember == ASSUME NEW S, S # {} PROVE Only(S) \in S
BY DEF Only

\* And the element, of a set with one.
LEMMA OnlyOne == ASSUME NEW x PROVE Only({x}) = x
BY DEF Only

\* The first object found is one of them.
LEMMA LookupFound ==
  ASSUME NEW G, NEW s, NEW p
  PROVE  /\ LookupObject(G, s, p) \subseteq Objects(G, s, p)
         /\ LookupObject(G, s, p) = {} <=> Objects(G, s, p) = {}
         /\ LookupObject(G, s, p) # {} => LookupObject(G, s, p) = {Only(LookupObject(G, s, p))}
<1>1. CASE Objects(G, s, p) = {}
  BY <1>1 DEF LookupObject
<1>2. CASE Objects(G, s, p) # {}
  <2> DEFINE o == CHOOSE x \in Objects(G, s, p) : TRUE
  <2>1. LookupObject(G, s, p) = {o} /\ o \in Objects(G, s, p)
    BY <1>2 DEF LookupObject
  <2> HIDE DEF o
  <2> QED BY <2>1, <1>2 DEF Only
<1> QED BY <1>1, <1>2

\* Of one there is, it is that one.
LEMMA LookupOne ==
  ASSUME NEW G, NEW s, NEW p, \A x, y \in Objects(G, s, p) : x = y
  PROVE  LookupObject(G, s, p) = Objects(G, s, p)
BY LookupFound

\* The nodes of a graph are finitely many.
LEMMA NodesFinite ==
  ASSUME NEW G, IsFiniteSet(G)
  PROVE  /\ IsFiniteSet({t[1] : t \in G}) /\ IsFiniteSet({t[3] : t \in G}) /\ IsFiniteSet(Nodes(G))
<1>1. IsFiniteSet({t[1] : t \in G})
  <2>1. [t \in G |-> t[1]] \in Surjection(G, {t[1] : t \in G})
    BY DEF Surjection
  <2> QED BY <2>1, FS_Surjection
<1>2. IsFiniteSet({t[3] : t \in G})
  <2>1. [t \in G |-> t[3]] \in Surjection(G, {t[3] : t \in G})
    BY DEF Surjection
  <2> QED BY <2>1, FS_Surjection
<1> QED BY <1>1, <1>2, FS_Union DEF Nodes

\* Places of a walk: a term and what has been seen before it.
Places == Terms \X SUBSET Terms

\* The body of walk.
WalkStep(G, at, walk) ==
  LET first == LookupObject(G, at[1], "rdf:first")
      rest  == LookupObject(G, at[1], "rdf:rest")
  IN  IF at[1] = "rdf:nil" THEN [ok |-> TRUE, items |-> << >>]
      ELSE IF at[1] \in Literals \cup at[2] \/ first = {} \/ rest = {} THEN Broken
      ELSE LET tail == walk[<<Only(rest), at[2] \cup {at[1]}>>]
           IN  IF tail.ok THEN [ok |-> TRUE, items |-> <<Only(first)>> \o tail.items]
               ELSE Broken

\* Where a walk goes on, and only there it asks what follows.
GoesOn(G, at) ==
  /\ at[1] # "rdf:nil" /\ at[1] \notin Literals \cup at[2]
  /\ LookupObject(G, at[1], "rdf:first") # {} /\ LookupObject(G, at[1], "rdf:rest") # {}
Rest(G, at) == <<Only(LookupObject(G, at[1], "rdf:rest")), at[2] \cup {at[1]}>>

Walks == [ok : BOOLEAN, items : Seq(Terms)]

\* One cell of a list, walked, is a walk if the rest is.
LEMMA WalkStepTyped ==
  ASSUME NEW G \in SUBSET Triples, NEW at \in Places, NEW walk \in [Places -> Walks]
  PROVE  /\ WalkStep(G, at, walk) \in Walks
         /\ GoesOn(G, at) => Rest(G, at) \in Places
<1>1. [ok |-> TRUE, items |-> << >>] \in Walks /\ Broken \in Walks
  BY DEF Walks, Broken
<1>2. ASSUME GoesOn(G, at)
      PROVE  /\ Only(LookupObject(G, at[1], "rdf:first")) \in Terms
             /\ Rest(G, at) \in Places
  BY <1>2, LookupFound, ObjectsTyped, OnlyMember DEF GoesOn, Rest, Places
<1>3. CASE GoesOn(G, at)
  <2> DEFINE tail == walk[Rest(G, at)]
             first == Only(LookupObject(G, at[1], "rdf:first"))
  <2>1. tail \in Walks
    BY <1>2, <1>3
  <2>2. WalkStep(G, at, walk) = IF tail.ok THEN [ok |-> TRUE, items |-> <<first>> \o tail.items] ELSE Broken
    BY <1>3 DEF WalkStep, GoesOn, Rest
  <2>3. first \in Terms
    BY <1>2, <1>3
  <2> HIDE DEF tail, first
  <2>4. tail.items \in Seq(Terms) /\ <<first>> \in Seq(Terms)
    BY <2>1, <2>3 DEF Walks
  <2>5. <<first>> \o tail.items \in Seq(Terms)
    BY <2>4, ConcatProperties
  <2>6. [ok |-> TRUE, items |-> <<first>> \o tail.items] \in Walks
    BY <2>5 DEF Walks
  <2> QED BY <2>2, <2>6, <1>1, <1>2
<1>4. CASE ~GoesOn(G, at)
  <2>1. WalkStep(G, at, walk) \in {[ok |-> TRUE, items |-> << >>], Broken}
    BY <1>4 DEF WalkStep, GoesOn
  <2> QED BY <2>1, <1>1, <1>4
<1> QED BY <1>3, <1>4

\* What follows is ranked lower, by the subjects still unseen.
LEMMA RestLower ==
  ASSUME NEW G \in SUBSET Triples, IsFiniteSet(G), NEW at \in Places, GoesOn(G, at)
  PROVE  /\ Rest(G, at) \in Places
         /\ Unseen(Places, {t[1] : t \in G})[Rest(G, at)] < Unseen(Places, {t[1] : t \in G})[at]
<1> DEFINE X == {t[1] : t \in G}
<1>1. Rest(G, at) \in Places
  BY LookupFound, ObjectsTyped, OnlyMember DEF GoesOn, Rest, Places
<1>2. at[1] \in X \ at[2]
  <2>1. Objects(G, at[1], "rdf:first") # {}
    BY LookupFound DEF GoesOn
  <2> QED BY <2>1 DEF Objects, GoesOn
<1>3. IsFiniteSet(X)
  BY NodesFinite
<1>4. Rest(G, at)[2] = at[2] \cup {at[1]}
  BY DEF Rest
<1> HIDE DEF X
<1>5. Cardinality(X \ (at[2] \cup {at[1]})) < Cardinality(X \ at[2])
  BY <1>2, <1>3, Descent
<1>6. Unseen(Places, X)[Rest(G, at)] < Unseen(Places, X)[at]
  BY <1>1, <1>4, <1>5 DEF Unseen
<1> QED BY <1>1, <1>6 DEF X

\* It depends on the walk of the rest only.
LEMMA WalkStepDepends ==
  ASSUME NEW G, NEW at, NEW f, NEW g, GoesOn(G, at) => f[Rest(G, at)] = g[Rest(G, at)]
  PROVE  WalkStep(G, at, f) = WalkStep(G, at, g)
BY DEF WalkStep, GoesOn, Rest

\* So there is a walk of every graph.
IsWalk(G, walk) ==
  /\ walk \in [Places -> Walks]
  /\ \A at \in Places : walk[at] = WalkStep(G, at, walk)
  /\ \A head \in Terms : WalkList(G, head) = walk[<<head, {}>>]

\* WalkList is the walk of its cells.
LEMMA WalkSolved ==
  ASSUME NEW G \in SUBSET Triples, IsFiniteSet(G)
  PROVE  \E walk : IsWalk(G, walk)
<1> DEFINE X == {t[1] : t \in G}
           rank == Unseen(Places, X)
           D(U) == [y \in Places \X [Places -> U] |-> WalkStep(G, y[1], y[2])]
<1>1. ASSUME NEW U, Walks \subseteq U
      PROVE  Recursion(Places, Walks, U, rank, Cardinality(X) + 1, D(U))
  <2>1. \A at \in Places, f \in [Places -> U] : D(U)[<<at, f>>] = WalkStep(G, at, f)
    OBVIOUS
  <2>2. rank \in [Places -> Nat] /\ Cardinality(X) + 1 \in Nat
        /\ \A at \in Places : rank[at] < Cardinality(X) + 1
    <3>1. IsFiniteSet(X)
      BY NodesFinite
    <3> HIDE DEF X
    <3> QED BY <3>1, UnseenRanks
  <2>3. \A at \in Places, f \in [Places -> Walks] : D(U)[<<at, f>>] \in Walks
    <3>1. \A f \in [Places -> Walks] : f \in [Places -> U]
      BY <1>1
    <3> HIDE DEF D
    <3> QED BY <2>1, <3>1, WalkStepTyped
  <2>4. ASSUME NEW at \in Places, NEW f \in [Places -> U], NEW g \in [Places -> U],
               \A y \in Places : rank[y] < rank[at] => f[y] = g[y]
        PROVE  D(U)[<<at, f>>] = D(U)[<<at, g>>]
    <3>1. ASSUME GoesOn(G, at) PROVE f[Rest(G, at)] = g[Rest(G, at)]
      <4>1. Rest(G, at) \in Places /\ rank[Rest(G, at)] < rank[at]
        BY <3>1, RestLower
      <4> HIDE DEF rank
      <4> QED BY <2>4, <4>1
    <3>2. WalkStep(G, at, f) = WalkStep(G, at, g)
      <4> HIDE DEF rank
      <4> QED BY <3>1, WalkStepDepends
    <3> HIDE DEF D
    <3> QED BY <2>1, <3>2
  <2>5. [ok |-> TRUE, items |-> << >>] \in Walks
    BY DEF Walks
  <2> HIDE DEF X, rank, D
  <2> QED BY <1>1, <2>2, <2>3, <2>4, <2>5 DEF Recursion
<1> DEFINE W == CHOOSE walk : walk = [at \in Places |-> WalkStep(G, at, walk)]
<1>2. \E f : f = [at \in Places |-> WalkStep(G, at, f)]
  <2>1. PICK f \in [Places -> Walks] : f = [at \in Places |-> D(Walks)[<<at, f>>]]
    <3> HIDE DEF D, rank, X
    <3> QED BY <1>1, RecursionSolved
  <2>2. \A at \in Places : D(Walks)[<<at, f>>] = WalkStep(G, at, f)
    OBVIOUS
  <2> HIDE DEF D
  <2> QED BY <2>1, <2>2
<1>3. W = [at \in Places |-> WalkStep(G, at, W)]
  BY <1>2
<1> DEFINE U == Walks \cup {W[at] : at \in Places}
<1>4. W \in [Places -> U] /\ \A at \in Places : W[at] = WalkStep(G, at, W) /\ W[at] = D(U)[<<at, W>>]
  <2> HIDE DEF W
  <2>1. W \in [Places -> U] /\ \A at \in Places : W[at] = WalkStep(G, at, W)
    BY <1>3
  <2>2. \A at \in Places, f \in [Places -> U] : D(U)[<<at, f>>] = WalkStep(G, at, f)
    OBVIOUS
  <2> QED BY <2>1, <2>2
<1>5. W \in [Places -> Walks]
  <2>1. Recursion(Places, Walks, U, rank, Cardinality(X) + 1, D(U))
    BY <1>1
  <2> HIDE DEF W, D, rank, X, U
  <2> QED BY <2>1, <1>4, RecursionTyped
<1>6. \A head \in Terms : WalkList(G, head) = W[<<head, {}>>]
  BY DEF WalkList, WalkStep, Places
<1> HIDE DEF W
<1> QED BY <1>4, <1>5, <1>6 DEF IsWalk

\* A list is walked to its items, whatever its cells are.
LEMMA WalkListTyped ==
  ASSUME NEW G \in SUBSET Triples, IsFiniteSet(G), NEW head \in Terms
  PROVE  WalkList(G, head) \in Walks
<1>1. PICK walk : IsWalk(G, walk)
  BY WalkSolved
<1> QED BY <1>1 DEF IsWalk, Places

-----------------------------------------------------------------------------
(* Syntax trees.                                                           *)

Unary == {"sh:inversePath", "sh:zeroOrMorePath", "sh:oneOrMorePath", "sh:zeroOrOnePath"}

\* A node of a tree: an operator with as many parts as it takes.
PathNodes ==
  {x \in [op : PathOps, parts : Seq(Terms)] :
     /\ x.op \in Unary \cup {"predicate"} => Len(x.parts) = 1
     /\ x.op = "sequence" => x.parts # << >>}

IsSyntax(syntax) ==
  /\ syntax \in [DOMAIN syntax -> {x \in PathNodes : x.op # "predicate"}]
  /\ DOMAIN syntax \subseteq Blanks
  /\ IsFiniteSet(DOMAIN syntax)

\* The least of a set of numbers.
LEMMA MinOf ==
  ASSUME NEW S, S \subseteq Nat, S # {}
  PROVE  Min(S) \in S /\ \A y \in S : Min(S) <= y
<1>1. \E x \in S : \A y \in S : x <= y
  BY LeastNumber
<1> QED BY <1>1 DEF Min

\* The operators of a path and those among them with one operand.
LEMMA MarkersAre ==
  /\ DOMAIN Markers = 1..5
  /\ \A i \in 1..5 : Markers[i] \in Unary \cup {"sh:alternativePath"} /\ Markers[i] \in PathOps
  /\ "sequence" \in PathOps /\ "refused" \in PathOps /\ "predicate" \in PathOps
  /\ "sequence" \notin Unary /\ "refused" \notin Unary /\ "sh:alternativePath" \notin Unary
  /\ PathOps = {"predicate", "sequence", "refused", "sh:alternativePath"} \cup Unary
  /\ "predicate" \notin Unary
<1>1. DOMAIN Markers = 1..5
  BY DEF Markers
<1>2. Range(Markers) = {Markers[1], Markers[2], Markers[3], Markers[4], Markers[5]}
  BY <1>1 DEF Range
<1>3. \A i \in 1..5 : Markers[i] \in Unary \cup {"sh:alternativePath"}
  BY DEF Markers, Unary
<1>4. Range(Markers) = {"sh:alternativePath"} \cup Unary
  BY <1>2 DEF Markers, Unary
<1> QED BY <1>1, <1>3, <1>4 DEF PathOps, Unary

\* A blank node of a path is an operator or refused.
LEMMA BlankPathNodeTyped ==
  ASSUME NEW G \in SUBSET Triples, IsFiniteSet(G), NEW t \in Terms
  PROVE  BlankPathNode(G, t) \in PathNodes /\ BlankPathNode(G, t).op # "predicate"
<1> DEFINE bears == {i \in DOMAIN Markers : LookupObject(G, t, Markers[i]) # {}}
           mark == Markers[Min(bears)]
           Good(x) == x \in PathNodes /\ x.op # "predicate"
<1>1. ASSUME NEW op \in {"sequence", "sh:alternativePath"}, NEW head \in Terms
      PROVE  Good(ListNode(op, WalkList(G, head)))
  <2>1. WalkList(G, head) \in [ok : BOOLEAN, items : Seq(Terms)]
    BY WalkListTyped DEF Walks
  <2>2. Good(Node("refused", << >>))
    BY MarkersAre DEF Node, PathNodes
  <2>3. ASSUME NEW items \in Seq(Terms), op = "sequence" => items # << >>
        PROVE  Good(Node(op, items))
    BY <2>3, MarkersAre DEF Node, PathNodes
  <2> QED BY <2>1, <2>2, <2>3 DEF ListNode
<1>2. CASE bears = {}
  BY <1>1, <1>2 DEF BlankPathNode
<1>3. CASE bears # {}
  <2>1. bears \subseteq Nat /\ bears \subseteq 1..5
    BY MarkersAre
  <2>2. Min(bears) \in bears /\ Min(bears) \in 1..5
    <3> HIDE DEF bears
    <3> QED BY <1>3, <2>1, MinOf
  <2>3. LookupObject(G, t, mark) # {}
    BY <2>2
  <2>4. Only(LookupObject(G, t, mark)) \in Terms
    BY <2>3, LookupFound, ObjectsTyped, OnlyMember
  <2>5. mark \in Unary \cup {"sh:alternativePath"}
    BY <2>2, MarkersAre
  <2>6. BlankPathNode(G, t) = IF mark = "sh:alternativePath"
                              THEN ListNode(mark, WalkList(G, Only(LookupObject(G, t, mark))))
                              ELSE Node(mark, <<Only(LookupObject(G, t, mark))>>)
    BY <1>3 DEF BlankPathNode
  <2> HIDE DEF mark, bears
  <2>7. ASSUME mark \in Unary, NEW x \in Terms PROVE Good(Node(mark, <<x>>))
    <3>1. <<x>> \in Seq(Terms) /\ Len(<<x>>) = 1 /\ <<x>> # << >>
      OBVIOUS
    <3>2. mark \in PathOps /\ mark # "predicate"
      BY <2>7, MarkersAre
    <3> QED BY <3>1, <3>2 DEF Node, PathNodes
  <2> QED BY <2>4, <2>5, <2>6, <2>7, <1>1
<1> QED BY <1>2, <1>3

\* What Parse keeps of a shapes graph is a table of path nodes.
LEMMA SyntaxTyped ==
  ASSUME NEW G \in SUBSET Triples, IsFiniteSet(G)
  PROVE  IsSyntax(Syntax(G))
<1>1. IsFiniteSet({u[1] : u \in G}) /\ Blanks \cap {u[1] : u \in G} \subseteq {u[1] : u \in G}
  BY NodesFinite
<1>2. IsFiniteSet(Blanks \cap {u[1] : u \in G})
  BY <1>1, FS_Subset
<1>3. Blanks \subseteq Terms
  BY DEF Terms
<1> QED BY <1>2, <1>3, BlankPathNodeTyped DEF Syntax, IsSyntax

\* Every term read as a path is a path node; IRIs are the predicates.
LEMMA PathNodeTyped ==
  ASSUME NEW syntax, IsSyntax(syntax), NEW t \in Terms
  PROVE  /\ PathNode(syntax, t) \in PathNodes
         /\ PathNode(syntax, t).op = "predicate" <=> t \in Iris
         /\ PathNode(syntax, t).op = "predicate" => PathNode(syntax, t).parts = <<t>>
         /\ t \notin DOMAIN syntax => PathNode(syntax, t).op \in {"predicate", "refused"}
<1>1. Iris \cap DOMAIN syntax = {}
  BY KindsApart DEF IsSyntax
<1>2. ASSUME t \in Iris PROVE Node("predicate", <<t>>) \in PathNodes
  BY <1>2, MarkersAre DEF Node, PathNodes, Terms
<1>3. Node("refused", << >>) \in PathNodes
  BY MarkersAre DEF Node, PathNodes
<1> QED BY <1>1, <1>2, <1>3 DEF PathNode, IsSyntax, Node

\* The parts of a node of a tree.
LEMMA PartsTyped ==
  ASSUME NEW x \in PathNodes
  PROVE  /\ DOMAIN x.parts = 1..Len(x.parts) /\ Len(x.parts) \in Nat
         /\ \A i \in DOMAIN x.parts : x.parts[i] \in Terms
         /\ x.op \in Unary \cup {"predicate", "sequence"} => 1 \in DOMAIN x.parts
         /\ x.op \in Unary \cup {"predicate"} => DOMAIN x.parts = {1}
<1>1. x.parts \in Seq(Terms)
  BY DEF PathNodes
<1>2. x.op = "sequence" => Len(x.parts) > 0
  BY <1>1, EmptySeq DEF PathNodes
<1> QED BY <1>1, <1>2 DEF PathNodes

-----------------------------------------------------------------------------
(* Closures: what Reached finds is the least closed set.                   *)

IsHops(hop, places) ==
  /\ IsFiniteSet(places)
  /\ DOMAIN hop = places
  /\ \A f \in places : Onward(hop[f]) \subseteq places

IsClosed(hop, S) == \A f \in S : Onward(hop[f]) \subseteq S

\* The body of closed.
ClosedStep(hop, S, closed) ==
  LET new == Onward(StepFrom(hop, S)) \ S
  IN  IF new = {} THEN S ELSE closed[S \cup new]

\* The nodes one hop from a set are those one hop from its members.
LEMMA StepOnward ==
  ASSUME NEW hop, NEW S
  PROVE  \A x : x \in Onward(StepFrom(hop, S)) <=> \E f \in S : x \in Onward(hop[f])
BY DEF Onward, StepFrom

\* A worklist that finds something has less left to find.
LEMMA MoreSeen ==
  ASSUME NEW X, IsFiniteSet(X), NEW S \in SUBSET X, NEW new \in SUBSET X, new # {}, new \cap S = {}
  PROVE  Cardinality(X \ (S \cup new)) < Cardinality(X \ S)
<1> DEFINE A == X \ (S \cup new)
           B == X \ S
<1>1. IsFiniteSet(B) /\ A \subseteq B /\ A # B
  BY FS_Subset
<1>2. IsFiniteSet(A) /\ Cardinality(A) <= Cardinality(B) /\ Cardinality(A) # Cardinality(B)
  <2> HIDE DEF A, B
  <2> QED BY <1>1, FS_Subset
<1>3. Cardinality(A) \in Nat /\ Cardinality(B) \in Nat
  <2> HIDE DEF A, B
  <2> QED BY <1>1, <1>2, FS_CardinalityType
<1> QED BY <1>2, <1>3

\* The worklist computes the least closed set that holds where it starts.
LEMMA ReachedLeast ==
  ASSUME NEW hop, NEW places, IsHops(hop, places), NEW F \in SUBSET places
  PROVE  /\ F \subseteq Reached(hop, F) /\ Reached(hop, F) \subseteq places
         /\ IsClosed(hop, Reached(hop, F))
         /\ \A S \in SUBSET places : F \subseteq S /\ IsClosed(hop, S) => Reached(hop, F) \subseteq S
<1> DEFINE Sets == SUBSET places
           rank == [S \in Sets |-> Cardinality(places \ S)]
           D == [y \in Sets \X [Sets -> Sets] |-> ClosedStep(hop, y[1], y[2])]
           C == CHOOSE closed : closed = [S \in Sets |-> ClosedStep(hop, S, closed)]
           new(S) == Onward(StepFrom(hop, S)) \ S
<1>1. IsFiniteSet(places) /\ DOMAIN hop = places
  BY DEF IsHops
<1>2. \A S \in Sets : new(S) \in SUBSET places /\ S \cup new(S) \in Sets
  BY StepOnward DEF IsHops
<1>3. rank \in [Sets -> Nat] /\ Cardinality(places) + 1 \in Nat
      /\ \A S \in Sets : rank[S] < Cardinality(places) + 1
  <2>1. \A S \in Sets : IsFiniteSet(places \ S) /\ Cardinality(places \ S) <= Cardinality(places)
    BY <1>1, FS_Subset
  <2>2. Cardinality(places) \in Nat /\ \A S \in Sets : Cardinality(places \ S) \in Nat
    BY <1>1, <2>1, FS_CardinalityType
  <2>3. \A S \in Sets : Cardinality(places \ S) < Cardinality(places) + 1
    BY <2>1, <2>2
  <2> HIDE DEF Sets
  <2> QED BY <2>2, <2>3
<1>4. \A S \in Sets : new(S) # {} => rank[S \cup new(S)] < rank[S]
  BY <1>1, <1>2, MoreSeen
<1>5. \A S \in Sets, f \in [Sets -> Sets] : D[<<S, f>>] = ClosedStep(hop, S, f)
  OBVIOUS
<1>6. \A S \in Sets, f \in [Sets -> Sets] : ClosedStep(hop, S, f) \in Sets
  BY <1>2 DEF ClosedStep
<1>7. \A S \in Sets, f, g \in [Sets -> Sets] :
        (\A T \in Sets : rank[T] < rank[S] => f[T] = g[T]) => ClosedStep(hop, S, f) = ClosedStep(hop, S, g)
  <2> HIDE DEF rank
  <2> QED BY <1>2, <1>4 DEF ClosedStep
<1>8. Recursion(Sets, Sets, Sets, rank, Cardinality(places) + 1, D)
  <2> HIDE DEF rank, D
  <2>1. Sets # {}
    OBVIOUS
  <2> HIDE DEF Sets
  <2> QED BY <1>3, <1>5, <1>6, <1>7, <2>1 DEF Recursion
<1>9. \E closed : closed = [S \in Sets |-> ClosedStep(hop, S, closed)]
  <2>1. PICK f \in [Sets -> Sets] : f = [S \in Sets |-> D[<<S, f>>]]
    <3> HIDE DEF rank, D, Sets
    <3> QED BY <1>8, RecursionSolved
  <2> HIDE DEF D
  <2> QED BY <1>5, <2>1
<1>10. C = [S \in Sets |-> ClosedStep(hop, S, C)]
  <2> HIDE DEF Sets
  <2> QED BY <1>9
<1> DEFINE Good(S) == /\ S \subseteq C[S] /\ C[S] \subseteq places /\ IsClosed(hop, C[S])
                      /\ \A T \in Sets : S \subseteq T /\ IsClosed(hop, T) => C[S] \subseteq T
           P == {S \in Sets : Good(S)}
<1>11. ASSUME NEW S \in Sets, \A T \in Sets : rank[T] < rank[S] => T \in P PROVE S \in P
  <2>1. C[S] = ClosedStep(hop, S, C)
    BY <1>10
  <2> HIDE DEF C
  <2>2. CASE new(S) = {}
    <3>1. C[S] = S
      BY <2>1, <2>2 DEF ClosedStep
    <3>2. IsClosed(hop, S)
      BY <2>2, StepOnward DEF IsClosed
    <3> QED BY <3>1, <3>2
  <2>3. CASE new(S) # {}
    <3> DEFINE T == S \cup new(S)
    <3>1. C[S] = C[T]
      BY <2>1, <2>3 DEF ClosedStep
    <3>2. T \in Sets /\ rank[T] < rank[S]
      BY <1>2, <1>4, <2>3
    <3>3. Good(T)
      <4> HIDE DEF T, rank, Good
      <4> QED BY <3>2, <1>11
    <3>4. \A U \in Sets : S \subseteq U /\ IsClosed(hop, U) => T \subseteq U
      BY StepOnward DEF IsClosed
    <3>5. S \subseteq T
      OBVIOUS
    <3> HIDE DEF T
    <3> QED BY <3>1, <3>3, <3>4, <3>5
  <2> QED BY <2>2, <2>3
<1>12. Sets \subseteq P
  <2> HIDE DEF P, rank, Sets
  <2> QED BY <1>3, <1>11, RankInduction
<1>13. Reached(hop, F) = C[F]
  BY <1>1 DEF Reached, ClosedStep
<1> HIDE DEF C
<1> QED BY <1>12, <1>13

-----------------------------------------------------------------------------
(* One hop after the other.                                                *)

\* What Along walks.
WalkedStep(hops, focus, i, walked) ==
  IF i = 0 THEN {focus} ELSE StepFrom(hops[i], Onward(walked[i - 1]))

\* From focus on, hops stay among the sets of V.
Stays(V, hops, focus) ==
  /\ {focus} \in V /\ Len(hops) \in Nat
  /\ \A i \in 1..Len(hops), S \in V : StepFrom(hops[i], Onward(S)) \in V

\* The sets after each of the hops.
IsWalked(V, hops, focus, w) ==
  /\ w \in [0..Len(hops) -> V]
  /\ w[0] = {focus}
  /\ \A i \in 1..Len(hops) : w[i] = StepFrom(hops[i], Onward(w[i - 1]))
  /\ Along(hops, focus) = w[Len(hops)]

\* The hops of a sequence lead from frontier to frontier.
LEMMA AlongSteps ==
  ASSUME NEW V, NEW hops, NEW focus, Stays(V, hops, focus)
  PROVE  \E w : IsWalked(V, hops, focus, w)
<1> USE DEF Stays
<1> DEFINE n == Len(hops)
           I == 0..n
           rank == [i \in I |-> i]
           D(U) == [y \in I \X [I -> U] |-> WalkedStep(hops, focus, y[1], y[2])]
           W == CHOOSE w : w = [i \in I |-> WalkedStep(hops, focus, i, w)]
<1>1. ASSUME NEW U, V \subseteq U PROVE Recursion(I, V, U, rank, n + 1, D(U))
  <2>1. \A i \in I, f \in [I -> U] : D(U)[<<i, f>>] = WalkedStep(hops, focus, i, f)
    OBVIOUS
  <2>2. rank \in [I -> Nat] /\ n + 1 \in Nat /\ \A i \in I : rank[i] < n + 1
    OBVIOUS
  <2>3. \A i \in I : i # 0 => i - 1 \in I /\ rank[i - 1] < rank[i] /\ i \in 1..n
    OBVIOUS
  <2>4. \A i \in I, f \in [I -> V] : WalkedStep(hops, focus, i, f) \in V
    BY <2>3 DEF WalkedStep
  <2>5. \A i \in I, f, g \in [I -> U] :
          (\A j \in I : rank[j] < rank[i] => f[j] = g[j])
          => WalkedStep(hops, focus, i, f) = WalkedStep(hops, focus, i, g)
    <3> HIDE DEF rank, n
    <3> QED BY <2>3 DEF WalkedStep
  <2>6. V # {} /\ \A f \in [I -> V] : f \in [I -> U]
    BY <1>1
  <2> HIDE DEF rank, D, I, n
  <2>7. \A i \in I, f \in [I -> V] : D(U)[<<i, f>>] \in V
    BY <2>1, <2>4, <2>6
  <2>8. \A i \in I, f, g \in [I -> U] :
          (\A j \in I : rank[j] < rank[i] => f[j] = g[j]) => D(U)[<<i, f>>] = D(U)[<<i, g>>]
    BY <2>1, <2>5
  <2> QED BY <1>1, <2>2, <2>6, <2>7, <2>8 DEF Recursion
<1>2. \E w : w = [i \in I |-> WalkedStep(hops, focus, i, w)]
  <2>1. PICK f \in [I -> V] : f = [i \in I |-> D(V)[<<i, f>>]]
    <3>1. Recursion(I, V, V, rank, n + 1, D(V))
      BY <1>1
    <3> HIDE DEF D, rank, I, n
    <3> QED BY <3>1, RecursionSolved
  <2>2. \A i \in I : D(V)[<<i, f>>] = WalkedStep(hops, focus, i, f)
    OBVIOUS
  <2> HIDE DEF D, I, n
  <2> QED BY <2>1, <2>2
<1>3. W = [i \in I |-> WalkedStep(hops, focus, i, W)]
  BY <1>2
<1> DEFINE U == V \cup {W[i] : i \in I}
<1>4. W \in [I -> V]
  <2> HIDE DEF W
  <2>1. W \in [I -> U]
    BY <1>3
  <2>2. \A i \in I : W[i] = WalkedStep(hops, focus, i, W)
    BY <1>3
  <2>3. \A i \in I, f \in [I -> U] : D(U)[<<i, f>>] = WalkedStep(hops, focus, i, f)
    OBVIOUS
  <2>4. Recursion(I, V, U, rank, n + 1, D(U))
    BY <1>1
  <2> HIDE DEF D, rank, U, I, n
  <2>5. \A i \in I : W[i] = D(U)[<<i, W>>]
    BY <2>1, <2>2, <2>3
  <2> QED BY <2>1, <2>4, <2>5, RecursionTyped
<1>5. Along(hops, focus) = W[n]
  BY DEF Along, WalkedStep
<1> HIDE DEF W
<1>6. W[0] = {focus} /\ \A i \in 1..n : W[i] = StepFrom(hops[i], Onward(W[i - 1]))
  <2>1. 0 \in I /\ \A i \in 1..n : i \in I /\ i # 0
    OBVIOUS
  <2> HIDE DEF n
  <2>2. \A i \in I : W[i] = WalkedStep(hops, focus, i, W)
    BY <1>3
  <2> HIDE DEF I
  <2> QED BY <2>1, <2>2 DEF WalkedStep
<1> QED BY <1>4, <1>5, <1>6 DEF IsWalked

-----------------------------------------------------------------------------
(* Evaluating a path.                                                      *)

\* The nodes to walk on from, and what a path can lead to.
From(D, focus) == Onward(Nodes(D) \cup {focus})
Found(D, focus) == SUBSET (Nodes(D) \cup {focus})

Ats(syntax, D, focus) == (0..MaxDepth(syntax)) \X Terms \X From(D, focus)

\* The body of value.
ValueStep(syntax, D, places, at, value) ==
  LET n          == at[1]
      f          == at[3]
      node       == PathNode(syntax, at[2])
      part(t)    == [g \in places |-> value[<<n - 1, t, g>>]]
      hops       == [i \in DOMAIN node.parts |-> part(node.parts[i])]
      inner      == PathNode(syntax, node.parts[1])
  IN  IF n = 0 THEN {}
      ELSE CASE node.op = "predicate"          -> Objects(D, f, at[2])
             [] node.op = "sh:inversePath"     ->
                  CASE inner.op = "predicate"      -> SubjectsWith(D, node.parts[1], f)
                    [] inner.op = "sh:inversePath" -> part(inner.parts[1])[f]
                    [] OTHER                       -> {}
             [] node.op = "sequence"           -> Along(hops, f)
             [] node.op = "sh:alternativePath" -> UNION {hops[i][f] : i \in DOMAIN hops}
             [] node.op = "sh:zeroOrMorePath"  -> ZeroOrMore(hops[1], f)
             [] node.op = "sh:oneOrMorePath"   -> OneOrMore(hops[1], f)
             [] node.op = "sh:zeroOrOnePath"   -> ZeroOrOne(hops[1], f)
             [] OTHER                          -> {}

\* What a part leads to from every place, and the hops of all parts.
PartHop(value, places, n, t) == [g \in places |-> value[<<n - 1, t, g>>]]
Hops(value, places, n, node) == [i \in DOMAIN node.parts |-> PartHop(value, places, n, node.parts[i])]

\* What the body says of its value v at node t, case by case.
ValueIs(syntax, D, places, value, n, t, f, v) ==
  LET node  == PathNode(syntax, t)
      hops  == Hops(value, places, n, node)
      inner == PathNode(syntax, node.parts[1])
  IN  /\ n = 0 => v = {}
      /\ n # 0 =>
           /\ node.op = "predicate" => v = Objects(D, f, t)
           /\ node.op = "refused" => v = {}
           /\ node.op = "sh:inversePath" =>
                /\ inner.op = "predicate" => v = SubjectsWith(D, node.parts[1], f)
                /\ inner.op = "sh:inversePath" => v = PartHop(value, places, n, inner.parts[1])[f]
                /\ inner.op \notin {"predicate", "sh:inversePath"} => v = {}
           /\ node.op = "sequence" => v = Along(hops, f)
           /\ node.op = "sh:alternativePath" => v = UNION {hops[i][f] : i \in DOMAIN node.parts}
           /\ node.op = "sh:zeroOrMorePath" => v = ZeroOrMore(hops[1], f)
           /\ node.op = "sh:oneOrMorePath" => v = OneOrMore(hops[1], f)
           /\ node.op = "sh:zeroOrOnePath" => v = ZeroOrOne(hops[1], f)

\* The value of a path node by its operator.
LEMMA ValueCases ==
  ASSUME NEW syntax, NEW D, NEW places, NEW n, NEW t, NEW f, NEW value
  PROVE  ValueIs(syntax, D, places, value, n, t, f, ValueStep(syntax, D, places, <<n, t, f>>, value))
<1> DEFINE v == ValueStep(syntax, D, places, <<n, t, f>>, value)
           node  == PathNode(syntax, t)
           hops  == Hops(value, places, n, node)
           inner == PathNode(syntax, node.parts[1])
<1>1. v = IF n = 0 THEN {}
          ELSE CASE node.op = "predicate"          -> Objects(D, f, t)
                 [] node.op = "sh:inversePath"     ->
                      CASE inner.op = "predicate"      -> SubjectsWith(D, node.parts[1], f)
                        [] inner.op = "sh:inversePath" -> PartHop(value, places, n, inner.parts[1])[f]
                        [] OTHER                       -> {}
                 [] node.op = "sequence"           -> Along(hops, f)
                 [] node.op = "sh:alternativePath" -> UNION {hops[i][f] : i \in DOMAIN hops}
                 [] node.op = "sh:zeroOrMorePath"  -> ZeroOrMore(hops[1], f)
                 [] node.op = "sh:oneOrMorePath"   -> OneOrMore(hops[1], f)
                 [] node.op = "sh:zeroOrOnePath"   -> ZeroOrOne(hops[1], f)
                 [] OTHER                          -> {}
  BY DEF ValueStep, PartHop, Hops
<1>2. DOMAIN hops = DOMAIN node.parts
  BY DEF Hops
<1> HIDE DEF v, node, hops, inner
<1>3. n = 0 => v = {}
  BY <1>1
<1>4. n # 0 /\ node.op = "sh:inversePath" =>
        /\ inner.op = "predicate" => v = SubjectsWith(D, node.parts[1], f)
        /\ inner.op = "sh:inversePath" => v = PartHop(value, places, n, inner.parts[1])[f]
        /\ inner.op \notin {"predicate", "sh:inversePath"} => v = {}
  BY <1>1
<1>5. n # 0 =>
        /\ node.op = "predicate" => v = Objects(D, f, t)
        /\ node.op = "refused" => v = {}
        /\ node.op = "sequence" => v = Along(hops, f)
  BY <1>1
<1>6. n # 0 /\ node.op = "sh:alternativePath" => v = UNION {hops[i][f] : i \in DOMAIN node.parts}
  BY <1>1, <1>2
<1>7. n # 0 =>
        /\ node.op = "sh:zeroOrMorePath" => v = ZeroOrMore(hops[1], f)
        /\ node.op = "sh:oneOrMorePath" => v = OneOrMore(hops[1], f)
        /\ node.op = "sh:zeroOrOnePath" => v = ZeroOrOne(hops[1], f)
  BY <1>1
<1> QED BY <1>3, <1>4, <1>5, <1>6, <1>7 DEF ValueIs, v, node, hops, inner

\* The operators of a path node.
LEMMA OpCases ==
  ASSUME NEW x \in PathNodes
  PROVE  x.op \in {"predicate", "refused", "sh:inversePath", "sequence", "sh:alternativePath",
                   "sh:zeroOrMorePath", "sh:oneOrMorePath", "sh:zeroOrOnePath"}
BY MarkersAre DEF PathNodes, Unary

\* A path is walked from nodes of the data graph and the focus node.
LEMMA NodesTerms ==
  ASSUME NEW D \in SUBSET Triples, NEW focus \in Subjects
  PROVE  /\ Nodes(D) \subseteq Terms
         /\ Subjects \subseteq Terms
         /\ From(D, focus) \subseteq Subjects
         /\ From(D, focus) \subseteq Nodes(D) \cup {focus}
         /\ focus \in From(D, focus)
         /\ \A S \in Found(D, focus) : Onward(S) \subseteq From(D, focus)
BY DEF Nodes, From, Found, Onward, Triples, Subjects, Terms

\* These are finitely many.
LEMMA FromFinite ==
  ASSUME NEW D, IsFiniteSet(D), NEW focus
  PROVE  IsFiniteSet(From(D, focus)) /\ IsFiniteSet(Nodes(D) \cup {focus})
<1>1. IsFiniteSet(Nodes(D) \cup {focus})
  BY NodesFinite, FS_Union, FS_Singleton
<1>2. From(D, focus) \subseteq Nodes(D) \cup {focus}
  BY DEF From, Onward
<1> QED BY <1>1, <1>2, FS_Subset

\* The hops of a path end at terms of the data graph.
LEMMA HopsTyped ==
  ASSUME NEW D \in SUBSET Triples, IsFiniteSet(D), NEW focus \in Subjects,
         NEW hop \in [From(D, focus) -> Found(D, focus)]
  PROVE  /\ IsHops(hop, From(D, focus))
         /\ \A S : StepFrom(hop, Onward(S) \cap From(D, focus)) \in Found(D, focus)
         /\ \A S \in Found(D, focus) : StepFrom(hop, Onward(S)) \in Found(D, focus)
<1>1. IsFiniteSet(From(D, focus))
  BY FromFinite
<1>2. \A S \in Found(D, focus) : Onward(S) = Onward(S) \cap From(D, focus)
  BY NodesTerms
<1>3. \A S : StepFrom(hop, Onward(S) \cap From(D, focus)) \in Found(D, focus)
  BY DEF StepFrom, Found
<1> QED BY <1>1, <1>2, <1>3, NodesTerms DEF IsHops

\* So do their repetitions.
LEMMA ClosuresTyped ==
  ASSUME NEW D \in SUBSET Triples, IsFiniteSet(D), NEW focus \in Subjects,
         NEW hop \in [From(D, focus) -> Found(D, focus)], NEW f \in From(D, focus)
  PROVE  /\ ZeroOrMore(hop, f) \in Found(D, focus)
         /\ OneOrMore(hop, f) \in Found(D, focus)
         /\ ZeroOrOne(hop, f) \in Found(D, focus)
<1>1. IsHops(hop, From(D, focus)) /\ hop[f] \in Found(D, focus) /\ From(D, focus) \in Found(D, focus)
  BY HopsTyped, NodesTerms DEF Found
<1>2. Onward(hop[f]) \in SUBSET From(D, focus) /\ {f} \in SUBSET From(D, focus)
  BY <1>1, NodesTerms
<1>3. Reached(hop, {f}) \subseteq From(D, focus) /\ Reached(hop, Onward(hop[f])) \subseteq From(D, focus)
  BY <1>1, <1>2, ReachedLeast
<1> QED BY <1>1, <1>2, <1>3 DEF ZeroOrMore, OneOrMore, ZeroOrOne, Found

\* So does a path whose parts do.
LEMMA ValueStepTyped ==
  ASSUME NEW syntax, IsSyntax(syntax), NEW D \in SUBSET Triples, IsFiniteSet(D), NEW focus \in Subjects,
         NEW at \in Ats(syntax, D, focus), NEW value \in [Ats(syntax, D, focus) -> Found(D, focus)],
         MaxDepth(syntax) \in Nat
  PROVE  ValueStep(syntax, D, From(D, focus), at, value) \in Found(D, focus)
<1> DEFINE places == From(D, focus)
           n == at[1]
           t == at[2]
           f == at[3]
           node == PathNode(syntax, t)
           hops == Hops(value, places, n, node)
           inner == PathNode(syntax, node.parts[1])
           v == ValueStep(syntax, D, places, at, value)
<1> SUFFICES v \in Found(D, focus)
  OBVIOUS
<1>1. n \in 0..MaxDepth(syntax) /\ t \in Terms /\ f \in places /\ at = <<n, t, f>> /\ n \in Nat
  BY DEF Ats
<1>2. node \in PathNodes
  BY <1>1, PathNodeTyped
<1>3. ValueIs(syntax, D, places, value, n, t, f, v)
  <2>1. v = ValueStep(syntax, D, places, <<n, t, f>>, value)
    BY <1>1
  <2> HIDE DEF v, n, t, f, places
  <2> QED BY <2>1, ValueCases
<1>4. {} \in Found(D, focus)
  BY DEF Found
<1>5. ASSUME n # 0, NEW u \in Terms PROVE PartHop(value, places, n, u) \in [places -> Found(D, focus)]
  <2>1. n - 1 \in 0..MaxDepth(syntax)
    BY <1>1, <1>5
  <2>2. \A g \in places : <<n - 1, u, g>> \in Ats(syntax, D, focus)
    BY <2>1 DEF Ats
  <2> HIDE DEF n
  <2> QED BY <2>2 DEF PartHop
<1>6. Objects(D, f, t) \in Found(D, focus) /\ \A p : SubjectsWith(D, p, f) \in Found(D, focus)
  BY DEF Objects, SubjectsWith, Found, Nodes
<1> HIDE DEF v, n, t, f, places
<1>7. CASE n = 0
  BY <1>1, <1>3, <1>4, <1>7 DEF ValueIs
<1>8. CASE n # 0 /\ node.op \in {"predicate", "refused"}
  BY <1>1, <1>3, <1>4, <1>6, <1>8 DEF ValueIs
<1>9. CASE n # 0 /\ node.op = "sh:inversePath"
  <2>1. node.parts[1] \in Terms
    BY <1>2, <1>9, PartsTyped DEF Unary
  <2>2. inner \in PathNodes
    BY <2>1, PathNodeTyped
  <2>3. ASSUME inner.op = "sh:inversePath"
        PROVE  PartHop(value, places, n, inner.parts[1])[f] \in Found(D, focus)
    <3>1. inner.parts[1] \in Terms
      BY <2>2, <2>3, PartsTyped DEF Unary
    <3> QED BY <3>1, <1>1, <1>5, <1>9
  <2> HIDE DEF inner
  <2> QED BY <1>1, <1>3, <1>4, <1>6, <1>9, <2>3 DEF ValueIs, inner
<1>10. ASSUME n # 0
       PROVE  /\ DOMAIN hops = DOMAIN node.parts
              /\ \A i \in DOMAIN node.parts : hops[i] \in [places -> Found(D, focus)]
  BY <1>2, <1>5, <1>10, PartsTyped DEF Hops
<1>11. CASE n # 0 /\ node.op = "sh:alternativePath"
  <2>1. \A i \in DOMAIN node.parts : hops[i][f] \in Found(D, focus)
    BY <1>1, <1>10, <1>11
  <2>2. UNION {hops[i][f] : i \in DOMAIN node.parts} \in Found(D, focus)
    BY <2>1 DEF Found
  <2> QED BY <1>1, <1>3, <1>11, <2>2 DEF ValueIs
<1>12. CASE n # 0 /\ node.op \in Unary \ {"sh:inversePath"}
  <2>1. hops[1] \in [places -> Found(D, focus)]
    BY <1>2, <1>10, <1>12, PartsTyped
  <2> HIDE DEF hops
  <2>2. /\ ZeroOrMore(hops[1], f) \in Found(D, focus)
        /\ OneOrMore(hops[1], f) \in Found(D, focus)
        /\ ZeroOrOne(hops[1], f) \in Found(D, focus)
    BY <2>1, <1>1, ClosuresTyped DEF places
  <2>3. node.op \in {"sh:zeroOrMorePath", "sh:oneOrMorePath", "sh:zeroOrOnePath"}
    BY <1>12 DEF Unary
  <2> QED BY <1>1, <1>3, <1>12, <2>2, <2>3 DEF ValueIs, hops
<1>13. CASE n # 0 /\ node.op = "sequence"
  <2>1. DOMAIN node.parts = 1..Len(node.parts) /\ Len(node.parts) \in Nat
    BY <1>2, PartsTyped
  <2>2. Len(hops) = Len(node.parts)
    BY <2>1 DEF Hops
  <2>3. {f} \in Found(D, focus)
    BY <1>1, NodesTerms DEF Found, places
  <2>4. \A i \in 1..Len(hops), S \in Found(D, focus) : StepFrom(hops[i], Onward(S)) \in Found(D, focus)
    BY <1>10, <1>13, <2>1, <2>2, HopsTyped DEF places
  <2> HIDE DEF hops
  <2>5. Along(hops, f) \in Found(D, focus)
    <3>1. Stays(Found(D, focus), hops, f)
      BY <2>1, <2>2, <2>3, <2>4 DEF Stays
    <3>2. PICK w : IsWalked(Found(D, focus), hops, f, w)
      BY <3>1, AlongSteps
    <3>3. Len(hops) \in 0..Len(hops)
      BY <2>1, <2>2
    <3> QED BY <3>2, <3>3 DEF IsWalked
  <2> QED BY <1>1, <1>3, <1>13, <2>5 DEF ValueIs, hops
<1>14. node.op \in {"predicate", "refused", "sh:inversePath", "sequence", "sh:alternativePath"}
                    \cup (Unary \ {"sh:inversePath"})
  BY <1>2, OpCases DEF Unary
<1> QED BY <1>7, <1>8, <1>9, <1>11, <1>12, <1>13, <1>14

\* The depth of a syntax table is a positive number.
LEMMA DepthTyped ==
  ASSUME NEW syntax, IsSyntax(syntax)
  PROVE  MaxDepth(syntax) \in Nat \ {0} /\ Cardinality(DOMAIN syntax) \in Nat
BY FS_CardinalityType DEF IsSyntax, MaxDepth

\* The body depends on the values one level down.
LEMMA ValueStepDepends ==
  ASSUME NEW syntax, IsSyntax(syntax), NEW D, NEW focus, NEW at \in Ats(syntax, D, focus),
         NEW f, NEW g,
         \A u \in Terms, x \in From(D, focus) :
           at[1] # 0 => f[<<at[1] - 1, u, x>>] = g[<<at[1] - 1, u, x>>]
  PROVE  ValueStep(syntax, D, From(D, focus), at, f) = ValueStep(syntax, D, From(D, focus), at, g)
<1> DEFINE places == From(D, focus)
           n == at[1]
           t == at[2]
           x == at[3]
           node == PathNode(syntax, t)
           inner == PathNode(syntax, node.parts[1])
           v == ValueStep(syntax, D, places, at, f)
           w == ValueStep(syntax, D, places, at, g)
<1> SUFFICES v = w
  OBVIOUS
<1>1. t \in Terms /\ x \in places /\ at = <<n, t, x>> /\ n \in Nat
  BY DEF Ats
<1>2. ValueIs(syntax, D, places, f, n, t, x, v) /\ ValueIs(syntax, D, places, g, n, t, x, w)
  <2>1. v = ValueStep(syntax, D, places, <<n, t, x>>, f) /\ w = ValueStep(syntax, D, places, <<n, t, x>>, g)
    BY <1>1
  <2> HIDE DEF v, w, n, t, x, places
  <2> QED BY <2>1, ValueCases
<1>3. node \in PathNodes
  BY <1>1, PathNodeTyped
<1>4. ASSUME n # 0, NEW u \in Terms PROVE PartHop(f, places, n, u) = PartHop(g, places, n, u)
  BY <1>4 DEF PartHop
<1>5. n # 0 => Hops(f, places, n, node) = Hops(g, places, n, node)
  <2>1. \A i \in DOMAIN node.parts : node.parts[i] \in Terms
    BY <1>3, PartsTyped
  <2> HIDE DEF n, places, node
  <2> QED BY <2>1, <1>4 DEF Hops
<1>6. n # 0 /\ node.op = "sh:inversePath" /\ inner.op = "sh:inversePath" =>
        PartHop(f, places, n, inner.parts[1]) = PartHop(g, places, n, inner.parts[1])
  <2>1. node.op = "sh:inversePath" => node.parts[1] \in Terms
    BY <1>3, PartsTyped DEF Unary
  <2>2. node.op = "sh:inversePath" /\ inner.op = "sh:inversePath" => inner.parts[1] \in Terms
    BY <2>1, PathNodeTyped, PartsTyped DEF Unary
  <2> HIDE DEF n, places, node, inner
  <2> QED BY <2>2, <1>4
<1>7. node.op \in {"predicate", "refused", "sh:inversePath", "sequence", "sh:alternativePath",
                   "sh:zeroOrMorePath", "sh:oneOrMorePath", "sh:zeroOrOnePath"}
  BY <1>3, OpCases
<1> HIDE DEF n, t, x, v, w, places
<1>8. CASE n = 0
  BY <1>2, <1>8 DEF ValueIs
<1>9. CASE n # 0 /\ node.op = "sh:inversePath"
  BY <1>2, <1>6, <1>9 DEF ValueIs
<1>10. CASE n # 0 /\ node.op # "sh:inversePath"
  <2> DEFINE hops == Hops(f, places, n, node)
  <2>1. Hops(g, places, n, node) = hops
    BY <1>5, <1>10
  <2> HIDE DEF hops
  <2>2. hops = Hops(f, places, n, node)
    BY DEF hops
  <2> QED BY <1>2, <1>7, <1>10, <2>1, <2>2 DEF ValueIs
<1> QED BY <1>8, <1>9, <1>10

\* So there is a value for every path at every place.
IsValue(syntax, D, focus, value) ==
  /\ value \in [Ats(syntax, D, focus) -> Found(D, focus)]
  /\ \A at \in Ats(syntax, D, focus) :
       value[at] = ValueStep(syntax, D, From(D, focus), at, value)
  /\ \A root \in Terms :
       EvaluatePath(syntax, root, D, focus) = value[<<MaxDepth(syntax), root, focus>>]

\* The recursion of EvaluatePath over depth, node and start has a solution.
LEMMA ValueSolved ==
  ASSUME NEW syntax, IsSyntax(syntax), NEW D \in SUBSET Triples, IsFiniteSet(D), NEW focus \in Subjects
  PROVE  \E value : IsValue(syntax, D, focus, value)
<1> DEFINE S == Ats(syntax, D, focus)
           V == Found(D, focus)
           places == From(D, focus)
           rank == [at \in S |-> at[1]]
           bound == MaxDepth(syntax) + 1
           B(U) == [y \in S \X [S -> U] |-> ValueStep(syntax, D, places, y[1], y[2])]
           W == CHOOSE value : value = [at \in S |-> ValueStep(syntax, D, places, at, value)]
<1>1. ASSUME NEW U, V \subseteq U PROVE Recursion(S, V, U, rank, bound, B(U))
  <2>1. \A at \in S, f \in [S -> U] : B(U)[<<at, f>>] = ValueStep(syntax, D, places, at, f)
    OBVIOUS
  <2>2. rank \in [S -> Nat] /\ bound \in Nat /\ \A at \in S : rank[at] < bound
    <3>1. MaxDepth(syntax) \in Nat
      BY DepthTyped
    <3>2. \A at \in S : at[1] \in 0..MaxDepth(syntax)
      BY DEF Ats
    <3> HIDE DEF S
    <3> QED BY <3>1, <3>2
  <2>3. \A at \in S, f \in [S -> V] : ValueStep(syntax, D, places, at, f) \in V
    <3>1. MaxDepth(syntax) \in Nat
      BY DepthTyped
    <3> QED BY <3>1, ValueStepTyped
  <2>4. ASSUME NEW at \in S, NEW f \in [S -> U], NEW g \in [S -> U],
               \A y \in S : rank[y] < rank[at] => f[y] = g[y]
        PROVE  ValueStep(syntax, D, places, at, f) = ValueStep(syntax, D, places, at, g)
    <3>1. ASSUME NEW u \in Terms, NEW x \in places, at[1] # 0
          PROVE  f[<<at[1] - 1, u, x>>] = g[<<at[1] - 1, u, x>>]
      <4>1. at[1] \in 0..MaxDepth(syntax) /\ MaxDepth(syntax) \in Nat
        BY DepthTyped DEF Ats
      <4>2. at[1] - 1 \in 0..MaxDepth(syntax) /\ at[1] - 1 < at[1]
        BY <3>1, <4>1
      <4>3. <<at[1] - 1, u, x>> \in S
        BY <4>2 DEF Ats
      <4> HIDE DEF S
      <4>4. rank[<<at[1] - 1, u, x>>] = at[1] - 1 /\ rank[at] = at[1]
        BY <4>3
      <4> HIDE DEF rank
      <4> QED BY <2>4, <4>2, <4>3, <4>4
    <3> HIDE DEF rank
    <3> QED BY <3>1, ValueStepDepends
  <2>5. V # {} /\ \A f \in [S -> V] : f \in [S -> U]
    BY <1>1 DEF Found
  <2> HIDE DEF S, V, rank, bound, B, places
  <2>6. \A at \in S, f \in [S -> V] : B(U)[<<at, f>>] \in V
    BY <2>1, <2>3, <2>5
  <2>7. \A at \in S, f, g \in [S -> U] :
          (\A y \in S : rank[y] < rank[at] => f[y] = g[y]) => B(U)[<<at, f>>] = B(U)[<<at, g>>]
    BY <2>1, <2>4
  <2> QED BY <1>1, <2>2, <2>5, <2>6, <2>7 DEF Recursion
<1>2. \E value : value = [at \in S |-> ValueStep(syntax, D, places, at, value)]
  <2>1. PICK f \in [S -> V] : f = [at \in S |-> B(V)[<<at, f>>]]
    <3>1. Recursion(S, V, V, rank, bound, B(V))
      BY <1>1
    <3> HIDE DEF S, V, rank, bound, B, places
    <3> QED BY <3>1, RecursionSolved
  <2>2. \A at \in S : B(V)[<<at, f>>] = ValueStep(syntax, D, places, at, f)
    OBVIOUS
  <2> HIDE DEF S, V, rank, bound, B, places
  <2> QED BY <2>1, <2>2
<1>3. W = [at \in S |-> ValueStep(syntax, D, places, at, W)]
  <2> HIDE DEF S, places
  <2> QED BY <1>2
<1> DEFINE U == V \cup {W[at] : at \in S}
<1>4. W \in [S -> V]
  <2> HIDE DEF W
  <2>1. W \in [S -> U] /\ \A at \in S : W[at] = ValueStep(syntax, D, places, at, W)
    <3> HIDE DEF S, V, places
    <3> QED BY <1>3
  <2>2. \A at \in S, f \in [S -> U] : B(U)[<<at, f>>] = ValueStep(syntax, D, places, at, f)
    OBVIOUS
  <2>3. Recursion(S, V, U, rank, bound, B(U))
    BY <1>1
  <2> HIDE DEF S, V, U, rank, bound, B, places
  <2>4. \A at \in S : W[at] = B(U)[<<at, W>>]
    BY <2>1, <2>2
  <2> QED BY <2>1, <2>3, <2>4, RecursionTyped
<1>5. \A root \in Terms : EvaluatePath(syntax, root, D, focus) = W[<<MaxDepth(syntax), root, focus>>]
  BY DEF EvaluatePath, ValueStep, Ats, From
<1> HIDE DEF W
<1> QED BY <1>3, <1>4, <1>5 DEF IsValue

\* The values of a path are finitely many terms.
LEMMA EvaluatePathTyped ==
  ASSUME NEW syntax, IsSyntax(syntax), NEW D \in SUBSET Triples, IsFiniteSet(D), NEW focus \in Subjects,
         NEW root \in Terms
  PROVE  EvaluatePath(syntax, root, D, focus) \in SUBSET Terms /\ IsFiniteSet(EvaluatePath(syntax, root, D, focus))
<1>1. PICK value : IsValue(syntax, D, focus, value)
  BY ValueSolved
<1>2. MaxDepth(syntax) \in 0..MaxDepth(syntax) /\ focus \in From(D, focus)
  BY DepthTyped, NodesTerms
<1>3. EvaluatePath(syntax, root, D, focus) \in Found(D, focus)
  BY <1>1, <1>2 DEF IsValue, Ats
<1>4. EvaluatePath(syntax, root, D, focus) \subseteq Nodes(D) \cup {focus}
  BY <1>3 DEF Found
<1> QED BY <1>4, FromFinite, FS_Subset, NodesTerms

-----------------------------------------------------------------------------
(* Sequences that list a set.                                              *)

\* Each element once.
Lists(list, S) == list \in Seq(S) /\ Range(list) = S /\ IsInjective(list)

\* The empty sequence lists the empty set.
LEMMA EmptyLists == Lists(<< >>, {})
<1>1. << >> \in Seq({}) /\ DOMAIN << >> = {}
  OBVIOUS
<1> QED BY <1>1 DEF Lists, Range, IsInjective

\* A list grows by an element it has not.
LEMMA AppendLists ==
  ASSUME NEW S, NEW x \in S, NEW list, Lists(list, S \ {x})
  PROVE  Lists(Append(list, x), S)
<1> DEFINE more == Append(list, x)
           n == Len(list)
<1>1. list \in Seq(S \ {x}) /\ Range(list) = S \ {x} /\ IsInjective(list)
  BY DEF Lists
<1>2. list \in Seq(S)
  BY <1>1, SeqMonotonic
<1>3. n \in Nat /\ DOMAIN list = 1..n
  BY <1>1, LenProperties
<1>4. /\ more \in Seq(S) /\ Len(more) = n + 1
      /\ \A i \in 1..n : more[i] = list[i]
      /\ more[n + 1] = x
  BY <1>2, AppendProperties
<1>5. DOMAIN more = 1..(n + 1)
  BY <1>4, LenProperties
<1>6. 1..(n + 1) = 1..n \cup {n + 1}
  BY <1>3
<1>7. \A i \in 1..n : list[i] \in S /\ list[i] # x
  BY <1>1, <1>3 DEF Range
<1> HIDE DEF more, n
<1>8. Range(more) = S
  BY <1>1, <1>3, <1>4, <1>5, <1>6 DEF Range
<1>9. IsInjective(more)
  BY <1>1, <1>3, <1>4, <1>5, <1>6, <1>7 DEF IsInjective
<1> QED BY <1>4, <1>8, <1>9 DEF Lists, more

\* The body of the fold that Listed is.
FoldStep(s, iter) == IF s = {} THEN << >> ELSE LET x == CHOOSE y \in s : TRUE IN Append(iter[s \ {x}], x)

\* Listed lists its set: each element once.
LEMMA ListedLists ==
  ASSUME NEW S, IsFiniteSet(S)
  PROVE  Lists(Listed(S), S)
<1> DEFINE Sets == SUBSET S
           V == Seq(S)
           rank == [s \in Sets |-> Cardinality(s)]
           bound == Cardinality(S) + 1
           B == [y \in Sets \X [Sets -> V] |-> FoldStep(y[1], y[2])]
           W == CHOOSE iter : iter = [s \in Sets |-> FoldStep(s, iter)]
           ch(s) == CHOOSE y \in s : TRUE
<1>1. \A s \in Sets : s # {} => ch(s) \in s /\ s \ {ch(s)} \in Sets
  OBVIOUS
<1>2. \A s \in Sets : IsFiniteSet(s) /\ Cardinality(s) \in Nat /\ Cardinality(s) <= Cardinality(S)
  BY FS_Subset, FS_CardinalityType
<1>3. rank \in [Sets -> Nat] /\ bound \in Nat /\ \A s \in Sets : rank[s] < bound
  <2>1. Cardinality(S) \in Nat
    BY FS_CardinalityType
  <2>2. \A s \in Sets : Cardinality(s) < Cardinality(S) + 1
    BY <1>2, <2>1
  <2> HIDE DEF Sets
  <2> QED BY <1>2, <2>1, <2>2
<1>4. \A s \in Sets : s # {} => rank[s \ {ch(s)}] < rank[s]
  <2> SUFFICES ASSUME NEW s \in Sets, s # {} PROVE rank[s \ {ch(s)}] < rank[s]
    OBVIOUS
  <2>1. Cardinality(s \ {ch(s)}) = Cardinality(s) - 1
    BY <1>1, <1>2, FS_RemoveElement
  <2>2. Cardinality(s) \in Nat
    BY <1>2
  <2> HIDE DEF ch
  <2>3. s \ {ch(s)} \in Sets
    OBVIOUS
  <2> HIDE DEF Sets
  <2> QED BY <2>1, <2>2, <2>3
<1>5. \A s \in Sets, f \in [Sets -> V] : B[<<s, f>>] = FoldStep(s, f)
  OBVIOUS
<1>6. \A s \in Sets, f \in [Sets -> V] : FoldStep(s, f) \in V
  <2> SUFFICES ASSUME NEW s \in Sets, NEW f \in [Sets -> V] PROVE FoldStep(s, f) \in V
    OBVIOUS
  <2>1. CASE s = {}
    BY <2>1 DEF FoldStep
  <2>2. CASE s # {}
    <3>1. ch(s) \in S /\ f[s \ {ch(s)}] \in Seq(S)
      BY <1>1, <2>2
    <3>2. FoldStep(s, f) = Append(f[s \ {ch(s)}], ch(s))
      BY <2>2 DEF FoldStep
    <3> HIDE DEF ch
    <3> QED BY <3>1, <3>2, AppendProperties
  <2> QED BY <2>1, <2>2
<1>7. \A s \in Sets, f, g \in [Sets -> V] :
        (\A t \in Sets : rank[t] < rank[s] => f[t] = g[t]) => FoldStep(s, f) = FoldStep(s, g)
  <2> SUFFICES ASSUME NEW s \in Sets, NEW f \in [Sets -> V], NEW g \in [Sets -> V],
                      \A t \in Sets : rank[t] < rank[s] => f[t] = g[t]
               PROVE  FoldStep(s, f) = FoldStep(s, g)
    OBVIOUS
  <2>1. s # {} => f[s \ {ch(s)}] = g[s \ {ch(s)}]
    <3> HIDE DEF rank, ch, Sets
    <3> QED BY <1>1, <1>4
  <2> QED BY <2>1 DEF FoldStep
<1>8. Recursion(Sets, V, V, rank, bound, B)
  <2>1. V # {}
    BY EmptySeq
  <2> HIDE DEF Sets, V, rank, bound, B
  <2> QED BY <1>3, <1>5, <1>6, <1>7, <2>1 DEF Recursion
<1>9. W = [s \in Sets |-> FoldStep(s, W)]
  <2>1. PICK f \in [Sets -> V] : f = [s \in Sets |-> B[<<s, f>>]]
    <3> HIDE DEF Sets, V, rank, bound, B
    <3> QED BY <1>8, RecursionSolved
  <2> HIDE DEF B, Sets, V
  <2>2. \E iter : iter = [s \in Sets |-> FoldStep(s, iter)]
    BY <1>5, <2>1
  <2> QED BY <2>2
<1>10. Listed(S) = W[S]
  BY DEF Listed, FoldSet, MapThenFoldSet, FoldStep
<1> HIDE DEF W
<1> DEFINE P == {s \in Sets : Lists(W[s], s)}
<1>11. ASSUME NEW s \in Sets, \A t \in Sets : rank[t] < rank[s] => t \in P PROVE s \in P
  <2>1. W[s] = FoldStep(s, W)
    BY <1>9
  <2>2. CASE s = {}
    BY <2>1, <2>2, EmptyLists DEF FoldStep
  <2>3. CASE s # {}
    <3>1. ch(s) \in s /\ s \ {ch(s)} \in Sets /\ rank[s \ {ch(s)}] < rank[s]
      BY <1>1, <1>4, <2>3
    <3>2. W[s] = Append(W[s \ {ch(s)}], ch(s))
      BY <2>1, <2>3 DEF FoldStep
    <3> HIDE DEF ch, rank
    <3>3. Lists(W[s \ {ch(s)}], s \ {ch(s)})
      BY <3>1, <1>11
    <3> QED BY <3>1, <3>2, <3>3, AppendLists
  <2> QED BY <2>2, <2>3
<1>12. Sets \subseteq P
  <2> HIDE DEF P, rank, Sets
  <2> QED BY <1>3, <1>11, RankInduction
<1> QED BY <1>10, <1>12

\* A set is as large as a list of it is long.
LEMMA ListsLength ==
  ASSUME NEW S, NEW list, Lists(list, S)
  PROVE  IsFiniteSet(S) /\ Cardinality(S) = Len(list)
<1>1. list \in Seq(S) /\ Range(list) = S /\ IsInjective(list)
  BY DEF Lists
<1>2. Len(list) \in Nat /\ DOMAIN list = 1..Len(list)
  BY <1>1, LenProperties
<1>3. list \in Bijection(1..Len(list), S)
  BY <1>1, <1>2 DEF Bijection, Injection, Surjection, Range, IsInjective
<1>4. IsFiniteSet(1..Len(list)) /\ Cardinality(1..Len(list)) = Len(list)
  <2> DEFINE n == Len(list)
  <2>1. n \in Nat
    BY <1>2
  <2> HIDE DEF n
  <2>2. IsFiniteSet(1..n) /\ Cardinality(1..n) = IF 1 > n THEN 0 ELSE n - 1 + 1
    BY <2>1, FS_Interval
  <2>3. Cardinality(1..n) = n
    BY <2>1, <2>2
  <2> QED BY <2>2, <2>3 DEF n
<1>5. ExistsBijection(1..Len(list), S)
  BY <1>3 DEF ExistsBijection
<1> QED BY <1>4, <1>5, FS_Bijection

\* Two lists with nothing in common, one after the other.
LEMMA ConcatLists ==
  ASSUME NEW S, NEW T, NEW a, Lists(a, S), NEW b, Lists(b, T), S \cap T = {}
  PROVE  Lists(a \o b, S \cup T)
<1>1. a \in Seq(S) /\ b \in Seq(T) /\ Range(a) = S /\ Range(b) = T /\ IsInjective(a) /\ IsInjective(b)
  BY DEF Lists
<1>2. a \in Seq(S \cup T) /\ b \in Seq(S \cup T)
  BY <1>1, SeqMonotonic
<1> DEFINE m == Len(a)
           n == Len(b)
           list == a \o b
<1>3. m \in Nat /\ n \in Nat /\ DOMAIN a = 1..m /\ DOMAIN b = 1..n
  BY <1>1, LenProperties
<1>4. /\ list \in Seq(S \cup T) /\ Len(list) = m + n
      /\ \A i \in 1..(m + n) : list[i] = IF i <= m THEN a[i] ELSE b[i - m]
  BY <1>2, ConcatProperties
<1>5. Range(list) = S \cup T
  BY <1>1, <1>2, RangeConcatenation
<1>6. DOMAIN list = 1..(m + n)
  BY <1>4, LenProperties
<1>7. \A i \in 1..(m + n) : i <= m => i \in 1..m /\ a[i] \in S
  BY <1>1, <1>3 DEF Range
<1>8. \A i \in 1..(m + n) : ~(i <= m) => i - m \in 1..n /\ b[i - m] \in T
  BY <1>1, <1>3 DEF Range
<1> HIDE DEF list, m, n
<1>9. IsInjective(list)
  <2> SUFFICES ASSUME NEW i \in 1..(m + n), NEW j \in 1..(m + n), list[i] = list[j] PROVE i = j
    BY <1>6 DEF IsInjective
  <2>1. CASE i <= m /\ j <= m
    BY <1>1, <1>3, <1>4, <1>7, <2>1 DEF IsInjective
  <2>2. CASE ~(i <= m) /\ ~(j <= m)
    <3>1. i - m = j - m
      BY <1>1, <1>3, <1>4, <1>8, <2>2 DEF IsInjective
    <3> QED BY <3>1, <1>3
  <2>3. CASE (i <= m /\ ~(j <= m)) \/ (j <= m /\ ~(i <= m))
    BY <1>4, <1>7, <1>8, <2>3
  <2>4. (i <= m) \in BOOLEAN /\ (j <= m) \in BOOLEAN
    BY <1>3
  <2> QED BY <2>1, <2>2, <2>3, <2>4
<1> QED BY <1>4, <1>5, <1>9 DEF Lists, list

-----------------------------------------------------------------------------
(* Lists one after the other.                                              *)

FlatStep(seqs, i, flatten) == IF i = 1 THEN seqs[i] ELSE flatten[i - 1] \o seqs[i]

\* seqs[i] lists sets[i], and no two of these share an element.
ListsApart(seqs, sets) ==
  /\ Len(seqs) \in Nat \ {0} /\ DOMAIN seqs = 1..Len(seqs)
  /\ \A i \in 1..Len(seqs) : Lists(seqs[i], sets[i])
  /\ \A i, j \in 1..Len(seqs) : i # j => sets[i] \cap sets[j] = {}

\* And any number of them.
LEMMA FlattenLists ==
  ASSUME NEW seqs, NEW sets, ListsApart(seqs, sets)
  PROVE  Lists(FlattenSeq(seqs), UNION {sets[i] : i \in 1..Len(seqs)})
<1> DEFINE n == Len(seqs)
           I == 1..n
           X == UNION {sets[i] : i \in I}
           V == Seq(X)
           rank == [i \in I |-> i]
           B == [y \in I \X [I -> V] |-> FlatStep(seqs, y[1], y[2])]
           W == CHOOSE h : h = [i \in I |-> FlatStep(seqs, i, h)]
<1>1. n \in Nat \ {0} /\ \A i \in I : Lists(seqs[i], sets[i])
  BY DEF ListsApart
<1>2. \A i \in I : seqs[i] \in V
  <2> SUFFICES ASSUME NEW i \in I PROVE seqs[i] \in V
    OBVIOUS
  <2>1. seqs[i] \in Seq(sets[i]) /\ sets[i] \subseteq X
    BY <1>1 DEF Lists
  <2> HIDE DEF X, I
  <2> QED BY <2>1, SeqMonotonic
<1>3. rank \in [I -> Nat] /\ n + 1 \in Nat /\ \A i \in I : rank[i] < n + 1
  BY <1>1
<1>4. \A i \in I : i # 1 => i - 1 \in I /\ rank[i - 1] < rank[i]
  BY <1>1
<1>5. \A i \in I, f \in [I -> V] : B[<<i, f>>] = FlatStep(seqs, i, f)
  OBVIOUS
<1>6. \A i \in I, f \in [I -> V] : FlatStep(seqs, i, f) \in V
  <2> SUFFICES ASSUME NEW i \in I, NEW f \in [I -> V] PROVE FlatStep(seqs, i, f) \in V
    OBVIOUS
  <2>1. i # 1 => f[i - 1] \in V
    <3> HIDE DEF I, rank, V
    <3> QED BY <1>4
  <2> HIDE DEF I, X
  <2> QED BY <1>2, <2>1, ConcatProperties DEF FlatStep
<1>7. \A i \in I, f, g \in [I -> V] :
        (\A j \in I : rank[j] < rank[i] => f[j] = g[j]) => FlatStep(seqs, i, f) = FlatStep(seqs, i, g)
  <2> HIDE DEF rank, I, V
  <2> QED BY <1>4 DEF FlatStep
<1>8. Recursion(I, V, V, rank, n + 1, B)
  <2>1. V # {}
    BY EmptySeq
  <2> HIDE DEF I, V, rank, B, n
  <2> QED BY <1>3, <1>5, <1>6, <1>7, <2>1 DEF Recursion
<1>9. W = [i \in I |-> FlatStep(seqs, i, W)]
  <2>1. PICK f \in [I -> V] : f = [i \in I |-> B[<<i, f>>]]
    <3> HIDE DEF I, V, rank, B, n
    <3> QED BY <1>8, RecursionSolved
  <2> HIDE DEF B, I, V
  <2>2. \E h : h = [i \in I |-> FlatStep(seqs, i, h)]
    BY <1>5, <2>1
  <2> QED BY <2>2
<1>10. FlattenSeq(seqs) = W[n]
  BY <1>1 DEF FlattenSeq, FlatStep
<1> HIDE DEF W
<1> DEFINE Upto(i) == UNION {sets[j] : j \in 1..i}
           P == {i \in 0..n : i = 0 \/ Lists(W[i], Upto(i))}
<1>11. ASSUME NEW i \in 0..(n - 1), i \in P PROVE i + 1 \in P
  <2>1. i + 1 \in I /\ i + 1 \in 0..n
    BY <1>1, <1>11
  <2>2. W[i + 1] = FlatStep(seqs, i + 1, W)
    <3> HIDE DEF I
    <3> QED BY <1>9, <2>1
  <2>3. CASE i = 0
    <3>1. W[1] = seqs[1]
      BY <2>2, <2>3 DEF FlatStep
    <3>2. Upto(1) = sets[1]
      <4>1. 1..1 = {1}
        OBVIOUS
      <4> QED BY <4>1
    <3>3. Lists(seqs[1], sets[1])
      BY <1>1, <2>1, <2>3
    <3> HIDE DEF Upto
    <3> QED BY <2>1, <2>3, <3>1, <3>2, <3>3
  <2>4. CASE i # 0
    <3>1. W[i + 1] = W[i] \o seqs[i + 1]
      <4>1. i + 1 # 1 /\ (i + 1) - 1 = i
        BY <1>11, <2>4, <1>1
      <4> QED BY <2>2, <4>1 DEF FlatStep
    <3>2. Lists(W[i], Upto(i)) /\ Lists(seqs[i + 1], sets[i + 1])
      <4>1. Lists(W[i], Upto(i))
        <5> HIDE DEF Upto, n
        <5> QED BY <1>11, <2>4
      <4> QED BY <4>1, <1>1, <2>1
    <3>3. Upto(i) \cap sets[i + 1] = {} /\ Upto(i) \cup sets[i + 1] = Upto(i + 1)
      <4>1. \A j \in 1..i : j \in I /\ j # i + 1
        BY <1>1, <1>11
      <4>2. \A j \in 1..i : sets[j] \cap sets[i + 1] = {}
        BY <4>1, <2>1 DEF ListsApart
      <4>3. 1..(i + 1) = 1..i \cup {i + 1}
        BY <1>1, <1>11, <2>4
      <4> HIDE DEF I, n
      <4> QED BY <4>2, <4>3
    <3> HIDE DEF Upto
    <3>4. Lists(W[i + 1], Upto(i + 1))
      BY <3>1, <3>2, <3>3, ConcatLists
    <3> QED BY <2>1, <3>4
  <2> QED BY <2>3, <2>4
<1>12. 0..n \subseteq P
  <2>1. 0 \in P
    BY <1>1
  <2>2. n \in Nat
    BY <1>1
  <2> HIDE DEF P, n
  <2> QED BY <1>11, <2>1, <2>2, NumberInduction
<1> QED
  <2>1. n \in P /\ n # 0
    <3> HIDE DEF P
    <3> QED BY <1>1, <1>12
  <2>2. Lists(W[n], Upto(n))
    <3> HIDE DEF Upto, n
    <3> QED BY <2>1
  <2> QED BY <2>2, <1>10

-----------------------------------------------------------------------------
(* What the constraints find, as a set.                                    *)

ResultOf(focus, shape, k, value) ==
  [focus |-> focus, path |-> shape.path, value |-> value, shape |-> shape.node, component |-> k]

\* One result for each value.
Each(focus, shape, k, vals) == {ResultOf(focus, shape, k, {v}) : v \in vals}

Failing(D, shape, vals, k) ==
  {w \in vals : ~ValueConforms(D, shape.params, k, Only(shape.params[k]), w)}

ResultSet(D, focus, shape, vals, k) ==
  IF shape.params[k] = {} THEN {}
  ELSE IF k \in Together
  THEN IF CountConforms(k, Only(shape.params[k]), vals) THEN {} ELSE {ResultOf(focus, shape, k, {})}
  ELSE Each(focus, shape, k, Failing(D, shape, vals, k))

AllResults(D, focus, shape, vals) ==
  UNION {ResultSet(D, focus, shape, vals, Components[i]) : i \in 1..12}

\* A sequence of one element.
LEMMA OneLists == ASSUME NEW x PROVE Lists(<<x>>, {x})
<1>1. <<x>> \in Seq({x}) /\ DOMAIN <<x>> = {1} /\ <<x>>[1] = x
  OBVIOUS
<1> QED BY <1>1 DEF Lists, Range, IsInjective

\* Finitely many values have finitely many results.
LEMMA EachFinite ==
  ASSUME NEW focus, NEW shape, NEW k, NEW vals, IsFiniteSet(vals)
  PROVE  IsFiniteSet(Each(focus, shape, k, vals))
<1>1. [v \in vals |-> ResultOf(focus, shape, k, {v})] \in Surjection(vals, Each(focus, shape, k, vals))
  BY DEF Surjection, Each
<1> QED BY <1>1, FS_Surjection

\* A component's results are listed without repetition.
LEMMA ResultsOfLists ==
  ASSUME NEW D, NEW focus, NEW shape, NEW vals, IsFiniteSet(vals), NEW k
  PROVE  Lists(ResultsOf(D, focus, shape, vals, k), ResultSet(D, focus, shape, vals, k))
<1> DEFINE made(value) == ResultOf(focus, shape, k, value)
           b == Only(shape.params[k])
<1>1. ResultsOf(D, focus, shape, vals, k) =
        IF shape.params[k] = {} THEN << >>
        ELSE IF k \in Together
        THEN IF CountConforms(k, b, vals) THEN << >> ELSE <<made({})>>
        ELSE Listed(Each(focus, shape, k, Failing(D, shape, vals, k)))
  BY DEF ResultsOf, ResultOf, Failing, Together, Each
<1>2. IsFiniteSet(Failing(D, shape, vals, k))
  BY FS_Subset DEF Failing
<1>3. IsFiniteSet(Each(focus, shape, k, Failing(D, shape, vals, k)))
  BY <1>2, EachFinite
<1>4. Lists(Listed(Each(focus, shape, k, Failing(D, shape, vals, k))),
            Each(focus, shape, k, Failing(D, shape, vals, k)))
  BY <1>3, ListedLists
<1>5. Lists(<<made({})>>, {made({})})
  BY OneLists
<1>6. ResultSet(D, focus, shape, vals, k) =
        IF shape.params[k] = {} THEN {}
        ELSE IF k \in Together
        THEN IF CountConforms(k, b, vals) THEN {} ELSE {made({})}
        ELSE Each(focus, shape, k, Failing(D, shape, vals, k))
  BY DEF ResultSet
<1> HIDE DEF made, b
<1> QED BY <1>1, <1>4, <1>5, <1>6, EmptyLists

\* There are twelve components, all different.
LEMMA ComponentsAre ==
  /\ DOMAIN Components = 1..12
  /\ Range(Components) = {Components[i] : i \in 1..12}
  /\ \A i, j \in 1..12 : Components[i] = Components[j] => i = j
<1>1. DOMAIN Components = 1..12
  BY DEF Components
<1>2. Range(Components) = {Components[i] : i \in 1..12}
  BY <1>1 DEF Range
<1>3. \A i, j \in 1..12 : Components[i] = Components[j] => i = j
  BY DEF Components
<1> QED BY <1>1, <1>2, <1>3

\* A result names its component, focus node, shape and path.
LEMMA ResultSetMembers ==
  ASSUME NEW D, NEW focus, NEW shape, NEW vals, NEW k, NEW r \in ResultSet(D, focus, shape, vals, k)
  PROVE  /\ \E value \in {{}} \cup {{v} : v \in vals} : r = ResultOf(focus, shape, k, value)
         /\ r.component = k /\ r.focus = focus /\ r.shape = shape.node /\ r.path = shape.path
<1>1. \E value \in {{}} \cup {{v} : v \in vals} : r = ResultOf(focus, shape, k, value)
  BY DEF ResultSet, Failing, Each
<1>2. PICK value : r = ResultOf(focus, shape, k, value)
  BY <1>1
<1>3. r.component = k /\ r.focus = focus /\ r.shape = shape.node /\ r.path = shape.path
  BY <1>2 DEF ResultOf
<1> QED BY <1>1, <1>3

\* The results of all twelve components are listed without repetition.
LEMMA AllResultsListed ==
  ASSUME NEW D, NEW focus, NEW shape, NEW vals, IsFiniteSet(vals)
  PROVE  Lists(EvaluateAllConstraints(D, focus, shape, vals), AllResults(D, focus, shape, vals))
<1> DEFINE seqs == [i \in DOMAIN Components |-> ResultsOf(D, focus, shape, vals, Components[i])]
           sets == [i \in 1..12 |-> ResultSet(D, focus, shape, vals, Components[i])]
<1>1. DOMAIN seqs = 1..12 /\ Len(seqs) = 12
  BY ComponentsAre
<1>2. \A i \in 1..12 : Lists(seqs[i], sets[i])
  BY ComponentsAre, ResultsOfLists
<1>3. \A i, j \in 1..12 : i # j => sets[i] \cap sets[j] = {}
  <2> SUFFICES ASSUME NEW i \in 1..12, NEW j \in 1..12, i # j, NEW r \in sets[i], r \in sets[j] PROVE FALSE
    BY Zenon
  <2>1. r.component = Components[i] /\ r.component = Components[j]
    BY ResultSetMembers
  <2> QED BY <2>1, ComponentsAre
<1>4. EvaluateAllConstraints(D, focus, shape, vals) = FlattenSeq(seqs)
  BY DEF EvaluateAllConstraints
<1>5. AllResults(D, focus, shape, vals) = UNION {sets[i] : i \in 1..12}
  BY DEF AllResults
<1> HIDE DEF seqs, sets
<1>6. ListsApart(seqs, sets)
  BY <1>1, <1>2, <1>3 DEF ListsApart
<1>7. Lists(FlattenSeq(seqs), UNION {sets[i] : i \in 1..Len(seqs)})
  BY <1>6, FlattenLists
<1> QED BY <1>1, <1>4, <1>5, <1>7

\* They are violations.
LEMMA AllResultsTyped ==
  ASSUME NEW D, NEW focus \in Subjects, NEW shape, shape.node \in Subjects, shape.path \in Terms,
         NEW vals \in SUBSET Terms
  PROVE  AllResults(D, focus, shape, vals) \subseteq Violations
<1> SUFFICES ASSUME NEW i \in 1..12, NEW r \in ResultSet(D, focus, shape, vals, Components[i])
             PROVE  r \in Violations
  BY DEF AllResults
<1>1. PICK value \in {{}} \cup {{v} : v \in vals} : r = ResultOf(focus, shape, Components[i], value)
  BY ResultSetMembers
<1>2. value \in {{}} \cup {{v} : v \in Terms}
  OBVIOUS
<1>3. Components[i] \in Range(Components)
  BY ComponentsAre
<1> QED BY <1>1, <1>2, <1>3 DEF ResultOf, Violations

-----------------------------------------------------------------------------
(* Steps of one connection leave what the others know alone.               *)

\* Every variable of the connections is a function on them.
Functions ==
  /\ program = [c \in Conns |-> program[c]] /\ call = [c \in Conns |-> call[c]]
  /\ pc = [c \in Conns |-> pc[c]]
  /\ shapes = [c \in Conns |-> shapes[c]] /\ targets = [c \in Conns |-> targets[c]]
  /\ pairs = [c \in Conns |-> pairs[c]] /\ path = [c \in Conns |-> path[c]]
  /\ values = [c \in Conns |-> values[c]] /\ violations = [c \in Conns |-> violations[c]]
  /\ doomed = [c \in Conns |-> doomed[c]] /\ block = [c \in Conns |-> block[c]]
  /\ line = [c \in Conns |-> line[c]] /\ given = [c \in Conns |-> given[c]]
  /\ status = [c \in Conns |-> status[c]] /\ result = [c \in Conns |-> result[c]]
  /\ base = [c \in Conns |-> base[c]] /\ quiet = [c \in Conns |-> quiet[c]]
  /\ wrote = [c \in Conns |-> wrote[c]] /\ erased = [c \in Conns |-> erased[c]]

SameReading(d) ==
  /\ shapes'[d] = shapes[d] /\ targets'[d] = targets[d] /\ pairs'[d] = pairs[d]
  /\ path'[d] = path[d] /\ values'[d] = values[d]

\* All of a connection's variables but quiet.
Same(d) ==
  /\ program'[d] = program[d] /\ call'[d] = call[d] /\ pc'[d] = pc[d]
  /\ SameReading(d)
  /\ violations'[d] = violations[d] /\ doomed'[d] = doomed[d]
  /\ block'[d] = block[d] /\ line'[d] = line[d] /\ given'[d] = given[d]
  /\ status'[d] = status[d] /\ result'[d] = result[d] /\ base'[d] = base[d]
  /\ wrote'[d] = wrote[d] /\ erased'[d] = erased[d]

\* And quiet: it says whether the store has changed.
Hushed(c) ==
  /\ quiet' \in [Conns -> BOOLEAN]
  /\ store' = store \/ \A d \in Conns \ {c} : ~quiet'[d]
  /\ \A d \in Conns \ {c} : quiet'[d] => quiet[d]

Framed(c) ==
  /\ Functions'
  /\ Hushed(c)
  /\ \A d \in Conns \ {c} : Same(d)

Quiets == quiet \in [Conns -> BOOLEAN]

\* Begin moves one connection.
LEMMA BeginFrame ==
  ASSUME Functions, Quiets, NEW c \in Conns, Begin(c) PROVE Framed(c)
BY DEF Functions, Quiets, Begin, Framed, Hushed, Same, SameReading, Return, Fail, Goto, reading

\* Change moves one connection, and ends the quiet of the others.
LEMMA ChangeFrame ==
  ASSUME Functions, Quiets, NEW c \in Conns, Change(c) PROVE Framed(c)
<1>1. PICK inserts, removes : Write(c, inserts, removes)
  BY DEF Change
<1> QED
  BY <1>1 DEF Functions, Quiets, Change, Write, Framed, Hushed, Same, SameReading, Return, Goto, reading, writing

\* EnumerateShapes moves one connection.
LEMMA EnumerateFrame ==
  ASSUME Functions, Quiets, NEW c \in Conns, EnumerateShapes(c) PROVE Framed(c)
BY DEF Functions, Quiets, EnumerateShapes, Onto, ReadOnly, history, Framed, Hushed, Same, SameReading, Goto, writing

\* ResolveTargets moves one connection.
LEMMA ResolveFrame ==
  ASSUME Functions, Quiets, NEW c \in Conns, ResolveTargets(c) PROVE Framed(c)
BY DEF Functions, Quiets, ResolveTargets, ReadOnly, history, Framed, Hushed, Same, SameReading, Goto, writing

\* ReadPropertyShapes moves one connection.
LEMMA ReadPropertiesFrame ==
  ASSUME Functions, Quiets, NEW c \in Conns, ReadPropertyShapes(c) PROVE Framed(c)
BY DEF Functions, Quiets, ReadPropertyShapes, Onto, ReadOnly, history, Framed, Hushed, Same, SameReading, Goto, writing

\* A failure moves one connection.
LEMMA FailsFrame ==
  ASSUME Functions, Quiets, NEW c \in Conns,
         PropertyShapesRefused(c) \/ PathRefused(c) \/ CheckAborts(c) \/ ProvenanceRefused(c)
  PROVE  Framed(c)
BY DEF Functions, Quiets, PropertyShapesRefused, PathRefused, CheckAborts, ProvenanceRefused, Fail, Return,
       ReadOnly, history, Framed, Hushed, Same, SameReading, Goto, reading, writing

\* Parse moves one connection.
LEMMA ParseFrame ==
  ASSUME Functions, Quiets, NEW c \in Conns, Parse(c) PROVE Framed(c)
BY DEF Functions, Quiets, Parse, ReadOnly, history, Framed, Hushed, Same, SameReading, Goto, writing

\* An overflow of the stack changes no connection: the process is gone.
LEMMA OverflowFrame ==
  ASSUME Functions, Quiets, NEW c \in Conns, PathOverflows(c) \/ UNCHANGED vars PROVE Framed(c) /\ Same(c)
BY DEF Functions, Quiets, PathOverflows, vars, locals, reading, writing, history, Framed, Hushed, Same, SameReading

\* Evaluate moves one connection.
LEMMA EvaluateFrame ==
  ASSUME Functions, Quiets, NEW c \in Conns, Evaluate(c) PROVE Framed(c)
BY DEF Functions, Quiets, Evaluate, ReadOnly, history, Framed, Hushed, Same, SameReading, Goto, writing

\* CheckConstraints moves one connection.
LEMMA CheckFrame ==
  ASSUME Functions, Quiets, NEW c \in Conns, CheckConstraints(c) PROVE Framed(c)
BY DEF Functions, Quiets, CheckConstraints, Onto, ReadOnly, history, Framed, Hushed, Same, SameReading, Goto, writing

\* CollectReport moves one connection.
LEMMA CollectFrame ==
  ASSUME Functions, Quiets, NEW c \in Conns, CollectReport(c) PROVE Framed(c)
BY DEF Functions, Quiets, CollectReport, ReadOnly, history, Framed, Hushed, Same, SameReading, Goto, reading

\* RemoveQuad moves one connection, and ends the quiet of the others.
LEMMA RemoveFrame ==
  ASSUME Functions, Quiets, NEW c \in Conns, RemoveQuad(c) PROVE Framed(c)
BY DEF Functions, Quiets, RemoveQuad, Write, Framed, Hushed, Same, SameReading, reading

\* ReportCleared moves one connection.
LEMMA ClearedFrame ==
  ASSUME Functions, Quiets, NEW c \in Conns, ReportCleared(c) PROVE Framed(c)
BY DEF Functions, Quiets, ReportCleared, ReadOnly, history, Framed, Hushed, Same, SameReading, Goto, reading

\* EmitLine moves one connection, and ends the quiet of the others.
LEMMA EmitFrame ==
  ASSUME Functions, Quiets, NEW c \in Conns, EmitLine(c) PROVE Framed(c)
BY DEF Functions, Quiets, EmitLine, Write, Framed, Hushed, Same, SameReading, reading

\* NextResult moves one connection.
LEMMA NextResultFrame ==
  ASSUME Functions, Quiets, NEW c \in Conns, NextResult(c) PROVE Framed(c)
BY DEF Functions, Quiets, NextResult, ReadOnly, history, Framed, Hushed, Same, SameReading, reading

\* EmitDone moves one connection.
LEMMA DoneFrame ==
  ASSUME Functions, Quiets, NEW c \in Conns, EmitDone(c) PROVE Framed(c)
BY DEF Functions, Quiets, EmitDone, Return, ReadOnly, history, Framed, Hushed, Same, SameReading, Goto, reading, writing

-----------------------------------------------------------------------------
(* Types.                                                                  *)

Parameters == Range(Components) \cup {"sh:flags"}
PropertyShape ==
  [node : Subjects, path : Terms, params : [Parameters -> (SUBSET Terms) \cup SUBSET SUBSET Terms]]

\* What a connection's variables hold.
Typed(c) ==
  /\ program[c] \in Seq(Calls) /\ call[c] \in Calls /\ pc[c] \in Stages
  /\ shapes[c] \in Seq(Subjects)
  /\ targets[c] \in SUBSET Subjects /\ IsFiniteSet(targets[c])
  /\ pairs[c] \in Seq(Subjects \X PropertyShape)
  /\ values[c] \in SUBSET Terms /\ IsFiniteSet(values[c])
  /\ violations[c] \in Seq(Violations)
  /\ doomed[c] \in SUBSET Quads
  /\ block[c] \in Nat /\ line[c] \in Nat /\ given[c] \in Nat
  /\ status[c] \in {"none", "ok", "error"} /\ result[c] \in Nat
  /\ base[c] \in SUBSET Quads /\ IsFiniteSet(base[c])
  /\ wrote[c] \in SUBSET Quads /\ erased[c] \in SUBSET Quads

\* What is known of a connection by where it is.
Placed(c) ==
  /\ pc[c] \in {"targets", "properties"} => shapes[c] # << >>
  /\ pc[c] \in {"parse", "evaluate", "constraints"} => pairs[c] # << >>
  /\ pc[c] \in {"evaluate", "constraints"} => IsSyntax(path[c])
  /\ pc[c] \notin {"idle", "change"} =>
       call[c].op = "validate" /\ {call[c].data, call[c].shapes, call[c].report} \subseteq Graphs
  /\ pc[c] = "change" => call[c].op \in {"insert", "remove"}
  /\ pc[c] = "emit" =>
       /\ given[c] + 1 + Len(violations[c]) <= MaxNodes
       /\ block[c] <= Len(violations[c])
       /\ block[c] > 0 => ProvenanceParses(c)

Global ==
  /\ Functions /\ Quiets
  /\ store \in SUBSET Quads /\ IsFiniteSet(store)
  /\ alive \in BOOLEAN

TypeInv == Global /\ \A c \in Conns : Typed(c) /\ Placed(c)

\* The invariant holds the types.
LEMMA TypeInvImplies == ASSUME TypeInv PROVE TypeOK
<1> USE DEF TypeInv, Global, Functions, Quiets
<1>1. /\ pc \in [Conns -> Stages] /\ program \in [Conns -> Seq(Calls)] /\ call \in [Conns -> Calls]
      /\ shapes \in [Conns -> Seq(Subjects)] /\ targets \in [Conns -> SUBSET Subjects]
  BY DEF Typed
<1>2. /\ values \in [Conns -> SUBSET Terms] /\ violations \in [Conns -> Seq(Violations)]
      /\ doomed \in [Conns -> SUBSET Quads]
      /\ block \in [Conns -> Nat] /\ line \in [Conns -> Nat] /\ given \in [Conns -> Nat]
  BY DEF Typed
<1>3. /\ status \in [Conns -> {"none", "ok", "error"}] /\ result \in [Conns -> Nat]
      /\ base \in [Conns -> SUBSET Quads] /\ quiet \in [Conns -> BOOLEAN]
      /\ wrote \in [Conns -> SUBSET Quads] /\ erased \in [Conns -> SUBSET Quads]
  BY DEF Typed
<1>4. ASSUME NEW c \in Conns, NEW i \in DOMAIN pairs[c]
      PROVE  /\ pairs[c][i][1] \in Subjects
             /\ pairs[c][i][2].node \in Subjects /\ pairs[c][i][2].path \in Terms
  <2>1. pairs[c] \in Seq(Subjects \X PropertyShape)
    BY DEF Typed
  <2>2. pairs[c][i] \in Subjects \X PropertyShape
    BY <2>1
  <2> QED BY <2>2 DEF PropertyShape
<1>5. ASSUME NEW c \in Conns, pc[c] = "evaluate"
      PROVE  /\ DOMAIN path[c] \subseteq Blanks
             /\ \A t \in DOMAIN path[c] : path[c][t] \in [op : PathOps, parts : Seq(Terms)]
  BY <1>5 DEF Placed, IsSyntax, PathNodes
<1> QED BY <1>1, <1>2, <1>3, <1>4, <1>5 DEF TypeOK

-----------------------------------------------------------------------------
(* What a call reads is typed.                                             *)

\* A graph of the store is a finite set of triples.
LEMMA InTyped ==
  ASSUME NEW S \in SUBSET Quads, IsFiniteSet(S), NEW g
  PROVE  In(S, g) \in SUBSET Triples /\ IsFiniteSet(In(S, g))
<1>1. In(S, g) \in SUBSET Triples
  BY DEF In, Quads, Triples
<1>2. IsFiniteSet({r \in S : r[4] = g})
  BY FS_Subset
<1>3. [q \in {r \in S : r[4] = g} |-> <<q[1], q[2], q[3]>>] \in Surjection({r \in S : r[4] = g}, In(S, g))
  BY DEF Surjection, In
<1> QED BY <1>1, <1>2, <1>3, FS_Surjection

\* The shapes of a graph are finitely many subjects.
LEMMA ShapesInTyped ==
  ASSUME NEW S \in SUBSET Triples, IsFiniteSet(S)
  PROVE  ShapesIn(S) \in SUBSET Subjects /\ IsFiniteSet(ShapesIn(S))
<1>1. ShapesIn(S) \subseteq {t[1] : t \in S}
  BY DEF ShapesIn
<1>2. IsFiniteSet(ShapesIn(S))
  BY <1>1, NodesFinite, FS_Subset
<1>3. ShapesIn(S) \subseteq Subjects
  BY DEF ShapesIn, Triples
<1> QED BY <1>2, <1>3

\* So are the focus nodes of a shape.
LEMMA TargetsTyped ==
  ASSUME NEW S \in SUBSET Triples, IsFiniteSet(S), NEW D \in SUBSET Triples, IsFiniteSet(D), NEW shape
  PROVE  Targets(S, D, shape) \in SUBSET Subjects /\ IsFiniteSet(Targets(S, D, shape))
<1>1. Targets(S, D, shape) \subseteq Nodes(S) \cup Nodes(D)
  BY DEF Targets, Onward, Objects, Nodes
<1>2. IsFiniteSet(Nodes(S) \cup Nodes(D))
  BY NodesFinite, FS_Union
<1>3. IsFiniteSet(Targets(S, D, shape))
  BY <1>1, <1>2, FS_Subset
<1> QED BY <1>3 DEF Targets, Onward

\* A parameter is a set of terms, that of sh:in a set of such sets.
LEMMA ParamsTyped ==
  ASSUME NEW S \in SUBSET Triples, IsFiniteSet(S), NEW n
  PROVE  ReadParams(S, n) \in [Parameters -> (SUBSET Terms) \cup SUBSET SUBSET Terms]
<1>1. \A k \in Parameters : LookupObject(S, n, k) \in SUBSET Terms
  BY LookupFound, ObjectsTyped
<1>2. \A head \in LookupObject(S, n, "sh:in") : Range(WalkList(S, head).items) \in SUBSET Terms
  <2> SUFFICES ASSUME NEW head \in LookupObject(S, n, "sh:in")
               PROVE  Range(WalkList(S, head).items) \in SUBSET Terms
    OBVIOUS
  <2>1. head \in Terms
    BY LookupFound, ObjectsTyped
  <2>2. WalkList(S, head).items \in Seq(Terms)
    BY <2>1, WalkListTyped DEF Walks
  <2> QED BY <2>2, RangeOfSeq
<1>3. {Range(WalkList(S, head).items) : head \in LookupObject(S, n, "sh:in")} \in SUBSET SUBSET Terms
  BY <1>2
<1> DEFINE members == {Range(WalkList(S, head).items) : head \in LookupObject(S, n, "sh:in")}
           p == [k \in Parameters |-> IF k = "sh:in" THEN members ELSE LookupObject(S, n, k)]
<1>4. ReadParams(S, n) = p
  BY DEF ReadParams, Parameters
<1> HIDE DEF members
<1>5. p \in [Parameters -> (SUBSET Terms) \cup SUBSET SUBSET Terms]
  <2>1. members \in SUBSET SUBSET Terms
    BY <1>3 DEF members
  <2> DEFINE A == SUBSET Terms
             B == SUBSET SUBSET Terms
             v(k) == IF k = "sh:in" THEN members ELSE LookupObject(S, n, k)
  <2>2. \A k \in Parameters : LookupObject(S, n, k) \in A
    BY <1>1
  <2> HIDE DEF A, B
  <2>3. members \in B
    BY <2>1 DEF B
  <2>4. \A k \in Parameters : v(k) \in A \cup B
    BY <2>2, <2>3
  <2>5. p = [k \in Parameters |-> v(k)]
    OBVIOUS
  <2> HIDE DEF v, p
  <2>6. p \in [Parameters -> A \cup B]
    BY <2>4, <2>5
  <2> QED BY <2>6 DEF A, B
<1> QED BY <1>4, <1>5

\* Property shapes that can be read have a path and parameters.
LEMMA PropertyShapesTyped ==
  ASSUME NEW S \in SUBSET Triples, IsFiniteSet(S), NEW shape, PropertiesReadable(S, shape)
  PROVE  PropertyShapes(S, shape) \in SUBSET PropertyShape /\ IsFiniteSet(PropertyShapes(S, shape))
<1> DEFINE N == PropertyNodes(S, shape)
           made(n) == [node |-> n, path |-> Only(LookupObject(S, n, "sh:path")), params |-> ReadParams(S, n)]
<1>1. N \subseteq Nodes(S) /\ N \subseteq Subjects
  BY DEF PropertyNodes, Onward, Objects, Nodes
<1>2. IsFiniteSet(N)
  <2> HIDE DEF N
  <2> QED BY <1>1, NodesFinite, FS_Subset
<1>3. [n \in N |-> made(n)] \in Surjection(N, PropertyShapes(S, shape))
  BY DEF Surjection, PropertyShapes
<1>4. IsFiniteSet(PropertyShapes(S, shape))
  <2> HIDE DEF N, made
  <2> QED BY <1>2, <1>3, FS_Surjection
<1>5. \A n \in N : Only(LookupObject(S, n, "sh:path")) \in Terms
  BY LookupFound, ObjectsTyped, OnlyMember DEF PropertiesReadable
<1>6. \A n \in N : made(n) \in PropertyShape
  BY <1>1, <1>5, ParamsTyped DEF PropertyShape
<1> QED BY <1>4, <1>6 DEF PropertyShapes

-----------------------------------------------------------------------------
(* Every step keeps what is typed.                                         *)

TypedStep(c) == Typed(c)' /\ Placed(c)' /\ store' \in SUBSET Quads /\ IsFiniteSet(store') /\ alive' \in BOOLEAN

\* A connection that does not move keeps its types.
LEMMA SameTyped ==
  ASSUME NEW d, Typed(d), Placed(d), Same(d) PROVE Typed(d)' /\ Placed(d)'
BY DEF Typed, Placed, Same, SameReading, ProvenanceParses

\* Begin keeps the types.
LEMMA BeginTyped ==
  ASSUME TypeInv, NEW c \in Conns, Begin(c) PROVE TypedStep(c)
<1> USE DEF TypeInv, Global, Functions
<1> DEFINE k == Head(program[c])
<1>1. program[c] \in Seq(Calls) /\ program[c] # << >>
  BY DEF Begin, Typed
<1>2. k \in Calls /\ Tail(program[c]) \in Seq(Calls)
  BY <1>1, HeadTailProperties
<1>3. program'[c] \in Seq(Calls) /\ call'[c] = k
  BY <1>2 DEF Begin
<1> HIDE DEF k
<1>4. Len(violations[c]) \in Nat /\ given[c] \in Nat
  BY DEF Typed
<1>5. /\ violations'[c] = << >> /\ given'[c] \in Nat
      /\ base'[c] = store /\ wrote'[c] = {} /\ erased'[c] = {}
      /\ doomed' = doomed /\ block' = block /\ line' = line /\ store' = store /\ alive' = alive
      /\ SameReading(c)
  BY <1>4 DEF Begin, reading, SameReading
<1>6. /\ pc'[c] \in {"idle", "shapes", "change"}
      /\ pc'[c] = "shapes" => k.op = "validate" /\ Malformed \notin {k.data, k.shapes, k.report}
      /\ pc'[c] = "change" => k.op # "validate"
      /\ status'[c] \in {"none", "ok", "error"} /\ result'[c] \in Nat
  BY DEF Begin, k, Return, Fail, Goto
<1>7. Typed(c)'
  <2>1. << >> \in Seq(Violations)
    BY EmptySeq
  <2>2. Typed(c) /\ store \in SUBSET Quads /\ IsFiniteSet(store)
    OBVIOUS
  <2> QED BY <1>2, <1>3, <1>5, <1>6, <2>1, <2>2 DEF Typed, Stages, SameReading
<1>8. /\ pc'[c] = "shapes" => {k.data, k.shapes, k.report} \subseteq Graphs
      /\ pc'[c] = "change" => k.op \in {"insert", "remove"}
  BY <1>2, <1>6 DEF Calls
<1>9. Placed(c)'
  BY <1>3, <1>6, <1>8 DEF Placed
<1> QED BY <1>5, <1>7, <1>9 DEF TypedStep

\* Change keeps the types.
LEMMA ChangeTyped ==
  ASSUME TypeInv, NEW c \in Conns, Change(c) PROVE TypedStep(c)
<1> USE DEF TypeInv, Global, Functions
<1>1. call[c].op \in {"insert", "remove"} /\ call[c] \in Calls
  BY DEF Typed, Placed, Change, Running
<1>2. call[c].quad \in Quads
  BY <1>1 DEF Calls
<1>3. PICK inserts \in SUBSET {call[c].quad}, removes \in SUBSET {call[c].quad} : Write(c, inserts, removes)
  BY DEF Change
<1>4. IsFiniteSet(inserts)
  <2>1. IsFiniteSet({call[c].quad})
    BY FS_Singleton
  <2> QED BY <2>1, FS_Subset
<1>5. store' = (store \ removes) \cup inserts
  BY <1>3 DEF Write
<1>6. IsFiniteSet(store')
  BY <1>4, <1>5, FS_Subset, FS_Union
<1>7. store' \in SUBSET Quads
  BY <1>2, <1>5
<1>8. wrote'[c] \in SUBSET Quads /\ erased'[c] \in SUBSET Quads /\ base' = base
  BY <1>2, <1>3 DEF Write, Typed
<1>9. /\ pc'[c] = "idle" /\ status'[c] = "ok" /\ result'[c] = 1
      /\ program' = program /\ call' = call /\ SameReading(c) /\ violations' = violations
      /\ doomed' = doomed /\ block' = block /\ line' = line /\ given' = given /\ alive' = alive
  BY DEF Change, Return, Goto, reading, writing, SameReading
<1>10. Typed(c)'
  BY <1>8, <1>9 DEF Typed, Stages, SameReading
<1>11. Placed(c)'
  BY <1>9 DEF Placed
<1> QED BY <1>6, <1>7, <1>9, <1>10, <1>11 DEF TypedStep

\* What a call past its first step reads.
LEMMA GraphsTyped ==
  ASSUME TypeInv, NEW c \in Conns
  PROVE  /\ Data(c) \in SUBSET Triples /\ IsFiniteSet(Data(c))
         /\ Shapes(c) \in SUBSET Triples /\ IsFiniteSet(Shapes(c))
BY InTyped DEF TypeInv, Global, Data, Shapes

\* Steps that only read.
Reading(c) ==
  /\ store' = store /\ alive' = alive
  /\ program' = program /\ call' = call
  /\ given' = given
  /\ base' = base /\ wrote' = wrote /\ erased' = erased

\* Steps before the clearing: they go on within the stages.
LEMMA EnumerateTyped ==
  ASSUME TypeInv, NEW c \in Conns, EnumerateShapes(c) PROVE TypedStep(c)
<1> USE DEF TypeInv, Global, Functions
<1> DEFINE list == Listed(ShapesIn(Shapes(c)))
<1>1. list \in Seq(Subjects)
  <2>1. ShapesIn(Shapes(c)) \in SUBSET Subjects /\ IsFiniteSet(ShapesIn(Shapes(c)))
    BY GraphsTyped, ShapesInTyped
  <2>2. list \in Seq(ShapesIn(Shapes(c)))
    BY <2>1, ListedLists DEF Lists
  <2> QED BY <2>1, <2>2, SeqMonotonic
<1>2. Onto(c, list, << >>) /\ pc[c] = "shapes"
  BY DEF EnumerateShapes, Running
<1> HIDE DEF list
<1>3. /\ shapes'[c] = list /\ pairs'[c] = << >>
      /\ pc'[c] \in {"targets", "clear"} /\ (pc'[c] = "targets" => list # << >>)
  BY <1>2 DEF Onto, Goto
<1>4. /\ targets' = targets /\ path' = path /\ values' = values /\ violations' = violations
      /\ doomed' = doomed /\ block' = block /\ line' = line
      /\ status' = status /\ result' = result /\ Reading(c)
  BY DEF EnumerateShapes, ReadOnly, history, writing, Reading
<1>5. << >> \in Seq(Subjects \X PropertyShape)
  BY EmptySeq
<1>6. Typed(c)'
  BY <1>1, <1>3, <1>4, <1>5 DEF Typed, Stages, Reading
<1>7. Placed(c)'
  BY <1>2, <1>3, <1>4 DEF Placed, Reading
<1> QED BY <1>4, <1>6, <1>7 DEF TypedStep, Reading

\* ResolveTargets keeps the types: focus nodes are no literals.
LEMMA ResolveTyped ==
  ASSUME TypeInv, NEW c \in Conns, ResolveTargets(c) PROVE TypedStep(c)
<1> USE DEF TypeInv, Global, Functions
<1> DEFINE found == Targets(Shapes(c), Data(c), Head(shapes[c]))
<1>1. found \in SUBSET Subjects /\ IsFiniteSet(found)
  BY GraphsTyped, TargetsTyped
<1>2. targets'[c] = found /\ pc'[c] = "properties" /\ pc[c] = "targets"
  BY DEF ResolveTargets, Goto, Running
<1> HIDE DEF found
<1>3. /\ shapes' = shapes /\ pairs' = pairs /\ path' = path /\ values' = values /\ violations' = violations
      /\ doomed' = doomed /\ block' = block /\ line' = line
      /\ status' = status /\ result' = result /\ Reading(c)
  BY DEF ResolveTargets, ReadOnly, history, writing, Reading
<1>4. Typed(c)'
  BY <1>1, <1>2, <1>3 DEF Typed, Stages, Reading
<1>5. Placed(c)'
  BY <1>2, <1>3 DEF Placed, Reading
<1> QED BY <1>3, <1>4, <1>5 DEF TypedStep, Reading

\* ReadPropertyShapes keeps the types.
LEMMA ReadPropertiesTyped ==
  ASSUME TypeInv, NEW c \in Conns, ReadPropertyShapes(c) PROVE TypedStep(c)
<1> USE DEF TypeInv, Global, Functions
<1> DEFINE all == targets[c] \X PropertyShapes(Shapes(c), Head(shapes[c]))
           list == Listed(all)
           left == Tail(shapes[c])
<1>1. list \in Seq(Subjects \X PropertyShape)
  <2> DEFINE P == PropertyShapes(Shapes(c), Head(shapes[c]))
  <2>1. P \in SUBSET PropertyShape /\ IsFiniteSet(P)
    BY GraphsTyped, PropertyShapesTyped DEF ReadPropertyShapes
  <2>2. targets[c] \in SUBSET Subjects /\ IsFiniteSet(targets[c])
    BY DEF Typed
  <2>3. IsFiniteSet(all) /\ all \subseteq Subjects \X PropertyShape
    <3> HIDE DEF P
    <3>1. IsFiniteSet(targets[c] \X P)
      BY <2>1, <2>2, FS_Product
    <3> QED BY <3>1, <2>1, <2>2 DEF P
  <2> HIDE DEF all, P
  <2>4. list \in Seq(all)
    BY <2>3, ListedLists DEF Lists
  <2> QED BY <2>3, <2>4, SeqMonotonic
<1>2. Onto(c, left, list) /\ pc[c] = "properties"
  BY DEF ReadPropertyShapes, Running
<1>3. left \in Seq(Subjects)
  <2>1. shapes[c] \in Seq(Subjects) /\ shapes[c] # << >>
    BY <1>2 DEF Typed, Placed
  <2> QED BY <2>1, HeadTailProperties
<1> HIDE DEF list, all, left
<1>4. /\ shapes'[c] = left /\ pairs'[c] = list
      /\ pc'[c] \in {"parse", "targets", "clear"}
      /\ (pc'[c] = "targets" => left # << >>) /\ (pc'[c] = "parse" => list # << >>)
  BY <1>2 DEF Onto, Goto
<1>5. /\ targets' = targets /\ path' = path /\ values' = values /\ violations' = violations
      /\ doomed' = doomed /\ block' = block /\ line' = line
      /\ status' = status /\ result' = result /\ Reading(c)
  BY DEF ReadPropertyShapes, ReadOnly, history, writing, Reading
<1>6. Typed(c)'
  BY <1>1, <1>3, <1>4, <1>5 DEF Typed, Stages, Reading
<1>7. Placed(c)'
  BY <1>2, <1>4, <1>5 DEF Placed, Reading
<1> QED BY <1>5, <1>6, <1>7 DEF TypedStep, Reading

\* A failure keeps the types.
LEMMA FailsTyped ==
  ASSUME TypeInv, NEW c \in Conns,
         PropertyShapesRefused(c) \/ PathRefused(c) \/ CheckAborts(c) \/ ProvenanceRefused(c)
  PROVE  TypedStep(c)
<1> USE DEF TypeInv, Global, Functions
<1>1. /\ SameReading(c) /\ violations' = violations
      /\ doomed' = doomed /\ block' = block /\ line' = line
      /\ pc'[c] = "idle" /\ status'[c] = "error" /\ result'[c] = 0 /\ Reading(c)
  BY DEF PropertyShapesRefused, PathRefused, CheckAborts, ProvenanceRefused, Fail, Return, Goto,
         ReadOnly, history, writing, reading, Reading, SameReading
<1>2. Typed(c)'
  BY <1>1 DEF Typed, Stages, Reading, SameReading
<1>3. Placed(c)'
  BY <1>1 DEF Placed
<1> QED BY <1>1, <1>2, <1>3 DEF TypedStep, Reading

\* Parse keeps the types: what it leaves is a syntax table.
LEMMA ParseTyped ==
  ASSUME TypeInv, NEW c \in Conns, Parse(c) PROVE TypedStep(c)
<1> USE DEF TypeInv, Global, Functions
<1>1. IsSyntax(Syntax(Shapes(c)))
  BY GraphsTyped, SyntaxTyped
<1>2. path'[c] = Syntax(Shapes(c)) /\ pc'[c] = "evaluate" /\ pc[c] = "parse"
  BY DEF Parse, Goto, Running
<1>3. /\ shapes' = shapes /\ pairs' = pairs /\ targets' = targets /\ values' = values /\ violations' = violations
      /\ doomed' = doomed /\ block' = block /\ line' = line
      /\ status' = status /\ result' = result /\ Reading(c)
  BY DEF Parse, ReadOnly, history, writing, Reading
<1>4. Typed(c)'
  BY <1>2, <1>3 DEF Typed, Stages, Reading
<1>5. Placed(c)'
  BY <1>1, <1>2, <1>3 DEF Placed, Reading
<1> QED BY <1>3, <1>4, <1>5 DEF TypedStep, Reading

\* The pair a call is at.
LEMMA HeadPair ==
  ASSUME TypeInv, NEW c \in Conns, pc[c] \in {"parse", "evaluate", "constraints"}
  PROVE  /\ Head(pairs[c]) \in Subjects \X PropertyShape
         /\ Head(pairs[c])[1] \in Subjects
         /\ Head(pairs[c])[2].node \in Subjects /\ Head(pairs[c])[2].path \in Terms
         /\ Tail(pairs[c]) \in Seq(Subjects \X PropertyShape)
<1>1. pairs[c] \in Seq(Subjects \X PropertyShape) /\ pairs[c] # << >>
  BY DEF TypeInv, Typed, Placed
<1>2. Head(pairs[c]) \in Subjects \X PropertyShape /\ Tail(pairs[c]) \in Seq(Subjects \X PropertyShape)
  BY <1>1, HeadTailProperties
<1> QED BY <1>2 DEF PropertyShape

\* Evaluate keeps the types: the values are terms.
LEMMA EvaluateTyped ==
  ASSUME TypeInv, NEW c \in Conns, Evaluate(c) PROVE TypedStep(c)
<1> USE DEF TypeInv, Global, Functions
<1> DEFINE found == EvaluatePath(path[c], Head(pairs[c])[2].path, Data(c), Head(pairs[c])[1])
<1>1. pc[c] = "evaluate"
  BY DEF Evaluate, Running
<1>2. found \in SUBSET Terms /\ IsFiniteSet(found)
  <2>1. IsSyntax(path[c])
    BY <1>1 DEF Placed
  <2> QED BY <1>1, <2>1, HeadPair, GraphsTyped, EvaluatePathTyped
<1>3. values'[c] = found /\ pc'[c] = "constraints"
  BY DEF Evaluate, Goto
<1> HIDE DEF found
<1>4. /\ shapes' = shapes /\ pairs' = pairs /\ targets' = targets /\ path' = path /\ violations' = violations
      /\ doomed' = doomed /\ block' = block /\ line' = line
      /\ status' = status /\ result' = result /\ Reading(c)
  BY DEF Evaluate, ReadOnly, history, writing, Reading
<1>5. Typed(c)'
  BY <1>2, <1>3, <1>4 DEF Typed, Stages, Reading
<1>6. Placed(c)'
  BY <1>1, <1>3, <1>4 DEF Placed, Reading
<1> QED BY <1>4, <1>5, <1>6 DEF TypedStep, Reading

\* What the constraints add is a list of violations.
LEMMA NewViolationsListed ==
  ASSUME TypeInv, NEW c \in Conns, pc[c] = "constraints"
  PROVE  LET all == AllResults(Data(c), Head(pairs[c])[1], Head(pairs[c])[2], values[c])
         IN  Lists(NewViolations(c), all) /\ all \subseteq Violations /\ NewViolations(c) \in Seq(Violations)
<1> DEFINE all == AllResults(Data(c), Head(pairs[c])[1], Head(pairs[c])[2], values[c])
<1>1. values[c] \in SUBSET Terms /\ IsFiniteSet(values[c])
  BY DEF TypeInv, Typed
<1>2. Lists(NewViolations(c), all)
  BY <1>1, AllResultsListed DEF NewViolations
<1>3. all \subseteq Violations
  BY <1>1, HeadPair, AllResultsTyped
<1> HIDE DEF all
<1>4. NewViolations(c) \in Seq(Violations)
  BY <1>2, <1>3, SeqMonotonic DEF Lists
<1> QED BY <1>2, <1>3, <1>4 DEF all

\* CheckConstraints keeps the types.
LEMMA CheckTyped ==
  ASSUME TypeInv, NEW c \in Conns, CheckConstraints(c) PROVE TypedStep(c)
<1> USE DEF TypeInv, Global, Functions
<1>1. pc[c] = "constraints" /\ Onto(c, shapes[c], Tail(pairs[c]))
  BY DEF CheckConstraints, Running
<1>2. NewViolations(c) \in Seq(Violations)
  BY <1>1, NewViolationsListed
<1>3. violations'[c] = violations[c] \o NewViolations(c)
  BY DEF CheckConstraints
<1>4. violations'[c] \in Seq(Violations)
  BY <1>2, <1>3, ConcatProperties DEF Typed
<1>5. Tail(pairs[c]) \in Seq(Subjects \X PropertyShape)
  BY <1>1, HeadPair
<1>6. /\ shapes'[c] = shapes[c] /\ pairs'[c] = Tail(pairs[c])
      /\ pc'[c] \in {"parse", "targets", "clear"}
      /\ (pc'[c] = "targets" => shapes[c] # << >>) /\ (pc'[c] = "parse" => Tail(pairs[c]) # << >>)
  BY <1>1 DEF Onto, Goto
<1>7. /\ targets' = targets /\ path' = path /\ values' = values
      /\ doomed' = doomed /\ block' = block /\ line' = line
      /\ status' = status /\ result' = result /\ Reading(c)
  BY DEF CheckConstraints, ReadOnly, history, writing, Reading
<1>8. Typed(c)'
  BY <1>4, <1>5, <1>6, <1>7 DEF Typed, Stages, Reading
<1>9. Placed(c)'
  BY <1>1, <1>6, <1>7 DEF Placed, Reading
<1> QED BY <1>7, <1>8, <1>9 DEF TypedStep, Reading

-----------------------------------------------------------------------------
\* CollectReport keeps the types: there are nodes enough for the report.
LEMMA CollectTyped ==
  ASSUME TypeInv, NEW c \in Conns, CollectReport(c) PROVE TypedStep(c)
<1> USE DEF TypeInv, Global, Functions
<1>1. /\ pc[c] = "clear" /\ pc'[c] = "remove"
      /\ doomed'[c] = {q \in store : q[4] = call[c].report}
      /\ SameReading(c) /\ violations' = violations /\ block' = block /\ line' = line
      /\ status' = status /\ result' = result /\ Reading(c)
  BY DEF CollectReport, Running, Goto, ReadOnly, history, reading, SameReading, Reading
<1>2. doomed'[c] \in SUBSET Quads
  BY <1>1
<1>3. Typed(c)'
  BY <1>1, <1>2 DEF Typed, Stages, Reading, SameReading
<1>4. Placed(c)'
  BY <1>1 DEF Placed, Reading
<1> QED BY <1>1, <1>3, <1>4 DEF TypedStep, Reading

\* RemoveQuad keeps the types.
LEMMA RemoveTyped ==
  ASSUME TypeInv, NEW c \in Conns, RemoveQuad(c) PROVE TypedStep(c)
<1> USE DEF TypeInv, Global, Functions
<1>1. PICK q \in doomed[c] : Write(c, {}, {q}) /\ doomed' = [doomed EXCEPT ![c] = @ \ {q}]
  BY DEF RemoveQuad
<1>2. q \in Quads /\ doomed'[c] \in SUBSET Quads
  BY <1>1 DEF Typed
<1>3. /\ store' = store \ {q} /\ base' = base
      /\ wrote'[c] \in SUBSET Quads /\ erased'[c] \in SUBSET Quads
  BY <1>1, <1>2 DEF Write, Typed
<1>4. IsFiniteSet(store') /\ store' \in SUBSET Quads
  BY <1>3, FS_Subset
<1>5. /\ pc[c] = "remove" /\ pc' = pc /\ program' = program /\ call' = call
      /\ SameReading(c) /\ violations' = violations /\ block' = block /\ line' = line /\ given' = given
      /\ status' = status /\ result' = result /\ alive' = alive
  BY DEF RemoveQuad, Running, reading, SameReading
<1>6. Typed(c)'
  BY <1>2, <1>3, <1>5 DEF Typed, SameReading
<1>7. Placed(c)'
  BY <1>5 DEF Placed
<1> QED BY <1>4, <1>5, <1>6, <1>7 DEF TypedStep

\* ReportCleared keeps the types.
LEMMA ClearedTyped ==
  ASSUME TypeInv, NEW c \in Conns, ReportCleared(c) PROVE TypedStep(c)
<1> USE DEF TypeInv, Global, Functions
<1>1. /\ pc[c] = "remove" /\ pc'[c] = "emit"
      /\ given[c] + 1 + Len(violations[c]) <= MaxNodes
      /\ block'[c] = 0 /\ line'[c] = 1
      /\ SameReading(c) /\ violations' = violations /\ doomed' = doomed
      /\ status' = status /\ result' = result /\ Reading(c)
  BY DEF ReportCleared, Running, Goto, ReadOnly, history, reading, SameReading, Reading
<1>2. Typed(c)'
  BY <1>1 DEF Typed, Stages, Reading, SameReading
<1>3. Len(violations[c]) \in Nat
  BY DEF Typed
<1>4. Placed(c)'
  BY <1>1, <1>3 DEF Placed, Reading
<1> QED BY <1>1, <1>2, <1>4 DEF TypedStep, Reading

\* NextResult keeps the types.
LEMMA NextResultTyped ==
  ASSUME TypeInv, NEW c \in Conns, NextResult(c) PROVE TypedStep(c)
<1> USE DEF TypeInv, Global, Functions
<1>1. /\ pc[c] = "emit" /\ pc' = pc /\ ProvenanceParses(c)
      /\ block[c] < Len(violations[c])
      /\ block'[c] = block[c] + 1 /\ line'[c] = 1
      /\ SameReading(c) /\ violations' = violations /\ doomed' = doomed
      /\ status' = status /\ result' = result /\ Reading(c)
  BY DEF NextResult, BlockWritten, Running, ReadOnly, history, reading, SameReading, Reading
<1>2. Typed(c)'
  BY <1>1 DEF Typed, Reading, SameReading
<1>3. Len(violations[c]) \in Nat /\ block[c] \in Nat
  BY DEF Typed
<1>4. Placed(c)'
  BY <1>1, <1>3 DEF Placed, Reading, ProvenanceParses
<1> QED BY <1>1, <1>2, <1>4 DEF TypedStep, Reading

\* EmitDone keeps the types.
LEMMA DoneTyped ==
  ASSUME TypeInv, NEW c \in Conns, EmitDone(c) PROVE TypedStep(c)
<1> USE DEF TypeInv, Global, Functions
<1>1. /\ SameReading(c) /\ violations' = violations
      /\ doomed' = doomed /\ block' = block /\ line' = line
      /\ pc'[c] = "idle" /\ status'[c] = "ok" /\ result'[c] = Len(violations[c]) /\ Reading(c)
  BY DEF EmitDone, Return, Goto, ReadOnly, history, writing, reading, Reading, SameReading
<1>2. Len(violations[c]) \in Nat
  BY DEF Typed
<1>3. Typed(c)'
  BY <1>1, <1>2 DEF Typed, Stages, Reading, SameReading
<1>4. Placed(c)'
  BY <1>1 DEF Placed
<1> QED BY <1>1, <1>3, <1>4 DEF TypedStep, Reading

-----------------------------------------------------------------------------
(* The lines of a report.                                                  *)

\* Result i of a call, as a set.
Said(c, i) ==
  LET v == violations[c][i]
      n == ResultNode(c, i)
      g == call[c].report
  IN  {<<ReportNode(c), "sh:result", n, g>>, <<n, "rdf:type", "sh:ValidationResult", g>>,
       <<n, "sh:focusNode", v.focus, g>>, <<n, "sh:resultPath", v.path, g>>}
      \cup (IF v.value = {} THEN {} ELSE {<<n, "sh:value", Only(v.value), g>>})
      \cup {<<n, "sh:sourceShape", ShapeIri(v.shape), g>>,
            <<n, "sh:sourceConstraintComponent", v.component, g>>,
            <<n, "sh:resultSeverity", "sh:Violation", g>>, <<n, "sh:resultMessage", "message", g>>}
      \cup (IF call[c].provenance THEN {<<n, call[c].by, ShapeIri(v.shape), g>>, <<n, call[c].at, "now", g>>}
            ELSE {})

Header(c) ==
  {<<ReportNode(c), "rdf:type", "sh:ValidationReport", call[c].report>>,
   <<ReportNode(c), "sh:conforms", IF violations[c] = << >> THEN "true" ELSE "false", call[c].report>>}

BlockSet(c, i) == IF i = 0 THEN Header(c) ELSE Said(c, i)

\* The ranges of short tuples.
LEMMA ShortRanges ==
  /\ Range(<< >>) = {}
  /\ \A a : Range(<<a>>) = {a}
  /\ \A a, b : Range(<<a, b>>) = {a, b}
  /\ \A a, b, c, d : Range(<<a, b, c, d>>) = {a, b, c, d}
<1>1. /\ DOMAIN << >> = {}
      /\ \A a : DOMAIN <<a>> = 1..1
      /\ \A a, b : DOMAIN <<a, b>> = 1..2
      /\ \A a, b, c, d : DOMAIN <<a, b, c, d>> = 1..4
  OBVIOUS
<1>2. 1..1 = {1} /\ 1..2 = {1, 2} /\ 1..4 = {1, 2, 3, 4}
  OBVIOUS
<1>3. Range(<< >>) = {} /\ \A a : Range(<<a>>) = {a}
  BY <1>1, <1>2 DEF Range
<1>4. \A a, b : Range(<<a, b>>) = {a, b}
  BY <1>1, <1>2 DEF Range
<1>5. \A a, b, c, d : Range(<<a, b, c, d>>) = {a, b, c, d}
  <2> SUFFICES ASSUME NEW a, NEW b, NEW c, NEW d PROVE Range(<<a, b, c, d>>) = {a, b, c, d}
    OBVIOUS
  <2> DEFINE s == <<a, b, c, d>>
  <2>1. Range(s) = {s[1], s[2], s[3], s[4]}
    BY <1>1, <1>2 DEF Range
  <2> QED BY <2>1
<1> QED BY <1>3, <1>4, <1>5

\* Short tuples are sequences.
LEMMA ShortSeqs ==
  ASSUME NEW S
  PROVE  /\ << >> \in Seq(S)
         /\ \A a \in S : <<a>> \in Seq(S)
         /\ \A a, b \in S : <<a, b>> \in Seq(S)
         /\ \A a, b, c, d \in S : <<a, b, c, d>> \in Seq(S)
  OBVIOUS

\* Four sequences, one after the other.
LEMMA FourConcat ==
  ASSUME NEW S, NEW a \in Seq(S), NEW b \in Seq(S), NEW c \in Seq(S), NEW d \in Seq(S)
  PROVE  /\ a \o b \o c \o d \in Seq(S)
         /\ Range(a \o b \o c \o d) = Range(a) \cup Range(b) \cup Range(c) \cup Range(d)
<1>0. \A s, t \in Seq(S) : s \o t \in Seq(S) /\ Range(s \o t) = Range(s) \cup Range(t)
  BY ConcatProperties, RangeConcatenation
<1>1. a \o b \in Seq(S) /\ Range(a \o b) = Range(a) \cup Range(b)
  BY <1>0
<1>2. a \o b \o c \in Seq(S) /\ Range(a \o b \o c) = Range(a \o b) \cup Range(c)
  BY <1>0, <1>1
<1>3. a \o b \o c \o d \in Seq(S) /\ Range(a \o b \o c \o d) = Range(a \o b \o c) \cup Range(d)
  BY <1>0, <1>2
<1> QED BY <1>1, <1>2, <1>3

\* The lines of a block are those of its set.
LEMMA BlockLinesAre ==
  ASSUME NEW c, NEW i
  PROVE  /\ BlockLines(c, i) \in Seq(BlockSet(c, i))
         /\ Range(BlockLines(c, i)) = BlockSet(c, i)
<1>1. CASE i = 0
  <2>1. HeaderLines(c) \in Seq(Header(c))
    BY ShortSeqs DEF HeaderLines, Header
  <2>2. Range(HeaderLines(c)) = Header(c)
    BY ShortRanges DEF HeaderLines, Header
  <2> QED BY <1>1, <2>1, <2>2 DEF BlockLines, BlockSet
<1>2. CASE i # 0
  <2> DEFINE v == violations[c][i]
             n == ResultNode(c, i)
             g == call[c].report
             l1 == <<ReportNode(c), "sh:result", n, g>>
             l2 == <<n, "rdf:type", "sh:ValidationResult", g>>
             l3 == <<n, "sh:focusNode", v.focus, g>>
             l4 == <<n, "sh:resultPath", v.path, g>>
             l5 == <<n, "sh:value", Only(v.value), g>>
             l6 == <<n, "sh:sourceShape", ShapeIri(v.shape), g>>
             l7 == <<n, "sh:sourceConstraintComponent", v.component, g>>
             l8 == <<n, "sh:resultSeverity", "sh:Violation", g>>
             l9 == <<n, "sh:resultMessage", "message", g>>
             l10 == <<n, call[c].by, ShapeIri(v.shape), g>>
             l11 == <<n, call[c].at, "now", g>>
             first == <<l1, l2, l3, l4>>
             value == IF v.value = {} THEN << >> ELSE <<l5>>
             last  == <<l6, l7, l8, l9>>
             extra == IF call[c].provenance THEN <<l10, l11>> ELSE << >>
             R == BlockSet(c, i)
             V == IF v.value = {} THEN {} ELSE {l5}
             X == IF call[c].provenance THEN {l10, l11} ELSE {}
  <2>1. BlockLines(c, i) = first \o value \o last \o extra
    BY <1>2 DEF BlockLines, ResultLines
  <2>2. R = {l1, l2, l3, l4} \cup V \cup {l6, l7, l8, l9} \cup X
    BY <1>2 DEF BlockSet, Said
  <2> HIDE DEF l1, l2, l3, l4, l5, l6, l7, l8, l9, l10, l11, R
  <2>3. Range(first) = {l1, l2, l3, l4} /\ Range(last) = {l6, l7, l8, l9}
    BY ShortRanges
  <2>4. Range(value) = V /\ Range(extra) = X
    BY ShortRanges
  <2>5. first \in Seq(R) /\ last \in Seq(R)
    BY <2>2, ShortSeqs
  <2>6. value \in Seq(R) /\ extra \in Seq(R)
    BY <2>2, ShortSeqs
  <2> HIDE DEF first, value, last, extra, V, X
  <2>7. /\ BlockLines(c, i) \in Seq(R)
        /\ Range(BlockLines(c, i)) = Range(first) \cup Range(value) \cup Range(last) \cup Range(extra)
    BY ONLY <2>1, <2>5, <2>6, FourConcat
  <2>8. Range(BlockLines(c, i)) = R
    BY ONLY <2>2, <2>3, <2>4, <2>7
  <2> QED BY <2>7, <2>8 DEF R
<1> QED BY <1>1, <1>2

\* A line of a block is one of its set, and the other way round.
LEMMA BlockLine ==
  ASSUME NEW c, NEW i
  PROVE  /\ DOMAIN BlockLines(c, i) = 1..Len(BlockLines(c, i)) /\ Len(BlockLines(c, i)) \in Nat
         /\ \A j \in DOMAIN BlockLines(c, i) : BlockLines(c, i)[j] \in BlockSet(c, i)
         /\ BlockSet(c, i) = {BlockLines(c, i)[j] : j \in 1..Len(BlockLines(c, i))}
         /\ \A q \in BlockSet(c, i) : q[4] = call[c].report
<1>1. /\ BlockLines(c, i) \in Seq(BlockSet(c, i))
      /\ Range(BlockLines(c, i)) = BlockSet(c, i)
  BY BlockLinesAre
<1>2. DOMAIN BlockLines(c, i) = 1..Len(BlockLines(c, i)) /\ Len(BlockLines(c, i)) \in Nat
  BY <1>1, LenProperties
<1>3. BlockSet(c, i) = {BlockLines(c, i)[j] : j \in 1..Len(BlockLines(c, i))}
  BY <1>1, <1>2 DEF Range
<1>4. \A q \in BlockSet(c, i) : q[4] = call[c].report
  BY DEF BlockSet, Header, Said
<1> QED BY <1>1, <1>2, <1>3, <1>4

\* The nodes a report is made of.
LEMMA ReportNodes ==
  ASSUME NEW c \in Conns, given[c] \in Nat, NEW m \in Nat, given[c] + 1 + m <= MaxNodes
  PROVE  /\ ReportNode(c) \in Blanks
         /\ \A i \in 1..m : ResultNode(c, i) \in Blanks /\ ResultNode(c, i) # ReportNode(c)
         /\ \A i, j \in 1..m : ResultNode(c, i) = ResultNode(c, j) => i = j
<1>1. given[c] + 1 \in 1..MaxNodes /\ \A i \in 1..m : given[c] + 1 + i \in 1..MaxNodes
  BY NodesTyped
<1>2. /\ Fresh[c] \in [1..MaxNodes -> Blanks]
      /\ \A i, j \in 1..MaxNodes : Fresh[c][i] = Fresh[c][j] => i = j
  BY NodesTyped
<1>3. \A i \in 1..m : given[c] + 1 + i # given[c] + 1
  OBVIOUS
<1>4. \A i, j \in 1..m : given[c] + 1 + i = given[c] + 1 + j => i = j
  OBVIOUS
<1> QED BY <1>1, <1>2, <1>3, <1>4 DEF ReportNode, ResultNode

\* A shape is named by an IRI in the report.
LEMMA ShapeIriTyped == ASSUME NEW n PROVE ShapeIri(n) \in Iris
BY NodesTyped, ReportVocabularyTerms, KindsApart DEF ShapeIri, ReportVocabulary

\* The lines of a block are quads.
LEMMA BlockTyped ==
  ASSUME TypeInv, NEW c \in Conns, pc[c] = "emit"
  PROVE  BlockSet(c, block[c]) \subseteq Quads
<1> DEFINE m == Len(violations[c])
           i == block[c]
           g == call[c].report
<1>1. m \in Nat /\ i \in 0..m /\ g \in Graphs /\ given[c] \in Nat /\ given[c] + 1 + m <= MaxNodes
  BY DEF TypeInv, Typed, Placed
<1>2. ReportNode(c) \in Blanks /\ \A j \in 1..m : ResultNode(c, j) \in Blanks
  BY <1>1, ReportNodes
<1>3. Blanks \subseteq Subjects /\ Blanks \subseteq Terms /\ Iris \subseteq Terms /\ Literals \subseteq Terms
      /\ Subjects \subseteq Terms
  BY DEF Subjects, Terms
<1>4. /\ "rdf:type" \in Iris /\ ReportVocabulary \subseteq Iris /\ Range(Components) \subseteq Iris
      /\ {"true", "false", "now", "message"} \subseteq Literals
  BY VocabularyIris, ReportVocabularyTerms DEF Vocabulary
<1>5. {"sh:ValidationReport", "sh:conforms", "sh:result", "sh:ValidationResult", "sh:focusNode",
       "sh:resultPath", "sh:value", "sh:sourceShape", "sh:sourceConstraintComponent",
       "sh:resultSeverity", "sh:Violation", "sh:resultMessage"} \subseteq Iris
  BY <1>4 DEF ReportVocabulary
<1>6. CASE i = 0
  <2>1. Header(c) \subseteq Quads
    BY <1>1, <1>2, <1>3, <1>4, <1>5 DEF Header, Quads
  <2> QED BY <1>6, <2>1 DEF BlockSet
<1>7. CASE i # 0
  <2> DEFINE v == violations[c][i]
             n == ResultNode(c, i)
  <2>1. i \in 1..m
    BY <1>1, <1>7
  <2>2. n \in Subjects /\ n \in Terms /\ ReportNode(c) \in Subjects
    BY <1>2, <1>3, <2>1
  <2>3. v \in Violations
    BY <2>1 DEF TypeInv, Typed
  <2>4. v.focus \in Terms /\ v.path \in Terms /\ v.component \in Terms
    BY <2>3, <1>3, <1>4 DEF Violations
  <2>5. v.value # {} => Only(v.value) \in Terms
    <3>1. v.value \in {{}} \cup {{u} : u \in Terms}
      BY <2>3 DEF Violations
    <3> QED BY <3>1, OnlyOne
  <2>6. ShapeIri(v.shape) \in Iris /\ ShapeIri(v.shape) \in Terms
    BY ShapeIriTyped, <1>3
  <2>7. call[c].provenance => call[c].by \in Iris /\ call[c].at \in Iris
    <3>1. i > 0
      BY <1>1, <1>7
    <3>2. ProvenanceParses(c) /\ call[c] \in Calls /\ call[c].op = "validate"
      BY <3>1 DEF TypeInv, Typed, Placed
    <3> QED BY <3>2 DEF Calls, ProvenanceParses
  <2> HIDE DEF v, n, i
  <2>8. {<<ReportNode(c), "sh:result", n, g>>, <<n, "rdf:type", "sh:ValidationResult", g>>,
         <<n, "sh:focusNode", v.focus, g>>, <<n, "sh:resultPath", v.path, g>>} \subseteq Quads
    BY <1>1, <1>3, <1>4, <1>5, <2>2, <2>4 DEF Quads
  <2>9. v.value # {} => <<n, "sh:value", Only(v.value), g>> \in Quads
    BY <1>1, <1>5, <2>2, <2>5 DEF Quads
  <2>10. {<<n, "sh:sourceShape", ShapeIri(v.shape), g>>,
          <<n, "sh:sourceConstraintComponent", v.component, g>>,
          <<n, "sh:resultSeverity", "sh:Violation", g>>, <<n, "sh:resultMessage", "message", g>>} \subseteq Quads
    BY <1>1, <1>3, <1>4, <1>5, <2>2, <2>4, <2>6 DEF Quads
  <2>11. call[c].provenance =>
           <<n, call[c].by, ShapeIri(v.shape), g>> \in Quads /\ <<n, call[c].at, "now", g>> \in Quads
    BY <1>1, <1>3, <1>4, <2>2, <2>6, <2>7 DEF Quads
  <2>12. BlockSet(c, block[c]) = Said(c, i)
    BY <1>7 DEF BlockSet, i
  <2> QED BY <2>8, <2>9, <2>10, <2>11, <2>12 DEF Said, v, n
<1> QED BY <1>6, <1>7

\* EmitLine keeps the types: a line is a quad.
LEMMA EmitTyped ==
  ASSUME TypeInv, NEW c \in Conns, EmitLine(c) PROVE TypedStep(c)
<1> USE DEF TypeInv, Global, Functions
<1> DEFINE l == BlockLines(c, block[c])[line[c]]
<1>1. pc[c] = "emit" /\ line[c] \in DOMAIN BlockLines(c, block[c]) /\ Write(c, {l}, {})
  BY DEF EmitLine, Running
<1>2. l \in Quads
  BY <1>1, BlockLine, BlockTyped
<1> HIDE DEF l
<1>3. /\ store' = store \cup {l} /\ base' = base
      /\ wrote'[c] \in SUBSET Quads /\ erased'[c] \in SUBSET Quads
  BY <1>1, <1>2 DEF Write, Typed
<1>4. IsFiniteSet(store') /\ store' \in SUBSET Quads
  BY <1>2, <1>3, FS_AddElement
<1>5. /\ pc' = pc /\ program' = program /\ call' = call
      /\ SameReading(c) /\ violations' = violations /\ block' = block /\ given' = given
      /\ line'[c] = line[c] + 1
      /\ doomed' = doomed /\ status' = status /\ result' = result /\ alive' = alive
  BY DEF EmitLine, Running, reading, SameReading
<1>6. Typed(c)'
  BY <1>3, <1>5 DEF Typed, SameReading
<1>7. Placed(c)'
  BY <1>5 DEF Placed, SameReading, ProvenanceParses
<1> QED BY <1>4, <1>5, <1>6, <1>7 DEF TypedStep

-----------------------------------------------------------------------------
\* A step of a connection.
Steps(c) ==
  \/ Begin(c) \/ Change(c) \/ EnumerateShapes(c) \/ ResolveTargets(c) \/ ReadPropertyShapes(c)
  \/ PropertyShapesRefused(c) \/ PathRefused(c) \/ CheckAborts(c) \/ ProvenanceRefused(c)
  \/ Parse(c) \/ Evaluate(c) \/ CheckConstraints(c)
  \/ CollectReport(c) \/ RemoveQuad(c) \/ ReportCleared(c)
  \/ EmitLine(c) \/ NextResult(c) \/ EmitDone(c)

\* Every step of a connection leaves the others where they are.
LEMMA StepFrames ==
  ASSUME Functions, Quiets, NEW c \in Conns, Steps(c) PROVE Framed(c)
BY BeginFrame, ChangeFrame, EnumerateFrame, ResolveFrame, ReadPropertiesFrame, FailsFrame, ParseFrame,
   EvaluateFrame, CheckFrame, CollectFrame, RemoveFrame, ClearedFrame, EmitFrame, NextResultFrame, DoneFrame
   DEF Steps

\* Every step of a connection keeps its types.
LEMMA StepTypes ==
  ASSUME TypeInv, NEW c \in Conns, Steps(c) PROVE TypedStep(c)
BY BeginTyped, ChangeTyped, EnumerateTyped, ResolveTyped, ReadPropertiesTyped, FailsTyped, ParseTyped,
   EvaluateTyped, CheckTyped, CollectTyped, RemoveTyped, ClearedTyped, EmitTyped, NextResultTyped, DoneTyped
   DEF Steps

\* A step is one of a connection, an overflow or none.
LEMMA NextSteps ==
  ASSUME [Next]_vars
  PROVE  \/ \E c \in Conns : Steps(c)
         \/ \E c \in Conns : PathOverflows(c)
         \/ UNCHANGED vars
BY DEF Next, Steps

\* Every step keeps the types.
LEMMA TypeInvStep ==
  ASSUME TypeInv, [Next]_vars PROVE TypeInv'
<1>0. Functions /\ Quiets
  BY DEF TypeInv, Global
<1>1. ASSUME NEW c \in Conns, Steps(c) PROVE TypeInv'
  <2>1. Framed(c) /\ TypedStep(c)
    BY <1>0, <1>1, StepFrames, StepTypes
  <2>2. \A d \in Conns \ {c} : Typed(d)' /\ Placed(d)'
    BY <2>1, SameTyped DEF Framed, TypeInv
  <2> QED BY <2>1, <2>2 DEF TypeInv, Global, Framed, Hushed, TypedStep, Quiets
<1>2. ASSUME NEW c \in Conns, PathOverflows(c) PROVE TypeInv'
  <2>1. Framed(c) /\ Same(c)
    BY <1>0, <1>2, OverflowFrame
  <2>2. \A d \in Conns : Typed(d)' /\ Placed(d)'
    BY <2>1, SameTyped DEF Framed, TypeInv
  <2>3. store' = store /\ alive' \in BOOLEAN
    BY <1>2 DEF PathOverflows
  <2> QED BY <2>1, <2>2, <2>3 DEF TypeInv, Global, Framed, Hushed, Quiets
<1>3. CASE UNCHANGED vars
  <2>1. store' = store /\ alive' = alive
    BY <1>3 DEF vars
  <2>2. Functions' /\ Quiets'
    BY <1>0, <1>3 DEF vars, locals, reading, writing, history, Functions, Quiets
  <2>3. \A d \in Conns : Same(d)
    BY <1>3 DEF vars, locals, reading, writing, history, Same, SameReading
  <2>4. \A d \in Conns : Typed(d)' /\ Placed(d)'
    BY <2>3, SameTyped DEF TypeInv
  <2> QED BY <2>1, <2>2, <2>4 DEF TypeInv, Global
<1> QED BY <1>1, <1>2, <1>3, NextSteps

\* They hold at the start.
LEMMA TypeInvInit == ASSUME Init PROVE TypeInv
<1>1. PICK w \in Workloads : store = w.store /\ program = w.program
  BY DEF Init
<1>2. store \in SUBSET Quads /\ IsFiniteSet(store) /\ program \in [Conns -> Seq(Calls)]
  BY <1>1, WorkloadsTyped
<1>3. Functions /\ Quiets
  BY <1>2 DEF Init, Functions, Quiets
<1>4. NoCall \in Calls
  BY DEF NoCall, Calls
<1>5. << >> \in Seq(Subjects) /\ << >> \in Seq(Violations) /\ << >> \in Seq(Subjects \X PropertyShape)
  BY EmptySeq
<1>6. ASSUME NEW c \in Conns PROVE Typed(c)
  BY <1>2, <1>4, <1>5, FS_EmptySet DEF Init, Typed, Stages
<1>7. ASSUME NEW c \in Conns PROVE Placed(c)
  BY DEF Init, Placed
<1> QED BY <1>2, <1>3, <1>6, <1>7 DEF TypeInv, Global, Init

\* Every variable has its type: paths and lists of shapes graphs that fork and
\* circle are read into finite trees, the values of a path are nodes of the
\* data graph, and every line written is a quad of the report graph.
THEOREM Typing == Spec => []TypeOK
<1>1. Init => TypeInv
  BY TypeInvInit
<1>2. TypeInv /\ [Next]_vars => TypeInv'
  BY TypeInvStep
<1>3. TypeInv => TypeOK
  BY TypeInvImplies
<1> QED BY <1>1, <1>2, <1>3, PTL DEF Spec

\* The call has changed nothing so far.
Untouched(c) == wrote[c] = {} /\ erased[c] = {}

Before == {"shapes", "targets", "properties", "parse", "evaluate", "constraints", "clear"}

Domains ==
  /\ pc \in [Conns -> Stages]
  /\ DOMAIN status = Conns /\ DOMAIN result = Conns /\ DOMAIN call = Conns
  /\ DOMAIN wrote = Conns /\ DOMAIN erased = Conns /\ DOMAIN doomed = Conns
  /\ block \in [Conns -> Nat] /\ DOMAIN line = Conns
  /\ DOMAIN violations = Conns /\ DOMAIN given = Conns

\* What is known of a connection by where it is.
StageInv(c) ==
  /\ pc[c] \notin {"idle", "change"} => call[c].op = "validate"
  /\ pc[c] = "change" => call[c].op # "validate"
  /\ pc[c] # "idle" => status[c] = "none"
  /\ pc[c] = "change" => Untouched(c)
  /\ pc[c] \in Before => Untouched(c)
  /\ pc[c] = "remove" => wrote[c] = {} /\ \A q \in doomed[c] : q[4] = call[c].report
  /\ pc[c] = "emit" /\ block[c] = 0 =>
       line[c] \in 1..3 /\ wrote[c] = {HeaderLines(c)[j] : j \in 1..(line[c] - 1)}

OnlyReport(c) ==
  call[c].op = "validate" => \A q \in wrote[c] \cup erased[c] : q[4] = call[c].report

FailureInv(c) ==
  status[c] = "error" =>
    \/ Untouched(c)
    \/ ~ProvenanceParses(c) /\ wrote[c] = Range(HeaderLines(c))

ReportInv ==
  /\ Domains
  /\ \A c \in Conns : StageInv(c) /\ OnlyReport(c) /\ FailureInv(c)

\* The invariant says what a failing call leaves.
LEMMA ReportInvImplies == ReportInv => FailuresKeepTheReport
  BY DEF ReportInv, OnlyReport, FailureInv, FailuresKeepTheReport, Untouched

\* The header has two lines, both in the report graph.
LEMMA HeaderTwo ==
  ASSUME NEW c PROVE /\ DOMAIN HeaderLines(c) = 1..2
                     /\ \A j \in 1..2 : HeaderLines(c)[j][4] = call[c].report
                     /\ Range(HeaderLines(c)) = {HeaderLines(c)[j] : j \in 1..2}
  BY DEF HeaderLines, Range

\* Every line of the report is in the report graph.
LEMMA LinesInReport ==
  ASSUME NEW c, NEW i, NEW j \in DOMAIN BlockLines(c, i)
  PROVE  BlockLines(c, i)[j][4] = call[c].report
BY BlockLine

-----------------------------------------------------------------------------
(* A connection that does not move.                                        *)

Still(d) ==
  /\ pc'[d] = pc[d] /\ status'[d] = status[d] /\ call'[d] = call[d]
  /\ wrote'[d] = wrote[d] /\ erased'[d] = erased[d] /\ doomed'[d] = doomed[d]
  /\ block'[d] = block[d] /\ line'[d] = line[d]
  /\ violations'[d] = violations[d] /\ given'[d] = given[d]

Holds(d) == StageInv(d) /\ OnlyReport(d) /\ FailureInv(d)

\* A connection that does not move keeps its part of the invariant.
LEMMA StillHolds ==
  ASSUME NEW d, Holds(d), Still(d) PROVE Holds(d)'
<1>1. HeaderLines(d)' = HeaderLines(d)
  BY DEF Still, HeaderLines, ReportNode
<1>2. StageInv(d)'
  BY <1>1 DEF Still, Holds, StageInv, Untouched
<1>3. OnlyReport(d)'
  BY DEF Still, Holds, OnlyReport
<1>4. FailureInv(d)'
  BY <1>1 DEF Still, Holds, FailureInv, Untouched, ProvenanceParses
<1>5. QED
  BY <1>2, <1>3, <1>4 DEF Holds

\* What a step of connection c has to establish.
Kept(c) ==
  /\ Domains'
  /\ Holds(c)'
  /\ \A d \in Conns \ {c} : Still(d)

\* Begin: nothing is written yet.
LEMMA BeginKeeps ==
  ASSUME ReportInv, NEW c \in Conns, Begin(c) PROVE Kept(c)
<1>1. /\ wrote'[c] = {} /\ erased'[c] = {}
      /\ \A d \in Conns \ {c} : Still(d)
      /\ Domains'
  BY DEF ReportInv, Domains, Begin, Still, Return, Fail, Goto, Stages
<1>2. \/ pc'[c] = "idle" /\ status'[c] = "error"
      \/ pc'[c] = "shapes" /\ call'[c].op = "validate" /\ status'[c] = "none"
      \/ pc'[c] = "change" /\ call'[c].op # "validate" /\ status'[c] = "none"
  BY DEF ReportInv, Domains, Begin, Return, Fail, Goto
<1>3. Holds(c)'
  BY <1>1, <1>2 DEF Holds, StageInv, OnlyReport, FailureInv, Untouched, Before
<1>4. QED
  BY <1>1, <1>3 DEF Kept

\* Change is another operation.
LEMMA ChangeKeeps ==
  ASSUME ReportInv, NEW c \in Conns, Change(c) PROVE Kept(c)
<1>1. /\ pc'[c] = "idle" /\ status'[c] = "ok" /\ call'[c].op # "validate"
      /\ \A d \in Conns \ {c} : Still(d)
      /\ Domains'
  BY DEF ReportInv, Domains, Change, Write, Still, Return, Goto, Stages, Running, StageInv,
         writing, reading
<1>2. Holds(c)'
  BY <1>1 DEF Holds, StageInv, OnlyReport, FailureInv, Before
<1>3. QED
  BY <1>1, <1>2 DEF Kept

\* The steps that read: they stay before the clearing, or fail there.
Reads(c) ==
  \/ EnumerateShapes(c) \/ ResolveTargets(c) \/ ReadPropertyShapes(c) \/ Parse(c)
  \/ Evaluate(c) \/ CheckConstraints(c)

\* A reading step writes nothing.
LEMMA ReadsKeep ==
  ASSUME ReportInv, NEW c \in Conns, Reads(c) PROVE Kept(c)
<1>1. /\ pc[c] \in Before
      /\ status' = status /\ call' = call /\ wrote' = wrote /\ erased' = erased
      /\ doomed' = doomed /\ block' = block /\ line' = line /\ given' = given
      /\ result' = result
  BY DEF Reads, EnumerateShapes, ResolveTargets, ReadPropertyShapes, Parse, Evaluate,
         CheckConstraints, ReadOnly, history, writing, Running, Before
<1>2. \E stage \in Before : pc' = [pc EXCEPT ![c] = stage]
  BY DEF Reads, EnumerateShapes, ResolveTargets, ReadPropertyShapes, Parse, Evaluate,
         CheckConstraints, Goto, Onto, Before
<1>3. DOMAIN violations' = Conns /\ \A d \in Conns \ {c} : violations'[d] = violations[d]
  BY DEF Reads, EnumerateShapes, ResolveTargets, ReadPropertyShapes, Parse, Evaluate,
         CheckConstraints, ReportInv, Domains
<1>4. Domains' /\ pc'[c] \in Before /\ \A d \in Conns \ {c} : Still(d)
  BY <1>1, <1>2, <1>3 DEF ReportInv, Domains, Still, Stages, Before
<1>5. Holds(c)'
  BY <1>1, <1>4 DEF ReportInv, Holds, StageInv, OnlyReport, FailureInv, Untouched, Before
<1>6. QED
  BY <1>4, <1>5 DEF Kept

Fails(c) == PropertyShapesRefused(c) \/ PathRefused(c) \/ CheckAborts(c)

\* A call that fails before it clears has written nothing.
LEMMA FailsKeep ==
  ASSUME ReportInv, NEW c \in Conns, Fails(c) PROVE Kept(c)
<1>1. /\ pc[c] \in Before
      /\ call' = call /\ wrote' = wrote /\ erased' = erased
      /\ doomed' = doomed /\ block' = block /\ line' = line /\ given' = given
      /\ violations' = violations
      /\ Return(c, "error", 0)
  BY DEF Fails, PropertyShapesRefused, PathRefused, CheckAborts, Fail, ReadOnly, history,
         writing, Running, Before
<1>2. Domains' /\ pc'[c] = "idle" /\ \A d \in Conns \ {c} : Still(d)
  BY <1>1 DEF ReportInv, Domains, Still, Stages, Return, Goto
<1>3. Untouched(c)'
  BY <1>1 DEF ReportInv, StageInv, Untouched
<1>4. Holds(c)'
  BY <1>1, <1>2, <1>3 DEF ReportInv, Holds, StageInv, OnlyReport, FailureInv, Untouched, Before
<1>5. QED
  BY <1>2, <1>4 DEF Kept

\* CollectReport marks quads of the report graph only.
LEMMA CollectReportKeeps ==
  ASSUME ReportInv, NEW c \in Conns, CollectReport(c) PROVE Kept(c)
<1>1. /\ pc[c] = "clear" /\ pc' = [pc EXCEPT ![c] = "remove"]
      /\ status' = status /\ call' = call /\ wrote' = wrote /\ erased' = erased
      /\ block' = block /\ line' = line /\ given' = given
      /\ result' = result /\ violations' = violations
      /\ doomed' = [doomed EXCEPT ![c] = {q \in store : q[4] = call[c].report}]
  BY DEF CollectReport, Running, ReadOnly, history, Goto
<1>2. Domains' /\ pc'[c] = "remove" /\ \A d \in Conns \ {c} : Still(d)
  BY <1>1 DEF ReportInv, Domains, Still, Stages
<1>3. \A q \in doomed'[c] : q[4] = call'[c].report
  BY <1>1 DEF ReportInv, Domains
<1>4. Holds(c)'
  BY <1>1, <1>2, <1>3 DEF ReportInv, Holds, StageInv, OnlyReport, FailureInv, Untouched, Before
<1>5. QED
  BY <1>2, <1>4 DEF Kept

\* RemoveQuad removes what was marked.
LEMMA RemoveQuadKeeps ==
  ASSUME ReportInv, NEW c \in Conns, RemoveQuad(c) PROVE Kept(c)
<1>1. /\ pc[c] = "remove" /\ pc' = pc
      /\ status' = status /\ call' = call
      /\ block' = block /\ line' = line /\ given' = given
      /\ result' = result /\ violations' = violations
  BY DEF RemoveQuad, Running
<1>2. PICK q \in doomed[c] :
        /\ wrote' = [wrote EXCEPT ![c] = @ \cup {}] /\ erased' = [erased EXCEPT ![c] = @ \cup {q}]
        /\ doomed' = [doomed EXCEPT ![c] = @ \ {q}]
  BY DEF RemoveQuad, Write
<1>3. Domains' /\ \A d \in Conns \ {c} : Still(d)
  BY <1>1, <1>2 DEF ReportInv, Domains, Still
<1>4. /\ wrote'[c] = wrote[c] /\ erased'[c] = erased[c] \cup {q} /\ doomed'[c] \subseteq doomed[c]
      /\ q[4] = call[c].report
  BY <1>1, <1>2 DEF ReportInv, Domains, StageInv
<1>5. Holds(c)'
  BY <1>1, <1>4 DEF ReportInv, Holds, StageInv, OnlyReport, FailureInv, Before
<1>6. QED
  BY <1>3, <1>5 DEF Kept

\* ReportCleared starts the header.
LEMMA ReportClearedKeeps ==
  ASSUME ReportInv, NEW c \in Conns, ReportCleared(c) PROVE Kept(c)
<1>1. /\ pc[c] = "remove" /\ pc' = [pc EXCEPT ![c] = "emit"]
      /\ status' = status /\ call' = call /\ wrote' = wrote /\ erased' = erased
      /\ block' = [block EXCEPT ![c] = 0] /\ line' = [line EXCEPT ![c] = 1]
      /\ given' = given /\ doomed' = doomed /\ result' = result /\ violations' = violations
  BY DEF ReportCleared, Running, ReadOnly, history, Goto
<1>2. /\ Domains' /\ pc'[c] = "emit" /\ block'[c] = 0 /\ line'[c] = 1
      /\ \A d \in Conns \ {c} : Still(d)
  BY <1>1 DEF ReportInv, Domains, Still, Stages
<1>3. wrote'[c] = {HeaderLines(c)'[j] : j \in 1..(line'[c] - 1)}
  BY <1>1, <1>2 DEF ReportInv, StageInv
<1>4. Holds(c)'
  BY <1>1, <1>2, <1>3 DEF ReportInv, Holds, StageInv, OnlyReport, FailureInv, Before
<1>5. QED
  BY <1>2, <1>4 DEF Kept

\* EmitLine writes to the report graph.
LEMMA EmitLineKeeps ==
  ASSUME ReportInv, NEW c \in Conns, EmitLine(c) PROVE Kept(c)
<1> DEFINE l == BlockLines(c, block[c])[line[c]]
<1>1. /\ pc[c] = "emit" /\ pc' = pc /\ line[c] \in DOMAIN BlockLines(c, block[c])
      /\ status' = status /\ call' = call /\ doomed' = doomed
      /\ block' = block /\ line' = [line EXCEPT ![c] = @ + 1] /\ given' = given
      /\ result' = result /\ violations' = violations
      /\ wrote' = [wrote EXCEPT ![c] = @ \cup {l}] /\ erased' = [erased EXCEPT ![c] = @ \cup {}]
  BY DEF EmitLine, Running, Write
<1>2. l[4] = call[c].report
  BY <1>1, LinesInReport
<1> HIDE DEF l
<1>3. /\ Domains' /\ \A d \in Conns \ {c} : Still(d)
      /\ wrote'[c] = wrote[c] \cup {l} /\ erased'[c] = erased[c] /\ line'[c] = line[c] + 1
  BY <1>1 DEF ReportInv, Domains, Still
<1>4. HeaderLines(c)' = HeaderLines(c)
  BY <1>1 DEF HeaderLines, ReportNode
<1>5. ASSUME block[c] = 0
      PROVE  line'[c] \in 1..3 /\ wrote'[c] = {HeaderLines(c)[j] : j \in 1..(line'[c] - 1)}
  <2>1. l = HeaderLines(c)[line[c]] /\ line[c] \in 1..2
    BY <1>1, <1>5, HeaderTwo DEF l, BlockLines
  <2>2. wrote[c] = {HeaderLines(c)[j] : j \in 1..(line[c] - 1)}
    BY <1>1, <1>5 DEF ReportInv, StageInv
  <2>3. 1..(line'[c] - 1) = 1..(line[c] - 1) \cup {line[c]}
    BY <1>3, <2>1
  <2>4. QED
    BY <1>3, <2>1, <2>2, <2>3
<1>6. Holds(c)'
  BY <1>1, <1>2, <1>3, <1>4, <1>5
     DEF ReportInv, Holds, StageInv, OnlyReport, FailureInv, Before
<1>7. QED
  BY <1>3, <1>6 DEF Kept

\* A malformed provenance IRI is found when the header is written.
LEMMA ProvenanceRefusedKeeps ==
  ASSUME ReportInv, NEW c \in Conns, ProvenanceRefused(c) PROVE Kept(c)
<1>1. /\ pc[c] = "emit" /\ block[c] = 0 /\ line[c] \notin DOMAIN HeaderLines(c)
      /\ ~ProvenanceParses(c)
      /\ call' = call /\ wrote' = wrote /\ erased' = erased
      /\ doomed' = doomed /\ block' = block /\ line' = line /\ given' = given
      /\ violations' = violations
      /\ Return(c, "error", 0)
  BY DEF ProvenanceRefused, BlockWritten, Running, BlockLines, Fail, ReadOnly, history, writing
<1>2. Domains' /\ pc'[c] = "idle" /\ \A d \in Conns \ {c} : Still(d)
  BY <1>1 DEF ReportInv, Domains, Still, Stages, Return, Goto
<1>3. HeaderLines(c)' = HeaderLines(c) /\ ~ProvenanceParses(c)'
  BY <1>1 DEF HeaderLines, ReportNode, ProvenanceParses
<1>4. wrote[c] = Range(HeaderLines(c))
  <2>1. line[c] \in 1..3 /\ wrote[c] = {HeaderLines(c)[j] : j \in 1..(line[c] - 1)}
    BY <1>1 DEF ReportInv, StageInv
  <2>2. line[c] = 3
    BY <1>1, <2>1, HeaderTwo
  <2>3. QED
    BY <2>1, <2>2, HeaderTwo
<1>5. Range(HeaderLines(c))' = Range(HeaderLines(c))
  BY <1>3
<1>6. Holds(c)'
  BY <1>1, <1>2, <1>3, <1>4, <1>5
     DEF ReportInv, Holds, StageInv, OnlyReport, FailureInv, Before
<1>7. QED
  BY <1>2, <1>6 DEF Kept

\* NextResult writes nothing.
LEMMA NextResultKeeps ==
  ASSUME ReportInv, NEW c \in Conns, NextResult(c) PROVE Kept(c)
<1>1. /\ pc[c] = "emit" /\ pc' = pc
      /\ status' = status /\ call' = call /\ wrote' = wrote /\ erased' = erased
      /\ block' = [block EXCEPT ![c] = @ + 1] /\ line' = [line EXCEPT ![c] = 1]
      /\ given' = given /\ doomed' = doomed /\ result' = result /\ violations' = violations
  BY DEF NextResult, BlockWritten, Running, ReadOnly, history
<1>2. /\ Domains' /\ block'[c] = block[c] + 1 /\ \A d \in Conns \ {c} : Still(d)
  BY <1>1 DEF ReportInv, Domains, Still
<1>3. block'[c] # 0
  BY <1>2 DEF ReportInv, Domains
<1>4. status[c] = "none" /\ call[c].op = "validate"
  BY <1>1 DEF ReportInv, StageInv
<1>5. StageInv(c)'
  BY <1>1, <1>3, <1>4 DEF StageInv, Before
<1>6. OnlyReport(c)' /\ FailureInv(c)'
  BY <1>1, <1>4 DEF ReportInv, OnlyReport, FailureInv
<1>7. QED
  BY <1>2, <1>5, <1>6 DEF Kept, Holds

\* EmitDone does not fail.
LEMMA EmitDoneKeeps ==
  ASSUME ReportInv, NEW c \in Conns, EmitDone(c) PROVE Kept(c)
<1>1. /\ pc[c] = "emit"
      /\ call' = call /\ wrote' = wrote /\ erased' = erased
      /\ block' = block /\ line' = line /\ doomed' = doomed /\ given' = given
      /\ violations' = violations
      /\ Return(c, "ok", Len(violations[c]))
  BY DEF EmitDone, BlockWritten, Running, ReadOnly, history, writing
<1>2. /\ Domains' /\ pc'[c] = "idle" /\ status'[c] = "ok" /\ \A d \in Conns \ {c} : Still(d)
  BY <1>1 DEF ReportInv, Domains, Still, Stages, Return, Goto
<1>3. Holds(c)'
  BY <1>1, <1>2 DEF ReportInv, Holds, StageInv, OnlyReport, FailureInv, Before
<1>4. QED
  BY <1>2, <1>3 DEF Kept

-----------------------------------------------------------------------------
\* Every step keeps the invariant.
LEMMA ReportInvStep ==
  ASSUME ReportInv, [Next]_vars PROVE ReportInv'
<1>1. CASE UNCHANGED vars
  <2>1. Domains'
    BY <1>1 DEF vars, locals, reading, writing, history, ReportInv, Domains
  <2>2. \A d \in Conns : Still(d)
    BY <1>1 DEF vars, locals, reading, writing, history, Still
  <2>3. QED
    BY <2>1, <2>2, StillHolds DEF ReportInv, Holds
<1>2. ASSUME NEW c \in Conns, PathOverflows(c) PROVE ReportInv'
  <2>1. Domains'
    BY <1>2 DEF PathOverflows, locals, reading, writing, history, ReportInv, Domains
  <2>2. \A d \in Conns : Still(d)
    BY <1>2 DEF PathOverflows, locals, reading, writing, history, Still
  <2>3. QED
    BY <2>1, <2>2, StillHolds DEF ReportInv, Holds
<1>3. ASSUME NEW c \in Conns, Kept(c) PROVE ReportInv'
  BY <1>3, StillHolds DEF Kept, ReportInv, Holds
<1>4. ASSUME NEW c \in Conns,
             \/ Begin(c) \/ Change(c) \/ Reads(c) \/ Fails(c)
             \/ CollectReport(c) \/ RemoveQuad(c) \/ ReportCleared(c)
             \/ EmitLine(c) \/ ProvenanceRefused(c) \/ NextResult(c) \/ EmitDone(c)
      PROVE  ReportInv'
  <2>1. Kept(c)
    BY <1>4, BeginKeeps, ChangeKeeps, ReadsKeep, FailsKeep, CollectReportKeeps, RemoveQuadKeeps,
       ReportClearedKeeps, EmitLineKeeps, ProvenanceRefusedKeeps, NextResultKeeps, EmitDoneKeeps
  <2>2. QED
    BY <1>3, <2>1
<1>5. QED
  BY <1>1, <1>2, <1>4 DEF Next, Reads, Fails

\* It holds at the start.
LEMMA ReportInvInit ==
  ASSUME Init PROVE ReportInv
<1>1. Domains
  BY DEF Init, Domains, Stages
<1>2. ASSUME NEW c \in Conns PROVE StageInv(c) /\ OnlyReport(c) /\ FailureInv(c)
  BY DEF Init, StageInv, OnlyReport, FailureInv, Untouched, Before
<1>3. QED
  BY <1>1, <1>2 DEF ReportInv

\* A failing validation leaves its report graph alone, but for the header that
\* a malformed provenance IRI leaves; none touches another graph.
THEOREM FailureSafety == Spec => []FailuresKeepTheReport
<1>1. Init => ReportInv
  BY ReportInvInit
<1>2. ReportInv /\ [Next]_vars => ReportInv'
  BY ReportInvStep
<1>3. ReportInv => FailuresKeepTheReport
  BY ReportInvImplies
<1>4. QED
  BY <1>1, <1>2, <1>3, PTL DEF Spec

-----------------------------------------------------------------------------
(* The report is the answer.                                               *)

\* The first lines of a block, and all blocks up to one.
FirstLines(c, i, n) == {BlockLines(c, i)[j] : j \in 1..n}
Blocks(c, n) == UNION {BlockSet(c, i) : i \in 0..n}

\* What the report graph holds.
Held(c) == {q \in store : q[4] = call[c].report}

Answered(c) == status[c] = "ok" /\ call[c].op = "validate"

\* Where a call is, what it has written and what its report graph then holds.
Answer(c) ==
  /\ call[c].op = "validate" => Len(violations[c]) <= call[c].max
  /\ pc[c] = "emit" =>
       /\ line[c] \in 1..(Len(BlockLines(c, block[c])) + 1)
       /\ wrote[c] = Blocks(c, block[c] - 1) \cup FirstLines(c, block[c], line[c] - 1)
  /\ Answered(c) =>
       /\ given[c] + 1 + Len(violations[c]) <= MaxNodes
       /\ result[c] = Len(violations[c])
       /\ wrote[c] = Blocks(c, Len(violations[c]))
  /\ quiet[c] =>
       /\ pc[c] = "remove" => Held(c) = doomed[c]
       /\ pc[c] = "emit" \/ Answered(c) => Held(c) = wrote[c]

AnswerInv == \A c \in Conns : Answer(c)

\* The blocks of a connection that does not move stay the same.
LEMMA SameBlocks ==
  ASSUME NEW d, Same(d)
  PROVE  /\ \A i : BlockLines(d, i)' = BlockLines(d, i) /\ BlockSet(d, i)' = BlockSet(d, i)
         /\ \A n : Blocks(d, n)' = Blocks(d, n) /\ \A i : FirstLines(d, i, n)' = FirstLines(d, i, n)
<1>1. violations'[d] = violations[d] /\ call'[d] = call[d] /\ given'[d] = given[d]
  BY DEF Same
<1>2. \A i : BlockLines(d, i)' = BlockLines(d, i) /\ BlockSet(d, i)' = BlockSet(d, i)
  BY <1>1 DEF BlockLines, BlockSet, HeaderLines, ResultLines, Header, Said, ReportNode, ResultNode
<1> QED BY <1>2 DEF Blocks, FirstLines

\* The same, if only these are.
SameReport(c) == violations'[c] = violations[c] /\ call'[c] = call[c] /\ given'[c] = given[c]

\* They depend on the call, its nodes and its violations only.
LEMMA SameReportBlocks ==
  ASSUME NEW d, SameReport(d)
  PROVE  /\ \A i : BlockLines(d, i)' = BlockLines(d, i) /\ BlockSet(d, i)' = BlockSet(d, i)
         /\ \A n : Blocks(d, n)' = Blocks(d, n) /\ \A i : FirstLines(d, i, n)' = FirstLines(d, i, n)
<1>1. \A i : BlockLines(d, i)' = BlockLines(d, i) /\ BlockSet(d, i)' = BlockSet(d, i)
  BY DEF SameReport, BlockLines, BlockSet, HeaderLines, ResultLines, Header, Said, ReportNode, ResultNode
<1> QED BY <1>1 DEF Blocks, FirstLines

\* A connection that does not move keeps its answer.
LEMMA SameAnswer ==
  ASSUME NEW d, Answer(d), Same(d), quiet'[d] => quiet[d], quiet'[d] => store' = store
  PROVE  Answer(d)'
<1>0. block'[d] = block[d] /\ line'[d] = line[d] /\ violations'[d] = violations[d]
  BY DEF Same
<1>1. /\ BlockLines(d, block[d])' = BlockLines(d, block[d])
      /\ Blocks(d, block[d] - 1)' = Blocks(d, block[d] - 1)
      /\ FirstLines(d, block[d], line[d] - 1)' = FirstLines(d, block[d], line[d] - 1)
      /\ Blocks(d, Len(violations[d]))' = Blocks(d, Len(violations[d]))
  <2>1. BlockLines(d, block[d])' = BlockLines(d, block[d])
    BY <1>0, SameBlocks
  <2>2. Blocks(d, block[d] - 1)' = Blocks(d, block[d] - 1)
    BY <1>0, SameBlocks
  <2>3. FirstLines(d, block[d], line[d] - 1)' = FirstLines(d, block[d], line[d] - 1)
    BY <1>0, SameBlocks
  <2>4. Blocks(d, Len(violations[d]))' = Blocks(d, Len(violations[d]))
    BY <1>0, SameBlocks
  <2> QED BY <2>1, <2>2, <2>3, <2>4
<1>2. quiet'[d] => Held(d)' = Held(d)
  BY DEF Held, Same
<1>3. Answered(d)' = Answered(d)
  BY DEF Answered, Same
<1> QED BY <1>1, <1>2, <1>3 DEF Answer, Same

\* Known is what the earlier invariants say too.
Known == TypeInv /\ ReportInv /\ AnswerInv

\* What is known of one connection.
LEMMA KnownOf ==
  ASSUME Known, NEW c \in Conns
  PROVE  Typed(c) /\ Placed(c) /\ StageInv(c) /\ Answer(c) /\ TypeInv /\ Functions
BY DEF Known, TypeInv, Global, ReportInv, AnswerInv

\* Before the clearing, and after a failure, only the number of violations counts.
LEMMA EarlyAnswer ==
  ASSUME NEW c, pc'[c] \notin {"remove", "emit"}, call'[c].op = "validate" => status'[c] # "ok",
         call'[c].op = "validate" => Len(violations'[c]) <= call'[c].max
  PROVE  Answer(c)'
BY DEF Answer, Answered

\* Begin has nothing to answer for.
LEMMA BeginAnswer ==
  ASSUME Known, NEW c \in Conns, Begin(c) PROVE Answer(c)'
<1>1. TypedStep(c) /\ Functions
  BY KnownOf, StepTypes DEF Steps
<1>2. call'[c] \in Calls
  BY <1>1 DEF TypedStep, Typed
<1>3. call'[c].op = "validate" => call'[c].max \in Nat
  BY <1>2 DEF Calls
<1>4. violations'[c] = << >> /\ pc'[c] \in {"idle", "shapes", "change"} /\ status'[c] \in {"error", "none"}
  BY <1>1 DEF Begin, Return, Fail, Goto, Functions
<1>5. Len(violations'[c]) = 0
  BY <1>4
<1> QED BY <1>3, <1>4, <1>5, EarlyAnswer

\* Change has no report.
LEMMA ChangeAnswer ==
  ASSUME Known, NEW c \in Conns, Change(c) PROVE Answer(c)'
<1>1. call'[c].op # "validate" /\ pc'[c] = "idle"
  BY KnownOf DEF Change, Return, Goto, Running, StageInv, Functions
<1> QED BY <1>1, EarlyAnswer

\* Nor has a call that still reads.
LEMMA ReadsAnswer ==
  ASSUME Known, NEW c \in Conns,
         EnumerateShapes(c) \/ ResolveTargets(c) \/ ReadPropertyShapes(c) \/ Parse(c) \/ Evaluate(c)
  PROVE  Answer(c)'
<1>1. violations' = violations /\ call' = call /\ status' = status /\ pc[c] # "idle"
  BY DEF EnumerateShapes, ResolveTargets, ReadPropertyShapes, Parse, Evaluate, Running
<1>2. pc'[c] \notin {"remove", "emit"}
  BY KnownOf DEF EnumerateShapes, ResolveTargets, ReadPropertyShapes, Parse, Evaluate, Onto, Goto, Functions
<1> QED BY <1>1, <1>2, KnownOf, EarlyAnswer DEF StageInv, Answer

\* The violations stay below the bound of the call.
LEMMA CheckAnswer ==
  ASSUME Known, NEW c \in Conns, CheckConstraints(c) PROVE Answer(c)'
<1>1. /\ violations'[c] = violations[c] \o NewViolations(c) /\ call' = call /\ status' = status
      /\ pc[c] # "idle" /\ Passes(c)
  BY KnownOf DEF CheckConstraints, Running, Functions
<1>2. pc'[c] \notin {"remove", "emit"}
  BY KnownOf DEF CheckConstraints, Onto, Goto, Functions
<1> QED BY <1>1, <1>2, KnownOf, EarlyAnswer DEF StageInv, Passes

\* A failing call does not answer.
LEMMA FailsAnswer ==
  ASSUME Known, NEW c \in Conns,
         PropertyShapesRefused(c) \/ PathRefused(c) \/ CheckAborts(c) \/ ProvenanceRefused(c)
  PROVE  Answer(c)'
<1>1. violations' = violations /\ call' = call /\ pc'[c] = "idle" /\ status'[c] = "error"
  BY KnownOf DEF PropertyShapesRefused, PathRefused, CheckAborts, ProvenanceRefused, Fail, Return, Goto, Functions
<1> QED BY <1>1, KnownOf, EarlyAnswer DEF Answer

\* A quiet call marks all of the old report.
LEMMA CollectAnswer ==
  ASSUME Known, NEW c \in Conns, CollectReport(c) PROVE Answer(c)'
<1>1. /\ violations' = violations /\ call' = call /\ status' = status /\ store' = store
      /\ pc[c] = "clear" /\ pc'[c] = "remove" /\ doomed'[c] = Held(c)
  BY KnownOf DEF CollectReport, ReadOnly, Goto, Running, Functions, Held
<1>2. Held(c)' = Held(c) /\ status'[c] # "ok"
  BY <1>1, KnownOf DEF Held, StageInv
<1> QED BY <1>1, <1>2, KnownOf DEF Answer, Answered

\* While it removes, what is left of the report is marked.
LEMMA RemoveAnswer ==
  ASSUME Known, NEW c \in Conns, RemoveQuad(c) PROVE Answer(c)'
<1>1. PICK q \in doomed[c] : Write(c, {}, {q}) /\ doomed'[c] = doomed[c] \ {q}
  BY KnownOf DEF RemoveQuad, Functions
<1>2. /\ violations' = violations /\ call' = call /\ status' = status
      /\ pc[c] = "remove" /\ pc' = pc
  BY DEF RemoveQuad, Running
<1>3. store' = store \ {q} /\ quiet'[c] = quiet[c]
  BY <1>1, KnownOf DEF Write, Functions, TypeInv, Global, Quiets
<1>4. Held(c)' = Held(c) \ {q}
  BY <1>2, <1>3 DEF Held
<1>5. status'[c] # "ok"
  BY <1>2, KnownOf DEF StageInv
<1> QED BY <1>1, <1>2, <1>3, <1>4, <1>5, KnownOf DEF Answer, Answered

\* Before the first block there are no lines.
LEMMA NoBlocks == ASSUME NEW c, NEW i PROVE Blocks(c, 0 - 1) = {} /\ FirstLines(c, i, 0) = {}
<1>1. 0..(0 - 1) = {} /\ 1..0 = {}
  OBVIOUS
<1> QED BY <1>1 DEF Blocks, FirstLines

\* One block more.
LEMMA MoreBlocks ==
  ASSUME NEW c, NEW n \in Nat PROVE Blocks(c, n) = Blocks(c, n - 1) \cup BlockSet(c, n)
<1>1. 0..n = (0..(n - 1)) \cup {n}
  OBVIOUS
<1> QED BY <1>1 DEF Blocks

\* One line more.
LEMMA MoreLines ==
  ASSUME NEW c, NEW i, NEW n \in Nat \ {0}
  PROVE  FirstLines(c, i, n) = FirstLines(c, i, n - 1) \cup {BlockLines(c, i)[n]}
<1>1. 1..n = (1..(n - 1)) \cup {n}
  OBVIOUS
<1> QED BY <1>1 DEF FirstLines

\* A block is all its lines.
LEMMA AllLines ==
  ASSUME NEW c, NEW i PROVE FirstLines(c, i, Len(BlockLines(c, i))) = BlockSet(c, i)
BY BlockLine DEF FirstLines

\* Once cleared, a quiet report graph is empty.
LEMMA ClearedAnswer ==
  ASSUME Known, NEW c \in Conns, ReportCleared(c) PROVE Answer(c)'
<1>1. /\ violations' = violations /\ call' = call /\ status' = status /\ store' = store
      /\ quiet' = quiet /\ wrote' = wrote /\ given' = given
      /\ pc[c] = "remove" /\ doomed[c] = {} /\ pc'[c] = "emit" /\ block'[c] = 0 /\ line'[c] = 1
  BY KnownOf DEF ReportCleared, ReadOnly, history, Goto, Running, Functions
<1>2. wrote'[c] = {} /\ status'[c] # "ok"
  BY <1>1, KnownOf DEF StageInv
<1>3. Blocks(c, block[c] - 1)' = {} /\ FirstLines(c, block[c], line[c] - 1)' = {}
  <2>1. \A i : Blocks(c, 0 - 1) = {} /\ FirstLines(c, i, 0) = {}
    BY NoBlocks
  <2>2. \A i : Blocks(c, 0 - 1)' = {} /\ FirstLines(c, i, 0)' = {}
    BY <1>1, <2>1, SameReportBlocks DEF SameReport
  <2>3. line'[c] - 1 = 0 /\ block'[c] - 1 = 0 - 1
    BY <1>1
  <2> QED BY <2>2, <2>3
<1>4. line'[c] \in 1..(Len(BlockLines(c, block[c])') + 1)
  <2>1. Len(BlockLines(c, 0)) \in Nat
    BY BlockLine
  <2>2. BlockLines(c, 0)' = BlockLines(c, 0)
    BY <1>1, SameReportBlocks DEF SameReport
  <2> QED BY <1>1, <2>1, <2>2
<1>5. quiet'[c] => Held(c)' = {}
  BY <1>1, KnownOf DEF Held, Answer
<1>6. call'[c].op = "validate" => Len(violations'[c]) <= call'[c].max
  BY <1>1, KnownOf DEF Answer
<1> QED BY <1>1, <1>2, <1>3, <1>4, <1>5, <1>6 DEF Answer, Answered

\* A line more is written, and for a quiet call nothing else.
LEMMA EmitAnswer ==
  ASSUME Known, NEW c \in Conns, EmitLine(c) PROVE Answer(c)'
<1> DEFINE b == block[c]
           l == line[c]
           q == BlockLines(c, b)[l]
<1>1. /\ violations' = violations /\ call' = call /\ status' = status /\ given' = given
      /\ pc[c] = "emit" /\ pc' = pc /\ block' = block /\ line'[c] = l + 1
      /\ l \in DOMAIN BlockLines(c, b) /\ Write(c, {q}, {})
  BY KnownOf DEF EmitLine, Running, Functions
<1>2. store' = store \cup {q} /\ quiet'[c] = quiet[c] /\ wrote'[c] = wrote[c] \cup {q}
  BY <1>1, KnownOf DEF Write, Functions, TypeInv, Global, Quiets
<1>3. q[4] = call[c].report /\ l \in 1..Len(BlockLines(c, b)) /\ Len(BlockLines(c, b)) \in Nat
  BY <1>1, BlockLine
<1>4. SameReport(c)
  BY <1>1 DEF SameReport
<1>5. FirstLines(c, b, l) = FirstLines(c, b, l - 1) \cup {q}
  BY <1>3, MoreLines
<1> HIDE DEF q
<1>6. wrote'[c] = Blocks(c, b - 1) \cup FirstLines(c, b, l)
  BY <1>1, <1>2, <1>5, KnownOf DEF Answer
<1>7. block'[c] = b /\ line'[c] - 1 = l
  BY <1>1, <1>3
<1> HIDE DEF b, l
<1>8. /\ BlockLines(c, block[c])' = BlockLines(c, b)
      /\ Blocks(c, block[c] - 1)' = Blocks(c, b - 1)
      /\ FirstLines(c, block[c], line[c] - 1)' = FirstLines(c, b, l)
  <2>1. BlockLines(c, block[c])' = BlockLines(c, b)
    BY <1>4, <1>7, SameReportBlocks
  <2>2. Blocks(c, block[c] - 1)' = Blocks(c, b - 1)
    BY <1>4, <1>7, SameReportBlocks
  <2>3. FirstLines(c, block[c], line[c] - 1)' = FirstLines(c, b, l)
    BY <1>4, <1>7, SameReportBlocks
  <2> QED BY <2>1, <2>2, <2>3
<1>9. line'[c] \in 1..(Len(BlockLines(c, block[c])') + 1)
  BY <1>1, <1>3, <1>8
<1>10. Held(c)' = Held(c) \cup {q}
  BY <1>1, <1>2, <1>3 DEF Held
<1>11. status'[c] # "ok"
  BY <1>1, KnownOf DEF StageInv
<1>12. call'[c].op = "validate" => Len(violations'[c]) <= call'[c].max
  BY <1>1, KnownOf DEF Answer
<1>13. quiet'[c] => Held(c)' = wrote'[c]
  BY <1>1, <1>2, <1>10, KnownOf DEF Answer
<1> QED BY <1>1, <1>6, <1>8, <1>9, <1>11, <1>12, <1>13 DEF Answer, Answered

\* What has been written when a block is done.
LEMMA WrittenBlocks ==
  ASSUME Known, NEW c \in Conns, BlockWritten(c)
  PROVE  wrote[c] = Blocks(c, block[c]) /\ pc[c] = "emit"
<1>1. pc[c] = "emit" /\ line[c] \notin DOMAIN BlockLines(c, block[c])
  BY DEF BlockWritten, Running
<1>2. /\ line[c] \in 1..(Len(BlockLines(c, block[c])) + 1)
      /\ wrote[c] = Blocks(c, block[c] - 1) \cup FirstLines(c, block[c], line[c] - 1)
      /\ block[c] \in Nat
  BY <1>1, KnownOf DEF Answer, Typed
<1>3. line[c] - 1 = Len(BlockLines(c, block[c]))
  BY <1>1, <1>2, BlockLine
<1>4. FirstLines(c, block[c], line[c] - 1) = BlockSet(c, block[c])
  BY <1>3, AllLines
<1> QED BY <1>1, <1>2, <1>4, MoreBlocks

\* A block that is written is followed by the next.
LEMMA NextResultAnswer ==
  ASSUME Known, NEW c \in Conns, NextResult(c) PROVE Answer(c)'
<1> DEFINE b == block[c]
<1>1. /\ violations' = violations /\ call' = call /\ status' = status /\ given' = given
      /\ store' = store /\ quiet' = quiet /\ wrote' = wrote
      /\ pc' = pc /\ block'[c] = b + 1 /\ line'[c] = 1 /\ BlockWritten(c)
  BY KnownOf DEF NextResult, ReadOnly, history, Functions
<1>2. wrote'[c] = Blocks(c, b) /\ pc[c] = "emit"
  BY <1>1, WrittenBlocks
<1>3. b \in Nat
  BY KnownOf DEF Typed
<1>4. block'[c] - 1 = b /\ line'[c] - 1 = 0
  BY <1>1, <1>3
<1> HIDE DEF b
<1>5. SameReport(c)
  BY <1>1 DEF SameReport
<1>6. Blocks(c, block[c] - 1)' = Blocks(c, b)
  BY <1>4, <1>5, SameReportBlocks
<1>7. FirstLines(c, block[c], line[c] - 1)' = {}
  <2>1. \A i : FirstLines(c, i, 0) = {}
    BY NoBlocks
  <2>2. \A i : FirstLines(c, i, 0)' = {}
    BY <1>5, <2>1, SameReportBlocks
  <2> QED BY <1>4, <2>2
<1>8. line'[c] \in 1..(Len(BlockLines(c, block[c])') + 1)
  <2>1. Len(BlockLines(c, b + 1)) \in Nat
    BY BlockLine
  <2>2. BlockLines(c, block[c])' = BlockLines(c, b + 1)
    BY <1>1, <1>5, SameReportBlocks DEF b
  <2> QED BY <1>1, <2>1, <2>2
<1>9. status'[c] # "ok"
  BY <1>1, <1>2, KnownOf DEF StageInv
<1>10. call'[c].op = "validate" => Len(violations'[c]) <= call'[c].max
  BY <1>1, KnownOf DEF Answer
<1>11. quiet'[c] => Held(c)' = wrote'[c]
  BY <1>1, <1>2, KnownOf DEF Answer, Held
<1> QED BY <1>1, <1>2, <1>6, <1>7, <1>8, <1>9, <1>10, <1>11 DEF Answer, Answered

\* A call that returns has written all its blocks.
LEMMA DoneAnswer ==
  ASSUME Known, NEW c \in Conns, EmitDone(c) PROVE Answer(c)'
<1> DEFINE m == Len(violations[c])
<1>1. /\ violations' = violations /\ call' = call /\ given' = given
      /\ store' = store /\ quiet' = quiet /\ wrote' = wrote
      /\ pc'[c] = "idle" /\ result'[c] = m /\ BlockWritten(c) /\ block[c] >= m
  <2>1. /\ violations' = violations /\ call' = call /\ given' = given
        /\ store' = store /\ quiet' = quiet /\ wrote' = wrote
        /\ BlockWritten(c) /\ block[c] >= m
    BY DEF EmitDone, ReadOnly, history, writing
  <2>2. pc'[c] = "idle" /\ result'[c] = m
    BY KnownOf DEF EmitDone, Return, Goto, Functions
  <2> QED BY <2>1, <2>2
<1>2. wrote'[c] = Blocks(c, block[c]) /\ pc[c] = "emit"
  BY <1>1, WrittenBlocks
<1>3. block[c] = m /\ given[c] + 1 + m <= MaxNodes
  BY <1>1, <1>2, KnownOf DEF Typed, Placed
<1>4. wrote'[c] = Blocks(c, m)
  BY <1>2, <1>3
<1>5. Blocks(c, Len(violations[c]))' = Blocks(c, m)
  <2>1. Len(violations'[c]) = m /\ SameReport(c)
    BY <1>1 DEF SameReport
  <2> HIDE DEF m
  <2> QED BY <2>1, SameReportBlocks
<1>6. call'[c].op = "validate" => Len(violations'[c]) <= call'[c].max
  BY <1>1, KnownOf DEF Answer
<1>7. quiet'[c] => Held(c)' = wrote'[c]
  BY <1>1, <1>2, KnownOf DEF Answer, Held
<1> QED BY <1>1, <1>3, <1>4, <1>5, <1>6, <1>7 DEF Answer, Answered

\* Every step of a connection keeps its answer.
LEMMA StepAnswers ==
  ASSUME Known, NEW c \in Conns, Steps(c) PROVE Answer(c)'
BY BeginAnswer, ChangeAnswer, ReadsAnswer, CheckAnswer, FailsAnswer, CollectAnswer, RemoveAnswer,
   ClearedAnswer, EmitAnswer, NextResultAnswer, DoneAnswer DEF Steps

\* Every step keeps the answers.
LEMMA AnswerInvStep ==
  ASSUME Known, [Next]_vars PROVE AnswerInv'
<1>0. Functions /\ Quiets /\ \A c \in Conns : Answer(c)
  BY DEF Known, TypeInv, Global, AnswerInv
<1>1. ASSUME NEW c \in Conns, Steps(c) PROVE AnswerInv'
  <2>1. Framed(c) /\ Answer(c)'
    BY <1>0, <1>1, StepFrames, StepAnswers
  <2>2. ASSUME NEW d \in Conns \ {c} PROVE Answer(d)'
    BY <1>0, <2>1, SameAnswer DEF Framed, Hushed
  <2> QED BY <2>1, <2>2 DEF AnswerInv
<1>2. ASSUME NEW c \in Conns, PathOverflows(c) PROVE AnswerInv'
  <2>1. \A d \in Conns : Same(d)
    BY <1>0, <1>2, OverflowFrame DEF Framed
  <2>2. store' = store /\ quiet' = quiet
    BY <1>2 DEF PathOverflows, history
  <2> QED BY <1>0, <2>1, <2>2, SameAnswer DEF AnswerInv
<1>3. CASE UNCHANGED vars
  <2>1. \A d \in Conns : Same(d)
    BY <1>3 DEF vars, locals, reading, writing, history, Same, SameReading
  <2>2. store' = store /\ quiet' = quiet
    BY <1>3 DEF vars, history
  <2> QED BY <1>0, <2>1, <2>2, SameAnswer DEF AnswerInv
<1> QED BY <1>1, <1>2, <1>3, NextSteps

\* They hold at the start.
LEMMA AnswerInvInit == ASSUME Init PROVE AnswerInv
<1>1. \A c \in Conns : pc[c] = "idle" /\ status[c] = "none" /\ violations[c] = << >> /\ call[c] = NoCall
  BY DEF Init
<1>2. \A c \in Conns : Len(violations[c]) = 0 /\ call[c].max = 0
  BY <1>1 DEF NoCall
<1> QED BY <1>1, <1>2 DEF AnswerInv, Answer, Answered

-----------------------------------------------------------------------------
(* What a written report says.                                             *)

\* A validation of c has returned, and its provenance predicates are not the
\* report's own.
Plain(c) ==
  /\ Answered(c)
  /\ call[c].provenance => {call[c].by, call[c].at} \cap ReportVocabulary = {}

Report(c) == In(wrote[c], call[c].report)
Results(c) == {ResultNode(c, i) : i \in 1..Len(violations[c])}

\* The report's flag, of so many violations.
Flag(n) == IF n = 0 THEN "true" ELSE "false"

\* What a result says with one of these predicates.
LEMMA SaidOf ==
  ASSUME NEW c, Plain(c), NEW i, NEW s, NEW p, NEW o
  PROVE  LET v == violations[c][i]
             n == ResultNode(c, i)
             q == <<s, p, o, call[c].report>>
         IN  /\ p = "sh:result" => (q \in Said(c, i) <=> s = ReportNode(c) /\ o = n)
             /\ p = "sh:conforms" => q \notin Said(c, i)
             /\ p = "sh:focusNode" => (q \in Said(c, i) <=> s = n /\ o = v.focus)
             /\ p = "sh:value" => (q \in Said(c, i) <=> s = n /\ v.value # {} /\ o = Only(v.value))
             /\ p = "sh:sourceConstraintComponent" => (q \in Said(c, i) <=> s = n /\ o = v.component)
             /\ p = "sh:sourceShape" => (q \in Said(c, i) <=> s = n /\ o = ShapeIri(v.shape))
<1> DEFINE v == violations[c][i]
           n == ResultNode(c, i)
           g == call[c].report
           q == <<s, p, o, g>>
           r == ReportNode(c)
<1>1. call[c].provenance /\ p \in ReportVocabulary => p # call[c].by /\ p # call[c].at
  BY DEF Plain
<1>2. q \in Said(c, i) <=>
        \/ s = r /\ p = "sh:result" /\ o = n
        \/ s = n /\ p = "rdf:type" /\ o = "sh:ValidationResult"
        \/ s = n /\ p = "sh:focusNode" /\ o = v.focus
        \/ s = n /\ p = "sh:resultPath" /\ o = v.path
        \/ s = n /\ p = "sh:value" /\ v.value # {} /\ o = Only(v.value)
        \/ s = n /\ p = "sh:sourceShape" /\ o = ShapeIri(v.shape)
        \/ s = n /\ p = "sh:sourceConstraintComponent" /\ o = v.component
        \/ s = n /\ p = "sh:resultSeverity" /\ o = "sh:Violation"
        \/ s = n /\ p = "sh:resultMessage" /\ o = "message"
        \/ call[c].provenance /\ s = n /\ p = call[c].by /\ o = ShapeIri(v.shape)
        \/ call[c].provenance /\ s = n /\ p = call[c].at /\ o = "now"
  <2> DEFINE iri == ShapeIri(v.shape)
             only == Only(v.value)
             by == call[c].by
             at == call[c].at
             prov == call[c].provenance
  <2>1. Said(c, i) =
          {<<r, "sh:result", n, g>>, <<n, "rdf:type", "sh:ValidationResult", g>>,
           <<n, "sh:focusNode", v.focus, g>>, <<n, "sh:resultPath", v.path, g>>}
          \cup (IF v.value = {} THEN {} ELSE {<<n, "sh:value", only, g>>})
          \cup {<<n, "sh:sourceShape", iri, g>>, <<n, "sh:sourceConstraintComponent", v.component, g>>,
                <<n, "sh:resultSeverity", "sh:Violation", g>>, <<n, "sh:resultMessage", "message", g>>}
          \cup (IF prov THEN {<<n, by, iri, g>>, <<n, at, "now", g>>} ELSE {})
    BY DEF Said
  <2> HIDE DEF v, n, g, r, iri, only, by, at, prov
  <2>2. q \in Said(c, i) <=>
          \/ q = <<r, "sh:result", n, g>>
          \/ q = <<n, "rdf:type", "sh:ValidationResult", g>>
          \/ q = <<n, "sh:focusNode", v.focus, g>>
          \/ q = <<n, "sh:resultPath", v.path, g>>
          \/ v.value # {} /\ q = <<n, "sh:value", only, g>>
          \/ q = <<n, "sh:sourceShape", iri, g>>
          \/ q = <<n, "sh:sourceConstraintComponent", v.component, g>>
          \/ q = <<n, "sh:resultSeverity", "sh:Violation", g>>
          \/ q = <<n, "sh:resultMessage", "message", g>>
          \/ prov /\ q = <<n, by, iri, g>>
          \/ prov /\ q = <<n, at, "now", g>>
    <3> HIDE DEF q
    <3> QED BY <2>1
  <2> QED BY <2>2 DEF iri, only, by, at, prov
<1> HIDE DEF v, n, g, q, r
<1>3. p = "sh:result" => (q \in Said(c, i) <=> s = r /\ o = n)
  BY <1>1, <1>2 DEF ReportVocabulary
<1>4. p = "sh:conforms" => q \notin Said(c, i)
  BY <1>1, <1>2 DEF ReportVocabulary
<1>5. p = "sh:focusNode" => (q \in Said(c, i) <=> s = n /\ o = v.focus)
  BY <1>1, <1>2 DEF ReportVocabulary
<1>6. p = "sh:value" => (q \in Said(c, i) <=> s = n /\ v.value # {} /\ o = Only(v.value))
  BY <1>1, <1>2 DEF ReportVocabulary
<1>7. p = "sh:sourceConstraintComponent" => (q \in Said(c, i) <=> s = n /\ o = v.component)
  BY <1>1, <1>2 DEF ReportVocabulary
<1>8. p = "sh:sourceShape" => (q \in Said(c, i) <=> s = n /\ o = ShapeIri(v.shape))
  BY <1>1, <1>2 DEF ReportVocabulary
<1> QED BY <1>3, <1>4, <1>5, <1>6, <1>7, <1>8 DEF v, n, g, q, r

\* What a result's block says.
LEMMA SaidIs ==
  ASSUME NEW c, Plain(c), NEW i, NEW s, NEW o
  PROVE  LET v == violations[c][i]
             n == ResultNode(c, i)
             g == call[c].report
         IN  /\ <<s, "sh:result", o, g>> \in Said(c, i) <=> s = ReportNode(c) /\ o = n
             /\ <<s, "sh:conforms", o, g>> \notin Said(c, i)
             /\ <<s, "sh:focusNode", o, g>> \in Said(c, i) <=> s = n /\ o = v.focus
             /\ <<s, "sh:value", o, g>> \in Said(c, i) <=> s = n /\ v.value # {} /\ o = Only(v.value)
             /\ <<s, "sh:sourceConstraintComponent", o, g>> \in Said(c, i) <=> s = n /\ o = v.component
             /\ <<s, "sh:sourceShape", o, g>> \in Said(c, i) <=> s = n /\ o = ShapeIri(v.shape)
BY SaidOf

\* The header says only whether the graph conforms.
LEMMA HeaderIs ==
  ASSUME NEW c, NEW s, NEW o
  PROVE  LET g == call[c].report
         IN  /\ <<s, "sh:conforms", o, g>> \in Header(c) <=>
                   s = ReportNode(c) /\ o = IF violations[c] = << >> THEN "true" ELSE "false"
             /\ <<s, "sh:result", o, g>> \notin Header(c)
             /\ <<s, "sh:focusNode", o, g>> \notin Header(c)
             /\ <<s, "sh:value", o, g>> \notin Header(c)
             /\ <<s, "sh:sourceConstraintComponent", o, g>> \notin Header(c)
             /\ <<s, "sh:sourceShape", o, g>> \notin Header(c)
             /\ <<ReportNode(c), "rdf:type", "sh:ValidationReport", g>> \in Header(c)
BY DEF Header

\* A report is its header and its results, one for each violation.
LEMMA ReportIs ==
  ASSUME Known, NEW c \in Conns, Plain(c)
  PROVE  /\ Report(c) \in SUBSET Triples
         /\ \A s, p, o : <<s, p, o>> \in Report(c) <=>
              \/ <<s, p, o, call[c].report>> \in Header(c)
              \/ \E i \in 1..Len(violations[c]) : <<s, p, o, call[c].report>> \in Said(c, i)
         /\ quiet[c] => In(store, call[c].report) = Report(c)
<1> DEFINE m == Len(violations[c])
           g == call[c].report
<1>1. wrote[c] \in SUBSET Quads /\ m \in Nat
  BY KnownOf DEF Typed
<1>2. wrote[c] = Blocks(c, m) /\ (quiet[c] => Held(c) = wrote[c])
  BY KnownOf DEF Plain, Answer
<1>3. \A q : q \in wrote[c] <=> q \in Header(c) \/ \E i \in 1..m : q \in Said(c, i)
  <2>1. \A q : q \in wrote[c] <=> \E i \in 0..m : q \in BlockSet(c, i)
    BY <1>2 DEF Blocks
  <2>2. \A i : i \in 0..m <=> i = 0 \/ i \in 1..m
    BY <1>1
  <2>3. BlockSet(c, 0) = Header(c) /\ \A i \in 1..m : BlockSet(c, i) = Said(c, i)
    BY <1>1 DEF BlockSet
  <2> HIDE DEF m
  <2> QED BY <2>1, <2>2, <2>3
<1>4. \A q \in wrote[c] : q[4] = g
  <2>1. \A i : \A q \in BlockSet(c, i) : q[4] = g
    BY BlockLine
  <2> QED BY <1>2, <2>1 DEF Blocks
<1>5. Report(c) \in SUBSET Triples
  BY <1>1 DEF Report, In, Quads, Triples
<1>6. \A s, p, o : <<s, p, o>> \in Report(c) <=> <<s, p, o, g>> \in wrote[c]
  <2> SUFFICES ASSUME NEW s, NEW p, NEW o PROVE <<s, p, o>> \in Report(c) <=> <<s, p, o, g>> \in wrote[c]
    OBVIOUS
  <2>1. \A q \in wrote[c] : q = <<q[1], q[2], q[3], q[4]>>
    BY <1>1 DEF Quads
  <2>2. <<s, p, o>> \in Report(c) => <<s, p, o, g>> \in wrote[c]
    BY <2>1, <1>4 DEF Report, In
  <2>3. <<s, p, o, g>> \in wrote[c] => <<s, p, o>> \in Report(c)
    <3> DEFINE q == <<s, p, o, g>>
    <3>1. q[1] = s /\ q[2] = p /\ q[3] = o /\ q[4] = g
      OBVIOUS
    <3> HIDE DEF q
    <3>2. q \in wrote[c] => <<q[1], q[2], q[3]>> \in Report(c)
      BY <3>1 DEF Report, In
    <3> QED BY <3>1, <3>2 DEF q
  <2> QED BY <2>2, <2>3
<1>7. quiet[c] => In(store, g) = Report(c)
  <2>1. {r \in wrote[c] : r[4] = g} = wrote[c]
    BY <1>4
  <2>2. quiet[c] => {r \in store : r[4] = g} = wrote[c]
    BY <1>2 DEF Held
  <2> QED BY <2>1, <2>2 DEF In, Report
<1> QED BY <1>3, <1>5, <1>6, <1>7

\* The results have as many nodes as there are violations.
LEMMA CountResults ==
  ASSUME NEW c \in Conns, given[c] \in Nat, NEW m \in Nat, given[c] + 1 + m <= MaxNodes
  PROVE  Cardinality({ResultNode(c, i) : i \in 1..m}) = m
<1> DEFINE f == [i \in 1..m |-> ResultNode(c, i)]
           N == {ResultNode(c, i) : i \in 1..m}
<1>1. f \in Bijection(1..m, N)
  <2>1. \A i, j \in 1..m : ResultNode(c, i) = ResultNode(c, j) => i = j
    BY ReportNodes
  <2>2. f \in [1..m -> N] /\ \A i \in 1..m : f[i] = ResultNode(c, i)
    OBVIOUS
  <2>3. f \in Injection(1..m, N)
    BY <2>1, <2>2 DEF Injection, IsInjective
  <2>4. f \in Surjection(1..m, N)
    BY <2>2 DEF Surjection
  <2> QED BY <2>3, <2>4 DEF Bijection
<1>2. IsFiniteSet(1..m) /\ Cardinality(1..m) = m
  BY FS_Interval
<1> HIDE DEF f, N
<1>3. Cardinality(N) = m
  BY <1>1, <1>2, FS_Bijection DEF ExistsBijection
<1> QED BY <1>3 DEF N

\* What the report says of its results.
LEMMA ReportObjects ==
  ASSUME Known, NEW c \in Conns, Plain(c)
  PROVE  LET m == Len(violations[c])
             v(i) == violations[c][i]
             G == Report(c)
         IN  /\ \A s, o : o \in Objects(G, s, "sh:result") <=> s = ReportNode(c) /\ o \in Results(c)
             /\ \A s, o : <<s, "sh:conforms", o>> \in G <=>
                  s = ReportNode(c) /\ o = Flag(m)
             /\ \E o : <<ReportNode(c), "rdf:type", o>> \in G
             /\ \A i \in 1..m :
                  /\ Objects(G, ResultNode(c, i), "sh:focusNode") = {v(i).focus}
                  /\ Objects(G, ResultNode(c, i), "sh:sourceConstraintComponent") = {v(i).component}
                  /\ Objects(G, ResultNode(c, i), "sh:sourceShape") = {ShapeIri(v(i).shape)}
                  /\ Objects(G, ResultNode(c, i), "sh:value") = v(i).value
<1> DEFINE m == Len(violations[c])
           v(i) == violations[c][i]
           G == Report(c)
           g == call[c].report
<1>1. G \in SUBSET Triples /\ m \in Nat /\ violations[c] \in Seq(Violations)
  BY ReportIs, KnownOf DEF Typed
<1> DEFINE has(s, p, o) == <<s, p, o>> \in G
           head(s, p, o) == <<s, p, o, g>> \in Header(c)
           said(i, s, p, o) == <<s, p, o, g>> \in Said(c, i)
<1>2. \A s, p, o : o \in Objects(G, s, p) <=> has(s, p, o)
  BY <1>1, ObjectsMembers
<1>3. \A s, p, o : has(s, p, o) <=> head(s, p, o) \/ \E i \in 1..m : said(i, s, p, o)
  BY ReportIs
<1>4. \A i, j \in 1..m : ResultNode(c, i) = ResultNode(c, j) => i = j
  BY <1>1, KnownOf, ReportNodes DEF Typed, Answer, Plain
<1>5. violations[c] = << >> <=> m = 0
  BY <1>1
<1> HIDE DEF G, m, g
<1>10. \A i, s, o :
        LET n == ResultNode(c, i)
        IN  /\ said(i, s, "sh:result", o) <=> s = ReportNode(c) /\ o = n
            /\ ~said(i, s, "sh:conforms", o)
            /\ said(i, s, "sh:focusNode", o) <=> s = n /\ o = v(i).focus
            /\ said(i, s, "sh:value", o) <=> s = n /\ v(i).value # {} /\ o = Only(v(i).value)
            /\ said(i, s, "sh:sourceConstraintComponent", o) <=> s = n /\ o = v(i).component
            /\ said(i, s, "sh:sourceShape", o) <=> s = n /\ o = ShapeIri(v(i).shape)
  BY SaidIs DEF g
<1>11. \A s, o : /\ head(s, "sh:conforms", o) <=> s = ReportNode(c) /\ o = Flag(m)
                 /\ ~head(s, "sh:result", o)
                 /\ ~head(s, "sh:focusNode", o)
                 /\ ~head(s, "sh:value", o)
                 /\ ~head(s, "sh:sourceConstraintComponent", o)
                 /\ ~head(s, "sh:sourceShape", o)
  BY <1>5, HeaderIs DEF g, Flag
<1>8. \E o : <<ReportNode(c), "rdf:type", o>> \in G
  <2>1. head(ReportNode(c), "rdf:type", "sh:ValidationReport")
    BY HeaderIs DEF g
  <2> QED BY <1>3, <2>1
<1> HIDE DEF v, has, head, said
<1>6. \A s, o : o \in Objects(G, s, "sh:result") <=> s = ReportNode(c) /\ o \in Results(c)
  BY <1>2, <1>3, <1>10, <1>11 DEF Results, m
<1>7. \A s, o : <<s, "sh:conforms", o>> \in G <=> s = ReportNode(c) /\ o = Flag(m)
  <2>1. \A s, o : has(s, "sh:conforms", o) <=> s = ReportNode(c) /\ o = Flag(m)
    BY <1>3, <1>10, <1>11
  <2> QED BY <2>1 DEF has
<1>9. ASSUME NEW i \in 1..m
      PROVE  /\ Objects(G, ResultNode(c, i), "sh:focusNode") = {v(i).focus}
             /\ Objects(G, ResultNode(c, i), "sh:sourceConstraintComponent") = {v(i).component}
             /\ Objects(G, ResultNode(c, i), "sh:sourceShape") = {ShapeIri(v(i).shape)}
             /\ Objects(G, ResultNode(c, i), "sh:value") = v(i).value
  <2> DEFINE n == ResultNode(c, i)
  <2>1. \A o : o \in Objects(G, n, "sh:focusNode") <=> o = v(i).focus
    BY <1>2, <1>3, <1>4, <1>10, <1>11
  <2>2. \A o : o \in Objects(G, n, "sh:sourceConstraintComponent") <=> o = v(i).component
    BY <1>2, <1>3, <1>4, <1>10, <1>11
  <2>3. \A o : o \in Objects(G, n, "sh:sourceShape") <=> o = ShapeIri(v(i).shape)
    BY <1>2, <1>3, <1>4, <1>10, <1>11
  <2>4. \A o : o \in Objects(G, n, "sh:value") <=> v(i).value # {} /\ o = Only(v(i).value)
    BY <1>2, <1>3, <1>4, <1>10, <1>11
  <2>5. v(i).value \in {{}} \cup {{u} : u \in Terms}
    <3>1. v(i) \in Violations
      BY <1>1 DEF m, v
    <3> QED BY <3>1 DEF Violations
  <2>6. v(i).value # {} => v(i).value = {Only(v(i).value)}
    BY <2>5, OnlyOne
  <2> HIDE DEF n
  <2> QED BY <2>1, <2>2, <2>3, <2>4, <2>6 DEF n
<1> QED BY <1>6, <1>7, <1>8, <1>9 DEF G, m, v

\* So the report is the answer.
LEMMA ReportAnswers == ASSUME Known PROVE ReportIsTheAnswer
<1> SUFFICES ASSUME NEW c \in Conns, Plain(c)
             PROVE  LET report == In(wrote[c], call[c].report)
                        nodes  == UNION {Objects(report, s, "sh:result") : s \in {t[1] : t \in report}}
                        flags  == {t[3] : t \in {u \in report : u[2] = "sh:conforms"}}
                    IN  /\ result[c] = Cardinality(nodes) /\ result[c] <= call[c].max
                        /\ flags = {IF result[c] = 0 THEN "true" ELSE "false"}
                        /\ \A n \in nodes, p \in {"sh:focusNode", "sh:sourceConstraintComponent", "sh:sourceShape"} :
                             Cardinality(Objects(report, n, p)) = 1
                        /\ {<<Objects(report, n, "sh:focusNode"), Objects(report, n, "sh:value"),
                              Objects(report, n, "sh:sourceConstraintComponent")>> : n \in nodes}
                           = {<<{v.focus}, v.value, {v.component}>> : v \in Range(violations[c])}
                        /\ quiet[c] => In(store, call[c].report) = report
  BY DEF ReportIsTheAnswer, Plain, Answered
<1> DEFINE report == In(wrote[c], call[c].report)
           nodes  == UNION {Objects(report, s, "sh:result") : s \in {t[1] : t \in report}}
           flags  == {t[3] : t \in {u \in report : u[2] = "sh:conforms"}}
           m == Len(violations[c])
<1>1. report = Report(c)
  BY DEF Report
<1>2. /\ m \in Nat /\ violations[c] \in Seq(Violations) /\ result[c] = m /\ m <= call[c].max
      /\ given[c] \in Nat /\ given[c] + 1 + m <= MaxNodes
  BY KnownOf DEF Typed, Answer, Plain, Answered
<1>3. report \in SUBSET Triples
  BY <1>1, ReportIs
<1>4. \A t \in report : t = <<t[1], t[2], t[3]>>
  BY <1>3 DEF Triples
<1>5. nodes = Results(c)
  <2>1. \E t \in report : t[1] = ReportNode(c)
    <3>1. PICK o : <<ReportNode(c), "rdf:type", o>> \in report
      BY <1>1, ReportObjects
    <3> QED BY <3>1
  <2>2. \A s, o : o \in Objects(report, s, "sh:result") <=> s = ReportNode(c) /\ o \in Results(c)
    BY <1>1, ReportObjects
  <2> HIDE DEF report
  <2> QED BY <2>1, <2>2
<1>6. flags = {Flag(m)}
  <2>1. \A s, o : <<s, "sh:conforms", o>> \in report <=>
          s = ReportNode(c) /\ o = Flag(m)
    <3> HIDE DEF report
    <3> QED BY <1>1, ReportObjects
  <2> HIDE DEF report, m
  <2>2. \A o \in flags : o = Flag(m)
    BY <1>4, <2>1
  <2>3. Flag(m) \in flags
    <3> DEFINE o == Flag(m)
               t == <<ReportNode(c), "sh:conforms", o>>
    <3>1. t \in report /\ t[2] = "sh:conforms" /\ t[3] = o
      BY <2>1
    <3> HIDE DEF t, o
    <3>2. o \in flags
      BY <3>1
    <3> QED BY <3>2 DEF o
  <2> QED BY <2>2, <2>3
<1>7. Cardinality(nodes) = m
  BY <1>2, <1>5, CountResults DEF Results
<1>8. \A i \in 1..m :
        /\ Objects(report, ResultNode(c, i), "sh:focusNode") = {violations[c][i].focus}
        /\ Objects(report, ResultNode(c, i), "sh:sourceConstraintComponent") = {violations[c][i].component}
        /\ Objects(report, ResultNode(c, i), "sh:sourceShape") = {ShapeIri(violations[c][i].shape)}
        /\ Objects(report, ResultNode(c, i), "sh:value") = violations[c][i].value
  BY <1>1, ReportObjects
<1> HIDE DEF report, nodes, m, flags
<1>9. ASSUME NEW n \in nodes, NEW p \in {"sh:focusNode", "sh:sourceConstraintComponent", "sh:sourceShape"}
      PROVE  Cardinality(Objects(report, n, p)) = 1
  <2>1. PICK i \in 1..m : n = ResultNode(c, i)
    BY <1>5 DEF Results, m
  <2>2. \E x : Objects(report, n, p) = {x}
    BY <1>8, <2>1
  <2> QED BY <2>2, FS_Singleton
<1>10. {<<Objects(report, n, "sh:focusNode"), Objects(report, n, "sh:value"),
          Objects(report, n, "sh:sourceConstraintComponent")>> : n \in nodes}
       = {<<{v.focus}, v.value, {v.component}>> : v \in Range(violations[c])}
  <2> DEFINE of(n) == <<Objects(report, n, "sh:focusNode"), Objects(report, n, "sh:value"),
                        Objects(report, n, "sh:sourceConstraintComponent")>>
             as(v) == <<{v.focus}, v.value, {v.component}>>
  <2>1. \A i \in 1..m : of(ResultNode(c, i)) = as(violations[c][i])
    BY <1>8
  <2>2. nodes = {ResultNode(c, i) : i \in 1..m} /\ Range(violations[c]) = {violations[c][i] : i \in 1..m}
    BY <1>2, <1>5 DEF Results, Range, m
  <2> HIDE DEF of, as
  <2>3. {of(n) : n \in nodes} = {as(v) : v \in Range(violations[c])}
    <3>1. \A n \in nodes : of(n) \in {as(v) : v \in Range(violations[c])}
      BY <2>1, <2>2
    <3>2. \A v \in Range(violations[c]) : as(v) \in {of(n) : n \in nodes}
      BY <2>1, <2>2
    <3> QED BY <3>1, <3>2
  <2> QED BY <2>3 DEF of, as
<1>11. quiet[c] => In(store, call[c].report) = report
  BY <1>1, ReportIs
<1> QED BY <1>2, <1>6, <1>7, <1>9, <1>10, <1>11 DEF report, nodes, flags, Flag

-----------------------------------------------------------------------------
\* A validation that returns has written one complete report, whatever other
\* connections write meanwhile: as many results as the number it returns, each
\* with a node of its own and the violation it was made for, and one
\* sh:conforms; if nobody else has written, the report graph holds nothing else.
THEOREM ReportSafety == Spec => []ReportIsTheAnswer
<1>1. Init => Known
  BY TypeInvInit, ReportInvInit, AnswerInvInit DEF Known
<1>2. Known /\ [Next]_vars => Known'
  BY TypeInvStep, ReportInvStep, AnswerInvStep DEF Known
<1>3. Known => ReportIsTheAnswer
  BY ReportAnswers
<1> QED BY <1>1, <1>2, <1>3, PTL DEF Spec

-----------------------------------------------------------------------------
(* Recursions down a path: what a node means is made of what its parts do, *)
(* with the node among those above them.                                   *)

PartAt(syntax, at, i) == <<PathNode(syntax, at[1]).parts[i], at[2] \cup {at[1]}>>

\* A node that is looked into.
Opened(syntax, at) == at[1] \notin at[2] /\ PathNode(syntax, at[1]).op # "predicate"

\* B[<<at, f>>] is the body of a definition of f, with values in V.
TreeBody(syntax, V, B) ==
  /\ V # {}
  /\ \A at \in Places, f \in [Places -> V] : B[<<at, f>>] \in V
  /\ \A at \in Places, f, g \in [Places -> V] :
       (Opened(syntax, at) =>
          \A i \in DOMAIN PathNode(syntax, at[1]).parts : f[PartAt(syntax, at, i)] = g[PartAt(syntax, at, i)])
       => B[<<at, f>>] = B[<<at, g>>]

\* What is looked into is a blank node with parts, or has none.
LEMMA OpenedParts ==
  ASSUME NEW syntax, IsSyntax(syntax), NEW at \in Places, Opened(syntax, at),
         NEW i \in DOMAIN PathNode(syntax, at[1]).parts
  PROVE  /\ at[1] \in DOMAIN syntax \ at[2]
         /\ PartAt(syntax, at, i) \in Places
         /\ Unseen(Places, DOMAIN syntax)[PartAt(syntax, at, i)] < Unseen(Places, DOMAIN syntax)[at]
<1> DEFINE t == at[1]
           node == PathNode(syntax, t)
<1>1. t \in Terms /\ at[2] \in SUBSET Terms
  BY DEF Places
<1>2. t \in DOMAIN syntax
  <2>1. t \notin Iris
    BY <1>1, PathNodeTyped DEF Opened
  <2>2. t \notin DOMAIN syntax => node = Node("refused", << >>)
    BY <2>1 DEF PathNode
  <2>3. Node("refused", << >>).parts = << >>
    BY DEF Node
  <2> QED BY <2>2, <2>3
<1>3. node.parts[i] \in Terms
  BY <1>1, PathNodeTyped, PartsTyped
<1>4. PartAt(syntax, at, i) \in Places
  BY <1>1, <1>3 DEF Places, PartAt
<1>5. Cardinality(DOMAIN syntax \ (at[2] \cup {t})) < Cardinality(DOMAIN syntax \ at[2])
  BY <1>2, Descent DEF IsSyntax, Opened
<1>6. PartAt(syntax, at, i)[2] = at[2] \cup {t}
  BY DEF PartAt
<1> QED BY <1>2, <1>4, <1>5, <1>6 DEF Opened, Unseen

\* Every recursion down the parts of a path has a solution.
LEMMA TreeSolved ==
  ASSUME NEW syntax, IsSyntax(syntax), NEW V, NEW B, TreeBody(syntax, V, B)
  PROVE  \E f \in [Places -> V] : f = [at \in Places |-> B[<<at, f>>]]
<1> DEFINE rank == Unseen(Places, DOMAIN syntax)
           bound == Cardinality(DOMAIN syntax) + 1
<1>1. rank \in [Places -> Nat] /\ bound \in Nat /\ \A at \in Places : rank[at] < bound
  BY UnseenRanks DEF IsSyntax
<1>2. ASSUME NEW at \in Places, NEW f \in [Places -> V], NEW g \in [Places -> V],
             \A y \in Places : rank[y] < rank[at] => f[y] = g[y]
      PROVE  B[<<at, f>>] = B[<<at, g>>]
  <2>1. ASSUME Opened(syntax, at), NEW i \in DOMAIN PathNode(syntax, at[1]).parts
        PROVE  f[PartAt(syntax, at, i)] = g[PartAt(syntax, at, i)]
    BY <1>2, <2>1, OpenedParts
  <2> QED BY <2>1 DEF TreeBody
<1>3. Recursion(Places, V, V, rank, bound, B)
  <2> HIDE DEF rank, bound
  <2> QED BY <1>1, <1>2 DEF Recursion, TreeBody
<1> HIDE DEF rank, bound
<1> QED BY <1>3, RecursionSolved

\* A property of places holds of all if it holds of one whose parts have it.
LEMMA TreeInduction ==
  ASSUME NEW syntax, IsSyntax(syntax), NEW P,
         \A at \in Places :
           (Opened(syntax, at) => \A i \in DOMAIN PathNode(syntax, at[1]).parts : PartAt(syntax, at, i) \in P)
           => at \in P
  PROVE  Places \subseteq P
<1> DEFINE rank == Unseen(Places, DOMAIN syntax)
<1>1. rank \in [Places -> Nat]
  BY UnseenRanks DEF IsSyntax
<1>2. ASSUME NEW at \in Places, \A y \in Places : rank[y] < rank[at] => y \in P
      PROVE  at \in P
  <2>1. ASSUME Opened(syntax, at), NEW i \in DOMAIN PathNode(syntax, at[1]).parts
        PROVE  PartAt(syntax, at, i) \in P
    BY <1>2, <2>1, OpenedParts
  <2> QED BY <2>1
<1> HIDE DEF rank
<1> QED BY <1>1, <1>2, RankInduction

-----------------------------------------------------------------------------
(* Parsing.                                                                *)

ParseStep(syntax, at, parse) ==
  LET node     == PathNode(syntax, at[1])
      verdicts == [i \in DOMAIN node.parts |-> parse[<<node.parts[i], at[2] \cup {at[1]}>>]]
      failing  == {i \in DOMAIN verdicts : verdicts[i] # "ok"}
  IN  IF at[1] \in at[2] THEN "loops"
      ELSE CASE node.op = "refused"   -> "error"
             [] node.op = "predicate" -> "ok"
             [] OTHER                 -> IF failing = {} THEN "ok" ELSE verdicts[Min(failing)]

IsParse(syntax, parse) ==
  /\ \A at \in Places : parse[at] = ParseStep(syntax, at, parse)
  /\ \A root \in Terms : ParsePath(syntax, root) = parse[<<root, {}>>]

\* What is not refused, a loop or made of such is a path.
LEMMA ParseSteps ==
  ASSUME NEW syntax, IsSyntax(syntax), NEW at \in Places, NEW parse
  PROVE  /\ ParseStep(syntax, at, parse) = "ok" =>
              /\ at[1] \notin at[2] /\ PathNode(syntax, at[1]).op # "refused"
              /\ Opened(syntax, at) =>
                   \A i \in DOMAIN PathNode(syntax, at[1]).parts : parse[PartAt(syntax, at, i)] = "ok"
         /\ \A V : {"ok", "error", "loops"} \subseteq V /\ parse \in [Places -> V] => ParseStep(syntax, at, parse) \in V
<1> DEFINE node == PathNode(syntax, at[1])
           verdicts == [i \in DOMAIN node.parts |-> parse[PartAt(syntax, at, i)]]
           failing == {i \in DOMAIN verdicts : verdicts[i] # "ok"}
           v == ParseStep(syntax, at, parse)
<1>1. v = IF at[1] \in at[2] THEN "loops"
          ELSE CASE node.op = "refused"   -> "error"
                 [] node.op = "predicate" -> "ok"
                 [] OTHER                 -> IF failing = {} THEN "ok" ELSE verdicts[Min(failing)]
  BY DEF ParseStep, PartAt
<1>2. node \in PathNodes
  BY PathNodeTyped DEF Places
<1>3. failing # {} => Min(failing) \in failing
  <2>1. failing \subseteq Nat
    BY <1>2, PartsTyped
  <2> HIDE DEF failing
  <2> QED BY <2>1, MinOf
<1>4. failing # {} => verdicts[Min(failing)] # "ok" /\ Min(failing) \in DOMAIN node.parts
  <2> HIDE DEF verdicts
  <2>1. DOMAIN verdicts = DOMAIN node.parts
    BY DEF verdicts
  <2>2. \A x \in failing : verdicts[x] # "ok" /\ x \in DOMAIN node.parts
    BY <2>1
  <2> HIDE DEF failing
  <2> QED BY <1>3, <2>2
<1>5. failing = {} => \A i \in DOMAIN node.parts : parse[PartAt(syntax, at, i)] = "ok"
  OBVIOUS
<1>6. \A i \in DOMAIN node.parts : verdicts[i] = parse[PartAt(syntax, at, i)]
  OBVIOUS
<1>7. ASSUME Opened(syntax, at), NEW i \in DOMAIN node.parts PROVE PartAt(syntax, at, i) \in Places
  BY <1>7, OpenedParts
<1> HIDE DEF failing, verdicts, node, v
<1>8. v = "ok" => at[1] \notin at[2] /\ node.op # "refused" /\ (node.op # "predicate" => failing = {})
  BY <1>1, <1>4
<1>9. ASSUME NEW V, {"ok", "error", "loops"} \subseteq V, parse \in [Places -> V] PROVE v \in V
  <2>1. at[1] \notin at[2] /\ node.op # "predicate" /\ failing # {} => verdicts[Min(failing)] \in V
    BY <1>4, <1>6, <1>7, <1>9 DEF Opened, node
  <2> QED BY <1>1, <1>9, <2>1
<1> QED BY <1>5, <1>8, <1>9 DEF node, v, Opened

\* That of ParsePath.
LEMMA ParseSolved ==
  ASSUME NEW syntax, IsSyntax(syntax)
  PROVE  \E parse : IsParse(syntax, parse)
<1> DEFINE V == {"ok", "error", "loops"}
           B == [y \in Places \X [Places -> V] |-> ParseStep(syntax, y[1], y[2])]
           W == CHOOSE parse : parse = [at \in Places |-> ParseStep(syntax, at, parse)]
<1>1. \A at \in Places, f \in [Places -> V] : B[<<at, f>>] = ParseStep(syntax, at, f)
  OBVIOUS
<1>2. \A at \in Places, f \in [Places -> V] : ParseStep(syntax, at, f) \in V
  <2> HIDE DEF V
  <2>1. {"ok", "error", "loops"} \subseteq V
    BY DEF V
  <2> QED BY <2>1, ParseSteps
<1>3. ASSUME NEW at \in Places, NEW f \in [Places -> V], NEW g \in [Places -> V],
             Opened(syntax, at) =>
               \A i \in DOMAIN PathNode(syntax, at[1]).parts : f[PartAt(syntax, at, i)] = g[PartAt(syntax, at, i)]
      PROVE  ParseStep(syntax, at, f) = ParseStep(syntax, at, g)
  <2> DEFINE node == PathNode(syntax, at[1])
             vs(h) == [i \in DOMAIN node.parts |-> h[PartAt(syntax, at, i)]]
             body(verdicts) ==
               LET failing == {i \in DOMAIN verdicts : verdicts[i] # "ok"}
               IN  IF at[1] \in at[2] THEN "loops"
                   ELSE CASE node.op = "refused"   -> "error"
                          [] node.op = "predicate" -> "ok"
                          [] OTHER                 -> IF failing = {} THEN "ok" ELSE verdicts[Min(failing)]
  <2>1. \A h : ParseStep(syntax, at, h) = body(vs(h))
    BY DEF ParseStep, PartAt
  <2>2. CASE Opened(syntax, at)
    <3>1. vs(f) = vs(g)
      BY <1>3, <2>2
    <3> HIDE DEF vs, body
    <3> QED BY <2>1, <3>1
  <2>3. CASE ~Opened(syntax, at)
    <3>1. \A s : body(s) = IF at[1] \in at[2] THEN "loops" ELSE "ok"
      <4>1. at[1] \in at[2] \/ node.op = "predicate"
        BY <2>3 DEF Opened
      <4> QED BY <4>1
    <3> HIDE DEF vs, body
    <3> QED BY <2>1, <3>1
  <2> QED BY <2>2, <2>3
<1>4. TreeBody(syntax, V, B)
  <2>1. V # {}
    OBVIOUS
  <2> HIDE DEF V, B
  <2> QED BY <1>1, <1>2, <1>3, <2>1 DEF TreeBody
<1>5. \E parse : parse = [at \in Places |-> ParseStep(syntax, at, parse)]
  <2> HIDE DEF V, B
  <2>1. PICK f \in [Places -> V] : f = [at \in Places |-> B[<<at, f>>]]
    BY <1>4, TreeSolved
  <2> QED BY <1>1, <2>1
<1>6. W = [at \in Places |-> ParseStep(syntax, at, W)]
  BY <1>5
<1>7. \A root : ParsePath(syntax, root) = W[<<root, {}>>]
  BY DEF ParsePath, ParseStep, Places
<1> HIDE DEF W
<1> QED BY <1>6, <1>7 DEF IsParse

-----------------------------------------------------------------------------
(* Operators.                                                              *)

OpsStep(syntax, at, ops) ==
  LET node  == PathNode(syntax, at[1])
      below == {ops[<<node.parts[i], at[2] \cup {at[1]}>>] : i \in DOMAIN node.parts}
  IN  IF at[1] \in at[2] \/ node.op = "predicate" THEN {node.op}
      ELSE {node.op} \cup UNION below

IsOps(syntax, ops) ==
  /\ \A at \in Places : ops[at] = OpsStep(syntax, at, ops)
  /\ \A root \in Terms : OpsOf(syntax, root) = ops[<<root, {}>>]

\* Those of the node and of its parts.
LEMMA OpsSteps ==
  ASSUME NEW syntax, IsSyntax(syntax), NEW at \in Places, NEW ops
  PROVE  /\ PathNode(syntax, at[1]).op \in OpsStep(syntax, at, ops)
         /\ Opened(syntax, at) => \A i \in DOMAIN PathNode(syntax, at[1]).parts :
                                    ops[PartAt(syntax, at, i)] \subseteq OpsStep(syntax, at, ops)
         /\ ops \in [Places -> SUBSET PathOps] => OpsStep(syntax, at, ops) \in SUBSET PathOps
<1> DEFINE node == PathNode(syntax, at[1])
           below == {ops[PartAt(syntax, at, i)] : i \in DOMAIN node.parts}
           v == OpsStep(syntax, at, ops)
<1>1. v = IF at[1] \in at[2] \/ node.op = "predicate" THEN {node.op} ELSE {node.op} \cup UNION below
  BY DEF OpsStep, PartAt
<1>2. \A i \in DOMAIN node.parts : ops[PartAt(syntax, at, i)] \subseteq UNION below
  OBVIOUS
<1>3. node.op \in PathOps
  BY PathNodeTyped DEF Places, PathNodes
<1>4. Opened(syntax, at) /\ ops \in [Places -> SUBSET PathOps] => UNION below \in SUBSET PathOps
  <2> SUFFICES ASSUME Opened(syntax, at), ops \in [Places -> SUBSET PathOps] PROVE UNION below \in SUBSET PathOps
    OBVIOUS
  <2>1. \A i \in DOMAIN node.parts : PartAt(syntax, at, i) \in Places
    BY OpenedParts
  <2>2. \A i \in DOMAIN node.parts : ops[PartAt(syntax, at, i)] \in SUBSET PathOps
    BY <2>1
  <2> QED BY <2>2
<1> HIDE DEF below, node, v
<1> QED BY <1>1, <1>2, <1>3, <1>4 DEF node, v, Opened

\* That of the operators of a path.
LEMMA OpsSolved ==
  ASSUME NEW syntax, IsSyntax(syntax)
  PROVE  \E ops : IsOps(syntax, ops)
<1> DEFINE V == SUBSET PathOps
           B == [y \in Places \X [Places -> V] |-> OpsStep(syntax, y[1], y[2])]
           W == CHOOSE ops : ops = [at \in Places |-> OpsStep(syntax, at, ops)]
<1>1. \A at \in Places, f \in [Places -> V] : B[<<at, f>>] = OpsStep(syntax, at, f)
  OBVIOUS
<1>2. \A at \in Places, f \in [Places -> V] : OpsStep(syntax, at, f) \in V
  BY OpsSteps
<1>3. ASSUME NEW at \in Places, NEW f \in [Places -> V], NEW g \in [Places -> V],
             Opened(syntax, at) =>
               \A i \in DOMAIN PathNode(syntax, at[1]).parts : f[PartAt(syntax, at, i)] = g[PartAt(syntax, at, i)]
      PROVE  OpsStep(syntax, at, f) = OpsStep(syntax, at, g)
  <2> DEFINE node == PathNode(syntax, at[1])
             vs(h) == {h[PartAt(syntax, at, i)] : i \in DOMAIN node.parts}
             body(below) == IF at[1] \in at[2] \/ node.op = "predicate" THEN {node.op}
                            ELSE {node.op} \cup UNION below
  <2>1. \A h : OpsStep(syntax, at, h) = body(vs(h))
    BY DEF OpsStep, PartAt
  <2>2. CASE Opened(syntax, at)
    <3>1. vs(f) = vs(g)
      BY <1>3, <2>2
    <3> HIDE DEF vs, body
    <3> QED BY <2>1, <3>1
  <2>3. CASE ~Opened(syntax, at)
    <3>1. \A s : body(s) = {node.op}
      BY <2>3 DEF Opened
    <3> HIDE DEF vs, body
    <3> QED BY <2>1, <3>1
  <2> QED BY <2>2, <2>3
<1>4. TreeBody(syntax, V, B)
  <2>1. V # {}
    OBVIOUS
  <2> HIDE DEF V, B
  <2> QED BY <1>1, <1>2, <1>3, <2>1 DEF TreeBody
<1>5. \E ops : ops = [at \in Places |-> OpsStep(syntax, at, ops)]
  <2> HIDE DEF V, B
  <2>1. PICK f \in [Places -> V] : f = [at \in Places |-> B[<<at, f>>]]
    BY <1>4, TreeSolved
  <2> QED BY <1>1, <2>1
<1>6. W = [at \in Places |-> OpsStep(syntax, at, W)]
  BY <1>5
<1>7. \A root : OpsOf(syntax, root) = W[<<root, {}>>]
  BY DEF OpsOf, OpsStep, Places
<1> HIDE DEF W
<1> QED BY <1>6, <1>7 DEF IsOps

-----------------------------------------------------------------------------
(* Relations.                                                              *)

RelationStep(syntax, D, N, at, relation) ==
  LET node  == PathNode(syntax, at[1])
      parts == [i \in DOMAIN node.parts |-> relation[<<node.parts[i], at[2] \cup {at[1]}>>]]
  IN  IF at[1] \in at[2] THEN {}
      ELSE CASE node.op = "predicate"          -> {<<t[1], t[3]>> : t \in {u \in D : u[2] = at[1]}}
             [] node.op = "sh:inversePath"     -> Converse(parts[1])
             [] node.op = "sequence"           -> Composed(parts, N)
             [] node.op = "sh:alternativePath" -> UNION {parts[i] : i \in DOMAIN parts}
             [] node.op = "sh:zeroOrMorePath"  -> Closure(parts[1], N) \cup Identity(N)
             [] node.op = "sh:oneOrMorePath"   -> Closure(parts[1], N)
             [] node.op = "sh:zeroOrOnePath"   -> parts[1] \cup Identity(N)
             [] OTHER                          -> {}

Pairs(D, p) == {<<t[1], t[3]>> : t \in {u \in D : u[2] = p}}
PartsOf(syntax, at, relation) ==
  [i \in DOMAIN PathNode(syntax, at[1]).parts |-> relation[PartAt(syntax, at, i)]]

\* What the body says of its value r, case by case.
RelationIs(syntax, D, N, at, relation, r) ==
  LET node  == PathNode(syntax, at[1])
      parts == PartsOf(syntax, at, relation)
  IN  /\ at[1] \in at[2] => r = {}
      /\ at[1] \notin at[2] =>
           /\ node.op = "predicate" => r = Pairs(D, at[1])
           /\ node.op = "refused" => r = {}
           /\ node.op = "sh:inversePath" => r = Converse(parts[1])
           /\ node.op = "sequence" => r = Composed(parts, N)
           /\ node.op = "sh:alternativePath" => r = UNION {parts[i] : i \in DOMAIN parts}
           /\ node.op = "sh:zeroOrMorePath" => r = Closure(parts[1], N) \cup Identity(N)
           /\ node.op = "sh:oneOrMorePath" => r = Closure(parts[1], N)
           /\ node.op = "sh:zeroOrOnePath" => r = parts[1] \cup Identity(N)

\* The relation of a path node by its operator.
LEMMA RelationCases ==
  ASSUME NEW syntax, NEW D, NEW N, NEW at, NEW relation
  PROVE  RelationIs(syntax, D, N, at, relation, RelationStep(syntax, D, N, at, relation))
<1> DEFINE r == RelationStep(syntax, D, N, at, relation)
           node == PathNode(syntax, at[1])
           parts == PartsOf(syntax, at, relation)
<1>1. r = IF at[1] \in at[2] THEN {}
          ELSE CASE node.op = "predicate"          -> Pairs(D, at[1])
                 [] node.op = "sh:inversePath"     -> Converse(parts[1])
                 [] node.op = "sequence"           -> Composed(parts, N)
                 [] node.op = "sh:alternativePath" -> UNION {parts[i] : i \in DOMAIN parts}
                 [] node.op = "sh:zeroOrMorePath"  -> Closure(parts[1], N) \cup Identity(N)
                 [] node.op = "sh:oneOrMorePath"   -> Closure(parts[1], N)
                 [] node.op = "sh:zeroOrOnePath"   -> parts[1] \cup Identity(N)
                 [] OTHER                          -> {}
  BY DEF RelationStep, PartAt, PartsOf, Pairs
<1> HIDE DEF r, node, parts
<1>2. /\ at[1] \in at[2] => r = {}
      /\ at[1] \notin at[2] =>
           /\ node.op = "predicate" => r = Pairs(D, at[1])
           /\ node.op = "refused" => r = {}
           /\ node.op = "sh:inversePath" => r = Converse(parts[1])
           /\ node.op = "sequence" => r = Composed(parts, N)
  BY <1>1
<1>3. at[1] \notin at[2] =>
        /\ node.op = "sh:alternativePath" => r = UNION {parts[i] : i \in DOMAIN parts}
        /\ node.op = "sh:zeroOrMorePath" => r = Closure(parts[1], N) \cup Identity(N)
        /\ node.op = "sh:oneOrMorePath" => r = Closure(parts[1], N)
        /\ node.op = "sh:zeroOrOnePath" => r = parts[1] \cup Identity(N)
  BY <1>1
<1> QED BY <1>2, <1>3 DEF RelationIs, r, node, parts

\* Closures and compositions are relations on N.
LEMMA ClosureTyped ==
  ASSUME NEW R, NEW N
  PROVE  Closure(R, N) \in SUBSET (N \X N) /\ Identity(N) \in SUBSET (N \X N)
<1>1. Identity(N) \in SUBSET (N \X N)
  BY DEF Identity
<1>2. ASSUME NEW x \in Closure(R, N) PROVE x \in N \X N
  <2>1. PICK a \in N : x \in LET closed == {S \in SUBSET N : \A r \in R : r[1] \in {a} \cup S => r[2] \in S}
                             IN  {<<a, b>> : b \in {n \in N : \A S \in closed : n \in S}}
    BY <1>2 DEF Closure
  <2> QED BY <2>1
<1> QED BY <1>1, <1>2

\* b is in every set that has what a leads to and is closed.
LEMMA ClosureMembers ==
  ASSUME NEW R, NEW N, NEW a, NEW b
  PROVE  <<a, b>> \in Closure(R, N) <=>
           /\ a \in N /\ b \in N
           /\ \A S \in SUBSET N : (\A r \in R : r[1] \in {a} \cup S => r[2] \in S) => b \in S
<1> DEFINE closed(x) == {S \in SUBSET N : \A r \in R : r[1] \in {x} \cup S => r[2] \in S}
           from(x) == {<<x, y>> : y \in {n \in N : \A S \in closed(x) : n \in S}}
<1>1. Closure(R, N) = UNION {from(x) : x \in N}
  BY DEF Closure
<1>2. \A x : <<a, b>> \in from(x) <=> a = x /\ b \in N /\ \A S \in closed(x) : b \in S
  <2> SUFFICES ASSUME NEW x PROVE <<a, b>> \in from(x) <=> a = x /\ b \in N /\ \A S \in closed(x) : b \in S
    OBVIOUS
  <2> HIDE DEF closed
  <2> QED OBVIOUS
<1>3. <<a, b>> \in Closure(R, N) <=> a \in N /\ b \in N /\ \A S \in closed(a) : b \in S
  <2> HIDE DEF from, closed
  <2> QED BY <1>1, <1>2
<1> QED BY <1>3

\* A composition relates nodes.
LEMMA ComposedTyped ==
  ASSUME NEW relations, NEW N, Len(relations) \in Nat
  PROVE  Composed(relations, N) \in SUBSET (N \X N)
<1>1. 0 \in 0..Len(relations) /\ Len(relations) \in 0..Len(relations)
  OBVIOUS
<1> QED BY <1>1 DEF Composed

\* It relates the ends of a way through its relations.
LEMMA ComposedMembers ==
  ASSUME NEW relations, NEW N, Len(relations) \in Nat, NEW a, NEW b
  PROVE  <<a, b>> \in Composed(relations, N) <=>
           \E w \in [0..Len(relations) -> N] :
             /\ w[0] = a /\ w[Len(relations)] = b
             /\ \A i \in 1..Len(relations) : <<w[i - 1], w[i]>> \in relations[i]
<1> DEFINE W == {w \in [0..Len(relations) -> N] : \A i \in 1..Len(relations) : <<w[i - 1], w[i]>> \in relations[i]}
<1>1. Composed(relations, N) = {<<w[0], w[Len(relations)]>> : w \in W}
  BY DEF Composed
<1>2. <<a, b>> \in Composed(relations, N) <=> \E w \in W : a = w[0] /\ b = w[Len(relations)]
  <2> HIDE DEF W
  <2> QED BY <1>1
<1> QED BY <1>2

\* The converse, by its members.
LEMMA ConverseTyped ==
  ASSUME NEW R, NEW N, R \in SUBSET (N \X N)
  PROVE  /\ Converse(R) \in SUBSET (N \X N)
         /\ \A a, b : <<a, b>> \in Converse(R) <=> <<b, a>> \in R
<1>1. \A r \in R : r = <<r[1], r[2]>>
  OBVIOUS
<1>2. \A a, b : <<a, b>> \in Converse(R) <=> <<b, a>> \in R
  BY <1>1 DEF Converse
<1> QED BY <1>2 DEF Converse

\* The same, of a relation known to be a converse.
LEMMA ConverseOf ==
  ASSUME NEW R, NEW N, R \in SUBSET (N \X N), NEW Q, Q = Converse(R)
  PROVE  /\ Q \in SUBSET (N \X N)
         /\ \A a, b : <<a, b>> \in Q <=> <<b, a>> \in R
  BY ConverseTyped

\* The relation of a predicate.
LEMMA PairsTyped ==
  ASSUME NEW D \in SUBSET Triples, NEW p, NEW N, Nodes(D) \subseteq N
  PROVE  /\ Pairs(D, p) \in SUBSET (N \X N)
         /\ \A a, b : <<a, b>> \in Pairs(D, p) <=> <<a, p, b>> \in D
<1>1. \A t \in D : t = <<t[1], t[2], t[3]>>
  BY DEF Triples
<1>2. \A a, b : <<a, b>> \in Pairs(D, p) <=> <<a, p, b>> \in D
  BY <1>1 DEF Pairs
<1>3. Pairs(D, p) \in SUBSET (N \X N)
  BY DEF Pairs, Nodes
<1> QED BY <1>2, <1>3

IsRelation(syntax, D, N, relation) ==
  /\ \A at \in Places : RelationIs(syntax, D, N, at, relation, relation[at])
  /\ \A root \in Terms : PathRelation(syntax, root, D, N) = relation[<<root, {}>>]

\* A path relates nodes if its parts do.
LEMMA RelationIsTyped ==
  ASSUME NEW syntax, IsSyntax(syntax), NEW D \in SUBSET Triples, NEW N, Nodes(D) \subseteq N,
         NEW at \in Places, NEW f, NEW r, RelationIs(syntax, D, N, at, f, r),
         Opened(syntax, at) =>
           \A i \in DOMAIN PathNode(syntax, at[1]).parts : f[PartAt(syntax, at, i)] \in SUBSET (N \X N)
  PROVE  r \in SUBSET (N \X N)
<1> DEFINE node == PathNode(syntax, at[1])
           parts == PartsOf(syntax, at, f)
<1>2. node \in PathNodes /\ Len(node.parts) \in Nat /\ DOMAIN node.parts = 1..Len(node.parts)
  BY PathNodeTyped, PartsTyped DEF Places
<1>3. DOMAIN parts = DOMAIN node.parts /\ Len(parts) = Len(node.parts)
  BY <1>2 DEF PartsOf
<1>4. ASSUME Opened(syntax, at), NEW i \in DOMAIN node.parts PROVE parts[i] \in SUBSET (N \X N)
  BY <1>4 DEF PartsOf
<1>5. node.op \in Unary => 1 \in DOMAIN node.parts
  BY <1>2, PartsTyped
<1> HIDE DEF parts
<1>6. CASE at[1] \in at[2] \/ node.op \in {"predicate", "refused"}
  BY <1>6, PairsTyped DEF RelationIs
<1>7. CASE at[1] \notin at[2] /\ node.op \in Unary
  <2>1. parts[1] \in SUBSET (N \X N)
    BY <1>4, <1>5, <1>7, MarkersAre DEF Opened
  <2>2. Closure(parts[1], N) \in SUBSET (N \X N) /\ Identity(N) \in SUBSET (N \X N)
        /\ Converse(parts[1]) \in SUBSET (N \X N)
    BY <2>1, ClosureTyped, ConverseTyped
  <2> QED BY <1>7, <2>1, <2>2 DEF RelationIs, Unary, parts
<1>8. CASE at[1] \notin at[2] /\ node.op = "sequence"
  BY <1>2, <1>3, <1>8, ComposedTyped DEF RelationIs, parts
<1>9. CASE at[1] \notin at[2] /\ node.op = "sh:alternativePath"
  <2>1. r = UNION {parts[i] : i \in DOMAIN parts}
    BY <1>9 DEF RelationIs, parts
  <2>2. \A i \in DOMAIN parts : parts[i] \in SUBSET (N \X N)
    BY <1>3, <1>4, <1>9 DEF Opened
  <2> QED BY <2>1, <2>2
<1>10. node.op \in {"predicate", "refused", "sequence", "sh:alternativePath"} \cup Unary
  BY <1>2, OpCases DEF Unary
<1> QED BY <1>6, <1>7, <1>8, <1>9, <1>10

\* So does the step of the recursion.
LEMMA RelationStepTyped ==
  ASSUME NEW syntax, IsSyntax(syntax), NEW D \in SUBSET Triples, NEW N, Nodes(D) \subseteq N,
         NEW at \in Places, NEW f \in [Places -> SUBSET (N \X N)]
  PROVE  RelationStep(syntax, D, N, at, f) \in SUBSET (N \X N)
<1>1. RelationIs(syntax, D, N, at, f, RelationStep(syntax, D, N, at, f))
  BY RelationCases
<1>2. Opened(syntax, at) =>
        \A i \in DOMAIN PathNode(syntax, at[1]).parts : f[PartAt(syntax, at, i)] \in SUBSET (N \X N)
  BY OpenedParts
<1> QED BY <1>1, <1>2, RelationIsTyped

\* A relation relates nodes, wherever it is defined.
LEMMA RelationTyped ==
  ASSUME NEW syntax, IsSyntax(syntax), NEW D \in SUBSET Triples, NEW N, Nodes(D) \subseteq N,
         NEW relation, IsRelation(syntax, D, N, relation)
  PROVE  \A at \in Places : relation[at] \in SUBSET (N \X N)
<1> DEFINE P == {at \in Places : relation[at] \in SUBSET (N \X N)}
<1>1. ASSUME NEW at \in Places,
             Opened(syntax, at) => \A i \in DOMAIN PathNode(syntax, at[1]).parts : PartAt(syntax, at, i) \in P
      PROVE  at \in P
  <2>1. RelationIs(syntax, D, N, at, relation, relation[at])
    BY DEF IsRelation
  <2>2. Opened(syntax, at) =>
          \A i \in DOMAIN PathNode(syntax, at[1]).parts : relation[PartAt(syntax, at, i)] \in SUBSET (N \X N)
    BY <1>1
  <2> QED BY <2>1, <2>2, RelationIsTyped
<1> HIDE DEF P
<1>2. Places \subseteq P
  BY <1>1, TreeInduction
<1> QED BY <1>2 DEF P

\* The recursion of PathRelation has a solution.
LEMMA RelationSolved ==
  ASSUME NEW syntax, IsSyntax(syntax), NEW D \in SUBSET Triples, NEW N, Nodes(D) \subseteq N
  PROVE  \E relation : IsRelation(syntax, D, N, relation)
<1> DEFINE V == SUBSET (N \X N)
           B == [y \in Places \X [Places -> V] |-> RelationStep(syntax, D, N, y[1], y[2])]
           W == CHOOSE relation : relation = [at \in Places |-> RelationStep(syntax, D, N, at, relation)]
<1>1. \A at \in Places, f \in [Places -> V] : B[<<at, f>>] = RelationStep(syntax, D, N, at, f)
  OBVIOUS
<1>2. \A at \in Places, f \in [Places -> V] : RelationStep(syntax, D, N, at, f) \in V
  BY RelationStepTyped
<1>3. ASSUME NEW at \in Places, NEW f \in [Places -> V], NEW g \in [Places -> V],
             Opened(syntax, at) =>
               \A i \in DOMAIN PathNode(syntax, at[1]).parts : f[PartAt(syntax, at, i)] = g[PartAt(syntax, at, i)]
      PROVE  RelationStep(syntax, D, N, at, f) = RelationStep(syntax, D, N, at, g)
  <2> DEFINE node == PathNode(syntax, at[1])
             body(parts) ==
               IF at[1] \in at[2] THEN {}
               ELSE CASE node.op = "predicate"          -> Pairs(D, at[1])
                      [] node.op = "sh:inversePath"     -> Converse(parts[1])
                      [] node.op = "sequence"           -> Composed(parts, N)
                      [] node.op = "sh:alternativePath" -> UNION {parts[i] : i \in DOMAIN parts}
                      [] node.op = "sh:zeroOrMorePath"  -> Closure(parts[1], N) \cup Identity(N)
                      [] node.op = "sh:oneOrMorePath"   -> Closure(parts[1], N)
                      [] node.op = "sh:zeroOrOnePath"   -> parts[1] \cup Identity(N)
                      [] OTHER                          -> {}
  <2>1. \A h : RelationStep(syntax, D, N, at, h) = body(PartsOf(syntax, at, h))
    BY DEF RelationStep, PartAt, PartsOf, Pairs
  <2>2. CASE Opened(syntax, at)
    <3>1. PartsOf(syntax, at, f) = PartsOf(syntax, at, g)
      BY <1>3, <2>2 DEF PartsOf
    <3> HIDE DEF body
    <3> QED BY <2>1, <3>1
  <2>3. CASE ~Opened(syntax, at)
    <3>1. \A s : body(s) = IF at[1] \in at[2] THEN {} ELSE Pairs(D, at[1])
      BY <2>3 DEF Opened
    <3> HIDE DEF body
    <3> QED BY <2>1, <3>1
  <2> QED BY <2>2, <2>3
<1>4. TreeBody(syntax, V, B)
  <2>1. V # {}
    OBVIOUS
  <2> HIDE DEF V, B
  <2> QED BY <1>1, <1>2, <1>3, <2>1 DEF TreeBody
<1>5. \E relation : relation = [at \in Places |-> RelationStep(syntax, D, N, at, relation)]
  <2> HIDE DEF V, B
  <2>1. PICK f \in [Places -> V] : f = [at \in Places |-> B[<<at, f>>]]
    BY <1>4, TreeSolved
  <2> QED BY <1>1, <2>1
<1>6. W = [at \in Places |-> RelationStep(syntax, D, N, at, W)]
  BY <1>5
<1>7. \A root : PathRelation(syntax, root, D, N) = W[<<root, {}>>]
  BY DEF PathRelation, RelationStep, Places
<1> HIDE DEF W
<1>8. \A at \in Places : W[at] = RelationStep(syntax, D, N, at, W)
  BY <1>6
<1> QED BY <1>7, <1>8, RelationCases DEF IsRelation

-----------------------------------------------------------------------------
(* Hops and relations.  N are the nodes, P those of them that can be       *)
(* walked on from.                                                         *)

Ground(P, N) ==
  /\ IsFiniteSet(P) /\ P \subseteq N
  /\ \A x \in N : (x \in P <=> x \in Subjects) /\ (x \in P <=> x \notin Literals)

\* A hop leads nowhere that the relation does not.
Sound(R, hop, P) == \A f \in P : \A b \in hop[f] : <<f, b>> \in R

\* It leads to all but literals.
Complete(R, hop, P) == \A f \in P : \A b : <<f, b>> \in R /\ b \notin Literals => b \in hop[f]

\* It leads to all.
Exact(R, hop, P) == \A f \in P : \A b : <<f, b>> \in R <=> b \in hop[f]

\* A literal leads to itself at most; a literal leads nowhere.
Ends(R) == \A a, b : <<a, b>> \in R /\ a \in Literals => b = a
Starts(R) == \A a, b : <<a, b>> \in R => a \notin Literals

\* Hops between terms, walked on from those that are no literals.
LEMMA GroundHops ==
  ASSUME NEW P, NEW N, Ground(P, N), NEW hop \in [P -> SUBSET N]
  PROVE  /\ IsHops(hop, P)
         /\ \A S \in SUBSET N : Onward(S) \subseteq P /\ StepFrom(hop, Onward(S)) \in SUBSET N
<1>1. \A S \in SUBSET N : Onward(S) \subseteq P
  BY DEF Onward, Ground
<1>2. \A S \in SUBSET P : StepFrom(hop, S) \in SUBSET N
  BY DEF StepFrom
<1> QED BY <1>1, <1>2 DEF IsHops, Ground

\* Closures find what the closure of the relation has.
LEMMA ClosuresSound ==
  ASSUME NEW P, NEW N, Ground(P, N), NEW R, NEW hop \in [P -> SUBSET N], Sound(R, hop, P), NEW f \in P
  PROVE  /\ \A b \in OneOrMore(hop, f) : <<f, b>> \in Closure(R, N)
         /\ \A b \in ZeroOrMore(hop, f) : b = f \/ <<f, b>> \in Closure(R, N)
<1> DEFINE C == Closure(R, N)
           T == {b \in P : <<f, b>> \in C}
           Z == T \cup {f}
           F == Onward(hop[f])
<1>1. P \subseteq N /\ IsHops(hop, P) /\ F \in SUBSET P /\ hop[f] \subseteq N
  <2>1. hop[f] \in SUBSET N
    OBVIOUS
  <2>2. IsHops(hop, P) /\ \A S \in SUBSET N : Onward(S) \in SUBSET P
    BY GroundHops
  <2> QED BY <2>1, <2>2 DEF Ground
<1>2. ASSUME NEW x \in Z, NEW y \in hop[x] PROVE <<f, y>> \in C
  <2>1. <<x, y>> \in R /\ y \in N /\ f \in N
    BY <1>1, <1>2 DEF Sound
  <2>2. ASSUME NEW S \in SUBSET N, \A r \in R : r[1] \in {f} \cup S => r[2] \in S PROVE y \in S
    <3>1. x \in {f} \cup S
      BY <1>1, <2>2, ClosureMembers
    <3> DEFINE r == <<x, y>>
    <3>2. r \in R /\ r[1] = x /\ r[2] = y
      BY <2>1
    <3> HIDE DEF r
    <3> QED BY <2>2, <3>1, <3>2
  <2> QED BY <2>1, <2>2, ClosureMembers
<1> HIDE DEF C
<1>3. ASSUME NEW x \in Z, NEW y \in Onward(hop[x]) PROVE y \in T
  <2>1. y \in hop[x]
    BY DEF Onward
  <2>2. y \in P
    BY <1>1 DEF IsHops
  <2> QED BY <1>2, <2>1, <2>2
<1>4. T \in SUBSET P /\ Z \in SUBSET P /\ F \subseteq T /\ {f} \subseteq Z
  BY <1>3
<1>5. IsClosed(hop, T) /\ IsClosed(hop, Z)
  BY <1>3 DEF IsClosed
<1> HIDE DEF T, Z, F
<1>6. Reached(hop, F) \subseteq T /\ Reached(hop, {f}) \subseteq Z
  <2>1. {f} \in SUBSET P
    OBVIOUS
  <2> QED BY <1>1, <1>4, <1>5, <2>1, ReachedLeast
<1>7. \A b \in hop[f] : <<f, b>> \in C
  BY <1>2 DEF Z
<1> QED BY <1>6, <1>7 DEF OneOrMore, ZeroOrMore, F, T, Z, C

\* And miss nothing but literals.
LEMMA ClosuresComplete ==
  ASSUME NEW P, NEW N, Ground(P, N), NEW R \in SUBSET (N \X N), NEW hop \in [P -> SUBSET N],
         Complete(R, hop, P), Ends(R), NEW f \in P, NEW b, <<f, b>> \in Closure(R, N), b \notin Literals
  PROVE  b \in OneOrMore(hop, f) /\ b \in ZeroOrMore(hop, f)
<1>1. P \subseteq N /\ IsHops(hop, P) /\ Onward(hop[f]) \in SUBSET P /\ {f} \in SUBSET P
  <2>1. hop[f] \in SUBSET N
    OBVIOUS
  <2>2. IsHops(hop, P) /\ \A S \in SUBSET N : Onward(S) \in SUBSET P
    BY GroundHops
  <2> QED BY <2>1, <2>2 DEF Ground
<1>2. \A x \in N : x \in Literals \/ (x \in P /\ x \in Subjects)
  BY DEF Ground
<1>3. ASSUME NEW G \in SUBSET P, IsClosed(hop, G), Onward(hop[f]) \subseteq G PROVE b \in G
  <2> DEFINE S == G \cup (N \cap Literals)
  <2>1. ASSUME NEW r \in R, r[1] \in {f} \cup S PROVE r[2] \in S
    <3>1. r = <<r[1], r[2]>> /\ r[1] \in N /\ r[2] \in N
      OBVIOUS
    <3>2. CASE r[2] \in Literals
      BY <3>1, <3>2
    <3>3. CASE r[2] \notin Literals /\ r[1] \in Literals
      BY <3>1, <3>3 DEF Ends
    <3>4. CASE r[2] \notin Literals /\ r[1] \notin Literals
      <4>1. r[1] \in {f} \cup G /\ r[1] \in P
        BY <2>1, <3>4, <1>3
      <4>2. r[2] \in hop[r[1]] /\ r[2] \in Subjects
        BY <3>1, <3>4, <4>1, <1>2 DEF Complete
      <4>3. r[2] \in Onward(hop[r[1]])
        BY <4>2 DEF Onward
      <4> QED BY <1>3, <4>1, <4>3 DEF IsClosed
    <3> QED BY <3>2, <3>3, <3>4
  <2>2. S \in SUBSET N
    BY <1>1
  <2>3. b \in S
    <3> HIDE DEF S
    <3> QED BY <2>1, <2>2, ClosureMembers
  <2> QED BY <2>3
<1>4. /\ Onward(hop[f]) \subseteq Reached(hop, Onward(hop[f]))
      /\ Reached(hop, Onward(hop[f])) \in SUBSET P /\ IsClosed(hop, Reached(hop, Onward(hop[f])))
  BY <1>1, ReachedLeast
<1>5. /\ f \in Reached(hop, {f}) /\ Reached(hop, {f}) \in SUBSET P /\ IsClosed(hop, Reached(hop, {f}))
  BY <1>1, ReachedLeast
<1>6. Onward(hop[f]) \subseteq Reached(hop, {f})
  BY <1>5 DEF IsClosed
<1>7. b \in Reached(hop, Onward(hop[f])) /\ b \in Reached(hop, {f})
  BY <1>3, <1>4, <1>5, <1>6
<1> QED BY <1>7 DEF OneOrMore, ZeroOrMore

\* A closure ends where its relation ends.
LEMMA ClosureEnds ==
  ASSUME NEW R, NEW N, R \in SUBSET (N \X N), Ends(R) PROVE Ends(Closure(R, N))
<1> SUFFICES ASSUME NEW a, NEW b, <<a, b>> \in Closure(R, N), a \in Literals PROVE b = a
  BY DEF Ends
<1>1. a \in N
  BY ClosureMembers
<1>2. \A r \in R : r = <<r[1], r[2]>>
  OBVIOUS
<1> DEFINE S == {a}
<1>3. \A r \in R : r[1] \in {a} \cup S => r[2] \in S
  BY <1>2 DEF Ends
<1>4. S \in SUBSET N
  BY <1>1
<1>5. b \in S
  <2> HIDE DEF S
  <2> QED BY <1>3, <1>4, ClosureMembers
<1> QED BY <1>5

-----------------------------------------------------------------------------
(* One after the other.                                                    *)

\* Relations and hops, one for each part.
Rows(rels, hops, P, N) ==
  /\ Len(rels) \in Nat /\ Len(hops) = Len(rels)
  /\ \A i \in 1..Len(rels) : rels[i] \in SUBSET (N \X N) /\ hops[i] \in [P -> SUBSET N]

\* A walk along the relations.
IsWay(rels, N, k, a, b, u) ==
  /\ u \in [0..k -> N] /\ u[0] = a /\ u[k] = b
  /\ \A i \in 1..k : <<u[i - 1], u[i]>> \in rels[i]

\* The hops of a sequence stay among the nodes.
LEMMA RowsStay ==
  ASSUME NEW P, NEW N, Ground(P, N), NEW rels, NEW hops, Rows(rels, hops, P, N), NEW f \in P
  PROVE  Stays(SUBSET N, hops, f)
<1>1. {f} \in SUBSET N
  BY DEF Ground
<1> QED BY <1>1, GroundHops DEF Stays, Rows

\* A way that goes one hop further.
LEMMA LongerWalk ==
  ASSUME NEW rels, NEW N, NEW k \in Nat, NEW a, NEW g, NEW u, IsWay(rels, N, k, a, g, u),
         NEW b \in N, <<g, b>> \in rels[k + 1]
  PROVE  \E v : IsWay(rels, N, k + 1, a, b, v)
<1> DEFINE v == [j \in 0..(k + 1) |-> IF j = k + 1 THEN b ELSE u[j]]
<1>1. \A j \in 0..(k + 1) : j # k + 1 => j \in 0..k
  OBVIOUS
<1>2. v \in [0..(k + 1) -> N]
  BY <1>1 DEF IsWay
<1>3. v[0] = a /\ v[k + 1] = b
  BY DEF IsWay
<1>4. ASSUME NEW i \in 1..(k + 1) PROVE <<v[i - 1], v[i]>> \in rels[i]
  <2>1. i - 1 \in 0..(k + 1) /\ i \in 0..(k + 1) /\ i - 1 # k + 1
    OBVIOUS
  <2>2. CASE i = k + 1
    <3>1. v[i - 1] = u[k] /\ v[i] = b
      BY <2>1, <2>2
    <3> HIDE DEF v
    <3> QED BY <3>1, <2>2 DEF IsWay
  <2>3. CASE i # k + 1
    <3>1. v[i - 1] = u[i - 1] /\ v[i] = u[i] /\ i \in 1..k
      BY <2>1, <2>3
    <3> HIDE DEF v
    <3> QED BY <3>1 DEF IsWay
  <2> QED BY <2>2, <2>3
<1> HIDE DEF v
<1> QED BY <1>2, <1>3, <1>4 DEF IsWay

\* A sequence of hops finds only what the composition relates.
LEMMA AlongSound ==
  ASSUME NEW P, NEW N, Ground(P, N), NEW rels, NEW hops, Rows(rels, hops, P, N), NEW f \in P,
         \A i \in 1..Len(rels) : Sound(rels[i], hops[i], P)
  PROVE  \A b \in Along(hops, f) : <<f, b>> \in Composed(rels, N)
<1> DEFINE k == Len(rels)
<1>1. PICK w : IsWalked(SUBSET N, hops, f, w)
  BY RowsStay, AlongSteps
<1>2. k \in Nat /\ Len(hops) = k
  BY DEF Rows
<1> DEFINE Q == {i \in 0..k : \A b \in w[i] : \E u : IsWay(rels, N, i, f, b, u)}
<1>3. 0 \in Q
  <2>1. w[0] = {f}
    BY <1>1 DEF IsWalked
  <2>2. IsWay(rels, N, 0, f, f, [i \in 0..0 |-> f])
    BY DEF IsWay, Ground
  <2> QED BY <1>2, <2>1, <2>2
<1>4. ASSUME NEW i \in 0..(k - 1), i \in Q PROVE i + 1 \in Q
  <2>1. i \in Nat /\ i + 1 \in 1..k /\ i + 1 \in 0..k /\ (i + 1) - 1 = i /\ i \in 0..k
    BY <1>2
  <2>2. w[i + 1] = StepFrom(hops[i + 1], Onward(w[i])) /\ w[i] \in SUBSET N
    BY <1>1, <1>2, <2>1 DEF IsWalked
  <2>3. ASSUME NEW b \in w[i + 1] PROVE \E u : IsWay(rels, N, i + 1, f, b, u)
    <3>1. PICK g \in Onward(w[i]) : b \in hops[i + 1][g]
      BY <2>2, <2>3 DEF StepFrom
    <3>2. g \in w[i] /\ g \in P
      BY <2>2, <3>1, GroundHops DEF Onward, Ground
    <3>3. <<g, b>> \in rels[i + 1] /\ b \in N
      BY <2>1, <3>1, <3>2 DEF Sound, Rows
    <3>4. PICK u : IsWay(rels, N, i, f, g, u)
      BY <1>4, <3>2
    <3> QED BY <2>1, <3>3, <3>4, LongerWalk
  <2> QED BY <2>1, <2>3
<1>5. 0..k \subseteq Q
  <2> HIDE DEF Q, k
  <2> QED BY <1>2, <1>3, <1>4, NumberInduction
<1>6. ASSUME NEW b \in Along(hops, f) PROVE <<f, b>> \in Composed(rels, N)
  <2>1. b \in w[k] /\ k \in 0..k
    BY <1>1, <1>2 DEF IsWalked
  <2>2. PICK u : IsWay(rels, N, k, f, b, u)
    BY <1>5, <2>1
  <2> QED BY <1>2, <2>2, ComposedMembers DEF IsWay
<1> QED BY <1>6

\* A walk whose every step is a hop.
LEMMA AlongWalk ==
  ASSUME NEW P, NEW N, Ground(P, N), NEW rels, NEW hops, Rows(rels, hops, P, N), NEW f \in P, NEW b, NEW u,
         IsWay(rels, N, Len(rels), f, b, u),
         \A i \in 1..Len(rels) : u[i - 1] \in P /\ u[i] \in hops[i][u[i - 1]]
  PROVE  b \in Along(hops, f)
<1> DEFINE k == Len(rels)
<1>1. PICK w : IsWalked(SUBSET N, hops, f, w)
  BY RowsStay, AlongSteps
<1>2. k \in Nat /\ Len(hops) = k
  BY DEF Rows
<1> DEFINE Q == {i \in 0..k : u[i] \in w[i]}
<1>3. 0 \in Q
  BY <1>1, <1>2 DEF IsWalked, IsWay
<1>4. ASSUME NEW i \in 0..(k - 1), i \in Q PROVE i + 1 \in Q
  <2>1. i + 1 \in 1..k /\ i + 1 \in 0..k /\ (i + 1) - 1 = i
    BY <1>2
  <2>2. w[i + 1] = StepFrom(hops[i + 1], Onward(w[i]))
    BY <1>1, <1>2, <2>1 DEF IsWalked
  <2>3. u[i] \in P /\ u[i + 1] \in hops[i + 1][u[i]] /\ u[i] \in w[i]
    BY <1>4, <2>1
  <2>4. u[i] \in Onward(w[i])
    BY <2>3 DEF Onward, Ground
  <2>5. u[i + 1] \in StepFrom(hops[i + 1], Onward(w[i]))
    BY <2>3, <2>4 DEF StepFrom
  <2> QED BY <2>1, <2>2, <2>5
<1>5. 0..k \subseteq Q
  <2> HIDE DEF Q, k
  <2> QED BY <1>2, <1>3, <1>4, NumberInduction
<1>6. k \in 0..k
  BY <1>2
<1> QED BY <1>1, <1>2, <1>5, <1>6 DEF IsWalked, IsWay

\* A walk that meets a literal stays there.
LEMMA WalkStops ==
  ASSUME NEW rels, NEW N, NEW k \in Nat, NEW a, NEW b, NEW u, IsWay(rels, N, k, a, b, u),
         \A i \in 1..k : Ends(rels[i]), NEW i \in 0..k, u[i] \in Literals
  PROVE  b = u[i]
<1> DEFINE Q == {d \in 0..(k - i) : u[i + d] = u[i]}
<1>1. 0 \in Q /\ k - i \in Nat
  OBVIOUS
<1>2. ASSUME NEW d \in 0..(k - i - 1), d \in Q PROVE d + 1 \in Q
  <2>1. i + d + 1 \in 1..k /\ (i + d + 1) - 1 = i + d /\ d + 1 \in 0..(k - i) /\ i + (d + 1) = i + d + 1
    BY <1>1
  <2>2. <<u[i + d], u[i + d + 1]>> \in rels[i + d + 1] /\ Ends(rels[i + d + 1]) /\ u[i + d] = u[i]
    BY <2>1, <1>2 DEF IsWay
  <2>3. u[i + d + 1] = u[i + d]
    BY <2>2 DEF Ends
  <2> QED BY <2>1, <2>2, <2>3
<1>3. 0..(k - i) \subseteq Q
  <2> HIDE DEF Q
  <2> DEFINE m == k - i
  <2>1. m \in Nat /\ \A d \in 0..(m - 1) : d \in Q => d + 1 \in Q
    BY <1>1, <1>2
  <2> HIDE DEF m
  <2>2. 0..m \subseteq Q
    BY <1>1, <2>1, NumberInduction
  <2> QED BY <2>2 DEF m
<1>4. k - i \in 0..(k - i) /\ i + (k - i) = k
  BY <1>1
<1> QED BY <1>3, <1>4 DEF IsWay

\* It finds all of it but literals.
LEMMA AlongComplete ==
  ASSUME NEW P, NEW N, Ground(P, N), NEW rels, NEW hops, Rows(rels, hops, P, N), NEW f \in P,
         \A i \in 1..Len(rels) : Complete(rels[i], hops[i], P) /\ Ends(rels[i]),
         NEW b, <<f, b>> \in Composed(rels, N), b \notin Literals
  PROVE  b \in Along(hops, f)
<1> DEFINE k == Len(rels)
<1>1. k \in Nat
  BY DEF Rows
<1>2. PICK u : IsWay(rels, N, k, f, b, u)
  BY <1>1, ComposedMembers DEF IsWay
<1>3. \A i \in 0..k : u[i] \notin Literals /\ u[i] \in N
  BY <1>1, <1>2, WalkStops DEF IsWay
<1>4. ASSUME NEW i \in 1..k PROVE u[i - 1] \in P /\ u[i] \in hops[i][u[i - 1]]
  <2>1. i - 1 \in 0..k /\ i \in 0..k
    BY <1>1
  <2> QED BY <1>2, <1>3, <2>1 DEF Ground, Complete, IsWay
<1> QED BY <1>2, <1>4, AlongWalk

\* And literals too, when each hop does.
LEMMA AlongExact ==
  ASSUME NEW P, NEW N, Ground(P, N), NEW rels, NEW hops, Rows(rels, hops, P, N), NEW f \in P,
         \A i \in 1..Len(rels) : Exact(rels[i], hops[i], P) /\ Starts(rels[i]),
         NEW b, <<f, b>> \in Composed(rels, N)
  PROVE  b \in Along(hops, f)
<1> DEFINE k == Len(rels)
<1>1. k \in Nat
  BY DEF Rows
<1>2. PICK u : IsWay(rels, N, k, f, b, u)
  BY <1>1, ComposedMembers DEF IsWay
<1>4. ASSUME NEW i \in 1..k PROVE u[i - 1] \in P /\ u[i] \in hops[i][u[i - 1]]
  <2>1. i - 1 \in 0..k
    BY <1>1
  <2>2. <<u[i - 1], u[i]>> \in rels[i] /\ u[i - 1] \in N
    BY <1>2, <2>1 DEF IsWay
  <2> QED BY <2>2 DEF Ground, Exact, Starts
<1> QED BY <1>2, <1>4, AlongWalk

\* A composition ends where its last relation ends.
LEMMA ComposedEnds ==
  ASSUME NEW rels, NEW N, Len(rels) \in Nat, \A i \in 1..Len(rels) : Ends(rels[i])
  PROVE  Ends(Composed(rels, N))
<1> SUFFICES ASSUME NEW a, NEW b, <<a, b>> \in Composed(rels, N), a \in Literals PROVE b = a
  BY DEF Ends
<1> DEFINE k == Len(rels)
<1>1. PICK u : IsWay(rels, N, k, a, b, u)
  BY ComposedMembers DEF IsWay
<1>2. 0 \in 0..k /\ u[0] = a /\ k \in Nat
  BY <1>1 DEF IsWay
<1>3. \A i \in 1..k : Ends(rels[i])
  OBVIOUS
<1> HIDE DEF k
<1>4. PICK i \in 0..k : u[i] = a
  BY <1>2
<1>5. u[i] \in Literals
  BY <1>4
<1>6. b = u[i]
  BY <1>1, <1>2, <1>3, <1>5, WalkStops
<1> QED BY <1>4, <1>6

\* It starts where its first relation starts.
LEMMA ComposedStarts ==
  ASSUME NEW rels, NEW N, Len(rels) \in Nat \ {0}, \A i \in 1..Len(rels) : Starts(rels[i])
  PROVE  Starts(Composed(rels, N))
<1> SUFFICES ASSUME NEW a, NEW b, <<a, b>> \in Composed(rels, N) PROVE a \notin Literals
  BY DEF Starts
<1>1. PICK u : IsWay(rels, N, Len(rels), a, b, u)
  BY ComposedMembers DEF IsWay
<1>2. <<u[1 - 1], u[1]>> \in rels[1] /\ u[0] = a /\ 1 - 1 = 0
  BY <1>1 DEF IsWay
<1> QED BY <1>2 DEF Starts

-----------------------------------------------------------------------------
(* What the hops of a path with operators O have to do with its relation.  *)

Repeats == {"sh:zeroOrMorePath", "sh:oneOrMorePath"}

Means(R, hop, P, N, O) ==
  /\ R \in SUBSET (N \X N) /\ hop \in [P -> SUBSET N]
  /\ Sound(R, hop, P)
  /\ "sh:inversePath" \notin O => Complete(R, hop, P) /\ Ends(R)
  /\ O \cap ({"sh:inversePath", "sh:zeroOrOnePath"} \cup Repeats) = {} => Exact(R, hop, P) /\ Starts(R)
  /\ O \cap ({"sh:inversePath", "sequence"} \cup Repeats) = {} => Exact(R, hop, P)

\* Hops that find all there is mean their relation.
LEMMA ExactMeans ==
  ASSUME NEW P, NEW N, NEW R \in SUBSET (N \X N), NEW hop \in [P -> SUBSET N], Exact(R, hop, P), NEW O,
         "sh:inversePath" \in O \/ Starts(R)
  PROVE  Means(R, hop, P, N, O)
<1>1. Sound(R, hop, P) /\ Complete(R, hop, P)
  BY DEF Exact, Sound, Complete
<1>2. Starts(R) => Ends(R)
  BY DEF Starts, Ends
<1> QED BY <1>1, <1>2 DEF Means

\* A predicate.
LEMMA PredicateMeans ==
  ASSUME NEW P, NEW N, Ground(P, N), NEW D \in SUBSET Triples, Nodes(D) \subseteq N, NEW p,
         NEW hop \in [P -> SUBSET N], \A f \in P : hop[f] = Objects(D, f, p), NEW O
  PROVE  Means(Pairs(D, p), hop, P, N, O)
<1>1. \A a, b : <<a, b>> \in Pairs(D, p) <=> <<a, p, b>> \in D
  BY PairsTyped
<1>2. Exact(Pairs(D, p), hop, P)
  <2> SUFFICES ASSUME NEW f \in P, NEW b PROVE <<f, b>> \in Pairs(D, p) <=> b \in hop[f]
    BY DEF Exact
  <2>1. b \in Objects(D, f, p) <=> <<f, p, b>> \in D
    BY ObjectsMembers
  <2> QED BY <1>1, <2>1
<1>3. Starts(Pairs(D, p))
  <2> SUFFICES ASSUME NEW a, NEW b, <<a, b>> \in Pairs(D, p) PROVE a \notin Literals
    BY DEF Starts
  <2>1. <<a, p, b>> \in Triples
    BY <1>1
  <2>2. a \in Subjects
    BY <2>1 DEF Triples
  <2> QED BY <2>2, KindsApart
<1> QED BY <1>2, <1>3, PairsTyped, ExactMeans

\* The inverse of a predicate.
LEMMA InversePredicateMeans ==
  ASSUME NEW P, NEW N, Ground(P, N), NEW D \in SUBSET Triples, Nodes(D) \subseteq N, NEW p,
         NEW hop \in [P -> SUBSET N], \A f \in P : hop[f] = SubjectsWith(D, p, f), NEW O, "sh:inversePath" \in O
  PROVE  Means(Converse(Pairs(D, p)), hop, P, N, O) /\ Exact(Converse(Pairs(D, p)), hop, P)
<1>1. \A a, b : <<a, b>> \in Pairs(D, p) <=> <<a, p, b>> \in D
  BY PairsTyped
<1>2. Pairs(D, p) \in SUBSET (N \X N)
  BY PairsTyped
<1>3. /\ Converse(Pairs(D, p)) \in SUBSET (N \X N)
      /\ \A a, b : <<a, b>> \in Converse(Pairs(D, p)) <=> <<b, a>> \in Pairs(D, p)
  BY <1>2, ConverseTyped
<1>4. Exact(Converse(Pairs(D, p)), hop, P)
  <2> SUFFICES ASSUME NEW f \in P, NEW b PROVE <<f, b>> \in Converse(Pairs(D, p)) <=> b \in hop[f]
    BY DEF Exact
  <2>1. b \in SubjectsWith(D, p, f) <=> <<b, p, f>> \in D
    BY SubjectsMembers
  <2> QED BY <1>1, <1>3, <2>1
<1> QED BY <1>3, <1>4, ExactMeans

\* An inverse that is not of a predicate promises no more than to be sound.
LEMMA InverseMeans ==
  ASSUME NEW P, NEW N, NEW R \in SUBSET (N \X N), NEW hop \in [P -> SUBSET N], Sound(R, hop, P), NEW O,
         "sh:inversePath" \in O
  PROVE  Means(R, hop, P, N, O)
BY DEF Means

\* A sequence.
LEMMA SequenceMeans ==
  ASSUME NEW P, NEW N, Ground(P, N), NEW rels, NEW hops, Rows(rels, hops, P, N), Len(rels) # 0,
         NEW O, "sequence" \in O,
         \A i \in 1..Len(rels) : \E X \in SUBSET O : Means(rels[i], hops[i], P, N, X),
         NEW hop \in [P -> SUBSET N], \A f \in P : hop[f] = Along(hops, f)
  PROVE  Means(Composed(rels, N), hop, P, N, O)
<1> DEFINE R == Composed(rels, N)
           k == Len(rels)
<1>1. k \in Nat \ {0}
  BY DEF Rows
<1>2. R \in SUBSET (N \X N)
  BY <1>1, ComposedTyped
<1>3. Sound(R, hop, P)
  <2>1. \A i \in 1..k : Sound(rels[i], hops[i], P)
    BY DEF Means
  <2> QED BY <2>1, AlongSound DEF Sound
<1>4. ASSUME "sh:inversePath" \notin O PROVE Complete(R, hop, P) /\ Ends(R)
  <2>1. \A i \in 1..k : Complete(rels[i], hops[i], P) /\ Ends(rels[i])
    BY <1>4 DEF Means
  <2>2. Ends(R)
    BY <1>1, <2>1, ComposedEnds
  <2>3. \A f \in P : \A b : <<f, b>> \in R /\ b \notin Literals => b \in Along(hops, f)
    BY <2>1, AlongComplete
  <2> QED BY <2>2, <2>3 DEF Complete
<1>5. ASSUME O \cap ({"sh:inversePath", "sh:zeroOrOnePath"} \cup Repeats) = {}
      PROVE  Exact(R, hop, P) /\ Starts(R)
  <2>1. \A i \in 1..k : Exact(rels[i], hops[i], P) /\ Starts(rels[i])
    BY <1>5 DEF Means
  <2>2. Starts(R)
    BY <1>1, <2>1, ComposedStarts
  <2>3. \A f \in P : \A b : <<f, b>> \in R => b \in Along(hops, f)
    BY <2>1, AlongExact
  <2> QED BY <1>3, <2>2, <2>3 DEF Exact, Sound
<1> QED BY <1>2, <1>3, <1>4, <1>5 DEF Means

\* Each part means what its hop says.
Meant(I, rels, hops, P, N, O) ==
  \A i \in I : \E X \in SUBSET O : Means(rels[i], hops[i], P, N, X)

\* Alternatives.
LEMMA AlternativeMeans ==
  ASSUME NEW P, NEW N, NEW rels, NEW hops, NEW I, NEW O, Meant(I, rels, hops, P, N, O),
         NEW hop \in [P -> SUBSET N], \A f \in P : hop[f] = UNION {hops[i][f] : i \in I}
  PROVE  Means(UNION {rels[i] : i \in I}, hop, P, N, O)
<1> DEFINE R == UNION {rels[i] : i \in I}
<1>1. R \in SUBSET (N \X N)
  BY DEF Meant, Means
<1>2. \A a, b : <<a, b>> \in R <=> \E i \in I : <<a, b>> \in rels[i]
  OBVIOUS
<1>3. \A f \in P : \A b : b \in hop[f] <=> \E i \in I : b \in hops[i][f]
  OBVIOUS
<1> HIDE DEF R
<1>4. Sound(R, hop, P)
  <2>1. \A i \in I : Sound(rels[i], hops[i], P)
    BY DEF Meant, Means
  <2> QED BY <1>2, <1>3, <2>1 DEF Sound
<1>5. ASSUME "sh:inversePath" \notin O PROVE Complete(R, hop, P) /\ Ends(R)
  <2>1. \A i \in I : Complete(rels[i], hops[i], P) /\ Ends(rels[i])
    BY <1>5 DEF Meant, Means
  <2> QED BY <1>2, <1>3, <2>1 DEF Complete, Ends
<1>6. ASSUME \A i \in I : Exact(rels[i], hops[i], P) PROVE Exact(R, hop, P)
  <2> SUFFICES ASSUME NEW f \in P, NEW b PROVE <<f, b>> \in R <=> b \in hop[f]
    BY DEF Exact
  <2>1. \A i \in I : <<f, b>> \in rels[i] <=> b \in hops[i][f]
    BY <1>6 DEF Exact
  <2> QED BY <1>2, <1>3, <2>1
<1>7. ASSUME O \cap ({"sh:inversePath", "sh:zeroOrOnePath"} \cup Repeats) = {}
      PROVE  Exact(R, hop, P) /\ Starts(R)
  <2>1. \A i \in I : Exact(rels[i], hops[i], P) /\ Starts(rels[i])
    BY <1>7 DEF Meant, Means
  <2> QED BY <1>2, <1>6, <2>1 DEF Starts
<1>8. ASSUME O \cap ({"sh:inversePath", "sequence"} \cup Repeats) = {} PROVE Exact(R, hop, P)
  <2>1. \A i \in I : Exact(rels[i], hops[i], P)
    BY <1>8 DEF Meant, Means
  <2> QED BY <1>6, <2>1
<1> QED BY <1>1, <1>4, <1>5, <1>7, <1>8 DEF Means, R

\* The identity, by its members.
LEMMA IdentityMembers ==
  ASSUME NEW N PROVE \A a, b : <<a, b>> \in Identity(N) <=> a \in N /\ b = a
BY DEF Identity

\* A repeated path: the least closure is the transitive one.
LEMMA RepeatMeans ==
  ASSUME NEW P, NEW N, Ground(P, N), NEW R, NEW each, NEW O, NEW X \in SUBSET O, Means(R, each, P, N, X),
         O \cap Repeats # {}, NEW hop \in [P -> SUBSET N]
  PROVE  /\ (\A f \in P : hop[f] = OneOrMore(each, f)) => Means(Closure(R, N), hop, P, N, O)
         /\ (\A f \in P : hop[f] = ZeroOrMore(each, f)) => Means(Closure(R, N) \cup Identity(N), hop, P, N, O)
<1> DEFINE C == Closure(R, N)
           Z == C \cup Identity(N)
<1>1. C \in SUBSET (N \X N) /\ Z \in SUBSET (N \X N) /\ P \subseteq N
  BY ClosureTyped DEF Ground
<1>2. R \in SUBSET (N \X N) /\ each \in [P -> SUBSET N] /\ Sound(R, each, P)
  BY DEF Means
<1>3. \A a, b : <<a, b>> \in Z <=> <<a, b>> \in C \/ (a \in N /\ b = a)
  BY IdentityMembers
<1>4. "sh:inversePath" \notin O => Complete(R, each, P) /\ Ends(R)
  BY DEF Means
<1>5. "sh:inversePath" \notin O => Ends(C) /\ Ends(Z)
  <2>1. "sh:inversePath" \notin O => Ends(C)
    BY <1>2, <1>4, ClosureEnds
  <2> HIDE DEF C, Z
  <2> QED BY <1>3, <2>1 DEF Ends
<1>6. \A f \in P : /\ \A b \in OneOrMore(each, f) : <<f, b>> \in C
                   /\ \A b \in ZeroOrMore(each, f) : b = f \/ <<f, b>> \in C
  BY <1>2, ClosuresSound
<1>7. "sh:inversePath" \notin O =>
        \A f \in P : \A b : <<f, b>> \in C /\ b \notin Literals => b \in OneOrMore(each, f) /\ b \in ZeroOrMore(each, f)
  BY <1>2, <1>4, ClosuresComplete
<1>8. \A f \in P : f \in ZeroOrMore(each, f)
  <2>1. IsHops(each, P) /\ \A f \in P : {f} \in SUBSET P
    BY <1>2, GroundHops
  <2> QED BY <2>1, ReachedLeast DEF ZeroOrMore
<1> HIDE DEF C, Z
<1>9. ASSUME \A f \in P : hop[f] = OneOrMore(each, f) PROVE Means(C, hop, P, N, O)
  <2>1. Sound(C, hop, P)
    BY <1>6, <1>9 DEF Sound
  <2>2. "sh:inversePath" \notin O => Complete(C, hop, P)
    BY <1>7, <1>9 DEF Complete
  <2> QED BY <1>1, <1>5, <2>1, <2>2 DEF Means
<1>10. ASSUME \A f \in P : hop[f] = ZeroOrMore(each, f) PROVE Means(Z, hop, P, N, O)
  <2>1. Sound(Z, hop, P)
    <3> SUFFICES ASSUME NEW f \in P, NEW b \in hop[f] PROVE <<f, b>> \in Z
      BY DEF Sound
    <3>1. b = f \/ <<f, b>> \in C
      BY <1>6, <1>10
    <3> QED BY <1>1, <1>3, <3>1
  <2>2. "sh:inversePath" \notin O => Complete(Z, hop, P)
    BY <1>3, <1>7, <1>8, <1>10 DEF Complete
  <2> QED BY <1>1, <1>5, <2>1, <2>2 DEF Means
<1> QED BY <1>9, <1>10 DEF C, Z

\* An optional path.
LEMMA OptionalMeans ==
  ASSUME NEW P, NEW N, Ground(P, N), NEW R, NEW each, NEW O, NEW X \in SUBSET O, Means(R, each, P, N, X),
         "sh:zeroOrOnePath" \in O, NEW hop \in [P -> SUBSET N], \A f \in P : hop[f] = ZeroOrOne(each, f)
  PROVE  Means(R \cup Identity(N), hop, P, N, O)
<1> DEFINE Z == R \cup Identity(N)
<1>1. R \in SUBSET (N \X N) /\ Sound(R, each, P)
  BY DEF Means
<1>2. Z \in SUBSET (N \X N) /\ P \subseteq N
  BY <1>1, ClosureTyped DEF Ground
<1>3. \A a, b : <<a, b>> \in Z <=> <<a, b>> \in R \/ (a \in N /\ b = a)
  BY IdentityMembers
<1>4. \A f \in P : \A b : b \in hop[f] <=> b = f \/ b \in each[f]
  BY DEF ZeroOrOne
<1> HIDE DEF Z
<1>5. Sound(Z, hop, P)
  BY <1>1, <1>2, <1>3, <1>4 DEF Sound
<1>6. "sh:inversePath" \notin O => Complete(Z, hop, P) /\ Ends(Z)
  <2>1. "sh:inversePath" \notin O => Complete(R, each, P) /\ Ends(R)
    BY DEF Means
  <2> QED BY <1>3, <1>4, <2>1 DEF Complete, Ends
<1>7. O \cap ({"sh:inversePath", "sequence"} \cup Repeats) = {} => Exact(Z, hop, P)
  <2>1. O \cap ({"sh:inversePath", "sequence"} \cup Repeats) = {} => Exact(R, each, P)
    BY DEF Means
  <2> SUFFICES ASSUME Exact(R, each, P), NEW f \in P, NEW b PROVE <<f, b>> \in Z <=> b \in hop[f]
    BY <2>1 DEF Exact
  <2>2. <<f, b>> \in R <=> b \in each[f]
    BY DEF Exact
  <2> QED BY <1>2, <1>3, <1>4, <2>2
<1> QED BY <1>2, <1>5, <1>6, <1>7 DEF Means, Z

-----------------------------------------------------------------------------
(* The values of a path that can be parsed are those of its relation.      *)

Around(D, focus) == Nodes(D) \cup {focus}

\* A tree, a graph, a focus node, and what is recursively defined on them.
Setting(syntax, D, focus, value, relation, parse, ops) ==
  /\ IsSyntax(syntax) /\ D \in SUBSET Triples /\ IsFiniteSet(D) /\ focus \in Subjects
  /\ IsValue(syntax, D, focus, value)
  /\ IsRelation(syntax, D, Around(D, focus), relation)
  /\ IsParse(syntax, parse) /\ IsOps(syntax, ops)

\* What a path leads to within m levels.
HopAt(value, P, m, t) == [f \in P |-> value[<<m, t, f>>]]

\* The data graph and the focus node are such a ground.
LEMMA SettingGround ==
  ASSUME NEW D \in SUBSET Triples, IsFiniteSet(D), NEW focus \in Subjects
  PROVE  Ground(From(D, focus), Around(D, focus)) /\ Found(D, focus) = SUBSET Around(D, focus)
<1>1. IsFiniteSet(From(D, focus))
  BY FromFinite
<1>2. Around(D, focus) \subseteq Terms
  BY NodesTerms DEF Around
<1>3. \A x \in Terms : x \in Subjects <=> x \notin Literals
  BY KindsApart DEF Terms, Subjects
<1>4. \A x \in Around(D, focus) : x \in From(D, focus) <=> x \in Subjects
  BY DEF Around, From, Onward
<1>5. From(D, focus) \subseteq Around(D, focus)
  BY NodesTerms DEF Around
<1> QED BY <1>1, <1>2, <1>3, <1>4, <1>5 DEF Ground, Found, Around

\* What is known of a node that is part of a path: its operator, and what it
\* and its parts lead to.
NodeAt(syntax, D, focus, value, relation, parse, ops, at, m) ==
  LET P     == From(D, focus)
      N     == Around(D, focus)
      node  == PathNode(syntax, at[1])
      hop   == HopAt(value, P, m, at[1])
  IN  /\ at[1] \in Terms /\ at[1] \notin at[2] /\ node \in PathNodes /\ node.op # "refused"
      /\ hop \in [P -> SUBSET N] /\ m # 0
      /\ \A f \in P : ValueIs(syntax, D, P, value, m, at[1], f, hop[f])
      /\ RelationIs(syntax, D, N, at, relation, relation[at])
      /\ node.op # "predicate" =>
           /\ Opened(syntax, at)
           /\ \A i \in DOMAIN node.parts :
                /\ PartAt(syntax, at, i) \in Places /\ parse[PartAt(syntax, at, i)] = "ok"
                /\ ops[PartAt(syntax, at, i)] \in SUBSET ops[at]
      /\ node.op \in ops[at]

\* A path node, its value and its relation.
LEMMA NodeFacts ==
  ASSUME NEW syntax, NEW D, NEW focus, NEW value, NEW relation, NEW parse, NEW ops,
         Setting(syntax, D, focus, value, relation, parse, ops),
         NEW at \in Places, parse[at] = "ok", NEW m \in 1..MaxDepth(syntax)
  PROVE  NodeAt(syntax, D, focus, value, relation, parse, ops, at, m)
<1> DEFINE P     == From(D, focus)
           N     == Around(D, focus)
           node  == PathNode(syntax, at[1])
           hop   == HopAt(value, P, m, at[1])
<1> USE DEF Setting
<1>1. at[1] \in Terms /\ node \in PathNodes
  BY PathNodeTyped DEF Places
<1>2. parse[at] = ParseStep(syntax, at, parse) /\ ops[at] = OpsStep(syntax, at, ops)
      /\ RelationIs(syntax, D, N, at, relation, relation[at])
  BY DEF IsParse, IsOps, IsRelation
<1>3. /\ at[1] \notin at[2] /\ node.op # "refused"
      /\ Opened(syntax, at) => \A i \in DOMAIN node.parts : parse[PartAt(syntax, at, i)] = "ok"
  BY <1>2, ParseSteps
<1>4. /\ node.op \in ops[at]
      /\ Opened(syntax, at) => \A i \in DOMAIN node.parts : ops[PartAt(syntax, at, i)] \in SUBSET ops[at]
  BY <1>2, OpsSteps
<1>5. node.op # "predicate" => Opened(syntax, at)
  BY <1>3 DEF Opened
<1>6. Opened(syntax, at) => \A i \in DOMAIN node.parts : PartAt(syntax, at, i) \in Places
  BY OpenedParts
<1>7. MaxDepth(syntax) \in Nat
  BY DepthTyped
<1>8. m # 0 /\ m \in 0..MaxDepth(syntax)
  BY <1>7
<1>9. \A f \in P : <<m, at[1], f>> \in Ats(syntax, D, focus)
  BY <1>1, <1>8 DEF Ats
<1>10. \A f \in P : hop[f] = value[<<m, at[1], f>>] /\ hop[f] \in SUBSET N
  BY <1>9, SettingGround DEF HopAt, IsValue
<1>11. hop \in [P -> SUBSET N]
  BY <1>10 DEF HopAt
<1>12. \A f \in P : ValueIs(syntax, D, P, value, m, at[1], f, hop[f])
  <2> SUFFICES ASSUME NEW f \in P PROVE ValueIs(syntax, D, P, value, m, at[1], f, hop[f])
    OBVIOUS
  <2>1. hop[f] = ValueStep(syntax, D, P, <<m, at[1], f>>, value)
    BY <1>9, <1>10 DEF IsValue
  <2> HIDE DEF hop, P
  <2> QED BY <2>1, ValueCases
<1> HIDE DEF P, N, node, hop
<1> QED BY <1>1, <1>2, <1>3, <1>4, <1>5, <1>6, <1>8, <1>11, <1>12 DEF NodeAt, P, N, node, hop

\* What a node of a path means, from what its parts mean one level down.
PartsMean(syntax, D, focus, value, relation, ops, at, m) ==
  LET node == PathNode(syntax, at[1])
      hops == Hops(value, From(D, focus), m, node)
      rels == PartsOf(syntax, at, relation)
  IN  \A i \in DOMAIN node.parts :
        \E X \in SUBSET ops[at] : Means(rels[i], hops[i], From(D, focus), Around(D, focus), X)

\* A node other than an inverse means what its parts mean.
LEMMA ForwardMeans ==
  ASSUME NEW syntax, NEW D, NEW focus, NEW value, NEW relation, NEW parse, NEW ops,
         Setting(syntax, D, focus, value, relation, parse, ops),
         NEW at \in Places, parse[at] = "ok", NEW m \in 1..MaxDepth(syntax),
         PathNode(syntax, at[1]).op # "sh:inversePath",
         PathNode(syntax, at[1]).op # "predicate" => PartsMean(syntax, D, focus, value, relation, ops, at, m)
  PROVE  Means(relation[at], HopAt(value, From(D, focus), m, at[1]), From(D, focus), Around(D, focus), ops[at])
<1> DEFINE P     == From(D, focus)
           N     == Around(D, focus)
           node  == PathNode(syntax, at[1])
           hop   == HopAt(value, P, m, at[1])
           hops  == Hops(value, P, m, node)
           rels  == PartsOf(syntax, at, relation)
           R     == relation[at]
           O     == ops[at]
<1>0. NodeAt(syntax, D, focus, value, relation, parse, ops, at, m)
  BY NodeFacts
<1>1. /\ at[1] \in Terms /\ at[1] \notin at[2] /\ node \in PathNodes /\ node.op # "refused"
      /\ hop \in [P -> SUBSET N] /\ m # 0
      /\ \A f \in P : ValueIs(syntax, D, P, value, m, at[1], f, hop[f])
      /\ RelationIs(syntax, D, N, at, relation, R)
      /\ node.op \in O
  BY <1>0 DEF NodeAt
<1>2. Ground(P, N) /\ D \in SUBSET Triples /\ Nodes(D) \subseteq N
  BY SettingGround DEF Setting, Around
<1>3. /\ DOMAIN node.parts = 1..Len(node.parts) /\ Len(node.parts) \in Nat
      /\ node.op \in Unary \cup {"sequence"} => 1 \in DOMAIN node.parts
  BY <1>1, PartsTyped
<1>4. DOMAIN rels = DOMAIN node.parts /\ DOMAIN hops = DOMAIN node.parts
  BY DEF PartsOf, Hops
<1>5. node.op # "predicate" => \A i \in DOMAIN node.parts : \E X \in SUBSET O : Means(rels[i], hops[i], P, N, X)
  BY DEF PartsMean
<1>6. node.op \in {"predicate", "sequence", "sh:alternativePath",
                   "sh:zeroOrMorePath", "sh:oneOrMorePath", "sh:zeroOrOnePath"}
  BY <1>1, OpCases
<1>7. \A f \in P :
        /\ node.op = "predicate" => hop[f] = Objects(D, f, at[1])
        /\ node.op = "sequence" => hop[f] = Along(hops, f)
        /\ node.op = "sh:alternativePath" => hop[f] = UNION {hops[i][f] : i \in DOMAIN node.parts}
        /\ node.op = "sh:zeroOrMorePath" => hop[f] = ZeroOrMore(hops[1], f)
        /\ node.op = "sh:oneOrMorePath" => hop[f] = OneOrMore(hops[1], f)
        /\ node.op = "sh:zeroOrOnePath" => hop[f] = ZeroOrOne(hops[1], f)
  <2> HIDE DEF hop, P
  <2> QED BY <1>1 DEF ValueIs
<1>8. /\ node.op = "predicate" => R = Pairs(D, at[1])
      /\ node.op = "sequence" => R = Composed(rels, N)
      /\ node.op = "sh:alternativePath" => R = UNION {rels[i] : i \in DOMAIN node.parts}
      /\ node.op = "sh:zeroOrMorePath" => R = Closure(rels[1], N) \cup Identity(N)
      /\ node.op = "sh:oneOrMorePath" => R = Closure(rels[1], N)
      /\ node.op = "sh:zeroOrOnePath" => R = rels[1] \cup Identity(N)
  <2> HIDE DEF R, N
  <2> QED BY <1>1, <1>4 DEF RelationIs
<1> HIDE DEF P, N, hop, hops, rels, R, O, node
<1> SUFFICES Means(R, hop, P, N, O)
  BY DEF P, N, hop, R, O
<1>9. CASE node.op = "predicate"
  BY <1>1, <1>2, <1>7, <1>8, <1>9, PredicateMeans
<1>10. CASE node.op = "sequence"
  <2>1. Len(rels) = Len(node.parts) /\ Len(hops) = Len(node.parts)
    BY <1>3, <1>4
  <2>2. \A i \in 1..Len(rels) : \E X \in SUBSET O : Means(rels[i], hops[i], P, N, X)
    BY <1>3, <1>5, <1>10, <2>1
  <2>3. Rows(rels, hops, P, N)
    BY <1>3, <2>1, <2>2 DEF Rows, Means
  <2>4. Len(rels) # 0
    BY <1>3, <1>10, <2>1
  <2>5. \A f \in P : hop[f] = Along(hops, f)
    BY <1>7, <1>10
  <2>6. "sequence" \in O
    BY <1>1, <1>10
  <2>7. Means(Composed(rels, N), hop, P, N, O)
    BY <1>1, <1>2, <2>2, <2>3, <2>4, <2>5, <2>6, SequenceMeans
  <2> QED BY <1>8, <1>10, <2>7
<1>11. CASE node.op = "sh:alternativePath"
  <2>1. \A f \in P : hop[f] = UNION {hops[i][f] : i \in DOMAIN node.parts}
    BY <1>7, <1>11
  <2>2. Meant(DOMAIN node.parts, rels, hops, P, N, O)
    BY <1>5, <1>11 DEF Meant
  <2>3. Means(UNION {rels[i] : i \in DOMAIN node.parts}, hop, P, N, O)
    BY <1>1, <2>1, <2>2, AlternativeMeans
  <2> QED BY <1>8, <1>11, <2>3
<1>12. CASE node.op \in {"sh:zeroOrMorePath", "sh:oneOrMorePath", "sh:zeroOrOnePath"}
  <2>1. PICK X \in SUBSET O : Means(rels[1], hops[1], P, N, X)
    BY <1>3, <1>5, <1>12 DEF Unary
  <2>2. CASE node.op = "sh:zeroOrOnePath"
    <3>1. Means(rels[1] \cup Identity(N), hop, P, N, O)
      BY <1>1, <1>2, <1>7, <2>1, <2>2, OptionalMeans
    <3> QED BY <1>8, <2>2, <3>1
  <2>3. CASE node.op # "sh:zeroOrOnePath"
    <3>1. O \cap Repeats # {}
      BY <1>1, <1>12, <2>3 DEF Repeats
    <3>2. /\ (\A f \in P : hop[f] = OneOrMore(hops[1], f)) => Means(Closure(rels[1], N), hop, P, N, O)
          /\ (\A f \in P : hop[f] = ZeroOrMore(hops[1], f)) => Means(Closure(rels[1], N) \cup Identity(N), hop, P, N, O)
      BY <1>1, <1>2, <2>1, <3>1, RepeatMeans
    <3> QED BY <1>7, <1>8, <1>12, <2>3, <3>2
  <2> QED BY <2>2, <2>3
<1> QED BY <1>6, <1>9, <1>10, <1>11, <1>12

\* The inverse of a predicate leads where it should, that of an inverse where
\* that leads to, and any other nowhere.
LEMMA BackwardMeans ==
  ASSUME NEW syntax, NEW D, NEW focus, NEW value, NEW relation, NEW parse, NEW ops,
         Setting(syntax, D, focus, value, relation, parse, ops),
         NEW at \in Places, parse[at] = "ok", NEW m \in 1..MaxDepth(syntax),
         PathNode(syntax, at[1]).op = "sh:inversePath",
         NEW part, part = PartAt(syntax, at, 1),
         PathNode(syntax, part[1]).op = "sh:inversePath" =>
           \E X : Means(relation[PartAt(syntax, part, 1)],
                        PartHop(value, From(D, focus), m, PathNode(syntax, part[1]).parts[1]),
                        From(D, focus), Around(D, focus), X)
  PROVE  /\ Means(relation[at], HopAt(value, From(D, focus), m, at[1]), From(D, focus), Around(D, focus), ops[at])
         /\ PathNode(syntax, part[1]).op = "predicate" =>
              Exact(relation[at], HopAt(value, From(D, focus), m, at[1]), From(D, focus))
<1> DEFINE P     == From(D, focus)
           N     == Around(D, focus)
           node  == PathNode(syntax, at[1])
           inner == PathNode(syntax, part[1])
           hop   == HopAt(value, P, m, at[1])
           R     == relation[at]
           O     == ops[at]
           below == PartHop(value, P, m, inner.parts[1])
<1>0. NodeAt(syntax, D, focus, value, relation, parse, ops, at, m)
  BY NodeFacts
<1>1. /\ at[1] \in Terms /\ at[1] \notin at[2] /\ node \in PathNodes
      /\ hop \in [P -> SUBSET N] /\ m # 0
      /\ \A f \in P : ValueIs(syntax, D, P, value, m, at[1], f, hop[f])
      /\ RelationIs(syntax, D, N, at, relation, R)
      /\ "sh:inversePath" \in O
      /\ Opened(syntax, at)
  BY <1>0 DEF NodeAt
<1>2. Ground(P, N) /\ D \in SUBSET Triples /\ Nodes(D) \subseteq N
  BY SettingGround DEF Setting, Around
<1>3. 1 \in DOMAIN node.parts
  BY <1>1, PartsTyped DEF Unary
<1>4. part \in Places /\ parse[part] = "ok" /\ part[1] = node.parts[1]
  BY <1>0, <1>3 DEF NodeAt, PartAt
<1>5. R = Converse(relation[part])
  <2>1. PartsOf(syntax, at, relation)[1] = relation[part]
    BY <1>3 DEF PartsOf
  <2> HIDE DEF R, N
  <2> QED BY <1>1, <2>1 DEF RelationIs
<1>6. \A f \in P :
        /\ inner.op = "predicate" => hop[f] = SubjectsWith(D, part[1], f)
        /\ inner.op = "sh:inversePath" => hop[f] = below[f]
        /\ inner.op \notin {"predicate", "sh:inversePath"} => hop[f] = {}
  <2> HIDE DEF hop, P
  <2> QED BY <1>1, <1>4 DEF ValueIs
<1>14. NodeAt(syntax, D, focus, value, relation, parse, ops, part, m)
  BY <1>4, NodeFacts
<1>7. /\ RelationIs(syntax, D, N, part, relation, relation[part])
      /\ inner \in PathNodes /\ part[1] \in Terms /\ part[1] \notin part[2]
      /\ inner.op = "sh:inversePath" => Opened(syntax, part)
  BY <1>14 DEF NodeAt
<1>8. CASE inner.op = "predicate"
  <2>1. relation[part] = Pairs(D, part[1])
    <3> HIDE DEF N
    <3> QED BY <1>7, <1>8 DEF RelationIs
  <2>2. \A f \in P : hop[f] = SubjectsWith(D, part[1], f)
    BY <1>6, <1>8
  <2> HIDE DEF P, N, hop, R, O
  <2>3. Means(Converse(Pairs(D, part[1])), hop, P, N, O) /\ Exact(Converse(Pairs(D, part[1])), hop, P)
    BY <1>1, <1>2, <2>2, InversePredicateMeans
  <2> QED BY <1>5, <2>1, <2>3 DEF P, N, hop, R, O
<1>9. relation[part] \in SUBSET (N \X N) => R \in SUBSET (N \X N)
  BY <1>5, ConverseTyped
<1>10. CASE inner.op = "sh:inversePath"
  <2> DEFINE deep == relation[PartAt(syntax, part, 1)]
  <2>1. PICK X : Means(deep, below, P, N, X)
    BY <1>10
  <2>2. 1 \in DOMAIN inner.parts
    BY <1>7, <1>10, PartsTyped DEF Unary
  <2>3. relation[part] = Converse(deep)
    <3>1. PartsOf(syntax, part, relation)[1] = deep
      BY <2>2 DEF PartsOf
    <3> HIDE DEF N
    <3> QED BY <1>7, <1>10, <3>1 DEF RelationIs
  <2>4. deep \in SUBSET (N \X N) /\ Sound(deep, below, P)
    BY <2>1 DEF Means
  <2> HIDE DEF deep, P, N, hop, R, O, below
  <2>5. deep \in SUBSET (N \X N)
    BY <2>4
  <2>6. /\ relation[part] \in SUBSET (N \X N)
        /\ \A a, b : <<a, b>> \in relation[part] <=> <<b, a>> \in deep
    BY ONLY <2>3, <2>5, ConverseOf
  <2>7. relation[part] \in SUBSET (N \X N)
    BY <2>6
  <2>8. R \in SUBSET (N \X N) /\ \A a, b : <<a, b>> \in R <=> <<b, a>> \in relation[part]
    BY ONLY <1>5, <2>7, ConverseOf
  <2>9. Sound(R, hop, P)
    <3>1. ASSUME NEW f \in P, NEW b \in hop[f] PROVE <<f, b>> \in R
      <4>1. hop[f] = below[f]
        BY <1>6, <1>10
      <4>2. <<f, b>> \in deep
        BY <2>4, <4>1 DEF Sound
      <4>3. QED
        BY <2>6, <2>8, <4>2
    <3> QED BY <3>1 DEF Sound
  <2>10. Means(R, hop, P, N, O)
    BY <1>1, <2>8, <2>9, InverseMeans
  <2> QED BY <1>10, <2>10 DEF P, N, hop, R, O
<1>11. CASE inner.op \notin {"predicate", "sh:inversePath"}
  <2>1. R \in SUBSET (N \X N)
    BY <1>2, RelationTyped DEF Setting
  <2>2. Sound(R, hop, P)
    BY <1>6, <1>11 DEF Sound
  <2> HIDE DEF P, N, hop, R, O
  <2>3. Means(R, hop, P, N, O)
    BY <1>1, <2>1, <2>2, InverseMeans
  <2> QED BY <1>11, <2>3 DEF P, N, hop, R, O
<1> QED BY <1>8, <1>10, <1>11

-----------------------------------------------------------------------------
(* A path means what its parts mean, down to the predicates.               *)

\* The levels a place needs.
Needs(syntax, at) == Unseen(Places, DOMAIN syntax)[at] + 1

MeansAt(syntax, D, focus, value, relation, ops, at, m) ==
  /\ Means(relation[at], HopAt(value, From(D, focus), m, at[1]), From(D, focus), Around(D, focus), ops[at])
  /\ PathNode(syntax, at[1]).op = "sh:inversePath"
     /\ PathNode(syntax, PathNode(syntax, at[1]).parts[1]).op = "predicate" =>
       Exact(relation[at], HopAt(value, From(D, focus), m, at[1]), From(D, focus))

PlaceMeans(syntax, D, focus, value, relation, parse, ops, at) ==
  parse[at] = "ok" =>
    \A m \in 1..MaxDepth(syntax) :
      m >= Needs(syntax, at) => MeansAt(syntax, D, focus, value, relation, ops, at, m)

\* A part needs less depth than the whole.
LEMMA PartNeeds ==
  ASSUME NEW syntax, IsSyntax(syntax), NEW at \in Places, Opened(syntax, at),
         NEW i \in DOMAIN PathNode(syntax, at[1]).parts,
         NEW m \in 1..MaxDepth(syntax), m >= Needs(syntax, at)
  PROVE  /\ PartAt(syntax, at, i) \in Places /\ m - 1 \in 1..MaxDepth(syntax)
         /\ m - 1 >= Needs(syntax, PartAt(syntax, at, i))
         /\ Needs(syntax, PartAt(syntax, at, i)) \in Nat /\ Needs(syntax, at) \in Nat
<1> DEFINE rank == Unseen(Places, DOMAIN syntax)
           part == PartAt(syntax, at, i)
<1>1. part \in Places /\ rank[part] < rank[at]
  BY OpenedParts
<1>2. rank[part] \in Nat /\ rank[at] \in Nat
  BY <1>1, UnseenRanks DEF IsSyntax
<1>3. MaxDepth(syntax) \in Nat
  BY DepthTyped
<1> HIDE DEF rank, part
<1>4. m >= rank[at] + 1
  BY DEF Needs, rank
<1>5. m - 1 \in 1..MaxDepth(syntax) /\ m - 1 >= rank[part] + 1
  BY <1>1, <1>2, <1>3, <1>4
<1> QED BY <1>1, <1>2, <1>5 DEF Needs, rank, part

\* A node means what its parts and theirs mean: an inverse is pushed down.
LEMMA StepMeans ==
  ASSUME NEW syntax, NEW D, NEW focus, NEW value, NEW relation, NEW parse, NEW ops,
         Setting(syntax, D, focus, value, relation, parse, ops),
         NEW at \in Places, parse[at] = "ok", NEW m \in 1..MaxDepth(syntax), m >= Needs(syntax, at),
         Opened(syntax, at) => \A i \in DOMAIN PathNode(syntax, at[1]).parts :
           LET part == PartAt(syntax, at, i)
           IN  /\ PlaceMeans(syntax, D, focus, value, relation, parse, ops, part)
               /\ Opened(syntax, part) => \A j \in DOMAIN PathNode(syntax, part[1]).parts :
                    PlaceMeans(syntax, D, focus, value, relation, parse, ops, PartAt(syntax, part, j))
  PROVE  MeansAt(syntax, D, focus, value, relation, ops, at, m)
<1> DEFINE P     == From(D, focus)
           N     == Around(D, focus)
           node  == PathNode(syntax, at[1])
           claim(y) == PlaceMeans(syntax, D, focus, value, relation, parse, ops, y)
<1>1. NodeAt(syntax, D, focus, value, relation, parse, ops, at, m)
  BY NodeFacts
<1>2. node \in PathNodes
      /\ (node.op # "predicate" =>
           /\ Opened(syntax, at)
           /\ \A i \in DOMAIN node.parts : /\ PartAt(syntax, at, i) \in Places
                                           /\ parse[PartAt(syntax, at, i)] = "ok"
                                           /\ ops[PartAt(syntax, at, i)] \in SUBSET ops[at])
  BY <1>1 DEF NodeAt
<1>3. ASSUME node.op # "predicate", NEW i \in DOMAIN node.parts
      PROVE  /\ m - 1 \in 1..MaxDepth(syntax) /\ m - 1 >= Needs(syntax, PartAt(syntax, at, i))
             /\ Needs(syntax, PartAt(syntax, at, i)) \in Nat
  BY <1>2, <1>3, PartNeeds DEF Setting
<1>4. CASE node.op # "sh:inversePath"
  <2>1. ASSUME node.op # "predicate", NEW i \in DOMAIN node.parts
        PROVE  Means(relation[PartAt(syntax, at, i)], HopAt(value, P, m - 1, node.parts[i]), P, N, ops[PartAt(syntax, at, i)])
    <3>1. claim(PartAt(syntax, at, i)) /\ parse[PartAt(syntax, at, i)] = "ok"
      BY <1>2, <2>1
    <3>2. MeansAt(syntax, D, focus, value, relation, ops, PartAt(syntax, at, i), m - 1)
      BY <1>3, <2>1, <3>1 DEF PlaceMeans
    <3>3. PartAt(syntax, at, i)[1] = node.parts[i]
      BY DEF PartAt
    <3> QED BY <3>2, <3>3 DEF MeansAt
  <2>2. node.op # "predicate" => PartsMean(syntax, D, focus, value, relation, ops, at, m)
    <3> SUFFICES ASSUME node.op # "predicate", NEW i \in DOMAIN node.parts
                 PROVE  \E X \in SUBSET ops[at] :
                          Means(PartsOf(syntax, at, relation)[i], Hops(value, P, m, node)[i], P, N, X)
      BY DEF PartsMean
    <3>1. Hops(value, P, m, node)[i] = HopAt(value, P, m - 1, node.parts[i])
      BY DEF Hops, PartHop, HopAt
    <3>2. PartsOf(syntax, at, relation)[i] = relation[PartAt(syntax, at, i)]
      BY DEF PartsOf
    <3>3. ops[PartAt(syntax, at, i)] \in SUBSET ops[at]
      BY <1>2
    <3> HIDE DEF P, N, node
    <3> QED BY <2>1, <3>1, <3>2, <3>3
  <2>3. Means(relation[at], HopAt(value, P, m, at[1]), P, N, ops[at])
    BY <1>4, <2>2, ForwardMeans
  <2> QED BY <1>4, <2>3 DEF MeansAt
<1>5. CASE node.op = "sh:inversePath"
  <2> DEFINE part  == PartAt(syntax, at, 1)
             inner == PathNode(syntax, part[1])
             deep  == PartAt(syntax, part, 1)
  <2>1. 1 \in DOMAIN node.parts /\ part[1] = node.parts[1]
    BY <1>2, <1>5, PartsTyped DEF Unary, PartAt
  <2>2. part \in Places /\ parse[part] = "ok" /\ Opened(syntax, at)
    BY <1>2, <1>5, <2>1
  <2>3. ASSUME inner.op = "sh:inversePath"
        PROVE  \E X : Means(relation[deep], PartHop(value, P, m, inner.parts[1]), P, N, X)
    <3>1. /\ m - 1 \in 1..MaxDepth(syntax) /\ m - 1 >= Needs(syntax, part) /\ Needs(syntax, part) \in Nat
      BY <1>3, <1>5, <2>1
    <3>2. NodeAt(syntax, D, focus, value, relation, parse, ops, part, m - 1)
      BY <2>2, <3>1, NodeFacts
    <3>3. inner \in PathNodes /\ Opened(syntax, part)
          /\ \A i \in DOMAIN inner.parts : PartAt(syntax, part, i) \in Places /\ parse[PartAt(syntax, part, i)] = "ok"
      BY <2>3, <3>2 DEF NodeAt
    <3>4. 1 \in DOMAIN inner.parts
      BY <2>3, <3>3, PartsTyped DEF Unary
    <3>5. m - 1 - 1 >= Needs(syntax, deep) /\ Needs(syntax, deep) \in Nat
      BY <2>2, <3>1, <3>3, <3>4, PartNeeds DEF Setting
    <3>6. m - 1 >= Needs(syntax, deep)
      BY <3>1, <3>5
    <3>7. claim(deep) /\ parse[deep] = "ok"
      BY <2>1, <2>2, <3>3, <3>4
    <3> HIDE DEF deep, part
    <3>8. MeansAt(syntax, D, focus, value, relation, ops, deep, m - 1)
      BY <3>1, <3>6, <3>7 DEF PlaceMeans
    <3>9. deep[1] = inner.parts[1]
      BY DEF deep, PartAt
    <3>10. PartHop(value, P, m, inner.parts[1]) = HopAt(value, P, m - 1, deep[1])
      BY <3>9 DEF PartHop, HopAt
    <3> QED BY <3>8, <3>10 DEF MeansAt
  <2>4. /\ Means(relation[at], HopAt(value, P, m, at[1]), P, N, ops[at])
        /\ inner.op = "predicate" => Exact(relation[at], HopAt(value, P, m, at[1]), P)
    BY <1>5, <2>3, BackwardMeans
  <2> QED BY <2>1, <2>4 DEF MeansAt
<1> QED BY <1>4, <1>5

\* So every node of a path that can be parsed does.
LEMMA AllMeans ==
  ASSUME NEW syntax, NEW D, NEW focus, NEW value, NEW relation, NEW parse, NEW ops,
         Setting(syntax, D, focus, value, relation, parse, ops)
  PROVE  \A at \in Places : PlaceMeans(syntax, D, focus, value, relation, parse, ops, at)
<1> DEFINE claim(y) == PlaceMeans(syntax, D, focus, value, relation, parse, ops, y)
           Q == {at \in Places : /\ claim(at)
                                 /\ Opened(syntax, at) => \A i \in DOMAIN PathNode(syntax, at[1]).parts :
                                                            claim(PartAt(syntax, at, i))}
<1>1. ASSUME NEW at \in Places,
             Opened(syntax, at) => \A i \in DOMAIN PathNode(syntax, at[1]).parts : PartAt(syntax, at, i) \in Q
      PROVE  at \in Q
  <2>1. Opened(syntax, at) => \A i \in DOMAIN PathNode(syntax, at[1]).parts :
           LET part == PartAt(syntax, at, i)
           IN  /\ claim(part)
               /\ Opened(syntax, part) => \A j \in DOMAIN PathNode(syntax, part[1]).parts :
                    claim(PartAt(syntax, part, j))
    BY <1>1
  <2>2. ASSUME parse[at] = "ok", NEW m \in 1..MaxDepth(syntax), m >= Needs(syntax, at)
        PROVE  MeansAt(syntax, D, focus, value, relation, ops, at, m)
    BY <2>1, <2>2, StepMeans
  <2>3. claim(at)
    BY <2>2 DEF PlaceMeans
  <2> QED BY <2>1, <2>3
<1>2. IsSyntax(syntax)
  BY DEF Setting
<1> HIDE DEF Q
<1>3. Places \subseteq Q
  BY <1>1, <1>2, TreeInduction
<1> QED BY <1>3 DEF Q

\* The values of a path that can be parsed are those it should have, but for
\* what is inverted and literals.
Image(R, focus) == {r[2] : r \in {x \in R : x[1] = focus}}

IsMeant(syntax, root, D, focus) ==
  LET image == Image(PathRelation(syntax, root, D, Nodes(D) \cup {focus}), focus)
      vals  == EvaluatePath(syntax, root, D, focus)
  IN  /\ vals \subseteq image
      /\ Forward(syntax, root) => /\ image \ vals \subseteq Literals
                                  /\ Stepwise(syntax, root) => vals = image

\* The values of a path that can be parsed are those of its relation.
LEMMA PathMeans ==
  ASSUME NEW syntax, IsSyntax(syntax), NEW D \in SUBSET Triples, IsFiniteSet(D), NEW focus \in Subjects,
         NEW root \in Terms, ParsePath(syntax, root) = "ok"
  PROVE  IsMeant(syntax, root, D, focus)
<1> DEFINE P     == From(D, focus)
           N     == Around(D, focus)
           image == Image(PathRelation(syntax, root, D, Nodes(D) \cup {focus}), focus)
           vals  == EvaluatePath(syntax, root, D, focus)
           at    == <<root, {}>>
           m     == MaxDepth(syntax)
<1>1. PICK value : IsValue(syntax, D, focus, value)
  BY ValueSolved
<1>2. Nodes(D) \subseteq N
  BY DEF Around
<1>3. PICK relation : IsRelation(syntax, D, N, relation)
  BY <1>2, RelationSolved
<1>4. PICK parse : IsParse(syntax, parse)
  BY ParseSolved
<1>5. PICK ops : IsOps(syntax, ops)
  BY OpsSolved
<1>6. Setting(syntax, D, focus, value, relation, parse, ops)
  BY <1>1, <1>3, <1>4, <1>5 DEF Setting
<1>7. at \in Places /\ parse[at] = "ok" /\ ops[at] = OpsOf(syntax, root)
  BY <1>4, <1>5 DEF Places, IsParse, IsOps
<1>8. m \in 1..m /\ m >= Needs(syntax, at)
  <2>1. DOMAIN syntax \ {} = DOMAIN syntax
    OBVIOUS
  <2>2. Needs(syntax, at) = Cardinality(DOMAIN syntax) + 1
    BY <1>7, <2>1 DEF Needs, Unseen
  <2> QED BY <2>2, DepthTyped DEF MaxDepth
<1>9. MeansAt(syntax, D, focus, value, relation, ops, at, m)
  <2>1. PlaceMeans(syntax, D, focus, value, relation, parse, ops, at)
    BY <1>6, <1>7, AllMeans
  <2> HIDE DEF at, m
  <2> QED BY <1>7, <1>8, <2>1 DEF PlaceMeans, m
<1> DEFINE R   == relation[at]
           hop == HopAt(value, P, m, root)
           O   == OpsOf(syntax, root)
<1>10. /\ Means(R, hop, P, N, O)
       /\ PathNode(syntax, root).op = "sh:inversePath"
          /\ PathNode(syntax, PathNode(syntax, root).parts[1]).op = "predicate" => Exact(R, hop, P)
  BY <1>7, <1>9 DEF MeansAt
<1>11. focus \in P /\ vals = hop[focus]
  BY <1>1, NodesTerms DEF IsValue, HopAt
<1>12. PathRelation(syntax, root, D, Nodes(D) \cup {focus}) = R
  BY <1>3 DEF IsRelation, Around
<1> HIDE DEF R, hop, O, P, N, vals
<1>13. \A b : b \in image <=> <<focus, b>> \in R
  <2>1. R \subseteq N \X N
    BY <1>10 DEF Means
  <2>2. \A r \in R : r = <<r[1], r[2]>>
    BY <2>1
  <2> QED BY <1>12, <2>2 DEF Image
<1> HIDE DEF image
<1>14. vals \subseteq image
  BY <1>10, <1>11, <1>13 DEF Means, Sound
<1>15. ASSUME Exact(R, hop, P) PROVE vals = image
  <2>1. \A b : <<focus, b>> \in R <=> b \in hop[focus]
    BY <1>11, <1>15 DEF Exact
  <2> QED BY <1>11, <1>13, <2>1
<1>16. ASSUME Forward(syntax, root) PROVE image \ vals \subseteq Literals
  <2>1. CASE "sh:inversePath" \notin O
    <3>1. Complete(R, hop, P)
      BY <1>10, <2>1 DEF Means
    <3> QED BY <1>11, <1>13, <3>1 DEF Complete
  <2>2. CASE "sh:inversePath" \in O
    <3>1. vals = image
      BY <1>10, <1>15, <1>16, <2>2 DEF Forward, O
    <3> QED BY <3>1
  <2> QED BY <2>1, <2>2
<1>17. ASSUME Forward(syntax, root), Stepwise(syntax, root) PROVE vals = image
  <2>1. CASE "sh:inversePath" \notin O
    <3>1. O \cap Repeats = {} /\ ("sequence" \notin O \/ "sh:zeroOrOnePath" \notin O)
      BY <1>17 DEF Stepwise, Repeats, O
    <3>2. \/ O \cap ({"sh:inversePath", "sh:zeroOrOnePath"} \cup Repeats) = {}
          \/ O \cap ({"sh:inversePath", "sequence"} \cup Repeats) = {}
      BY <2>1, <3>1
    <3>3. Exact(R, hop, P)
      BY <1>10, <3>2 DEF Means
    <3> QED BY <1>15, <3>3
  <2>2. CASE "sh:inversePath" \in O
    BY <1>10, <1>15, <1>17, <2>2 DEF Forward, O
  <2> QED BY <2>1, <2>2
<1> QED BY <1>14, <1>16, <1>17 DEF IsMeant, image, vals

-----------------------------------------------------------------------------
(* The values a call has are those of the path it has read.                *)

PathFound(c) ==
  LET pair == Head(pairs[c])
  IN  /\ pc[c] \in {"evaluate", "constraints"} =>
           /\ ParsePath(path[c], pair[2].path) = "ok"
           /\ quiet[c] => path[c] = Syntax(Shapes(c))
      /\ pc[c] = "constraints" /\ quiet[c] => values[c] = EvaluatePath(path[c], pair[2].path, Data(c), pair[1])

PathInv == \A c \in Conns : PathFound(c)

\* A connection that does not move keeps its values.
LEMMA SamePath ==
  ASSUME NEW d, PathFound(d), Same(d), quiet'[d] => quiet[d], quiet'[d] => store' = store
  PROVE  PathFound(d)'
<1>1. /\ pc'[d] = pc[d] /\ pairs'[d] = pairs[d] /\ path'[d] = path[d] /\ values'[d] = values[d]
      /\ call'[d] = call[d]
  BY DEF Same, SameReading
<1>2. quiet'[d] => Data(d)' = Data(d) /\ Shapes(d)' = Shapes(d)
  BY <1>1 DEF Data, Shapes
<1> QED BY <1>1, <1>2 DEF PathFound

\* Parse has no values yet.
LEMMA ParsePathFound ==
  ASSUME TypeInv, NEW c \in Conns, Parse(c) PROVE PathFound(c)'
<1>1. /\ pairs' = pairs /\ store' = store /\ call' = call /\ pc'[c] = "evaluate" /\ path'[c] = Syntax(Shapes(c))
      /\ ParsePath(Syntax(Shapes(c)), Head(pairs[c])[2].path) = "ok"
  BY DEF Parse, Verdict, ReadOnly, Goto, TypeInv, Global, Functions
<1>2. Shapes(c)' = Shapes(c)
  BY <1>1 DEF Shapes
<1> QED BY <1>1, <1>2 DEF PathFound

\* Evaluate finds those of the path that was parsed.
LEMMA EvaluatePathFound ==
  ASSUME TypeInv, NEW c \in Conns, PathFound(c), Evaluate(c) PROVE PathFound(c)'
<1>1. /\ pairs' = pairs /\ path' = path /\ store' = store /\ call' = call /\ quiet' = quiet
      /\ pc[c] = "evaluate" /\ pc'[c] = "constraints"
      /\ values'[c] = EvaluatePath(path[c], Head(pairs[c])[2].path, Data(c), Head(pairs[c])[1])
  BY DEF Evaluate, Running, ReadOnly, history, Goto, TypeInv, Global, Functions
<1>2. Shapes(c)' = Shapes(c) /\ Data(c)' = Data(c)
  BY <1>1 DEF Shapes, Data
<1> QED BY <1>1, <1>2 DEF PathFound

\* All other steps lead to where there is no path.
LEMMA StepsPathFound ==
  ASSUME TypeInv, PathInv, NEW c \in Conns, Steps(c) PROVE PathFound(c)'
<1> USE DEF TypeInv, Global, Functions
<1>1. CASE Parse(c)
  BY <1>1, ParsePathFound
<1>2. CASE Evaluate(c)
  BY <1>2, EvaluatePathFound DEF PathInv
<1>3. ASSUME Steps(c), ~Parse(c), ~Evaluate(c)
      PROVE  pc'[c] \notin {"evaluate", "constraints"}
  <2>1. CASE Begin(c) \/ Change(c)
    BY <2>1 DEF Begin, Change, Goto, Return, Fail
  <2>2. CASE EnumerateShapes(c) \/ ResolveTargets(c) \/ ReadPropertyShapes(c) \/ CheckConstraints(c)
    BY <2>2 DEF EnumerateShapes, ResolveTargets, ReadPropertyShapes, CheckConstraints, Onto, Goto
  <2>3. CASE PropertyShapesRefused(c) \/ PathRefused(c) \/ CheckAborts(c) \/ ProvenanceRefused(c) \/ EmitDone(c)
    BY <2>3 DEF PropertyShapesRefused, PathRefused, CheckAborts, ProvenanceRefused, EmitDone, Fail, Return, Goto
  <2>4. CASE CollectReport(c) \/ RemoveQuad(c) \/ ReportCleared(c) \/ EmitLine(c) \/ NextResult(c)
    BY <2>4 DEF CollectReport, RemoveQuad, ReportCleared, EmitLine, NextResult, BlockWritten, Running, Goto
  <2> QED BY <1>3, <2>1, <2>2, <2>3, <2>4 DEF Steps
<1> QED BY <1>1, <1>2, <1>3 DEF PathFound

\* Every step keeps the values those of their path.
LEMMA PathInvStep ==
  ASSUME TypeInv, PathInv, [Next]_vars PROVE PathInv'
<1>0. Functions /\ Quiets /\ \A c \in Conns : PathFound(c)
  BY DEF TypeInv, Global, PathInv
<1>1. ASSUME NEW c \in Conns, Steps(c) PROVE PathInv'
  <2>1. Framed(c) /\ PathFound(c)'
    BY <1>0, <1>1, StepFrames, StepsPathFound
  <2>2. ASSUME NEW d \in Conns \ {c} PROVE PathFound(d)'
    BY <1>0, <2>1, SamePath DEF Framed, Hushed
  <2> QED BY <2>1, <2>2 DEF PathInv
<1>2. ASSUME NEW c \in Conns, PathOverflows(c) PROVE PathInv'
  <2>1. \A d \in Conns : Same(d)
    BY <1>0, <1>2, OverflowFrame DEF Framed
  <2>2. store' = store /\ quiet' = quiet
    BY <1>2 DEF PathOverflows, history
  <2> QED BY <1>0, <2>1, <2>2, SamePath DEF PathInv
<1>3. CASE UNCHANGED vars
  <2>1. \A d \in Conns : Same(d)
    BY <1>3 DEF vars, locals, reading, writing, history, Same, SameReading
  <2>2. store' = store /\ quiet' = quiet
    BY <1>3 DEF vars, history
  <2> QED BY <1>0, <2>1, <2>2, SamePath DEF PathInv
<1> QED BY <1>1, <1>2, <1>3, NextSteps

\* So they are at the start.
LEMMA PathInvInit == ASSUME Init PROVE PathInv
BY DEF Init, PathInv, PathFound

\* So paths are relations.
LEMMA PathsAnswer == ASSUME TypeInv, PathInv PROVE PathsAreRelations
<1> SUFFICES ASSUME NEW c \in Conns, pc[c] = "constraints", quiet[c]
             PROVE  LET D     == Data(c)
                        pair  == Head(pairs[c])
                        root  == pair[2].path
                        image == {r[2] : r \in {x \in PathRelation(path[c], root, D, Nodes(D) \cup {pair[1]}) :
                                                 x[1] = pair[1]}}
                    IN  /\ values[c] \subseteq image
                        /\ Forward(path[c], root) =>
                             /\ image \ values[c] \subseteq Literals
                             /\ Stepwise(path[c], root) => values[c] = image
  BY DEF PathsAreRelations
<1> DEFINE D     == Data(c)
           pair  == Head(pairs[c])
           root  == pair[2].path
<1>1. IsSyntax(path[c]) /\ ParsePath(path[c], root) = "ok" /\ values[c] = EvaluatePath(path[c], root, D, pair[1])
  BY DEF TypeInv, Placed, PathInv, PathFound
<1>2. D \in SUBSET Triples /\ IsFiniteSet(D) /\ pair[1] \in Subjects /\ root \in Terms
  BY GraphsTyped, HeadPair
<1> HIDE DEF D, root, pair
<1>3. IsMeant(path[c], root, D, pair[1])
  BY <1>1, <1>2, PathMeans
<1> QED BY <1>1, <1>3 DEF IsMeant, Image, D, root, pair

-----------------------------------------------------------------------------
\* Without a writer beside it, what a path leads to is in the relation SHACL
\* gives it; nothing is missing but literals, and those only where the path
\* repeats or has an optional step in a sequence, unless an inverse is inside
\* another path.  So for every shapes graph and every data graph: the
\* worklists of the code compute the least closures, on cycles too.
THEOREM PathSafety == Spec => []PathsAreRelations
<1>1. Init => TypeInv /\ PathInv
  BY TypeInvInit, PathInvInit
<1>2. TypeInv /\ PathInv /\ [Next]_vars => (TypeInv /\ PathInv)'
  BY TypeInvStep, PathInvStep
<1>3. TypeInv /\ PathInv => PathsAreRelations
  BY PathsAnswer
<1> QED BY <1>1, <1>2, <1>3, PTL DEF Spec

-----------------------------------------------------------------------------
(* What the constraints look up is what they mean: classes and lists.      *)

\* A transitive closure, step by step.
LEMMA ClosureSteps ==
  ASSUME NEW N, NEW R \in SUBSET (N \X N), NEW a, NEW b, NEW c
  PROVE  /\ <<a, b>> \in R => <<a, b>> \in Closure(R, N)
         /\ <<a, b>> \in Closure(R, N) /\ <<b, c>> \in R => <<a, c>> \in Closure(R, N)
         /\ <<a, b>> \in R /\ <<b, c>> \in Closure(R, N) => <<a, c>> \in Closure(R, N)
<1> DEFINE closed(x, T) == \A r \in R : r[1] \in {x} \cup T => r[2] \in T
<1>0. \A x, y : <<x, y>> \in Closure(R, N) <=>
        x \in N /\ y \in N /\ \A T \in SUBSET N : closed(x, T) => y \in T
  <2> SUFFICES ASSUME NEW x, NEW y
               PROVE  <<x, y>> \in Closure(R, N) <=>
                        x \in N /\ y \in N /\ \A T \in SUBSET N : closed(x, T) => y \in T
    OBVIOUS
  <2> QED BY ClosureMembers
<1>1. \A x, T : closed(x, T) <=> \A y, z : <<y, z>> \in R /\ y \in {x} \cup T => z \in T
  <2>1. \A r \in R : r = <<r[1], r[2]>>
    OBVIOUS
  <2> QED BY <2>1
<1>2. \A x, y : <<x, y>> \in R => x \in N /\ y \in N
  OBVIOUS
<1> HIDE DEF closed
<1>3. <<a, b>> \in R => <<a, b>> \in Closure(R, N)
  BY <1>0, <1>1, <1>2
<1>4. <<a, b>> \in Closure(R, N) /\ <<b, c>> \in R => <<a, c>> \in Closure(R, N)
  BY <1>0, <1>1, <1>2
<1>5. ASSUME <<a, b>> \in R, <<b, c>> \in Closure(R, N) PROVE <<a, c>> \in Closure(R, N)
  <2> SUFFICES ASSUME NEW T \in SUBSET N, closed(a, T) PROVE c \in T
    BY <1>0, <1>2, <1>5
  <2>1. b \in T
    BY <1>1, <1>5
  <2>2. closed(b, T)
    BY <1>1, <2>1
  <2> QED BY <1>0, <1>5, <2>2
<1> QED BY <1>3, <1>4, <1>5

\* What is reached is what starts it and what the closure leads to.
LEMMA ReachedClosure ==
  ASSUME NEW hop, NEW places, IsHops(hop, places), NEW N, NEW R \in SUBSET (N \X N),
         \A a \in places : \A b : b \in Onward(hop[a]) <=> <<a, b>> \in R,
         NEW F \in SUBSET places
  PROVE  \A b : b \in Reached(hop, F) <=> \E a \in F : b = a \/ <<a, b>> \in Closure(R, N)
<1> DEFINE reached == Reached(hop, F)
           T == {b \in places : \E a \in F : b = a \/ <<a, b>> \in Closure(R, N)}
<1>1. /\ F \subseteq reached /\ reached \subseteq places /\ IsClosed(hop, reached)
      /\ \A S \in SUBSET places : F \subseteq S /\ IsClosed(hop, S) => reached \subseteq S
  BY ReachedLeast
<1> HIDE DEF reached
<1>2. ASSUME NEW a \in F, NEW b, <<a, b>> \in Closure(R, N) PROVE b \in reached
  <2> DEFINE S == reached \cap N
  <2>1. \A r \in R : r[1] \in {a} \cup S => r[2] \in S
    <3> SUFFICES ASSUME NEW r \in R, r[1] \in {a} \cup S PROVE r[2] \in S
      OBVIOUS
    <3>1. r = <<r[1], r[2]>> /\ r[2] \in N
      OBVIOUS
    <3>2. r[1] \in reached /\ r[1] \in places
      BY <1>1
    <3>3. r[2] \in Onward(hop[r[1]])
      BY <3>1, <3>2
    <3> QED BY <1>1, <3>1, <3>2, <3>3 DEF IsClosed
  <2>2. S \in SUBSET N
    OBVIOUS
  <2> HIDE DEF S
  <2>3. b \in S
    BY <1>2, <2>1, <2>2, ClosureMembers
  <2> QED BY <2>3 DEF S
<1>3. F \subseteq T
  OBVIOUS
<1>4. IsClosed(hop, T)
  <2> SUFFICES ASSUME NEW f \in T, NEW x \in Onward(hop[f]) PROVE x \in T
    BY DEF IsClosed
  <2>1. x \in places /\ <<f, x>> \in R
    BY DEF IsHops
  <2>2. PICK a \in F : f = a \/ <<a, f>> \in Closure(R, N)
    OBVIOUS
  <2>3. <<a, x>> \in Closure(R, N)
    BY <2>1, <2>2, ClosureSteps
  <2> QED BY <2>1, <2>3
<1>5. reached \subseteq T
  BY <1>1, <1>3, <1>4
<1>6. \A b \in T : \E a \in F : b = a \/ <<a, b>> \in Closure(R, N)
  OBVIOUS
<1> HIDE DEF T
<1>7. F \subseteq reached
  BY <1>1
<1>8. \A b : b \in reached <=> \E a \in F : b = a \/ <<a, b>> \in Closure(R, N)
  <2> SUFFICES ASSUME NEW b
               PROVE  b \in reached <=> \E a \in F : b = a \/ <<a, b>> \in Closure(R, N)
    OBVIOUS
  <2>1. b \in reached => \E a \in F : b = a \/ <<a, b>> \in Closure(R, N)
    BY <1>5, <1>6
  <2>2. ASSUME NEW a \in F, b = a \/ <<a, b>> \in Closure(R, N) PROVE b \in reached
    BY <1>2, <1>7, <2>2
  <2> QED BY <2>1, <2>2
<1> QED BY <1>8 DEF reached

\* The classes found for a value are those it is an instance of.
LEMMA ClassesAre ==
  ASSUME NEW D \in SUBSET Triples, IsFiniteSet(D), NEW v \in Iris \cup Blanks, NEW b \in Iris
  PROVE  b \in ClassesOf(D, v) <=> IsInstance(D, v, b)
<1> DEFINE places == {t[3] : t \in D} \cap Iris
           above  == [c \in places |-> Objects(D, c, "rdfs:subClassOf") \cap Iris]
           below  == {<<t[1], t[3]>> : t \in {u \in D : u[2] = "rdfs:subClassOf" /\ {u[1], u[3]} \subseteq Iris}}
           N      == {r[1] : r \in below} \cup {r[2] : r \in below}
           types  == Objects(D, v, "rdf:type") \cap Iris
<1>1. \A t \in D : t = <<t[1], t[2], t[3]>>
  BY DEF Triples
<1>2. \A x, y : <<x, y>> \in below <=> <<x, "rdfs:subClassOf", y>> \in D /\ x \in Iris /\ y \in Iris
  BY <1>1
<1>3. below \in SUBSET (N \X N) /\ N \subseteq Iris
  <2>1. \A r \in below : r = <<r[1], r[2]>> /\ r[1] \in Iris /\ r[2] \in Iris
    OBVIOUS
  <2> HIDE DEF below
  <2> QED BY <2>1
<1>4. \A c, p, x : x \in Objects(D, c, p) <=> <<c, p, x>> \in D
  BY ObjectsMembers
<1>5. \A c, p : Objects(D, c, p) \cap Iris \subseteq places
  <2>1. \A c, p : Objects(D, c, p) \subseteq {t[3] : t \in D}
    BY DEF Objects
  <2> QED BY <2>1
<1>6. IsHops(above, places)
  <2>1. IsFiniteSet(places)
    <3>1. IsFiniteSet({t[3] : t \in D})
      BY NodesFinite
    <3> QED BY <3>1, FS_Subset
  <2>2. \A f \in places : Onward(above[f]) \subseteq places
    BY <1>5 DEF Onward
  <2> QED BY <2>1, <2>2 DEF IsHops
<1>7. \A c \in places : \A x : x \in Onward(above[c]) <=> <<c, x>> \in below
  <2> SUFFICES ASSUME NEW c \in places, NEW x PROVE x \in Onward(above[c]) <=> <<c, x>> \in below
    OBVIOUS
  <2>1. c \in Iris /\ above[c] = Objects(D, c, "rdfs:subClassOf") \cap Iris
    OBVIOUS
  <2>2. x \in Onward(above[c]) <=> x \in Objects(D, c, "rdfs:subClassOf") /\ x \in Iris
    BY <2>1 DEF Onward, Subjects
  <2> QED BY <1>2, <1>4, <2>1, <2>2
<1>8. types \in SUBSET places
  BY <1>5
<1>9. ClassesOf(D, v) = Reached(above, types)
  BY DEF ClassesOf
<1>10. IsInstance(D, v, b) <=>
         \E class \in Objects(D, v, "rdf:type") : class = b \/ <<class, b>> \in Closure(below, N)
  BY DEF IsInstance
<1>11. \A x : x \in types <=> x \in Objects(D, v, "rdf:type") /\ x \in Iris
  OBVIOUS
<1> HIDE DEF below, N, above, places, types
<1>12. b \in Reached(above, types) <=> \E a \in types : b = a \/ <<a, b>> \in Closure(below, N)
  BY <1>3, <1>6, <1>7, <1>8, ReachedClosure
<1>13. \A a : <<a, b>> \in Closure(below, N) => a \in Iris
  BY <1>3, ClosureMembers
<1> QED BY <1>9, <1>10, <1>11, <1>12, <1>13

-----------------------------------------------------------------------------
(* Lists.                                                                  *)

Links(S) == {<<t[1], t[3]>> : t \in {u \in S : u[2] = "rdf:rest" /\ u[1] # "rdf:nil"}}
LinkEnds(S) == {r[1] : r \in Links(S)} \cup {r[2] : r \in Links(S)}
Cells(S, head) == {head} \cup {r[2] : r \in {q \in Closure(Links(S), LinkEnds(S)) : q[1] = head}}

\* The links of lists, and the cells they lead to.
LEMMA LinksAre ==
  ASSUME NEW S \in SUBSET Triples
  PROVE  /\ \A a, b : <<a, b>> \in Links(S) <=> <<a, "rdf:rest", b>> \in S /\ a # "rdf:nil"
         /\ Links(S) \in SUBSET (LinkEnds(S) \X LinkEnds(S))
         /\ \A r \in Links(S) : r = <<r[1], r[2]>>
         /\ \A head, b : b \in Cells(S, head) <=> b = head \/ <<head, b>> \in Closure(Links(S), LinkEnds(S))
<1>1. \A t \in S : t = <<t[1], t[2], t[3]>>
  BY DEF Triples
<1>2. \A a, b : <<a, b>> \in Links(S) <=> <<a, "rdf:rest", b>> \in S /\ a # "rdf:nil"
  BY <1>1 DEF Links
<1>3. \A r \in Links(S) : r = <<r[1], r[2]>>
  BY DEF Links
<1>4. Links(S) \in SUBSET (LinkEnds(S) \X LinkEnds(S))
  BY <1>3 DEF LinkEnds
<1>5. \A q \in Closure(Links(S), LinkEnds(S)) : q = <<q[1], q[2]>>
  BY ClosureTyped
<1>6. \A head, b : b \in Cells(S, head) <=> b = head \/ <<head, b>> \in Closure(Links(S), LinkEnds(S))
  BY <1>5 DEF Cells
<1> QED BY <1>2, <1>3, <1>4, <1>6

\* The empty list has no cell but its end.
LEMMA CellsNil ==
  ASSUME NEW S \in SUBSET Triples PROVE Cells(S, "rdf:nil") = {"rdf:nil"}
<1>1. ASSUME NEW b, <<"rdf:nil", b>> \in Closure(Links(S), LinkEnds(S)) PROVE FALSE
  <2>1. \A r \in Links(S) : r[1] # "rdf:nil"
    <3> SUFFICES ASSUME NEW r \in Links(S) PROVE r[1] # "rdf:nil"
      OBVIOUS
    <3>1. r = <<r[1], r[2]>>
      BY LinksAre
    <3>2. PICK x, y : x = r[1] /\ y = r[2]
      OBVIOUS
    <3>3. <<x, y>> \in Links(S)
      BY <3>1, <3>2
    <3> QED BY <3>2, <3>3, LinksAre
  <2>2. PICK T : T = {}
    OBVIOUS
  <2>3. T \in SUBSET LinkEnds(S) /\ \A r \in Links(S) : r[1] \in {"rdf:nil"} \cup T => r[2] \in T
    BY <2>1, <2>2
  <2>4. b \in T
    BY <1>1, <2>3, ClosureMembers
  <2> QED BY <2>2, <2>4
<1> QED BY <1>1, LinksAre

\* A list has its head and the cells of its rest.
LEMMA CellsStep ==
  ASSUME NEW S \in SUBSET Triples, NEW head, head # "rdf:nil", NEW rest,
         \A y : <<head, "rdf:rest", y>> \in S <=> y = rest
  PROVE  Cells(S, head) = {head} \cup Cells(S, rest)
<1>1. PICK links, ends, down :
        /\ links = Links(S) /\ ends = LinkEnds(S) /\ down = Closure(links, ends)
        /\ \A a, b : <<a, b>> \in links <=> <<a, "rdf:rest", b>> \in S /\ a # "rdf:nil"
        /\ links \in SUBSET (ends \X ends)
        /\ \A r \in links : r = <<r[1], r[2]>>
        /\ \A h, b : b \in Cells(S, h) <=> b = h \/ <<h, b>> \in down
  BY LinksAre
<1>2. <<head, rest>> \in links /\ \A y : <<head, y>> \in links => y = rest
  BY <1>1
<1>3. \A a, b, c : /\ <<a, b>> \in links => <<a, b>> \in down
                   /\ <<a, b>> \in down /\ <<b, c>> \in links => <<a, c>> \in down
                   /\ <<a, b>> \in links /\ <<b, c>> \in down => <<a, c>> \in down
  BY <1>1, ClosureSteps
<1>4. ASSUME NEW b, <<head, b>> \in down PROVE b \in Cells(S, rest)
  <2> DEFINE T == {y \in ends : y = rest \/ <<rest, y>> \in down}
  <2>1. \A r \in links : r[1] \in {head} \cup T => r[2] \in T
    <3> SUFFICES ASSUME NEW r \in links, r[1] \in {head} \cup T PROVE r[2] \in T
      OBVIOUS
    <3>1. r = <<r[1], r[2]>> /\ r[2] \in ends
      BY <1>1
    <3>2. PICK x, y : x = r[1] /\ y = r[2] /\ <<x, y>> \in links
      BY <3>1
    <3>3. x = head => y = rest
      BY <1>2, <3>2
    <3>4. x = rest \/ <<rest, x>> \in down => <<rest, y>> \in down
      BY <1>3, <3>2
    <3> QED BY <3>1, <3>2, <3>3, <3>4
  <2>2. T \in SUBSET ends
    OBVIOUS
  <2>3. \A y \in T : y \in Cells(S, rest)
    BY <1>1
  <2> HIDE DEF T
  <2>4. b \in T
    BY <1>1, <1>4, <2>1, <2>2, ClosureMembers
  <2> QED BY <2>3, <2>4
<1>5. ASSUME NEW b \in Cells(S, rest) PROVE <<head, b>> \in down
  BY <1>1, <1>2, <1>3, <1>5
<1> QED BY <1>1, <1>4, <1>5

\* The members of a list are what its cells hold.
LEMMA MembersAre ==
  ASSUME NEW S \in SUBSET Triples, NEW head
  PROVE  \A x : x \in Members(S, head) <=> \E u \in Cells(S, head) : u # "rdf:nil" /\ <<u, "rdf:first", x>> \in S
<1> DEFINE cells == Cells(S, head)
<1>1. \A t \in S : t = <<t[1], t[2], t[3]>>
  BY DEF Triples
<1>2. Members(S, head) = {t[3] : t \in {u \in S : u[2] = "rdf:first" /\ u[1] \in cells \ {"rdf:nil"}}}
  BY DEF Members, Cells, Links, LinkEnds
<1> HIDE DEF cells
<1>3. \A x : x \in Members(S, head) <=> \E u \in cells : u # "rdf:nil" /\ <<u, "rdf:first", x>> \in S
  <2> SUFFICES ASSUME NEW x
               PROVE  x \in Members(S, head) <=> \E u \in cells : u # "rdf:nil" /\ <<u, "rdf:first", x>> \in S
    OBVIOUS
  <2>1. ASSUME x \in Members(S, head)
        PROVE  \E u \in cells : u # "rdf:nil" /\ <<u, "rdf:first", x>> \in S
    BY <1>1, <1>2, <2>1
  <2>2. ASSUME NEW u \in cells, u # "rdf:nil", <<u, "rdf:first", x>> \in S
        PROVE  x \in Members(S, head)
    <3>1. PICK t \in S : t[1] = u /\ t[2] = "rdf:first" /\ t[3] = x
      BY <2>2
    <3> QED BY <1>2, <2>2, <3>1
  <2> QED BY <2>1, <2>2
<1> QED BY <1>3 DEF cells

\* Where a graph is unambiguous, the object looked up is the only one.
LEMMA OneObject ==
  ASSUME NEW S \in SUBSET Triples, Unambiguous(S), NEW n,
         NEW p \in Range(Components) \cup {"sh:flags", "sh:path", "rdf:first", "rdf:rest"}
  PROVE  /\ LookupObject(S, n, p) = Objects(S, n, p)
         /\ \A x, y : <<n, p, x>> \in S /\ <<n, p, y>> \in S => x = y
         /\ \A x : <<n, p, x>> \in S => Objects(S, n, p) = {x}
<1>1. \A x, y : <<n, p, x>> \in S /\ <<n, p, y>> \in S => x = y
  <2> SUFFICES ASSUME NEW x, NEW y, <<n, p, x>> \in S, <<n, p, y>> \in S PROVE x = y
    OBVIOUS
  <2> DEFINE t == <<n, p, x>>
             u == <<n, p, y>>
  <2>1. t[1] = u[1] /\ t[2] = u[2] /\ t[2] = p /\ t[3] = x /\ u[3] = y
    OBVIOUS
  <2>2. t \in S /\ u \in S
    OBVIOUS
  <2> HIDE DEF t, u
  <2> QED BY <2>1, <2>2 DEF Unambiguous
<1>2. \A x : x \in Objects(S, n, p) <=> <<n, p, x>> \in S
  BY ObjectsMembers
<1>3. LookupObject(S, n, p) = Objects(S, n, p)
  BY <1>1, <1>2, LookupOne
<1> QED BY <1>1, <1>2, <1>3

\* The items of a list that can be walked are its members.
LEMMA WalkMembers ==
  ASSUME NEW S \in SUBSET Triples, IsFiniteSet(S), Unambiguous(S), NEW head \in Terms, WalkList(S, head).ok
  PROVE  Range(WalkList(S, head).items) = Members(S, head)
<1> DEFINE X == {t[1] : t \in S}
           rank == Unseen(Places, X)
<1>1. PICK walk : IsWalk(S, walk)
  BY WalkSolved
<1> DEFINE P == {at \in Places : walk[at].ok => Range(walk[at].items) = Members(S, at[1])}
<1>2. rank \in [Places -> Nat]
  BY NodesFinite, UnseenRanks
<1>3. ASSUME NEW at \in Places, \A y \in Places : rank[y] < rank[at] => y \in P PROVE at \in P
  <2> SUFFICES ASSUME walk[at].ok PROVE Range(walk[at].items) = Members(S, at[1])
    OBVIOUS
  <2> DEFINE h == at[1]
  <2>1. walk[at] = WalkStep(S, at, walk)
    BY <1>1 DEF IsWalk
  <2>2. CASE h = "rdf:nil"
    <3>1. walk[at].items = << >>
      BY <2>1, <2>2 DEF WalkStep
    <3>2. \A x : x \notin Members(S, h)
      BY <2>2, CellsNil, MembersAre
    <3> QED BY <3>1, <3>2, ShortRanges
  <2>3. CASE h # "rdf:nil"
    <3> DEFINE first == Only(LookupObject(S, h, "rdf:first"))
               rest == Only(LookupObject(S, h, "rdf:rest"))
               tail == walk[Rest(S, at)]
    <3>1. GoesOn(S, at)
      BY <2>1, <2>3 DEF WalkStep, Broken, GoesOn
    <3>2. WalkStep(S, at, walk) = IF tail.ok THEN [ok |-> TRUE, items |-> <<first>> \o tail.items] ELSE Broken
      BY <3>1 DEF WalkStep, GoesOn, Rest
    <3>3. tail.ok /\ walk[at].items = <<first>> \o tail.items
      <4> HIDE DEF tail, first
      <4> QED BY <2>1, <3>2 DEF Broken
    <3>4. Rest(S, at) \in Places /\ rank[Rest(S, at)] < rank[at] /\ Rest(S, at)[1] = rest
      BY <3>1, RestLower DEF Rest
    <3>5. Range(tail.items) = Members(S, rest)
      <4> HIDE DEF rank
      <4>1. Rest(S, at) \in P
        BY <1>3, <3>4
      <4> QED BY <3>3, <3>4, <4>1
    <3>6. <<h, "rdf:first", first>> \in S /\ <<h, "rdf:rest", rest>> \in S
      BY <3>1, LookupFound, OnlyMember, ObjectsMembers DEF GoesOn
    <3>7. Range(walk[at].items) = {first} \cup Range(tail.items)
      <4>1. tail.items \in Seq(Terms)
        BY <1>1, <3>4 DEF IsWalk, Walks
      <4>2. first \in Terms
        BY <3>6 DEF Triples
      <4> HIDE DEF first, tail
      <4>3. <<first>> \in Seq(Terms) /\ Range(<<first>>) = {first}
        BY <4>2, ShortSeqs, ShortRanges
      <4>4. Range(<<first>> \o tail.items) = Range(<<first>>) \cup Range(tail.items)
        <5>1. \A s, t \in Seq(Terms) : Range(s \o t) = Range(s) \cup Range(t)
          BY RangeConcatenation
        <5> QED BY <4>1, <4>3, <5>1
      <4> QED BY <3>3, <4>3, <4>4
    <3> HIDE DEF first, rest, tail, h
    <3>8. /\ \A y : <<h, "rdf:rest", y>> \in S <=> y = rest
          /\ \A y : <<h, "rdf:first", y>> \in S <=> y = first
      <4>1. \A y : <<h, "rdf:rest", y>> \in S => y = rest
        BY <3>6, OneObject
      <4>2. \A y : <<h, "rdf:first", y>> \in S => y = first
        BY <3>6, OneObject
      <4> QED BY <3>6, <4>1, <4>2
    <3>9. Cells(S, h) = {h} \cup Cells(S, rest)
      BY <2>3, <3>8, CellsStep DEF h
    <3>10. \A x : x \in Members(S, h) <=> x = first \/ x \in Members(S, rest)
      BY <2>3, <3>8, <3>9, MembersAre DEF h
    <3> QED BY <3>5, <3>7, <3>10 DEF h
  <2> QED BY <2>2, <2>3
<1>4. Places \subseteq P
  <2> HIDE DEF P, rank
  <2> QED BY <1>2, <1>3, RankInduction
<1>5. <<head, {}>> \in P /\ WalkList(S, head) = walk[<<head, {}>>]
  BY <1>1, <1>4 DEF IsWalk, Places
<1> QED BY <1>5

-----------------------------------------------------------------------------
(* The results of a property shape are what its values violate.            *)

\* Shapes, data and a property shape that a call gets to hold values against.
Checkable(S, D, n) ==
  /\ S \in SUBSET Triples /\ IsFiniteSet(S) /\ Unambiguous(S)
  /\ D \in SUBSET Triples /\ IsFiniteSet(D)
  /\ LookupObject(S, n, "sh:path") # {} /\ ParamsReadable(S, n)

ShapeAt(S, n) == [node |-> n, path |-> Only(LookupObject(S, n, "sh:path")), params |-> ReadParams(S, n)]

\* The components by name: three look at all values together.
LEMMA ComponentNames ==
  /\ Range(Components) = {"sh:minCount", "sh:maxCount", "sh:datatype", "sh:nodeKind", "sh:class",
                          "sh:pattern", "sh:minLength", "sh:maxLength", "sh:in", "sh:hasValue",
                          "sh:minInclusive", "sh:maxInclusive"}
  /\ OneByOne = {"sh:datatype", "sh:nodeKind", "sh:class", "sh:pattern", "sh:minLength",
                 "sh:maxLength", "sh:in", "sh:minInclusive", "sh:maxInclusive"}
  /\ Range(Components) = Together \cup OneByOne
<1>1. Range(Components) = {"sh:minCount", "sh:maxCount", "sh:datatype", "sh:nodeKind", "sh:class",
                          "sh:pattern", "sh:minLength", "sh:maxLength", "sh:in", "sh:hasValue",
                          "sh:minInclusive", "sh:maxInclusive"}
  <2>1. 1..12 = {1, 2, 3, 4, 5, 6, 7, 8, 9, 10, 11, 12}
    OBVIOUS
  <2>2. Range(Components) = {Components[i] : i \in {1, 2, 3, 4, 5, 6, 7, 8, 9, 10, 11, 12}}
    BY <2>1, ComponentsAre
  <2>3. /\ Components[1] = "sh:minCount" /\ Components[2] = "sh:maxCount"
        /\ Components[3] = "sh:datatype" /\ Components[4] = "sh:nodeKind"
        /\ Components[5] = "sh:class" /\ Components[6] = "sh:pattern"
        /\ Components[7] = "sh:minLength" /\ Components[8] = "sh:maxLength"
        /\ Components[9] = "sh:in" /\ Components[10] = "sh:hasValue"
        /\ Components[11] = "sh:minInclusive" /\ Components[12] = "sh:maxInclusive"
    BY DEF Components
  <2> QED BY <2>2, <2>3
<1> QED BY <1>1 DEF OneByOne, Together

\* What is looked up is all there is.
LEMMA ParamObjects ==
  ASSUME NEW S, NEW D, NEW n, Checkable(S, D, n), NEW k \in Range(Components) \cup {"sh:flags"}
  PROVE  /\ LookupObject(S, n, k) = Objects(S, n, k)
         /\ k # "sh:in" => ReadParams(S, n)[k] = Objects(S, n, k)
         /\ \A b \in Objects(S, n, k) : b \in Terms /\ Objects(S, n, k) = {b}
<1>1. LookupObject(S, n, k) = Objects(S, n, k) /\ \A x : <<n, k, x>> \in S => Objects(S, n, k) = {x}
  BY OneObject DEF Checkable
<1>2. k # "sh:in" => ReadParams(S, n)[k] = LookupObject(S, n, k)
  BY DEF ReadParams
<1>3. \A b \in Objects(S, n, k) : b \in Terms /\ <<n, k, b>> \in S
  BY ObjectsTyped, ObjectsMembers DEF Checkable
<1> QED BY <1>1, <1>2, <1>3

\* A parameter that can be read is of the kind of its component.
LEMMA ParamKinds ==
  ASSUME NEW S, NEW D, NEW n, Checkable(S, D, n)
  PROVE  /\ \A k \in {"sh:minCount", "sh:maxCount", "sh:minLength", "sh:maxLength"} :
              \A b \in Objects(S, n, k) : b \in Unsigned /\ Number[b] \in Int
         /\ Objects(S, n, "sh:class") \subseteq Iris
         /\ \A head \in Objects(S, n, "sh:in") : head \in Terms /\ WalkList(S, head).ok
<1>0. ParamsReadable(S, n)
  BY DEF Checkable
<1>1. \A k \in Range(Components) \cup {"sh:flags"} : LookupObject(S, n, k) = Objects(S, n, k)
  BY ParamObjects
<1>2. \A head \in Objects(S, n, "sh:in") : head \in Terms
  BY ObjectsTyped DEF Checkable
<1>3. \A k \in {"sh:minCount", "sh:maxCount", "sh:minLength", "sh:maxLength"} :
        LookupObject(S, n, k) \subseteq Unsigned
  BY <1>0 DEF ParamsReadable
<1>4. LookupObject(S, n, "sh:class") \subseteq Iris /\ \A head \in LookupObject(S, n, "sh:in") : WalkList(S, head).ok
  BY <1>0 DEF ParamsReadable
<1>5. {"sh:minCount", "sh:maxCount", "sh:minLength", "sh:maxLength", "sh:class", "sh:in"} \subseteq Range(Components)
  BY ComponentNames
<1>6. \A b \in Unsigned : Number[b] \in Int
  BY LiteralsTyped
<1> QED BY <1>1, <1>2, <1>3, <1>4, <1>5, <1>6

\* The members of the list, if it is one.
LEMMA ListParam ==
  ASSUME NEW S, NEW D, NEW n, Checkable(S, D, n), NEW b, Objects(S, n, "sh:in") = {b}
  PROVE  ReadParams(S, n)["sh:in"] = {Members(S, b)}
<1>1. LookupObject(S, n, "sh:in") = {b}
  BY ParamObjects, ComponentNames
<1>2. ReadParams(S, n)["sh:in"] = {Range(WalkList(S, head).items) : head \in LookupObject(S, n, "sh:in")}
  BY ComponentNames DEF ReadParams
<1>3. Range(WalkList(S, b).items) = Members(S, b)
  BY ParamKinds, WalkMembers DEF Checkable
<1> QED BY <1>1, <1>2, <1>3

\* A value conforms when it meets the constraint.
LEMMA ConformsMeets ==
  ASSUME NEW S, NEW D, NEW n, Checkable(S, D, n), NEW k \in OneByOne, NEW b, Objects(S, n, k) = {b}, NEW w \in Terms
  PROVE  ValueConforms(D, ReadParams(S, n), k, Only(ReadParams(S, n)[k]), w) <=> Meets(S, D, n, k, b, w)
<1> DEFINE params == ReadParams(S, n)
           p == Only(params[k])
<1>1. k # "sh:in" => p = b
  <2>1. k \in Range(Components)
    BY ComponentNames
  <2> QED BY <2>1, ParamObjects, OnlyOne
<1>2. k = "sh:in" => p = Members(S, b)
  <2> SUFFICES ASSUME k = "sh:in" PROVE p = Members(S, b)
    OBVIOUS
  <2>1. Objects(S, n, "sh:in") = {b}
    OBVIOUS
  <2>2. params["sh:in"] = {Members(S, b)}
    BY <2>1, ListParam
  <2> QED BY <2>2, OnlyOne
<1>3. params["sh:flags"] = Objects(S, n, "sh:flags")
  BY ParamObjects
<1>4. b \in Objects(S, n, k)
  OBVIOUS
<1>5. CASE k = "sh:class"
  <2>1. b \in Iris
    BY <1>4, <1>5, ParamKinds
  <2>2. w \in Iris \cup Blanks => (b \in ClassesOf(D, w) <=> IsInstance(D, w, b))
    BY <2>1, ClassesAre DEF Checkable
  <2>3. IsInstance(D, w, b) => w \in Iris \cup Blanks
    BY DEF IsInstance
  <2>4. IsInstance(D, w, b) \in BOOLEAN
    BY DEF IsInstance
  <2>5. ValueConforms(D, params, k, p, w) <=> w \in Iris \cup Blanks /\ b \in ClassesOf(D, w)
    BY <1>1, <1>5 DEF ValueConforms, KindConforms
  <2>6. Meets(S, D, n, k, b, w) <=> IsInstance(D, w, b)
    BY <1>5 DEF Meets
  <2> QED BY <2>2, <2>3, <2>5, <2>6
<1>6. CASE k \in {"sh:datatype", "sh:nodeKind"}
  BY <1>1, <1>6 DEF ValueConforms, KindConforms, Meets
<1>7. CASE k \in {"sh:pattern", "sh:minLength", "sh:maxLength"}
  BY <1>1, <1>3, <1>7 DEF ValueConforms, TextConforms, Meets
<1>8. CASE k = "sh:in"
  BY <1>2, <1>8 DEF ValueConforms, RangeConforms, Meets
<1>9. CASE k \in {"sh:minInclusive", "sh:maxInclusive"}
  <2>1. \A u : \A i : i \in Numbers(u) <=> u \in DOMAIN Number /\ i = Number[u]
    BY DEF Numbers
  <2>2. ValueConforms(D, params, k, p, w) <=>
          /\ w \in DOMAIN Number /\ b \in DOMAIN Number
          /\ k = "sh:minInclusive" => Number[w] >= Number[b]
          /\ k = "sh:maxInclusive" => Number[w] <= Number[b]
    BY <1>1, <1>9 DEF ValueConforms, RangeConforms
  <2>3. Meets(S, D, n, k, b, w) <=>
          \E i \in Numbers(w), j \in Numbers(b) :
             /\ k = "sh:minInclusive" => i >= j
             /\ k = "sh:maxInclusive" => i <= j
    BY <1>9 DEF Meets
  <2> QED BY <2>1, <2>2, <2>3
<1> QED BY <1>5, <1>6, <1>7, <1>8, <1>9, ComponentNames

-----------------------------------------------------------------------------
\* What component k finds wrong.
Wrong(S, D, n, vals, k) ==
  IF k \in Together
  THEN {<<k, {}>> : b \in {l \in Objects(S, n, k) : ~CountConforms(k, l, vals)}}
  ELSE {<<k, {v}>> : v \in {w \in vals : \E b \in Objects(S, n, k) : ~Meets(S, D, n, k, b, w)}}

\* What a property shape finds violated, component by component.
LEMMA ViolatedWrong ==
  ASSUME NEW S, NEW D, NEW n, Checkable(S, D, n), NEW vals, IsFiniteSet(vals)
  PROVE  \A x : x \in Violated(S, D, n, vals) <=> \E k \in Range(Components) : x \in Wrong(S, D, n, vals, k)
<1> DEFINE min == {<<"sh:minCount", {}>> : b \in {l \in Objects(S, n, "sh:minCount") : Cardinality(vals) < Number[l]}}
           max == {<<"sh:maxCount", {}>> : b \in {l \in Objects(S, n, "sh:maxCount") : Cardinality(vals) > Number[l]}}
           has == {<<"sh:hasValue", {}>> : b \in Objects(S, n, "sh:hasValue") \ vals}
           one == {<<x[1], {x[2]}>> : x \in {y \in OneByOne \X vals :
                     \E b \in Objects(S, n, y[1]) : ~Meets(S, D, n, y[1], b, y[2])}}
<1>1. Violated(S, D, n, vals) = min \cup max \cup has \cup one
  BY DEF Violated
<1>2. Cardinality(vals) \in Nat
  BY FS_CardinalityType
<1>3. \A x : x \in Wrong(S, D, n, vals, "sh:minCount") <=> x \in min
  <2>1. \A l \in Objects(S, n, "sh:minCount") :
          ~CountConforms("sh:minCount", l, vals) <=> Cardinality(vals) < Number[l]
    BY <1>2, ParamKinds DEF CountConforms
  <2> QED BY <2>1 DEF Wrong, Together
<1>4. \A x : x \in Wrong(S, D, n, vals, "sh:maxCount") <=> x \in max
  <2>1. \A l \in Objects(S, n, "sh:maxCount") :
          ~CountConforms("sh:maxCount", l, vals) <=> Cardinality(vals) > Number[l]
    BY <1>2, ParamKinds DEF CountConforms
  <2> QED BY <2>1 DEF Wrong, Together
<1>5. \A x : x \in Wrong(S, D, n, vals, "sh:hasValue") <=> x \in has
  <2>1. \A l \in Objects(S, n, "sh:hasValue") : ~CountConforms("sh:hasValue", l, vals) <=> l \notin vals
    BY DEF CountConforms
  <2> QED BY <2>1 DEF Wrong, Together
<1>6. \A x : x \in one <=> \E k \in OneByOne : x \in Wrong(S, D, n, vals, k)
  <2>1. \A k \in OneByOne : k \notin Together
    BY DEF OneByOne
  <2>2. \A x : x \in one <=> \E k \in OneByOne, v \in vals :
                               x = <<k, {v}>> /\ \E b \in Objects(S, n, k) : ~Meets(S, D, n, k, b, v)
    <3> SUFFICES ASSUME NEW x
                 PROVE  x \in one <=> \E k \in OneByOne, v \in vals :
                               x = <<k, {v}>> /\ \E b \in Objects(S, n, k) : ~Meets(S, D, n, k, b, v)
      OBVIOUS
    <3>1. ASSUME NEW k \in OneByOne, NEW v \in vals, x = <<k, {v}>>,
                 \E b \in Objects(S, n, k) : ~Meets(S, D, n, k, b, v)
          PROVE  x \in one
      <4> DEFINE y == <<k, v>>
      <4>1. y \in OneByOne \X vals /\ y[1] = k /\ y[2] = v
        OBVIOUS
      <4> HIDE DEF y
      <4>2. y \in {z \in OneByOne \X vals : \E b \in Objects(S, n, z[1]) : ~Meets(S, D, n, z[1], b, z[2])}
        BY <3>1, <4>1
      <4>3. x = <<y[1], {y[2]}>>
        BY <3>1, <4>1
      <4> QED BY <4>2, <4>3
    <3>2. ASSUME x \in one
          PROVE  \E k \in OneByOne, v \in vals :
                   x = <<k, {v}>> /\ \E b \in Objects(S, n, k) : ~Meets(S, D, n, k, b, v)
      BY <3>2
    <3> QED BY <3>1, <3>2
  <2>3. \A k \in OneByOne : \A x : x \in Wrong(S, D, n, vals, k) <=>
          \E v \in vals : x = <<k, {v}>> /\ \E b \in Objects(S, n, k) : ~Meets(S, D, n, k, b, v)
    BY <2>1 DEF Wrong
  <2> HIDE DEF one
  <2> QED BY <2>2, <2>3
<1>7. Together = {"sh:minCount", "sh:maxCount", "sh:hasValue"} /\ Range(Components) = Together \cup OneByOne
  BY ComponentNames DEF Together
<1> HIDE DEF min, max, has, one
<1> QED BY <1>1, <1>3, <1>4, <1>5, <1>6, <1>7

\* A component's results are what its values violate.
LEMMA ResultsWrong ==
  ASSUME NEW S, NEW D, NEW n, Checkable(S, D, n), NEW vals \in SUBSET Terms, NEW k \in Range(Components), NEW f
  PROVE  \A x : x \in Wrong(S, D, n, vals, k) <=>
                \E r \in ResultSet(D, f, ShapeAt(S, n), vals, k) : x = <<r.component, r.value>>
<1> DEFINE shape == ShapeAt(S, n)
           params == ReadParams(S, n)
           o == Objects(S, n, k)
           results == ResultSet(D, f, shape, vals, k)
<1> SUFFICES \A x : x \in Wrong(S, D, n, vals, k) <=> \E r \in results : x = <<r.component, r.value>>
  OBVIOUS
<1>1. shape.params = params
  BY DEF ShapeAt
<1>2. CASE o = {}
  <2>1. params[k] = {}
    <3>1. LookupObject(S, n, k) = {}
      BY <1>2, ParamObjects
    <3> QED BY <1>2, <3>1, ParamObjects DEF ReadParams
  <2>2. results = {}
    BY <1>1, <2>1 DEF ResultSet
  <2>3. \A x : x \notin Wrong(S, D, n, vals, k)
    BY <1>2 DEF Wrong
  <2> HIDE DEF results
  <2> QED BY <2>2, <2>3
<1>3. CASE o # {}
  <2>1. PICK b : o = {b}
    BY <1>3, ParamObjects
  <2>2. params[k] # {}
    <3>1. CASE k = "sh:in"
      <4>1. Objects(S, n, "sh:in") = {b}
        BY <2>1, <3>1
      <4>2. params["sh:in"] = {Members(S, b)}
        BY <4>1, ListParam
      <4> QED BY <3>1, <4>2
    <3>2. CASE k # "sh:in"
      BY <2>1, <3>2, ParamObjects
    <3> QED BY <3>1, <3>2
  <2>3. CASE k \in Together
    <3>1. Only(params[k]) = b
      <4>1. k # "sh:in"
        BY <2>3 DEF Together
      <4>2. params[k] = {b}
        BY <2>1, <4>1, ParamObjects
      <4>3. Only({b}) = b
        BY OnlyOne
      <4> QED BY <4>2, <4>3
    <3>2. results = IF CountConforms(k, b, vals) THEN {} ELSE {ResultOf(f, shape, k, {})}
      BY <1>1, <2>2, <2>3, <3>1 DEF ResultSet
    <3>3. \A x : x \in Wrong(S, D, n, vals, k) <=> x = <<k, {}>> /\ ~CountConforms(k, b, vals)
      BY <2>1, <2>3 DEF Wrong
    <3>4. ResultOf(f, shape, k, {}).component = k /\ ResultOf(f, shape, k, {}).value = {}
      BY DEF ResultOf
    <3> HIDE DEF results
    <3> QED BY <3>2, <3>3, <3>4
  <2>4. CASE k \notin Together
    <3>0. k \in OneByOne
      BY <2>4 DEF OneByOne
    <3>1. results = Each(f, shape, k, Failing(D, shape, vals, k))
      BY <1>1, <2>2, <2>4 DEF ResultSet
    <3>2. \A w \in vals : w \in Failing(D, shape, vals, k) <=> ~Meets(S, D, n, k, b, w)
      <4> SUFFICES ASSUME NEW w \in vals PROVE w \in Failing(D, shape, vals, k) <=> ~Meets(S, D, n, k, b, w)
        OBVIOUS
      <4>1. ValueConforms(D, params, k, Only(params[k]), w) <=> Meets(S, D, n, k, b, w)
        BY <2>1, <3>0, ConformsMeets
      <4> HIDE DEF params, shape
      <4> QED BY <1>1, <4>1 DEF Failing
    <3>3. \A x : x \in Wrong(S, D, n, vals, k) <=> \E v \in vals : x = <<k, {v}>> /\ ~Meets(S, D, n, k, b, v)
      BY <2>1, <2>4 DEF Wrong
    <3>4. \A v : ResultOf(f, shape, k, {v}).component = k /\ ResultOf(f, shape, k, {v}).value = {v}
      BY DEF ResultOf
    <3>5. Failing(D, shape, vals, k) \subseteq vals
      BY DEF Failing
    <3>6. \A r : r \in results <=> \E v \in Failing(D, shape, vals, k) : r = ResultOf(f, shape, k, {v})
      BY <3>1 DEF Each
    <3> HIDE DEF results, shape
    <3> SUFFICES ASSUME NEW x
                 PROVE  x \in Wrong(S, D, n, vals, k) <=> \E r \in results : x = <<r.component, r.value>>
      OBVIOUS
    <3>7. ASSUME x \in Wrong(S, D, n, vals, k) PROVE \E r \in results : x = <<r.component, r.value>>
      <4>1. PICK v \in vals : x = <<k, {v}>> /\ ~Meets(S, D, n, k, b, v)
        BY <3>3, <3>7
      <4>2. ResultOf(f, shape, k, {v}) \in results
        BY <3>2, <3>6, <4>1
      <4> QED BY <3>4, <4>1, <4>2
    <3>8. ASSUME NEW r \in results, x = <<r.component, r.value>> PROVE x \in Wrong(S, D, n, vals, k)
      <4>1. PICK v \in Failing(D, shape, vals, k) : r = ResultOf(f, shape, k, {v})
        BY <3>6
      <4>2. x = <<k, {v}>> /\ v \in vals /\ ~Meets(S, D, n, k, b, v)
        BY <3>2, <3>4, <3>5, <3>8, <4>1
      <4> QED BY <3>3, <4>2
    <3> QED BY <3>7, <3>8
  <2> QED BY <2>3, <2>4
<1> QED BY <1>2, <1>3

\* So for the results of a pair altogether.
LEMMA ResultsViolated ==
  ASSUME NEW S, NEW D, NEW n, Checkable(S, D, n), NEW vals \in SUBSET Terms, IsFiniteSet(vals), NEW f
  PROVE  \A x : x \in Violated(S, D, n, vals) <=>
                \E r \in AllResults(D, f, ShapeAt(S, n), vals) : x = <<r.component, r.value>>
<1>1. \A x : x \in Violated(S, D, n, vals) <=> \E k \in Range(Components) : x \in Wrong(S, D, n, vals, k)
  BY ViolatedWrong
<1>2. \A k \in Range(Components) : \A x : x \in Wrong(S, D, n, vals, k) <=>
        \E r \in ResultSet(D, f, ShapeAt(S, n), vals, k) : x = <<r.component, r.value>>
  BY ResultsWrong
<1>3. \A r : r \in AllResults(D, f, ShapeAt(S, n), vals) <=>
        \E k \in Range(Components) : r \in ResultSet(D, f, ShapeAt(S, n), vals, k)
  BY ComponentsAre DEF AllResults
<1> QED BY <1>1, <1>2, <1>3

-----------------------------------------------------------------------------
(* What a call has to look at: a shape, a property shape of it and a focus *)
(* node of it; and what it is to find there.                               *)

Graphic(S, D) == S \in SUBSET Triples /\ IsFiniteSet(S) /\ D \in SUBSET Triples /\ IsFiniteSet(D)

\* A term is a literal or can be a subject.
LEMMA TermKinds == \A x \in Terms : x \in Subjects <=> x \notin Literals
BY KindsApart DEF Terms, Subjects

\* The focus nodes of a shape are the nodes that are its targets.
LEMMA TargetsAre ==
  ASSUME NEW S, NEW D, Graphic(S, D), NEW s
  PROVE  \A f : f \in Targets(S, D, s) <=> f \in Nodes(D \cup S) /\ IsTarget(S, D, s, f)
<1>1. \A t \in S \cup D : t = <<t[1], t[2], t[3]>> /\ t[1] \in Terms /\ t[3] \in Terms
  BY DEF Graphic, Triples, Terms, Subjects
<1>2. \A t \in S \cup D : t[1] \in Nodes(D \cup S) /\ t[3] \in Nodes(D \cup S)
  BY DEF Nodes
<1>3. \A p, x : x \in Objects(S, s, p) <=> <<s, p, x>> \in S
  BY ObjectsMembers DEF Graphic
<1> DEFINE declared(p) == Objects(S, s, p) \cap Iris
           nodes    == Objects(S, s, "sh:targetNode")
           classes  == {t[1] : t \in {u \in D : u[2] = "rdf:type" /\ u[3] \in declared("sh:targetClass")}}
           subjects == {t[1] : t \in {u \in D : u[2] \in declared("sh:targetSubjectsOf")}}
           objects  == {t[3] : t \in {u \in D : u[2] \in declared("sh:targetObjectsOf")}}
<1>4. \A f : f \in Targets(S, D, s) <=>
              f \in Subjects /\ (f \in nodes \/ f \in classes \/ f \in subjects \/ f \in objects)
  BY DEF Targets, Onward
<1>5. \A p, x : x \in declared(p) <=> x \in Iris /\ <<s, p, x>> \in S
  BY <1>3
<1>6. \A f : f \in nodes <=> <<s, "sh:targetNode", f>> \in S
  BY <1>3
<1> HIDE DEF declared
<1>7. \A f : f \in classes <=> \E x : x \in declared("sh:targetClass") /\ <<f, "rdf:type", x>> \in D
  <2> SUFFICES ASSUME NEW f
               PROVE  f \in classes <=> \E x : x \in declared("sh:targetClass") /\ <<f, "rdf:type", x>> \in D
    OBVIOUS
  <2>1. ASSUME NEW x, x \in declared("sh:targetClass"), <<f, "rdf:type", x>> \in D PROVE f \in classes
    <3>1. PICK t \in D : t[1] = f /\ t[2] = "rdf:type" /\ t[3] = x
      BY <2>1
    <3> QED BY <2>1, <3>1
  <2>2. ASSUME f \in classes PROVE \E x : x \in declared("sh:targetClass") /\ <<f, "rdf:type", x>> \in D
    BY <1>1, <2>2
  <2> QED BY <2>1, <2>2
<1>8. \A f : f \in subjects <=> \E u \in D : u[1] = f /\ u[2] \in declared("sh:targetSubjectsOf")
  OBVIOUS
<1>9. \A f : f \in objects <=> \E u \in D : u[3] = f /\ u[2] \in declared("sh:targetObjectsOf")
  OBVIOUS
<1> HIDE DEF nodes, classes, subjects, objects
<1>10. \A f : f \in nodes \/ f \in classes \/ f \in subjects \/ f \in objects =>
              f \in Nodes(D \cup S) /\ f \in Terms
  <2> SUFFICES ASSUME NEW f, f \in nodes \/ f \in classes \/ f \in subjects \/ f \in objects
               PROVE  f \in Nodes(D \cup S) /\ f \in Terms
    OBVIOUS
  <2>1. \E t \in S \cup D : f = t[1] \/ f = t[3]
    <3>1. CASE f \in nodes
      <4> DEFINE t == <<s, "sh:targetNode", f>>
      <4>1. t \in S /\ t[3] = f
        BY <1>6, <3>1
      <4> HIDE DEF t
      <4> QED BY <4>1
    <3>2. CASE f \in classes
      BY <3>2 DEF classes
    <3>3. CASE f \in subjects \/ f \in objects
      BY <1>8, <1>9, <3>3
    <3> QED BY <3>1, <3>2, <3>3
  <2> QED BY <1>1, <1>2, <2>1
<1>11. \A f : IsTarget(S, D, s, f) <=>
              f \notin Literals /\ (f \in nodes \/ f \in classes \/ f \in subjects \/ f \in objects)
  <2> SUFFICES ASSUME NEW f
               PROVE  IsTarget(S, D, s, f) <=>
                        f \notin Literals /\ (f \in nodes \/ f \in classes \/ f \in subjects \/ f \in objects)
    OBVIOUS
  <2> DEFINE way(p, x) == \/ p = "sh:targetClass" /\ <<f, "rdf:type", x>> \in D
                          \/ p = "sh:targetSubjectsOf" /\ \E u \in D : u[1] = f /\ u[2] = x
                          \/ p = "sh:targetObjectsOf" /\ \E u \in D : u[2] = x /\ u[3] = f
  <2>1. IsTarget(S, D, s, f) <=>
          /\ f \notin Literals
          /\ \/ <<s, "sh:targetNode", f>> \in S
             \/ \E t \in S : t[1] = s /\ t[3] \in Iris /\ way(t[2], t[3])
    BY DEF IsTarget
  <2>2. (\E t \in S : t[1] = s /\ t[3] \in Iris /\ way(t[2], t[3])) <=>
          \E p, x : x \in declared(p) /\ way(p, x)
    <3> HIDE DEF way
    <3>1. ASSUME NEW p, NEW x, x \in declared(p), way(p, x)
          PROVE  \E t \in S : t[1] = s /\ t[3] \in Iris /\ way(t[2], t[3])
      <4> DEFINE u == <<s, p, x>>
      <4>0. u \in S /\ u[1] = s /\ u[2] = p /\ u[3] = x
        BY <1>5, <3>1
      <4> HIDE DEF u
      <4>1. PICK t \in S : t[1] = s /\ t[2] = p /\ t[3] = x
        BY <4>0
      <4> QED BY <1>5, <3>1, <4>1
    <3>2. ASSUME NEW t \in S, t[1] = s, t[3] \in Iris, way(t[2], t[3])
          PROVE  \E p, x : x \in declared(p) /\ way(p, x)
      BY <1>1, <1>5, <3>2
    <3> QED BY <3>1, <3>2
  <2>3. (\E p, x : x \in declared(p) /\ way(p, x)) <=>
          \/ \E x : x \in declared("sh:targetClass") /\ <<f, "rdf:type", x>> \in D
          \/ \E x : x \in declared("sh:targetSubjectsOf") /\ \E u \in D : u[1] = f /\ u[2] = x
          \/ \E x : x \in declared("sh:targetObjectsOf") /\ \E u \in D : u[2] = x /\ u[3] = f
    OBVIOUS
  <2> HIDE DEF way
  <2> QED BY <1>6, <1>7, <1>8, <1>9, <2>1, <2>2, <2>3
<1> QED BY <1>4, <1>10, <1>11, TermKinds

\* What has a target is a shape.
LEMMA TargetShapes ==
  ASSUME NEW S, NEW D, Graphic(S, D), NEW s, Targets(S, D, s) # {}
  PROVE  s \in ShapesIn(S)
<1>1. \E p \in TargetPredicates : Objects(S, s, p) # {}
  BY DEF Targets, Onward, TargetPredicates
<1>2. PICK p \in TargetPredicates, t \in S : t[1] = s /\ t[2] = p
  BY <1>1 DEF Objects
<1> QED BY <1>2 DEF ShapesIn

Work(S, D) ==
  {w \in ShapesIn(S) \X Subjects \X Subjects : w[2] \in PropertyNodes(S, w[1]) /\ w[3] \in Targets(S, D, w[1])}

ValuesAt(S, D, n, f) == EvaluatePath(Syntax(S), Only(Objects(S, n, "sh:path")), D, f)
FoundAt(S, D, w) == {<<w[1], w[2], w[3], b>> : b \in Violated(S, D, w[2], ValuesAt(S, D, w[2], w[3]))}
FoundIn(S, D, W) == UNION {FoundAt(S, D, w) : w \in W}

\* The violations there are, as the property has them.
AllFound(S, D) ==
  LET syntax    == Syntax(S)
      places    == {<<t[1], t[3]>> : t \in {u \in S : u[2] = "sh:property" /\ u[3] \notin Literals}}
      foci(s)   == {f \in Nodes(D \cup S) : IsTarget(S, D, s, f)}
      reached(n, f) == EvaluatePath(syntax, Only(Objects(S, n, "sh:path")), D, f)
  IN  UNION {UNION {{<<p[1], p[2], f, b>> : b \in Violated(S, D, p[2], reached(p[2], f))} :
                    f \in foci(p[1])} : p \in places}

\* All there is to find is found at all there is to look at.
LEMMA AllFoundIn ==
  ASSUME NEW S, NEW D, Graphic(S, D)
  PROVE  AllFound(S, D) = FoundIn(S, D, Work(S, D))
<1> DEFINE places  == {<<t[1], t[3]>> : t \in {u \in S : u[2] = "sh:property" /\ u[3] \notin Literals}}
           foci(s) == {f \in Nodes(D \cup S) : IsTarget(S, D, s, f)}
           at(p, f) == {<<p[1], p[2], f, b>> : b \in Violated(S, D, p[2], ValuesAt(S, D, p[2], f))}
<1>1. AllFound(S, D) = UNION {UNION {at(p, f) : f \in foci(p[1])} : p \in places}
  BY DEF AllFound, ValuesAt
<1>2. \A s, f : f \in foci(s) <=> f \in Targets(S, D, s)
  BY TargetsAre
<1>3. \A t \in S : t = <<t[1], t[2], t[3]>> /\ t[3] \in Terms
  BY DEF Graphic, Triples
<1>4. \A s, n : n \in PropertyNodes(S, s) <=> <<s, "sh:property", n>> \in S /\ n \notin Literals
  BY <1>3, ObjectsMembers, TermKinds DEF PropertyNodes, Onward, Graphic
<1>5. \A s, n : <<s, n>> \in places <=> n \in PropertyNodes(S, s)
  <2> SUFFICES ASSUME NEW s, NEW n PROVE <<s, n>> \in places <=> <<s, "sh:property", n>> \in S /\ n \notin Literals
    BY <1>4
  <2>1. ASSUME <<s, n>> \in places PROVE <<s, "sh:property", n>> \in S /\ n \notin Literals
    BY <1>3, <2>1
  <2>2. ASSUME <<s, "sh:property", n>> \in S, n \notin Literals PROVE <<s, n>> \in places
    <3> DEFINE t == <<s, "sh:property", n>>
    <3>1. t \in S /\ t[1] = s /\ t[2] = "sh:property" /\ t[3] = n
      BY <2>2
    <3> HIDE DEF t
    <3> QED BY <2>2, <3>1
  <2> QED BY <2>1, <2>2
<1>6. \A p \in places : p = <<p[1], p[2]>>
  OBVIOUS
<1>7. \A s, n, f : <<s, n, f>> \in Work(S, D) <=> n \in PropertyNodes(S, s) /\ f \in Targets(S, D, s)
  <2>1. \A s : PropertyNodes(S, s) \subseteq Subjects /\ Targets(S, D, s) \subseteq Subjects
    BY DEF PropertyNodes, Targets, Onward
  <2>2. \A s, f : f \in Targets(S, D, s) => s \in ShapesIn(S)
    BY TargetShapes
  <2> QED BY <2>1, <2>2 DEF Work
<1>8. \A w \in Work(S, D) : w = <<w[1], w[2], w[3]>>
  BY DEF Work
<1>9. \A s, n, f : at(<<s, n>>, f) = FoundAt(S, D, <<s, n, f>>)
  BY DEF FoundAt
<1> HIDE DEF places, foci, at
<1>10. \A x : x \in AllFound(S, D) <=> \E s, n, f : <<s, n>> \in places /\ f \in foci(s) /\ x \in at(<<s, n>>, f)
  <2> SUFFICES ASSUME NEW x
               PROVE  x \in AllFound(S, D) <=>
                        \E s, n, f : <<s, n>> \in places /\ f \in foci(s) /\ x \in at(<<s, n>>, f)
    OBVIOUS
  <2>1. ASSUME x \in AllFound(S, D)
        PROVE  \E s, n, f : <<s, n>> \in places /\ f \in foci(s) /\ x \in at(<<s, n>>, f)
    <3>1. PICK p \in places : \E f \in foci(p[1]) : x \in at(p, f)
      BY <1>1, <2>1
    <3>2. PICK s, n : s = p[1] /\ n = p[2] /\ p = <<s, n>>
      BY <1>6
    <3> QED BY <3>1, <3>2
  <2>2. ASSUME NEW s, NEW n, NEW f, <<s, n>> \in places, f \in foci(s), x \in at(<<s, n>>, f)
        PROVE  x \in AllFound(S, D)
    <3> DEFINE p == <<s, n>>
    <3>1. p \in places /\ p[1] = s /\ x \in at(p, f)
      BY <2>2
    <3> HIDE DEF p
    <3> QED BY <1>1, <2>2, <3>1
  <2> QED BY <2>1, <2>2
<1>11. \A x : x \in FoundIn(S, D, Work(S, D)) <=>
              \E s, n, f : <<s, n, f>> \in Work(S, D) /\ x \in FoundAt(S, D, <<s, n, f>>)
  <2>1. \A x : x \in FoundIn(S, D, Work(S, D)) <=> \E w \in Work(S, D) : x \in FoundAt(S, D, w)
    BY DEF FoundIn
  <2> SUFFICES ASSUME NEW x
               PROVE  (\E w \in Work(S, D) : x \in FoundAt(S, D, w)) <=>
                        \E s, n, f : <<s, n, f>> \in Work(S, D) /\ x \in FoundAt(S, D, <<s, n, f>>)
    BY <2>1
  <2>2. ASSUME NEW w \in Work(S, D), x \in FoundAt(S, D, w)
        PROVE  \E s, n, f : <<s, n, f>> \in Work(S, D) /\ x \in FoundAt(S, D, <<s, n, f>>)
    <3>1. PICK s, n, f : w = <<s, n, f>>
      BY <1>8
    <3> QED BY <2>2, <3>1
  <2> QED BY <2>2
<1>12. \A x : x \in AllFound(S, D) <=> x \in FoundIn(S, D, Work(S, D))
  <2> SUFFICES ASSUME NEW x PROVE x \in AllFound(S, D) <=> x \in FoundIn(S, D, Work(S, D))
    OBVIOUS
  <2> DEFINE here(s, n, f) == n \in PropertyNodes(S, s) /\ f \in Targets(S, D, s) /\ x \in FoundAt(S, D, <<s, n, f>>)
  <2>1. x \in AllFound(S, D) <=> \E s, n, f : here(s, n, f)
    <3>1. \A s, n, f : (<<s, n>> \in places /\ f \in foci(s) /\ x \in at(<<s, n>>, f)) <=> here(s, n, f)
      <4> SUFFICES ASSUME NEW s, NEW n, NEW f
                   PROVE  (<<s, n>> \in places /\ f \in foci(s) /\ x \in at(<<s, n>>, f)) <=> here(s, n, f)
        OBVIOUS
      <4>1. at(<<s, n>>, f) = FoundAt(S, D, <<s, n, f>>)
        BY <1>9
      <4>2. (<<s, n>> \in places <=> n \in PropertyNodes(S, s)) /\ (f \in foci(s) <=> f \in Targets(S, D, s))
        BY <1>2, <1>5
      <4> QED BY <4>1, <4>2
    <3> HIDE DEF here
    <3> QED BY <1>10, <3>1
  <2>2. x \in FoundIn(S, D, Work(S, D)) <=> \E s, n, f : here(s, n, f)
    BY <1>7, <1>11
  <2> HIDE DEF here
  <2> QED BY <2>1, <2>2
<1> QED BY <1>12

-----------------------------------------------------------------------------
(* Lists without their heads, and lists of images.                         *)

\* The head of a list and its tail.
LEMMA HeadApart ==
  ASSUME NEW X, NEW list \in Seq(X), list # << >>, IsInjective(list)
  PROVE  /\ Range(list) = {Head(list)} \cup Range(Tail(list))
         /\ Head(list) \notin Range(Tail(list))
         /\ IsInjective(Tail(list))
<1> DEFINE n == Len(list)
           tail == Tail(list)
<1>1. n \in Nat \ {0} /\ DOMAIN list = 1..n
  BY LenProperties, EmptySeq
<1>2. tail \in Seq(X) /\ Len(tail) = n - 1 /\ \A i \in 1..(n - 1) : tail[i] = list[i + 1]
  BY HeadTailProperties
<1>3. DOMAIN tail = 1..(n - 1)
  BY <1>2, LenProperties
<1>4. Head(list) = list[1]
  BY <1>1
<1> HIDE DEF n, tail
<1>5. \A i, j \in 1..n : list[i] = list[j] => i = j
  BY <1>1 DEF IsInjective
<1>6. \A i \in 1..(n - 1) : i + 1 \in 1..n /\ i + 1 # 1
  BY <1>1
<1>7. 1 \in 1..n
  BY <1>1
<1>8. \A x : x \in Range(tail) <=> \E i \in 1..(n - 1) : x = list[i + 1]
  BY <1>2, <1>3 DEF Range
<1>9. \A x : x \in Range(list) <=> \E i \in 1..n : x = list[i]
  BY <1>1 DEF Range
<1>10. \A i \in 1..n : i = 1 \/ (i - 1 \in 1..(n - 1) /\ (i - 1) + 1 = i)
  BY <1>1
<1>11. Range(list) = {Head(list)} \cup Range(tail)
  <2> SUFFICES ASSUME NEW x PROVE x \in Range(list) <=> x = Head(list) \/ x \in Range(tail)
    BY Zenon
  <2>1. ASSUME x \in Range(list) PROVE x = Head(list) \/ x \in Range(tail)
    <3>1. PICK i \in 1..n : x = list[i]
      BY <1>9, <2>1
    <3>2. CASE i = 1
      BY <1>4, <3>1, <3>2
    <3>3. CASE i # 1
      BY <1>8, <1>10, <3>1, <3>3
    <3> QED BY <3>2, <3>3
  <2>2. x = Head(list) \/ x \in Range(tail) => x \in Range(list)
    BY <1>4, <1>6, <1>7, <1>8, <1>9
  <2> QED BY <2>1, <2>2
<1>12. Head(list) \notin Range(tail)
  BY <1>4, <1>5, <1>6, <1>7, <1>8
<1>13. IsInjective(tail)
  <2> SUFFICES ASSUME NEW i \in 1..(n - 1), NEW j \in 1..(n - 1), tail[i] = tail[j] PROVE i = j
    BY <1>3 DEF IsInjective
  <2>1. i + 1 = j + 1
    BY <1>2, <1>5, <1>6
  <2> QED BY <2>1
<1> QED BY <1>11, <1>12, <1>13 DEF tail

\* The images under g, in the same order.
Mapped(g, list) == [i \in 1..Len(list) |-> g[list[i]]]
Apart(g, X) == \A x, y \in X : g[x] = g[y] => x = y

\* The images of a list are a list of the images.
LEMMA MappedLists ==
  ASSUME NEW X, NEW list, Lists(list, X), NEW g, Apart(g, X)
  PROVE  Lists(Mapped(g, list), {g[x] : x \in X}) /\ Len(Mapped(g, list)) = Len(list)
<1> DEFINE n == Len(list)
           Z == {g[x] : x \in X}
           mapped == Mapped(g, list)
<1>1. list \in Seq(X) /\ Range(list) = X /\ IsInjective(list)
  BY DEF Lists
<1>2. n \in Nat /\ DOMAIN list = 1..n /\ \A i \in 1..n : list[i] \in X
  BY <1>1, LenProperties
<1>3. \A x \in X : \E i \in 1..n : list[i] = x
  BY <1>1, <1>2 DEF Range
<1>4. \A i, j \in 1..n : list[i] = list[j] => i = j
  BY <1>1, <1>2 DEF IsInjective
<1>5. mapped = [i \in 1..n |-> g[list[i]]]
  BY DEF Mapped
<1> HIDE DEF n, mapped
<1>6. mapped \in [1..n -> Z]
  BY <1>2, <1>5
<1>7. mapped \in Seq(Z) /\ Len(mapped) = n
  BY <1>2, <1>6, SeqDef, LenProperties
<1>8. DOMAIN mapped = 1..n /\ \A i \in 1..n : mapped[i] = g[list[i]]
  BY <1>5
<1>9. Range(mapped) = Z
  <2>1. \A z : z \in Range(mapped) <=> \E i \in 1..n : z = g[list[i]]
    BY <1>8 DEF Range
  <2> QED BY <1>2, <1>3, <2>1
<1>10. IsInjective(mapped)
  BY <1>2, <1>4, <1>8 DEF IsInjective, Apart
<1> QED BY <1>7, <1>9, <1>10 DEF Lists, mapped, n

-----------------------------------------------------------------------------
(* Of violations, those found are a list with their shapes.                *)

Matching(list, found) ==
  /\ Len(list) = Len(found)
  /\ \A i \in 1..Len(found) :
       list[i][2] = found[i].shape /\ list[i][3] = found[i].focus
       /\ list[i][4] = <<found[i].component, found[i].value>>

\* Matching lists, one after the other.
LEMMA MatchingConcat ==
  ASSUME NEW X, NEW a \in Seq(X), NEW b \in Seq(X), NEW Y, NEW v \in Seq(Y), NEW w \in Seq(Y),
         Matching(a, v), Matching(b, w)
  PROVE  Matching(a \o b, v \o w)
<1> DEFINE m == Len(v)
           n == Len(w)
<1>1. m \in Nat /\ n \in Nat /\ Len(a) = m /\ Len(b) = n
  BY LenProperties DEF Matching
<1>2. /\ Len(a \o b) = m + n
      /\ \A i \in 1..(m + n) : (a \o b)[i] = IF i <= m THEN a[i] ELSE b[i - m]
  <2>1. /\ Len(a \o b) = Len(a) + Len(b)
        /\ \A i \in 1..(Len(a) + Len(b)) : (a \o b)[i] = IF i <= Len(a) THEN a[i] ELSE b[i - Len(a)]
    BY ConcatProperties
  <2> QED BY <1>1, <2>1
<1>3. /\ Len(v \o w) = m + n
      /\ \A i \in 1..(m + n) : (v \o w)[i] = IF i <= m THEN v[i] ELSE w[i - m]
  BY ConcatProperties
<1> DEFINE alike(x, y) == x[2] = y.shape /\ x[3] = y.focus /\ x[4] = <<y.component, y.value>>
<1>4. (\A i \in 1..m : alike(a[i], v[i])) /\ \A i \in 1..n : alike(b[i], w[i])
  BY DEF Matching
<1> HIDE DEF alike, m, n
<1>5. ASSUME NEW i \in 1..(m + n) PROVE alike((a \o b)[i], (v \o w)[i])
  <2>1. CASE i <= m
    BY <1>1, <1>2, <1>3, <1>4, <2>1
  <2>2. CASE ~(i <= m)
    <3>1. i - m \in 1..n
      BY <1>1, <2>2
    <3> QED BY <1>1, <1>2, <1>3, <1>4, <2>2, <3>1
  <2> QED BY <2>1, <2>2
<1> QED BY <1>2, <1>3, <1>5 DEF Matching, alike

\* What list has found when it is the whole list.
LEMMA MatchingAll ==
  ASSUME NEW X, NEW list, Lists(list, X), NEW Y, NEW found \in Seq(Y), Matching(list, found)
  PROVE  {<<v.shape, v.focus, v.component, v.value>> : v \in Range(found)}
         = {<<x[2], x[3], x[4][1], x[4][2]>> : x \in X}
<1> DEFINE n == Len(found)
           f(v) == <<v.shape, v.focus, v.component, v.value>>
           h(x) == <<x[2], x[3], x[4][1], x[4][2]>>
<1>1. n \in Nat /\ Len(list) = n /\ DOMAIN found = 1..n
  BY LenProperties DEF Matching
<1>2. DOMAIN list = 1..n /\ Range(list) = X
  BY <1>1, LenProperties DEF Lists
<1>3. \A i \in 1..n : h(list[i]) = f(found[i])
  BY DEF Matching
<1> HIDE DEF f, h, n
<1>4. \A v : v \in Range(found) <=> \E i \in 1..n : v = found[i]
  BY <1>1 DEF Range
<1>5. \A x : x \in X <=> \E i \in 1..n : x = list[i]
  BY <1>2 DEF Range
<1>6. {f(v) : v \in Range(found)} = {h(x) : x \in X}
  <2> SUFFICES ASSUME NEW y PROVE y \in {f(v) : v \in Range(found)} <=> y \in {h(x) : x \in X}
    BY Zenon
  <2>1. y \in {f(v) : v \in Range(found)} <=> \E i \in 1..n : y = f(found[i])
    BY <1>4
  <2>2. y \in {h(x) : x \in X} <=> \E i \in 1..n : y = h(list[i])
    BY <1>5
  <2> QED BY <1>3, <2>1, <2>2
<1> QED BY <1>6 DEF f, h

-----------------------------------------------------------------------------
(* How far a call has come: with the shapes sh and, at shape s, the pairs  *)
(* pr still to do.                                                         *)

Left(S, D, s, sh, pr) ==
  {w \in Work(S, D) : w[1] \in Range(sh)} \cup {<<s, p[2].node, p[1]>> : p \in Range(pr)}

Ahead(S, D, s, sh, pr) ==
  /\ Graphic(S, D) /\ Unambiguous(S)
  /\ sh \in Seq(Subjects) /\ Range(sh) \subseteq ShapesIn(S) /\ IsInjective(sh)
  /\ pr \in Seq(Subjects \X PropertyShape) /\ IsInjective(pr)
  /\ Range(pr) \subseteq Targets(S, D, s) \X PropertyShapes(S, s)
  /\ pr # << >> => s \in ShapesIn(S) \ Range(sh) /\ PropertiesReadable(S, s)

\* The violations so far are those of what has been done.
Listing(S, D, s, sh, pr, found) ==
  \E list : Lists(list, FoundIn(S, D, Work(S, D) \ Left(S, D, s, sh, pr))) /\ Matching(list, found)

\* At the start everything is ahead and nothing listed.
LEMMA StartAhead ==
  ASSUME NEW S, NEW D, Graphic(S, D), Unambiguous(S), NEW s
  PROVE  /\ Ahead(S, D, s, Listed(ShapesIn(S)), << >>)
         /\ Listing(S, D, s, Listed(ShapesIn(S)), << >>, << >>)
<1> DEFINE sh == Listed(ShapesIn(S))
<1>1. ShapesIn(S) \in SUBSET Subjects /\ IsFiniteSet(ShapesIn(S))
  BY ShapesInTyped DEF Graphic
<1>2. sh \in Seq(ShapesIn(S)) /\ Range(sh) = ShapesIn(S) /\ IsInjective(sh)
  BY <1>1, ListedLists DEF Lists
<1>3. sh \in Seq(Subjects)
  BY <1>1, <1>2, SeqMonotonic
<1>4. << >> \in Seq(Subjects \X PropertyShape) /\ IsInjective(<< >>) /\ Range(<< >>) = {}
  BY EmptySeq, ShortRanges DEF IsInjective
<1> HIDE DEF sh
<1>5. Ahead(S, D, s, sh, << >>)
  BY <1>2, <1>3, <1>4 DEF Ahead
<1>6. Work(S, D) \ Left(S, D, s, sh, << >>) = {}
  BY <1>2, <1>4 DEF Left, Work
<1>7. FoundIn(S, D, {}) = {}
  BY DEF FoundIn
<1>8. Matching(<< >>, << >>)
  BY DEF Matching
<1>9. Listing(S, D, s, sh, << >>, << >>)
  BY <1>6, <1>7, <1>8, EmptyLists DEF Listing
<1> QED BY <1>5, <1>9 DEF sh

\* On to the next shape.
LEMMA TurnAhead ==
  ASSUME NEW S, NEW D, NEW s, NEW sh, sh # << >>, Ahead(S, D, s, sh, << >>),
         PropertiesReadable(S, Head(sh)), NEW found, Listing(S, D, s, sh, << >>, found)
  PROVE  LET pr == Listed(Targets(S, D, Head(sh)) \X PropertyShapes(S, Head(sh)))
         IN  /\ Ahead(S, D, Head(sh), Tail(sh), pr)
             /\ Listing(S, D, Head(sh), Tail(sh), pr, found)
<1> DEFINE u == Head(sh)
           rest == Tail(sh)
           T == Targets(S, D, u)
           P == PropertyShapes(S, u)
           pr == Listed(T \X P)
<1>0. Graphic(S, D) /\ Unambiguous(S) /\ sh \in Seq(Subjects) /\ Range(sh) \subseteq ShapesIn(S) /\ IsInjective(sh)
  BY DEF Ahead
<1>1. Range(sh) = {u} \cup Range(rest) /\ u \notin Range(rest) /\ IsInjective(rest) /\ rest \in Seq(Subjects)
  BY <1>0, HeadApart, HeadTailProperties
<1>2. T \in SUBSET Subjects /\ IsFiniteSet(T)
  BY <1>0, TargetsTyped DEF Graphic
<1>3. P \in SUBSET PropertyShape /\ IsFiniteSet(P)
  BY <1>0, PropertyShapesTyped DEF Graphic
<1>4. IsFiniteSet(T \X P) /\ T \X P \subseteq Subjects \X PropertyShape
  <2> HIDE DEF T, P
  <2> QED BY <1>2, <1>3, FS_Product
<1>5. pr \in Seq(T \X P) /\ Range(pr) = T \X P /\ IsInjective(pr)
  <2> HIDE DEF T, P
  <2> QED BY <1>4, ListedLists DEF Lists
<1>6. pr \in Seq(Subjects \X PropertyShape)
  BY <1>4, <1>5, SeqMonotonic
<1>7. Ahead(S, D, u, rest, pr)
  <2> HIDE DEF u, rest, pr
  <2>1. Range(rest) \subseteq ShapesIn(S) /\ u \in ShapesIn(S) \ Range(rest)
    BY <1>0, <1>1
  <2>2. PropertiesReadable(S, u)
    BY DEF u
  <2> QED BY <1>0, <1>1, <1>5, <1>6, <2>1, <2>2 DEF Ahead
<1>8. Left(S, D, u, rest, pr) = Left(S, D, s, sh, << >>)
  <2>1. Left(S, D, s, sh, << >>) = {w \in Work(S, D) : w[1] = u \/ w[1] \in Range(rest)}
    BY <1>1, ShortRanges DEF Left
  <2>2. {<<u, p[2].node, p[1]>> : p \in Range(pr)} = {w \in Work(S, D) : w[1] = u}
    <3> DEFINE now == {<<u, p[2].node, p[1]>> : p \in Range(pr)}
    <3>1. \A n, f : <<u, n, f>> \in now <=> n \in PropertyNodes(S, u) /\ f \in T
      <4>1. \A p : p \in P <=> \E n \in PropertyNodes(S, u) : p = ShapeAt(S, n)
        BY DEF PropertyShapes, ShapeAt
      <4>2. \A n : ShapeAt(S, n).node = n
        BY DEF ShapeAt
      <4> HIDE DEF T, P, u, pr
      <4> SUFFICES ASSUME NEW n, NEW f PROVE <<u, n, f>> \in now <=> n \in PropertyNodes(S, u) /\ f \in T
        OBVIOUS
      <4>3. ASSUME <<u, n, f>> \in now PROVE n \in PropertyNodes(S, u) /\ f \in T
        BY <1>5, <4>1, <4>2, <4>3
      <4>4. ASSUME n \in PropertyNodes(S, u), f \in T PROVE <<u, n, f>> \in now
        <5> DEFINE p == <<f, ShapeAt(S, n)>>
        <5>1. p \in Range(pr) /\ p[1] = f /\ p[2].node = n
          BY <1>5, <4>1, <4>2, <4>4
        <5> HIDE DEF p
        <5> QED BY <5>1
      <4> QED BY <4>3, <4>4
    <3>2. \A w \in now : w = <<u, w[2], w[3]>>
      OBVIOUS
    <3>3. \A w \in Work(S, D) : w = <<w[1], w[2], w[3]>>
      BY DEF Work
    <3>4. \A n, f : <<u, n, f>> \in Work(S, D) <=> n \in PropertyNodes(S, u) /\ f \in T
      <4>1. PropertyNodes(S, u) \subseteq Subjects /\ T \subseteq Subjects /\ u \in ShapesIn(S)
        BY <1>0, <1>1 DEF PropertyNodes, Targets, Onward
      <4> HIDE DEF T, u
      <4>2. \A n, f : <<u, n, f>> \in Work(S, D) <=>
              /\ u \in ShapesIn(S) /\ n \in Subjects /\ f \in Subjects
              /\ n \in PropertyNodes(S, u) /\ f \in Targets(S, D, u)
        BY DEF Work
      <4> QED BY <4>1, <4>2 DEF T
    <3> HIDE DEF now, u, T
    <3>5. \A w : w \in now => w \in Work(S, D) /\ w[1] = u
      BY <3>1, <3>2, <3>4
    <3>6. \A w : w \in Work(S, D) /\ w[1] = u => w \in now
      BY <3>1, <3>3, <3>4
    <3>7. now = {w \in Work(S, D) : w[1] = u}
      BY <3>5, <3>6
    <3> QED BY <3>7 DEF now, u
  <2> HIDE DEF u, rest, pr
  <2> QED BY <2>1, <2>2 DEF Left
<1>9. Listing(S, D, u, rest, pr, found)
  <2> HIDE DEF u, rest, pr
  <2> QED BY <1>8 DEF Listing
<1> QED BY <1>7, <1>9

-----------------------------------------------------------------------------
\* With the violation its shape.
Tags(s, X) == [r \in X |-> <<s, r.shape, r.focus, <<r.component, r.value>>>>]

\* The results of a pair are what is found there.
LEMMA PairFound ==
  ASSUME NEW S, NEW D, NEW s, NEW n, Checkable(S, D, n), NEW f,
         NEW vals \in SUBSET Terms, IsFiniteSet(vals), vals = ValuesAt(S, D, n, f),
         NEW new, Lists(new, AllResults(D, f, ShapeAt(S, n), vals))
  PROVE  \E list : Lists(list, FoundAt(S, D, <<s, n, f>>)) /\ Matching(list, new)
<1> DEFINE X == AllResults(D, f, ShapeAt(S, n), vals)
           g == Tags(s, X)
           Y == {g[r] : r \in X}
           list == Mapped(g, new)
<1>1. \A r \in X : /\ r.shape = n /\ r.focus = f
                   /\ r = ResultOf(f, ShapeAt(S, n), r.component, r.value)
  <2> SUFFICES ASSUME NEW r \in X
               PROVE  r.shape = n /\ r.focus = f /\ r = ResultOf(f, ShapeAt(S, n), r.component, r.value)
    OBVIOUS
  <2>1. PICK k : r \in ResultSet(D, f, ShapeAt(S, n), vals, k)
    BY DEF AllResults
  <2>2. PICK value : r = ResultOf(f, ShapeAt(S, n), k, value)
    BY <2>1, ResultSetMembers
  <2>3. ShapeAt(S, n).node = n
    BY DEF ShapeAt
  <2>4. r.component = k /\ r.value = value /\ r.shape = n /\ r.focus = f
    BY <2>2, <2>3 DEF ResultOf
  <2> QED BY <2>2, <2>4
<1>2. \A r \in X : g[r] = <<s, n, f, <<r.component, r.value>>>>
  BY <1>1 DEF Tags
<1>4. \A x \in Violated(S, D, n, vals) : \E r \in X : x = <<r.component, r.value>>
  BY ResultsViolated
<1>5. \A r \in X : <<r.component, r.value>> \in Violated(S, D, n, vals)
  BY ResultsViolated
<1> HIDE DEF X, g, Y
<1>6. \A x, y \in X : g[x] = g[y] => x = y
  <2> SUFFICES ASSUME NEW x \in X, NEW y \in X, g[x] = g[y] PROVE x = y
    OBVIOUS
  <2>1. x.component = y.component /\ x.value = y.value
    BY <1>2
  <2> QED BY <1>1, <2>1
<1>7. Lists(list, Y) /\ Len(list) = Len(new)
  <2>1. Lists(new, X)
    BY DEF X
  <2>2. Apart(g, X)
    BY <1>6 DEF Apart
  <2>3. Lists(Mapped(g, new), {g[x] : x \in X}) /\ Len(Mapped(g, new)) = Len(new)
    BY <2>1, <2>2, MappedLists
  <2> QED BY <2>3 DEF Y
<1>8. Y = FoundAt(S, D, <<s, n, f>>)
  <2>1. FoundAt(S, D, <<s, n, f>>) = {<<s, n, f, b>> : b \in Violated(S, D, n, vals)}
    BY DEF FoundAt
  <2>2. Y = {g[r] : r \in X}
    BY DEF Y
  <2>3. \A y \in Y : y \in FoundAt(S, D, <<s, n, f>>)
    BY <1>2, <1>5, <2>1, <2>2
  <2>4. \A y \in FoundAt(S, D, <<s, n, f>>) : y \in Y
    BY <1>2, <1>4, <2>1, <2>2
  <2> QED BY <2>3, <2>4
<1>9. Matching(list, new)
  <2>1. DOMAIN new = 1..Len(new) /\ \A i \in 1..Len(new) : new[i] \in X
    BY LenProperties DEF Lists, X
  <2>2. \A i \in 1..Len(new) : list[i] = g[new[i]]
    BY DEF Mapped
  <2> HIDE DEF list
  <2> QED BY <1>1, <1>2, <1>7, <2>1, <2>2 DEF Matching
<1> QED BY <1>7, <1>8, <1>9

\* One pair more has been done.
LEMMA CheckAhead ==
  ASSUME NEW S, NEW D, NEW s, NEW sh, NEW pr, pr # << >>, Ahead(S, D, s, sh, pr),
         NEW found \in Seq(Violations), Listing(S, D, s, sh, pr, found),
         NEW vals \in SUBSET Terms, IsFiniteSet(vals),
         vals = EvaluatePath(Syntax(S), Head(pr)[2].path, D, Head(pr)[1]),
         NEW new \in Seq(Violations), Lists(new, AllResults(D, Head(pr)[1], Head(pr)[2], vals))
  PROVE  Ahead(S, D, s, sh, Tail(pr)) /\ Listing(S, D, s, sh, Tail(pr), found \o new)
<1> DEFINE p == Head(pr)
           rest == Tail(pr)
           n == p[2].node
           f == p[1]
           w == <<s, n, f>>
           before == Left(S, D, s, sh, pr)
           after  == Left(S, D, s, sh, rest)
<1>1. /\ Graphic(S, D) /\ Unambiguous(S)
      /\ pr \in Seq(Subjects \X PropertyShape) /\ IsInjective(pr)
      /\ Range(pr) \subseteq Targets(S, D, s) \X PropertyShapes(S, s)
      /\ s \in ShapesIn(S) /\ s \notin Range(sh) /\ PropertiesReadable(S, s)
  BY DEF Ahead
<1>2. /\ Range(pr) = {p} \cup Range(rest) /\ p \notin Range(rest) /\ IsInjective(rest)
      /\ rest \in Seq(Subjects \X PropertyShape)
  BY <1>1, HeadApart, HeadTailProperties
<1>3. Ahead(S, D, s, sh, rest)
  <2> HIDE DEF rest, p
  <2> QED BY <1>1, <1>2 DEF Ahead
<1>4. \A q \in Range(pr) : /\ q[2].node \in PropertyNodes(S, s) /\ q[1] \in Targets(S, D, s)
                           /\ q = <<q[1], ShapeAt(S, q[2].node)>>
  <2> SUFFICES ASSUME NEW q \in Range(pr)
               PROVE  /\ q[2].node \in PropertyNodes(S, s) /\ q[1] \in Targets(S, D, s)
                      /\ q = <<q[1], ShapeAt(S, q[2].node)>>
    OBVIOUS
  <2>1. q = <<q[1], q[2]>> /\ q[1] \in Targets(S, D, s) /\ q[2] \in PropertyShapes(S, s)
    BY <1>1
  <2>2. PICK m \in PropertyNodes(S, s) : q[2] = ShapeAt(S, m)
    BY <2>1 DEF PropertyShapes, ShapeAt
  <2>3. q[2].node = m
    BY <2>2 DEF ShapeAt
  <2> QED BY <2>1, <2>2, <2>3
<1>5. n \in PropertyNodes(S, s) /\ f \in Targets(S, D, s) /\ p[2] = ShapeAt(S, n)
  <2>1. p \in Range(pr)
    BY <1>2
  <2>2. p = <<p[1], ShapeAt(S, p[2].node)>>
    BY <1>4, <2>1
  <2>3. p[2] = ShapeAt(S, p[2].node)
    <3> DEFINE m == ShapeAt(S, p[2].node)
    <3> HIDE DEF m
    <3>1. p = <<p[1], m>>
      BY <2>2 DEF m
    <3>2. p[2] = m
      BY <3>1
    <3> QED BY <3>2 DEF m
  <2> QED BY <1>4, <2>1, <2>3
<1>6. Checkable(S, D, n)
  BY <1>1, <1>5 DEF Checkable, Graphic, PropertiesReadable
<1>7. vals = ValuesAt(S, D, n, f)
  <2>1. p[2].path = Only(LookupObject(S, n, "sh:path"))
    BY <1>5 DEF ShapeAt
  <2>2. LookupObject(S, n, "sh:path") = Objects(S, n, "sh:path")
    BY <1>1, OneObject DEF Graphic
  <2> QED BY <2>1, <2>2 DEF ValuesAt
<1>8. PICK more : Lists(more, FoundAt(S, D, w)) /\ Matching(more, new)
  <2>1. Lists(new, AllResults(D, f, ShapeAt(S, n), vals))
    BY <1>5
  <2> HIDE DEF n, f
  <2> QED BY <1>6, <1>7, <2>1, PairFound
<1>9. PICK list : Lists(list, FoundIn(S, D, Work(S, D) \ before)) /\ Matching(list, found)
  BY DEF Listing
<1>10. w \in Work(S, D)
  <2>1. n \in Subjects /\ f \in Subjects
    BY <1>5 DEF PropertyNodes, Targets, Onward
  <2> HIDE DEF n, f
  <2> QED BY <1>1, <1>5, <2>1 DEF Work
<1>11. before = after \cup {w} /\ w \notin after
  <2>1. \A q, r \in Range(pr) : <<s, q[2].node, q[1]>> = <<s, r[2].node, r[1]>> => q = r
    <3> SUFFICES ASSUME NEW q \in Range(pr), NEW r \in Range(pr), q[2].node = r[2].node, q[1] = r[1]
                 PROVE  q = r
      OBVIOUS
    <3>1. q = <<q[1], ShapeAt(S, q[2].node)>> /\ r = <<r[1], ShapeAt(S, r[2].node)>>
      BY <1>4
    <3> QED BY <3>1
  <2> DEFINE item(q) == <<s, q[2].node, q[1]>>
             held == {v \in Work(S, D) : v[1] \in Range(sh)}
  <2>2. before = held \cup {item(q) : q \in Range(pr)} /\ after = held \cup {item(q) : q \in Range(rest)}
    BY DEF Left
  <2>3. w = item(p) /\ w \notin held
    BY <1>1
  <2>4. \A q \in Range(rest) : item(q) # item(p)
    BY <1>2, <2>1
  <2> HIDE DEF item, held, w, before, after, p, rest
  <2> QED BY <1>2, <2>2, <2>3, <2>4
<1> HIDE DEF w, before, after, n, f, p
<1>12. Work(S, D) \ after = (Work(S, D) \ before) \cup {w}
  BY <1>10, <1>11
<1>13. FoundIn(S, D, Work(S, D) \ after) = FoundIn(S, D, Work(S, D) \ before) \cup FoundAt(S, D, w)
  BY <1>12 DEF FoundIn
<1>14. FoundIn(S, D, Work(S, D) \ before) \cap FoundAt(S, D, w) = {}
  <2> SUFFICES ASSUME NEW x \in FoundAt(S, D, w), NEW v \in Work(S, D) \ before, x \in FoundAt(S, D, v)
               PROVE  FALSE
    BY DEF FoundIn
  <2>1. \A u : x \in FoundAt(S, D, u) => x[1] = u[1] /\ x[2] = u[2] /\ x[3] = u[3]
    BY DEF FoundAt
  <2>2. v = <<v[1], v[2], v[3]>> /\ w = <<w[1], w[2], w[3]>>
    BY <1>10 DEF Work
  <2>3. v = w
    BY <2>1, <2>2
  <2> QED BY <1>11, <2>3
<1>15. Lists(list \o more, FoundIn(S, D, Work(S, D) \ after))
  <2> DEFINE X == FoundIn(S, D, Work(S, D) \ before)
             Y == FoundAt(S, D, w)
  <2>1. Lists(list, X) /\ Lists(more, Y) /\ X \cap Y = {}
    BY <1>8, <1>9, <1>14
  <2> HIDE DEF X, Y
  <2>2. Lists(list \o more, X \cup Y)
    BY <2>1, ConcatLists
  <2> QED BY <1>13, <2>2 DEF X, Y
<1>16. Matching(list \o more, found \o new)
  <2> DEFINE X == FoundIn(S, D, Work(S, D) \ before)
             Y == FoundAt(S, D, w)
  <2>1. list \in Seq(X) /\ more \in Seq(Y)
    BY <1>8, <1>9 DEF Lists
  <2> HIDE DEF X, Y
  <2>2. list \in Seq(X \cup Y) /\ more \in Seq(X \cup Y)
    BY <2>1, SeqMonotonic
  <2> QED BY <1>8, <1>9, <2>2, MatchingConcat
<1>17. Listing(S, D, s, sh, rest, found \o new)
  BY <1>15, <1>16 DEF Listing, after
<1> QED BY <1>3, <1>17

-----------------------------------------------------------------------------
(* The violations a call has are those of what it has done.                *)

Loops == {"targets", "properties", "parse", "evaluate", "constraints", "clear"}

\* At stage at, with the shapes sh, the focus nodes foci and the pairs pr.
Far(S, D, s, at, sh, foci, pr, found) ==
  /\ Ahead(S, D, s, sh, pr) /\ Listing(S, D, s, sh, pr, found)
  /\ at \in {"targets", "properties", "clear"} => pr = << >>
  /\ at = "clear" => sh = << >>
  /\ at = "properties" => foci = Targets(S, D, Head(sh))

FarAlong(S, D, at, sh, foci, pr, found) == \E s : Far(S, D, s, at, sh, foci, pr, found)

DoneSoFar(c) ==
  /\ pc[c] = "shapes" => violations[c] = << >>
  /\ pc[c] \in Loops /\ quiet[c] /\ Unambiguous(Shapes(c)) =>
       FarAlong(Shapes(c), Data(c), pc[c], shapes[c], targets[c], pairs[c], violations[c])

DoneInv == \A c \in Conns : DoneSoFar(c)

\* A connection that does not move keeps what it has done.
LEMMA SameDone ==
  ASSUME NEW d, DoneSoFar(d), Same(d), quiet'[d] => quiet[d], quiet'[d] => store' = store
  PROVE  DoneSoFar(d)'
<1>1. /\ pc'[d] = pc[d] /\ shapes'[d] = shapes[d] /\ targets'[d] = targets[d] /\ pairs'[d] = pairs[d]
      /\ violations'[d] = violations[d] /\ call'[d] = call[d]
  BY DEF Same, SameReading
<1>2. quiet'[d] => Data(d)' = Data(d) /\ Shapes(d)' = Shapes(d)
  BY <1>1 DEF Data, Shapes
<1> QED BY <1>1, <1>2 DEF DoneSoFar

\* Where Onto goes to.
LEMMA OntoFar ==
  ASSUME NEW S, NEW D, NEW s, NEW sh, NEW foci, NEW pr, NEW found,
         Ahead(S, D, s, sh, pr), Listing(S, D, s, sh, pr, found),
         NEW at, at = IF pr # << >> THEN "parse" ELSE IF sh # << >> THEN "targets" ELSE "clear"
  PROVE  FarAlong(S, D, at, sh, foci, pr, found)
<1>1. Far(S, D, s, at, sh, foci, pr, found)
  BY DEF Far
<1> QED BY <1>1 DEF FarAlong

\* EnumerateShapes: all shapes are ahead.
LEMMA EnumerateDone ==
  ASSUME TypeInv, NEW c \in Conns, DoneSoFar(c), EnumerateShapes(c) PROVE DoneSoFar(c)'
<1> USE DEF TypeInv, Global, Functions
<1> DEFINE S == Shapes(c)
           D == Data(c)
           sh == Listed(ShapesIn(S))
<1>1. /\ store' = store /\ call' = call /\ quiet' = quiet /\ violations' = violations /\ targets' = targets
      /\ pc[c] = "shapes" /\ Onto(c, sh, << >>)
  BY DEF EnumerateShapes, Running, ReadOnly, history
<1>2. S' = S /\ D' = D
  BY <1>1 DEF Shapes, Data
<1>3. Graphic(S, D)
  BY GraphsTyped DEF Graphic
<1> HIDE DEF sh
<1>4. /\ shapes'[c] = sh /\ pairs'[c] = << >>
      /\ pc'[c] = IF << >> # << >> THEN "parse" ELSE IF sh # << >> THEN "targets" ELSE "clear"
  BY <1>1 DEF Onto, Goto
<1>5. violations[c] = << >>
  BY <1>1 DEF DoneSoFar
<1>6. ASSUME Unambiguous(S) PROVE FarAlong(S, D, pc'[c], sh, targets[c], << >>, << >>)
  <2> HIDE DEF S, D
  <2>1. PICK at : at = pc'[c]
    OBVIOUS
  <2>2. Ahead(S, D, "none", sh, << >>) /\ Listing(S, D, "none", sh, << >>, << >>)
    BY <1>3, <1>6, StartAhead DEF sh
  <2>3. at = IF << >> # << >> THEN "parse" ELSE IF sh # << >> THEN "targets" ELSE "clear"
    BY <1>4, <2>1
  <2>4. FarAlong(S, D, at, sh, targets[c], << >>, << >>)
    BY <2>2, <2>3, OntoFar
  <2> QED BY <2>1, <2>4
<1>7. pc'[c] # "shapes"
  BY <1>4
<1> QED BY <1>1, <1>2, <1>4, <1>5, <1>6, <1>7 DEF DoneSoFar

\* ResolveTargets: so are the targets of the shape.
LEMMA ResolveDone ==
  ASSUME TypeInv, NEW c \in Conns, DoneSoFar(c), ResolveTargets(c) PROVE DoneSoFar(c)'
<1> USE DEF TypeInv, Global, Functions
<1> DEFINE S == Shapes(c)
           D == Data(c)
<1>1. /\ store' = store /\ call' = call /\ quiet' = quiet /\ violations' = violations
      /\ shapes' = shapes /\ pairs' = pairs /\ pc[c] = "targets" /\ pc'[c] = "properties"
      /\ targets'[c] = Targets(S, D, Head(shapes[c]))
  BY DEF ResolveTargets, Running, ReadOnly, history, Goto
<1>2. S' = S /\ D' = D
  BY <1>1 DEF Shapes, Data
<1>3. ASSUME quiet[c], Unambiguous(S)
      PROVE  FarAlong(S, D, "properties", shapes[c], Targets(S, D, Head(shapes[c])), pairs[c], violations[c])
  <2>1. FarAlong(S, D, "targets", shapes[c], targets[c], pairs[c], violations[c])
    BY <1>1, <1>3 DEF DoneSoFar, Loops
  <2> HIDE DEF S, D
  <2>2. PICK s : Far(S, D, s, "targets", shapes[c], targets[c], pairs[c], violations[c])
    BY <2>1 DEF FarAlong
  <2>3. Far(S, D, s, "properties", shapes[c], Targets(S, D, Head(shapes[c])), pairs[c], violations[c])
    BY <2>2 DEF Far
  <2> QED BY <2>3 DEF FarAlong
<1> HIDE DEF S, D
<1>4. quiet'[c] = quiet[c] /\ shapes'[c] = shapes[c] /\ pairs'[c] = pairs[c] /\ violations'[c] = violations[c]
  BY <1>1
<1> QED BY <1>1, <1>2, <1>3, <1>4 DEF DoneSoFar, S, D

\* ReadPropertyShapes: each target with each property shape.
LEMMA ReadPropertiesDone ==
  ASSUME TypeInv, NEW c \in Conns, DoneSoFar(c), ReadPropertyShapes(c) PROVE DoneSoFar(c)'
<1> USE DEF TypeInv, Global, Functions
<1> DEFINE S == Shapes(c)
           D == Data(c)
           sh == Tail(shapes[c])
           u == Head(shapes[c])
           pr == Listed(targets[c] \X PropertyShapes(S, u))
<1>1. /\ store' = store /\ call' = call /\ quiet' = quiet /\ violations' = violations /\ targets' = targets
      /\ pc[c] = "properties" /\ Onto(c, sh, pr) /\ PropertiesReadable(S, u)
  BY DEF ReadPropertyShapes, Running, ReadOnly, history
<1>2. S' = S /\ D' = D
  BY <1>1 DEF Shapes, Data
<1>3. shapes[c] # << >>
  BY <1>1 DEF Placed
<1> HIDE DEF sh, pr
<1>4. /\ shapes'[c] = sh /\ pairs'[c] = pr
      /\ pc'[c] = IF pr # << >> THEN "parse" ELSE IF sh # << >> THEN "targets" ELSE "clear"
  BY <1>1 DEF Onto, Goto
<1>5. ASSUME quiet[c], Unambiguous(S) PROVE FarAlong(S, D, pc'[c], sh, targets[c], pr, violations[c])
  <2>1. FarAlong(S, D, "properties", shapes[c], targets[c], pairs[c], violations[c])
    BY <1>1, <1>5 DEF DoneSoFar, Loops
  <2> HIDE DEF S, D
  <2>2. PICK s : Far(S, D, s, "properties", shapes[c], targets[c], pairs[c], violations[c])
    BY <2>1 DEF FarAlong
  <2>3. /\ Ahead(S, D, s, shapes[c], << >>) /\ Listing(S, D, s, shapes[c], << >>, violations[c])
        /\ targets[c] = Targets(S, D, u)
    BY <2>2 DEF Far
  <2>4. pr = Listed(Targets(S, D, u) \X PropertyShapes(S, u))
    BY <2>3 DEF pr
  <2>5. PICK old : old = shapes[c]
    OBVIOUS
  <2>6. Ahead(S, D, u, sh, pr) /\ Listing(S, D, u, sh, pr, violations[c])
    <3>1. Ahead(S, D, s, old, << >>) /\ Listing(S, D, s, old, << >>, violations[c]) /\ old # << >>
      BY <1>3, <2>3, <2>5
    <3>2. u = Head(old) /\ sh = Tail(old) /\ PropertiesReadable(S, Head(old))
      BY <1>1, <2>5 DEF sh
    <3>3. LET l == Listed(Targets(S, D, Head(old)) \X PropertyShapes(S, Head(old)))
          IN  Ahead(S, D, Head(old), Tail(old), l) /\ Listing(S, D, Head(old), Tail(old), l, violations[c])
      BY <3>1, <3>2, TurnAhead
    <3> HIDE DEF u
    <3> QED BY <2>4, <3>2, <3>3
  <2>7. PICK at : at = pc'[c]
    OBVIOUS
  <2>8. at = IF pr # << >> THEN "parse" ELSE IF sh # << >> THEN "targets" ELSE "clear"
    BY <1>4, <2>7
  <2> HIDE DEF u
  <2>9. FarAlong(S, D, at, sh, targets[c], pr, violations[c])
    BY <2>6, <2>8, OntoFar
  <2> QED BY <2>7, <2>9
<1>6. pc'[c] # "shapes"
  BY <1>4
<1> HIDE DEF S, D
<1>7. quiet'[c] = quiet[c] /\ violations'[c] = violations[c] /\ targets'[c] = targets[c]
  BY <1>1
<1> QED BY <1>2, <1>4, <1>5, <1>6, <1>7 DEF DoneSoFar, S, D

\* Parsing and evaluating leave the rest alone.
LEMMA PathStepsDone ==
  ASSUME TypeInv, NEW c \in Conns, DoneSoFar(c), Parse(c) \/ Evaluate(c) PROVE DoneSoFar(c)'
<1> USE DEF TypeInv, Global, Functions
<1>1. /\ store' = store /\ call' = call /\ quiet' = quiet /\ violations' = violations /\ targets' = targets
      /\ shapes' = shapes /\ pairs' = pairs
      /\ pc[c] \in {"parse", "evaluate"} /\ pc'[c] \in {"evaluate", "constraints"}
  BY DEF Parse, Evaluate, Running, ReadOnly, history, Goto
<1>2. Shapes(c)' = Shapes(c) /\ Data(c)' = Data(c)
  BY <1>1 DEF Shapes, Data
<1>3. \A S, D, sh, foci, pr, found :
        FarAlong(S, D, pc[c], sh, foci, pr, found) => FarAlong(S, D, pc'[c], sh, foci, pr, found)
  <2> SUFFICES ASSUME NEW S, NEW D, NEW sh, NEW foci, NEW pr, NEW found,
                      FarAlong(S, D, pc[c], sh, foci, pr, found)
               PROVE  FarAlong(S, D, pc'[c], sh, foci, pr, found)
    OBVIOUS
  <2>1. PICK s : Far(S, D, s, pc[c], sh, foci, pr, found)
    BY DEF FarAlong
  <2>2. Far(S, D, s, pc'[c], sh, foci, pr, found)
    BY <1>1, <2>1 DEF Far
  <2> QED BY <2>2 DEF FarAlong
<1>4. /\ quiet'[c] = quiet[c] /\ shapes'[c] = shapes[c] /\ pairs'[c] = pairs[c]
      /\ violations'[c] = violations[c] /\ targets'[c] = targets[c]
      /\ pc[c] \in Loops /\ pc'[c] # "shapes"
  BY <1>1 DEF Loops
<1> QED BY <1>2, <1>3, <1>4 DEF DoneSoFar

\* CheckConstraints lists what is found at one pair more.
LEMMA CheckDone ==
  ASSUME TypeInv, NEW c \in Conns, PathFound(c), DoneSoFar(c), CheckConstraints(c) PROVE DoneSoFar(c)'
<1> USE DEF TypeInv, Global, Functions
<1> DEFINE S == Shapes(c)
           D == Data(c)
           sh == shapes[c]
           pr == pairs[c]
           rest == Tail(pairs[c])
           new == NewViolations(c)
<1>1. /\ store' = store /\ call' = call /\ quiet' = quiet /\ targets' = targets
      /\ pc[c] = "constraints" /\ Onto(c, sh, rest) /\ violations'[c] = violations[c] \o new
  BY DEF CheckConstraints, Running, ReadOnly, history
<1>2. S' = S /\ D' = D
  BY <1>1 DEF Shapes, Data
<1>3. pr # << >> /\ values[c] \in SUBSET Terms /\ IsFiniteSet(values[c]) /\ violations[c] \in Seq(Violations)
  BY <1>1 DEF Placed, Typed
<1>4. Lists(new, AllResults(D, Head(pr)[1], Head(pr)[2], values[c])) /\ new \in Seq(Violations)
  BY <1>1, NewViolationsListed
<1>5. quiet[c] => values[c] = EvaluatePath(Syntax(S), Head(pr)[2].path, D, Head(pr)[1])
  BY <1>1 DEF PathFound
<1> HIDE DEF rest, new
<1>6. /\ shapes'[c] = sh /\ pairs'[c] = rest
      /\ pc'[c] = IF rest # << >> THEN "parse" ELSE IF sh # << >> THEN "targets" ELSE "clear"
  BY <1>1 DEF Onto, Goto
<1>7. ASSUME quiet[c], Unambiguous(S) PROVE FarAlong(S, D, pc'[c], sh, targets[c], rest, violations[c] \o new)
  <2>1. FarAlong(S, D, "constraints", sh, targets[c], pr, violations[c])
    BY <1>1, <1>7 DEF DoneSoFar, Loops
  <2> HIDE DEF S, D, sh, pr
  <2>2. PICK s : Far(S, D, s, "constraints", sh, targets[c], pr, violations[c])
    BY <2>1 DEF FarAlong
  <2>3. Ahead(S, D, s, sh, pr) /\ Listing(S, D, s, sh, pr, violations[c])
    BY <2>2 DEF Far
  <2>4. PICK vals, found : vals = values[c] /\ found = violations[c]
    OBVIOUS
  <2>5. Ahead(S, D, s, sh, Tail(pr)) /\ Listing(S, D, s, sh, Tail(pr), found \o new)
    <3>1. found \in Seq(Violations) /\ Listing(S, D, s, sh, pr, found)
      BY <1>3, <2>3, <2>4
    <3>2. /\ vals \in SUBSET Terms /\ IsFiniteSet(vals)
          /\ vals = EvaluatePath(Syntax(S), Head(pr)[2].path, D, Head(pr)[1])
          /\ Lists(new, AllResults(D, Head(pr)[1], Head(pr)[2], vals))
      BY <1>3, <1>4, <1>5, <1>7, <2>4
    <3> QED BY <1>3, <1>4, <2>3, <3>1, <3>2, CheckAhead
  <2>6. Tail(pr) = rest
    BY DEF pr, rest
  <2>7. PICK at : at = pc'[c]
    OBVIOUS
  <2>8. at = IF rest # << >> THEN "parse" ELSE IF sh # << >> THEN "targets" ELSE "clear"
    BY <1>6, <2>7
  <2>9. FarAlong(S, D, at, sh, targets[c], rest, found \o new)
    BY <2>5, <2>6, <2>8, OntoFar
  <2> QED BY <2>4, <2>7, <2>9
<1>8. pc'[c] # "shapes"
  BY <1>6
<1>9. quiet'[c] = quiet[c] /\ targets'[c] = targets[c]
  BY <1>1
<1> HIDE DEF S, D
<1> QED BY <1>1, <1>2, <1>6, <1>7, <1>8, <1>9 DEF DoneSoFar, S, D

\* All other steps lead to where nothing is found.
LEMMA StepsDone ==
  ASSUME TypeInv, PathInv, DoneInv, NEW c \in Conns, Steps(c) PROVE DoneSoFar(c)'
<1> USE DEF TypeInv, Global, Functions
<1>0. PathFound(c) /\ DoneSoFar(c)
  BY DEF PathInv, DoneInv
<1>1. CASE EnumerateShapes(c) \/ ResolveTargets(c) \/ ReadPropertyShapes(c) \/ Parse(c) \/ Evaluate(c)
           \/ CheckConstraints(c)
  BY <1>0, <1>1, EnumerateDone, ResolveDone, ReadPropertiesDone, PathStepsDone, CheckDone
<1>2. CASE Begin(c)
  <2>1. violations'[c] = << >> /\ pc'[c] \notin Loops
    BY <1>2 DEF Begin, Fail, Return, Goto, Loops
  <2> QED BY <2>1 DEF DoneSoFar
<1>3. CASE \/ Change(c) \/ PropertyShapesRefused(c) \/ PathRefused(c) \/ CheckAborts(c)
           \/ ProvenanceRefused(c) \/ EmitDone(c)
  <2>1. pc'[c] = "idle"
    BY <1>3 DEF Change, PropertyShapesRefused, PathRefused, CheckAborts, ProvenanceRefused, EmitDone,
                Fail, Return, Goto
  <2> QED BY <2>1 DEF DoneSoFar, Loops
<1>4. CASE CollectReport(c) \/ RemoveQuad(c) \/ ReportCleared(c) \/ EmitLine(c) \/ NextResult(c)
  <2>1. pc'[c] \in {"remove", "emit"}
    BY <1>4 DEF CollectReport, RemoveQuad, ReportCleared, EmitLine, NextResult, BlockWritten, Running, Goto
  <2> QED BY <2>1 DEF DoneSoFar, Loops
<1> QED BY <1>1, <1>2, <1>3, <1>4 DEF Steps

\* Every step keeps the list in step with what is done.
LEMMA DoneInvStep ==
  ASSUME TypeInv, PathInv, DoneInv, [Next]_vars PROVE DoneInv'
<1>0. Functions /\ Quiets /\ \A c \in Conns : DoneSoFar(c)
  BY DEF TypeInv, Global, DoneInv
<1>1. ASSUME NEW c \in Conns, Steps(c) PROVE DoneInv'
  <2>1. Framed(c) /\ DoneSoFar(c)'
    BY <1>0, <1>1, StepFrames, StepsDone
  <2>2. ASSUME NEW d \in Conns \ {c} PROVE DoneSoFar(d)'
    BY <1>0, <2>1, SameDone DEF Framed, Hushed
  <2> QED BY <2>1, <2>2 DEF DoneInv
<1>2. ASSUME NEW c \in Conns, PathOverflows(c) PROVE DoneInv'
  <2>1. \A d \in Conns : Same(d)
    BY <1>0, <1>2, OverflowFrame DEF Framed
  <2>2. store' = store /\ quiet' = quiet
    BY <1>2 DEF PathOverflows, history
  <2> QED BY <1>0, <2>1, <2>2, SameDone DEF DoneInv
<1>3. CASE UNCHANGED vars
  <2>1. \A d \in Conns : Same(d)
    BY <1>3 DEF vars, locals, reading, writing, history, Same, SameReading
  <2>2. store' = store /\ quiet' = quiet
    BY <1>3 DEF vars, history
  <2> QED BY <1>0, <2>1, <2>2, SameDone DEF DoneInv
<1> QED BY <1>1, <1>2, <1>3, NextSteps

\* So it is at the start.
LEMMA DoneInvInit == ASSUME Init PROVE DoneInv
BY DEF Init, DoneInv, DoneSoFar, Loops

\* With nothing left the list is that of all there is to find.
LEMMA AllDone ==
  ASSUME TypeInv, DoneInv, NEW c \in Conns, pc[c] = "clear", quiet[c], Unambiguous(Shapes(c))
  PROVE  LET found == AllFound(Shapes(c), Data(c))
         IN  /\ Len(violations[c]) = Cardinality(found)
             /\ {<<v.shape, v.focus, v.component, v.value>> : v \in Range(violations[c])}
                = {<<x[2], x[3], x[4][1], x[4][2]>> : x \in found}
<1> DEFINE S == Shapes(c)
           D == Data(c)
           found == AllFound(S, D)
<1>1. Graphic(S, D)
  BY GraphsTyped DEF Graphic
<1>2. violations[c] \in Seq(Violations)
  BY DEF TypeInv, Typed
<1>3. FarAlong(S, D, "clear", shapes[c], targets[c], pairs[c], violations[c])
  BY DEF DoneInv, DoneSoFar, Loops
<1> HIDE DEF S, D
<1>4. PICK s : Far(S, D, s, "clear", shapes[c], targets[c], pairs[c], violations[c])
  BY <1>3 DEF FarAlong
<1>5. Listing(S, D, s, << >>, << >>, violations[c])
  BY <1>4 DEF Far
<1>6. Left(S, D, s, << >>, << >>) = {}
  BY ShortRanges DEF Left
<1>7. found = FoundIn(S, D, Work(S, D))
  BY <1>1, AllFoundIn
<1>8. PICK list : Lists(list, found) /\ Matching(list, violations[c])
  <2>1. Work(S, D) \ {} = Work(S, D)
    OBVIOUS
  <2> QED BY <1>5, <1>6, <1>7, <2>1 DEF Listing
<1> HIDE DEF found
<1>9. Cardinality(found) = Len(list)
  BY <1>8, ListsLength
<1>10. Len(list) = Len(violations[c])
  BY <1>8 DEF Matching
<1>11. {<<v.shape, v.focus, v.component, v.value>> : v \in Range(violations[c])}
       = {<<x[2], x[3], x[4][1], x[4][2]>> : x \in found}
  BY <1>2, <1>8, MatchingAll
<1> QED BY <1>9, <1>10, <1>11 DEF found, S, D

\* So the violations are exact.
LEMMA DoneAnswers == ASSUME TypeInv, DoneInv PROVE ViolationsAreExact
BY AllDone DEF ViolationsAreExact, AllFound

-----------------------------------------------------------------------------
\* Without a writer beside it, a call goes on to report what there is to
\* report and nothing else: a violation for every focus node of every shape,
\* every property shape and component and every value that does not meet it,
\* once however many targets name the node, whatever order the shapes, focus
\* nodes and values come in.  So for every shapes graph whose property shapes
\* set no parameter twice and whose lists do not fork.
THEOREM ViolationSafety == Spec => []ViolationsAreExact
<1>1. Init => TypeInv /\ PathInv /\ DoneInv
  BY TypeInvInit, PathInvInit, DoneInvInit
<1>2. TypeInv /\ PathInv /\ DoneInv /\ [Next]_vars => (TypeInv /\ PathInv /\ DoneInv)'
  BY TypeInvStep, PathInvStep, DoneInvStep
<1>3. TypeInv /\ DoneInv => ViolationsAreExact
  BY DoneAnswers
<1> QED BY <1>1, <1>2, <1>3, PTL DEF Spec
=============================================================================
