---------------------------- MODULE RuleProofs ----------------------------
(***************************************************************************)
(* What holds of the rules for every graph.  The list walker finds exactly *)
(* the lists that are there: its recursion has a solution, and that        *)
(* solution unfolds step by step like the paths of OwlSemantics.  What the *)
(* rules derive the store takes, and from a larger graph they derive more. *)
(***************************************************************************)
EXTENDS OwlRlRules, OwlSemantics, FiniteSetTheorems, SequenceTheorems, WellFoundedInduction, TLAPS

-----------------------------------------------------------------------------
(* Induction and recursion in a form the provers can use: the theorems of  *)
(* the library take a property as an operator, those here as a set.        *)

\* Every set of numbers has a least one.
LEMMA LeastNumber ==
  ASSUME NEW T, T \subseteq Nat, T # {}
  PROVE  \E x \in T : \A y \in T : x <= y
<1>1. \E R : /\ IsWellFoundedOn(R, Nat)
             /\ \A x, y \in Nat : x < y => <<x, y>> \in R
  <2>1. IsWellFoundedOn(OpToRel(<, Nat), Nat)
    BY NatLessThanWellFounded
  <2>2. \A x, y \in Nat : x < y => <<x, y>> \in OpToRel(<, Nat)
    BY DEF OpToRel
  <2> QED BY <2>1, <2>2
<1>2. PICK R : /\ IsWellFoundedOn(R, Nat)
               /\ \A x, y \in Nat : x < y => <<x, y>> \in R
  BY <1>1
<1>3. IsWellFoundedOn(R, Nat)
  BY <1>2
<1>4. \E x \in T : \A y \in T : ~(<<y, x>> \in R)
  BY <1>3, WFMin, Zenon
<1>5. PICK x \in T : \A y \in T : ~(<<y, x>> \in R)
  BY <1>4
<1>6. \A y \in T : ~(y < x)
  BY <1>2, <1>5
<1> QED BY <1>5, <1>6

\* Induction over the numbers.  The property is a set of numbers, since the
\* provers cannot instantiate an operator.
LEMMA NumberInduction ==
  ASSUME NEW S, 0 \in S, \A n \in Nat : n \in S => n + 1 \in S
  PROVE  Nat \subseteq S
<1>1. SUFFICES ASSUME Nat \ S # {} PROVE FALSE
  OBVIOUS
<1>2. PICK x \in Nat \ S : \A y \in Nat \ S : x <= y
  BY <1>1, LeastNumber, Zenon
<1>3. x # 0 /\ x - 1 \in Nat /\ ~(x <= x - 1)
  BY <1>2
<1>4. x - 1 \in S
  BY <1>2, <1>3
<1>5. (x - 1) + 1 = x
  BY <1>2
<1> QED BY <1>2, <1>3, <1>4, <1>5

\* Induction over a rank: a set that takes in every member of S whose lower
\* ones it holds, holds S.
LEMMA RankInduction ==
  ASSUME NEW S, NEW rank \in [S -> Nat], NEW P,
         \A x \in S : (\A y \in S : rank[y] < rank[x] => y \in P) => x \in P
  PROVE  S \subseteq P
<1>1. SUFFICES ASSUME S \ P # {} PROVE FALSE
  OBVIOUS
<1> DEFINE T == {rank[x] : x \in S \ P}
<1>2. T \subseteq Nat /\ T # {}
  BY <1>1
<1>3. PICK n \in T : \A m \in T : n <= m
  <2> HIDE DEF T
  <2> QED BY <1>2, LeastNumber
<1>4. PICK x \in S \ P : n = rank[x]
  OBVIOUS
<1>5. \A y \in S \ P : rank[x] <= rank[y]
  BY <1>3, <1>4
<1>6. \A y \in S : rank[y] < rank[x] => y \in P
  BY <1>5
<1> QED BY <1>4, <1>6

\* D describes a recursive definition of a function from S to V, f[x] being
\* D[<<x, f>>], in which a value depends on values of lower rank only.
Recursion(S, V, rank, bound, D) ==
  /\ V # {}
  /\ rank \in [S -> Nat]
  /\ bound \in Nat
  /\ \A x \in S : rank[x] < bound
  /\ \A x \in S, f \in [S -> V] : D[<<x, f>>] \in V
  /\ \A x \in S, f, g \in [S -> V] :
       (\A y \in S : rank[y] < rank[x] => f[y] = g[y]) => D[<<x, f>>] = D[<<x, g>>]

\* Such a definition has a solution.
LEMMA RecursionSolved ==
  ASSUME NEW S, NEW V, NEW rank, NEW bound, NEW D, Recursion(S, V, rank, bound, D)
  PROVE  \E f \in [S -> V] : f = [x \in S |-> D[<<x, f>>]]
<1> USE DEF Recursion
<1> DEFINE Solved(n) == \E f \in [S -> V] : \A x \in S : rank[x] < n => f[x] = D[<<x, f>>]
<1>1. 0 \in {n \in Nat : Solved(n)}
  <2>1. PICK v \in V : TRUE
    OBVIOUS
  <2>2. [x \in S |-> v] \in [S -> V] /\ \A x \in S : ~(rank[x] < 0)
    BY <2>1
  <2> QED BY <2>2
<1>2. ASSUME NEW n \in Nat, Solved(n) PROVE Solved(n + 1)
  <2>1. PICK f \in [S -> V] : \A x \in S : rank[x] < n => f[x] = D[<<x, f>>]
    BY <1>2
  <2> DEFINE g == [x \in S |-> D[<<x, f>>]]
  <2>2. g \in [S -> V] /\ \A x \in S : g[x] = D[<<x, f>>]
    OBVIOUS
  <2>3. \A x \in S : rank[x] < n => g[x] = f[x]
    BY <2>1, <2>2
  <2> HIDE DEF g
  <2>4. ASSUME NEW x \in S, rank[x] < n + 1 PROVE g[x] = D[<<x, g>>]
    <3>1. \A y \in S : rank[y] < rank[x] => f[y] = g[y]
      BY <2>3, <2>4
    <3>2. D[<<x, f>>] = D[<<x, g>>]
      BY <2>2, <3>1
    <3> QED BY <2>2, <3>2
  <2> QED BY <2>2, <2>4
<1>3. Nat \subseteq {n \in Nat : Solved(n)}
  <2> HIDE DEF Solved
  <2>1. \A n \in Nat : n \in {m \in Nat : Solved(m)} => n + 1 \in {m \in Nat : Solved(m)}
    BY <1>2
  <2> QED BY <1>1, <2>1, NumberInduction, Zenon
<1>4. PICK f \in [S -> V] : \A x \in S : rank[x] < bound => f[x] = D[<<x, f>>]
  BY <1>3
<1>5. \A x \in S : f[x] = D[<<x, f>>]
  BY <1>4
<1> QED BY <1>5

-----------------------------------------------------------------------------
(* The list walker.                                                        *)

AllWellFormed(G) == \A t \in G : WellFormed(t)

Ends(G, head) == {t[1] : t \in G} \cup {t[3] : t \in G} \cup {head}

\* The body of walk.
WalkStep(G, at, walk) ==
  LET cursor == at[1]
      seen   == at[2]
      firsts == Objects(G, cursor, "first")
      rests  == Objects(G, cursor, "rest")
  IN  IF cursor \in seen \/ Cardinality(firsts) # 1 \/ Cardinality(rests) # 1
        THEN {}
        ELSE UNION {IF r = "nil" THEN {<<f>> : f \in firsts}
                    ELSE IF ~Node(r) THEN {}
                    ELSE {<<f>> \o tail : f \in firsts,
                                          tail \in walk[<<r, seen \cup {cursor}>>]} :
                      r \in rests}

\* What a list node is linked to is among the ends the walker ranges over.
LEMMA ObjectsAreEnds ==
  ASSUME NEW G, NEW head, NEW s, NEW p
  PROVE  Objects(G, s, p) \subseteq Ends(G, head)
BY DEF Objects, Ends

\* A finite graph gives the walker finitely many places to be.
LEMMA EndsFinite ==
  ASSUME NEW G, IsFiniteSet(G), NEW head
  PROVE  IsFiniteSet(Ends(G, head))
<1>1. IsFiniteSet({t[1] : t \in G})
  <2>1. [t \in G |-> t[1]] \in Surjection(G, {t[1] : t \in G})
    BY DEF Surjection
  <2> QED BY <2>1, FS_Surjection
<1>2. IsFiniteSet({t[3] : t \in G})
  <2>1. [t \in G |-> t[3]] \in Surjection(G, {t[3] : t \in G})
    BY DEF Surjection
  <2> QED BY <2>1, FS_Surjection
<1>3. IsFiniteSet({t[1] : t \in G} \cup {t[3] : t \in G})
  BY <1>1, <1>2, FS_Union
<1> QED BY <1>3, FS_AddElement DEF Ends

\* One first, one rest, and the list that starts with the one and goes on
\* from the other.
OneStep(G, at, walk, l) ==
  /\ at[1] \notin at[2]
  /\ Cardinality(Objects(G, at[1], "first")) = 1
  /\ Cardinality(Objects(G, at[1], "rest")) = 1
  /\ \E f \in Objects(G, at[1], "first"), r \in Objects(G, at[1], "rest") :
       \/ r = "nil" /\ l = <<f>>
       \/ /\ r # "nil" /\ Node(r)
          /\ \E tail \in walk[<<r, at[2] \cup {at[1]}>>] : l = <<f>> \o tail

\* WalkStep, member by member.
LEMMA WalkStepMembers ==
  ASSUME NEW G, NEW at, NEW walk, NEW l
  PROVE  l \in WalkStep(G, at, walk) <=> OneStep(G, at, walk, l)
<1> DEFINE F == Objects(G, at[1], "first")
          T(r) == walk[<<r, at[2] \cup {at[1]}>>]
          Found(r) == IF r = "nil" THEN {<<f>> : f \in F}
             ELSE IF ~Node(r) THEN {}
             ELSE {<<f>> \o tail : f \in F, tail \in T(r)}
<1>1. WalkStep(G, at, walk) = IF at[1] \in at[2] \/ Cardinality(Objects(G, at[1], "first")) # 1 \/ Cardinality(Objects(G, at[1], "rest")) # 1
        THEN {} ELSE UNION {Found(r) : r \in Objects(G, at[1], "rest")}
  BY DEF WalkStep
<1>2. ASSUME NEW r
      PROVE  l \in Found(r) <=> \E f \in F :
                \/ r = "nil" /\ l = <<f>>
                \/ /\ r # "nil" /\ Node(r)
                   /\ \E tail \in T(r) : l = <<f>> \o tail
  <2> HIDE DEF F, T
  <2>1. CASE r = "nil"
    <3>1. Found(r) = {<<f>> : f \in F}
      BY <2>1
    <3> HIDE DEF Found
    <3> QED BY <2>1, <3>1
  <2>2. CASE r # "nil" /\ ~Node(r)
    <3>1. Found(r) = {}
      BY <2>2
    <3> HIDE DEF Found
    <3> QED BY <2>2, <3>1
  <2>3. CASE r # "nil" /\ Node(r)
    <3> DEFINE B == T(r)
    <3>1. Found(r) = {<<f>> \o tail : f \in F, tail \in B}
      BY <2>3
    <3> HIDE DEF Found, B
    <3>2. l \in Found(r) <=> \E f \in F, tail \in B : l = <<f>> \o tail
      BY <3>1, SMT
    <3> USE DEF B
    <3> QED BY <2>3, <3>2, Zenon
  <2> HIDE DEF Found
  <2> QED BY <2>1, <2>2, <2>3, Zenon
<1>3. l \in WalkStep(G, at, walk) <=>
           /\ at[1] \notin at[2]
           /\ Cardinality(Objects(G, at[1], "first")) = 1
           /\ Cardinality(Objects(G, at[1], "rest")) = 1
           /\ \E r \in Objects(G, at[1], "rest") : l \in Found(r)
  <2> HIDE DEF Found
  <2> QED BY <1>1, Zenon
<1> HIDE DEF Found
<1> QED BY <1>2, <1>3 DEF OneStep

\* It finds sequences of ends.
LEMMA WalkStepTyped ==
  ASSUME NEW G, NEW head, NEW at \in Ends(G, head) \X SUBSET Ends(G, head),
         NEW walk \in [Ends(G, head) \X SUBSET Ends(G, head) -> SUBSET Seq(Ends(G, head))]
  PROVE  WalkStep(G, at, walk) \in SUBSET Seq(Ends(G, head))
<1> DEFINE N == Ends(G, head)
<1> SUFFICES ASSUME NEW l \in WalkStep(G, at, walk) PROVE l \in Seq(N)
  OBVIOUS
<1>0. at[1] \in N /\ at[2] \subseteq N
  OBVIOUS
<1>1. Objects(G, at[1], "first") \subseteq N /\ Objects(G, at[1], "rest") \subseteq N
  BY ObjectsAreEnds
<1>2. PICK f \in Objects(G, at[1], "first"), r \in Objects(G, at[1], "rest") :
         \/ l = <<f>>
         \/ \E tail \in walk[<<r, at[2] \cup {at[1]}>>] : l = <<f>> \o tail
  <2>1. OneStep(G, at, walk, l)
    BY WalkStepMembers, Zenon
  <2> QED BY <2>1 DEF OneStep
<1>3. CASE l = <<f>>
  BY <1>1, <1>3
<1>4. CASE \E tail \in walk[<<r, at[2] \cup {at[1]}>>] : l = <<f>> \o tail
  <2>1. PICK tail \in walk[<<r, at[2] \cup {at[1]}>>] : l = <<f>> \o tail
    BY <1>4
  <2>2. <<r, at[2] \cup {at[1]}>> \in N \X SUBSET N
    BY <1>0, <1>1
  <2>3. tail \in Seq(N) /\ <<f>> \in Seq(N)
    BY <1>1, <2>1, <2>2
  <2> QED BY <2>1, <2>3
<1> QED BY <1>2, <1>3, <1>4

\* Two walks agree wherever more has been seen than at.
AgreeBelow(G, head, at, f, g) ==
  \A b \in Ends(G, head) \X SUBSET Ends(G, head) :
    Cardinality(Ends(G, head) \ b[2]) < Cardinality(Ends(G, head) \ at[2]) => f[b] = g[b]

\* It asks the walk only about places where one node more has been seen.
LEMMA WalkStepDepends ==
  ASSUME NEW G, NEW head, IsFiniteSet(Ends(G, head)),
         NEW at \in Ends(G, head) \X SUBSET Ends(G, head), NEW f, NEW g,
         AgreeBelow(G, head, at, f, g)
  PROVE  WalkStep(G, at, f) = WalkStep(G, at, g)
<1> DEFINE N == Ends(G, head)
<1>1. CASE at[1] \in at[2]
  BY <1>1 DEF WalkStep
<1>2. CASE at[1] \notin at[2]
  <2>1. \A r \in Objects(G, at[1], "rest") : f[<<r, at[2] \cup {at[1]}>>] = g[<<r, at[2] \cup {at[1]}>>]
    <3> SUFFICES ASSUME NEW r \in Objects(G, at[1], "rest")
                 PROVE  f[<<r, at[2] \cup {at[1]}>>] = g[<<r, at[2] \cup {at[1]}>>]
      OBVIOUS
    <3>1. at[1] \in N \ at[2] /\ r \in N /\ at[2] \subseteq N
      BY <1>2, ObjectsAreEnds
    <3>2. IsFiniteSet(N \ at[2])
      BY FS_Subset
    <3>3. N \ (at[2] \cup {at[1]}) = (N \ at[2]) \ {at[1]}
      OBVIOUS
    <3>4. Cardinality((N \ at[2]) \ {at[1]}) = Cardinality(N \ at[2]) - 1 /\ Cardinality(N \ at[2]) \in Nat
      BY <3>1, <3>2, FS_RemoveElement, FS_CardinalityType
    <3>5. <<r, at[2] \cup {at[1]}>> \in N \X SUBSET N
      BY <3>1
    <3> DEFINE b == <<r, at[2] \cup {at[1]}>>
    <3>6. b[2] = at[2] \cup {at[1]}
      OBVIOUS
    <3> HIDE DEF b, N
    <3>7. Cardinality(N \ b[2]) < Cardinality(N \ at[2])
      <4>1. Cardinality(N \ b[2]) = Cardinality((N \ at[2]) \ {at[1]})
        BY <3>3, <3>6, Zenon
      <4> QED BY <3>4, <4>1
    <3>8. f[b] = g[b]
      BY <3>5, <3>7 DEF AgreeBelow, b, N
    <3> QED BY <3>8 DEF b
  <2>2. ASSUME NEW l PROVE l \in WalkStep(G, at, f) <=> l \in WalkStep(G, at, g)
    <3>1. OneStep(G, at, f, l) <=> OneStep(G, at, g, l)
      BY <2>1 DEF OneStep
    <3> QED BY <3>1, WalkStepMembers, Zenon
  <2> QED BY <2>2
<1> QED BY <1>1, <1>2

\* Two walks of a graph find the same: what has been seen grows.
LEMMA WalksAgree ==
  ASSUME NEW G, IsFiniteSet(G), NEW head, NEW f, NEW g,
         \A at \in Ends(G, head) \X SUBSET Ends(G, head) :
           f[at] = WalkStep(G, at, f) /\ g[at] = WalkStep(G, at, g)
  PROVE  \A at \in Ends(G, head) \X SUBSET Ends(G, head) : f[at] = g[at]
<1> DEFINE N == Ends(G, head)
           S == N \X SUBSET N
           rank == [at \in S |-> Cardinality(N \ at[2])]
           P == {at \in S : f[at] = g[at]}
<1>1. IsFiniteSet(N)
  BY EndsFinite
<1>2. rank \in [S -> Nat]
  <2>1. \A at \in S : Cardinality(N \ at[2]) \in Nat
    BY <1>1, FS_Subset, FS_CardinalityType
  <2> HIDE DEF N, S
  <2> QED BY <2>1
<1>3. ASSUME NEW at \in S, \A y \in S : rank[y] < rank[at] => y \in P
      PROVE  at \in P
  <2>1. AgreeBelow(G, head, at, f, g)
    BY <1>3 DEF AgreeBelow
  <2>2. WalkStep(G, at, f) = WalkStep(G, at, g)
    <3>1. at \in Ends(G, head) \X SUBSET Ends(G, head) /\ IsFiniteSet(Ends(G, head))
      BY <1>1
    <3> HIDE DEF rank, S, N
    <3> QED BY <2>1, <3>1, WalkStepDepends
  <2> QED BY <2>2
<1>4. S \subseteq P
  <2> HIDE DEF P, S, rank
  <2> QED BY <1>2, <1>3, RankInduction
<1> QED BY <1>4

\* The recursion of Lists has a solution, in sequences of terms of the graph.
IsWalk(G, head, walk) ==
  /\ walk \in [Ends(G, head) \X SUBSET Ends(G, head) -> SUBSET Seq(Ends(G, head))]
  /\ \A at \in Ends(G, head) \X SUBSET Ends(G, head) : walk[at] = WalkStep(G, at, walk)
  /\ Lists(G, head) = IF head = "nil" THEN {<< >>} ELSE walk[<<head, {}>>]

\* So a walk exists: places are ranked by what is left to see.
LEMMA WalkSolved ==
  ASSUME NEW G, IsFiniteSet(G), NEW head
  PROVE  \E walk : IsWalk(G, head, walk)
<1> DEFINE N == Ends(G, head)
           S == N \X SUBSET N
           V == SUBSET Seq(N)
           rank == [at \in S |-> Cardinality(N \ at[2])]
           D == [y \in S \X [S -> V] |-> WalkStep(G, y[1], y[2])]
<1>1. IsFiniteSet(N)
  BY EndsFinite
<1>2. \A at \in S, f \in [S -> V] : D[<<at, f>>] = WalkStep(G, at, f)
  OBVIOUS
<1>3. Recursion(S, V, rank, Cardinality(N) + 1, D)
  <2>1. \A T \in SUBSET N : Cardinality(N \ T) \in Nat /\ Cardinality(N \ T) < Cardinality(N) + 1
    BY <1>1, FS_Subset, FS_CardinalityType
  <2>2. rank \in [S -> Nat] /\ Cardinality(N) + 1 \in Nat /\ \A at \in S : rank[at] < Cardinality(N) + 1
    <3>1. \A at \in S : at[2] \in SUBSET N
      OBVIOUS
    <3>2. Cardinality(N) + 1 \in Nat
      BY <1>1, FS_CardinalityType
    <3> HIDE DEF S, N
    <3> QED BY <2>1, <3>1, <3>2
  <2>3. \A at \in S, f \in [S -> V] : D[<<at, f>>] \in V
    BY <1>2, WalkStepTyped
  <2>4. ASSUME NEW at \in S, NEW f \in [S -> V], NEW g \in [S -> V],
               \A y \in S : rank[y] < rank[at] => f[y] = g[y]
        PROVE  D[<<at, f>>] = D[<<at, g>>]
    <3>1. WalkStep(G, at, f) = WalkStep(G, at, g)
      <4>1. AgreeBelow(G, head, at, f, g)
        BY <2>4 DEF AgreeBelow
      <4>2. at \in Ends(G, head) \X SUBSET Ends(G, head) /\ IsFiniteSet(Ends(G, head))
        BY <1>1
      <4> HIDE DEF S, N, D, rank
      <4> QED BY <4>1, <4>2, WalkStepDepends
    <3> HIDE DEF D
    <3> QED BY <1>2, <3>1
  <2>5. V # {}
    OBVIOUS
  <2> HIDE DEF S, V, rank, D
  <2> QED BY <2>2, <2>3, <2>4, <2>5 DEF Recursion
<1>4. PICK f \in [S -> V] : f = [at \in S |-> D[<<at, f>>]]
  <2> HIDE DEF S, V, rank, D
  <2> QED BY <1>3, RecursionSolved
<1>5. f = [at \in S |-> WalkStep(G, at, f)]
  <2> HIDE DEF S, V, D
  <2> QED BY <1>2, <1>4
<1> DEFINE W == CHOOSE walk : walk = [at \in S |-> WalkStep(G, at, walk)]
<1>6. W = [at \in S |-> WalkStep(G, at, W)]
  BY <1>5
<1>7. Lists(G, head) = IF head = "nil" THEN {<< >>} ELSE W[<<head, {}>>]
  BY DEF Lists, WalkStep, Ends
<1>8. W = f
  <2>1. \A at \in S : W[at] = WalkStep(G, at, W) /\ f[at] = WalkStep(G, at, f)
    <3> HIDE DEF W, S
    <3> QED BY <1>5, <1>6
  <2>2. \A at \in S : W[at] = f[at]
    <3> HIDE DEF W
    <3> QED BY <2>1, WalksAgree
  <2> HIDE DEF W, S
  <2>3. W = [at \in S |-> W[at]]
    BY <1>6
  <2> QED BY <2>2, <2>3
<1>9. \A at \in S : f[at] = WalkStep(G, at, f)
  <2> HIDE DEF S
  <2> QED BY <1>5
<1> HIDE DEF W, D, rank
<1>10. IsWalk(G, head, f)
  BY <1>7, <1>8, <1>9 DEF IsWalk
<1> QED BY <1>10

\* The nodes a list can be made of, and paths of them that avoid seen.
Good(G) == {n \in {t[1] : t \in G} : /\ n # "nil"
                                     /\ Cardinality(Links(G, n, "first")) = 1
                                     /\ Cardinality(Links(G, n, "rest")) = 1}
First(G, n) == CHOOSE v \in Links(G, n, "first") : TRUE
IsPath(G, k, n, c, seen) ==
  /\ k \in Nat /\ k # 0
  /\ n \in [1..k -> Good(G) \ seen]
  /\ n[1] = c
  /\ \A i, j \in 1..k : n[i] = n[j] => i = j
  /\ \A i \in 1..(k - 1) : Links(G, n[i], "rest") = {n[i + 1]}
  /\ Links(G, n[k], "rest") = {"nil"}
Firsts(G, k, n) == [i \in 1..k |-> First(G, n[i])]
LinkedTo(c, k, n) == [i \in 1..(k + 1) |-> IF i = 1 THEN c ELSE n[i - 1]]

\* A node before a path is a path.
LEMMA ConsPath ==
  ASSUME NEW G, NEW k, NEW n, NEW c, NEW r, NEW seen, IsPath(G, k, n, r, seen \cup {c}),
         c \in Good(G), c \notin seen, Links(G, c, "rest") = {r}
  PROVE  /\ IsPath(G, k + 1, LinkedTo(c, k, n), c, seen)
         /\ Firsts(G, k + 1, LinkedTo(c, k, n)) = <<First(G, c)>> \o Firsts(G, k, n)
<1> DEFINE m == LinkedTo(c, k, n)
<1>1. k \in Nat /\ k # 0 /\ n \in [1..k -> Good(G) \ (seen \cup {c})] /\ n[1] = r
  BY DEF IsPath
<1>2. m \in [1..(k + 1) -> Good(G) \ seen] /\ m[1] = c /\ \A i \in 1..k : m[i + 1] = n[i]
  BY <1>1 DEF LinkedTo
<1>3. \A i \in 1..k : n[i] # c
  BY <1>1
<1>4. \A i \in 1..(k + 1) : i = 1 \/ (i - 1 \in 1..k /\ m[i] = n[i - 1])
  BY <1>1 DEF LinkedTo
<1> HIDE DEF m
<1>5. \A i, j \in 1..(k + 1) : m[i] = m[j] => i = j
  <2>1. \A i, j \in 1..k : n[i] = n[j] => i = j
    BY DEF IsPath
  <2> QED BY <1>1, <1>2, <1>3, <1>4, <2>1
<1>6. \A i \in 1..((k + 1) - 1) : Links(G, m[i], "rest") = {m[i + 1]}
  <2>1. \A i \in 1..(k - 1) : Links(G, n[i], "rest") = {n[i + 1]}
    BY DEF IsPath
  <2>2. m[2] = r
    BY <1>1, <1>2
  <2> SUFFICES ASSUME NEW i \in 1..k PROVE Links(G, m[i], "rest") = {m[i + 1]}
    BY <1>1
  <2>3. CASE i = 1
    BY <1>2, <2>2, <2>3
  <2>4. CASE i # 1
    <3>1. i - 1 \in 1..(k - 1) /\ (i - 1) + 1 = i /\ m[i] = n[i - 1] /\ m[i + 1] = n[i]
      BY <1>1, <1>2, <1>4, <2>4
    <3> QED BY <2>1, <3>1
  <2> QED BY <2>3, <2>4
<1>7. Links(G, m[k + 1], "rest") = {"nil"}
  <2>1. m[k + 1] = n[k]
    BY <1>1, <1>2
  <2> QED BY <2>1 DEF IsPath
<1>8. IsPath(G, k + 1, m, c, seen)
  <2>1. k + 1 \in Nat /\ k + 1 # 0
    BY <1>1
  <2> QED BY <1>2, <1>5, <1>6, <1>7, <2>1 DEF IsPath
<1>9. Firsts(G, k + 1, m) = <<First(G, c)>> \o Firsts(G, k, n)
  <2> DEFINE a == <<First(G, c)>>
             b == Firsts(G, k, n)
             d == Firsts(G, k + 1, m)
             X == {First(G, c)} \cup {First(G, n[i]) : i \in 1..k}
  <2>1. a \in Seq(X) /\ Len(a) = 1 /\ a[1] = First(G, c)
    OBVIOUS
  <2>2. b \in Seq(X) /\ Len(b) = k /\ \A i \in 1..k : b[i] = First(G, n[i])
    BY <1>1 DEF Firsts
  <2>3. d \in Seq(X) /\ Len(d) = k + 1 /\ d[1] = First(G, c) /\ \A i \in 1..k : d[i + 1] = First(G, n[i])
    <3>1. \A i \in 1..(k + 1) : d[i] = First(G, m[i]) /\ d[i] \in X
      BY <1>1, <1>2, <1>4 DEF Firsts
    <3>2. d \in [1..(k + 1) -> X]
      <4>1. d = [i \in 1..(k + 1) |-> First(G, m[i])]
        BY DEF Firsts
      <4> HIDE DEF d, X
      <4> QED BY <3>1, <4>1
    <3>3. 1 \in 1..(k + 1) /\ \A i \in 1..k : i + 1 \in 1..(k + 1)
      BY <1>1
    <3> HIDE DEF d, X
    <3> QED BY <1>1, <1>2, <3>1, <3>2, <3>3
  <2> HIDE DEF a, b, d, X
  <2>4. a \o b \in Seq(X) /\ Len(a \o b) = k + 1
    <3>1. a \o b \in Seq(X) /\ Len(a \o b) = Len(a) + Len(b)
      BY <2>1, <2>2, ConcatProperties
    <3> QED BY <1>1, <2>1, <2>2, <3>1
  <2>6. \A i \in 1..(k + 1) : (a \o b)[i] = IF i <= 1 THEN a[i] ELSE b[i - 1]
    <3>1. \A i \in 1..(Len(a) + Len(b)) : (a \o b)[i] = IF i <= Len(a) THEN a[i] ELSE b[i - Len(a)]
      BY <2>1, <2>2, ConcatProperties
    <3>2. Len(a) = 1 /\ Len(a) + Len(b) = k + 1
      BY <1>1, <2>1, <2>2
    <3> QED BY <3>1, <3>2
  <2>5. \A i \in 1..(k + 1) : d[i] = (a \o b)[i]
    <3> SUFFICES ASSUME NEW i \in 1..(k + 1) PROVE d[i] = (a \o b)[i]
      OBVIOUS
    <3>1. CASE i = 1
      BY <2>1, <2>3, <2>6, <3>1
    <3>2. CASE i # 1
      <4>1. i - 1 \in 1..k /\ (i - 1) + 1 = i /\ ~(i <= 1)
        BY <1>1, <3>2
      <4>2. d[i] = b[i - 1]
        BY <2>2, <2>3, <4>1
      <4> QED BY <2>6, <4>1, <4>2
    <3> QED BY <3>1, <3>2
  <2>7. d = a \o b
    BY <2>3, <2>4, <2>5, SeqEqual
  <2> QED BY <2>7 DEF a, b, d
<1> QED BY <1>8, <1>9 DEF m

\* The path m is c and then the path n from r.
IsLinkedTo(G, k, m, c, seen, n, r) ==
  /\ IsPath(G, k - 1, n, r, seen \cup {c})
  /\ m = LinkedTo(c, k - 1, n)
  /\ Links(G, c, "rest") = {r}
  /\ r # "nil"

\* And every path of more than one node is a node before a path.
LEMMA PathTail ==
  ASSUME NEW G, NEW k, NEW m, NEW c, NEW seen, IsPath(G, k, m, c, seen), k # 1
  PROVE  \E n, r : IsLinkedTo(G, k, m, c, seen, n, r)
<1> DEFINE n == [i \in 1..(k - 1) |-> m[i + 1]]
<1>1. k - 1 \in Nat /\ k - 1 # 0 /\ (k - 1) + 1 = k /\ m \in [1..k -> Good(G) \ seen] /\ m[1] = c
  BY DEF IsPath
<1>2. \A i \in 1..(k - 1) : n[i] = m[i + 1] /\ i + 1 \in 1..k /\ i + 1 # 1
  BY <1>1
<1>3. n \in [1..(k - 1) -> Good(G) \ (seen \cup {c})]
  <2>1. \A i \in 1..(k - 1) : n[i] \in Good(G) \ (seen \cup {c})
    <3>1. \A i, j \in 1..k : m[i] = m[j] => i = j
      BY DEF IsPath
    <3> QED BY <1>1, <1>2, <3>1
  <2> QED BY <2>1
<1>4. m = LinkedTo(c, k - 1, n)
  <2>1. \A i \in 1..k : m[i] = LinkedTo(c, k - 1, n)[i]
    BY <1>1 DEF LinkedTo
  <2>2. m = [i \in 1..k |-> m[i]] /\ LinkedTo(c, k - 1, n) = [i \in 1..k |-> LinkedTo(c, k - 1, n)[i]]
    BY <1>1 DEF LinkedTo
  <2> QED BY <2>1, <2>2
<1>5. \A i, j \in 1..(k - 1) : n[i] = n[j] => i = j
  <2>1. \A i, j \in 1..k : m[i] = m[j] => i = j
    BY DEF IsPath
  <2> HIDE DEF n
  <2> QED BY <1>1, <1>2, <2>1
<1>6. \A i \in 1..((k - 1) - 1) : Links(G, n[i], "rest") = {n[i + 1]}
  <2>1. \A i \in 1..(k - 1) : Links(G, m[i], "rest") = {m[i + 1]}
    BY DEF IsPath
  <2> SUFFICES ASSUME NEW i \in 1..((k - 1) - 1) PROVE Links(G, n[i], "rest") = {n[i + 1]}
    OBVIOUS
  <2>2. i \in 1..(k - 1) /\ i + 1 \in 1..(k - 1)
    BY <1>1
  <2> HIDE DEF n
  <2> QED BY <1>2, <2>1, <2>2
<1>7. Links(G, n[k - 1], "rest") = {"nil"}
  <2>1. n[k - 1] = m[k]
    BY <1>1
  <2> QED BY <2>1 DEF IsPath
<1>8. IsPath(G, k - 1, n, m[2], seen \cup {c})
  <2>1. n[1] = m[2]
    BY <1>1
  <2> HIDE DEF n
  <2> QED BY <1>1, <1>3, <1>5, <1>6, <1>7, <2>1 DEF IsPath
<1>9. Links(G, c, "rest") = {m[2]} /\ m[2] # "nil"
  <2>1. 1 \in 1..(k - 1) /\ 2 \in 1..k
    BY <1>1
  <2>2. m[2] \in Good(G)
    BY <1>1, <2>1
  <2> QED BY <1>1, <2>1, <2>2 DEF IsPath, Good
<1>10. IsLinkedTo(G, k, m, c, seen, n, m[2])
  <2> HIDE DEF n
  <2> QED BY <1>4, <1>8, <1>9 DEF IsLinkedTo
<1> HIDE DEF n
<1> QED BY <1>10

OnPath(G, c, seen, l) == \E k, n : IsPath(G, k, n, c, seen) /\ l = Firsts(G, k, n)

\* The reading of a link in the semantics is the walker's lookup.
LEMMA LinksAreObjects == ASSUME NEW G, NEW c, NEW p PROVE Links(G, c, p) = Objects(G, c, p)
BY DEF Links, Objects

\* The walker's test for exactly one object, without a count.
LEMMA OneObject ==
  ASSUME NEW G, IsFiniteSet(G), NEW c, NEW p
  PROVE  /\ Cardinality(Objects(G, c, p)) = 1 <=> \E x : Objects(G, c, p) = {x}
         /\ Objects(G, c, p) # {} => c \in {t[1] : t \in G}
<1>1. IsFiniteSet(Ends(G, c)) /\ Objects(G, c, p) \subseteq Ends(G, c)
  BY EndsFinite, ObjectsAreEnds
<1>2. IsFiniteSet(Objects(G, c, p))
  BY <1>1, FS_Subset
<1>3. Cardinality(Objects(G, c, p)) = 1 <=> \E x : Objects(G, c, p) = {x}
  BY <1>2, FS_Singleton
<1> QED BY <1>3 DEF Objects

\* A node is good when it passes the walker's two tests.
LEMMA GoodNodes ==
  ASSUME NEW G, IsFiniteSet(G), NEW c
  PROVE  c \in Good(G) <=> /\ c # "nil"
                           /\ Cardinality(Objects(G, c, "first")) = 1
                           /\ Cardinality(Objects(G, c, "rest")) = 1
BY OneObject, LinksAreObjects DEF Good

\* The member a good node contributes is the one the walker reads.
LEMMA FirstFound ==
  ASSUME NEW G, NEW c, NEW f, Objects(G, c, "first") = {f}
  PROVE  First(G, c) = f
BY LinksAreObjects DEF First

\* The list at c is c alone.
IsLast(G, c, seen, l) ==
  c \in Good(G) /\ c \notin seen /\ Links(G, c, "rest") = {"nil"} /\ l = <<First(G, c)>>

\* A path of one node is a node whose rest is nil.
LEMMA PathEnds ==
  ASSUME NEW G, IsFiniteSet(G), NEW c, NEW seen, NEW l
  PROVE  (\E n : IsPath(G, 1, n, c, seen) /\ l = Firsts(G, 1, n)) <=> IsLast(G, c, seen, l)
<1>1. ASSUME NEW n, IsPath(G, 1, n, c, seen)
      PROVE  /\ c \in Good(G) /\ c \notin seen /\ Links(G, c, "rest") = {"nil"}
             /\ Firsts(G, 1, n) = <<First(G, c)>>
  <2>1. n[1] = c /\ c \in Good(G) /\ c \notin seen /\ Links(G, c, "rest") = {"nil"}
    BY <1>1 DEF IsPath
  <2>2. Firsts(G, 1, n) = <<First(G, c)>>
    BY <2>1 DEF Firsts
  <2> QED BY <2>1, <2>2
<1>2. ASSUME c \in Good(G), c \notin seen, Links(G, c, "rest") = {"nil"}
      PROVE  \E n : IsPath(G, 1, n, c, seen) /\ Firsts(G, 1, n) = <<First(G, c)>>
  <2> DEFINE n == [i \in 1..1 |-> c]
  <2>1. n \in [1..1 -> Good(G) \ seen] /\ n[1] = c
    BY <1>2
  <2>2. \A i, j \in 1..1 : n[i] = n[j] => i = j
    OBVIOUS
  <2>3. \A i \in 1..(1 - 1) : Links(G, n[i], "rest") = {n[i + 1]}
    OBVIOUS
  <2> HIDE DEF n
  <2>4. IsPath(G, 1, n, c, seen)
    BY <1>2, <2>1, <2>2, <2>3 DEF IsPath
  <2> QED BY <1>1, <2>4
<1> QED BY <1>1, <1>2 DEF IsLast

PathUnfolds(G, c, seen, l) ==
  /\ c \notin seen
  /\ Cardinality(Objects(G, c, "first")) = 1
  /\ Cardinality(Objects(G, c, "rest")) = 1
  /\ \E f \in Objects(G, c, "first"), r \in Objects(G, c, "rest") :
       \/ r = "nil" /\ l = <<f>>
       \/ /\ r # "nil" /\ Node(r)
          /\ \E tail : OnPath(G, r, seen \cup {c}, tail) /\ l = <<f>> \o tail

\* The declarative reading of a list unfolds the way the walker goes.
LEMMA PathStep ==
  ASSUME NEW G, IsFiniteSet(G), AllWellFormed(G), NEW c, c # "nil", NEW seen, NEW l
  PROVE  OnPath(G, c, seen, l) <=> PathUnfolds(G, c, seen, l)
<1>1. ASSUME NEW k, NEW m, IsPath(G, k, m, c, seen), l = Firsts(G, k, m)
      PROVE  /\ c \notin seen /\ c \in Good(G)
             /\ \E r : /\ Links(G, c, "rest") = {r}
                       /\ \/ r = "nil" /\ l = <<First(G, c)>>
                          \/ /\ r # "nil" /\ Node(r)
                             /\ \E tail : OnPath(G, r, seen \cup {c}, tail) /\ l = <<First(G, c)>> \o tail
  <2>1. c \notin seen /\ c \in Good(G)
    BY <1>1 DEF IsPath
  <2>2. CASE k = 1
    <3>1. Links(G, c, "rest") = {"nil"} /\ l = <<First(G, c)>>
      <4>1. IsPath(G, 1, m, c, seen) /\ l = Firsts(G, 1, m)
        BY <1>1, <2>2
      <4>2. IsLast(G, c, seen, l)
        BY <4>1, PathEnds
      <4> QED BY <4>2 DEF IsLast
    <3> QED BY <2>1, <3>1
  <2>3. CASE k # 1
    <3>1. PICK n, r : IsLinkedTo(G, k, m, c, seen, n, r)
      BY <1>1, <2>3, PathTail
    <3>0. /\ IsPath(G, k - 1, n, r, seen \cup {c}) /\ m = LinkedTo(c, k - 1, n)
          /\ Links(G, c, "rest") = {r} /\ r # "nil"
      BY <3>1 DEF IsLinkedTo
    <3>2. r \in Good(G)
      <4>1. k - 1 \in Nat /\ k - 1 # 0 /\ n \in [1..(k - 1) -> Good(G) \ (seen \cup {c})] /\ n[1] = r
        BY <3>0 DEF IsPath
      <4>2. 1 \in 1..(k - 1)
        <5>1. \A j \in Nat : j # 0 => 1 \in 1..j
          OBVIOUS
        <5> QED BY <4>1, <5>1, Zenon
      <4> QED BY <4>1, <4>2
    <3>3. Node(r)
      BY <3>2 DEF Good, AllWellFormed, WellFormed
    <3>4. Firsts(G, (k - 1) + 1, LinkedTo(c, k - 1, n)) = <<First(G, c)>> \o Firsts(G, k - 1, n)
      BY <2>1, <3>0, ConsPath
    <3>5. (k - 1) + 1 = k
      BY <1>1 DEF IsPath
    <3>6. l = <<First(G, c)>> \o Firsts(G, k - 1, n)
      BY <1>1, <3>0, <3>4, <3>5
    <3>7. OnPath(G, r, seen \cup {c}, Firsts(G, k - 1, n))
      BY <3>0 DEF OnPath
    <3> QED BY <2>1, <3>0, <3>3, <3>6, <3>7
  <2> QED BY <2>2, <2>3
<1>2. ASSUME c \in Good(G), c \notin seen, NEW r, Links(G, c, "rest") = {r}, r # "nil",
             NEW tail, OnPath(G, r, seen \cup {c}, tail), l = <<First(G, c)>> \o tail
      PROVE  OnPath(G, c, seen, l)
  <2>1. PICK k, n : IsPath(G, k, n, r, seen \cup {c}) /\ tail = Firsts(G, k, n)
    BY <1>2 DEF OnPath
  <2>2. IsPath(G, k + 1, LinkedTo(c, k, n), c, seen) /\ l = Firsts(G, k + 1, LinkedTo(c, k, n))
    BY <1>2, <2>1, ConsPath
  <2> QED BY <2>2 DEF OnPath
<1>3. ASSUME c \in Good(G), c \notin seen, Links(G, c, "rest") = {"nil"}, l = <<First(G, c)>>
      PROVE  OnPath(G, c, seen, l)
  <2>1. IsLast(G, c, seen, l)
    BY <1>3 DEF IsLast
  <2> QED BY <2>1, PathEnds DEF OnPath
<1>4. ASSUME OnPath(G, c, seen, l)
      PROVE  PathUnfolds(G, c, seen, l)
  <2>1. PICK k, m : IsPath(G, k, m, c, seen) /\ l = Firsts(G, k, m)
    BY <1>4 DEF OnPath
  <2>2. /\ c \notin seen /\ c \in Good(G)
        /\ \E r : /\ Links(G, c, "rest") = {r}
                  /\ \/ r = "nil" /\ l = <<First(G, c)>>
                     \/ /\ r # "nil" /\ Node(r)
                        /\ \E tail : OnPath(G, r, seen \cup {c}, tail) /\ l = <<First(G, c)>> \o tail
    BY <1>1, <2>1
  <2>3. First(G, c) \in Objects(G, c, "first")
    <3>1. \E x : Objects(G, c, "first") = {x}
      <4>1. Cardinality(Objects(G, c, "first")) = 1
        BY <2>2, GoodNodes
      <4> QED BY <4>1, OneObject, Zenon
    <3> QED BY <3>1, FirstFound
  <2> QED BY <2>2, <2>3, GoodNodes, LinksAreObjects DEF PathUnfolds
<1>5. ASSUME c \notin seen,
             Cardinality(Objects(G, c, "first")) = 1, Cardinality(Objects(G, c, "rest")) = 1,
             NEW f \in Objects(G, c, "first"), NEW r \in Objects(G, c, "rest"),
             \/ r = "nil" /\ l = <<f>>
             \/ /\ r # "nil" /\ Node(r)
                /\ \E tail : OnPath(G, r, seen \cup {c}, tail) /\ l = <<f>> \o tail
      PROVE  OnPath(G, c, seen, l)
  <2>1. c \in Good(G)
    BY <1>5, GoodNodes
  <2>2. Links(G, c, "rest") = {r}
    BY <1>5, OneObject, LinksAreObjects
  <2>3. f = First(G, c)
    <3>1. \E x : Objects(G, c, "first") = {x}
      BY <1>5, OneObject, Zenon
    <3> QED BY <1>5, <3>1, FirstFound
  <2> QED BY <1>2, <1>3, <1>5, <2>1, <2>2, <2>3
<1> QED BY <1>4, <1>5 DEF PathUnfolds

\* The walker finds, from any node and whatever it has seen, exactly the
\* members of the paths from there that avoid what it has seen.
LEMMA WalkFindsPaths ==
  ASSUME NEW G, IsFiniteSet(G), AllWellFormed(G), NEW head, NEW walk,
         \A at \in Ends(G, head) \X SUBSET Ends(G, head) : walk[at] = WalkStep(G, at, walk),
         NEW c \in Ends(G, head), c # "nil", NEW seen \in SUBSET Ends(G, head)
  PROVE  \A l : l \in walk[<<c, seen>>] <=> OnPath(G, c, seen, l)
<1> DEFINE N == Ends(G, head)
           S == N \X SUBSET N
           rank == [at \in S |-> Cardinality(N \ at[2])]
           Found(at) == \A l : l \in walk[at] <=> OnPath(G, at[1], at[2], l)
           P == {at \in S : at[1] # "nil" => Found(at)}
<1>1. IsFiniteSet(N)
  BY EndsFinite
<1>2. rank \in [S -> Nat]
  <2>1. \A at \in S : Cardinality(N \ at[2]) \in Nat
    BY <1>1, FS_Subset, FS_CardinalityType
  <2> HIDE DEF N, S
  <2> QED BY <2>1
<1>3. ASSUME NEW at \in S, \A y \in S : rank[y] < rank[at] => y \in P
      PROVE  at \in P
  <2> SUFFICES ASSUME at[1] # "nil", NEW l
               PROVE  l \in walk[at] <=> OnPath(G, at[1], at[2], l)
    BY <1>3
  <2>1. ASSUME NEW r \in Objects(G, at[1], "rest"), at[1] \notin at[2], r # "nil"
        PROVE  \A t : t \in walk[<<r, at[2] \cup {at[1]}>>] <=> OnPath(G, r, at[2] \cup {at[1]}, t)
    <3> DEFINE b == <<r, at[2] \cup {at[1]}>>
    <3>1. at[1] \in N \ at[2] /\ r \in N /\ at[2] \subseteq N
      BY <2>1, ObjectsAreEnds
    <3>2. b \in S /\ b[1] = r /\ b[2] = at[2] \cup {at[1]} /\ b[1] # "nil"
      BY <2>1, <3>1
    <3>3. IsFiniteSet(N \ at[2])
      BY <1>1, FS_Subset
    <3> HIDE DEF N, b
    <3>4. N \ b[2] = (N \ at[2]) \ {at[1]}
      BY <3>2
    <3>5. Cardinality((N \ at[2]) \ {at[1]}) = Cardinality(N \ at[2]) - 1 /\ Cardinality(N \ at[2]) \in Nat
      BY <3>1, <3>3, FS_RemoveElement, FS_CardinalityType
    <3>6. rank[b] = Cardinality((N \ at[2]) \ {at[1]}) /\ rank[at] = Cardinality(N \ at[2])
      <4>1. rank[b] = Cardinality(N \ b[2]) /\ rank[at] = Cardinality(N \ at[2])
        BY <3>2
      <4> QED BY <3>4, <4>1, Zenon
    <3>7. rank[b] < rank[at]
      <4> HIDE DEF rank
      <4> QED BY <3>5, <3>6
    <3>8. Found(b)
      <4>1. b \in P
        <5> HIDE DEF P, S, rank
        <5> QED BY <1>3, <3>2, <3>7
      <4> QED BY <3>2, <4>1
    <3> QED BY <3>2, <3>8 DEF b
  <2>2. l \in walk[at] <=> OneStep(G, at, walk, l)
    <3>1. walk[at] = WalkStep(G, at, walk)
      OBVIOUS
    <3> QED BY <3>1, WalkStepMembers, Zenon
  <2>3. OneStep(G, at, walk, l) <=> PathUnfolds(G, at[1], at[2], l)
    BY <2>1 DEF OneStep, PathUnfolds
  <2>4. OnPath(G, at[1], at[2], l) <=> PathUnfolds(G, at[1], at[2], l)
    BY PathStep
  <2> QED BY <2>2, <2>3, <2>4, Zenon
<1>4. S \subseteq P
  <2> HIDE DEF S, P, rank
  <2> QED BY <1>2, <1>3, RankInduction
<1>5. <<c, seen>> \in P
  BY <1>4
<1> QED BY <1>5

\* A path is no longer than its nodes are many.
LEMMA PathIsShort ==
  ASSUME NEW G, IsFiniteSet(G), NEW k, NEW n, NEW c, IsPath(G, k, n, c, {})
  PROVE  Cardinality(Good(G)) \in Nat /\ k \in 1..Cardinality(Good(G))
<1>1. IsFiniteSet(Good(G)) /\ Cardinality(Good(G)) \in Nat
  <2>1. Good(G) \subseteq Ends(G, c)
    BY DEF Good, Ends
  <2> QED BY <2>1, EndsFinite, FS_Subset, FS_CardinalityType
<1>2. k \in Nat /\ k # 0 /\ n \in [1..k -> Good(G)] /\ \A i, j \in 1..k : n[i] = n[j] => i = j
  BY DEF IsPath
<1>3. IsFiniteSet(1..k) /\ Cardinality(1..k) = k
  BY <1>2, FS_Interval
<1>4. n \in Injection(1..k, Good(G))
  BY <1>2 DEF Injection, IsInjective
<1>5. Cardinality(1..k) <= Cardinality(Good(G))
  BY <1>1, <1>4, FS_Injection
<1> QED BY <1>1, <1>2, <1>3, <1>5

\* The lists of the semantics are those of the paths that start with nothing
\* seen: a path is never longer than the good nodes are many.
LEMMA ListValuesArePaths ==
  ASSUME NEW G, IsFiniteSet(G), NEW head, head # "nil"
  PROVE  \A l : l \in ListValues(G, head) <=> OnPath(G, head, {}, l)
<1> DEFINE All == UNION {[1..k -> Good(G)] : k \in 1..Cardinality(Good(G))}
           ReadsFrom(n) ==
             /\ n[1] = head
             /\ \A i, j \in DOMAIN n : n[i] = n[j] => i = j
             /\ \A i \in DOMAIN n : Links(G, n[i], "rest") =
                  {IF i + 1 \in DOMAIN n THEN n[i + 1] ELSE "nil"}
           Value(n) == [i \in DOMAIN n |-> First(G, n[i])]
<1>1. ListValues(G, head) = {Value(n) : n \in {m \in All : ReadsFrom(m)}}
  BY DEF ListValues, Good, First
<1>2. ASSUME NEW k \in Nat, k # 0, NEW n \in [1..k -> Good(G)]
      PROVE  (ReadsFrom(n) <=> IsPath(G, k, n, head, {})) /\ Value(n) = Firsts(G, k, n)
  <2>1. DOMAIN n = 1..k /\ n \in [1..k -> Good(G) \ {}] /\ k \in 1..k
    BY <1>2
  <2>2. (\A i \in DOMAIN n : Links(G, n[i], "rest") =
                             {IF i + 1 \in DOMAIN n THEN n[i + 1] ELSE "nil"})
          <=> (\A i \in 1..(k - 1) : Links(G, n[i], "rest") = {n[i + 1]}) /\ Links(G, n[k], "rest") = {"nil"}
    <3>1. \A i \in 1..k : (i + 1 \in 1..k <=> i \in 1..(k - 1)) /\ (i \notin 1..(k - 1) <=> i = k)
      OBVIOUS
    <3>2. \A i \in 1..(k - 1) : i \in 1..k
      OBVIOUS
    <3> QED BY <2>1, <3>1, <3>2
  <2>3. ReadsFrom(n) <=> IsPath(G, k, n, head, {})
    BY <1>2, <2>1, <2>2 DEF IsPath
  <2> QED BY <2>1, <2>3 DEF Firsts
<1> HIDE DEF ReadsFrom, Value
<1>3. ASSUME NEW n \in All, ReadsFrom(n) PROVE OnPath(G, head, {}, Value(n))
  <2>1. PICK k \in 1..Cardinality(Good(G)) : n \in [1..k -> Good(G)]
    BY <1>3
  <2>2. k \in Nat /\ k # 0
    BY <2>1
  <2> QED BY <1>2, <1>3, <2>1, <2>2 DEF OnPath
<1>4. ASSUME NEW l, OnPath(G, head, {}, l) PROVE \E n \in All : ReadsFrom(n) /\ l = Value(n)
  <2>1. PICK k, n : IsPath(G, k, n, head, {}) /\ l = Firsts(G, k, n)
    BY <1>4 DEF OnPath
  <2>2. k \in Nat /\ k # 0 /\ n \in [1..k -> Good(G)]
    BY <2>1 DEF IsPath
  <2>3. n \in All
    BY <2>1, <2>2, PathIsShort
  <2> QED BY <1>2, <2>1, <2>2, <2>3
<1> HIDE DEF All
<1> QED BY <1>1, <1>3, <1>4

\* The lists it finds are sequences of the graph's terms.
LEMMA ListsAreSequences ==
  ASSUME NEW G, IsFiniteSet(G), NEW head
  PROVE  Lists(G, head) \subseteq Seq(Ends(G, head))
<1>1. PICK walk : IsWalk(G, head, walk)
  BY WalkSolved
<1>2. <<head, {}>> \in Ends(G, head) \X SUBSET Ends(G, head)
  BY DEF Ends
<1>3. walk[<<head, {}>>] \subseteq Seq(Ends(G, head))
  <2> DEFINE N == Ends(G, head)
  <2>1. walk \in [N \X SUBSET N -> SUBSET Seq(N)]
    BY <1>1 DEF IsWalk
  <2> HIDE DEF N
  <2> QED BY <1>2, <2>1 DEF N
<1>4. {<< >>} \subseteq Seq(Ends(G, head))
  OBVIOUS
<1> QED BY <1>1, <1>3, <1>4 DEF IsWalk

\* The walker looks at the ends of the triples and at first and rest alone.
LEMMA SameLists ==
  ASSUME NEW G, NEW H, IsFiniteSet(G), IsFiniteSet(H), NEW head, Ends(G, head) = Ends(H, head),
         \A c, p : p \in {"first", "rest"} => Objects(G, c, p) = Objects(H, c, p)
  PROVE  Lists(G, head) = Lists(H, head)
<1>1. PICK f : IsWalk(G, head, f)
  BY WalkSolved
<1>2. PICK g : IsWalk(H, head, g)
  BY WalkSolved
<1>3. \A at : WalkStep(G, at, g) = WalkStep(H, at, g)
  <2>1. \A c : Objects(G, c, "first") = Objects(H, c, "first") /\ Objects(G, c, "rest") = Objects(H, c, "rest")
    OBVIOUS
  <2> SUFFICES ASSUME NEW at, NEW l PROVE l \in WalkStep(G, at, g) <=> l \in WalkStep(H, at, g)
    OBVIOUS
  <2>2. OneStep(G, at, g, l) <=> OneStep(H, at, g, l)
    BY <2>1 DEF OneStep
  <2> QED BY <2>2, WalkStepMembers, Zenon
<1>4. \A at \in Ends(G, head) \X SUBSET Ends(G, head) :
        f[at] = WalkStep(G, at, f) /\ g[at] = WalkStep(G, at, g)
  BY <1>1, <1>2, <1>3 DEF IsWalk
<1>5. \A at \in Ends(G, head) \X SUBSET Ends(G, head) : f[at] = g[at]
  BY <1>4, WalksAgree
<1>6. <<head, {}>> \in Ends(G, head) \X SUBSET Ends(G, head)
  BY DEF Ends
<1>7. f[<<head, {}>>] = g[<<head, {}>>]
  BY <1>5, <1>6
<1> QED BY <1>1, <1>2, <1>7 DEF IsWalk

\* The walker finds exactly the well-formed lists.
LEMMA ListsExact ==
  ASSUME NEW G, IsFiniteSet(G), AllWellFormed(G), NEW head
  PROVE  Lists(G, head) = ListValues(G, head)
<1>1. CASE head = "nil"
  <2>1. Lists(G, head) = {<< >>}
    BY <1>1 DEF Lists
  <2>2. ListValues(G, head) = {<< >>}
    BY <1>1 DEF ListValues
  <2> QED BY <2>1, <2>2
<1>2. CASE head # "nil"
  <2>1. PICK walk : IsWalk(G, head, walk)
    BY WalkSolved
  <2>2. head \in Ends(G, head) /\ {} \in SUBSET Ends(G, head)
    BY DEF Ends
  <2>3. \A l : l \in walk[<<head, {}>>] <=> OnPath(G, head, {}, l)
    BY <1>2, <2>1, <2>2, WalkFindsPaths DEF IsWalk
  <2>4. \A l : l \in Lists(G, head) <=> l \in ListValues(G, head)
    BY <1>2, <2>1, <2>3, ListValuesArePaths DEF IsWalk
  <2> QED BY <2>4
<1> QED BY <1>1, <1>2

-----------------------------------------------------------------------------
(* Terms with everything the rules may add to them.                        *)

TermSet(T) ==
  /\ Vocabulary \cup BuiltinDatatypes \subseteq T
  /\ \A l \in T \cap Literals : DatatypeOf[l] \in T

\* A triple, a graph, a relation over the terms T.
Proper(T, t) == WellFormed(t) /\ t[1] \in T /\ t[2] \in T /\ t[3] \in T
Over(T, G)   == \A t \in G : Proper(T, t)
RelOver(T, R) == \A r \in R : Node(r[1]) /\ r[1] \in T /\ r[2] \in T
IriOf(T, p)  == Iri(p) /\ p \in T
NodeOf(T, x) == Node(x) /\ x \in T

\* The vocabulary the rules write with is among the terms, and is IRIs.
LEMMA VocabularyIri ==
  ASSUME NEW T, TermSet(T)
  PROVE  /\ IriOf(T, "type") /\ IriOf(T, "sameAs") /\ IriOf(T, "subClassOf")
         /\ IriOf(T, "subPropertyOf") /\ IriOf(T, "equivalentClass")
         /\ IriOf(T, "equivalentProperty") /\ IriOf(T, "domain") /\ IriOf(T, "range")
         /\ IriOf(T, "Thing") /\ IriOf(T, "Nothing")
         /\ IriOf(T, "Class") /\ IriOf(T, "Datatype")
BY VocabularyIsIris DEF Vocabulary, Iri, IriOf, TermSet

\* An IRI may stand where a node may.
LEMMA IriIsNode == ASSUME NEW x, Iri(x) PROVE Node(x)
BY DEF Iri, Node

\* A graph over a set of terms is one the store takes.
LEMMA OverIsWellFormed == ASSUME NEW T, NEW G, Over(T, G) PROVE AllWellFormed(G)
BY DEF Over, Proper, AllWellFormed

\* Stating a relation over T as triples gives a graph over T.
LEMMA StatingOver ==
  ASSUME NEW T, NEW R, NEW p, IriOf(T, p), RelOver(T, R)
  PROVE  Over(T, Stating(R, p))
BY DEF Over, Proper, RelOver, IriOf, Stating, WellFormed

\* So does typing nodes of T,
LEMMA TypedOver ==
  ASSUME NEW T, TermSet(T), NEW S, \A x \in S : NodeOf(T, x), NEW c \in T
  PROVE  Over(T, Typed(S, c))
BY VocabularyIri DEF Over, Proper, NodeOf, IriOf, Typed, WellFormed

\* stating terms of T to be the same,
LEMMA AllSameOver ==
  ASSUME NEW T, TermSet(T), NEW S, S \subseteq T
  PROVE  Over(T, AllSame(S))
BY VocabularyIri DEF Over, Proper, IriOf, AllSame, WellFormed

\* replacing predicates by IRIs of T,
LEMMA RepredicatedOver ==
  ASSUME NEW T, NEW G, Over(T, G), NEW R, \A r \in R : IriOf(T, r[2])
  PROVE  Over(T, Repredicated(G, R))
BY DEF Over, Proper, IriOf, Repredicated, WellFormed

\* and the union of graphs over T.
LEMMA UnionOver ==
  ASSUME NEW T, NEW F, \A S \in F : Over(T, S)
  PROVE  Over(T, UNION F)
BY DEF Over

\* What the scans read from a graph over T is over T.
LEMMA PairsOver ==
  ASSUME NEW T, NEW G, Over(T, G)
  PROVE  /\ \A p : RelOver(T, Pairs(G, p)) /\ RelOver(T, NodePairs(G, p)) /\ RelOver(T, IriPairs(G, p))
         /\ \A p : \A r \in NodePairs(G, p) : NodeOf(T, r[1]) /\ NodeOf(T, r[2])
         /\ \A p : \A r \in IriPairs(G, p) : IriOf(T, r[1]) /\ IriOf(T, r[2])
         /\ \A c : \A x \in Instances(G, c) : NodeOf(T, x)
         /\ \A s, p : Objects(G, s, p) \subseteq T
<1>1. \A p : RelOver(T, Pairs(G, p))
  BY DEF Over, Proper, WellFormed, RelOver, Pairs
<1>2. \A p : RelOver(T, NodePairs(G, p)) /\ RelOver(T, IriPairs(G, p))
  BY <1>1 DEF RelOver, NodePairs, IriPairs
<1>3. \A p : \A r \in NodePairs(G, p) : NodeOf(T, r[1]) /\ NodeOf(T, r[2])
  BY <1>1 DEF RelOver, NodePairs, NodeOf
<1>4. \A p : \A r \in IriPairs(G, p) : IriOf(T, r[1]) /\ IriOf(T, r[2])
  BY <1>1 DEF RelOver, IriPairs, IriOf
<1>5. \A c : \A x \in Instances(G, c) : NodeOf(T, x)
  BY DEF Over, Proper, WellFormed, NodeOf, Instances
<1>6. \A s, p : Objects(G, s, p) \subseteq T
  BY DEF Over, Proper, Objects
<1> QED BY <1>1, <1>2, <1>3, <1>4, <1>5, <1>6

\* Joins stay over T,
LEMMA ComposeOver ==
  ASSUME NEW T, NEW R, NEW S, RelOver(T, R), \A s \in S : s[2] \in T
  PROVE  RelOver(T, Compose(R, S))
BY DEF RelOver, Compose

\* and so do converses,
LEMMA ConverseOver ==
  ASSUME NEW T, NEW R, RelOver(T, R)
  PROVE  RelOver(T, Converse(R))
BY DEF RelOver, Converse

\* the restrictions the code collects,
LEMMA RestrictionsOver ==
  ASSUME NEW T, NEW G, Over(T, G), NEW constraint
  PROVE  /\ \A x \in Restrictions(G, constraint) : NodeOf(T, x[1]) /\ IriOf(T, x[2]) /\ x[3] \in T
         /\ RelOver(T, BySubProperty(G, constraint))
         /\ RelOver(T, ByFiller(G, constraint))
<1>1. \A x \in Restrictions(G, constraint) : NodeOf(T, x[1]) /\ IriOf(T, x[2]) /\ x[3] \in T
  <2> SUFFICES ASSUME NEW x \in Restrictions(G, constraint)
               PROVE  NodeOf(T, x[1]) /\ IriOf(T, x[2]) /\ x[3] \in T
    OBVIOUS
  <2>1. PICK r \in Pairs(G, constraint) :
          x \in {<<r[1], p, r[2]>> : p \in {o \in Objects(G, r[1], "onProperty") : Iri(o)}}
    BY DEF Restrictions
  <2>2. PICK p \in Objects(G, r[1], "onProperty") : Iri(p) /\ x = <<r[1], p, r[2]>>
    BY <2>1
  <2> QED BY <2>1, <2>2, PairsOver DEF RelOver, NodeOf, IriOf
<1>2. RelOver(T, BySubProperty(G, constraint))
  <2> SUFFICES ASSUME NEW r \in BySubProperty(G, constraint)
               PROVE  Node(r[1]) /\ r[1] \in T /\ r[2] \in T
    BY DEF RelOver
  <2> DEFINE R == Restrictions(G, constraint)
  <2>1. PICK x \in R \X R : r = <<x[1][1], x[2][1]>>
    BY DEF BySubProperty
  <2> QED BY <1>1, <2>1 DEF NodeOf
<1>3. RelOver(T, ByFiller(G, constraint))
  <2> SUFFICES ASSUME NEW r \in ByFiller(G, constraint)
               PROVE  Node(r[1]) /\ r[1] \in T /\ r[2] \in T
    BY DEF RelOver
  <2> DEFINE R == Restrictions(G, constraint)
  <2>1. PICK x \in R \X R : r = <<x[1][1], x[2][1]>>
    BY DEF ByFiller
  <2> QED BY <1>1, <2>1 DEF NodeOf
<1> QED BY <1>1, <1>2, <1>3

\* the lists it walks,
LEMMA ListsOver ==
  ASSUME NEW T, NEW G, IsFiniteSet(G), Over(T, G), NEW p
  PROVE  \A x \in ListsOf(G, p) : /\ NodeOf(T, x[1])
                                  /\ x[2] \in Seq(T)
                                  /\ Members(x[2]) \subseteq T
<1> SUFFICES ASSUME NEW x \in ListsOf(G, p)
             PROVE  NodeOf(T, x[1]) /\ x[2] \in Seq(T) /\ Members(x[2]) \subseteq T
  OBVIOUS
<1>0. PICK r \in NodePairs(G, p) : x \in {<<r[1], l>> : l \in Lists(G, r[2])}
  BY DEF ListsOf
<1>1. PICK l \in Lists(G, r[2]) : x = <<r[1], l>>
  BY <1>0
<1>2. NodeOf(T, r[1]) /\ r[2] \in T
  BY PairsOver DEF NodeOf
<1>3. Ends(G, r[2]) \subseteq T
  BY <1>2 DEF Ends, Over, Proper
<1>4. l \in Seq(Ends(G, r[2]))
  BY <1>1, ListsAreSequences
<1>5. l \in Seq(T)
  BY <1>3, <1>4, SeqMonotonic
<1>6. Members(l) \subseteq T
  BY <1>5 DEF Members
<1> QED BY <1>1, <1>2, <1>5, <1>6

\* and prp-trp.
LEMMA TransitiveOver ==
  ASSUME NEW T, NEW G, Over(T, G), NEW p, IriOf(T, p)
  PROVE  Over(T, Transitive(G, p))
<1>1. RelOver(T, Compose(Pairs(G, p), Pairs(G, p)))
  BY PairsOver, ComposeOver DEF RelOver
<1> QED BY <1>1, StatingOver DEF Transitive

\* The recursion over a property chain has a solution.
LEMMA ChainSolved ==
  ASSUME NEW G, NEW l, Len(l) \in Nat
  PROVE  \E joined :
    /\ joined = [k \in 1..Len(l) |->
          IF k = 1 THEN Pairs(G, l[1]) ELSE Compose(joined[k - 1], Pairs(G, l[k]))]
    /\ Chain(G, l) = joined[Len(l)]
<1> DEFINE X == {t[1] : t \in G} \cup {t[3] : t \in G}
           V == SUBSET (X \X X)
           S == 1..Len(l)
           Step(k, f) == IF k = 1 THEN Pairs(G, l[1]) ELSE Compose(f[k - 1], Pairs(G, l[k]))
           rank == [k \in S |-> k]
           D == [y \in S \X [S -> V] |-> Step(y[1], y[2])]
<1>1. \A k \in S, f \in [S -> V] : D[<<k, f>>] = Step(k, f)
  OBVIOUS
<1>2. \A p : Pairs(G, p) \in V
  BY DEF Pairs
<1>3. \A R \in V, Q \in V : Compose(R, Q) \in V
  BY DEF Compose
<1>4. \A k \in S : k # 1 => k - 1 \in S
  OBVIOUS
<1>5. \A k \in S, f \in [S -> V] : Step(k, f) \in V
  <2> HIDE DEF V, S
  <2> QED BY <1>2, <1>3, <1>4
<1>6. \A k \in S, f, g \in [S -> V] :
           (\A y \in S : rank[y] < rank[k] => f[y] = g[y]) => D[<<k, f>>] = D[<<k, g>>]
    <3> SUFFICES ASSUME NEW k \in S, NEW f \in [S -> V], NEW g \in [S -> V],
                        \A y \in S : rank[y] < rank[k] => f[y] = g[y]
                 PROVE  D[<<k, f>>] = D[<<k, g>>]
      OBVIOUS
    <3>1. k # 1 => k - 1 \in S /\ rank[k - 1] < rank[k]
      OBVIOUS
    <3>2. Step(k, f) = Step(k, g)
      BY <3>1
    <3> HIDE DEF D, Step
    <3> QED BY <1>1, <3>2
<1>7. \A k \in S, f \in [S -> V] : D[<<k, f>>] \in V
    <2> HIDE DEF D, Step, S, V
    <2> QED BY <1>1, <1>5
<1>8. V # {} /\ rank \in [S -> Nat] /\ \A k \in S : rank[k] < Len(l) + 1
    OBVIOUS
<1>9. \E f \in [S -> V] : f = [k \in S |-> D[<<k, f>>]]
  <2>1. Len(l) + 1 \in Nat
    OBVIOUS
  <2> HIDE DEF V, S, rank, D
  <2>2. Recursion(S, V, rank, Len(l) + 1, D)
    BY <1>6, <1>7, <1>8, <2>1 DEF Recursion
  <2> QED BY <2>2, RecursionSolved
<1>10. \E f : f = [k \in S |-> Step(k, f)]
  <2> HIDE DEF D, Step, S, V
  <2>1. PICK f \in [S -> V] : f = [k \in S |-> D[<<k, f>>]]
    BY <1>9
  <2>2. [k \in S |-> D[<<k, f>>]] = [k \in S |-> Step(k, f)]
    BY <1>1
  <2> QED BY <2>1, <2>2
<1> QED BY <1>10 DEF Chain

\* A chain of properties relates terms of the graph.
LEMMA ChainOver ==
  ASSUME NEW T, NEW G, Over(T, G), NEW l, l \in Seq(T), l # << >>
  PROVE  RelOver(T, Chain(G, l))
<1>1. Len(l) \in Nat /\ Len(l) # 0
  BY EmptySeq, LenProperties
<1>2. PICK joined :
        /\ joined = [k \in 1..Len(l) |->
             IF k = 1 THEN Pairs(G, l[1]) ELSE Compose(joined[k - 1], Pairs(G, l[k]))]
        /\ Chain(G, l) = joined[Len(l)]
  BY <1>1, ChainSolved
<1> DEFINE S == {n \in Nat : n \in 1..Len(l) => RelOver(T, joined[n])}
<1>3. 0 \in S
  OBVIOUS
<1>4. ASSUME NEW n \in Nat, n \in S PROVE n + 1 \in S
  <2> SUFFICES ASSUME n + 1 \in 1..Len(l) PROVE RelOver(T, joined[n + 1])
    OBVIOUS
  <2>1. CASE n = 0
    <3>1. joined[1] = Pairs(G, l[1])
      BY <1>1, <1>2
    <3> QED BY <2>1, <3>1, PairsOver
  <2>2. CASE n # 0
    <3>1. n \in 1..Len(l) /\ (n + 1) - 1 = n /\ n + 1 # 1
      BY <2>2
    <3>2. joined[n + 1] = Compose(joined[n], Pairs(G, l[n + 1]))
      <4>1. joined[n + 1] = IF n + 1 = 1 THEN Pairs(G, l[1])
                            ELSE Compose(joined[(n + 1) - 1], Pairs(G, l[n + 1]))
        BY <1>2
      <4> QED BY <3>1, <4>1
    <3>3. RelOver(T, joined[n]) /\ RelOver(T, Pairs(G, l[n + 1]))
      BY <1>4, <3>1, PairsOver
    <3>4. \A s \in Pairs(G, l[n + 1]) : s[2] \in T
      BY <3>3 DEF RelOver
    <3> QED BY <3>2, <3>3, <3>4, ComposeOver
  <2> QED BY <2>1, <2>2
<1>5. Nat \subseteq S
  <2> HIDE DEF S
  <2> QED BY <1>3, <1>4, NumberInduction
<1>6. Len(l) \in S /\ Len(l) \in 1..Len(l)
  <2> HIDE DEF S
  <2> QED BY <1>1, <1>5
<1> QED BY <1>2, <1>6

\* The schema rules, the property rules, the class rules and the cardinality
\* rules each derive triples over the terms of the graph.
LEMMA SchemaOver ==
  ASSUME NEW T, TermSet(T), NEW G, IsFiniteSet(G), Over(T, G)
  PROVE  Over(T, SchemaRules(G))
<1> USE PairsOver, VocabularyIri
<1>1. Over(T, ScmSco(G)) /\ Over(T, ScmSpo(G))
  BY TransitiveOver DEF ScmSco, ScmSpo
<1>2. Over(T, ScmEq1(G))
  <2>1. \A equivalent : RelOver(T, NodePairs(G, equivalent) \cup Converse(NodePairs(G, equivalent)))
    BY ConverseOver DEF RelOver
  <2>2. \A equivalent, sub : IriOf(T, sub) => Over(T, BothWays(G, equivalent, sub))
    BY <2>1, StatingOver DEF BothWays
  <2> QED BY <2>2 DEF ScmEq1, Over
<1>3. Over(T, ScmCls(G))
  <2> SUFFICES ASSUME NEW t \in ScmCls(G) PROVE Proper(T, t)
    BY DEF Over
  <2>1. PICK c \in Instances(G, "Class") : t \in {<<c, "subClassOf", c>>, <<c, "equivalentClass", c>>,
                                          <<c, "subClassOf", "Thing">>, <<"Nothing", "subClassOf", c>>}
    BY DEF ScmCls
  <2>2. NodeOf(T, c) /\ NodeOf(T, "Nothing")
    BY IriIsNode DEF IriOf, NodeOf
  <2> QED BY <2>1, <2>2 DEF Proper, WellFormed, IriOf, NodeOf
<1>4. Over(T, ScmReflexive(G))
  <2> SUFFICES ASSUME NEW t \in ScmReflexive(G) PROVE Proper(T, t)
    BY DEF Over
  <2>1. PICK p \in Instances(G, "ObjectProperty") \cup Instances(G, "DatatypeProperty") :
          t \in {<<p, "subPropertyOf", p>>, <<p, "equivalentProperty", p>>}
    BY DEF ScmReflexive
  <2> QED BY <2>1 DEF Proper, WellFormed, IriOf, NodeOf
<1>5. Over(T, ScmEq2(G))
  <2>1. \A p : RelOver(T, Mutual(Pairs(G, p)))
    BY DEF RelOver, Mutual
  <2>2. Over(T, Stating(Mutual(SubClass(G)), "equivalentClass"))
          /\ Over(T, Stating(Mutual(SubProp(G)), "equivalentProperty"))
    BY <2>1, StatingOver DEF SubClass, SubProp
  <2> QED BY <2>2 DEF ScmEq2, Over
<1>6. Over(T, ScmDom(G)) /\ Over(T, ScmRng(G))
  <2>1. \A p, q : RelOver(T, Compose(Pairs(G, p), Pairs(G, q)))
    BY ComposeOver DEF RelOver
  <2>2. \A p, q, v, w : RelOver(T, Compose(Pairs(G, p), Pairs(G, q)) \cup Compose(Pairs(G, v), Pairs(G, w)))
    BY <2>1 DEF RelOver
  <2> QED BY <2>2, StatingOver DEF ScmDom, ScmRng, SubClass, SubProp
<1>7. Over(T, ScmHv(G)) /\ Over(T, ScmSvf1(G)) /\ Over(T, ScmAvf1(G))
        /\ Over(T, ScmSvf2(G)) /\ Over(T, ScmAvf2(G))
  BY RestrictionsOver, StatingOver, ConverseOver DEF ScmHv, ScmSvf1, ScmAvf1, ScmSvf2, ScmAvf2
<1>8. Over(T, ScmInt(G))
  <2> SUFFICES ASSUME NEW t \in ScmInt(G) PROVE Proper(T, t)
    BY DEF Over
  <2>1. PICK c \in ListsOf(G, "intersectionOf") : t \in {<<c[1], "subClassOf", m>> : m \in Members(c[2])}
    BY DEF ScmInt
  <2> QED BY <2>1, ListsOver DEF Proper, WellFormed, IriOf, NodeOf
<1>9. Over(T, ScmUni(G))
  <2> SUFFICES ASSUME NEW t \in ScmUni(G) PROVE Proper(T, t)
    BY DEF Over
  <2>1. PICK c \in ListsOf(G, "unionOf") :
          t \in {<<m, "subClassOf", c[1]>> : m \in {n \in Members(c[2]) : Node(n)}}
    BY DEF ScmUni
  <2> QED BY <2>1, ListsOver DEF Proper, WellFormed, IriOf, NodeOf
<1> HIDE PairsOver, VocabularyIri
<1> QED BY <1>1, <1>2, <1>3, <1>4, <1>5, <1>6, <1>7, <1>8, <1>9 DEF SchemaRules, Over

\* The property rules.
LEMMA PropertyOver ==
  ASSUME NEW T, TermSet(T), NEW G, IsFiniteSet(G), Over(T, G)
  PROVE  Over(T, PropertyRules(G))
<1> USE PairsOver, VocabularyIri
<1>1. Over(T, PrpSpo1(G)) /\ Over(T, PrpEqp(G))
  <2>1. \A p : \A r \in IriPairs(G, p) \cup Converse(IriPairs(G, p)) : IriOf(T, r[2])
    BY DEF Converse, IriOf
  <2> QED BY <2>1, RepredicatedOver DEF PrpSpo1, PrpEqp
<1>2. Over(T, PrpDom(G))
  <2>1. \A r \in Pairs(G, "domain") : r[2] \in T
    BY DEF RelOver
  <2> HIDE PairsOver
  <2>2. RelOver(T, {<<t[1], t[2]>> : t \in G})
    BY DEF Over, Proper, WellFormed, RelOver
  <2> QED BY <2>1, <2>2, ComposeOver, StatingOver DEF PrpDom
<1>3. Over(T, PrpRng(G))
  <2>1. \A r \in Pairs(G, "range") : r[2] \in T
    BY DEF RelOver
  <2> HIDE PairsOver
  <2>2. RelOver(T, {<<t[3], t[2]>> : t \in {u \in G : Node(u[3])}})
    BY DEF Over, Proper, WellFormed, RelOver
  <2> QED BY <2>1, <2>2, ComposeOver, StatingOver DEF PrpRng
<1>4. Over(T, PrpTrp(G))
  <2> SUFFICES ASSUME NEW t \in PrpTrp(G) PROVE Proper(T, t)
    BY DEF Over
  <2>1. PICK p \in Properties(G, "TransitiveProperty") : t \in Transitive(G, p)
    BY DEF PrpTrp
  <2>2. IriOf(T, p)
    BY <2>1 DEF Properties, IriOf, NodeOf
  <2> QED BY <2>1, <2>2, TransitiveOver DEF Over
<1>5. Over(T, PrpSymp(G))
  <2> SUFFICES ASSUME NEW t \in PrpSymp(G) PROVE Proper(T, t)
    BY DEF Over
  <2>1. PICK p \in Properties(G, "SymmetricProperty") : t \in Stating(Converse(Pairs(G, p)), p)
    BY DEF PrpSymp
  <2>2. IriOf(T, p)
    BY <2>1 DEF Properties, IriOf, NodeOf
  <2> QED BY <2>1, <2>2, ConverseOver, StatingOver DEF Over
<1>6. Over(T, PrpInv(G))
  <2>1. \A p, q : IriOf(T, q) => Over(T, Stating(Converse(Pairs(G, p)), q))
    BY ConverseOver, StatingOver
  <2> SUFFICES ASSUME NEW t \in PrpInv(G) PROVE Proper(T, t)
    BY DEF Over
  <2>2. PICK r \in IriPairs(G, "inverseOf") :
          t \in Stating(Converse(Pairs(G, r[1])), r[2]) \cup Stating(Converse(Pairs(G, r[2])), r[1])
    BY DEF PrpInv
  <2> QED BY <2>1, <2>2 DEF Over
<1>7. Over(T, PrpFp(G))
  <2> SUFFICES ASSUME NEW t \in PrpFp(G) PROVE Proper(T, t)
    BY DEF Over
  <2>1. PICK p, r : t \in AllSame(Objects(G, r[1], p))
    BY DEF PrpFp
  <2> QED BY <2>1, AllSameOver DEF Over
<1>8. Over(T, PrpIfp(G))
  <2> DEFINE Sharing(p, r) == AllSame({q[1] : q \in {x \in Pairs(G, p) : x[2] = r[2]}})
  <2>1. PrpIfp(G) =
          UNION {UNION {Sharing(p, r) : r \in Pairs(G, p)} :
                   p \in Properties(G, "InverseFunctionalProperty")}
    BY DEF PrpIfp
  <2>2. \A p, r : Over(T, Sharing(p, r))
    <3> SUFFICES ASSUME NEW p, NEW r PROVE Over(T, Sharing(p, r))
      OBVIOUS
    <3>1. {q[1] : q \in {x \in Pairs(G, p) : x[2] = r[2]}} \subseteq T
      BY DEF RelOver
    <3> QED BY <3>1, AllSameOver
  <2> HIDE DEF Sharing
  <2> QED BY <2>1, <2>2 DEF Over
<1>9. Over(T, PrpSpo2(G))
  <2> SUFFICES ASSUME NEW t \in PrpSpo2(G) PROVE Proper(T, t)
    BY DEF Over
  <2>1. PICK x \in IriListsOf(G, "propertyChainAxiom") : Iri(x[1]) /\ t \in Stating(Chain(G, x[2]), x[1])
    BY DEF PrpSpo2
  <2>2. x \in ListsOf(G, "propertyChainAxiom") /\ x[2] # << >>
    BY DEF IriListsOf
  <2>3. IriOf(T, x[1]) /\ x[2] \in Seq(T)
    BY <2>1, <2>2, ListsOver DEF IriOf, NodeOf
  <2>4. RelOver(T, Chain(G, x[2]))
    BY <2>2, <2>3, ChainOver
  <2> QED BY <2>1, <2>3, <2>4, StatingOver DEF Over
<1>10. Over(T, PrpKey(G))
  <2> SUFFICES ASSUME NEW t \in PrpKey(G) PROVE Proper(T, t)
    BY DEF Over
  <2>1. PICK c, x : x \in Instances(G, c[1]) \X Instances(G, c[1]) /\ t = <<x[1], "sameAs", x[2]>>
    BY DEF PrpKey
  <2> QED BY <2>1 DEF Proper, WellFormed, IriOf, NodeOf
<1> HIDE PairsOver, VocabularyIri
<1> QED BY <1>1, <1>2, <1>3, <1>4, <1>5, <1>6, <1>7, <1>8, <1>9, <1>10 DEF PropertyRules, Over

\* The class rules.
LEMMA ClassOver ==
  ASSUME NEW T, TermSet(T), NEW G, IsFiniteSet(G), Over(T, G)
  PROVE  Over(T, ClassRules(G))
<1> USE PairsOver, VocabularyIri
<1>1. Over(T, CaxSco(G))
  <2>1. \A r \in Pairs(G, "subClassOf") : r[2] \in T
    BY DEF RelOver
  <2> QED BY <2>1, ComposeOver, StatingOver DEF CaxSco, SubClass
<1>2. Over(T, CaxEqc(G))
  <2> SUFFICES ASSUME NEW t \in CaxEqc(G) PROVE Proper(T, t)
    BY DEF Over
  <2>1. PICK r \in Pairs(G, "equivalentClass") :
          t \in Typed(Instances(G, r[1]), r[2]) \cup Typed(Instances(G, r[2]), r[1])
    BY DEF CaxEqc
  <2>2. r[1] \in T /\ r[2] \in T
    BY DEF RelOver
  <2> QED BY <2>1, <2>2, TypedOver DEF Over
<1>3. Over(T, ClsInt1(G))
  <2> DEFINE InAll(x) ==
        {i \in Instances(G, x[2][1]) : \A m \in Members(x[2]) : i \in Instances(G, m)}
  <2>1. ClsInt1(G) =
          UNION {Typed(InAll(x), x[1]) : x \in {y \in ListsOf(G, "intersectionOf") : y[2] # << >>}}
    BY DEF ClsInt1
  <2>2. \A x : \A i \in InAll(x) : NodeOf(T, i)
    OBVIOUS
  <2> HIDE DEF InAll
  <2>3. \A x \in ListsOf(G, "intersectionOf") : Over(T, Typed(InAll(x), x[1]))
    <3>1. \A x \in ListsOf(G, "intersectionOf") : x[1] \in T
      BY ListsOver DEF NodeOf
    <3> QED BY <2>2, <3>1, TypedOver
  <2> QED BY <2>1, <2>3 DEF Over
<1>4. Over(T, ClsInt2(G))
  <2> SUFFICES ASSUME NEW t \in ClsInt2(G) PROVE Proper(T, t)
    BY DEF Over
  <2>1. PICK x \in ListsOf(G, "intersectionOf") :
          \E m \in Members(x[2]) : t \in Typed(Instances(G, x[1]), m)
    BY DEF ClsInt2
  <2>2. PICK m \in Members(x[2]) : t \in Typed(Instances(G, x[1]), m)
    BY <2>1
  <2>3. m \in T
    BY ListsOver
  <2> QED BY <2>2, <2>3, TypedOver DEF Over
<1>5. Over(T, ClsUni(G))
  <2> SUFFICES ASSUME NEW t \in ClsUni(G) PROVE Proper(T, t)
    BY DEF Over
  <2>1. PICK x \in ListsOf(G, "unionOf") : \E m \in Members(x[2]) : t \in Typed(Instances(G, m), x[1])
    BY DEF ClsUni
  <2>2. x[1] \in T
    BY ListsOver DEF NodeOf
  <2> QED BY <2>1, <2>2, TypedOver DEF Over
<1>6. Over(T, ClsOo(G))
  <2> SUFFICES ASSUME NEW t \in ClsOo(G) PROVE Proper(T, t)
    BY DEF Over
  <2>1. PICK x \in ListsOf(G, "oneOf") : t \in Typed({m \in Members(x[2]) : Node(m)}, x[1])
    BY DEF ClsOo
  <2>2. x[1] \in T /\ \A m \in {n \in Members(x[2]) : Node(n)} : NodeOf(T, m)
    BY ListsOver DEF NodeOf
  <2> QED BY <2>1, <2>2, TypedOver DEF Over
<1>7. Over(T, ClsAvf(G))
  <2> SUFFICES ASSUME NEW t \in ClsAvf(G) PROVE Proper(T, t)
    BY DEF Over
  <2>1. PICK x \in Restrictions(G, "allValuesFrom") :
          t \in Typed({r[2] : r \in {q \in NodePairs(G, x[2]) : q[1] \in Instances(G, x[1])}}, x[3])
    BY DEF ClsAvf
  <2>2. x[3] \in T
    BY RestrictionsOver
  <2>3. \A y \in {r[2] : r \in {q \in NodePairs(G, x[2]) : q[1] \in Instances(G, x[1])}} : NodeOf(T, y)
    OBVIOUS
  <2> QED BY <2>1, <2>2, <2>3, TypedOver DEF Over
<1>8. \A constraint : \A x \in Restrictions(G, constraint) : \A R :
        R \subseteq Pairs(G, x[2]) => Over(T, Typed({r[1] : r \in R}, x[1]))
  <2> SUFFICES ASSUME NEW constraint, NEW x \in Restrictions(G, constraint),
                      NEW R, R \subseteq Pairs(G, x[2])
               PROVE  Over(T, Typed({r[1] : r \in R}, x[1]))
    OBVIOUS
  <2>1. \A y \in {r[1] : r \in R} : NodeOf(T, y)
    <3>1. RelOver(T, Pairs(G, x[2]))
      OBVIOUS
    <3> HIDE PairsOver
    <3> QED BY <3>1 DEF RelOver, NodeOf
  <2>2. x[1] \in T
    BY RestrictionsOver DEF NodeOf
  <2> QED BY <2>1, <2>2, TypedOver
<1>9. Over(T, ClsSvf1(G))
  <2> SUFFICES ASSUME NEW t \in ClsSvf1(G) PROVE Proper(T, t)
    BY DEF Over
  <2>1. PICK x \in Restrictions(G, "someValuesFrom") :
          t \in Typed({r[1] : r \in {q \in Pairs(G, x[2]) : q[2] \in Instances(G, x[3])}}, x[1])
    BY DEF ClsSvf1
  <2> QED BY <1>8, <2>1 DEF Over
<1>10. Over(T, ClsSvf2(G))
  <2> SUFFICES ASSUME NEW t \in ClsSvf2(G) PROVE Proper(T, t)
    BY DEF Over
  <2>1. PICK x \in Restrictions(G, "someValuesFrom") : t \in Typed({r[1] : r \in Pairs(G, x[2])}, x[1])
    BY DEF ClsSvf2
  <2> QED BY <1>8, <2>1 DEF Over
<1>11. Over(T, ClsHv2(G))
  <2> SUFFICES ASSUME NEW t \in ClsHv2(G) PROVE Proper(T, t)
    BY DEF Over
  <2>1. PICK x \in Restrictions(G, "hasValue") :
          t \in Typed({r[1] : r \in {q \in Pairs(G, x[2]) : q[2] = x[3]}}, x[1])
    BY DEF ClsHv2
  <2> QED BY <1>8, <2>1 DEF Over
<1>12. Over(T, ClsHv1(G))
  <2> SUFFICES ASSUME NEW t \in ClsHv1(G) PROVE Proper(T, t)
    BY DEF Over
  <2>1. PICK x \in Restrictions(G, "hasValue") : t \in {<<i, x[2], x[3]>> : i \in Instances(G, x[1])}
    BY DEF ClsHv1
  <2> QED BY <2>1, RestrictionsOver DEF Proper, WellFormed, NodeOf, IriOf
<1> HIDE PairsOver, VocabularyIri
<1> QED BY <1>1, <1>2, <1>3, <1>4, <1>5, <1>6, <1>7, <1>9, <1>10, <1>11, <1>12 DEF ClassRules, Over

\* The cardinality rules, whichever entries the hash map kept.
LEMMA CardinalityOver ==
  ASSUME NEW T, TermSet(T), NEW G, Over(T, G), NEW c \in CardinalityOutcomes(G)
  PROVE  Over(T, c)
<1>1. \A s, p : Objects(G, s, p) \subseteq T
  BY PairsOver
<1>2. \A on, t : t \in ClsMaxC2(G, on) => Proper(T, t)
  <2> SUFFICES ASSUME NEW on, NEW t \in ClsMaxC2(G, on) PROVE Proper(T, t)
    OBVIOUS
  <2>1. PICK x, d : t \in AllSame(Objects(G, x, on[d]))
    BY DEF ClsMaxC2
  <2> QED BY <1>1, <2>1, AllSameOver DEF Over
<1>3. \A on, cls, t : t \in ClsMaxQc3(G, on, cls) => Proper(T, t)
  <2> SUFFICES ASSUME NEW on, NEW cls, NEW t \in ClsMaxQc3(G, on, cls) PROVE Proper(T, t)
    OBVIOUS
  <2>1. PICK d \in Qualified(G, on, cls) :
          \E x \in Instances(G, d) : t \in AllSame(Objects(G, x, on[d]) \cap Instances(G, cls[d]))
    BY DEF ClsMaxQc3
  <2>2. PICK x \in Instances(G, d) : t \in AllSame(Objects(G, x, on[d]) \cap Instances(G, cls[d]))
    BY <2>1
  <2>3. Objects(G, x, on[d]) \cap Instances(G, cls[d]) \subseteq T
    BY <1>1
  <2> QED BY <2>2, <2>3, AllSameOver DEF Over
<1>4. \A on, cls, t : t \in ClsMaxQc4(G, on, cls) => Proper(T, t)
  <2> SUFFICES ASSUME NEW on, NEW cls, NEW t \in ClsMaxQc4(G, on, cls) PROVE Proper(T, t)
    OBVIOUS
  <2>1. PICK x, d : t \in AllSame(Objects(G, x, on[d]))
    BY DEF ClsMaxQc4
  <2> QED BY <1>1, <2>1, AllSameOver DEF Over
<1> QED BY <1>2, <1>3, <1>4 DEF CardinalityOutcomes, Over

\* What an iteration derives from triples the store takes, it takes too, and
\* every term of it was there, is in the vocabulary or is a datatype.
LEMMA DerivedOver ==
  ASSUME NEW T, TermSet(T), NEW G, IsFiniteSet(G), Over(T, G)
  PROVE  \A saturation, reflexive : Over(T, DeterminateRules(G, saturation, reflexive))
<1>1. Over(T, Axioms)
  BY VocabularyIri, IriIsNode DEF Axioms, Over, Proper, WellFormed, IriOf
<1>2. Over(T, EqSym(G)) /\ Over(T, EqTrans(G))
  BY VocabularyIri, PairsOver, ConverseOver, StatingOver, TransitiveOver DEF EqSym, EqTrans
<1>3. Over(T, DtType(G))
  <2>1. \A d \in BuiltinDatatypes \cup {DatatypeOf[t[3]] : t \in {u \in G : ~Node(u[3])}} : NodeOf(T, d)
    <3>1. \A d \in BuiltinDatatypes : NodeOf(T, d)
      BY DatatypesAreIris DEF TermSet, NodeOf, Node
    <3>2. \A t \in G : ~Node(t[3]) => NodeOf(T, DatatypeOf[t[3]])
      BY DatatypesAreIris DEF TermSet, NodeOf, Node, Over, Proper
    <3> QED BY <3>1, <3>2
  <2>2. "Datatype" \in T
    BY VocabularyIri DEF IriOf
  <2> QED BY <2>1, <2>2, TypedOver DEF DtType
<1>4. Over(T, EqRep(G))
  <2>1. Over(T, EqRepS(G))
    <3> SUFFICES ASSUME NEW t \in EqRepS(G) PROVE Proper(T, t)
      BY DEF Over
    <3>1. PICK x \in G \X Substitutes(G) : Node(x[2][2]) /\ t = <<x[2][2], x[1][2], x[1][3]>>
      BY DEF EqRepS
    <3>2. x[2][2] \in T /\ Proper(T, x[1])
      BY <3>1, PairsOver DEF Substitutes, RelOver, Over
    <3> QED BY <3>1, <3>2 DEF Proper, WellFormed
  <2>2. Over(T, EqRepO(G))
    <3> SUFFICES ASSUME NEW t \in EqRepO(G) PROVE Proper(T, t)
      BY DEF Over
    <3>1. PICK x \in G \X Substitutes(G) : t = <<x[1][1], x[1][2], x[2][2]>>
      BY DEF EqRepO
    <3>2. x[2][2] \in T /\ Proper(T, x[1])
      BY <3>1, PairsOver DEF Substitutes, RelOver, Over
    <3> QED BY <3>1, <3>2 DEF Proper, WellFormed
  <2>3. Over(T, EqRepP(G))
    <3>1. \A r \in {q \in Substitutes(G) : Iri(q[1]) /\ Iri(q[2])} : IriOf(T, r[2])
      BY PairsOver DEF Substitutes, RelOver, IriOf
    <3> QED BY <3>1, RepredicatedOver DEF EqRepP
  <2> QED BY <2>1, <2>2, <2>3 DEF EqRep, Over
<1>5. Over(T, EqRef(G))
  BY VocabularyIri, IriIsNode DEF EqRef, Over, Proper, WellFormed, IriOf
<1>6. Over(T, SchemaRules(G)) /\ Over(T, PropertyRules(G)) /\ Over(T, ClassRules(G))
  BY SchemaOver, PropertyOver, ClassOver
<1> QED BY <1>1, <1>2, <1>3, <1>4, <1>5, <1>6 DEF DeterminateRules, Over

-----------------------------------------------------------------------------
(* Growing graphs: what the rules derive from a graph they derive from     *)
(* every larger one, unless a list has become ambiguous.                   *)

\* Scans of a larger graph find more.
LEMMA RelationsGrow ==
  ASSUME NEW G, NEW H, G \subseteq H
  PROVE  /\ \A p : Pairs(G, p) \subseteq Pairs(H, p)
         /\ \A p : NodePairs(G, p) \subseteq NodePairs(H, p)
         /\ \A p : IriPairs(G, p) \subseteq IriPairs(H, p)
         /\ \A s, p : Objects(G, s, p) \subseteq Objects(H, s, p)
         /\ \A c : Instances(G, c) \subseteq Instances(H, c)
         /\ \A kind : Properties(G, kind) \subseteq Properties(H, kind)
         /\ Substitutes(G) \subseteq Substitutes(H)
BY DEF Pairs, NodePairs, IriPairs, Objects, Instances, Properties, Substitutes

\* Joins of larger relations derive more.
LEMMA JoinsGrow ==
  /\ \A Q, R, S, U : Q \subseteq R /\ S \subseteq U => Compose(Q, S) \subseteq Compose(R, U)
  /\ \A Q, R : Q \subseteq R => Converse(Q) \subseteq Converse(R)
  /\ \A Q, R, p : Q \subseteq R => Stating(Q, p) \subseteq Stating(R, p)
  /\ \A Q, R, c : Q \subseteq R => Typed(Q, c) \subseteq Typed(R, c)
  /\ \A Q, R : Q \subseteq R => AllSame(Q) \subseteq AllSame(R)
  /\ \A Q, R, S, U : Q \subseteq R /\ S \subseteq U => Repredicated(Q, S) \subseteq Repredicated(R, U)
<1>1. \A Q, R, S, U : Q \subseteq R /\ S \subseteq U => Compose(Q, S) \subseteq Compose(R, U)
  BY DEF Compose
<1>2. \A Q, R : Q \subseteq R => Converse(Q) \subseteq Converse(R)
  BY DEF Converse
<1>3. \A Q, R, p : Q \subseteq R => Stating(Q, p) \subseteq Stating(R, p)
  BY DEF Stating
<1>4. \A Q, R, c : Q \subseteq R => Typed(Q, c) \subseteq Typed(R, c)
  BY DEF Typed
<1>5. \A Q, R : Q \subseteq R => AllSame(Q) \subseteq AllSame(R)
  BY DEF AllSame
<1>6. \A Q, R, S, U : Q \subseteq R /\ S \subseteq U => Repredicated(Q, S) \subseteq Repredicated(R, U)
  BY DEF Repredicated
<1> QED BY <1>1, <1>2, <1>3, <1>4, <1>5, <1>6

\* A larger graph has more restrictions.
LEMMA RestrictionsGrow ==
  ASSUME NEW G, NEW H, G \subseteq H, NEW constraint
  PROVE  /\ Restrictions(G, constraint) \subseteq Restrictions(H, constraint)
         /\ BySubProperty(G, constraint) \subseteq BySubProperty(H, constraint)
         /\ ByFiller(G, constraint) \subseteq ByFiller(H, constraint)
<1>1. Restrictions(G, constraint) \subseteq Restrictions(H, constraint)
  <2> DEFINE Q(K, r) == {o \in Objects(K, r[1], "onProperty") : Iri(o)}
             On(K, r) == {<<r[1], p, r[2]>> : p \in Q(K, r)}
  <2>1. \A K : Restrictions(K, constraint) = UNION {On(K, r) : r \in Pairs(K, constraint)}
    BY DEF Restrictions
  <2>2. \A r : Q(G, r) \subseteq Q(H, r)
    BY RelationsGrow
  <2> HIDE DEF Q
  <2>3. \A r : On(G, r) \subseteq On(H, r)
    BY <2>2
  <2> HIDE DEF On
  <2> QED BY <2>1, <2>3, RelationsGrow
<1>2. BySubProperty(G, constraint) \subseteq BySubProperty(H, constraint)
  <2> DEFINE R(K) == Restrictions(K, constraint)
             S(K) == {y \in R(K) \X R(K) : /\ y[1][3] = y[2][3]
                                          /\ <<y[1][2], y[2][2]>> \in IriPairs(K, "subPropertyOf")}
  <2>1. \A K : BySubProperty(K, constraint) = {<<x[1][1], x[2][1]>> : x \in S(K)}
    BY DEF BySubProperty
  <2>2. S(G) \subseteq S(H)
    BY <1>1, RelationsGrow
  <2> HIDE DEF S
  <2> QED BY <2>1, <2>2
<1>3. ByFiller(G, constraint) \subseteq ByFiller(H, constraint)
  <2> DEFINE R(K) == Restrictions(K, constraint)
             S(K) == {y \in R(K) \X R(K) : y[1][2] = y[2][2] /\ <<y[1][3], y[2][3]>> \in SubClass(K)}
  <2>1. \A K : ByFiller(K, constraint) = {<<x[1][1], x[2][1]>> : x \in S(K)}
    BY DEF ByFiller
  <2>2. S(G) \subseteq S(H)
    BY <1>1, RelationsGrow DEF SubClass
  <2> HIDE DEF S
  <2> QED BY <2>1, <2>2
<1> QED BY <1>1, <1>2, <1>3

\* A list stays the same in a larger graph that makes no node ambiguous.
LEMMA GoodLinks ==
  ASSUME NEW G, IsFiniteSet(G), NEW c
  PROVE  c \in Good(G) <=> /\ c # "nil"
                           /\ \E f : Links(G, c, "first") = {f}
                           /\ \E r : Links(G, c, "rest") = {r}
<1>1. \A p : Cardinality(Objects(G, c, p)) = 1 <=> \E x : Objects(G, c, p) = {x}
  BY OneObject
<1>2. Links(G, c, "first") = Objects(G, c, "first") /\ Links(G, c, "rest") = Objects(G, c, "rest")
  BY LinksAreObjects
<1> QED BY <1>1, <1>2, GoodNodes

\* A graph whose list nodes lead where those of another do has its lists.
LEMMA ListsFollow ==
  ASSUME NEW G, NEW H, IsFiniteSet(G), IsFiniteSet(H), AllWellFormed(G), AllWellFormed(H),
         \A c, x : \A p \in {"first", "rest"} : Links(G, c, p) = {x} => Links(H, c, p) = {x}
  PROVE  \A head : Lists(G, head) \subseteq Lists(H, head)
<1>3. ASSUME NEW c \in Good(G) PROVE c \in Good(H) /\ First(G, c) = First(H, c)
  <2>1. PICK f : Links(G, c, "first") = {f}
    BY GoodLinks, Zenon
  <2>2. PICK r : Links(G, c, "rest") = {r}
    BY GoodLinks, Zenon
  <2>3. Links(H, c, "first") = {f} /\ Links(H, c, "rest") = {r}
    BY <2>1, <2>2
  <2>4. c # "nil"
    BY DEF Good
  <2>5. c \in Good(H)
    BY <2>3, <2>4, GoodLinks, Zenon
  <2>6. First(G, c) = f /\ First(H, c) = f
    BY <2>1, <2>3 DEF First
  <2> QED BY <2>5, <2>6
<1>4. ASSUME NEW k, NEW n, NEW c, IsPath(G, k, n, c, {})
      PROVE  IsPath(H, k, n, c, {}) /\ Firsts(G, k, n) = Firsts(H, k, n)
  <2>1. k \in Nat /\ k # 0 /\ n \in [1..k -> Good(G) \ {}]
    BY <1>4 DEF IsPath
  <2>2. \A i \in 1..k : n[i] \in Good(G)
    BY <2>1
  <2>3. n \in [1..k -> Good(H) \ {}] /\ \A i \in 1..k : First(G, n[i]) = First(H, n[i])
    BY <1>3, <2>1, <2>2
  <2>4. /\ \A i \in 1..(k - 1) : Links(H, n[i], "rest") = {n[i + 1]}
        /\ Links(H, n[k], "rest") = {"nil"}
    BY <1>4 DEF IsPath
  <2>5. IsPath(H, k, n, c, {})
    BY <1>4, <2>3, <2>4 DEF IsPath
  <2> QED BY <2>3, <2>5 DEF Firsts
<1>5. ASSUME NEW head PROVE Lists(G, head) \subseteq Lists(H, head)
  <2>1. CASE head = "nil"
    BY <2>1 DEF Lists
  <2>2. CASE head # "nil"
    <3>1. \A l : OnPath(G, head, {}, l) => OnPath(H, head, {}, l)
      BY <1>4 DEF OnPath
    <3>2. \A l : l \in Lists(G, head) => l \in Lists(H, head)
      BY <2>2, <3>1, ListsExact, ListValuesArePaths
    <3> QED BY <3>2
  <2> QED BY <2>1, <2>2
<1> QED BY <1>5

\* A larger graph has more lists, if none of its list nodes is ambiguous: a
\* second first or rest makes the walker drop a list it had.
LEMMA ListsGrow ==
  ASSUME NEW G, NEW H, G \subseteq H, IsFiniteSet(H), AllWellFormed(H), Unambiguous(H)
  PROVE  /\ \A head : Lists(G, head) \subseteq Lists(H, head)
         /\ \A p : ListsOf(G, p) \subseteq ListsOf(H, p)
         /\ \A p : IriListsOf(G, p) \subseteq IriListsOf(H, p)
<1>1. IsFiniteSet(G) /\ AllWellFormed(G)
  BY FS_Subset DEF AllWellFormed
<1>2. ASSUME NEW c, NEW x, NEW p \in {"first", "rest"}, Links(G, c, p) = {x}
      PROVE  Links(H, c, p) = {x}
  BY <1>2 DEF Links, Unambiguous
<1>5. ASSUME NEW head PROVE Lists(G, head) \subseteq Lists(H, head)
  BY <1>1, <1>2, ListsFollow
<1>6. ASSUME NEW p PROVE ListsOf(G, p) \subseteq ListsOf(H, p)
  <2> DEFINE At(K, r) == {<<r[1], l>> : l \in Lists(K, r[2])}
  <2>1. \A K : ListsOf(K, p) = UNION {At(K, r) : r \in NodePairs(K, p)}
    BY DEF ListsOf
  <2>2. \A r : At(G, r) \subseteq At(H, r)
    BY <1>5
  <2> HIDE DEF At
  <2> QED BY <2>1, <2>2, RelationsGrow
<1>7. \A p : IriListsOf(G, p) \subseteq IriListsOf(H, p)
  BY <1>6 DEF IriListsOf
<1> QED BY <1>5, <1>6, <1>7

\* A property chain relates more in a larger graph.
LEMMA ChainGrows ==
  ASSUME NEW G, NEW H, G \subseteq H, NEW l, Len(l) \in Nat, Len(l) # 0
  PROVE  Chain(G, l) \subseteq Chain(H, l)
<1>1. PICK f :
        /\ f = [k \in 1..Len(l) |->
             IF k = 1 THEN Pairs(G, l[1]) ELSE Compose(f[k - 1], Pairs(G, l[k]))]
        /\ Chain(G, l) = f[Len(l)]
  BY ChainSolved
<1>2. PICK g :
        /\ g = [k \in 1..Len(l) |->
             IF k = 1 THEN Pairs(H, l[1]) ELSE Compose(g[k - 1], Pairs(H, l[k]))]
        /\ Chain(H, l) = g[Len(l)]
  BY ChainSolved
<1> DEFINE S == {n \in Nat : n \in 1..Len(l) => f[n] \subseteq g[n]}
<1>3. 0 \in S
  OBVIOUS
<1>4. ASSUME NEW n \in Nat, n \in S PROVE n + 1 \in S
  <2> SUFFICES ASSUME n + 1 \in 1..Len(l) PROVE f[n + 1] \subseteq g[n + 1]
    OBVIOUS
  <2>1. CASE n = 0
    <3>1. f[1] = Pairs(G, l[1]) /\ g[1] = Pairs(H, l[1])
      BY <1>1, <1>2
    <3>2. Pairs(G, l[1]) \subseteq Pairs(H, l[1])
      BY RelationsGrow
    <3> QED BY <2>1, <3>1, <3>2
  <2>2. CASE n # 0
    <3>1. n \in 1..Len(l) /\ (n + 1) - 1 = n /\ n + 1 # 1
      BY <2>2
    <3>2. f[n + 1] = Compose(f[n], Pairs(G, l[n + 1]))
      <4>1. f[n + 1] = IF n + 1 = 1 THEN Pairs(G, l[1])
                       ELSE Compose(f[(n + 1) - 1], Pairs(G, l[n + 1]))
        BY <1>1
      <4> QED BY <3>1, <4>1
    <3>3. g[n + 1] = Compose(g[n], Pairs(H, l[n + 1]))
      <4>1. g[n + 1] = IF n + 1 = 1 THEN Pairs(H, l[1])
                       ELSE Compose(g[(n + 1) - 1], Pairs(H, l[n + 1]))
        BY <1>2
      <4> QED BY <3>1, <4>1
    <3>4. f[n] \subseteq g[n] /\ Pairs(G, l[n + 1]) \subseteq Pairs(H, l[n + 1])
      BY <1>4, <3>1, RelationsGrow
    <3> QED BY <3>2, <3>3, <3>4, JoinsGrow
  <2> QED BY <2>1, <2>2
<1>5. Nat \subseteq S
  <2> HIDE DEF S
  <2> QED BY <1>3, <1>4, NumberInduction
<1>6. Len(l) \in S /\ Len(l) \in 1..Len(l)
  <2> HIDE DEF S
  <2> QED BY <1>5
<1> QED BY <1>1, <1>2, <1>6

\* prp-trp derives more from a larger graph.
LEMMA TransitiveGrows ==
  ASSUME NEW G, NEW H, G \subseteq H, NEW p
  PROVE  Transitive(G, p) \subseteq Transitive(H, p)
<1>1. Pairs(G, p) \subseteq Pairs(H, p)
  BY RelationsGrow
<1>2. Compose(Pairs(G, p), Pairs(G, p)) \subseteq Compose(Pairs(H, p), Pairs(H, p))
  BY <1>1, JoinsGrow
<1>3. Stating(Compose(Pairs(G, p), Pairs(G, p)), p) \subseteq Stating(Compose(Pairs(H, p), Pairs(H, p)), p)
  BY <1>2, JoinsGrow
<1> QED BY <1>3 DEF Transitive

\* Each group of rules derives more from a larger graph. The schema rules:
LEMMA SchemaGrows ==
  ASSUME NEW G, NEW H, G \subseteq H, IsFiniteSet(H), AllWellFormed(H), Unambiguous(H)
  PROVE  SchemaRules(G) \subseteq SchemaRules(H)
<1> USE RelationsGrow, JoinsGrow
<1>1. \A p : Transitive(G, p) \subseteq Transitive(H, p)
  BY TransitiveGrows
<1>2. ScmEq1(G) \subseteq ScmEq1(H)
  <2>1. \A e, s : BothWays(G, e, s) \subseteq BothWays(H, e, s)
    <3> SUFFICES ASSUME NEW e, NEW s PROVE BothWays(G, e, s) \subseteq BothWays(H, e, s)
      OBVIOUS
    <3>1. NodePairs(G, e) \cup Converse(NodePairs(G, e))
            \subseteq NodePairs(H, e) \cup Converse(NodePairs(H, e))
      OBVIOUS
    <3> QED BY <3>1 DEF BothWays
  <2> QED BY <2>1 DEF ScmEq1
<1>3. ScmCls(G) \subseteq ScmCls(H) /\ ScmReflexive(G) \subseteq ScmReflexive(H)
  BY DEF ScmCls, ScmReflexive
<1>4. ScmEq2(G) \subseteq ScmEq2(H)
  <2>1. \A p : Mutual(Pairs(G, p)) \subseteq Mutual(Pairs(H, p))
    BY DEF Mutual
  <2> QED BY <2>1 DEF ScmEq2, SubClass, SubProp
<1>5. ScmDom(G) \subseteq ScmDom(H) /\ ScmRng(G) \subseteq ScmRng(H)
  <2>1. \A p, q : Compose(Pairs(G, p), Pairs(G, q)) \subseteq Compose(Pairs(H, p), Pairs(H, q))
    OBVIOUS
  <2>2. \A p, q, v, w : Compose(Pairs(G, p), Pairs(G, q)) \cup Compose(Pairs(G, v), Pairs(G, w))
          \subseteq Compose(Pairs(H, p), Pairs(H, q)) \cup Compose(Pairs(H, v), Pairs(H, w))
    BY <2>1
  <2> QED BY <2>2 DEF ScmDom, ScmRng, SubClass, SubProp
<1>6. /\ ScmHv(G) \subseteq ScmHv(H)
      /\ ScmSvf1(G) \subseteq ScmSvf1(H) /\ ScmSvf2(G) \subseteq ScmSvf2(H)
      /\ ScmAvf1(G) \subseteq ScmAvf1(H) /\ ScmAvf2(G) \subseteq ScmAvf2(H)
  BY RestrictionsGrow DEF ScmHv, ScmSvf1, ScmSvf2, ScmAvf1, ScmAvf2
<1>7. ScmInt(G) \subseteq ScmInt(H) /\ ScmUni(G) \subseteq ScmUni(H)
  <2>1. \A p : ListsOf(G, p) \subseteq ListsOf(H, p)
    BY ListsGrow
  <2> HIDE RelationsGrow, JoinsGrow
  <2> QED BY <2>1 DEF ScmInt, ScmUni
<1> HIDE RelationsGrow, JoinsGrow
<1> QED BY <1>1, <1>2, <1>3, <1>4, <1>5, <1>6, <1>7 DEF SchemaRules, ScmSco, ScmSpo

\* the property rules,
LEMMA PropertyGrows ==
  ASSUME NEW G, NEW H, G \subseteq H, IsFiniteSet(H), AllWellFormed(H), Unambiguous(H)
  PROVE  PropertyRules(G) \subseteq PropertyRules(H)
<1> USE RelationsGrow, JoinsGrow
<1>1. PrpSpo1(G) \subseteq PrpSpo1(H) /\ PrpEqp(G) \subseteq PrpEqp(H)
  <2>1. IriPairs(G, "equivalentProperty") \cup Converse(IriPairs(G, "equivalentProperty"))
          \subseteq IriPairs(H, "equivalentProperty") \cup Converse(IriPairs(H, "equivalentProperty"))
    OBVIOUS
  <2>2. IriPairs(G, "subPropertyOf") \subseteq IriPairs(H, "subPropertyOf")
    OBVIOUS
  <2>3. \A R, U : R \subseteq U => Repredicated(G, R) \subseteq Repredicated(H, U)
    OBVIOUS
  <2> HIDE RelationsGrow, JoinsGrow
  <2>4. PrpSpo1(G) \subseteq PrpSpo1(H)
    BY <2>2, <2>3 DEF PrpSpo1
  <2>5. PrpEqp(G) \subseteq PrpEqp(H)
    BY <2>1, <2>3 DEF PrpEqp
  <2> QED BY <2>4, <2>5
<1>2. PrpDom(G) \subseteq PrpDom(H) /\ PrpRng(G) \subseteq PrpRng(H)
  <2>1. {<<t[1], t[2]>> : t \in G} \subseteq {<<t[1], t[2]>> : t \in H}
    OBVIOUS
  <2>2. {<<t[3], t[2]>> : t \in {u \in G : Node(u[3])}} \subseteq {<<t[3], t[2]>> : t \in {u \in H : Node(u[3])}}
    OBVIOUS
  <2>3. \A R, S, p : R \subseteq S =>
          Compose(R, Pairs(G, p)) \subseteq Compose(S, Pairs(H, p))
    OBVIOUS
  <2> HIDE RelationsGrow
  <2>4. \A R, S, p : R \subseteq S =>
          Stating(Compose(R, Pairs(G, p)), "type") \subseteq Stating(Compose(S, Pairs(H, p)), "type")
    BY <2>3
  <2> HIDE JoinsGrow
  <2>5. PrpDom(G) \subseteq PrpDom(H)
    BY <2>1, <2>4 DEF PrpDom
  <2>6. PrpRng(G) \subseteq PrpRng(H)
    BY <2>2, <2>4 DEF PrpRng
  <2> QED BY <2>5, <2>6
<1>3. PrpTrp(G) \subseteq PrpTrp(H)
  <2>1. \A p : Transitive(G, p) \subseteq Transitive(H, p)
    BY TransitiveGrows
  <2> HIDE JoinsGrow
  <2> QED BY <2>1 DEF PrpTrp
<1>4. PrpSymp(G) \subseteq PrpSymp(H)
  <2>1. \A p : Stating(Converse(Pairs(G, p)), p) \subseteq Stating(Converse(Pairs(H, p)), p)
    OBVIOUS
  <2> HIDE JoinsGrow
  <2> QED BY <2>1 DEF PrpSymp
<1>5. PrpInv(G) \subseteq PrpInv(H)
  <2> DEFINE Back(K, r) ==
        Stating(Converse(Pairs(K, r[1])), r[2]) \cup Stating(Converse(Pairs(K, r[2])), r[1])
  <2>1. \A K : PrpInv(K) = UNION {Back(K, r) : r \in IriPairs(K, "inverseOf")}
    BY DEF PrpInv
  <2>2. \A r : Back(G, r) \subseteq Back(H, r)
    <3>1. \A p : Converse(Pairs(G, p)) \subseteq Converse(Pairs(H, p))
      OBVIOUS
    <3>2. \A p, q : Stating(Converse(Pairs(G, p)), q) \subseteq Stating(Converse(Pairs(H, p)), q)
      BY <3>1
    <3> HIDE RelationsGrow, JoinsGrow
    <3> QED BY <3>2
  <2> HIDE DEF Back
  <2> HIDE JoinsGrow
  <2> QED BY <2>1, <2>2
<1>6. PrpFp(G) \subseteq PrpFp(H)
  <2> DEFINE Same(K, p, r) == AllSame(Objects(K, r[1], p))
             Merged(K, p) == UNION {Same(K, p, r) : r \in Pairs(K, p)}
  <2>1. \A K : PrpFp(K) = UNION {Merged(K, p) : p \in Properties(K, "FunctionalProperty")}
    BY DEF PrpFp
  <2>2. \A p, r : Same(G, p, r) \subseteq Same(H, p, r)
    <3>1. \A s, p : Objects(G, s, p) \subseteq Objects(H, s, p)
      OBVIOUS
    <3> HIDE RelationsGrow
    <3> QED BY <3>1
  <2> HIDE DEF Same
  <2> HIDE JoinsGrow
  <2>3. \A p : Merged(G, p) \subseteq Merged(H, p)
    BY <2>2
  <2> HIDE DEF Merged
  <2> QED BY <2>1, <2>3
<1>7. PrpIfp(G) \subseteq PrpIfp(H)
  <2> DEFINE Sharing(K, p, r) == {q[1] : q \in {x \in Pairs(K, p) : x[2] = r[2]}}
             Same(K, p, r) == AllSame(Sharing(K, p, r))
             Subjects(K, p) == UNION {Same(K, p, r) : r \in Pairs(K, p)}
  <2>1. \A K : PrpIfp(K) = UNION {Subjects(K, p) : p \in Properties(K, "InverseFunctionalProperty")}
    BY DEF PrpIfp
  <2>2. \A p, r : Sharing(G, p, r) \subseteq Sharing(H, p, r)
    OBVIOUS
  <2> HIDE DEF Sharing
  <2>3. \A p, r : Same(G, p, r) \subseteq Same(H, p, r)
    BY <2>2
  <2> HIDE DEF Same
  <2> HIDE JoinsGrow
  <2>4. \A p : Subjects(G, p) \subseteq Subjects(H, p)
    BY <2>3
  <2> HIDE DEF Subjects
  <2> QED BY <2>1, <2>4
<1>8. PrpSpo2(G) \subseteq PrpSpo2(H)
  <2> SUFFICES ASSUME NEW t \in PrpSpo2(G) PROVE t \in PrpSpo2(H)
    OBVIOUS
  <2>1. PICK x \in IriListsOf(G, "propertyChainAxiom") : Iri(x[1]) /\ t \in Stating(Chain(G, x[2]), x[1])
    BY DEF PrpSpo2
  <2>2. x \in IriListsOf(H, "propertyChainAxiom")
    BY <2>1, ListsGrow
  <2>3. Len(x[2]) \in Nat /\ Len(x[2]) # 0
    <3>1. PICK r, l : x = <<r, l>> /\ \E head : l \in Lists(G, head) /\ l # << >>
      BY <2>1 DEF IriListsOf, ListsOf
    <3>2. PICK head : l \in Lists(G, head) /\ l # << >>
      BY <3>1
    <3>3. l \in Seq(Ends(G, head))
      BY <3>2, ListsAreSequences, FS_Subset
    <3> QED BY <3>1, <3>2, <3>3, EmptySeq, LenProperties
  <2>4. Stating(Chain(G, x[2]), x[1]) \subseteq Stating(Chain(H, x[2]), x[1])
    BY <2>3, ChainGrows
  <2> HIDE RelationsGrow, JoinsGrow
  <2> QED BY <2>1, <2>2, <2>4 DEF PrpSpo2
<1>9. PrpKey(G) \subseteq PrpKey(H)
  <2> DEFINE Shared(K, k) == {y \in Instances(K, k[1]) \X Instances(K, k[1]) :
                                y[1] # y[2] /\ ShareKey(K, y[1], y[2], k[2])}
             Same(K, k) == {<<x[1], "sameAs", x[2]>> : x \in Shared(K, k)}
  <2>1. \A K : PrpKey(K) = UNION {Same(K, k) : k \in IriListsOf(K, "hasKey")}
    BY DEF PrpKey
  <2>2. \A x, y, l : ShareKey(G, x, y, l) => ShareKey(H, x, y, l)
    <3> SUFFICES ASSUME NEW x, NEW y, NEW l, ShareKey(G, x, y, l), NEW p \in Members(l)
                 PROVE  Objects(H, x, p) \cap Objects(H, y, p) # {}
      BY DEF ShareKey
    <3>1. PICK v : v \in Objects(G, x, p) \cap Objects(G, y, p)
      BY DEF ShareKey
    <3> QED BY <3>1
  <2>3. \A k : Shared(G, k) \subseteq Shared(H, k)
    <3>1. \A c : Instances(G, c) \subseteq Instances(H, c)
      OBVIOUS
    <3> HIDE RelationsGrow, JoinsGrow
    <3> QED BY <2>2, <3>1
  <2> HIDE DEF Shared
  <2>4. \A k : Same(G, k) \subseteq Same(H, k)
    BY <2>3
  <2> HIDE DEF Same
  <2> QED BY <2>1, <2>4, ListsGrow
<1> HIDE RelationsGrow, JoinsGrow
<1> QED BY <1>1, <1>2, <1>3, <1>4, <1>5, <1>6, <1>7, <1>8, <1>9 DEF PropertyRules

\* the class rules,
LEMMA ClassGrows ==
  ASSUME NEW G, NEW H, G \subseteq H, IsFiniteSet(H), AllWellFormed(H), Unambiguous(H)
  PROVE  ClassRules(G) \subseteq ClassRules(H)
<1> USE RelationsGrow
<1>1. CaxSco(G) \subseteq CaxSco(H)
  <2>1. Pairs(G, "type") \subseteq Pairs(H, "type") /\ Pairs(G, "subClassOf") \subseteq Pairs(H, "subClassOf")
    OBVIOUS
  <2> HIDE RelationsGrow
  <2>2. Compose(Pairs(G, "type"), Pairs(G, "subClassOf")) \subseteq Compose(Pairs(H, "type"), Pairs(H, "subClassOf"))
    BY <2>1, JoinsGrow
  <2> QED BY <2>2, JoinsGrow DEF CaxSco, SubClass
<1>2. \A c, d : Typed(Instances(G, c), d) \subseteq Typed(Instances(H, c), d)
  BY DEF Typed
<1>3. CaxEqc(G) \subseteq CaxEqc(H)
  <2> DEFINE Both(K, r) == Typed(Instances(K, r[1]), r[2]) \cup Typed(Instances(K, r[2]), r[1])
  <2>1. \A K : CaxEqc(K) = UNION {Both(K, r) : r \in Pairs(K, "equivalentClass")}
    BY DEF CaxEqc
  <2>2. \A r : Both(G, r) \subseteq Both(H, r)
    BY <1>2
  <2> HIDE DEF Both
  <2> QED BY <2>1, <2>2
<1>4. ClsInt1(G) \subseteq ClsInt1(H)
  <2> DEFINE InAll(K, x) ==
               {i \in Instances(K, x[2][1]) : \A m \in Members(x[2]) : i \in Instances(K, m)}
             In(K, x) == Typed(InAll(K, x), x[1])
             L(K) == {y \in ListsOf(K, "intersectionOf") : y[2] # << >>}
  <2>1. \A K : ClsInt1(K) = UNION {In(K, x) : x \in L(K)}
    BY DEF ClsInt1
  <2>2. \A x : InAll(G, x) \subseteq InAll(H, x)
    OBVIOUS
  <2> HIDE DEF InAll
  <2>3. \A x : In(G, x) \subseteq In(H, x)
    BY <2>2 DEF Typed
  <2>4. L(G) \subseteq L(H)
    BY ListsGrow
  <2> HIDE DEF In, L
  <2> QED BY <2>1, <2>3, <2>4
<1>5. ClsInt2(G) \subseteq ClsInt2(H)
  <2> DEFINE In(K, x) == UNION {Typed(Instances(K, x[1]), m) : m \in Members(x[2])}
  <2>1. \A K : ClsInt2(K) = UNION {In(K, x) : x \in ListsOf(K, "intersectionOf")}
    BY DEF ClsInt2
  <2>2. \A x : In(G, x) \subseteq In(H, x)
    BY <1>2
  <2> HIDE DEF In
  <2> QED BY <2>1, <2>2, ListsGrow
<1>6. ClsUni(G) \subseteq ClsUni(H)
  <2> DEFINE In(K, x) == UNION {Typed(Instances(K, m), x[1]) : m \in Members(x[2])}
  <2>1. \A K : ClsUni(K) = UNION {In(K, x) : x \in ListsOf(K, "unionOf")}
    BY DEF ClsUni
  <2>2. \A x : In(G, x) \subseteq In(H, x)
    BY <1>2
  <2> HIDE DEF In
  <2> QED BY <2>1, <2>2, ListsGrow
<1>7. ClsOo(G) \subseteq ClsOo(H)
  <2>1. ListsOf(G, "oneOf") \subseteq ListsOf(H, "oneOf")
    BY ListsGrow
  <2> HIDE RelationsGrow
  <2> QED BY <2>1 DEF ClsOo
<1>8. ClsAvf(G) \subseteq ClsAvf(H)
  <2> DEFINE V(K, x) == {r[2] : r \in {q \in NodePairs(K, x[2]) : q[1] \in Instances(K, x[1])}}
             In(K, x) == Typed(V(K, x), x[3])
  <2>1. \A K : ClsAvf(K) = UNION {In(K, x) : x \in Restrictions(K, "allValuesFrom")}
    BY DEF ClsAvf
  <2>2. \A x : V(G, x) \subseteq V(H, x)
    <3>1. \A p, c : NodePairs(G, p) \subseteq NodePairs(H, p) /\ Instances(G, c) \subseteq Instances(H, c)
      OBVIOUS
    <3> HIDE RelationsGrow
    <3> QED BY <3>1
  <2> HIDE DEF V
  <2>3. \A x : In(G, x) \subseteq In(H, x)
    BY <2>2 DEF Typed
  <2> HIDE DEF In
  <2> QED BY <2>1, <2>3, RestrictionsGrow
<1>9. ClsSvf1(G) \subseteq ClsSvf1(H)
  <2> DEFINE V(K, x) == {r[1] : r \in {q \in Pairs(K, x[2]) : q[2] \in Instances(K, x[3])}}
             In(K, x) == Typed(V(K, x), x[1])
  <2>1. \A K : ClsSvf1(K) = UNION {In(K, x) : x \in Restrictions(K, "someValuesFrom")}
    BY DEF ClsSvf1
  <2>2. \A x : V(G, x) \subseteq V(H, x)
    <3>1. \A p, c : Pairs(G, p) \subseteq Pairs(H, p) /\ Instances(G, c) \subseteq Instances(H, c)
      OBVIOUS
    <3> HIDE RelationsGrow
    <3> QED BY <3>1
  <2> HIDE DEF V
  <2>3. \A x : In(G, x) \subseteq In(H, x)
    BY <2>2 DEF Typed
  <2> HIDE DEF In
  <2> QED BY <2>1, <2>3, RestrictionsGrow
<1>10. ClsSvf2(G) \subseteq ClsSvf2(H)
  <2> DEFINE V(K, x) == {r[1] : r \in Pairs(K, x[2])}
             In(K, x) == Typed(V(K, x), x[1])
             R(K) == {y \in Restrictions(K, "someValuesFrom") : y[3] = "Thing"}
  <2>1. \A K : ClsSvf2(K) = UNION {In(K, x) : x \in R(K)}
    BY DEF ClsSvf2
  <2>2. \A x : V(G, x) \subseteq V(H, x)
    OBVIOUS
  <2> HIDE DEF V
  <2>3. \A x : In(G, x) \subseteq In(H, x)
    BY <2>2 DEF Typed
  <2>4. R(G) \subseteq R(H)
    BY RestrictionsGrow
  <2> HIDE DEF In, R
  <2> QED BY <2>1, <2>3, <2>4
<1>11. ClsHv1(G) \subseteq ClsHv1(H)
  <2> DEFINE In(K, x) == {<<i, x[2], x[3]>> : i \in Instances(K, x[1])}
  <2>1. \A K : ClsHv1(K) = UNION {In(K, x) : x \in Restrictions(K, "hasValue")}
    BY DEF ClsHv1
  <2>2. \A x : In(G, x) \subseteq In(H, x)
    OBVIOUS
  <2> HIDE DEF In
  <2> QED BY <2>1, <2>2, RestrictionsGrow
<1>12. ClsHv2(G) \subseteq ClsHv2(H)
  <2> DEFINE V(K, x) == {r[1] : r \in {q \in Pairs(K, x[2]) : q[2] = x[3]}}
             In(K, x) == Typed(V(K, x), x[1])
  <2>1. \A K : ClsHv2(K) = UNION {In(K, x) : x \in Restrictions(K, "hasValue")}
    BY DEF ClsHv2
  <2>2. \A x : V(G, x) \subseteq V(H, x)
    OBVIOUS
  <2> HIDE DEF V
  <2>3. \A x : In(G, x) \subseteq In(H, x)
    BY <2>2 DEF Typed
  <2> HIDE DEF In
  <2> QED BY <2>1, <2>3, RestrictionsGrow
<1> HIDE RelationsGrow
<1> QED BY <1>1, <1>3, <1>4, <1>5, <1>6, <1>7, <1>8, <1>9, <1>10, <1>11, <1>12 DEF ClassRules

\* the equality and datatype rules,
LEMMA EqualityGrows ==
  ASSUME NEW G, NEW H, G \subseteq H
  PROVE  /\ EqSym(G) \subseteq EqSym(H) /\ EqTrans(G) \subseteq EqTrans(H)
         /\ DtType(G) \subseteq DtType(H)
         /\ EqRep(G) \subseteq EqRep(H) /\ EqRef(G) \subseteq EqRef(H)
<1>1. EqSym(G) \subseteq EqSym(H)
  <2>1. Pairs(G, "sameAs") \subseteq Pairs(H, "sameAs")
    BY RelationsGrow
  <2>2. Converse(Pairs(G, "sameAs")) \subseteq Converse(Pairs(H, "sameAs"))
    BY <2>1, JoinsGrow
  <2> QED BY <2>2, JoinsGrow DEF EqSym
<1>2. EqTrans(G) \subseteq EqTrans(H)
  BY TransitiveGrows DEF EqTrans
<1>3. DtType(G) \subseteq DtType(H)
  <2>1. {DatatypeOf[t[3]] : t \in {u \in G : ~Node(u[3])}}
          \subseteq {DatatypeOf[t[3]] : t \in {u \in H : ~Node(u[3])}}
    OBVIOUS
  <2> QED BY <2>1 DEF DtType, Typed
<1>4. EqRep(G) \subseteq EqRep(H)
  <2>1. Substitutes(G) \subseteq Substitutes(H)
    BY RelationsGrow
  <2>2. EqRepS(G) \subseteq EqRepS(H) /\ EqRepO(G) \subseteq EqRepO(H)
    BY <2>1 DEF EqRepS, EqRepO
  <2>3. {r \in Substitutes(G) : Iri(r[1]) /\ Iri(r[2])} \subseteq {r \in Substitutes(H) : Iri(r[1]) /\ Iri(r[2])}
    BY <2>1
  <2>4. EqRepP(G) \subseteq EqRepP(H)
    BY <2>3, JoinsGrow DEF EqRepP
  <2> QED BY <2>2, <2>4 DEF EqRep
<1>5. EqRef(G) \subseteq EqRef(H)
  BY DEF EqRef
<1> QED BY <1>1, <1>2, <1>3, <1>4, <1>5

\* all of them together.
LEMMA DeterminateGrows ==
  ASSUME NEW G, NEW H, G \subseteq H, IsFiniteSet(H), AllWellFormed(H), Unambiguous(H),
         NEW saturation, NEW reflexive
  PROVE  DeterminateRules(G, saturation, reflexive) \subseteq DeterminateRules(H, saturation, reflexive)
<1>1. /\ SchemaRules(G) \subseteq SchemaRules(H) /\ PropertyRules(G) \subseteq PropertyRules(H)
      /\ ClassRules(G) \subseteq ClassRules(H)
  BY SchemaGrows, PropertyGrows, ClassGrows
<1> QED BY <1>1, EqualityGrows DEF DeterminateRules

\* Extends(f, g): g agrees with f where f is defined.
Extends(f, g) == DOMAIN f \subseteq DOMAIN g /\ \A c \in DOMAIN f : g[c] = f[c]

\* A function inside a relation extends to one inside a larger relation.
LEMMA InsideExtends ==
  ASSUME NEW R, NEW S, R \subseteq S, \A r \in S : r = <<r[1], r[2]>>, NEW f \in LastInserted(R)
  PROVE  \E g \in LastInserted(S) : Extends(f, g)
<1> DEFINE D == {r[1] : r \in S}
           g == [c \in D |-> IF c \in DOMAIN f THEN f[c] ELSE CHOOSE v : <<c, v>> \in S]
<1>1. DOMAIN f = {r[1] : r \in R} /\ \A c \in DOMAIN f : <<c, f[c]>> \in R
  BY DEF LastInserted
<1>2. DOMAIN f \subseteq D
  BY <1>1
<1>3. \A c \in D : <<c, g[c]>> \in S
  <2> SUFFICES ASSUME NEW c \in D PROVE <<c, g[c]>> \in S
    OBVIOUS
  <2>1. CASE c \in DOMAIN f
    BY <1>1, <2>1
  <2>2. CASE c \notin DOMAIN f
    <3>1. \E v : <<c, v>> \in S
      OBVIOUS
    <3> QED BY <2>2, <3>1
  <2> QED BY <2>1, <2>2
<1>4. DOMAIN g = D /\ g = [c \in D |-> g[c]] /\ \A c \in DOMAIN f : g[c] = f[c]
  BY <1>2
<1> HIDE DEF g
<1>5. \A c \in D : g[c] \in {r[2] : r \in S}
  <2> SUFFICES ASSUME NEW c \in D PROVE g[c] \in {r[2] : r \in S}
    OBVIOUS
  <2>1. <<c, g[c]>> \in S /\ <<c, g[c]>>[2] = g[c]
    BY <1>3
  <2> QED BY <2>1
<1>6. g \in LastInserted(S)
  BY <1>3, <1>4, <1>5 DEF LastInserted
<1> QED BY <1>2, <1>4, <1>6 DEF Extends

\* The cardinality rules: what some hash map gives in the smaller graph, some
\* hash map gives in the larger one.
LEMMA CardinalityGrows ==
  ASSUME NEW G, NEW H, G \subseteq H
  PROVE  UNION CardinalityOutcomes(G) \subseteq UNION CardinalityOutcomes(H)
<1>1. OnProperties(G) \subseteq OnProperties(H) /\ OnClasses(G) \subseteq OnClasses(H)
  BY RelationsGrow DEF OnProperties, OnClasses
<1>2. /\ \A r \in OnProperties(H) : r = <<r[1], r[2]>>
      /\ \A r \in OnClasses(H) : r = <<r[1], r[2]>>
  BY DEF OnProperties, OnClasses, Pairs
<1>3. \A limit : AtMostOne(G, limit) \subseteq AtMostOne(H, limit)
  BY RelationsGrow DEF AtMostOne
<1>4. ASSUME NEW f, NEW g, Extends(f, g) PROVE ClsMaxC2(G, f) \subseteq ClsMaxC2(H, g)
  <2> DEFINE Same(K, on, x, c) == AllSame(Objects(K, x, on[c]))
             Found(K, on, c) == UNION {Same(K, on, x, c) : x \in Instances(K, c)}
             D(K, on) == AtMostOne(K, "maxCardinality") \cap DOMAIN on
  <2>1. \A K, on : ClsMaxC2(K, on) = UNION {Found(K, on, c) : c \in D(K, on)}
    BY DEF ClsMaxC2
  <2>2. \A c \in DOMAIN f : \A x : Same(G, f, x, c) \subseteq Same(H, g, x, c)
    <3>1. \A c \in DOMAIN f : \A x : Objects(G, x, f[c]) \subseteq Objects(H, x, g[c])
      BY <1>4, RelationsGrow DEF Extends
    <3> QED BY <3>1, JoinsGrow
  <2>3. \A c : Instances(G, c) \subseteq Instances(H, c)
    BY RelationsGrow
  <2> HIDE DEF Same
  <2>4. \A c \in DOMAIN f : Found(G, f, c) \subseteq Found(H, g, c)
    BY <2>2, <2>3
  <2> HIDE DEF Found
  <2>5. D(G, f) \subseteq D(H, g) /\ D(G, f) \subseteq DOMAIN f
    BY <1>3, <1>4 DEF Extends
  <2> HIDE DEF D
  <2> QED BY <2>1, <2>4, <2>5
<1>5. ASSUME NEW f, NEW g, Extends(f, g), NEW d, NEW e, Extends(d, e)
      PROVE  /\ ClsMaxQc3(G, f, d) \subseteq ClsMaxQc3(H, g, e)
             /\ ClsMaxQc4(G, f, d) \subseteq ClsMaxQc4(H, g, e)
  <2>1. \A x : \A c \in DOMAIN f : Objects(G, x, f[c]) \subseteq Objects(H, x, g[c])
    BY <1>5, RelationsGrow DEF Extends
  <2>2. \A c : Instances(G, c) \subseteq Instances(H, c)
    BY RelationsGrow
  <2>3. \A c \in DOMAIN d : e[c] = d[c]
    BY <1>5 DEF Extends
  <2>4. /\ Qualified(G, f, d) \subseteq Qualified(H, g, e)
        /\ Qualified(G, f, d) \subseteq DOMAIN f /\ Qualified(G, f, d) \subseteq DOMAIN d
    BY <1>3, <1>5 DEF Qualified, Extends
  <2>5. ClsMaxQc3(G, f, d) \subseteq ClsMaxQc3(H, g, e)
    <3> DEFINE Among(K, on, cls, x, c) == Objects(K, x, on[c]) \cap Instances(K, cls[c])
               Same(K, on, cls, x, c) == AllSame(Among(K, on, cls, x, c))
               Found(K, on, cls, c) == UNION {Same(K, on, cls, x, c) : x \in Instances(K, c)}
               D(K, on, cls) == {k \in Qualified(K, on, cls) : cls[k] # "Thing"}
    <3>1. \A K, on, cls : ClsMaxQc3(K, on, cls) = UNION {Found(K, on, cls, c) : c \in D(K, on, cls)}
      BY DEF ClsMaxQc3
    <3>2. \A c \in Qualified(G, f, d) : \A x : Among(G, f, d, x, c) \subseteq Among(H, g, e, x, c)
      BY <2>1, <2>2, <2>3, <2>4
    <3> HIDE DEF Among
    <3>3. \A c \in Qualified(G, f, d) : \A x : Same(G, f, d, x, c) \subseteq Same(H, g, e, x, c)
      BY <3>2, JoinsGrow
    <3> HIDE DEF Same
    <3>4. \A c \in Qualified(G, f, d) : Found(G, f, d, c) \subseteq Found(H, g, e, c)
      BY <2>2, <3>3
    <3> HIDE DEF Found
    <3>5. D(G, f, d) \subseteq D(H, g, e) /\ D(G, f, d) \subseteq Qualified(G, f, d)
      BY <2>3, <2>4
    <3> HIDE DEF D
    <3> QED BY <3>1, <3>4, <3>5
  <2>6. ClsMaxQc4(G, f, d) \subseteq ClsMaxQc4(H, g, e)
    <3> DEFINE Same(K, on, x, c) == AllSame(Objects(K, x, on[c]))
               Found(K, on, c) == UNION {Same(K, on, x, c) : x \in Instances(K, c)}
               D(K, on, cls) == {k \in Qualified(K, on, cls) : cls[k] = "Thing"}
    <3>1. \A K, on, cls : ClsMaxQc4(K, on, cls) = UNION {Found(K, on, c) : c \in D(K, on, cls)}
      BY DEF ClsMaxQc4
    <3>2. \A c \in DOMAIN f : \A x : Same(G, f, x, c) \subseteq Same(H, g, x, c)
      BY <2>1, JoinsGrow
    <3> HIDE DEF Same
    <3>3. \A c \in DOMAIN f : Found(G, f, c) \subseteq Found(H, g, c)
      BY <2>2, <3>2
    <3> HIDE DEF Found
    <3>4. D(G, f, d) \subseteq D(H, g, e) /\ D(G, f, d) \subseteq DOMAIN f
      BY <2>3, <2>4
    <3> HIDE DEF D
    <3> QED BY <3>1, <3>3, <3>4
  <2> QED BY <2>5, <2>6
<1> DEFINE P(K) == LastInserted(OnProperties(K))
           C(K) == LastInserted(OnClasses(K))
           Fillings(K) == P(K) \X P(K) \X P(K) \X C(K) \X C(K)
           Outcome(K, m) == ClsMaxC2(K, m[1]) \cup ClsMaxQc3(K, m[2], m[4]) \cup ClsMaxQc4(K, m[3], m[5])
<1>6. \A K : CardinalityOutcomes(K) = {Outcome(K, m) : m \in Fillings(K)}
  BY DEF CardinalityOutcomes
<1>7. /\ \A f \in P(G) : \E g \in P(H) : Extends(f, g)
      /\ \A f \in C(G) : \E g \in C(H) : Extends(f, g)
  BY <1>1, <1>2, InsideExtends
<1> HIDE DEF P, C
<1>8. \A m \in Fillings(G) : \E n \in Fillings(H) : Outcome(G, m) \subseteq Outcome(H, n)
  <2> SUFFICES ASSUME NEW m \in Fillings(G)
               PROVE  \E n \in Fillings(H) : Outcome(G, m) \subseteq Outcome(H, n)
    OBVIOUS
  <2>1. PICK a \in P(H), b \in P(H), c \in P(H) :
          Extends(m[1], a) /\ Extends(m[2], b) /\ Extends(m[3], c)
    BY <1>7
  <2>2. PICK d \in C(H), e \in C(H) : Extends(m[4], d) /\ Extends(m[5], e)
    BY <1>7
  <2> DEFINE n == <<a, b, c, d, e>>
  <2>3. n \in Fillings(H)
    OBVIOUS
  <2>4. Outcome(G, m) \subseteq Outcome(H, n)
    BY <1>4, <1>5, <2>1, <2>2
  <2> QED BY <2>3, <2>4
<1> HIDE DEF Fillings, Outcome
<1> QED BY <1>6, <1>8

\* Every conclusion the rules may draw from G, they may draw from a larger
\* graph in which no list has become ambiguous.
LEMMA RulesGrow ==
  ASSUME NEW G, NEW H, G \subseteq H, IsFiniteSet(H), AllWellFormed(H), Unambiguous(H),
         NEW saturation, NEW reflexive
  PROVE  DeterminateRules(G, saturation, reflexive) \cup UNION CardinalityOutcomes(G)
           \subseteq DeterminateRules(H, saturation, reflexive) \cup UNION CardinalityOutcomes(H)
<1>1. DeterminateRules(G, saturation, reflexive) \subseteq DeterminateRules(H, saturation, reflexive)
  BY DeterminateGrows
<1> QED BY <1>1, CardinalityGrows

\* A function inside a functional relation is determined by it.
LEMMA OneFunctionInside ==
  ASSUME NEW R, Functional(R),
         NEW f \in LastInserted(R), NEW g \in LastInserted(R)
  PROVE  f = g
<1>1. f \in [{r[1] : r \in R} -> {r[2] : r \in R}] /\ g \in [{r[1] : r \in R} -> {r[2] : r \in R}]
  BY DEF LastInserted
<1>2. \A c \in {r[1] : r \in R} : <<c, f[c]>> \in R /\ <<c, g[c]>> \in R
  BY DEF LastInserted
<1>3. \A c \in {r[1] : r \in R} : f[c] = g[c]
  BY <1>2 DEF Functional
<1> QED BY <1>1, <1>3
=============================================================================
