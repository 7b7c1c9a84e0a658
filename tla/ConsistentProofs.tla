-------------------------- MODULE ConsistentProofs --------------------------
(***************************************************************************)
(* Theorems about the consistency check, for every ontology, every cap and *)
(* every interleaving of loading and checking.                             *)
(***************************************************************************)
EXTENDS Consistent, SoundProofs

Terms == DOMAIN Rank

\* A witness: three terms that have a place in the order.
Witness(w) == w = <<w[1], w[2], w[3]>> /\ w[1] \in Terms /\ w[2] \in Terms /\ w[3] \in Terms
Witnesses(F) == \A w \in F : Witness(w)

RuleNames == {"prp-irp", "prp-asyp", "prp-pdw", "prp-adp", "prp-npa1", "prp-npa2", "cls-nothing2",
          "cls-com", "cls-maxc1", "cls-maxqc1", "cls-maxqc2", "cax-dw", "cax-adc", "eq-diff1",
          "eq-diff2", "eq-diff3", "dt-not-type"}

\* The detectors by name.
LEMMA NamesInOrder ==
  /\ Len(InconsistencyRules) = 17
  /\ DOMAIN InconsistencyRules = 1..17
  /\ Range(InconsistencyRules) = RuleNames
  /\ \A i \in 1..17 : InconsistencyRules[i] \in RuleNames
  /\ \A i, j \in 1..17 : InconsistencyRules[i] = InconsistencyRules[j] => i = j
<1>1. Len(InconsistencyRules) = 17 /\ DOMAIN InconsistencyRules = 1..17
  BY DEF InconsistencyRules
<1>2. Range(InconsistencyRules) = {InconsistencyRules[i] : i \in 1..17}
  BY <1>1 DEF Range
<1>3. 1..17 = {1, 2, 3, 4, 5, 6, 7, 8, 9, 10, 11, 12, 13, 14, 15, 16, 17}
  OBVIOUS
<1>4. {InconsistencyRules[i] : i \in 1..17} = RuleNames
  BY <1>3 DEF InconsistencyRules, RuleNames
<1>5. \A i, j \in 1..17 : InconsistencyRules[i] = InconsistencyRules[j] => i = j
  BY <1>3 DEF InconsistencyRules
<1> QED BY <1>1, <1>2, <1>4, <1>5

\* What each may find: one outcome,
LEMMA OneOutcome ==
  ASSUME NEW G
  PROVE  /\ Outcomes("prp-irp", G) = {PrpIrp(G)}
         /\ Outcomes("prp-asyp", G) = {PrpAsyp(G)}
         /\ Outcomes("prp-pdw", G) = {PrpPdw(G)}
         /\ Outcomes("prp-adp", G) = {PrpAdp(G)}
         /\ Outcomes("cls-nothing2", G) = {ClsNothing2(G)}
         /\ Outcomes("cls-com", G) = {ClsCom(G)}
         /\ Outcomes("cax-dw", G) = {CaxDw(G)}
         /\ Outcomes("cax-adc", G) = {CaxAdc(G)}
         /\ Outcomes("eq-diff1", G) = {EqDiff1(G)}
         /\ Outcomes("eq-diff2", G) = {AllDifferent(G, "members")}
         /\ Outcomes("eq-diff3", G) = {AllDifferent(G, "distinctMembers")}
         /\ Outcomes("dt-not-type", G) = {DtNotType(G)}
BY DEF Outcomes

\* or one for every function the hash maps may hold.
LEMMA AssertionOutcomes ==
  ASSUME NEW G
  PROVE  /\ Outcomes("prp-npa1", G) = PrpNpaOutcomes(G, FALSE, "targetIndividual")
         /\ Outcomes("prp-npa2", G) = PrpNpaOutcomes(G, TRUE, "targetValue")
BY DEF Outcomes

\* The same for the detectors of cardinality limits.
LEMMA LimitOutcomes ==
  ASSUME NEW G
  PROVE  /\ Outcomes("cls-maxc1", G) = {ClsMaxC1(G, on) : on \in LastInserted(OnProperties(G))}
         /\ Outcomes("cls-maxqc1", G) =
              {ClsMaxQc1(G, m[1], m[2]) : m \in LastInserted(OnProperties(G)) \X LastInserted(OnClasses(G))}
         /\ Outcomes("cls-maxqc2", G) =
              {ClsMaxQc2(G, m[1], m[2]) : m \in LastInserted(OnProperties(G)) \X LastInserted(OnClasses(G))}
<1>1. Outcomes("cls-maxc1", G) = {ClsMaxC1(G, on) : on \in LastInserted(OnProperties(G))}
  BY DEF Outcomes
<1>2. Outcomes("cls-maxqc1", G) =
         {ClsMaxQc1(G, m[1], m[2]) : m \in LastInserted(OnProperties(G)) \X LastInserted(OnClasses(G))}
  BY DEF Outcomes
<1>3. Outcomes("cls-maxqc2", G) =
         {ClsMaxQc2(G, m[1], m[2]) : m \in LastInserted(OnProperties(G)) \X LastInserted(OnClasses(G))}
  BY DEF Outcomes
<1> QED BY <1>1, <1>2, <1>3

-----------------------------------------------------------------------------
(* Witnesses are made of terms of the graph.                               *)

\* A nonempty set of ranked terms has a smallest one.
LEMMA SmallestIn ==
  ASSUME NEW S, S \subseteq Terms, S # {}
  PROVE  Smallest(S) \in S
<1> DEFINE N == {Rank[x] : x \in S}
<1>1. N \subseteq Nat /\ N # {}
  BY RankOrders DEF Terms
<1>2. PICK n \in N : \A m \in N : n <= m
  <2> HIDE DEF N
  <2> QED BY <1>1, LeastNumber
<1>3. \E x \in S : \A y \in S : Rank[x] <= Rank[y]
  BY <1>2
<1> QED BY <1>3 DEF Smallest

\* The two orders of a pair give the same pair of terms.
LEMMA SmallerLarger ==
  /\ \A x, y : Smaller(x, y) \in {x, y} /\ Larger(x, y) \in {x, y}
  /\ \A x, y \in Terms : Smaller(x, y) = Smaller(y, x) /\ Larger(x, y) = Larger(y, x)
BY RankOrders DEF Smaller, Larger, Terms

\* The lists of containers have members among the terms.
LEMMA ContainedOver ==
  ASSUME NEW G, IsFiniteSet(G), Over(Terms, G), NEW kind, NEW predicates,
         NEW l \in Contained(G, kind, predicates)
  PROVE  \A x \in PairsIn(l) : x = <<x[1], x[2]>> /\ x[1] \in Terms /\ x[2] \in Terms /\ x[1] # x[2]
<1>1. PICK t \in G : l \in Lists(G, t[3])
  BY DEF Contained
<1>2. Ends(G, t[3]) \subseteq Terms
  BY DEF Ends, Over, Proper
<1>3. l \in Seq(Terms)
  BY <1>1, <1>2, ListsAreSequences, SeqMonotonic
<1> QED BY <1>3 DEF PairsIn

\* Every detector finds witnesses only.
LEMMA DetectorsFindWitnesses ==
  ASSUME NEW G, IsFiniteSet(G), Over(Terms, G), NEW n \in RuleNames, NEW found \in Outcomes(n, G)
  PROVE  Witnesses(found)
<1> USE DEF Witnesses, Witness
<1>1. \A t \in G : Witness(t)
  BY DEF Over, Proper, WellFormed
<1>2. /\ \A p : \A r \in Pairs(G, p) : r[1] \in Terms /\ r[2] \in Terms
      /\ \A c : Instances(G, c) \subseteq Terms
      /\ \A s, p : Objects(G, s, p) \subseteq Terms
  BY PairsOver DEF RelOver, NodeOf
<1>3. "type" \in Terms /\ "sameAs" \in Terms /\ "Nothing" \in Terms
  BY RankOrders DEF Terms
<1>4. \A p, q \in Terms : Witnesses(Shared(G, p, q))
  BY <1>2, SmallerLarger DEF Shared
<1>5. \A c, d \in Terms : Witnesses(InBoth(G, c, d))
  BY <1>2, <1>3, SmallerLarger DEF InBoth, Typed
<1>6. \A x, y \in Terms : Witnesses(DifferentSame(G, x, y))
  BY <1>3, SmallerLarger DEF DifferentSame
<1>7. \A x, p \in Terms, S \in SUBSET Terms : Witnesses(Excess(x, p, S))
  BY SmallestIn DEF Excess
<1>8. /\ \A f \in LastInserted(OnProperties(G)) : \A c \in DOMAIN f : f[c] \in Terms
      /\ \A f \in LastInserted(OnClasses(G)) : \A c \in DOMAIN f : f[c] \in Terms
      /\ \A f \in LastInserted(AssertionProperties(G)) : \A c \in DOMAIN f : f[c] \in Terms
      /\ \A p : \A f \in LastInserted(Pairs(G, p)) : \A c \in DOMAIN f : f[c] \in Terms
  BY <1>2 DEF LastInserted, OnProperties, OnClasses, AssertionProperties
<1>9. Witnesses(PrpIrp(G)) /\ Witnesses(PrpAsyp(G)) /\ Witnesses(DtNotType(G))
  BY <1>1 DEF PrpIrp, PrpAsyp, DtNotType
<1>10. Witnesses(PrpPdw(G)) /\ Witnesses(PrpAdp(G))
  <2>1. Witnesses(PrpPdw(G))
    BY <1>2, <1>4 DEF PrpPdw, IriPairs
  <2>2. Witnesses(PrpAdp(G))
    BY <1>4, ContainedOver DEF PrpAdp
  <2> QED BY <2>1, <2>2
<1>11. \A literal, property, target : Witnesses(Contradicted(G, literal, property, target))
  BY <1>1 DEF Contradicted
<1>12. Witnesses(ClsNothing2(G))
  BY <1>2, <1>3 DEF ClsNothing2, Typed
<1>13. Witnesses(ClsCom(G)) /\ Witnesses(CaxDw(G)) /\ Witnesses(CaxAdc(G))
  <2>1. Witnesses(ClsCom(G)) /\ Witnesses(CaxDw(G))
    BY <1>2, <1>5 DEF ClsCom, CaxDw
  <2>2. Witnesses(CaxAdc(G))
    BY <1>5, ContainedOver DEF CaxAdc
  <2> QED BY <2>1, <2>2
<1>14. Witnesses(EqDiff1(G)) /\ \A p : Witnesses(AllDifferent(G, p))
  <2>1. Witnesses(EqDiff1(G))
    BY <1>2, <1>6 DEF EqDiff1
  <2>2. \A p : Witnesses(AllDifferent(G, p))
    BY <1>6, ContainedOver DEF AllDifferent
  <2> QED BY <2>1, <2>2
<1>15. \A on : (\A c \in DOMAIN on : on[c] \in Terms) => Witnesses(ClsMaxC1(G, on))
  <2> SUFFICES ASSUME NEW on, \A c \in DOMAIN on : on[c] \in Terms, NEW w \in ClsMaxC1(G, on)
               PROVE  Witness(w)
    OBVIOUS
  <2>1. PICK c, x : c \in DOMAIN on /\ x \in Instances(G, c) /\ w \in Excess(x, on[c], Objects(G, x, on[c]))
    BY DEF ClsMaxC1
  <2> QED BY <1>2, <1>7, <2>1
<1>16. \A on, cls : (\A c \in DOMAIN on : on[c] \in Terms) =>
                      Witnesses(ClsMaxQc1(G, on, cls)) /\ Witnesses(ClsMaxQc2(G, on, cls))
  <2> SUFFICES ASSUME NEW on, NEW cls, \A c \in DOMAIN on : on[c] \in Terms,
                      NEW w \in ClsMaxQc1(G, on, cls) \cup ClsMaxQc2(G, on, cls)
               PROVE  Witness(w)
    OBVIOUS
  <2>1. PICK c, x :
          /\ c \in DOMAIN on /\ x \in Instances(G, c)
          /\ \/ w \in Excess(x, on[c], Objects(G, x, on[c]))
             \/ w \in Excess(x, on[c], Objects(G, x, on[c]) \cap Instances(G, cls[c]))
    BY DEF ClsMaxQc1, ClsMaxQc2, NoneQualified
  <2>2. Objects(G, x, on[c]) \cap Instances(G, cls[c]) \in SUBSET Terms
    BY <1>2
  <2> QED BY <1>2, <1>7, <2>1, <2>2
<1>17. CASE n \in {"prp-irp", "prp-asyp", "prp-pdw", "prp-adp", "cls-nothing2", "cls-com", "cax-dw",
                   "cax-adc", "eq-diff1", "eq-diff2", "eq-diff3", "dt-not-type"}
  <2>1. found \in {PrpIrp(G), PrpAsyp(G), PrpPdw(G), PrpAdp(G), ClsNothing2(G), ClsCom(G), CaxDw(G),
                   CaxAdc(G), EqDiff1(G), AllDifferent(G, "members"), AllDifferent(G, "distinctMembers"),
                   DtNotType(G)}
    BY <1>17, OneOutcome
  <2> QED BY <1>9, <1>10, <1>12, <1>13, <1>14, <2>1
<1>18. CASE n \in {"prp-npa1", "prp-npa2"}
  <2>1. \/ found \in PrpNpaOutcomes(G, FALSE, "targetIndividual")
        \/ found \in PrpNpaOutcomes(G, TRUE, "targetValue")
    BY <1>18, AssertionOutcomes
  <2>2. \E literal, m : found = Contradicted(G, literal, m[1], m[2])
    BY <2>1 DEF PrpNpaOutcomes
  <2> QED BY <1>11, <2>2
<1>19. CASE n = "cls-maxc1"
  BY <1>8, <1>15, <1>19, LimitOutcomes
<1>20. CASE n = "cls-maxqc1" \/ n = "cls-maxqc2"
  <2>1. PICK m \in LastInserted(OnProperties(G)) \X LastInserted(OnClasses(G)) :
          found = ClsMaxQc1(G, m[1], m[2]) \/ found = ClsMaxQc2(G, m[1], m[2])
    BY <1>20, LimitOutcomes
  <2> QED BY <1>8, <1>16, <2>1
<1> QED BY <1>17, <1>18, <1>19, <1>20 DEF RuleNames

-----------------------------------------------------------------------------
(* What is found in a graph is found in a larger one.                      *)

\* For each witness of F, one of E for the same subject and predicate.
Covers(E, F) == \A w \in F : \E v \in E : v[1] = w[1] /\ v[2] = w[2]

\* The hash map filled from a larger relation agrees with the one before.
LEMMA MapsGrow ==
  ASSUME NEW R, NEW S, R \subseteq S, Functional(S), \A r \in S : r = <<r[1], r[2]>>,
         NEW f \in LastInserted(R), NEW g \in LastInserted(S)
  PROVE  Extends(f, g)
<1>1. DOMAIN f = {r[1] : r \in R} /\ \A c \in DOMAIN f : <<c, f[c]>> \in R
  BY DEF LastInserted
<1>2. DOMAIN g = {r[1] : r \in S} /\ \A c \in DOMAIN g : <<c, g[c]>> \in S
  BY DEF LastInserted
<1> QED BY <1>1, <1>2 DEF Functional, Extends

\* The same for the maps of the detectors.
LEMMA DetectorMapsGrow ==
  ASSUME NEW G, NEW H, G \subseteq H, Determined(H)
  PROVE  /\ \A f \in LastInserted(OnProperties(G)), g \in LastInserted(OnProperties(H)) : Extends(f, g)
         /\ \A f \in LastInserted(OnClasses(G)), g \in LastInserted(OnClasses(H)) : Extends(f, g)
         /\ \A f \in LastInserted(AssertionProperties(G)),
               g \in LastInserted(AssertionProperties(H)) : Extends(f, g)
         /\ \A p \in {"targetIndividual", "targetValue"} :
              \A f \in LastInserted(Pairs(G, p)), g \in LastInserted(Pairs(H, p)) : Extends(f, g)
<1>1. \A p : \A r \in Pairs(H, p) : r = <<r[1], r[2]>>
  BY DEF Pairs
<1>2. \A p : Pairs(G, p) \subseteq Pairs(H, p)
  BY RelationsGrow
<1>3. Functional(OnProperties(H)) /\ Functional(OnClasses(H)) /\ Functional(AssertionProperties(H))
      /\ \A p \in {"targetIndividual", "targetValue"} : Functional(Pairs(H, p))
  BY DEF Determined
<1>4. \A f \in LastInserted(OnProperties(G)), g \in LastInserted(OnProperties(H)) : Extends(f, g)
  <2>1. OnProperties(G) \subseteq OnProperties(H) /\ \A r \in OnProperties(H) : r = <<r[1], r[2]>>
    BY <1>1, <1>2 DEF OnProperties
  <2> QED BY <1>3, <2>1, MapsGrow
<1>5. \A f \in LastInserted(OnClasses(G)), g \in LastInserted(OnClasses(H)) : Extends(f, g)
  <2>1. OnClasses(G) \subseteq OnClasses(H) /\ \A r \in OnClasses(H) : r = <<r[1], r[2]>>
    BY <1>1, <1>2 DEF OnClasses
  <2> QED BY <1>3, <2>1, MapsGrow
<1>6. \A f \in LastInserted(AssertionProperties(G)), g \in LastInserted(AssertionProperties(H)) : Extends(f, g)
  <2>1. AssertionProperties(G) \subseteq AssertionProperties(H)
        /\ \A r \in AssertionProperties(H) : r = <<r[1], r[2]>>
    BY <1>1, <1>2 DEF AssertionProperties
  <2> QED BY <1>3, <2>1, MapsGrow
<1>7. \A p \in {"targetIndividual", "targetValue"} :
        \A f \in LastInserted(Pairs(G, p)), g \in LastInserted(Pairs(H, p)) : Extends(f, g)
  BY <1>1, <1>2, <1>3, MapsGrow
<1> QED BY <1>4, <1>5, <1>6, <1>7

\* Containers keep their lists.
LEMMA ContainedGrows ==
  ASSUME NEW G, NEW H, G \subseteq H, IsFiniteSet(H), AllWellFormed(H), Unambiguous(H),
         NEW kind, NEW predicates
  PROVE  Contained(G, kind, predicates) \subseteq Contained(H, kind, predicates)
<1>1. Instances(G, kind) \subseteq Instances(H, kind)
  BY RelationsGrow
<1>2. \A head : Lists(G, head) \subseteq Lists(H, head)
  BY ListsGrow
<1>3. ASSUME NEW l \in Contained(G, kind, predicates)
      PROVE  l \in Contained(H, kind, predicates)
  <2>1. PICK t \in G : t[1] \in Instances(G, kind) /\ t[2] \in predicates /\ Node(t[3])
                       /\ l \in Lists(G, t[3])
    BY <1>3 DEF Contained
  <2>2. t \in H /\ t[1] \in Instances(H, kind) /\ l \in Lists(H, t[3])
    BY <1>1, <1>2, <2>1
  <2> QED BY <2>1, <2>2 DEF Contained
<1> QED BY <1>3

\* Some witness for x and p remains: of more values another is the smallest.
LEMMA ExcessGrows ==
  ASSUME NEW x, NEW p, NEW S, NEW U, S \subseteq U
  PROVE  Covers(Excess(x, p, U), Excess(x, p, S))
<1>1. CASE S = {}
  BY <1>1 DEF Covers, Excess
<1>2. CASE S # {}
  <2>1. U # {}
    BY <1>2
  <2>2. Excess(x, p, S) = {<<x, p, Smallest(S)>>} /\ Excess(x, p, U) = {<<x, p, Smallest(U)>>}
    BY <1>2, <2>1 DEF Excess
  <2> QED BY <2>2 DEF Covers
<1> QED BY <1>1, <1>2

\* Every detector finds in a larger graph what it found.
LEMMA DetectorsGrow ==
  ASSUME NEW G, NEW H, G \subseteq H, IsFiniteSet(H), AllWellFormed(H), Determined(H),
         NEW n \in RuleNames, NEW F \in Outcomes(n, G), NEW E \in Outcomes(n, H)
  PROVE  Covers(E, F)
<1>1. /\ \A p : Pairs(G, p) \subseteq Pairs(H, p)
      /\ \A p : IriPairs(G, p) \subseteq IriPairs(H, p)
      /\ \A p : NodePairs(G, p) \subseteq NodePairs(H, p)
      /\ \A c : Instances(G, c) \subseteq Instances(H, c)
      /\ \A s, p : Objects(G, s, p) \subseteq Objects(H, s, p)
      /\ \A kind : Properties(G, kind) \subseteq Properties(H, kind)
  BY RelationsGrow
<1>2. \A D, C : D \subseteq C => Covers(C, D)
  BY DEF Covers
<1>3. \A kind, predicates : Contained(G, kind, predicates) \subseteq Contained(H, kind, predicates)
  BY ContainedGrows DEF Determined
<1>4. PrpIrp(G) \subseteq PrpIrp(H) /\ PrpAsyp(G) \subseteq PrpAsyp(H) /\ DtNotType(G) \subseteq DtNotType(H)
  BY <1>1 DEF PrpIrp, PrpAsyp, DtNotType
<1>5. \A p, q : Shared(G, p, q) \subseteq Shared(H, p, q)
  BY <1>1 DEF Shared
<1>6. \A c, d : InBoth(G, c, d) \subseteq InBoth(H, c, d)
  BY <1>1 DEF InBoth, Typed
<1>7. \A x, y : DifferentSame(G, x, y) \subseteq DifferentSame(H, x, y)
  BY DEF DifferentSame
<1>8. PrpPdw(G) \subseteq PrpPdw(H)
  BY <1>1, <1>5 DEF PrpPdw
<1>9. PrpAdp(G) \subseteq PrpAdp(H)
  <2> SUFFICES ASSUME NEW w \in PrpAdp(G) PROVE w \in PrpAdp(H)
    OBVIOUS
  <2>1. PICK l \in Contained(G, "AllDisjointProperties", {"members"}) :
          \E x \in PairsIn(l) : Iri(x[1]) /\ Iri(x[2]) /\ w \in Shared(G, x[1], x[2])
    BY DEF PrpAdp
  <2>2. PICK x \in PairsIn(l) : Iri(x[1]) /\ Iri(x[2]) /\ w \in Shared(G, x[1], x[2])
    BY <2>1
  <2>3. l \in Contained(H, "AllDisjointProperties", {"members"}) /\ w \in Shared(H, x[1], x[2])
    BY <1>3, <1>5, <2>2
  <2> QED BY <2>2, <2>3 DEF PrpAdp
<1>10. ClsNothing2(G) \subseteq ClsNothing2(H)
  BY <1>1 DEF ClsNothing2, Typed
<1>11. ClsCom(G) \subseteq ClsCom(H) /\ CaxDw(G) \subseteq CaxDw(H) /\ EqDiff1(G) \subseteq EqDiff1(H)
  BY <1>1, <1>6, <1>7 DEF ClsCom, CaxDw, EqDiff1
<1>12. CaxAdc(G) \subseteq CaxAdc(H)
  <2> SUFFICES ASSUME NEW w \in CaxAdc(G) PROVE w \in CaxAdc(H)
    OBVIOUS
  <2>1. PICK l \in Contained(G, "AllDisjointClasses", {"members", "distinctMembers"}) :
          \E x \in PairsIn(l) : w \in InBoth(G, x[1], x[2])
    BY DEF CaxAdc
  <2>2. PICK x \in PairsIn(l) : w \in InBoth(G, x[1], x[2])
    BY <2>1
  <2>3. l \in Contained(H, "AllDisjointClasses", {"members", "distinctMembers"})
        /\ w \in InBoth(H, x[1], x[2])
    BY <1>3, <1>6, <2>2
  <2> QED BY <2>2, <2>3 DEF CaxAdc
<1>13. \A p : AllDifferent(G, p) \subseteq AllDifferent(H, p)
  <2> DEFINE D(K, l) == UNION {DifferentSame(K, r[1], r[2]) : r \in PairsIn(l)}
  <2>0. \A K, p : AllDifferent(K, p) = UNION {D(K, l) : l \in Contained(K, "AllDifferent", {p})}
    BY DEF AllDifferent
  <2> SUFFICES ASSUME NEW p, NEW w \in AllDifferent(G, p) PROVE w \in AllDifferent(H, p)
    OBVIOUS
  <2>1. PICK l \in Contained(G, "AllDifferent", {p}) :
          \E x \in PairsIn(l) : w \in DifferentSame(G, x[1], x[2])
    <3>1. PICK l \in Contained(G, "AllDifferent", {p}) : w \in D(G, l)
      <4> HIDE DEF D
      <4> QED BY <2>0
    <3> QED BY <3>1
  <2>2. PICK x \in PairsIn(l) : w \in DifferentSame(G, x[1], x[2])
    BY <2>1
  <2>3. l \in Contained(H, "AllDifferent", {p}) /\ w \in DifferentSame(H, x[1], x[2])
    BY <1>3, <1>7, <2>2
  <2>4. w \in D(H, l)
    BY <2>2, <2>3
  <2> HIDE DEF D
  <2> QED BY <2>0, <2>3, <2>4
<1>14. CASE n \in {"prp-irp", "prp-asyp", "prp-pdw", "prp-adp", "cls-nothing2", "cls-com", "cax-dw",
                   "cax-adc", "eq-diff1", "eq-diff2", "eq-diff3", "dt-not-type"}
  <2>1. F \subseteq E
    BY <1>4, <1>8, <1>9, <1>10, <1>11, <1>12, <1>13, <1>14, OneOutcome
  <2> QED BY <1>2, <2>1
<1>15. CASE n \in {"prp-npa1", "prp-npa2"}
  <2>1. PICK literal \in BOOLEAN, targets \in {"targetIndividual", "targetValue"} :
          F \in PrpNpaOutcomes(G, literal, targets) /\ E \in PrpNpaOutcomes(H, literal, targets)
    BY <1>15, AssertionOutcomes
  <2>2. PICK f \in LastInserted(AssertionProperties(G)), g \in LastInserted(Pairs(G, targets)) :
          F = Contradicted(G, literal, f, g)
    BY <2>1 DEF PrpNpaOutcomes
  <2>3. PICK f2 \in LastInserted(AssertionProperties(H)), g2 \in LastInserted(Pairs(H, targets)) :
          E = Contradicted(H, literal, f2, g2)
    BY <2>1 DEF PrpNpaOutcomes
  <2>4. Extends(f, f2) /\ Extends(g, g2)
    BY DetectorMapsGrow
  <2>5. F \subseteq E
    BY <1>1, <2>2, <2>3, <2>4 DEF Contradicted, Extends
  <2> QED BY <1>2, <2>5
<1>16. \A limit : None(G, limit) \subseteq None(H, limit)
  BY <1>1 DEF None
<1>17. CASE n = "cls-maxc1"
  <2>1. PICK on \in LastInserted(OnProperties(G)) : F = ClsMaxC1(G, on)
    BY <1>17, LimitOutcomes
  <2>2. PICK on2 \in LastInserted(OnProperties(H)) : E = ClsMaxC1(H, on2)
    BY <1>17, LimitOutcomes
  <2>3. Extends(on, on2)
    BY DetectorMapsGrow
  <2>4. SUFFICES ASSUME NEW w \in F PROVE \E v \in E : v[1] = w[1] /\ v[2] = w[2]
    BY DEF Covers
  <2>5. PICK c, x : /\ c \in None(G, "maxCardinality") \cap DOMAIN on
                    /\ x \in Instances(G, c)
                    /\ w \in Excess(x, on[c], Objects(G, x, on[c]))
    BY <2>1, <2>4 DEF ClsMaxC1
  <2>6. /\ c \in None(H, "maxCardinality") \cap DOMAIN on2
        /\ x \in Instances(H, c) /\ on2[c] = on[c]
    BY <1>1, <1>16, <2>3, <2>5 DEF Extends
  <2>7. PICK v \in Excess(x, on2[c], Objects(H, x, on2[c])) : v[1] = w[1] /\ v[2] = w[2]
    BY <1>1, <2>5, <2>6, ExcessGrows DEF Covers
  <2>8. v \in E
    BY <2>2, <2>6, <2>7 DEF ClsMaxC1
  <2> QED BY <2>7, <2>8
<1>18. CASE n = "cls-maxqc1" \/ n = "cls-maxqc2"
  <2> DEFINE P == LastInserted(OnProperties(G)) \X LastInserted(OnClasses(G))
             Q == LastInserted(OnProperties(H)) \X LastInserted(OnClasses(H))
             ValuesOf(K, m, x, c) == IF n = "cls-maxqc1"
                                       THEN Objects(K, x, m[1][c]) \cap Instances(K, m[2][c])
                                       ELSE Objects(K, x, m[1][c])
             At(K, m) == {c \in None(K, "maxQualifiedCardinality") \cap DOMAIN m[1] \cap DOMAIN m[2] :
                            (m[2][c] = "Thing") <=> (n # "cls-maxqc1")}
             InFound(K, m, w) == \E c \in At(K, m) : \E x \in Instances(K, c) :
                                   w \in Excess(x, m[1][c], ValuesOf(K, m, x, c))
  <2>1. \A K, m : n = "cls-maxqc1" => At(K, m) = NoneQualified(K, m[1], m[2], FALSE)
    BY DEF NoneQualified
  <2>2. \A K, m : n = "cls-maxqc2" => At(K, m) = NoneQualified(K, m[1], m[2], TRUE)
    BY DEF NoneQualified
  <2>3. ASSUME n = "cls-maxqc1", NEW K, NEW m, NEW w
        PROVE  w \in ClsMaxQc1(K, m[1], m[2]) <=> InFound(K, m, w)
    <3>1. At(K, m) = NoneQualified(K, m[1], m[2], FALSE)
      BY <2>1, <2>3
    <3>2. \A x, c : ValuesOf(K, m, x, c) = Objects(K, x, m[1][c]) \cap Instances(K, m[2][c])
      BY <2>3
    <3> DEFINE At1(c) == UNION {Excess(x, m[1][c], Objects(K, x, m[1][c]) \cap Instances(K, m[2][c])) : x \in Instances(K, c)}
    <3>3. ClsMaxQc1(K, m[1], m[2]) = UNION {At1(c) : c \in NoneQualified(K, m[1], m[2], FALSE)}
      BY DEF ClsMaxQc1
    <3>4. \A c : w \in At1(c) <=> \E x \in Instances(K, c) : w \in Excess(x, m[1][c], ValuesOf(K, m, x, c))
      BY <3>2
    <3> HIDE DEF At, ValuesOf, At1
    <3>5. w \in UNION {At1(c) : c \in NoneQualified(K, m[1], m[2], FALSE)}
            <=> \E c \in NoneQualified(K, m[1], m[2], FALSE) : w \in At1(c)
      OBVIOUS
    <3>6. (\E c \in At(K, m) : w \in At1(c)) <=> InFound(K, m, w)
      BY <3>4
    <3> QED BY <3>1, <3>3, <3>5, <3>6
  <2>4. ASSUME n = "cls-maxqc2", NEW K, NEW m, NEW w
        PROVE  w \in ClsMaxQc2(K, m[1], m[2]) <=> InFound(K, m, w)
    <3>1. At(K, m) = NoneQualified(K, m[1], m[2], TRUE)
      BY <2>2, <2>4
    <3>2. \A x, c : ValuesOf(K, m, x, c) = Objects(K, x, m[1][c])
      BY <2>4
    <3> DEFINE At1(c) == UNION {Excess(x, m[1][c], Objects(K, x, m[1][c])) : x \in Instances(K, c)}
    <3>3. ClsMaxQc2(K, m[1], m[2]) = UNION {At1(c) : c \in NoneQualified(K, m[1], m[2], TRUE)}
      BY DEF ClsMaxQc2
    <3>4. \A c : w \in At1(c) <=> \E x \in Instances(K, c) : w \in Excess(x, m[1][c], ValuesOf(K, m, x, c))
      BY <3>2
    <3> HIDE DEF At, ValuesOf, At1
    <3>5. w \in UNION {At1(c) : c \in NoneQualified(K, m[1], m[2], TRUE)}
            <=> \E c \in NoneQualified(K, m[1], m[2], TRUE) : w \in At1(c)
      OBVIOUS
    <3>6. (\E c \in At(K, m) : w \in At1(c)) <=> InFound(K, m, w)
      BY <3>4
    <3> QED BY <3>1, <3>3, <3>5, <3>6
  <2>5. \E m \in P : \A w : w \in F <=> InFound(G, m, w)
    <3> HIDE DEF InFound
    <3>1. CASE n = "cls-maxqc1"
      BY <2>3, <3>1, LimitOutcomes
    <3>2. CASE n = "cls-maxqc2"
      BY <2>4, <3>2, LimitOutcomes
    <3> QED BY <1>18, <3>1, <3>2
  <2>6. \E m \in Q : \A w : w \in E <=> InFound(H, m, w)
    <3> HIDE DEF InFound
    <3>1. CASE n = "cls-maxqc1"
      BY <2>3, <3>1, LimitOutcomes
    <3>2. CASE n = "cls-maxqc2"
      BY <2>4, <3>2, LimitOutcomes
    <3> QED BY <1>18, <3>1, <3>2
  <2>7. PICK m \in P : \A w : w \in F <=> InFound(G, m, w)
    BY <2>5
  <2>8. PICK k \in Q : \A w : w \in E <=> InFound(H, k, w)
    BY <2>6
  <2>9. Extends(m[1], k[1]) /\ Extends(m[2], k[2])
    BY DetectorMapsGrow
  <2>10. At(G, m) \subseteq At(H, k) /\ \A c \in At(G, m) : k[1][c] = m[1][c] /\ k[2][c] = m[2][c]
    BY <1>16, <2>9 DEF Extends
  <2>11. \A c \in At(G, m) : \A x : ValuesOf(G, m, x, c) \subseteq ValuesOf(H, k, x, c)
    BY <1>1, <2>10
  <2> HIDE DEF ValuesOf, At, P, Q
  <2>12. SUFFICES ASSUME NEW w \in F PROVE \E v \in E : v[1] = w[1] /\ v[2] = w[2]
    BY DEF Covers
  <2>13. PICK c \in At(G, m) : \E x \in Instances(G, c) : w \in Excess(x, m[1][c], ValuesOf(G, m, x, c))
    BY <2>7, <2>12
  <2>14. PICK x \in Instances(G, c) : w \in Excess(x, m[1][c], ValuesOf(G, m, x, c))
    BY <2>13
  <2>15. c \in At(H, k) /\ x \in Instances(H, c) /\ k[1][c] = m[1][c]
    BY <1>1, <2>10
  <2>16. PICK v \in Excess(x, k[1][c], ValuesOf(H, k, x, c)) : v[1] = w[1] /\ v[2] = w[2]
    BY <2>11, <2>14, <2>15, ExcessGrows DEF Covers
  <2>17. v \in E
    BY <2>8, <2>15, <2>16
  <2> QED BY <2>16, <2>17
<1> QED BY <1>14, <1>15, <1>17, <1>18 DEF RuleNames

-----------------------------------------------------------------------------
(* What can be found at all.                                               *)

AllRecords == {<<x[1][1], x[1][2], x[2][1], x[2][2]>> : x \in (RuleNames \X Terms) \X (Terms \X Terms)}

\* The records over the terms are finitely many.
LEMMA RecordsFinite == IsFiniteSet(AllRecords)
<1>1. IsFiniteSet(RuleNames)
  <2>1. [i \in 1..17 |-> InconsistencyRules[i]] \in Surjection(1..17, RuleNames)
    <3>1. RuleNames = {InconsistencyRules[i] : i \in 1..17}
      BY NamesInOrder DEF Range
    <3> QED BY <3>1 DEF Surjection
  <2>2. IsFiniteSet(1..17)
    <3>1. \A a, b \in Int : IsFiniteSet(a..b)
      BY FS_Interval
    <3>2. 1 \in Int /\ 17 \in Int
      OBVIOUS
    <3> QED BY <3>1, <3>2, Zenon
  <2> QED BY <2>1, <2>2, FS_Surjection
<1>2. IsFiniteSet((RuleNames \X Terms) \X (Terms \X Terms))
  BY <1>1, RankOrders, FS_Product DEF Terms
<1> DEFINE S == (RuleNames \X Terms) \X (Terms \X Terms)
<1>3. [x \in S |-> <<x[1][1], x[1][2], x[2][1], x[2][2]>>] \in Surjection(S, AllRecords)
  BY DEF Surjection, AllRecords
<1> QED BY <1>2, <1>3, FS_Surjection

\* The records of witnesses, one each.
LEMMA RecordsOf ==
  ASSUME NEW n \in RuleNames, NEW F, Witnesses(F)
  PROVE  /\ Records(n, F) \subseteq AllRecords
         /\ IsFiniteSet(F) /\ IsFiniteSet(Records(n, F))
         /\ Cardinality(Records(n, F)) = Cardinality(F)
         /\ \A r \in Records(n, F) : r[1] = n
<1> DEFINE rec == [w \in F |-> <<n, w[1], w[2], w[3]>>]
<1>1. Records(n, F) \subseteq AllRecords
  <2> SUFFICES ASSUME NEW w \in F PROVE <<n, w[1], w[2], w[3]>> \in AllRecords
    BY DEF Records
  <2> DEFINE x == << <<n, w[1]>>, <<w[2], w[3]>> >>
  <2>1. x \in (RuleNames \X Terms) \X (Terms \X Terms)
    BY DEF Witnesses, Witness
  <2>2. <<n, w[1], w[2], w[3]>> = <<x[1][1], x[1][2], x[2][1], x[2][2]>>
    OBVIOUS
  <2> HIDE DEF x
  <2> QED BY <2>1, <2>2 DEF AllRecords
<1>2. IsFiniteSet(Records(n, F))
  BY <1>1, RecordsFinite, FS_Subset
<1>3. rec \in Bijection(F, Records(n, F))
  <2>1. \A w, v \in F : rec[w] = rec[v] => w = v
    <3> SUFFICES ASSUME NEW w \in F, NEW v \in F, rec[w] = rec[v] PROVE w = v
      OBVIOUS
    <3>1. w[1] = v[1] /\ w[2] = v[2] /\ w[3] = v[3]
      OBVIOUS
    <3> QED BY <3>1 DEF Witnesses, Witness
  <2>2. rec \in [F -> Records(n, F)] /\ \A r \in Records(n, F) : \E w \in F : rec[w] = r
    BY DEF Records
  <2> HIDE DEF rec
  <2> QED BY <2>1, <2>2 DEF Bijection, Injection, Surjection, IsInjective
<1>4. IsFiniteSet(F) /\ Cardinality(F) = Cardinality(Records(n, F))
  <2>1. rec \in Injection(F, Records(n, F)) /\ rec \in Surjection(F, Records(n, F))
    BY <1>3 DEF Bijection
  <2> HIDE DEF rec
  <2> QED BY <1>2, <2>1, FS_Injection
<1>5. \A r \in Records(n, F) : r[1] = n
  BY DEF Records
<1> QED BY <1>1, <1>2, <1>4, <1>5

\* What is loaded are graphs over the ranked terms.
LEMMA LoadedGraphs ==
  ASSUME workload \in Workloads, NEW G, G \subseteq UNION workload.axioms
  PROVE  IsFiniteSet(G) /\ Over(Terms, G) /\ AllWellFormed(G)
<1>1. IsFiniteSet(G)
  BY WorkloadsTyped, FS_Subset
<1>2. \A t \in G : WellFormed(t) /\ t[1] \in Terms /\ t[2] \in Terms /\ t[3] \in Terms
  BY WorkloadsTyped DEF Terms
<1> QED BY <1>1, <1>2 DEF Over, Proper, AllWellFormed

\* What is found in them are records over the ranked terms.
LEMMA FindableRecords ==
  ASSUME workload \in Workloads, NEW G, G \subseteq UNION workload.axioms
  PROVE  /\ Findable(G) \subseteq AllRecords
         /\ \A n \in RuleNames : \A found \in Outcomes(n, G) :
              Witnesses(found) /\ Records(n, found) \subseteq Findable(G)
<1>1. \A n \in RuleNames : \A found \in Outcomes(n, G) : Witnesses(found)
  BY LoadedGraphs, DetectorsFindWitnesses
<1>2. Range(InconsistencyRules) = RuleNames
  BY NamesInOrder
<1>3. \A n \in RuleNames : \A found \in Outcomes(n, G) : Records(n, found) \subseteq Findable(G)
  <2> SUFFICES ASSUME NEW n \in RuleNames, NEW found \in Outcomes(n, G), NEW w \in found
               PROVE  <<n, w[1], w[2], w[3]>> \in Findable(G)
    BY DEF Records
  <2>1. w \in UNION Outcomes(n, G)
    OBVIOUS
  <2>2. <<n, w[1], w[2], w[3]>> \in Records(n, UNION Outcomes(n, G))
    BY <2>1 DEF Records
  <2> QED BY <1>2, <2>2 DEF Findable
<1>4. Findable(G) \subseteq AllRecords
  <2> SUFFICES ASSUME NEW r \in Findable(G) PROVE r \in AllRecords
    OBVIOUS
  <2>1. PICK n \in RuleNames : r \in Records(n, UNION Outcomes(n, G))
    BY <1>2 DEF Findable
  <2>2. Witnesses(UNION Outcomes(n, G))
    BY <1>1 DEF Witnesses
  <2> QED BY <2>1, <2>2, RecordsOf
<1> QED BY <1>1, <1>3, <1>4

-----------------------------------------------------------------------------
(* Types.                                                                  *)

\* The graph is made of whole axioms.
Loaded == graph = UNION {a \in workload.axioms : a \subseteq graph}

\* A detector adds records of its own.
LEMMA DetectFinds ==
  ASSUME TypeOK, Detect
  PROVE  \E found \in Outcomes(InconsistencyRules[rule], graph) :
           LET new == Records(InconsistencyRules[rule], found)
           IN  /\ rule \in 1..17 /\ InconsistencyRules[rule] \in RuleNames
               /\ Witnesses(found)
               /\ Cardinality(all) < cap
               /\ Cardinality(new) <= cap - Cardinality(all)
               /\ all' = all \cup new
               /\ rule' = IF rule = 17 THEN 0 ELSE rule + 1
               /\ outcome' = IF rule = 17 THEN "ok" ELSE outcome
               /\ UNCHANGED <<workload, graph, cap, seen>>
<1>1. rule \in 1..17 /\ InconsistencyRules[rule] \in RuleNames /\ Len(InconsistencyRules) = 17
  BY NamesInOrder DEF TypeOK, Detect
<1>2. PICK found \in Outcomes(InconsistencyRules[rule], graph) :
        /\ Cardinality(Records(InconsistencyRules[rule], found)) <= cap - Cardinality(all)
        /\ all' = all \cup Records(InconsistencyRules[rule], found)
        /\ rule' = IF rule = 17 THEN 0 ELSE rule + 1
        /\ outcome' = IF rule = 17 THEN "ok" ELSE outcome
  BY <1>1 DEF Detect
<1>3. Witnesses(found)
  BY <1>1, FindableRecords DEF TypeOK
<1> QED BY <1>1, <1>2, <1>3 DEF Detect

\* Types and the wholeness of axioms hold before anything is loaded,
LEMMA InitTypes == Init => TypeOK /\ Loaded
<1> SUFFICES ASSUME Init PROVE TypeOK /\ Loaded
  OBVIOUS
<1>1. 0 \in 0..Len(InconsistencyRules)
  BY NamesInOrder
<1> QED BY <1>1 DEF Init, TypeOK, Loaded

\* and every step keeps them.
LEMMA StepTypes == TypeOK /\ Loaded /\ [Next]_vars => TypeOK' /\ Loaded'
<1> SUFFICES ASSUME TypeOK, Loaded, [Next]_vars PROVE TypeOK' /\ Loaded'
  OBVIOUS
<1>0. Len(InconsistencyRules) = 17
  BY NamesInOrder
<1>1. ASSUME NEW axiom \in workload.axioms, Load(axiom) PROVE TypeOK' /\ Loaded'
  <2>1. graph' \in SUBSET UNION workload'.axioms /\ seen' \in SUBSET graph'
    BY <1>1 DEF Load, TypeOK
  <2>2. graph' = UNION {a \in workload'.axioms : a \subseteq graph'}
    <3>1. \A t \in graph' : \E a \in workload.axioms : t \in a /\ a \subseteq graph'
      BY <1>1 DEF Load, Loaded
    <3> QED BY <1>1, <3>1 DEF Load
  <2> QED BY <1>1, <2>1, <2>2 DEF Load, TypeOK, Loaded
<1>2. ASSUME NEW c \in Caps, Begin(c) PROVE TypeOK' /\ Loaded'
  BY <1>0, <1>2 DEF Begin, TypeOK, Loaded
<1>3. CASE Detect
  <2>1. PICK found \in Outcomes(InconsistencyRules[rule], graph) :
          /\ rule \in 1..17 /\ InconsistencyRules[rule] \in RuleNames
          /\ Witnesses(found)
          /\ all' = all \cup Records(InconsistencyRules[rule], found)
          /\ rule' = IF rule = 17 THEN 0 ELSE rule + 1
          /\ outcome' = IF rule = 17 THEN "ok" ELSE outcome
          /\ UNCHANGED <<workload, graph, cap, seen>>
    BY <1>3, DetectFinds
  <2>2. \A r \in Records(InconsistencyRules[rule], found) :
          r[1] \in Range(InconsistencyRules) /\ {r[2], r[3], r[4]} \subseteq DOMAIN Rank
    BY <2>1, NamesInOrder DEF Records, Witnesses, Witness, Terms
  <2>3. rule' \in 0..17 /\ outcome' \in {"none", "ok", "error"}
    <3>1. outcome \in {"none", "ok", "error"}
      BY DEF TypeOK
    <3>2. /\ rule \in 1..17
          /\ rule' = IF rule = 17 THEN 0 ELSE rule + 1
          /\ outcome' = IF rule = 17 THEN "ok" ELSE outcome
      BY <2>1
    <3> QED BY <3>1, <3>2
  <2> QED BY <1>0, <2>1, <2>2, <2>3 DEF TypeOK, Loaded
<1>4. CASE Exceeded
  BY <1>0, <1>4 DEF Exceeded, TypeOK, Loaded
<1>5. CASE UNCHANGED vars
  BY <1>5 DEF vars, TypeOK, Loaded
<1> QED BY <1>1, <1>2, <1>3, <1>4, <1>5 DEF Next

\* A report is made of terms of the graph, and detectors run in table order.
THEOREM TypeCorrect == Spec => []TypeOK
<1>1. Init => TypeOK /\ Loaded
  BY InitTypes
<1>2. TypeOK /\ Loaded /\ [Next]_vars => (TypeOK /\ Loaded)'
  BY StepTypes
<1> QED BY <1>1, <1>2, PTL DEF Spec

-----------------------------------------------------------------------------
(* The cap.                                                                *)

\* Everything there was to find while the call ran.
FoundSoFar == UNION {Findable(G) : G \in Passed}

\* What detector j finds in the graph the call began with is in the result,
\* up to its object.
Covered(j) ==
  \A found \in Outcomes(InconsistencyRules[j], seen) : \A w \in found :
    \E r \in all : r[1] = InconsistencyRules[j] /\ r[2] = w[1] /\ r[3] = w[2]

\* The records are those of the detectors run so far, and no others.
Progress ==
  /\ all \subseteq FoundSoFar
  /\ Cardinality(all) <= cap
  /\ rule # 0 => outcome = "none"
  /\ rule # 0 => \A r \in all : \E j \in 1..17 : j < rule /\ r[1] = InconsistencyRules[j]
  /\ Determined(graph) => \A j \in 1..17 : (outcome = "ok" \/ j < rule) => Covered(j)
  /\ outcome = "error" => Cardinality(FoundSoFar) >= cap

IInv == TypeOK /\ Loaded /\ Progress

\* A larger graph that leaves the hash maps no choice is made of smaller ones
\* that leave them none.
LEMMA DeterminedShrinks ==
  ASSUME NEW G, NEW H, G \subseteq H, Determined(H)
  PROVE  Determined(G)
<1>1. \A p : Pairs(G, p) \subseteq Pairs(H, p)
  BY RelationsGrow
<1>2. Unambiguous(G)
  BY DEF Determined, Unambiguous
<1>3. \A Q, R : Q \subseteq R /\ Functional(R) => Functional(Q)
  BY DEF Functional
<1>4. /\ OnProperties(G) \subseteq OnProperties(H)
      /\ OnClasses(G) \subseteq OnClasses(H)
      /\ AssertionProperties(G) \subseteq AssertionProperties(H)
  BY <1>1 DEF OnProperties, OnClasses, AssertionProperties
<1>5. /\ Functional(OnProperties(G)) /\ Functional(OnClasses(G))
      /\ Functional(AssertionProperties(G))
      /\ Functional(Pairs(G, "targetIndividual")) /\ Functional(Pairs(G, "targetValue"))
  BY <1>1, <1>3, <1>4 DEF Determined
<1> QED BY <1>2, <1>5 DEF Determined

\* The graph is one of those the store has held, and what was found is made
\* of finitely many records.
LEMMA GraphPassed ==
  ASSUME TypeOK, Loaded
  PROVE  graph \in Passed /\ FoundSoFar \subseteq AllRecords
<1>1. graph \in Passed
  <2> DEFINE A == {a \in workload.axioms : a \subseteq graph}
  <2>1. graph = seen \cup UNION A /\ A \in SUBSET workload.axioms
    BY DEF TypeOK, Loaded
  <2> HIDE DEF A
  <2>2. graph \in {seen \cup UNION B : B \in SUBSET workload.axioms}
    BY <2>1
  <2> QED BY <2>2 DEF Passed
<1>2. \A G \in Passed : G \subseteq UNION workload.axioms
  BY DEF Passed, TypeOK
<1>3. FoundSoFar \subseteq AllRecords
  BY <1>2, FindableRecords DEF FoundSoFar, TypeOK
<1> QED BY <1>1, <1>3

\* Of sets of records the larger has no fewer.
LEMMA FewerRecords ==
  ASSUME NEW E, NEW F, E \subseteq F, F \subseteq AllRecords
  PROVE  /\ IsFiniteSet(E) /\ Cardinality(E) \in Nat /\ Cardinality(F) \in Nat
         /\ Cardinality(E) <= Cardinality(F)
<1>1. IsFiniteSet(F)
  BY RecordsFinite, FS_Subset
<1>2. IsFiniteSet(E) /\ Cardinality(E) <= Cardinality(F)
  BY <1>1, FS_Subset
<1> QED BY <1>1, <1>2, FS_CardinalityType

\* Loading takes no progress away.
LEMMA LoadProgress ==
  ASSUME IInv, NEW axiom \in workload.axioms, Load(axiom)
  PROVE  Progress'
<1>1. graph \subseteq graph' /\ UNCHANGED <<workload, rule, cap, all, outcome, seen>>
  BY DEF Load
<1>2. TypeOK' /\ Loaded'
  BY StepTypes DEF IInv, Next
<1>3. FoundSoFar \subseteq FoundSoFar'
  <2>1. Passed \subseteq Passed'
    BY <1>1 DEF Passed
  <2> QED BY <2>1 DEF FoundSoFar
<1>4. FoundSoFar' \subseteq AllRecords
  <2>1. \A G \in Passed' : G \subseteq UNION workload.axioms
    BY <1>1, <1>2 DEF Passed, TypeOK
  <2> QED BY <2>1, FindableRecords DEF FoundSoFar, IInv, TypeOK
<1>5. Cardinality(FoundSoFar) \in Nat /\ Cardinality(FoundSoFar') \in Nat
      /\ Cardinality(FoundSoFar) <= Cardinality(FoundSoFar')
  BY <1>3, <1>4, FewerRecords
<1>6. Determined(graph') => Determined(graph)
  BY <1>1, DeterminedShrinks
<1>7. \A j \in 1..17 : Covered(j) => Covered(j)'
  BY <1>1 DEF Covered
<1>8. cap \in Nat
  BY CapsNat DEF IInv, TypeOK
<1> QED BY <1>1, <1>3, <1>5, <1>6, <1>7, <1>8 DEF IInv, Progress

\* Neither does a call's beginning: nothing is found yet.
LEMMA BeginProgress ==
  ASSUME IInv, NEW c \in Caps, Begin(c)
  PROVE  Progress'
<1>1. all' = {} /\ Cardinality(all') = 0 /\ cap' \in Nat
  BY CapsNat, FS_EmptySet DEF Begin
<1>2. outcome' = "none" /\ rule' = 1
  BY DEF Begin
<1>3. \A j \in 1..17 : ~(outcome' = "ok" \/ j < rule')
  BY <1>2
<1> QED BY <1>1, <1>2, <1>3 DEF Progress

\* What a detector finds is new, and all that it could find.
LEMMA DetectorProgress ==
  ASSUME IInv, rule \in 1..17,
         NEW found \in Outcomes(InconsistencyRules[rule], graph)
  PROVE  LET new == Records(InconsistencyRules[rule], found)
         IN  /\ all \cup new \subseteq FoundSoFar
             /\ IsFiniteSet(all \cup new)
             /\ Cardinality(all \cup new) = Cardinality(all) + Cardinality(new)
             /\ Cardinality(new) = Cardinality(found)
             /\ Cardinality(all) \in Nat /\ Cardinality(new) \in Nat
             /\ Cardinality(FoundSoFar) \in Nat
             /\ Cardinality(all \cup new) <= Cardinality(FoundSoFar)
<1> DEFINE name == InconsistencyRules[rule]
           new == Records(name, found)
<1>1. name \in RuleNames
  BY NamesInOrder
<1>2. graph \in Passed /\ FoundSoFar \subseteq AllRecords
  BY GraphPassed DEF IInv
<1>3. Witnesses(found) /\ new \subseteq Findable(graph)
  BY <1>1, FindableRecords DEF IInv, TypeOK
<1>4. all \cup new \subseteq FoundSoFar
  BY <1>2, <1>3 DEF FoundSoFar, IInv, Progress
<1>5. /\ IsFiniteSet(new) /\ Cardinality(new) = Cardinality(found)
      /\ \A r \in new : r[1] = name
  BY <1>1, <1>3, RecordsOf
<1>6. all \cap new = {}
  <2>1. \A r \in all : r[1] # name
    BY NamesInOrder DEF IInv, Progress
  <2> QED BY <1>5, <2>1
<1>7. IsFiniteSet(all)
  BY <1>2, FewerRecords DEF IInv, Progress
<1>8. /\ IsFiniteSet(all \cup new)
      /\ Cardinality(all \cup new) = Cardinality(all) + Cardinality(new) - Cardinality(all \cap new)
  BY <1>5, <1>7, FS_Union
<1>9. Cardinality(all) \in Nat /\ Cardinality(new) \in Nat /\ Cardinality(all \cap new) = 0
  BY <1>5, <1>6, <1>7, FS_CardinalityType, FS_EmptySet
<1>10. Cardinality(FoundSoFar) \in Nat /\ Cardinality(all \cup new) <= Cardinality(FoundSoFar)
  BY <1>2, <1>4, FewerRecords
<1> HIDE DEF new
<1>11. Cardinality(all \cup new) = Cardinality(all) + Cardinality(new)
  BY <1>8, <1>9
<1> QED BY <1>4, <1>5, <1>8, <1>9, <1>10, <1>11 DEF new

\* A detector that keeps within the cap adds what it could find.
LEMMA DetectProgress ==
  ASSUME IInv, Detect
  PROVE  Progress'
<1>1. PICK found \in Outcomes(InconsistencyRules[rule], graph) :
        LET new == Records(InconsistencyRules[rule], found)
        IN  /\ rule \in 1..17 /\ InconsistencyRules[rule] \in RuleNames
            /\ Cardinality(all) < cap
            /\ Cardinality(new) <= cap - Cardinality(all)
            /\ all' = all \cup new
            /\ rule' = IF rule = 17 THEN 0 ELSE rule + 1
            /\ outcome' = IF rule = 17 THEN "ok" ELSE outcome
            /\ UNCHANGED <<workload, graph, cap, seen>>
  BY DetectFinds DEF IInv
<1> DEFINE name == InconsistencyRules[rule]
           new == Records(name, found)
<1>2. /\ all' \subseteq FoundSoFar
      /\ Cardinality(all') = Cardinality(all) + Cardinality(new)
      /\ Cardinality(all) \in Nat /\ Cardinality(new) \in Nat
  BY <1>1, DetectorProgress
<1>3. FoundSoFar' = FoundSoFar
  <2>1. Passed' = Passed
    BY <1>1 DEF Passed
  <2> QED BY <2>1 DEF FoundSoFar
<1>4. Cardinality(all') <= cap' /\ cap' = cap
  <2>1. cap \in Nat
    BY CapsNat DEF IInv, TypeOK
  <2> HIDE DEF new
  <2>2. Cardinality(new) <= cap - Cardinality(all)
    BY <1>1 DEF new
  <2> QED BY <1>1, <1>2, <2>1, <2>2
<1>5. outcome = "none" /\ outcome' # "error" /\ (rule' # 0 => outcome' = "none" /\ rule' = rule + 1)
  BY <1>1 DEF IInv, Progress
<1>6. rule' # 0 => \A r \in all' : \E j \in 1..17 : j < rule' /\ r[1] = InconsistencyRules[j]
  <2> SUFFICES ASSUME rule' # 0, NEW r \in all'
               PROVE  \E j \in 1..17 : j < rule' /\ r[1] = InconsistencyRules[j]
    OBVIOUS
  <2>1. rule' = rule + 1 /\ rule \in 1..17 /\ rule < rule'
    BY <1>1, <1>5
  <2>2. CASE r \in all
    <3>1. PICK j \in 1..17 : j < rule /\ r[1] = InconsistencyRules[j]
      BY <1>1, <2>2 DEF IInv, Progress
    <3> QED BY <2>1, <3>1
  <2>3. CASE r \in new
    <3>1. r[1] = name
      BY <2>3 DEF Records
    <3> QED BY <2>1, <3>1
  <2> QED BY <1>1, <2>2, <2>3
<1>7. ASSUME Determined(graph'), NEW j \in 1..17, outcome' = "ok" \/ j < rule'
      PROVE  Covered(j)'
  <2>1. graph' = graph /\ seen' = seen /\ all \subseteq all' /\ new \subseteq all'
    BY <1>1
  <2>2. j < rule \/ j = rule
    BY <1>1, <1>5, <1>7
  <2>3. CASE j < rule
    <3>1. Covered(j)
      BY <1>7, <2>1, <2>3 DEF IInv, Progress
    <3> QED BY <2>1, <3>1 DEF Covered
  <2>4. CASE j = rule
    <3> SUFFICES ASSUME NEW F \in Outcomes(name, seen), NEW w \in F
                 PROVE  \E r \in new : r[1] = name /\ r[2] = w[1] /\ r[3] = w[2]
      BY <2>1, <2>4 DEF Covered
    <3>1. /\ IsFiniteSet(graph) /\ AllWellFormed(graph) /\ Determined(graph)
          /\ seen \subseteq graph
      BY <1>7, <2>1, LoadedGraphs DEF IInv, TypeOK
    <3>2. Covers(found, F)
      BY <1>1, <3>1, DetectorsGrow
    <3>3. PICK v \in found : v[1] = w[1] /\ v[2] = w[2]
      BY <3>2 DEF Covers
    <3>4. <<name, v[1], v[2], v[3]>> \in new
      BY DEF Records
    <3> QED BY <3>3, <3>4
  <2> QED BY <2>2, <2>3, <2>4
<1> HIDE DEF new
<1> QED BY <1>2, <1>3, <1>4, <1>5, <1>6, <1>7 DEF Progress

\* A call that fails had the cap's number of records to find.
LEMMA ExceededProgress ==
  ASSUME IInv, Exceeded
  PROVE  Progress'
<1>1. /\ rule \in 1..17 /\ all' = {} /\ outcome' = "error" /\ rule' = 0
      /\ UNCHANGED <<workload, graph, cap, seen>>
  BY NamesInOrder DEF Exceeded, IInv, TypeOK
<1>2. cap \in Nat
  BY CapsNat DEF IInv, TypeOK
<1>3. Cardinality(FoundSoFar) >= cap
  <2>1. CASE Cardinality(all) >= cap
    <3>1. /\ Cardinality(all) \in Nat /\ Cardinality(FoundSoFar) \in Nat
          /\ Cardinality(all) <= Cardinality(FoundSoFar)
      BY GraphPassed, FewerRecords DEF IInv, Progress
    <3> QED BY <1>2, <2>1, <3>1
  <2>2. CASE \E found \in Outcomes(InconsistencyRules[rule], graph) :
               Cardinality(found) > cap - Cardinality(all)
    <3>1. PICK found \in Outcomes(InconsistencyRules[rule], graph) :
            Cardinality(found) > cap - Cardinality(all)
      BY <2>2
    <3> DEFINE new == Records(InconsistencyRules[rule], found)
    <3>2. /\ Cardinality(all \cup new) = Cardinality(all) + Cardinality(found)
          /\ Cardinality(all) \in Nat /\ Cardinality(found) \in Nat
          /\ Cardinality(FoundSoFar) \in Nat
          /\ Cardinality(all \cup new) <= Cardinality(FoundSoFar)
      BY <1>1, DetectorProgress
    <3> HIDE DEF new
    <3> QED BY <1>2, <3>1, <3>2
  <2> QED BY <2>1, <2>2 DEF Exceeded
<1>4. FoundSoFar' = FoundSoFar
  <2>1. Passed' = Passed
    BY <1>1 DEF Passed
  <2> QED BY <2>1 DEF FoundSoFar
<1>5. Cardinality(all') = 0
  BY <1>1, FS_EmptySet
<1>6. \A j \in 1..17 : ~(outcome' = "ok" \/ j < rule')
  BY <1>1
<1> QED BY <1>1, <1>2, <1>3, <1>4, <1>5, <1>6 DEF Progress

\* Progress holds before the first call,
LEMMA InitInv == Init => IInv
<1> SUFFICES ASSUME Init PROVE IInv
  OBVIOUS
<1>1. rule = 0 /\ all = {} /\ outcome = "none" /\ Cardinality(all) = 0 /\ cap \in Nat
  BY CapsNat, FS_EmptySet DEF Init
<1>2. \A j \in 1..17 : ~(outcome = "ok" \/ j < rule)
  BY <1>1
<1> QED BY <1>1, <1>2, InitTypes DEF IInv, Progress

\* and every step keeps it.
LEMMA StepInv == IInv /\ [Next]_vars => IInv'
<1> SUFFICES ASSUME IInv, [Next]_vars PROVE IInv'
  OBVIOUS
<1>1. TypeOK' /\ Loaded'
  BY StepTypes DEF IInv
<1>2. ASSUME NEW axiom \in workload.axioms, Load(axiom) PROVE Progress'
  BY <1>2, LoadProgress
<1>3. ASSUME NEW c \in Caps, Begin(c) PROVE Progress'
  BY <1>3, BeginProgress
<1>4. ASSUME Detect PROVE Progress'
  BY <1>4, DetectProgress
<1>5. ASSUME Exceeded PROVE Progress'
  BY <1>5, ExceededProgress
<1>6. ASSUME UNCHANGED vars PROVE Progress'
  BY <1>6 DEF vars, IInv, Progress, FoundSoFar, Passed, Covered
<1>7. Progress'
  BY <1>2, <1>3, <1>4, <1>5, <1>6 DEF Next
<1> QED BY <1>1, <1>7 DEF IInv

\* With the last detector run the report covers all there was to find.
LEMMA ProgressIsComplete == IInv => NothingTruncated
<1> SUFFICES ASSUME IInv PROVE NothingTruncated
  OBVIOUS
<1>1. ASSUME outcome = "ok", Determined(graph), NEW r \in Findable(seen)
      PROVE  \E s \in all : <<s[1], s[2], s[3]>> = <<r[1], r[2], r[3]>>
  <2>1. PICK n \in RuleNames : r \in Records(n, UNION Outcomes(n, seen))
    BY <1>1, NamesInOrder DEF Findable
  <2>2. PICK found \in Outcomes(n, seen) : \E w \in found : r = <<n, w[1], w[2], w[3]>>
    BY <2>1 DEF Records
  <2>3. PICK j \in 1..17 : InconsistencyRules[j] = n
    BY NamesInOrder DEF Range
  <2>4. Covered(j)
    BY <1>1 DEF IInv, Progress
  <2>5. PICK w \in found : r = <<n, w[1], w[2], w[3]>>
    BY <2>2
  <2>6. PICK s \in all : s[1] = n /\ s[2] = w[1] /\ s[3] = w[2]
    BY <2>3, <2>4, <2>5 DEF Covered
  <2> QED BY <2>5, <2>6
<1>2. Cardinality(all) <= cap /\ (outcome = "error" => Cardinality(UNION {Findable(G) : G \in Passed}) >= cap)
  BY DEF IInv, Progress, FoundSoFar
<1> QED BY <1>1, <1>2 DEF NothingTruncated

\* The cap never truncates in silence: a report holds, up to its object, every
\* record there was to find when the call began and that nothing loaded since
\* made undecided, and a call fails only when there was the cap's number of
\* records to find while it ran.
THEOREM NothingTruncatedHolds == Spec => []NothingTruncated
<1>1. Spec => []IInv
  BY InitInv, StepInv, PTL DEF Spec
<1> QED BY <1>1, ProgressIsComplete, PTL

-----------------------------------------------------------------------------
(* Symmetric axioms stated both ways.                                      *)

\* A graph as the store holds it, whose symmetric predicates are described by
\* no triple.
Plain(G) == IsFiniteSet(G) /\ Over(Terms, G) /\ Undescribed(G)
Both(G)  == G \cup Mirrored(G)

\* Stating them both ways changes what the symmetric predicates relate,
LEMMA MirroredPairs ==
  ASSUME NEW G
  PROVE  /\ \A p \in SymmetricPredicates : \A r \in Pairs(Both(G), p) :
              r \in Pairs(G, p) \/ <<r[2], r[1]>> \in Pairs(G, p)
         /\ \A p : Pairs(G, p) \subseteq Pairs(Both(G), p)
         /\ \A s, o : \A p \in SymmetricPredicates :
              <<s, p, o>> \in Both(G) <=> \/ <<s, p, o>> \in G
                                          \/ \E t \in G : t[2] = p /\ t[3] = s /\ t[1] = o
<1>1. \A t \in Both(G) : t \in G \/ \E u \in G : u[2] \in SymmetricPredicates /\ t = <<u[3], u[2], u[1]>>
  BY DEF Both, Mirrored
<1>2. \A u \in G : u[2] \in SymmetricPredicates => <<u[3], u[2], u[1]>> \in Both(G)
  BY DEF Both, Mirrored
<1>3. G \subseteq Both(G)
  BY DEF Both
<1>4. ASSUME NEW p \in SymmetricPredicates, NEW r \in Pairs(Both(G), p)
      PROVE  r \in Pairs(G, p) \/ <<r[2], r[1]>> \in Pairs(G, p)
  <2>1. PICK t \in Both(G) : t[2] = p /\ r = <<t[1], t[3]>>
    BY <1>4 DEF Pairs
  <2>2. CASE t \in G
    BY <2>1, <2>2 DEF Pairs
  <2>3. ASSUME NEW u \in G, t = <<u[3], u[2], u[1]>> PROVE <<r[2], r[1]>> \in Pairs(G, p)
    <3>1. u[2] = p /\ r[2] = u[1] /\ r[1] = u[3]
      BY <2>1, <2>3
    <3> QED BY <3>1 DEF Pairs
  <2> QED BY <1>1, <2>2, <2>3
<1>5. \A p : Pairs(G, p) \subseteq Pairs(Both(G), p)
  BY <1>3, RelationsGrow
<1>6. ASSUME NEW s, NEW o, NEW p \in SymmetricPredicates
      PROVE  <<s, p, o>> \in Both(G) <=> \/ <<s, p, o>> \in G
                                          \/ \E t \in G : t[2] = p /\ t[3] = s /\ t[1] = o
  <2>1. ASSUME <<s, p, o>> \in Both(G), <<s, p, o>> \notin G
        PROVE  \E t \in G : t[2] = p /\ t[3] = s /\ t[1] = o
    <3>1. PICK u \in G : <<s, p, o>> = <<u[3], u[2], u[1]>>
      BY <1>1, <2>1
    <3> QED BY <3>1
  <2>2. ASSUME NEW t \in G, t[2] = p, t[3] = s, t[1] = o
        PROVE  <<s, p, o>> \in Both(G)
    BY <1>2, <2>2
  <2> QED BY <1>3, <2>1, <2>2
<1> QED BY <1>4, <1>5, <1>6

\* and nothing else.
LEMMA MirroredElsewhere ==
  ASSUME NEW G, Plain(G)
  PROVE  /\ \A t : t[2] \notin SymmetricPredicates => (t \in Both(G) <=> t \in G)
         /\ \A p : p \notin SymmetricPredicates => /\ Pairs(Both(G), p) = Pairs(G, p)
                                                   /\ \A s : Objects(Both(G), s, p) = Objects(G, s, p)
         /\ \A c : Instances(Both(G), c) = Instances(G, c)
         /\ \A kind : Properties(Both(G), kind) = Properties(G, kind)
         /\ \A kind : Properties(G, kind) \cap SymmetricPredicates = {}
         /\ \A p : p \notin SymmetricPredicates =>
              \A r \in Pairs(G, p) : r[1] \notin SymmetricPredicates /\ r[2] \notin SymmetricPredicates
         /\ \A t \in Both(G) : t[1] \notin SymmetricPredicates /\ t[3] \notin SymmetricPredicates
<1>1. \A t : t[2] \notin SymmetricPredicates => (t \in Both(G) <=> t \in G)
  BY DEF Both, Mirrored
<1>2. \A p : p \notin SymmetricPredicates => Pairs(Both(G), p) = Pairs(G, p)
  BY <1>1 DEF Pairs
<1>3. \A p : p \notin SymmetricPredicates => \A s : Objects(Both(G), s, p) = Objects(G, s, p)
  BY <1>1 DEF Objects
<1>4. "type" \notin SymmetricPredicates
  BY DEF SymmetricPredicates
<1>5. \A c : Instances(Both(G), c) = Instances(G, c)
  BY <1>1, <1>4 DEF Instances
<1>6. \A kind : Properties(Both(G), kind) = Properties(G, kind)
  BY <1>5 DEF Properties
<1>7. \A t \in G : t[1] \notin SymmetricPredicates /\ t[3] \notin SymmetricPredicates
  BY DEF Plain, Undescribed
<1>8. \A kind : Properties(G, kind) \cap SymmetricPredicates = {}
  BY <1>7 DEF Properties, Instances
<1>9. \A p : \A r \in Pairs(G, p) : r[1] \notin SymmetricPredicates /\ r[2] \notin SymmetricPredicates
  BY <1>7 DEF Pairs
<1>10. \A t \in Both(G) : t[1] \notin SymmetricPredicates /\ t[3] \notin SymmetricPredicates
  BY <1>7 DEF Both, Mirrored
<1> QED BY <1>1, <1>2, <1>3, <1>5, <1>6, <1>8, <1>9, <1>10

\* Lists are made of first and rest: they stay as they are.
LEMMA MirroredLists ==
  ASSUME NEW G, Plain(G)
  PROVE  \A kind, predicates : predicates \cap SymmetricPredicates = {} =>
           Contained(Both(G), kind, predicates) = Contained(G, kind, predicates)
<1>1. IsFiniteSet(G) /\ IsFiniteSet(Both(G))
  <2>1. IsFiniteSet(G) /\ {u \in G : u[2] \in SymmetricPredicates} \subseteq G
    BY DEF Plain
  <2> DEFINE S == {u \in G : u[2] \in SymmetricPredicates}
  <2>2. IsFiniteSet(S)
    BY <2>1, FS_Subset
  <2>3. [t \in S |-> <<t[3], t[2], t[1]>>] \in Surjection(S, Mirrored(G))
    BY DEF Surjection, Mirrored
  <2>4. IsFiniteSet(Mirrored(G))
    BY <2>2, <2>3, FS_Surjection
  <2> QED BY <2>1, <2>4, FS_Union DEF Both
<1>2. \A head : Ends(G, head) = Ends(Both(G), head)
  <2>1. \A t \in Both(G) : (\E u \in G : t[1] = u[1] \/ t[1] = u[3]) /\ (\E u \in G : t[3] = u[1] \/ t[3] = u[3])
    BY DEF Both, Mirrored
  <2>2. G \subseteq Both(G)
    BY DEF Both
  <2> QED BY <2>1, <2>2 DEF Ends
<1>3. \A c, p : p \in {"first", "rest"} => Objects(G, c, p) = Objects(Both(G), c, p)
  <2>1. {"first", "rest"} \cap SymmetricPredicates = {}
    BY DEF SymmetricPredicates
  <2> QED BY <2>1, MirroredElsewhere
<1>4. \A head : Lists(G, head) = Lists(Both(G), head)
  BY <1>1, <1>2, <1>3, SameLists
<1> SUFFICES ASSUME NEW kind, NEW predicates, predicates \cap SymmetricPredicates = {}
             PROVE  Contained(Both(G), kind, predicates) = Contained(G, kind, predicates)
  OBVIOUS
<1> DEFINE Pointing(H) == {u \in H : /\ u[1] \in Instances(H, kind)
                                     /\ u[2] \in predicates
                                     /\ Node(u[3])}
<1>5. Pointing(Both(G)) = Pointing(G)
  BY MirroredElsewhere
<1>6. \A H : Contained(H, kind, predicates) = UNION {Lists(H, t[3]) : t \in Pointing(H)}
  BY DEF Contained
<1>7. {Lists(G, t[3]) : t \in Pointing(G)} = {Lists(Both(G), t[3]) : t \in Pointing(G)}
  BY <1>4
<1> HIDE DEF Pointing
<1> QED BY <1>5, <1>6, <1>7

\* Their members are no symmetric predicates either.
LEMMA ContainedUndescribed ==
  ASSUME NEW G, Plain(G), NEW kind, NEW predicates, NEW l \in Contained(G, kind, predicates)
  PROVE  \A r \in PairsIn(l) : r[1] \notin SymmetricPredicates /\ r[2] \notin SymmetricPredicates
<1>1. PICK t \in G : l \in Lists(G, t[3])
  BY DEF Contained
<1> DEFINE N == Ends(G, t[3])
<1>2. \A x \in N : x \notin SymmetricPredicates
  BY DEF Ends, Plain, Undescribed
<1>3. l \in Seq(N)
  BY <1>1, ListsAreSequences DEF Plain
<1> HIDE DEF N
<1> QED BY <1>2, <1>3 DEF PairsIn

\* What two terms contradict does not depend on which is named first,
LEMMA ContradictionsAreMutual ==
  ASSUME NEW G, NEW c \in Terms, NEW d \in Terms
  PROVE  /\ Shared(G, c, d) = Shared(G, d, c)
         /\ InBoth(G, c, d) = InBoth(G, d, c)
         /\ DifferentSame(G, c, d) = DifferentSame(G, d, c)
<1>1. Smaller(c, d) = Smaller(d, c) /\ Larger(c, d) = Larger(d, c)
  BY SmallerLarger
<1>2. Shared(G, c, d) = Shared(G, d, c)
  BY <1>1 DEF Shared
<1>3. InBoth(G, c, d) = InBoth(G, d, c)
  <2>1. Instances(G, c) \cap Instances(G, d) = Instances(G, d) \cap Instances(G, c)
    OBVIOUS
  <2> QED BY <1>1, <2>1 DEF InBoth
<1>4. DifferentSame(G, c, d) = DifferentSame(G, d, c)
  BY <1>1 DEF DifferentSame
<1> QED BY <1>2, <1>3, <1>4

\* nor on whether sameAs is stated both ways.
LEMMA MirroredContradictions ==
  ASSUME NEW G, Plain(G)
  PROVE  /\ \A p, q : p \notin SymmetricPredicates /\ q \notin SymmetricPredicates =>
              Shared(Both(G), p, q) = Shared(G, p, q)
         /\ \A c, d : InBoth(Both(G), c, d) = InBoth(G, c, d)
         /\ \A x, y : DifferentSame(Both(G), x, y) = DifferentSame(G, x, y)
<1>1. ASSUME NEW p, NEW q, p \notin SymmetricPredicates, q \notin SymmetricPredicates
      PROVE  Shared(Both(G), p, q) = Shared(G, p, q)
  BY <1>1, MirroredElsewhere DEF Shared
<1>2. \A c, d : InBoth(Both(G), c, d) = InBoth(G, c, d)
  BY MirroredElsewhere DEF InBoth
<1>3. ASSUME NEW x, NEW y PROVE DifferentSame(Both(G), x, y) = DifferentSame(G, x, y)
  <2>1. "sameAs" \in SymmetricPredicates
    BY DEF SymmetricPredicates
  <2>2. \A t \in G : t = <<t[1], t[2], t[3]>>
    BY DEF Plain, Over, Proper, WellFormed
  <2>3. <<x, "sameAs", y>> \in Both(G) <=> <<x, "sameAs", y>> \in G \/ <<y, "sameAs", x>> \in G
    BY <2>1, <2>2, MirroredPairs
  <2>4. <<y, "sameAs", x>> \in Both(G) <=> <<x, "sameAs", y>> \in G \/ <<y, "sameAs", x>> \in G
    BY <2>1, <2>2, MirroredPairs
  <2> QED BY <2>3, <2>4 DEF DifferentSame
<1> QED BY <1>1, <1>2, <1>3

\* The detectors that take contradicting pairs from symmetric axioms find the
\* same,
LEMMA MirroredAxioms ==
  ASSUME NEW G, Plain(G)
  PROVE  /\ PrpPdw(Both(G)) = PrpPdw(G)
         /\ ClsCom(Both(G)) = ClsCom(G)
         /\ CaxDw(Both(G)) = CaxDw(G)
         /\ EqDiff1(Both(G)) = EqDiff1(G)
<1>1. {"propertyDisjointWith", "complementOf", "disjointWith", "differentFrom"} \subseteq SymmetricPredicates
  BY DEF SymmetricPredicates
<1>2. ASSUME NEW p \in SymmetricPredicates, NEW r \in Pairs(Both(G), p)
      PROVE  /\ r[1] \in Terms /\ r[2] \in Terms
             /\ r[1] \notin SymmetricPredicates /\ r[2] \notin SymmetricPredicates
             /\ \E q \in Pairs(G, p) : (q[1] = r[1] /\ q[2] = r[2]) \/ (q[1] = r[2] /\ q[2] = r[1])
  <2>1. r \in Pairs(G, p) \/ <<r[2], r[1]>> \in Pairs(G, p)
    BY <1>2, MirroredPairs
  <2>2. PICK q \in Pairs(G, p) : (q[1] = r[1] /\ q[2] = r[2]) \/ (q[1] = r[2] /\ q[2] = r[1])
    BY <2>1
  <2>3. q[1] \in Terms /\ q[2] \in Terms
    BY PairsOver DEF Plain, RelOver
  <2>4. r[1] \notin SymmetricPredicates /\ r[2] \notin SymmetricPredicates
    BY <1>2, MirroredElsewhere DEF Pairs
  <2> QED BY <2>2, <2>3, <2>4
<1>3. \A p : Pairs(G, p) \subseteq Pairs(Both(G), p)
  BY MirroredPairs
<1>4. ClsCom(Both(G)) = ClsCom(G) /\ CaxDw(Both(G)) = CaxDw(G)
  <2>1. \A c, d \in Terms : InBoth(G, c, d) = InBoth(G, d, c)
    BY ContradictionsAreMutual
  <2>2. \A p \in SymmetricPredicates :
          UNION {InBoth(G, r[1], r[2]) : r \in Pairs(Both(G), p)} = UNION {InBoth(G, r[1], r[2]) : r \in Pairs(G, p)}
    <3> SUFFICES ASSUME NEW p \in SymmetricPredicates
                 PROVE  UNION {InBoth(G, r[1], r[2]) : r \in Pairs(Both(G), p)}
                          = UNION {InBoth(G, r[1], r[2]) : r \in Pairs(G, p)}
      OBVIOUS
    <3>1. \A r \in Pairs(Both(G), p) : \E q \in Pairs(G, p) : InBoth(G, q[1], q[2]) = InBoth(G, r[1], r[2])
      BY <1>2, <2>1
    <3> QED BY <1>3, <3>1
  <2>3. \A c, d : InBoth(Both(G), c, d) = InBoth(G, c, d)
    BY MirroredContradictions
  <2> QED BY <1>1, <2>2, <2>3 DEF ClsCom, CaxDw
<1>5. EqDiff1(Both(G)) = EqDiff1(G)
  <2>1. \A x, y \in Terms : DifferentSame(G, x, y) = DifferentSame(G, y, x)
    BY ContradictionsAreMutual
  <2>2. \A p \in SymmetricPredicates :
          UNION {DifferentSame(G, r[1], r[2]) : r \in Pairs(Both(G), p)}
            = UNION {DifferentSame(G, r[1], r[2]) : r \in Pairs(G, p)}
    <3> SUFFICES ASSUME NEW p \in SymmetricPredicates
                 PROVE  UNION {DifferentSame(G, r[1], r[2]) : r \in Pairs(Both(G), p)}
                          = UNION {DifferentSame(G, r[1], r[2]) : r \in Pairs(G, p)}
      OBVIOUS
    <3>1. \A r \in Pairs(Both(G), p) : \E q \in Pairs(G, p) : DifferentSame(G, q[1], q[2]) = DifferentSame(G, r[1], r[2])
      BY <1>2, <2>1
    <3> QED BY <1>3, <3>1
  <2>3. \A x, y : DifferentSame(Both(G), x, y) = DifferentSame(G, x, y)
    BY MirroredContradictions
  <2> QED BY <1>1, <2>2, <2>3 DEF EqDiff1
<1>6. PrpPdw(Both(G)) = PrpPdw(G)
  <2> DEFINE pdw == "propertyDisjointWith"
  <2>1. \A p, q \in Terms : Shared(G, p, q) = Shared(G, q, p)
    BY ContradictionsAreMutual
  <2>2. \A r \in Pairs(Both(G), pdw) : Shared(Both(G), r[1], r[2]) = Shared(G, r[1], r[2])
    BY <1>1, <1>2, MirroredContradictions
  <2>3. \A r \in IriPairs(Both(G), pdw) :
          \E q \in IriPairs(G, pdw) : Shared(G, q[1], q[2]) = Shared(G, r[1], r[2])
    BY <1>1, <1>2, <2>1 DEF IriPairs
  <2>4. IriPairs(G, pdw) \subseteq IriPairs(Both(G), pdw) /\ IriPairs(Both(G), pdw) \subseteq Pairs(Both(G), pdw)
    BY <1>3 DEF IriPairs
  <2> QED BY <2>2, <2>3, <2>4 DEF PrpPdw
<1> QED BY <1>4, <1>5, <1>6

\* so do those that take them from lists,
LEMMA MirroredContainers ==
  ASSUME NEW G, Plain(G)
  PROVE  /\ PrpAdp(Both(G)) = PrpAdp(G)
         /\ CaxAdc(Both(G)) = CaxAdc(G)
         /\ AllDifferent(Both(G), "members") = AllDifferent(G, "members")
         /\ AllDifferent(Both(G), "distinctMembers") = AllDifferent(G, "distinctMembers")
<1>1. {"members", "distinctMembers"} \cap SymmetricPredicates = {}
  BY DEF SymmetricPredicates
<1>2. /\ Contained(Both(G), "AllDisjointProperties", {"members"})
           = Contained(G, "AllDisjointProperties", {"members"})
      /\ Contained(Both(G), "AllDisjointClasses", {"members", "distinctMembers"})
           = Contained(G, "AllDisjointClasses", {"members", "distinctMembers"})
      /\ Contained(Both(G), "AllDifferent", {"members"}) = Contained(G, "AllDifferent", {"members"})
      /\ Contained(Both(G), "AllDifferent", {"distinctMembers"})
           = Contained(G, "AllDifferent", {"distinctMembers"})
  BY <1>1, MirroredLists
<1>3. PrpAdp(Both(G)) = PrpAdp(G)
  <2> DEFINE lists == Contained(G, "AllDisjointProperties", {"members"})
             Of(l) == {x \in PairsIn(l) : Iri(x[1]) /\ Iri(x[2])}
             Here(l) == UNION {Shared(G, r[1], r[2]) : r \in Of(l)}
             There(l) == UNION {Shared(Both(G), r[1], r[2]) : r \in Of(l)}
  <2>1. \A l \in lists : \A r \in Of(l) : Shared(Both(G), r[1], r[2]) = Shared(G, r[1], r[2])
    BY ContainedUndescribed, MirroredContradictions
  <2>2. \A l \in lists : Here(l) = There(l)
    <3> HIDE DEF lists, Of
    <3> QED BY <2>1
  <2>3. PrpAdp(G) = UNION {Here(l) : l \in lists} /\ PrpAdp(Both(G)) = UNION {There(l) : l \in lists}
    BY <1>2 DEF PrpAdp
  <2> HIDE DEF Here, There
  <2> QED BY <2>2, <2>3
<1>4. CaxAdc(Both(G)) = CaxAdc(G)
  BY <1>2, MirroredContradictions DEF CaxAdc
<1>5. /\ AllDifferent(Both(G), "members") = AllDifferent(G, "members")
      /\ AllDifferent(Both(G), "distinctMembers") = AllDifferent(G, "distinctMembers")
  BY <1>2, MirroredContradictions DEF AllDifferent
<1> QED BY <1>3, <1>4, <1>5

\* those that look at single triples,
LEMMA MirroredTriples ==
  ASSUME NEW G, Plain(G)
  PROVE  /\ PrpIrp(Both(G)) = PrpIrp(G)
         /\ PrpAsyp(Both(G)) = PrpAsyp(G)
         /\ ClsNothing2(Both(G)) = ClsNothing2(G)
         /\ DtNotType(Both(G)) = DtNotType(G)
<1>1. PrpIrp(Both(G)) = PrpIrp(G)
  BY MirroredElsewhere DEF PrpIrp
<1>2. PrpAsyp(Both(G)) = PrpAsyp(G)
  <2>1. ASSUME NEW t, t[2] \in Properties(G, "AsymmetricProperty")
        PROVE  (t \in Both(G) <=> t \in G) /\ (<<t[3], t[2], t[1]>> \in Both(G) <=> <<t[3], t[2], t[1]>> \in G)
    <3>1. t[2] \notin SymmetricPredicates /\ <<t[3], t[2], t[1]>>[2] \notin SymmetricPredicates
      BY <2>1, MirroredElsewhere
    <3> QED BY <3>1, MirroredElsewhere
  <2> QED BY <2>1, MirroredElsewhere DEF PrpAsyp
<1>3. ClsNothing2(Both(G)) = ClsNothing2(G)
  BY MirroredElsewhere DEF ClsNothing2
<1>4. DtNotType(Both(G)) = DtNotType(G)
  <2>1. ASSUME NEW t \in Both(G), ~Node(t[3]) PROVE t \in G
    <3>1. ASSUME NEW u \in G, t = <<u[3], u[2], u[1]>> PROVE FALSE
      <4>1. Node(u[1]) /\ t[3] = u[1]
        BY <3>1 DEF Plain, Over, Proper, WellFormed
      <4> QED BY <2>1, <4>1
    <3> QED BY <2>1, <3>1 DEF Both, Mirrored
  <2> QED BY <2>1 DEF DtNotType, Both
<1> QED BY <1>1, <1>2, <1>3, <1>4

\* those of negative assertions, whatever the hash maps keep,
LEMMA MirroredAssertions ==
  ASSUME NEW G, Plain(G), NEW literal, NEW targets \in {"targetIndividual", "targetValue"}
  PROVE  PrpNpaOutcomes(Both(G), literal, targets) = PrpNpaOutcomes(G, literal, targets)
<1>1. {"targetIndividual", "targetValue", "assertionProperty", "sourceIndividual"} \cap SymmetricPredicates = {}
  BY DEF SymmetricPredicates
<1>2. /\ AssertionProperties(Both(G)) = AssertionProperties(G)
      /\ Pairs(Both(G), targets) = Pairs(G, targets)
      /\ NodePairs(Both(G), "sourceIndividual") = NodePairs(G, "sourceIndividual")
  BY <1>1, MirroredElsewhere DEF AssertionProperties, NodePairs
<1>3. ASSUME NEW f \in LastInserted(AssertionProperties(G)), NEW g
      PROVE  Contradicted(Both(G), literal, f, g) = Contradicted(G, literal, f, g)
  <2>1. \A c \in DOMAIN f : f[c] \notin SymmetricPredicates
    BY <1>1, MirroredElsewhere DEF LastInserted, AssertionProperties
  <2> DEFINE Claimed == {<<r[2], f[r[1]], g[r[1]]>> :
                           r \in {x \in NodePairs(G, "sourceIndividual") : x[1] \in DOMAIN f \cap DOMAIN g}}
  <2>2. \A t \in Claimed : t[2] \notin SymmetricPredicates
    BY <2>1
  <2>3. \A t \in Claimed : t \in Both(G) <=> t \in G
    BY <2>2, MirroredElsewhere
  <2>4. Contradicted(G, literal, f, g) = {t \in Claimed : t \in G /\ (Node(t[3]) <=> ~literal)}
    BY DEF Contradicted
  <2>5. Contradicted(Both(G), literal, f, g) = {t \in Claimed : t \in Both(G) /\ (Node(t[3]) <=> ~literal)}
    BY <1>2 DEF Contradicted
  <2> HIDE DEF Claimed
  <2> QED BY <2>3, <2>4, <2>5
<1> QED BY <1>2, <1>3 DEF PrpNpaOutcomes

\* and those of cardinality limits.
LEMMA MirroredLimits ==
  ASSUME NEW G, Plain(G), NEW n \in {"cls-maxc1", "cls-maxqc1", "cls-maxqc2"}
  PROVE  Outcomes(n, Both(G)) = Outcomes(n, G)
<1>1. {"onProperty", "onClass", "maxCardinality", "maxQualifiedCardinality"} \cap SymmetricPredicates = {}
  BY DEF SymmetricPredicates
<1>2. /\ OnProperties(Both(G)) = OnProperties(G)
      /\ OnClasses(Both(G)) = OnClasses(G)
      /\ None(Both(G), "maxCardinality") = None(G, "maxCardinality")
      /\ None(Both(G), "maxQualifiedCardinality") = None(G, "maxQualifiedCardinality")
  BY <1>1, MirroredElsewhere DEF OnProperties, OnClasses, None
<1>3. ASSUME NEW on \in LastInserted(OnProperties(G))
      PROVE  \A c \in DOMAIN on : \A x : Objects(Both(G), x, on[c]) = Objects(G, x, on[c])
  <2>1. \A c \in DOMAIN on : on[c] \notin SymmetricPredicates
    BY <1>1, MirroredElsewhere DEF LastInserted, OnProperties
  <2> QED BY <2>1, MirroredElsewhere
<1>4. \A c : Instances(Both(G), c) = Instances(G, c)
  BY MirroredElsewhere
<1>5. ASSUME NEW on \in LastInserted(OnProperties(G))
      PROVE  ClsMaxC1(Both(G), on) = ClsMaxC1(G, on)
  <2> DEFINE C == None(G, "maxCardinality") \cap DOMAIN on
             Here(c) == UNION {Excess(x, on[c], Objects(G, x, on[c])) : x \in Instances(G, c)}
             There(c) == UNION {Excess(x, on[c], Objects(Both(G), x, on[c])) : x \in Instances(G, c)}
  <2>1. \A c \in C : Here(c) = There(c)
    BY <1>3
  <2>2. ClsMaxC1(G, on) = UNION {Here(c) : c \in C} /\ ClsMaxC1(Both(G), on) = UNION {There(c) : c \in C}
    BY <1>2, <1>4 DEF ClsMaxC1
  <2> HIDE DEF Here, There, C
  <2> QED BY <2>1, <2>2
<1>6. ASSUME NEW on \in LastInserted(OnProperties(G)), NEW cls
      PROVE  ClsMaxQc1(Both(G), on, cls) = ClsMaxQc1(G, on, cls)
  <2> DEFINE C == NoneQualified(G, on, cls, FALSE)
             Here(c) == UNION {Excess(x, on[c], Objects(G, x, on[c]) \cap Instances(G, cls[c])) :
                                 x \in Instances(G, c)}
             There(c) == UNION {Excess(x, on[c], Objects(Both(G), x, on[c]) \cap Instances(Both(G), cls[c])) :
                                  x \in Instances(Both(G), c)}
  <2>1. \A c \in C : Here(c) = There(c)
    BY <1>3, <1>4 DEF NoneQualified
  <2>2. NoneQualified(Both(G), on, cls, FALSE) = C
    BY <1>2 DEF NoneQualified
  <2>3. ClsMaxQc1(G, on, cls) = UNION {Here(c) : c \in C}
    BY DEF ClsMaxQc1
  <2>4. ClsMaxQc1(Both(G), on, cls) = UNION {There(c) : c \in C}
    BY <2>2 DEF ClsMaxQc1
  <2> HIDE DEF Here, There, C
  <2> QED BY <2>1, <2>3, <2>4
<1>7. ASSUME NEW on \in LastInserted(OnProperties(G)), NEW cls
      PROVE  ClsMaxQc2(Both(G), on, cls) = ClsMaxQc2(G, on, cls)
  <2> DEFINE C == NoneQualified(G, on, cls, TRUE)
             Here(c) == UNION {Excess(x, on[c], Objects(G, x, on[c])) : x \in Instances(G, c)}
             There(c) == UNION {Excess(x, on[c], Objects(Both(G), x, on[c])) : x \in Instances(Both(G), c)}
  <2>1. \A c \in C : Here(c) = There(c)
    BY <1>3, <1>4 DEF NoneQualified
  <2>2. NoneQualified(Both(G), on, cls, TRUE) = C
    BY <1>2 DEF NoneQualified
  <2>3. ClsMaxQc2(G, on, cls) = UNION {Here(c) : c \in C}
    BY DEF ClsMaxQc2
  <2>4. ClsMaxQc2(Both(G), on, cls) = UNION {There(c) : c \in C}
    BY <2>2 DEF ClsMaxQc2
  <2> HIDE DEF Here, There, C
  <2> QED BY <2>1, <2>3, <2>4
<1> DEFINE P == LastInserted(OnProperties(G)) \X LastInserted(OnClasses(G))
<1>8. /\ Outcomes("cls-maxc1", Both(G)) = {ClsMaxC1(Both(G), on) : on \in LastInserted(OnProperties(G))}
      /\ Outcomes("cls-maxqc1", Both(G)) = {ClsMaxQc1(Both(G), m[1], m[2]) : m \in P}
      /\ Outcomes("cls-maxqc2", Both(G)) = {ClsMaxQc2(Both(G), m[1], m[2]) : m \in P}
  BY <1>2, LimitOutcomes
<1>9. /\ Outcomes("cls-maxc1", G) = {ClsMaxC1(G, on) : on \in LastInserted(OnProperties(G))}
      /\ Outcomes("cls-maxqc1", G) = {ClsMaxQc1(G, m[1], m[2]) : m \in P}
      /\ Outcomes("cls-maxqc2", G) = {ClsMaxQc2(G, m[1], m[2]) : m \in P}
  BY LimitOutcomes
<1>10. \A m \in P : m[1] \in LastInserted(OnProperties(G))
  OBVIOUS
<1> HIDE DEF P
<1>11. \A m \in P : ClsMaxQc1(Both(G), m[1], m[2]) = ClsMaxQc1(G, m[1], m[2])
                    /\ ClsMaxQc2(Both(G), m[1], m[2]) = ClsMaxQc2(G, m[1], m[2])
  BY <1>6, <1>7, <1>10
<1> QED BY <1>5, <1>8, <1>9, <1>11

\* Together: what can be found is the same.
LEMMA MirroredFindable ==
  ASSUME NEW G, Plain(G)
  PROVE  Findable(Both(G)) = Findable(G)
<1>1. ASSUME NEW n \in RuleNames PROVE Outcomes(n, Both(G)) = Outcomes(n, G)
  <2>1. CASE n \in {"cls-maxc1", "cls-maxqc1", "cls-maxqc2"}
    BY <2>1, MirroredLimits
  <2>2. CASE n \in {"prp-npa1", "prp-npa2"}
    BY <2>2, MirroredAssertions, AssertionOutcomes
  <2>3. CASE n \in {"prp-irp", "prp-asyp", "cls-nothing2", "dt-not-type"}
    <3>1. \A H : /\ Outcomes("prp-irp", H) = {PrpIrp(H)} /\ Outcomes("prp-asyp", H) = {PrpAsyp(H)}
                  /\ Outcomes("cls-nothing2", H) = {ClsNothing2(H)}
                  /\ Outcomes("dt-not-type", H) = {DtNotType(H)}
      BY OneOutcome
    <3> QED BY <2>3, <3>1, MirroredTriples
  <2>4. CASE n \in {"prp-pdw", "cls-com", "cax-dw", "eq-diff1"}
    <3>1. \A H : /\ Outcomes("prp-pdw", H) = {PrpPdw(H)} /\ Outcomes("cls-com", H) = {ClsCom(H)}
                  /\ Outcomes("cax-dw", H) = {CaxDw(H)} /\ Outcomes("eq-diff1", H) = {EqDiff1(H)}
      BY OneOutcome
    <3> QED BY <2>4, <3>1, MirroredAxioms
  <2>5. CASE n \in {"prp-adp", "cax-adc", "eq-diff2", "eq-diff3"}
    <3>1. /\ PrpAdp(Both(G)) = PrpAdp(G) /\ CaxAdc(Both(G)) = CaxAdc(G)
          /\ AllDifferent(Both(G), "members") = AllDifferent(G, "members")
          /\ AllDifferent(Both(G), "distinctMembers") = AllDifferent(G, "distinctMembers")
      BY MirroredContainers
    <3>2. Outcomes("prp-adp", Both(G)) = {PrpAdp(Both(G))} /\ Outcomes("prp-adp", G) = {PrpAdp(G)}
      BY OneOutcome
    <3>3. Outcomes("cax-adc", Both(G)) = {CaxAdc(Both(G))} /\ Outcomes("cax-adc", G) = {CaxAdc(G)}
      BY OneOutcome
    <3>4. /\ Outcomes("eq-diff2", Both(G)) = {AllDifferent(Both(G), "members")}
          /\ Outcomes("eq-diff2", G) = {AllDifferent(G, "members")}
      BY OneOutcome
    <3>5. /\ Outcomes("eq-diff3", Both(G)) = {AllDifferent(Both(G), "distinctMembers")}
          /\ Outcomes("eq-diff3", G) = {AllDifferent(G, "distinctMembers")}
      BY OneOutcome
    <3>6. CASE n = "prp-adp"
      BY <3>1, <3>2, <3>6
    <3>7. CASE n = "cax-adc"
      BY <3>1, <3>3, <3>7
    <3>8. CASE n = "eq-diff2"
      BY <3>1, <3>4, <3>8
    <3>9. CASE n = "eq-diff3"
      BY <3>1, <3>5, <3>9
    <3> QED BY <2>5, <3>6, <3>7, <3>8, <3>9
  <2> QED BY <2>1, <2>2, <2>3, <2>4, <2>5 DEF RuleNames
<1>2. Range(InconsistencyRules) = RuleNames
  BY NamesInOrder
<1> QED BY <1>1, <1>2 DEF Findable

\* "emit one record per semantic violation": stating every symmetric axiom the
\* other way round as well gives a report nothing more to hold.
THEOREM OneRecordPerViolationHolds == Spec => []OneRecordPerViolation
<1>1. TypeOK => OneRecordPerViolation
  <2> SUFFICES ASSUME TypeOK, Undescribed(graph) PROVE Findable(graph \cup Mirrored(graph)) = Findable(graph)
    BY DEF OneRecordPerViolation
  <2>1. Plain(graph)
    BY LoadedGraphs DEF TypeOK, Plain
  <2> QED BY <2>1, MirroredFindable DEF Both
<1> QED BY <1>1, TypeCorrect, PTL

-----------------------------------------------------------------------------
(* False alarms.                                                           *)

\* I makes true the graph G, which uses the vocabulary as OWL intends.
Holds(sig, I, G) ==
  IsFiniteSet(G) /\ AllWellFormed(G) /\ Meaningful(sig, G) /\ I \in Models(sig, G)

\* Its triples are sound in the sense of the rules, and true.
LEMMA HoldsFits ==
  ASSUME NEW sig, NEW I, NEW G, Holds(sig, I, G)
  PROVE  /\ Fits(sig, I, G, G)
         /\ SignatureApart(sig)
         /\ \A t \in G : Used(sig, t) /\ True(sig, I, WithLists(G), t)
<1>1. /\ Meaningful(sig, G) /\ I \in Interpretations(sig)
      /\ \A t \in G : True(sig, I, WithLists(G), t)
  BY DEF Holds, Models
<1>2. \A t \in G : Sound(sig, I, G, t)
  BY AxiomsSound DEF Holds
<1> QED BY <1>1, <1>2 DEF Holds, Fits, Meaningful

\* What the graph says to be disjoint or different is,
LEMMA ApartFacts ==
  ASSUME NEW sig, NEW I, NEW G, Holds(sig, I, G)
  PROVE  /\ \A r \in Pairs(G, "propertyDisjointWith") :
              r[1] \in sig.properties /\ r[2] \in sig.properties /\ I.prop[r[1]] \cap I.prop[r[2]] = {}
         /\ \A r \in Pairs(G, "disjointWith") \cup Pairs(G, "complementOf") :
              /\ r[1] \in ClassNames(sig) /\ r[2] \in ClassNames(sig)
              /\ ClassOf(sig, I, r[1]) \cap ClassOf(sig, I, r[2]) = {}
         /\ \A r \in Pairs(G, "differentFrom") :
              r[1] \in Individuals(sig) /\ r[2] \in Individuals(sig) /\ I.ind[r[1]] # I.ind[r[2]]
<1>1. /\ SignatureApart(sig) /\ I \in Interpretations(sig)
      /\ \A t \in G : Used(sig, t) /\ True(sig, I, WithLists(G), t) /\ Sound(sig, I, G, t)
  BY HoldsFits DEF Fits
<1>2. sig.properties \cap Reserved = {}
  BY <1>1 DEF SignatureApart
<1>3. ASSUME NEW t \in G, t[2] = "propertyDisjointWith"
      PROVE  t[1] \in sig.properties /\ t[3] \in sig.properties /\ I.prop[t[1]] \cap I.prop[t[3]] = {}
  <2>1. I.prop[t[1]] \cap I.prop[t[3]] = {}
    BY <1>1, <1>3 DEF True
  <2>2. t[1] \in sig.properties /\ t[3] \in sig.properties
    BY <1>1, <1>2, <1>3 DEF Used, Reserved, ClassRelations, PropertyRelations
  <2> QED BY <2>1, <2>2
<1>4. ASSUME NEW t \in G, t[2] = "disjointWith"
      PROVE  /\ t[1] \in ClassNames(sig) /\ t[3] \in ClassNames(sig)
             /\ ClassOf(sig, I, t[1]) \cap ClassOf(sig, I, t[3]) = {}
  <2>1. ClassOf(sig, I, t[1]) \cap ClassOf(sig, I, t[3]) = {}
    BY <1>1, <1>4 DEF True
  <2>2. t[1] \in ClassNames(sig) /\ t[3] \in ClassNames(sig)
    BY <1>1, <1>2, <1>4 DEF Used, Reserved, ClassRelations, PropertyRelations
  <2> QED BY <2>1, <2>2
<1>5. ASSUME NEW t \in G, t[2] = "complementOf"
      PROVE  /\ t[1] \in ClassNames(sig) /\ t[3] \in ClassNames(sig)
             /\ ClassOf(sig, I, t[1]) \cap ClassOf(sig, I, t[3]) = {}
  <2>1. I.cls[t[1]] = Elements(sig) \ ClassOf(sig, I, t[3])
    BY <1>1, <1>5 DEF True
  <2>2. t[1] \in sig.classes /\ t[3] \in ClassNames(sig)
    BY <1>1, <1>2, <1>5 DEF Used, Reserved, ClassRelations, PropertyRelations
  <2>3. ClassOf(sig, I, t[1]) = I.cls[t[1]]
    BY <1>1, <2>2, Interpreted
  <2> QED BY <2>1, <2>2, <2>3 DEF ClassNames
<1>6. \A t \in G : t[2] = "differentFrom" =>
        t[1] \in Individuals(sig) /\ t[3] \in Individuals(sig) /\ I.ind[t[1]] # I.ind[t[3]]
  BY <1>1, SoundDifferent
<1>7. \A p : \A r \in Pairs(G, p) : \E t \in G : t[2] = p /\ r[1] = t[1] /\ r[2] = t[3]
  BY DEF Pairs
<1>8. \A r \in Pairs(G, "propertyDisjointWith") :
        r[1] \in sig.properties /\ r[2] \in sig.properties /\ I.prop[r[1]] \cap I.prop[r[2]] = {}
  BY <1>3, <1>7
<1>9. \A r \in Pairs(G, "disjointWith") :
        /\ r[1] \in ClassNames(sig) /\ r[2] \in ClassNames(sig)
        /\ ClassOf(sig, I, r[1]) \cap ClassOf(sig, I, r[2]) = {}
  BY <1>4, <1>7
<1>10. \A r \in Pairs(G, "complementOf") :
        /\ r[1] \in ClassNames(sig) /\ r[2] \in ClassNames(sig)
        /\ ClassOf(sig, I, r[1]) \cap ClassOf(sig, I, r[2]) = {}
  BY <1>5, <1>7
<1>11. \A r \in Pairs(G, "differentFrom") :
        r[1] \in Individuals(sig) /\ r[2] \in Individuals(sig) /\ I.ind[r[1]] # I.ind[r[2]]
  BY <1>6, <1>7
<1> QED BY <1>8, <1>9, <1>10, <1>11

\* and so are the members of a container, in either order.
LEMMA ContainerFacts ==
  ASSUME NEW sig, NEW I, NEW G, Holds(sig, I, G), NEW kind \in Containers,
         NEW predicates \in SUBSET {"members", "distinctMembers"},
         NEW l \in Contained(G, kind, predicates), NEW r \in PairsIn(l)
  PROVE  /\ r[1] \in MembersOf(sig, kind) /\ r[2] \in MembersOf(sig, kind)
         /\ kind = "AllDisjointProperties" => I.prop[r[1]] \cap I.prop[r[2]] = {}
         /\ kind = "AllDisjointClasses" => ClassOf(sig, I, r[1]) \cap ClassOf(sig, I, r[2]) = {}
         /\ kind = "AllDifferent" => I.ind[r[1]] # I.ind[r[2]]
<1>1. PICK t \in G : /\ t[1] \in Instances(G, kind) /\ t[2] \in predicates
                     /\ l \in Lists(G, t[3])
  BY DEF Contained
<1>2. PICK i \in DOMAIN l, j \in DOMAIN l : r = <<l[i], l[j]>> /\ i # j
  BY DEF PairsIn
<1>3. l \in ListValues(G, t[3]) /\ DOMAIN l \subseteq Nat
  <2>1. l \in Seq(Ends(G, t[3]))
    BY <1>1, ListsAreSequences DEF Holds
  <2>2. DOMAIN l = 1..Len(l) /\ Len(l) \in Nat
    BY <2>1
  <2> QED BY <1>1, <2>2, ListsExact DEF Holds
<1>4. kind \in Links(G, t[1], "type") \cap Containers
  BY <1>1 DEF Instances, Links
<1>5. l[i] \in MembersOf(sig, kind) /\ l[j] \in MembersOf(sig, kind)
  BY <1>1, <1>3, <1>4 DEF Holds, Meaningful, ListsUsed, ListPredicates
<1>6. MembersTrue(sig, I, kind, l)
  <2>1. l \in ListsAt(WithLists(G), t[3])
    BY <1>1, <1>3, ListsPointedAt DEF ListPredicates
  <2>2. True(sig, I, WithLists(G), t) /\ WithLists(G).triples = G
    BY HoldsFits DEF WithLists
  <2> QED BY <1>1, <1>4, <2>1, <2>2 DEF True
<1>7. i < j \/ j < i
  BY <1>2, <1>3
<1> QED BY <1>2, <1>5, <1>6, <1>7 DEF MembersTrue

\* So nothing is an instance of both of two disjoint classes, related by both
\* of two disjoint properties, or the same as what it differs from.
LEMMA NothingInBoth ==
  ASSUME NEW sig, NEW I, NEW G, Holds(sig, I, G)
  PROVE  /\ \A p, q \in sig.properties : I.prop[p] \cap I.prop[q] = {} => Shared(G, p, q) = {}
         /\ \A c, d \in ClassNames(sig) :
              ClassOf(sig, I, c) \cap ClassOf(sig, I, d) = {} => InBoth(G, c, d) = {}
         /\ \A x, y \in Individuals(sig) : I.ind[x] # I.ind[y] => DifferentSame(G, x, y) = {}
<1>1. Fits(sig, I, G, G)
  BY HoldsFits
<1>2. ASSUME NEW p \in sig.properties, NEW q \in sig.properties, I.prop[p] \cap I.prop[q] = {}
      PROVE  Shared(G, p, q) = {}
  <2>1. \A r \in Pairs(G, p) \cap Pairs(G, q) : <<I.ind[r[1]], I.ind[r[2]]>> \in I.prop[p] \cap I.prop[q]
    BY <1>1, AssertionFacts
  <2>2. Pairs(G, p) \cap Pairs(G, q) = {}
    BY <1>2, <2>1
  <2> QED BY <2>2 DEF Shared
<1>3. ASSUME NEW c \in ClassNames(sig), NEW d \in ClassNames(sig),
             ClassOf(sig, I, c) \cap ClassOf(sig, I, d) = {}
      PROVE  InBoth(G, c, d) = {}
  <2>1. Instances(G, c) \cap Instances(G, d) = {}
    BY <1>1, <1>3, AssertionFacts
  <2> QED BY <2>1 DEF InBoth, Typed
<1>4. ASSUME NEW x \in Individuals(sig), NEW y \in Individuals(sig), I.ind[x] # I.ind[y]
      PROVE  DifferentSame(G, x, y) = {}
  <2>1. \A t \in G : t[2] = "sameAs" => <<t[1], t[3]>> \in Pairs(G, "sameAs")
    BY DEF Pairs
  <2>2. \A a, b : <<a, "sameAs", b>> \in G => <<a, b>> \in Pairs(G, "sameAs")
    BY <2>1
  <2>3. \A a, b : <<a, b>> \in Pairs(G, "sameAs") => a = b \/ I.ind[a] = I.ind[b]
    BY <1>1, AssertionFacts
  <2> QED BY <1>4, <2>2, <2>3 DEF DifferentSame
<1> QED BY <1>2, <1>3, <1>4

\* The detectors of properties find nothing,
LEMMA PropertiesQuiet ==
  ASSUME NEW sig, NEW I, NEW G, Holds(sig, I, G)
  PROVE  PrpIrp(G) = {} /\ PrpAsyp(G) = {} /\ PrpPdw(G) = {} /\ PrpAdp(G) = {}
<1>1. Fits(sig, I, G, G)
  BY HoldsFits
<1>2. \A k \in PropertyTypes : \A p \in Properties(G, k) : p \in sig.properties /\ TypeTrue(sig, I, p, k)
  BY <1>1, AssertionFacts DEF Properties
<1>3. \A t \in G : t[2] \in sig.properties => <<I.ind[t[1]], I.ind[t[3]]>> \in I.prop[t[2]]
  BY <1>1, FactsOfGraph
<1>4. PrpIrp(G) = {}
  <2> SUFFICES ASSUME NEW t \in PrpIrp(G) PROVE FALSE
    OBVIOUS
  <2>1. t \in G /\ t[2] \in Properties(G, "IrreflexiveProperty") /\ t[1] = t[3]
    BY DEF PrpIrp
  <2>2. t[2] \in sig.properties /\ TypeTrue(sig, I, t[2], "IrreflexiveProperty")
    BY <1>2, <2>1 DEF PropertyTypes
  <2>3. \A r \in I.prop[t[2]] : r[1] # r[2]
    BY <2>2 DEF TypeTrue
  <2> QED BY <1>3, <2>1, <2>2, <2>3
<1>5. PrpAsyp(G) = {}
  <2> SUFFICES ASSUME NEW t \in PrpAsyp(G) PROVE FALSE
    OBVIOUS
  <2>1. t \in G /\ t[2] \in Properties(G, "AsymmetricProperty") /\ <<t[3], t[2], t[1]>> \in G
    BY DEF PrpAsyp
  <2>2. t[2] \in sig.properties /\ TypeTrue(sig, I, t[2], "AsymmetricProperty")
    BY <1>2, <2>1 DEF PropertyTypes
  <2>3. \A r \in I.prop[t[2]] : <<r[2], r[1]>> \notin I.prop[t[2]]
    BY <2>2 DEF TypeTrue
  <2>4. <<I.ind[t[1]], I.ind[t[3]]>> \in I.prop[t[2]] /\ <<I.ind[t[3]], I.ind[t[1]]>> \in I.prop[t[2]]
    BY <1>3, <2>1, <2>2
  <2> QED BY <2>3, <2>4
<1>6. PrpPdw(G) = {}
  <2>1. \A r \in IriPairs(G, "propertyDisjointWith") : Shared(G, r[1], r[2]) = {}
    BY ApartFacts, NothingInBoth DEF IriPairs
  <2> QED BY <2>1 DEF PrpPdw
<1>7. PrpAdp(G) = {}
  <2>1. \A l \in Contained(G, "AllDisjointProperties", {"members"}) : \A r \in PairsIn(l) :
          Shared(G, r[1], r[2]) = {}
    BY ContainerFacts, NothingInBoth DEF Containers, MembersOf
  <2> QED BY <2>1 DEF PrpAdp
<1> QED BY <1>4, <1>5, <1>6, <1>7

\* whichever property and target they keep of a negative assertion,
LEMMA NegativeQuiet ==
  ASSUME NEW sig, NEW I, NEW G, Holds(sig, I, G), NEW literal,
         NEW targets \in {"targetIndividual", "targetValue"}, NEW F \in PrpNpaOutcomes(G, literal, targets)
  PROVE  F = {}
<1>1. PICK property \in LastInserted(AssertionProperties(G)), target \in LastInserted(Pairs(G, targets)) :
        F = Contradicted(G, literal, property, target)
  BY DEF PrpNpaOutcomes
<1> SUFFICES ASSUME NEW t \in F PROVE FALSE
  OBVIOUS
<1>2. PICK r \in NodePairs(G, "sourceIndividual") :
        /\ r[1] \in DOMAIN property /\ r[1] \in DOMAIN target
        /\ t = <<r[2], property[r[1]], target[r[1]]>> /\ t \in G
  BY <1>1 DEF Contradicted
<1>3. PICK u \in G : u[2] = "sourceIndividual" /\ r[1] = u[1] /\ r[2] = u[3]
  BY DEF NodePairs, Pairs
<1>4. /\ t[2] \in Links(G, u[1], "assertionProperty")
      /\ t[3] \in Links(G, u[1], targets)
  <2>1. <<r[1], property[r[1]]>> \in AssertionProperties(G) /\ <<r[1], target[r[1]]>> \in Pairs(G, targets)
    BY <1>2 DEF LastInserted
  <2>2. \A p, s, o : <<s, o>> \in Pairs(G, p) => o \in Links(G, s, p)
    BY DEF Pairs, Links
  <2> QED BY <1>2, <1>3, <2>1, <2>2 DEF AssertionProperties
<1>5. True(sig, I, WithLists(G), u) /\ WithLists(G).triples = G /\ Fits(sig, I, G, G) /\ SignatureApart(sig)
  BY HoldsFits DEF WithLists
<1>6. <<I.ind[t[1]], I.ind[t[3]]>> \notin I.prop[t[2]]
  BY <1>2, <1>3, <1>4, <1>5 DEF True
<1>7. t[2] \in sig.properties
  <2>1. PICK v \in G : v[2] = "assertionProperty" /\ v[3] = t[2]
    BY <1>4 DEF Links
  <2>2. sig.properties \cap Reserved = {} /\ Used(sig, v)
    BY <2>1, HoldsFits DEF SignatureApart
  <2> QED BY <2>1, <2>2 DEF Used, Reserved, ClassRelations, PropertyRelations
<1> QED BY <1>2, <1>5, <1>6, <1>7, FactsOfGraph

\* those of classes neither,
LEMMA ClassesQuiet ==
  ASSUME NEW sig, NEW I, NEW G, Holds(sig, I, G)
  PROVE  ClsNothing2(G) = {} /\ ClsCom(G) = {} /\ CaxDw(G) = {} /\ CaxAdc(G) = {}
<1>1. ClsNothing2(G) = {}
  <2>1. ClassOf(sig, I, "Nothing") = {} /\ "Nothing" \in ClassNames(sig)
    BY DEF ClassOf, ClassNames
  <2>2. Instances(G, "Nothing") = {}
    BY <2>1, HoldsFits, AssertionFacts
  <2> QED BY <2>2 DEF ClsNothing2, Typed
<1>2. \A r \in Pairs(G, "disjointWith") \cup Pairs(G, "complementOf") : InBoth(G, r[1], r[2]) = {}
  BY ApartFacts, NothingInBoth
<1>3. CaxAdc(G) = {}
  <2>1. \A l \in Contained(G, "AllDisjointClasses", {"members", "distinctMembers"}) :
          \A r \in PairsIn(l) : InBoth(G, r[1], r[2]) = {}
    BY ContainerFacts, NothingInBoth DEF Containers, MembersOf
  <2> QED BY <2>1 DEF CaxAdc
<1> QED BY <1>1, <1>2, <1>3 DEF ClsCom, CaxDw

\* nor those of equality.
LEMMA EqualityQuiet ==
  ASSUME NEW sig, NEW I, NEW G, Holds(sig, I, G)
  PROVE  EqDiff1(G) = {} /\ AllDifferent(G, "members") = {} /\ AllDifferent(G, "distinctMembers") = {}
<1>1. EqDiff1(G) = {}
  <2>1. \A r \in Pairs(G, "differentFrom") : DifferentSame(G, r[1], r[2]) = {}
    BY ApartFacts, NothingInBoth
  <2> QED BY <2>1 DEF EqDiff1
<1>2. ASSUME NEW p \in {"members", "distinctMembers"} PROVE AllDifferent(G, p) = {}
  <2>1. \A l \in Contained(G, "AllDifferent", {p}) : \A r \in PairsIn(l) : DifferentSame(G, r[1], r[2]) = {}
    <3>1. {p} \in SUBSET {"members", "distinctMembers"} /\ "AllDifferent" \in Containers
      BY DEF Containers
    <3> QED BY <3>1, ContainerFacts, NothingInBoth DEF MembersOf
  <2> QED BY <2>1 DEF AllDifferent
<1> QED BY <1>1, <1>2

\* An instance of a class limited to no value has none, whichever property
\* and filler the detectors keep.
LEMMA NoneFacts ==
  ASSUME NEW sig, NEW I, NEW G, Holds(sig, I, G)
  PROVE  /\ \A c \in None(G, "maxCardinality") : \A p : \A x \in Instances(G, c) :
              <<c, p>> \in OnProperties(G) => Objects(G, x, p) = {}
         /\ \A c \in None(G, "maxQualifiedCardinality") : \A p, d : \A x \in Instances(G, c) :
              <<c, p>> \in OnProperties(G) /\ <<c, d>> \in OnClasses(G) =>
                /\ Objects(G, x, p) \cap Instances(G, d) = {}
                /\ d = "Thing" => Objects(G, x, p) = {}
<1> DEFINE Value(p, x) == Values(I.prop[p], I.ind[x])
<1>1. /\ Fits(sig, I, G, G) /\ SignatureApart(sig) /\ I \in Interpretations(sig)
      /\ WithLists(G).triples = G
  BY HoldsFits DEF WithLists, Fits
<1>2. ASSUME NEW k \in {"maxCardinality", "maxQualifiedCardinality"}, NEW c \in None(G, k)
      PROVE  /\ c \in sig.classes
             /\ k = "maxCardinality" => \A q \in Links(G, c, "onProperty") :
                  I.cls[c] = Restricted(sig, I, k, q, "0")
             /\ k = "maxQualifiedCardinality" =>
                  \A q \in Links(G, c, "onProperty"), d \in Links(G, c, "onClass") :
                    I.cls[c] = AtMostOf(sig, I, q, d, "0")
  <2>1. PICK t \in G : t[1] = c /\ t[2] = k /\ IsZero(t[3])
    BY DEF None, Pairs
  <2>2. Used(sig, t) /\ True(sig, I, WithLists(G), t)
    BY HoldsFits
  <2>3. c \in sig.classes /\ t[3] \in {"0", "1"}
    BY <1>1, <2>1, <2>2, UsedAxioms
  <2>4. t[3] = "0"
    BY <2>1, <2>3, LiteralsRead DEF IsZero, Limit
  <2> QED BY <1>1, <2>1, <2>2, <2>3, <2>4, TrueAxioms
<1>3. ASSUME NEW c, NEW p, <<c, p>> \in OnProperties(G)
      PROVE  p \in Links(G, c, "onProperty") /\ p \in sig.properties
  <2>1. PICK u \in G : u[1] = c /\ u[2] = "onProperty" /\ u[3] = p
    BY <1>3 DEF OnProperties, Pairs
  <2> QED BY <1>1, <2>1, HoldsFits, UsedAxioms DEF Links
<1>4. ASSUME NEW c, NEW d, <<c, d>> \in OnClasses(G)
      PROVE  d \in Links(G, c, "onClass") /\ d \in ClassNames(sig)
  <2>1. PICK u \in G : u[1] = c /\ u[2] = "onClass" /\ u[3] = d
    BY <1>4 DEF OnClasses, Pairs
  <2> QED BY <1>1, <2>1, HoldsFits, UsedAxioms DEF Links
<1>5. ASSUME NEW p \in sig.properties, NEW x, NEW y \in Objects(G, x, p)
      PROVE  I.ind[y] \in Value(p, x)
  <2> DEFINE P == I.prop[p]
  <2>1. <<I.ind[x], I.ind[y]>> \in P
    BY <1>1, AssertionFacts
  <2> HIDE DEF P
  <2>2. I.ind[y] \in Values(P, I.ind[x])
    BY <2>1 DEF Values
  <2> QED BY <2>2 DEF P
<1>6. ASSUME NEW S, S \subseteq Elements(sig), Cardinality(S) <= 0 PROVE S = {}
  <2>1. IsFiniteSet(Elements(sig))
    BY <1>1, FS_Interval DEF Elements, SignatureApart
  <2>2. IsFiniteSet(S)
    BY <1>6, <2>1, FS_Subset
  <2>3. Cardinality(S) = 0
    BY <1>6, <2>2, FS_CardinalityType
  <2> QED BY <2>2, <2>3, FS_EmptySet
<1>7. \A p \in sig.properties : \A x : Value(p, x) \subseteq Elements(sig)
  <2>1. \A p \in sig.properties : I.prop[p] \subseteq Elements(sig) \X Elements(sig)
    BY <1>1, Interpreted
  <2> QED BY <2>1 DEF Values
<1>8. \A c \in sig.classes : \A x \in Instances(G, c) : I.ind[x] \in I.cls[c]
  BY <1>1, AssertionFacts, Interpreted DEF ClassNames
<1>9. ASSUME NEW c \in None(G, "maxCardinality"), NEW p, NEW x \in Instances(G, c),
             <<c, p>> \in OnProperties(G)
      PROVE  Objects(G, x, p) = {}
  <2>1. I.ind[x] \in Restricted(sig, I, "maxCardinality", p, "0") /\ p \in sig.properties
    BY <1>2, <1>3, <1>8, <1>9
  <2>2. Cardinality(Value(p, x)) <= 0
    BY <2>1 DEF Restricted, Limit
  <2>3. Value(p, x) = {}
    BY <1>6, <1>7, <2>1, <2>2
  <2> QED BY <1>5, <2>1, <2>3
<1>10. ASSUME NEW c \in None(G, "maxQualifiedCardinality"), NEW p, NEW d, NEW x \in Instances(G, c),
              <<c, p>> \in OnProperties(G), <<c, d>> \in OnClasses(G)
       PROVE  /\ Objects(G, x, p) \cap Instances(G, d) = {}
              /\ d = "Thing" => Objects(G, x, p) = {}
  <2>1. I.ind[x] \in AtMostOf(sig, I, p, d, "0") /\ p \in sig.properties /\ d \in ClassNames(sig)
    BY <1>2, <1>3, <1>4, <1>8, <1>10
  <2>2. Cardinality(Value(p, x) \cap ClassOf(sig, I, d)) <= 0
    BY <2>1 DEF AtMostOf, Limit
  <2>3. Value(p, x) \cap ClassOf(sig, I, d) = {}
    BY <1>6, <1>7, <2>1, <2>2
  <2>4. \A y \in Instances(G, d) : I.ind[y] \in ClassOf(sig, I, d)
    BY <1>1, <2>1, AssertionFacts
  <2>5. d = "Thing" => ClassOf(sig, I, d) = Elements(sig)
    BY DEF ClassOf
  <2> QED BY <1>5, <1>7, <2>1, <2>3, <2>4, <2>5
<1> QED BY <1>9, <1>10

\* So these find nothing.
LEMMA CardinalityQuiet ==
  ASSUME NEW sig, NEW I, NEW G, Holds(sig, I, G),
         NEW on \in LastInserted(OnProperties(G))
  PROVE  /\ ClsMaxC1(G, on) = {}
         /\ \A cls \in LastInserted(OnClasses(G)) :
              ClsMaxQc1(G, on, cls) = {} /\ ClsMaxQc2(G, on, cls) = {}
<1>1. /\ \A c \in DOMAIN on : <<c, on[c]>> \in OnProperties(G)
      /\ \A cls \in LastInserted(OnClasses(G)) : \A c \in DOMAIN cls : <<c, cls[c]>> \in OnClasses(G)
  BY DEF LastInserted
<1>2. \A x, p : Excess(x, p, {}) = {}
  BY DEF Excess
<1>3. ASSUME NEW c \in None(G, "maxCardinality") \cap DOMAIN on, NEW x \in Instances(G, c)
      PROVE  Excess(x, on[c], Objects(G, x, on[c])) = {}
  BY <1>1, <1>2, NoneFacts
<1>4. ASSUME NEW cls \in LastInserted(OnClasses(G)), NEW c \in NoneQualified(G, on, cls, FALSE),
             NEW x \in Instances(G, c)
      PROVE  Excess(x, on[c], Objects(G, x, on[c]) \cap Instances(G, cls[c])) = {}
  <2>1. Objects(G, x, on[c]) \cap Instances(G, cls[c]) = {}
    BY <1>1, NoneFacts DEF NoneQualified
  <2> QED BY <1>2, <2>1
<1>5. ASSUME NEW cls \in LastInserted(OnClasses(G)), NEW c \in NoneQualified(G, on, cls, TRUE),
             NEW x \in Instances(G, c)
      PROVE  Excess(x, on[c], Objects(G, x, on[c])) = {}
  <2>1. Objects(G, x, on[c]) = {}
    BY <1>1, NoneFacts DEF NoneQualified
  <2> QED BY <1>2, <2>1
<1>6. ClsMaxC1(G, on) = {}
  BY <1>3 DEF ClsMaxC1
<1>7. ASSUME NEW cls \in LastInserted(OnClasses(G)) PROVE ClsMaxQc1(G, on, cls) = {}
  <2>1. \A c \in NoneQualified(G, on, cls, FALSE) :
          UNION {Excess(x, on[c], Objects(G, x, on[c]) \cap Instances(G, cls[c])) : x \in Instances(G, c)} = {}
    BY <1>4
  <2> QED BY <2>1 DEF ClsMaxQc1
<1>8. ASSUME NEW cls \in LastInserted(OnClasses(G)) PROVE ClsMaxQc2(G, on, cls) = {}
  <2>1. \A c \in NoneQualified(G, on, cls, TRUE) :
          UNION {Excess(x, on[c], Objects(G, x, on[c])) : x \in Instances(G, c)} = {}
    BY <1>5
  <2> QED BY <2>1 DEF ClsMaxQc2
<1> QED BY <1>6, <1>7, <1>8

\* A literal that is reported, and whose value is not beyond the word, has no
\* value of its type.
LEMMA ReportedLiterals ==
  ASSUME NEW l, Violates(l), ~BeyondWord(l)
  PROVE  IllTyped(l)
<1> DEFINE d == DatatypeOf[l]
           All == Signed \cup Unsigned \cup {"positiveInteger", "nonPositiveInteger", "negativeInteger"}
<1>1. CASE d = "boolean"
  BY <1>1 DEF Violates, IllTyped, Signed, Unsigned
<1>2. CASE d \in All
  <2>1. d # "boolean" /\ d \in Unbounded \cup Signed \cup Unsigned
    BY <1>2 DEF Signed, Unsigned, Unbounded
  <2>2. ~(l \in DOMAIN Numeral /\ Numeral[l] \in Accepted(d))
    BY <1>2, <2>1 DEF Violates
  <2> SUFFICES ASSUME l \in DOMAIN Numeral, Numeral[l] \in ValueSpace(d) PROVE FALSE
    BY <2>1 DEF IllTyped
  <2> DEFINE n == Numeral[l]
  <2>3. n \in Int /\ WordBound \in Nat /\ n \notin Accepted(d)
    BY <2>2, LiteralsRead, WordPositive
  <2>4. CASE d \in Unbounded
    <3>1. n \in IF d \in {"nonNegativeInteger", "positiveInteger"}
                  THEN 0 .. 2 * WordBound - 1 ELSE -WordBound .. WordBound - 1
      BY <2>4 DEF BeyondWord
    <3> QED BY <2>3, <2>4, <3>1 DEF Unbounded, ValueSpace, Accepted, Signed, Unsigned
  <2>5. CASE d \in {"long", "unsignedLong"}
    BY <2>3, <2>5 DEF ValueSpace, Accepted, Signed, Unsigned
  <2>6. CASE d \in {"int", "short", "byte"}
    <3>1. ValueSpace(d) = Narrow[d] /\ Accepted(d) = -WordBound .. WordBound - 1
      BY <2>6 DEF ValueSpace, Accepted, Signed, Unsigned
    <3> QED BY <2>3, <2>6, <3>1, NarrowTypes
  <2>7. CASE d \in {"unsignedInt", "unsignedShort", "unsignedByte"}
    <3>1. ValueSpace(d) = Narrow[d] /\ Accepted(d) = 0 .. 2 * WordBound - 1
      BY <2>7 DEF ValueSpace, Accepted, Signed, Unsigned
    <3> QED BY <2>3, <2>7, <3>1, NarrowTypes
  <2> QED BY <2>1, <2>4, <2>5, <2>6, <2>7 DEF Signed, Unsigned, Unbounded
<1>3. d = "boolean" \/ d \in All
  BY DEF Violates
<1> QED BY <1>1, <1>2, <1>3

\* Of a graph that is true somewhere only literals are reported.
LEMMA DetectorsQuiet ==
  ASSUME NEW sig, NEW I, NEW G, Holds(sig, I, G), NEW n \in RuleNames, n # "dt-not-type",
         NEW F \in Outcomes(n, G)
  PROVE  F = {}
<1>1. CASE n \in {"prp-irp", "prp-asyp", "prp-pdw", "prp-adp"}
  BY <1>1, PropertiesQuiet DEF Outcomes
<1>2. CASE n \in {"prp-npa1", "prp-npa2"}
  BY <1>2, NegativeQuiet DEF Outcomes
<1>3. CASE n \in {"cls-nothing2", "cls-com", "cax-dw", "cax-adc"}
  BY <1>3, ClassesQuiet DEF Outcomes
<1>4. CASE n = "cls-maxc1"
  BY <1>4, CardinalityQuiet DEF Outcomes
<1>5. CASE n \in {"cls-maxqc1", "cls-maxqc2"}
  BY <1>5, CardinalityQuiet DEF Outcomes
<1>6. CASE n \in {"eq-diff1", "eq-diff2", "eq-diff3"}
  BY <1>6, EqualityQuiet DEF Outcomes
<1> QED BY <1>1, <1>2, <1>3, <1>4, <1>5, <1>6 DEF RuleNames

\* So with a record that is no false alarm no interpretation makes the graph
\* true: the detector read a part of it, which would be true there as well.
LEMMA ReportsAreTrue == IInv => ReportIsSound
<1> SUFFICES ASSUME IInv, Unambiguous(graph), Meaningful(workload.sig, graph),
                    NEW r \in all, r \notin FalseAlarms, Satisfiable(workload.sig, graph)
             PROVE  FALSE
  BY DEF ReportIsSound
<1> DEFINE sig == workload.sig
<1>1. PICK G \in Passed : r \in Findable(G)
  BY DEF IInv, Progress, FoundSoFar
<1>2. PICK n \in RuleNames : r \in Records(n, UNION Outcomes(n, G))
  BY <1>1, NamesInOrder DEF Findable
<1>3. PICK F \in Outcomes(n, G) : \E w \in F : r = <<n, w[1], w[2], w[3]>>
  BY <1>2 DEF Records
<1>4. PICK w \in F : r = <<n, w[1], w[2], w[3]>>
  BY <1>3
<1>5. G \subseteq graph /\ IsFiniteSet(graph) /\ AllWellFormed(graph) /\ IsFiniteSet(G) /\ AllWellFormed(G)
  <2>1. G \subseteq graph /\ graph \subseteq UNION workload.axioms /\ workload \in Workloads
    BY <1>1 DEF Passed, IInv, TypeOK
  <2> QED BY <2>1, LoadedGraphs
<1>6. PICK I \in Models(sig, graph) : TRUE
  BY DEF Satisfiable
<1>7. Holds(sig, I, G)
  BY <1>5, <1>6, FewerAxioms DEF Holds
<1>8. n = "dt-not-type"
  BY <1>3, <1>7, DetectorsQuiet
<1>9. w \in G /\ ~Node(w[3]) /\ Violates(w[3])
  BY <1>3, <1>8 DEF Outcomes, DtNotType
<1>10. ~BeyondWord(w[3])
  BY <1>4, <1>8 DEF FalseAlarms
<1>11. IllTyped(w[3])
  BY <1>9, <1>10, ReportedLiterals
<1> QED BY <1>5, <1>9, <1>11 DEF Satisfiable

\* A report is never a false alarm: whatever was loaded while the detectors ran,
\* with a record in it, of whichever detector and whatever its hash maps kept, the
\* graph is true in no interpretation or has a literal without a value.
THEOREM ReportIsSoundHolds == Spec => []ReportIsSound
<1>1. Spec => []IInv
  BY InitInv, StepInv, PTL DEF Spec
<1> QED BY <1>1, ReportsAreTrue, PTL
=============================================================================
