------------------------- MODULE MaterialiseProofs -------------------------
(***************************************************************************)
(* Theorems about the materialise loop over the rule library, for every    *)
(* ontology and every number of iterations.                                *)
(***************************************************************************)
EXTENDS Materialise, SoundProofs

\* The subjects, predicates, objects and datatypes of a finite graph are
\* finitely many.
LEMMA ImagesFinite ==
  ASSUME NEW A, IsFiniteSet(A)
  PROVE  /\ IsFiniteSet({t[1] : t \in A}) /\ IsFiniteSet({t[2] : t \in A}) /\ IsFiniteSet({t[3] : t \in A})
         /\ IsFiniteSet({DatatypeOf[t[3]] : t \in A})
<1>1. [t \in A |-> t[1]] \in Surjection(A, {t[1] : t \in A})
  BY DEF Surjection
<1>2. [t \in A |-> t[2]] \in Surjection(A, {t[2] : t \in A})
  BY DEF Surjection
<1>3. [t \in A |-> t[3]] \in Surjection(A, {t[3] : t \in A})
  BY DEF Surjection
<1>4. [t \in A |-> DatatypeOf[t[3]]] \in Surjection(A, {DatatypeOf[t[3]] : t \in A})
  BY DEF Surjection
<1> QED BY <1>1, <1>2, <1>3, <1>4, FS_Surjection

\* For the literals of the rule library that are listed by hand.
LEMMA FourFinite == ASSUME NEW a, NEW b, NEW c, NEW d PROVE IsFiniteSet({a, b, c, d})
<1>1. IsFiniteSet({a} \cup {b}) /\ IsFiniteSet({c} \cup {d})
  BY FS_Singleton, FS_Union
<1>2. IsFiniteSet(({a} \cup {b}) \cup ({c} \cup {d}))
  BY <1>1, FS_Union
<1>3. {a, b, c, d} = ({a} \cup {b}) \cup ({c} \cup {d})
  OBVIOUS
<1> QED BY <1>2, <1>3

\* The vocabulary is finite.
LEMMA VocabularyFinite == IsFiniteSet(Vocabulary)
<1> DEFINE A == {"type", "sameAs", "subClassOf", "subPropertyOf"}
           B == {"equivalentClass", "equivalentProperty", "domain", "range"}
           C == {"Thing", "Nothing", "Class", "Datatype"}
<1>1. IsFiniteSet(A) /\ IsFiniteSet(B) /\ IsFiniteSet(C) /\ IsFiniteSet({"nil"})
  BY FourFinite, FS_Singleton
<1>2. Vocabulary = ((A \cup B) \cup C) \cup {"nil"}
  BY DEF Vocabulary
<1> HIDE DEF A, B, C
<1>3. IsFiniteSet(A \cup B)
  BY <1>1, FS_Union
<1>4. IsFiniteSet((A \cup B) \cup C)
  BY <1>1, <1>3, FS_Union
<1> QED BY <1>1, <1>2, <1>4, FS_Union

\* So are the terms the loop can write, and the triples.
LEMMA TermsFinite ==
  ASSUME NEW A, IsFiniteSet(A)
  PROVE  IsFiniteSet(Terms(A)) /\ IsFiniteSet(Triples(A))
<1>1. IsFiniteSet({u \in A : ~Node(u[3])})
  BY FS_Subset
<1>2. IsFiniteSet({t[1] : t \in A} \cup {t[2] : t \in A} \cup {t[3] : t \in A})
  BY ImagesFinite, FS_Union
<1>3. IsFiniteSet(Vocabulary \cup BuiltinDatatypes)
  BY VocabularyFinite, BuiltinsFinite, FS_Union
<1>4. IsFiniteSet({DatatypeOf[t[3]] : t \in {u \in A : ~Node(u[3])}})
  BY <1>1, ImagesFinite
<1>5. IsFiniteSet(Terms(A))
  <2> DEFINE X == {t[1] : t \in A} \cup {t[2] : t \in A} \cup {t[3] : t \in A}
             Y == {DatatypeOf[t[3]] : t \in {u \in A : ~Node(u[3])}}
  <2>1. Terms(A) = (X \cup (Vocabulary \cup BuiltinDatatypes)) \cup Y
    BY DEF Terms
  <2>2. IsFiniteSet(X) /\ IsFiniteSet(Y)
    BY <1>2, <1>4
  <2> HIDE DEF X, Y
  <2>3. IsFiniteSet(X \cup (Vocabulary \cup BuiltinDatatypes))
    BY <1>3, <2>2, FS_Union
  <2> QED BY <2>1, <2>2, <2>3, FS_Union
<1>6. IsFiniteSet(Terms(A) \X Terms(A) \X Terms(A))
  <2> DEFINE X == Terms(A)
             Y == {<<p[1][1], p[1][2], p[2]>> : p \in (X \X X) \X X}
  <2>1. IsFiniteSet((X \X X) \X X)
    BY <1>5, FS_Product
  <2>2. [p \in (X \X X) \X X |-> <<p[1][1], p[1][2], p[2]>>] \in Surjection((X \X X) \X X, Y)
    BY DEF Surjection
  <2>3. IsFiniteSet(Y)
    BY <2>1, <2>2, FS_Surjection
  <2>4. X \X X \X X \subseteq Y
    <3> SUFFICES ASSUME NEW t \in X \X X \X X PROVE t \in Y
      OBVIOUS
    <3> DEFINE p == << <<t[1], t[2]>>, t[3]>>
    <3>1. p \in (X \X X) \X X /\ t = <<p[1][1], p[1][2], p[2]>>
      OBVIOUS
    <3> HIDE DEF p
    <3> QED BY <3>1
  <2> HIDE DEF X, Y
  <2> QED BY <2>3, <2>4, FS_Subset DEF X
<1> QED BY <1>5, <1>6, FS_Subset DEF Triples

\* Loading more only adds terms.
LEMMA TermsGrow ==
  ASSUME NEW A, NEW B, A \subseteq B
  PROVE  Terms(A) \subseteq Terms(B) /\ Triples(A) \subseteq Triples(B)
<1>1. Terms(A) \subseteq Terms(B)
  BY DEF Terms
<1> QED BY <1>1 DEF Triples

\* They are a set of terms in the sense of RuleProofs.
LEMMA TermsAreTermSet ==
  ASSUME NEW A, AllWellFormed(A)
  PROVE  TermSet(Terms(A)) /\ Over(Terms(A), A)
<1>1. \A l \in Terms(A) \cap Literals : DatatypeOf[l] \in Terms(A)
  <2> SUFFICES ASSUME NEW l \in Terms(A) \cap Literals PROVE DatatypeOf[l] \in Terms(A)
    OBVIOUS
  <2>1. l \notin Vocabulary /\ l \notin BuiltinDatatypes
    BY VocabularyIsIris, DatatypesAreIris
  <2>2. \A t \in A : l # t[1] /\ l # t[2]
    BY DEF AllWellFormed, WellFormed, Node, Iri
  <2>3. \A t \in A : ~Node(t[3]) => l # DatatypeOf[t[3]]
    BY DatatypesAreIris DEF Node
  <2>4. PICK t \in A : l = t[3]
    BY <2>1, <2>2, <2>3 DEF Terms
  <2> QED BY <2>4 DEF Terms, Node
<1>2. Vocabulary \cup BuiltinDatatypes \subseteq Terms(A)
  BY DEF Terms
<1>3. Over(Terms(A), A)
  BY DEF Over, Proper, AllWellFormed, Terms
<1> QED BY <1>1, <1>2, <1>3 DEF TermSet

\* Being over them is being one of the triples.
LEMMA OverIsTriples ==
  ASSUME NEW A, NEW G
  PROVE  Over(Terms(A), G) <=> G \subseteq Triples(A)
BY DEF Over, Proper, Triples, WellFormed

\* What the loop keeps beyond its types: only finitely many triples were
\* ever loaded.
IInv == TypeOK /\ IsFiniteSet(asserted)

\* Then every graph of the loop is finite and over the terms.
LEMMA GraphOver ==
  ASSUME IInv
  PROVE  /\ AllWellFormed(asserted) /\ TermSet(Terms(asserted))
         /\ IsFiniteSet(Graph) /\ Over(Terms(asserted), Graph)
<1>1. AllWellFormed(asserted)
  BY AxiomsWellFormed DEF IInv, TypeOK, AllWellFormed
<1>2. TermSet(Terms(asserted)) /\ asserted \subseteq Triples(asserted)
  BY <1>1, TermsAreTermSet, OverIsTriples
<1>3. inferred \subseteq Triples(asserted)
  BY DEF IInv, TypeOK
<1>4. Graph \subseteq Triples(asserted)
  BY <1>2, <1>3 DEF Graph
<1>5. IsFiniteSet(Graph)
  BY <1>4, TermsFinite, FS_Subset DEF IInv
<1> QED BY <1>1, <1>2, <1>4, <1>5, OverIsTriples

\* Every graph of the loop is one the store takes.
LEMMA GraphWellFormed == ASSUME IInv PROVE AllWellFormed(Graph)
BY GraphOver, OverIsWellFormed

\* An iteration stays within the terms of what was loaded.
LEMMA DerivationsOver ==
  ASSUME IInv, NEW derived \in Derivations
  PROVE  derived \subseteq Triples(asserted)
<1>1. PICK c \in CardinalityOutcomes(Graph) :
        derived = DeterminateRules(Graph, options.saturation, options.reflexive) \cup c
  BY DEF Derivations
<1>2. Over(Terms(asserted), DeterminateRules(Graph, options.saturation, options.reflexive))
  BY GraphOver, DerivedOver
<1>3. Over(Terms(asserted), c)
  BY GraphOver, CardinalityOver
<1> QED BY <1>1, <1>2, <1>3, OverIsTriples

\* The invariant holds before anything is loaded,
LEMMA InitTypes == Init => IInv
<1> SUFFICES ASSUME Init PROVE IInv
  OBVIOUS
<1>1. iteration \in 0..MaxIterations
  BY IterationsNat DEF Init
<1>2. IsFiniteSet(asserted)
  BY FS_EmptySet DEF Init
<1> QED BY <1>1, <1>2 DEF Init, IInv, TypeOK

\* is kept by every step, whichever derivation an iteration makes,
LEMMA StepTypes == IInv /\ [Next]_vars => IInv'
<1> SUFFICES ASSUME IInv, [Next]_vars PROVE IInv'
  OBVIOUS
<1> USE DEF IInv
<1>1. ASSUME NEW axiom \in workload.axioms, Load(axiom) PROVE IInv'
  <2>1. IsFiniteSet(asserted')
    BY <1>1, AxiomsWellFormed, FS_Union DEF Load, TypeOK
  <2>2. Triples(asserted) \subseteq Triples(asserted')
    BY <1>1, TermsGrow DEF Load
  <2> QED BY <1>1, <2>1, <2>2 DEF Load, TypeOK
<1>2. CASE Begin
  BY <1>2 DEF Begin, TypeOK
<1>3. CASE Iterate
  <2>1. PICK derived \in Derivations :
          /\ inferred' = inferred \cup derived
          /\ running' = (inferred' # inferred)
          /\ iteration' = IF running' THEN iteration + 1 ELSE 0
          /\ atFixpoint' = (running' => atFixpoint)
    BY <1>3 DEF Iterate
  <2>2. derived \subseteq Triples(asserted)
    BY DerivationsOver
  <2>3. inferred' \subseteq Triples(asserted)
    BY <2>1, <2>2 DEF TypeOK
  <2>4. iteration' \in 0..MaxIterations /\ running' \in BOOLEAN /\ atFixpoint' \in BOOLEAN
    BY <1>3, <2>1, IterationsNat DEF Iterate, TypeOK
  <2> QED BY <1>3, <2>3, <2>4 DEF Iterate, TypeOK
<1>4. CASE GiveUp
  <2>1. iteration' \in 0..MaxIterations
    BY <1>4, IterationsNat DEF GiveUp
  <2> QED BY <1>4, <2>1 DEF GiveUp, TypeOK
<1>5. CASE UNCHANGED vars
  BY <1>5 DEF vars, TypeOK
<1> QED BY <1>1, <1>2, <1>3, <1>4, <1>5 DEF Next

\* and so always holds.
LEMMA InvariantHolds == Spec => []IInv
BY InitTypes, StepTypes, PTL DEF Spec

\* The loop stays within its iterations, and writes only triples the store
\* takes, over the terms of what was loaded, the vocabulary and datatypes.
THEOREM TypeCorrect == Spec => []TypeOK
<1>1. IInv => TypeOK
  BY DEF IInv
<1> QED BY <1>1, InvariantHolds, PTL

\* The walker finds exactly the well-formed lists, in every graph the loop
\* passes through.
THEOREM WalkListExactHolds == Spec => []WalkListExact
<1>1. IInv => WalkListExact
  BY GraphOver, GraphWellFormed, ListsExact DEF WalkListExact
<1> QED BY <1>1, InvariantHolds, PTL

-----------------------------------------------------------------------------
(* The fixpoint contract.                                                  *)

\* If every restriction names one property and one class, an iteration has one
\* outcome only.
LEMMA OneDerivation ==
  ASSUME SingleValued, NEW d \in Derivations, NEW e \in Derivations
  PROVE  d = e
<1> DEFINE P == LastInserted(OnProperties(Graph))
           K == LastInserted(OnClasses(Graph))
           Outcome(m) == ClsMaxC2(Graph, m[1]) \cup ClsMaxQc3(Graph, m[2], m[4])
                           \cup ClsMaxQc4(Graph, m[3], m[5])
<1>1. \A f, g \in P : f = g
  BY OneFunctionInside DEF SingleValued
<1>2. \A f, g \in K : f = g
  BY OneFunctionInside DEF SingleValued
<1>3. CardinalityOutcomes(Graph) = {Outcome(m) : m \in P \X P \X P \X K \X K}
  BY DEF CardinalityOutcomes
<1>4. \A m, n \in P \X P \X P \X K \X K : m = n
  BY <1>1, <1>2
<1>5. \A c, b \in CardinalityOutcomes(Graph) : c = b
  BY <1>3, <1>4
<1> QED BY <1>5 DEF Derivations

\* After a call that succeeded the rules derive nothing that is not there.
Saturated == atFixpoint /\ SingleValued => \A derived \in Derivations : derived \subseteq inferred

\* A graph whose restrictions name one property and one class had no second one
\* before it grew.
LEMMA SingleValuedEarlier ==
  ASSUME NEW G, NEW H, G \subseteq H,
         Functional(OnProperties(H)), Functional(OnClasses(H))
  PROVE  Functional(OnProperties(G)) /\ Functional(OnClasses(G))
<1>1. OnProperties(G) \subseteq OnProperties(H) /\ OnClasses(G) \subseteq OnClasses(H)
  BY DEF OnProperties, OnClasses, Pairs
<1> QED BY <1>1 DEF Functional

\* Only a call that found nothing new sets the flag, and loading resets it.
LEMMA StepSaturated == Saturated /\ [Next]_vars => Saturated'
<1> SUFFICES ASSUME Saturated, [Next]_vars, atFixpoint', SingleValued'
             PROVE  (\A derived \in Derivations : derived \subseteq inferred)'
  BY DEF Saturated
<1>1. ASSUME NEW axiom \in workload.axioms, Load(axiom) PROVE FALSE
  BY <1>1 DEF Load
<1>2. CASE Begin \/ UNCHANGED vars
  <2>1. UNCHANGED <<asserted, inferred, options, atFixpoint>>
    BY <1>2 DEF Begin, vars
  <2>2. Graph' = Graph /\ Derivations' = Derivations /\ SingleValued
    BY <2>1 DEF Graph, Derivations, SingleValued
  <2> QED BY <2>1, <2>2 DEF Saturated
<1>3. CASE Iterate
  <2>1. PICK derived \in Derivations :
          /\ inferred' = inferred \cup derived
          /\ running' = (inferred' # inferred)
          /\ atFixpoint' = (running' => atFixpoint)
    BY <1>3 DEF Iterate
  <2>2. Graph \subseteq Graph'
    BY <1>3, <2>1 DEF Iterate, Graph
  <2>3. SingleValued
    BY <2>2, SingleValuedEarlier DEF SingleValued
  <2>4. derived \subseteq inferred
    BY <2>1, <2>3 DEF Saturated
  <2>5. Graph' = Graph /\ inferred' = inferred /\ options' = options
    BY <1>3, <2>1, <2>4 DEF Iterate, Graph
  <2>6. Derivations' = Derivations
    BY <2>5 DEF Derivations
  <2> QED BY <2>1, <2>3, <2>4, <2>5, <2>6, OneDerivation
<1>4. CASE GiveUp
  BY <1>4 DEF GiveUp
<1> QED BY <1>1, <1>2, <1>3, <1>4 DEF Next

\* Therefore it always tells the truth.
LEMMA SaturatedHolds == Spec => []Saturated
<1>1. Init => Saturated
  BY DEF Init, Saturated
<1> QED BY <1>1, StepSaturated, PTL DEF Spec

\* "Fixpoint contract": after a call that succeeded, calls on the same input
\* derive nothing, as long as no class is restricted on two properties or
\* qualified by two classes.  Without that the contract is broken: see run
\* materialise_second_call.
THEOREM FixpointContractHolds == Spec /\ []SingleValued => FixpointContract
<1>1. Saturated /\ SingleValued /\ [Next]_vars => [atFixpoint => inferred' = inferred]_vars
  <2> SUFFICES ASSUME Saturated, SingleValued, [Next]_vars, atFixpoint PROVE inferred' = inferred \/ UNCHANGED vars
    OBVIOUS
  <2>1. ASSUME NEW axiom \in workload.axioms, Load(axiom) PROVE inferred' = inferred
    BY <2>1 DEF Load
  <2>2. CASE Begin \/ GiveUp
    BY <2>2 DEF Begin, GiveUp
  <2>3. CASE Iterate
    BY <2>3 DEF Iterate, Saturated
  <2> QED BY <2>1, <2>2, <2>3 DEF Next
<1> QED BY <1>1, SaturatedHolds, PTL DEF Spec, FixpointContract

-----------------------------------------------------------------------------
(* Incremental calls.                                                      *)

\* The rules lead nowhere outside the triples of the loop,
LEMMA AllRulesOver ==
  ASSUME IInv, NEW G, G \subseteq Triples(asserted)
  PROVE  AllRules(G) \subseteq Triples(asserted) /\ IsFiniteSet(G) /\ AllWellFormed(G)
<1>1. TermSet(Terms(asserted)) /\ Over(Terms(asserted), G)
  BY GraphOver, OverIsTriples
<1>2. IsFiniteSet(G)
  BY TermsFinite, FS_Subset DEF IInv
<1>3. Over(Terms(asserted), DeterminateRules(G, options.saturation, options.reflexive))
  BY <1>1, <1>2, DerivedOver
<1>4. \A c \in CardinalityOutcomes(G) : Over(Terms(asserted), c)
  BY <1>1, CardinalityOver
<1>5. Over(Terms(asserted), UNION CardinalityOutcomes(G))
  BY <1>4, UnionOver
<1>6. AllRules(G) \subseteq Triples(asserted)
  BY <1>3, <1>5, OverIsTriples DEF AllRules
<1> QED BY <1>1, <1>2, <1>6, OverIsWellFormed

\* and grow with the graph unless a list becomes ambiguous.
LEMMA AllRulesGrow ==
  ASSUME NEW G, NEW H, G \subseteq H, IsFiniteSet(H), AllWellFormed(H), Unambiguous(H)
  PROVE  AllRules(G) \subseteq AllRules(H)
BY RulesGrow DEF AllRules

\* The cardinality rules always have some outcome.
LEMMA SomeOutcome == ASSUME NEW G PROVE CardinalityOutcomes(G) # {}
<1>1. ASSUME NEW R, \A r \in R : r = <<r[1], r[2]>> PROVE LastInserted(R) # {}
  <2>1. [c \in {} |-> c] \in LastInserted({})
    BY DEF LastInserted
  <2>2. \E g \in LastInserted(R) : Extends([c \in {} |-> c], g)
    BY <1>1, <2>1, InsideExtends
  <2> QED BY <2>2
<1>2. PICK f \in LastInserted(OnProperties(G)) : TRUE
  <2>1. \A r \in OnProperties(G) : r = <<r[1], r[2]>>
    BY DEF OnProperties, Pairs
  <2> QED BY <1>1, <2>1
<1>3. PICK g \in LastInserted(OnClasses(G)) : TRUE
  <2>1. \A r \in OnClasses(G) : r = <<r[1], r[2]>>
    BY DEF OnClasses, Pairs
  <2> QED BY <1>1, <2>1
<1> DEFINE P == LastInserted(OnProperties(G))
           C == LastInserted(OnClasses(G))
           Outcome(m) == ClsMaxC2(G, m[1]) \cup ClsMaxQc3(G, m[2], m[4]) \cup ClsMaxQc4(G, m[3], m[5])
<1>4. <<f, f, f, g, g>> \in P \X P \X P \X C \X C
  BY <1>2, <1>3
<1>5. CardinalityOutcomes(G) = {Outcome(m) : m \in P \X P \X P \X C \X C}
  BY DEF CardinalityOutcomes
<1> HIDE DEF P, C, Outcome
<1> QED BY <1>4, <1>5

\* What an iteration derives, the rules may derive.
LEMMA DerivationsAreRules ==
  /\ \A derived \in Derivations : derived \subseteq AllRules(Graph)
  /\ \A I : (\A derived \in Derivations : derived \subseteq I) => AllRules(Graph) \subseteq I
<1> DEFINE D == DeterminateRules(Graph, options.saturation, options.reflexive)
<1>1. Derivations = {D \cup c : c \in CardinalityOutcomes(Graph)}
  BY DEF Derivations
<1>2. AllRules(Graph) = D \cup UNION CardinalityOutcomes(Graph)
  BY DEF AllRules
<1> HIDE DEF D
<1>3. \A derived \in Derivations : derived \subseteq AllRules(Graph)
  BY <1>1, <1>2
<1>4. ASSUME NEW I, \A derived \in Derivations : derived \subseteq I
      PROVE  AllRules(Graph) \subseteq I
  <2>1. \A c \in CardinalityOutcomes(Graph) : D \cup c \subseteq I
    BY <1>1, <1>4
  <2>2. CardinalityOutcomes(Graph) # {}
    BY SomeOutcome
  <2>3. D \subseteq I
    BY <2>1, <2>2
  <2>4. \A c \in CardinalityOutcomes(Graph) : c \subseteq I
    BY <2>1
  <2> QED BY <1>2, <2>3, <2>4
<1> QED BY <1>3, <1>4

\* The inferred graph is part of every set of conclusions that the rules,
\* applied to it and to what is asserted, do not lead out of.
Closed(J) ==
  /\ IsFiniteSet(J) /\ AllWellFormed(J)
  /\ Unambiguous(asserted \cup J)
  /\ AllRules(asserted \cup J) \subseteq J
Least == \A J : Closed(J) => inferred \subseteq J

\* With what is asserted, such a set is a graph that RulesGrow speaks of.
LEMMA ClosedGraph ==
  ASSUME IInv, NEW J, Closed(J)
  PROVE  IsFiniteSet(asserted \cup J) /\ AllWellFormed(asserted \cup J)
<1>1. AllWellFormed(asserted) /\ IsFiniteSet(asserted)
  BY GraphOver DEF IInv
<1> QED BY <1>1, FS_Union DEF Closed, AllWellFormed

\* Each step keeps the inferred graph within every closed set: what an
\* iteration adds, a closed set has by monotonicity.
LEMMA StepLeast == IInv /\ IInv' /\ Least /\ [Next]_vars => Least'
<1> SUFFICES ASSUME IInv, IInv', Least, [Next]_vars, NEW J, Closed(J)'
             PROVE  inferred' \subseteq J
  BY DEF Least
<1>1. ASSUME NEW axiom \in workload.axioms, Load(axiom) PROVE inferred' \subseteq J
  <2>1. inferred' = inferred /\ options' = options /\ asserted \subseteq asserted'
    BY <1>1 DEF Load
  <2>2. IsFiniteSet(asserted' \cup J) /\ AllWellFormed(asserted' \cup J)
    <3>1. AllWellFormed(asserted') /\ IsFiniteSet(asserted')
      BY AxiomsWellFormed DEF IInv, TypeOK, AllWellFormed
    <3>2. IsFiniteSet(J) /\ AllWellFormed(J)
      BY DEF Closed
    <3> QED BY <3>1, <3>2, FS_Union DEF AllWellFormed
  <2>3. Unambiguous(asserted' \cup J)
    BY DEF Closed
  <2>4. Unambiguous(asserted \cup J)
    BY <2>1, <2>3 DEF Unambiguous
  <2> DEFINE Rules(G) == DeterminateRules(G, options.saturation, options.reflexive)
                           \cup UNION CardinalityOutcomes(G)
  <2>5. Rules(asserted \cup J) \subseteq Rules(asserted' \cup J)
    <3>1. asserted \cup J \subseteq asserted' \cup J
      BY <2>1
    <3> QED BY <2>2, <2>3, <3>1, RulesGrow
  <2>6. Rules(asserted' \cup J) \subseteq J
    BY <2>1 DEF Closed, AllRules
  <2>7. Closed(J)
    BY <2>4, <2>5, <2>6 DEF Closed, AllRules
  <2> QED BY <2>1, <2>7 DEF Least
<1>2. CASE Iterate
  <2>1. PICK derived \in Derivations : inferred' = inferred \cup derived
    BY <1>2 DEF Iterate
  <2>2. asserted' = asserted /\ options' = options
    BY <1>2 DEF Iterate
  <2>3. Closed(J)
    BY <2>2 DEF Closed, AllRules
  <2>4. inferred \subseteq J
    BY <2>3 DEF Least
  <2>5. Graph \subseteq asserted \cup J
    BY <2>4 DEF Graph
  <2>6. AllRules(Graph) \subseteq AllRules(asserted \cup J)
    BY <2>3, <2>5, AllRulesGrow, ClosedGraph DEF Closed
  <2>7. derived \subseteq J
    BY <2>3, <2>6, DerivationsAreRules DEF Closed
  <2> QED BY <2>1, <2>4, <2>7
<1>3. CASE Begin \/ GiveUp \/ UNCHANGED vars
  <2>1. UNCHANGED <<asserted, inferred, options>>
    BY <1>3 DEF Begin, GiveUp, vars
  <2>2. Closed(J)
    BY <2>1 DEF Closed, AllRules
  <2> QED BY <2>1, <2>2 DEF Least
<1> QED BY <1>1, <1>2, <1>3 DEF Next

\* So the inferred graph is never more than the least such set.
LEMMA LeastHolds == Spec => []Least
<1>1. Init => Least
  BY DEF Init, Least
<1> QED BY <1>1, StepLeast, InvariantHolds, PTL DEF Spec

\* What the rules add to I, and where adding it leads.
Added(I) == I \cup AllRules(asserted \cup I)
IsGrowth(grow) ==
  grow = [I \in SUBSET Triples(asserted) |-> IF Added(I) = I THEN I ELSE grow[Added(I)]]

\* It stays within the triples, adds, and leaves fewer to add.
LEMMA AddedStays ==
  ASSUME IInv, NEW I \in SUBSET Triples(asserted)
  PROVE  /\ Added(I) \in SUBSET Triples(asserted)
         /\ I \subseteq Added(I)
         /\ Added(I) # I => Cardinality(Triples(asserted) \ Added(I)) < Cardinality(Triples(asserted) \ I)
<1>1. AllWellFormed(asserted) /\ asserted \subseteq Triples(asserted)
  BY GraphOver, TermsAreTermSet, OverIsTriples
<1>2. AllRules(asserted \cup I) \subseteq Triples(asserted)
  BY <1>1, AllRulesOver
<1>3. Added(I) \in SUBSET Triples(asserted) /\ I \subseteq Added(I)
  BY <1>2 DEF Added
<1>4. ASSUME Added(I) # I
      PROVE  Cardinality(Triples(asserted) \ Added(I)) < Cardinality(Triples(asserted) \ I)
  <2>1. IsFiniteSet(Triples(asserted))
    BY TermsFinite DEF IInv
  <2>2. IsFiniteSet(Triples(asserted) \ I)
    BY <2>1, FS_Subset
  <2>3. /\ Triples(asserted) \ Added(I) \subseteq Triples(asserted) \ I
        /\ Triples(asserted) \ Added(I) # Triples(asserted) \ I
    BY <1>3, <1>4
  <2>4. IsFiniteSet(Triples(asserted) \ Added(I))
    BY <2>1, FS_Subset
  <2>5. /\ Cardinality(Triples(asserted) \ Added(I)) \in Nat
        /\ Cardinality(Triples(asserted) \ I) \in Nat
    BY <2>2, <2>4, FS_CardinalityType
  <2>6. /\ Cardinality(Triples(asserted) \ Added(I)) <= Cardinality(Triples(asserted) \ I)
        /\ Cardinality(Triples(asserted) \ Added(I)) # Cardinality(Triples(asserted) \ I)
    BY <2>2, <2>3, FS_Subset
  <2> QED BY <2>5, <2>6
<1> QED BY <1>3, <1>4

\* Adding what the rules derive, until nothing changes, is well defined: each
\* round leaves fewer triples to add.
LEMMA GrowthSolved == ASSUME IInv PROVE \E grow : IsGrowth(grow)
<1> DEFINE T == Triples(asserted)
           S == SUBSET T
           rank == [I \in S |-> Cardinality(T \ I)]
           Value(I, f) == IF Added(I) = I THEN I ELSE f[Added(I)]
           D == [y \in S \X [S -> S] |-> Value(y[1], y[2])]
           bound == Cardinality(T) + 1
<1>1. IsFiniteSet(T) /\ Cardinality(T) \in Nat
  BY TermsFinite, FS_CardinalityType DEF IInv
<1>2. \A I \in S : rank[I] \in Nat /\ rank[I] < bound
  <2> SUFFICES ASSUME NEW I \in S PROVE rank[I] \in Nat /\ rank[I] < bound
    OBVIOUS
  <2>1. IsFiniteSet(T \ I) /\ Cardinality(T \ I) <= Cardinality(T)
    BY <1>1, FS_Subset
  <2>2. Cardinality(T \ I) \in Nat
    BY <2>1, FS_CardinalityType
  <2> QED BY <1>1, <2>1, <2>2
<1>3. \A I \in S : Added(I) \in S /\ (Added(I) # I => rank[Added(I)] < rank[I])
  BY AddedStays
<1>4. rank \in [S -> Nat]
  BY <1>2
<1>5. \A I \in S, f \in [S -> S] : D[<<I, f>>] = Value(I, f)
  OBVIOUS
<1> HIDE DEF S, rank, bound, D
<1>6. \A I \in S, f \in [S -> S] : D[<<I, f>>] \in S
  BY <1>3, <1>5
<1>7. \A I \in S, f, g \in [S -> S] :
        (\A y \in S : rank[y] < rank[I] => f[y] = g[y]) => D[<<I, f>>] = D[<<I, g>>]
  BY <1>3, <1>5
<1>8. Recursion(S, S, rank, bound, D)
  <2>1. S # {}
    BY DEF S
  <2>2. bound \in Nat
    BY <1>1 DEF bound
  <2> QED BY <1>2, <1>4, <1>6, <1>7, <2>1, <2>2 DEF Recursion
<1>9. PICK f \in [S -> S] : f = [I \in S |-> D[<<I, f>>]]
  BY <1>8, RecursionSolved
<1>10. [I \in S |-> D[<<I, f>>]] = [I \in S |-> Value(I, f)]
  BY <1>5
<1>11. f = [I \in S |-> Value(I, f)]
  BY <1>9, <1>10
<1> QED BY <1>11 DEF IsGrowth, S

\* One call from nothing computes it.
LEMMA FromScratchGrows ==
  ASSUME IInv
  PROVE  \E grow : IsGrowth(grow) /\ FromScratch = grow[{}]
<1> DEFINE G == CHOOSE grow : IsGrowth(grow)
<1>1. IsGrowth(G)
  BY GrowthSolved
<1>2. FromScratch = G[{}]
  BY DEF FromScratch, IsGrowth, Added
<1> QED BY <1>1, <1>2

\* The rules lead out of no set that growing ends in, and growing from inside
\* a set they do not lead out of ends inside it.
LEMMA GrowthClosed ==
  ASSUME IInv, NEW grow, IsGrowth(grow)
  PROVE  \A I \in SUBSET Triples(asserted) :
           /\ grow[I] \in SUBSET Triples(asserted)
           /\ AllRules(asserted \cup grow[I]) \subseteq grow[I]
           /\ Unambiguous(Graph) /\ AllRules(Graph) \subseteq inferred /\ I \subseteq inferred
                => grow[I] \subseteq inferred
<1> DEFINE T == Triples(asserted)
           S == SUBSET T
           rank == [I \in S |-> Cardinality(T \ I)]
           Settled == Unambiguous(Graph) /\ AllRules(Graph) \subseteq inferred
           Settles(I) == /\ grow[I] \in S
                         /\ AllRules(asserted \cup grow[I]) \subseteq grow[I]
                         /\ Settled /\ I \subseteq inferred => grow[I] \subseteq inferred
           P == {I \in S : Settles(I)}
<1>1. rank \in [S -> Nat]
  <2> SUFFICES ASSUME NEW I \in S PROVE Cardinality(T \ I) \in Nat
    OBVIOUS
  <2>1. IsFiniteSet(T \ I)
    BY TermsFinite, FS_Subset DEF IInv
  <2> QED BY <2>1, FS_CardinalityType
<1>2. ASSUME NEW I \in S, \A J \in S : rank[J] < rank[I] => J \in P
      PROVE  I \in P
  <2>1. grow[I] = IF Added(I) = I THEN I ELSE grow[Added(I)]
    BY DEF IsGrowth
  <2>2. CASE Added(I) = I
    <3>1. grow[I] = I
      BY <2>1, <2>2
    <3>2. AllRules(asserted \cup I) \subseteq I
      BY <2>2 DEF Added
    <3> QED BY <3>1, <3>2
  <2>3. CASE Added(I) # I
    <3>1. grow[I] = grow[Added(I)]
      BY <2>1, <2>3
    <3>2. Added(I) \in S /\ rank[Added(I)] < rank[I]
      BY <2>3, AddedStays
    <3>3. Settles(Added(I))
      <4> HIDE DEF S, rank, Settles
      <4> QED BY <1>2, <3>2
    <3>4. ASSUME Settled, I \subseteq inferred PROVE Added(I) \subseteq inferred
      <4>1. IsFiniteSet(Graph) /\ AllWellFormed(Graph)
        BY GraphOver, GraphWellFormed
      <4>2. asserted \cup I \subseteq Graph
        BY <3>4 DEF Graph
      <4>3. AllRules(asserted \cup I) \subseteq AllRules(Graph)
        BY <3>4, <4>1, <4>2, AllRulesGrow
      <4> QED BY <3>4, <4>3 DEF Added
    <3> QED BY <3>1, <3>3, <3>4
  <2> QED BY <2>2, <2>3
<1>3. S \subseteq P
  <2> HIDE DEF S, rank, P
  <2> QED BY <1>1, <1>2, RankInduction
<1>4. \A I \in S : Settles(I)
  <2> HIDE DEF S, Settles
  <2> QED BY <1>3
<1> QED BY <1>4

\* However loading, materialising and running into the limit interleave, a
\* call that succeeds leaves what one call on the whole asserted graph would
\* have derived, for every ontology: the inferred graph is part of every
\* closed set of conclusions, and holds what the rules grow from nothing.
THEOREM IncrementalIsBatchHolds == Spec => []IncrementalIsBatch
<1>1. IInv /\ Saturated /\ Least => IncrementalIsBatch
  <2> SUFFICES ASSUME IInv, Saturated, Least, atFixpoint, SingleValued, Unambiguous(Graph)
               PROVE  inferred = FromScratch
    BY DEF IncrementalIsBatch
  <2>1. AllRules(Graph) \subseteq inferred
    BY DerivationsAreRules DEF Saturated
  <2>2. Unambiguous(Graph)
    OBVIOUS
  <2>3. PICK grow : IsGrowth(grow) /\ FromScratch = grow[{}]
    BY FromScratchGrows
  <2>4. /\ FromScratch \in SUBSET Triples(asserted)
        /\ AllRules(asserted \cup FromScratch) \subseteq FromScratch
        /\ FromScratch \subseteq inferred
    BY <2>1, <2>2, <2>3, GrowthClosed
  <2>5. IsFiniteSet(FromScratch) /\ AllWellFormed(FromScratch)
    BY <2>4, AllRulesOver
  <2>6. Unambiguous(asserted \cup FromScratch)
    BY <2>2, <2>4 DEF Unambiguous, Graph
  <2>7. Closed(FromScratch)
    BY <2>4, <2>5, <2>6 DEF Closed
  <2> QED BY <2>4, <2>7 DEF Least
<1> QED BY <1>1, InvariantHolds, SaturatedHolds, LeastHolds, PTL

-----------------------------------------------------------------------------
(* Soundness.  Every triple derived is true wherever the axioms are, or,   *)
(* where its meaning depends on other triples, it is one of the axioms up  *)
(* to individuals that are equal there.  Loading keeps that, since more    *)
(* axioms are true in fewer interpretations.                               *)

DerivedSound ==
  workload.meaningful =>
    \A I \in Models(workload.sig, asserted) : AllSound(workload.sig, I, asserted, inferred)

\* A part of a meaningful workload is meaningful too.
LEMMA LoadedMeaningful ==
  ASSUME IInv, workload.meaningful
  PROVE  /\ Meaningful(workload.sig, asserted)
         /\ Unambiguous(asserted) /\ AllWellFormed(asserted) /\ IsFiniteSet(asserted)
<1> DEFINE U == UNION workload.axioms
<1>1. IsFiniteSet(U) /\ Unambiguous(U) /\ Meaningful(workload.sig, U) /\ asserted \subseteq U
  BY MeaningIsMeant DEF IInv, TypeOK
<1>2. AllWellFormed(U)
  BY AxiomsWellFormed DEF IInv, TypeOK, AllWellFormed
<1>3. Unambiguous(asserted)
  BY <1>1 DEF Unambiguous
<1> HIDE DEF U
<1> QED BY <1>1, <1>2, <1>3, FewerAxioms, GraphOver DEF IInv

\* The graph fits every interpretation in which the axioms are true.
LEMMA GraphFits ==
  ASSUME IInv, DerivedSound, workload.meaningful, NEW I \in Models(workload.sig, asserted)
  PROVE  Fits(workload.sig, I, asserted, Graph)
<1>1. Meaningful(workload.sig, asserted)
  BY LoadedMeaningful
<1>2. I \in Interpretations(workload.sig) /\ \A t \in asserted : True(workload.sig, I, WithLists(asserted), t)
  BY DEF Models
<1>3. \A t \in asserted : Sound(workload.sig, I, asserted, t)
  BY <1>1, AxiomsSound
<1>4. \A t \in inferred : Sound(workload.sig, I, asserted, t)
  BY DEF DerivedSound, AllSound
<1>5. asserted \subseteq Graph /\ IsFiniteSet(Graph) /\ AllWellFormed(Graph)
  BY GraphOver, GraphWellFormed DEF Graph
<1>6. \A t \in Graph : Sound(workload.sig, I, asserted, t)
  BY <1>3, <1>4 DEF Graph
<1> QED BY <1>1, <1>2, <1>5, <1>6 DEF Fits

\* Each step keeps what is derived sound.
LEMMA StepSound == IInv /\ IInv' /\ DerivedSound /\ [Next]_vars => DerivedSound'
<1> SUFFICES ASSUME IInv, IInv', DerivedSound, [Next]_vars, workload.meaningful',
                    NEW I \in Models(workload.sig, asserted)', NEW t \in inferred'
             PROVE  Sound(workload'.sig, I, asserted', t)
  BY DEF DerivedSound, AllSound
<1>1. workload' = workload /\ workload.meaningful
  BY DEF Next, Load, Begin, Iterate, GiveUp, vars
<1>2. ASSUME NEW axiom \in workload.axioms, Load(axiom) PROVE Sound(workload.sig, I, asserted', t)
  <2>1. asserted \subseteq asserted' /\ inferred' = inferred
    BY <1>2 DEF Load
  <2>2. IsFiniteSet(asserted') /\ AllWellFormed(asserted') /\ Unambiguous(asserted')
    BY <1>1, MeaningIsMeant, AxiomsWellFormed DEF IInv, TypeOK, AllWellFormed, Unambiguous
  <2>3. I \in Models(workload.sig, asserted)
    BY <1>1, <2>1, <2>2, FewerAxioms
  <2>4. Sound(workload.sig, I, asserted, t)
    BY <1>1, <2>1, <2>3 DEF DerivedSound, AllSound
  <2> QED BY <2>1, <2>4, SoundForMore
<1>3. CASE Iterate
  <2>1. PICK derived \in Derivations : inferred' = inferred \cup derived
    BY <1>3 DEF Iterate
  <2>2. asserted' = asserted
    BY <1>3 DEF Iterate
  <2>3. Fits(workload.sig, I, asserted, Graph)
    BY <1>1, <2>2, GraphFits
  <2>4. AllSound(workload.sig, I, asserted, derived)
    BY <2>3, RulesSound DEF Derivations, AllSound
  <2>5. AllSound(workload.sig, I, asserted, inferred)
    BY <1>1, <2>2 DEF DerivedSound
  <2> QED BY <1>1, <2>1, <2>2, <2>4, <2>5 DEF AllSound
<1>4. CASE Begin \/ GiveUp \/ UNCHANGED vars
  <2>1. UNCHANGED <<asserted, inferred>>
    BY <1>4 DEF Begin, GiveUp, vars
  <2> QED BY <1>1, <2>1 DEF DerivedSound, AllSound
<1> QED BY <1>1, <1>2, <1>3, <1>4 DEF Next

\* So it always is.
LEMMA DerivedSoundHolds == Spec => []DerivedSound
<1>1. Init => DerivedSound
  BY DEF Init, DerivedSound, AllSound
<1> QED BY <1>1, StepSound, InvariantHolds, PTL DEF Spec

\* Whatever a caller that uses the vocabulary as OWL intends loads, and
\* however its calls go, all that the rules derive is true in every
\* interpretation in which what it has loaded is.
THEOREM RulesAreSoundHolds == Spec => []RulesAreSound
<1>1. IInv /\ DerivedSound => RulesAreSound
  <2> SUFFICES ASSUME IInv, DerivedSound, workload.meaningful,
                      NEW I \in Models(workload.sig, asserted), NEW t \in Graph
               PROVE  True(workload.sig, I, WithLists(Graph), t)
    BY DEF RulesAreSound, AllTrue
  <2> QED BY GraphFits, GraphTrue
<1> QED BY <1>1, DerivedSoundHolds, InvariantHolds, PTL

-----------------------------------------------------------------------------
(* Tracking.                                                               *)

\* The triple of a quad.
Plain(q) == <<q[1], q[2], q[3]>>

\* The quads of the tracked variants are those of the graph the others read.
LEMMA QuadsOfGraph ==
  /\ \A t \in Graph : \E q \in Quads : q[1] = t[1] /\ q[2] = t[2] /\ q[3] = t[3]
  /\ \A q \in Quads : \E t \in Graph : q[1] = t[1] /\ q[2] = t[2] /\ q[3] = t[3]
<1>1. ASSUME NEW t \in Graph
      PROVE  \E q \in Quads : q[1] = t[1] /\ q[2] = t[2] /\ q[3] = t[3]
  <2>1. CASE t \in asserted
    <3>1. <<t[1], t[2], t[3], "asserted">> \in Quads
      BY <2>1 DEF Quads
    <3> QED BY <3>1
  <2>2. CASE t \in inferred
    <3>1. <<t[1], t[2], t[3], "inferred">> \in Quads
      BY <2>2 DEF Quads
    <3> QED BY <3>1
  <2> QED BY <2>1, <2>2 DEF Graph
<1>2. ASSUME NEW q \in Quads
      PROVE  \E t \in Graph : q[1] = t[1] /\ q[2] = t[2] /\ q[3] = t[3]
  BY DEF Quads, Graph
<1> QED BY <1>1, <1>2

\* Two pairs that meet compose.
LEMMA Composes ==
  ASSUME NEW R, NEW S, NEW a, NEW b, NEW c, <<a, b>> \in R, <<b, c>> \in S
  PROVE  <<a, c>> \in Compose(R, S)
<1>1. << <<a, b>>, <<b, c>> >> \in {y \in R \X S : y[1][2] = y[2][1]}
  OBVIOUS
<1> QED BY <1>1 DEF Compose

\* What a join of two predicates derives from the quads is the composition
\* of what they relate.
LEMMA JoinedIsComposed ==
  ASSUME NEW p, NEW q
  PROVE  /\ \A d \in Joined(With(Quads, p), With(Quads, q), p) :
              /\ d.triple \in Stating(Compose(Pairs(Graph, p), Pairs(Graph, q)), p)
              /\ LET H == {Plain(x) : x \in d.premises}
                 IN  d.triple \in Stating(Compose(Pairs(H, p), Pairs(H, q)), p)
         /\ \A t \in Stating(Compose(Pairs(Graph, p), Pairs(Graph, q)), p) :
              \E d \in Joined(With(Quads, p), With(Quads, q), p) : d.triple = t
<1> DEFINE A == With(Quads, p)
           B == With(Quads, q)
<1>1. ASSUME NEW d \in Joined(A, B, p)
      PROVE  /\ d.triple \in Stating(Compose(Pairs(Graph, p), Pairs(Graph, q)), p)
             /\ LET H == {Plain(x) : x \in d.premises}
                IN  d.triple \in Stating(Compose(Pairs(H, p), Pairs(H, q)), p)
  <2>1. PICK a \in A, b \in B :
          /\ a[3] = b[1]
          /\ d = [triple |-> <<a[1], p, b[3]>>, premises |-> {a, b}]
    BY <1>1 DEF Joined
  <2>2. ASSUME NEW H, <<a[1], a[3]>> \in Pairs(H, p), <<b[1], b[3]>> \in Pairs(H, q)
        PROVE  d.triple \in Stating(Compose(Pairs(H, p), Pairs(H, q)), p)
    <3>1. <<a[1], b[3]>> \in Compose(Pairs(H, p), Pairs(H, q))
      BY <2>1, <2>2, Composes
    <3> QED BY <2>1, <3>1 DEF Stating
  <2>3. <<a[1], a[3]>> \in Pairs(Graph, p) /\ <<b[1], b[3]>> \in Pairs(Graph, q)
    BY QuadsOfGraph DEF With, Pairs
  <2>4. ASSUME NEW H, H = {Plain(x) : x \in d.premises}
        PROVE  <<a[1], a[3]>> \in Pairs(H, p) /\ <<b[1], b[3]>> \in Pairs(H, q)
    <3>1. Plain(a) \in H /\ Plain(b) \in H
      BY <2>1, <2>4
    <3>2. Plain(a)[2] = p /\ Plain(b)[2] = q
      BY DEF Plain, With
    <3> QED BY <3>1, <3>2 DEF Pairs, Plain
  <2> QED BY <2>2, <2>3, <2>4
<1>2. ASSUME NEW t \in Stating(Compose(Pairs(Graph, p), Pairs(Graph, q)), p)
      PROVE  \E d \in Joined(A, B, p) : d.triple = t
  <2>1. PICK r \in Compose(Pairs(Graph, p), Pairs(Graph, q)) : t = <<r[1], p, r[2]>>
    BY DEF Stating
  <2>2. PICK u \in Graph, v \in Graph :
          u[2] = p /\ v[2] = q /\ u[3] = v[1] /\ r = <<u[1], v[3]>>
    BY <2>1 DEF Compose, Pairs
  <2>3. PICK a \in A : a[1] = u[1] /\ a[3] = u[3]
    BY <2>2, QuadsOfGraph DEF With
  <2>4. PICK b \in B : b[1] = v[1] /\ b[3] = v[3]
    BY <2>2, QuadsOfGraph DEF With
  <2>5. <<a, b>> \in A \X B /\ a[3] = b[1]
    BY <2>2, <2>3, <2>4
  <2>6. [triple |-> <<a[1], p, b[3]>>, premises |-> {a, b}] \in Joined(A, B, p)
    <3>1. <<a, b>> \in {y \in A \X B : y[1][3] = y[2][1]}
      BY <2>5
    <3> DEFINE Derivation(x) == [triple |-> <<x[1][1], p, x[2][3]>>, premises |-> {x[1], x[2]}]
    <3>2. Derivation(<<a, b>>) \in Joined(A, B, p)
      BY <3>1 DEF Joined
    <3> QED BY <3>2
  <2> QED BY <2>1, <2>2, <2>3, <2>4, <2>6
<1> QED BY <1>1, <1>2

\* prp-spo1 tests that a sub-property is an IRI, its tracked variant that the
\* predicate it equals is one; in a graph the store takes, it is.
LEMMA TrackedSpo1 ==
  ASSUME AllWellFormed(Graph)
  PROVE  /\ \A d \in TrackedPrpSpo1(Quads) :
              /\ d.triple \in PrpSpo1(Graph)
              /\ d.triple \in PrpSpo1({Plain(x) : x \in d.premises})
         /\ \A t \in PrpSpo1(Graph) : \E d \in TrackedPrpSpo1(Quads) : d.triple = t
<1> DEFINE B == With(Quads, "subPropertyOf")
<1>1. ASSUME NEW d \in TrackedPrpSpo1(Quads)
      PROVE  /\ d.triple \in PrpSpo1(Graph)
             /\ d.triple \in PrpSpo1({Plain(x) : x \in d.premises})
  <2>1. PICK a \in Quads, b \in B :
          /\ a[2] = b[1] /\ Iri(b[3])
          /\ d = [triple |-> <<a[1], b[3], a[3]>>, premises |-> {a, b}]
    BY <1>1 DEF TrackedPrpSpo1
  <2>2. Iri(a[2])
    BY QuadsOfGraph DEF AllWellFormed, WellFormed
  <2>3. ASSUME NEW H, NEW u \in H, u[1] = a[1], u[2] = a[2], u[3] = a[3],
               <<b[1], b[3]>> \in Pairs(H, "subPropertyOf")
        PROVE  d.triple \in PrpSpo1(H)
    <3>1. <<b[1], b[3]>> \in IriPairs(H, "subPropertyOf")
      BY <2>1, <2>2, <2>3 DEF IriPairs
    <3>2. <<u, <<b[1], b[3]>> >> \in {y \in H \X IriPairs(H, "subPropertyOf") : y[1][2] = y[2][1]}
      BY <2>1, <2>3, <3>1
    <3>3. <<u[1], b[3], u[3]>> \in Repredicated(H, IriPairs(H, "subPropertyOf"))
      BY <3>2 DEF Repredicated
    <3> QED BY <2>1, <2>3, <3>3 DEF PrpSpo1
  <2>4. PICK u \in Graph : u[1] = a[1] /\ u[2] = a[2] /\ u[3] = a[3]
    BY QuadsOfGraph
  <2>5. <<b[1], b[3]>> \in Pairs(Graph, "subPropertyOf")
    BY QuadsOfGraph DEF With, Pairs
  <2>6. ASSUME NEW H, H = {Plain(x) : x \in d.premises}
        PROVE  /\ \E v \in H : v[1] = a[1] /\ v[2] = a[2] /\ v[3] = a[3]
               /\ <<b[1], b[3]>> \in Pairs(H, "subPropertyOf")
    <3>1. Plain(a) \in H /\ Plain(b) \in H
      BY <2>1, <2>6
    <3>2. Plain(b)[2] = "subPropertyOf"
      BY DEF Plain, With
    <3> QED BY <3>1, <3>2 DEF Pairs, Plain
  <2> QED BY <2>3, <2>4, <2>5, <2>6
<1>2. ASSUME NEW t \in PrpSpo1(Graph)
      PROVE  \E d \in TrackedPrpSpo1(Quads) : d.triple = t
  <2>1. PICK u \in Graph, r \in IriPairs(Graph, "subPropertyOf") :
          u[2] = r[1] /\ t = <<u[1], r[2], u[3]>>
    BY <1>2 DEF PrpSpo1, Repredicated
  <2>2. PICK v \in Graph : v[2] = "subPropertyOf" /\ v[1] = r[1] /\ v[3] = r[2] /\ Iri(r[2])
    BY <2>1 DEF IriPairs, Pairs
  <2>3. PICK a \in Quads : a[1] = u[1] /\ a[2] = u[2] /\ a[3] = u[3]
    BY QuadsOfGraph
  <2>4. PICK b \in B : b[1] = r[1] /\ b[3] = r[2]
    BY <2>2, QuadsOfGraph DEF With
  <2>5. <<a, b>> \in {y \in Quads \X B : y[1][2] = y[2][1] /\ Iri(y[2][3])}
    BY <2>1, <2>2, <2>3, <2>4
  <2> DEFINE Derivation(x) == [triple |-> <<x[1][1], x[2][3], x[1][3]>>, premises |-> {x[1], x[2]}]
  <2>6. Derivation(<<a, b>>) \in TrackedPrpSpo1(Quads)
    BY <2>5 DEF TrackedPrpSpo1
  <2> QED BY <2>1, <2>3, <2>4, <2>6
<1> QED BY <1>1, <1>2

\* With tracking on, a call derives what it derives without, and records for
\* each triple premises from which the same rules derive it again.
THEOREM TrackingIsFaithfulHolds == Spec => []TrackingIsFaithful
<1>1. ASSUME AllWellFormed(Graph) PROVE TrackingIsFaithful
  <2> DEFINE D == TrackedRules(Quads)
  <2>1. ASSUME NEW d \in D
        PROVE  d.triple \in CoreRules(Graph) /\ d.triple \in CoreRules({Plain(x) : x \in d.premises})
    <3>1. CASE d \in TrackedTransitive(Quads, "subClassOf")
      BY <3>1, JoinedIsComposed DEF TrackedTransitive, CoreRules, ScmSco, Transitive
    <3>2. CASE d \in TrackedTransitive(Quads, "subPropertyOf")
      BY <3>2, JoinedIsComposed DEF TrackedTransitive, CoreRules, ScmSpo, Transitive
    <3>3. CASE d \in TrackedTransitive(Quads, "sameAs")
      BY <3>3, JoinedIsComposed DEF TrackedTransitive, CoreRules, EqTrans, Transitive
    <3>4. CASE d \in TrackedCaxSco(Quads)
      BY <3>4, JoinedIsComposed DEF TrackedCaxSco, CoreRules, CaxSco, SubClass
    <3>5. CASE d \in TrackedPrpSpo1(Quads)
      BY <1>1, <3>5, TrackedSpo1 DEF CoreRules
    <3> QED BY <2>1, <3>1, <3>2, <3>3, <3>4, <3>5 DEF TrackedRules
  <2>2. ASSUME NEW t \in CoreRules(Graph) PROVE \E d \in D : d.triple = t
    <3>1. CASE t \in ScmSco(Graph)
      BY <3>1, JoinedIsComposed DEF TrackedTransitive, TrackedRules, ScmSco, Transitive
    <3>2. CASE t \in ScmSpo(Graph)
      BY <3>2, JoinedIsComposed DEF TrackedTransitive, TrackedRules, ScmSpo, Transitive
    <3>3. CASE t \in EqTrans(Graph)
      BY <3>3, JoinedIsComposed DEF TrackedTransitive, TrackedRules, EqTrans, Transitive
    <3>4. CASE t \in CaxSco(Graph)
      BY <3>4, JoinedIsComposed DEF TrackedCaxSco, TrackedRules, CaxSco, SubClass
    <3>5. CASE t \in PrpSpo1(Graph)
      BY <1>1, <3>5, TrackedSpo1 DEF TrackedRules
    <3> QED BY <2>2, <3>1, <3>2, <3>3, <3>4, <3>5 DEF CoreRules
  <2>3. {d.triple : d \in D} = CoreRules(Graph)
    BY <2>1, <2>2
  <2> QED BY <2>1, <2>3 DEF TrackingIsFaithful, Plain
<1>2. IInv => TrackingIsFaithful
  BY <1>1, GraphWellFormed
<1> QED BY <1>2, InvariantHolds, PTL
=============================================================================
