--------------------------- MODULE Inconsistency ---------------------------
(***************************************************************************)
(* The seventeen detectors of rdf_owl_rl_consistent                        *)
(* (src/functions/rdf_owl_rl/inconsistency.rs): operators from graphs to   *)
(* the witnesses <<s, p, o>> they report.                                  *)
(*                                                                         *)
(* A graph is the union of the asserted and the inferred graph, as in      *)
(* OwlRlRules.  Of a pair that contradicts both ways a detector reports    *)
(* the smaller term; Rank stands for the order of the terms' N-Triples     *)
(* forms (of the bare IRIs, for properties).                               *)
(***************************************************************************)
EXTENDS OwlRlRules, Integers

CONSTANTS
  Rank,       \* term -> its position in the order of N-Triples forms
  Numeral,    \* literals that read as an integer -> that integer
  Booleans,   \* literals whose form is that of a boolean
  WordBound   \* i64 holds -WordBound .. WordBound - 1, u64 0 .. 2 * WordBound - 1

ASSUME WordPositive == WordBound \in Nat \ {0}
\* The order is total: different terms have different N-Triples forms.
ASSUME RankOrders ==
  /\ {"type", "sameAs", "Nothing"} \subseteq DOMAIN Rank
  /\ IsFiniteSet(DOMAIN Rank)
  /\ \A x, y \in DOMAIN Rank : Rank[x] \in Nat /\ (Rank[x] = Rank[y] => x = y)

\* Defect: whichever is met first.
FirstMet(x, y) == x

Smaller(x, y) == IF Rank[x] < Rank[y] THEN x ELSE y
Larger(x, y)  == IF Rank[x] < Rank[y] THEN y ELSE x
Smallest(S)   == CHOOSE x \in S : \A y \in S : Rank[x] <= Rank[y]

-----------------------------------------------------------------------------
(* Properties.                                                             *)

PrpIrp(G) == {t \in G : t[2] \in Properties(G, "IrreflexiveProperty") /\ t[1] = t[3]}

\* A pair of equal terms is left to prp-irp.
PrpAsyp(G) ==
  {t \in G : /\ t[2] \in Properties(G, "AsymmetricProperty")
             /\ Node(t[3])
             /\ Rank[t[1]] < Rank[t[3]]
             /\ <<t[3], t[2], t[1]>> \in G}

\* Pairs two different properties share.
Shared(G, p, q) ==
  IF p = q THEN {}
  ELSE {<<r[1], Smaller(p, q), r[2]>> : r \in Pairs(G, p) \cap Pairs(G, q)}

PrpPdw(G) == UNION {Shared(G, r[1], r[2]) : r \in IriPairs(G, "propertyDisjointWith")}

\* The lists of the containers of a kind, and the pairs in a list.
Contained(G, kind, predicates) ==
  UNION {Lists(G, t[3]) : t \in {u \in G : /\ u[1] \in Instances(G, kind)
                                           /\ u[2] \in predicates
                                           /\ Node(u[3])}}
PairsIn(l) == {<<l[i], l[j]>> : i, j \in DOMAIN l} \ {<<l[i], l[i]>> : i \in DOMAIN l}

PrpAdp(G) ==
  UNION {UNION {Shared(G, r[1], r[2]) : r \in {x \in PairsIn(l) : Iri(x[1]) /\ Iri(x[2])}} :
           l \in Contained(G, "AllDisjointProperties", {"members"})}

\* detect_npa: of several properties or targets of a negative assertion a
\* hash map keeps one.
Contradicted(G, literal, property, target) ==
  {t \in {<<r[2], property[r[1]], target[r[1]]>> :
            r \in {x \in NodePairs(G, "sourceIndividual") :
                     x[1] \in DOMAIN property \cap DOMAIN target}} :
     t \in G /\ (Node(t[3]) <=> ~literal)}

AssertionProperties(G) == {r \in Pairs(G, "assertionProperty") : Iri(r[2])}
PrpNpaOutcomes(G, literal, targets) ==
  {Contradicted(G, literal, m[1], m[2]) :
     m \in LastInserted(AssertionProperties(G)) \X LastInserted(Pairs(G, targets))}

-----------------------------------------------------------------------------
(* Classes.                                                                *)

ClsNothing2(G) == Typed(Instances(G, "Nothing"), "Nothing")

\* Instances two different classes share.
InBoth(G, c, d) ==
  IF c = d THEN {} ELSE Typed(Instances(G, c) \cap Instances(G, d), Smaller(c, d))

ClsCom(G) == UNION {InBoth(G, r[1], r[2]) : r \in Pairs(G, "complementOf")}
CaxDw(G)  == UNION {InBoth(G, r[1], r[2]) : r \in Pairs(G, "disjointWith")}
CaxAdc(G) ==
  UNION {UNION {InBoth(G, r[1], r[2]) : r \in PairsIn(l)} :
           l \in Contained(G, "AllDisjointClasses", {"members", "distinctMembers"})}

\* Classes limited to no value by a cardinality predicate.
IsZero(v)     == v \in DOMAIN LiteralValue /\ LiteralValue[v] = 0
None(G, limit) == {r[1] : r \in {q \in Pairs(G, limit) : IsZero(q[2])}}

\* An instance and the smallest of its excess values.
Excess(x, p, values) == IF values = {} THEN {} ELSE {<<x, p, Smallest(values)>>}

ClsMaxC1(G, on) ==
  UNION {UNION {Excess(x, on[c], Objects(G, x, on[c])) : x \in Instances(G, c)} :
           c \in None(G, "maxCardinality") \cap DOMAIN on}

\* Restrictions with a property and a filler, which is Thing or not.
NoneQualified(G, on, cls, thing) ==
  {c \in None(G, "maxQualifiedCardinality") \cap DOMAIN on \cap DOMAIN cls :
     (cls[c] = "Thing") <=> thing}

\* Defect: the values need not be of the filler class.
ClsMaxQc1Unfiltered(G, on, cls) ==
  UNION {UNION {Excess(x, on[c], Objects(G, x, on[c])) : x \in Instances(G, c)} :
           c \in NoneQualified(G, on, cls, FALSE)}

ClsMaxQc1(G, on, cls) ==
  UNION {UNION {Excess(x, on[c], Objects(G, x, on[c]) \cap Instances(G, cls[c])) :
                  x \in Instances(G, c)} :
           c \in NoneQualified(G, on, cls, FALSE)}
ClsMaxQc2(G, on, cls) ==
  UNION {UNION {Excess(x, on[c], Objects(G, x, on[c])) : x \in Instances(G, c)} :
           c \in NoneQualified(G, on, cls, TRUE)}

-----------------------------------------------------------------------------
(* Equality and datatypes.                                                 *)

\* Defect: sameAs is looked for in one direction only.
DifferentSameDirected(G, x, y) ==
  IF x # y /\ <<x, "sameAs", y>> \in G
    THEN {<<Smaller(x, y), "sameAs", Larger(x, y)>>} ELSE {}

\* Two different terms that are also the same, in either direction.
DifferentSame(G, x, y) ==
  IF x # y /\ (<<x, "sameAs", y>> \in G \/ <<y, "sameAs", x>> \in G)
    THEN {<<Smaller(x, y), "sameAs", Larger(x, y)>>} ELSE {}

EqDiff1(G) == UNION {DifferentSame(G, r[1], r[2]) : r \in Pairs(G, "differentFrom")}

\* eq-diff2 and eq-diff3.
AllDifferent(G, predicate) ==
  UNION {UNION {DifferentSame(G, r[1], r[2]) : r \in PairsIn(l)} :
           l \in Contained(G, "AllDifferent", {predicate})}

\* literal_violates_datatype: the integer family by i64 or u64, and booleans.
Signed   == {"integer", "long", "int", "short", "byte"}
Unsigned == {"nonNegativeInteger", "unsignedLong", "unsignedInt", "unsignedShort", "unsignedByte"}
Accepted(datatype) ==
  CASE datatype \in Signed               -> -WordBound .. WordBound - 1
    [] datatype \in Unsigned             -> 0 .. 2 * WordBound - 1
    [] datatype = "positiveInteger"      -> 1 .. 2 * WordBound - 1
    [] datatype = "nonPositiveInteger"   -> -WordBound .. 0
    [] datatype = "negativeInteger"      -> -WordBound .. -1

Violates(l) ==
  CASE DatatypeOf[l] = "boolean" -> l \notin Booleans
    [] DatatypeOf[l] \in Signed \cup Unsigned
                           \cup {"positiveInteger", "nonPositiveInteger", "negativeInteger"} ->
         ~(l \in DOMAIN Numeral /\ Numeral[l] \in Accepted(DatatypeOf[l]))
    [] OTHER -> FALSE

DtNotType(G) == {t \in G : ~Node(t[3]) /\ Violates(t[3])}

-----------------------------------------------------------------------------
\* INCONSISTENCY_RULES, in table order.
InconsistencyRules ==
  <<"prp-irp", "prp-asyp", "prp-pdw", "prp-adp", "prp-npa1", "prp-npa2", "cls-nothing2",
    "cls-com", "cls-maxc1", "cls-maxqc1", "cls-maxqc2", "cax-dw", "cax-adc", "eq-diff1",
    "eq-diff2", "eq-diff3", "dt-not-type">>

\* What a detector may find: one outcome, except where hash maps choose.
Outcomes(rule, G) ==
  CASE rule = "prp-irp"      -> {PrpIrp(G)}
    [] rule = "prp-asyp"     -> {PrpAsyp(G)}
    [] rule = "prp-pdw"      -> {PrpPdw(G)}
    [] rule = "prp-adp"      -> {PrpAdp(G)}
    [] rule = "prp-npa1"     -> PrpNpaOutcomes(G, FALSE, "targetIndividual")
    [] rule = "prp-npa2"     -> PrpNpaOutcomes(G, TRUE, "targetValue")
    [] rule = "cls-nothing2" -> {ClsNothing2(G)}
    [] rule = "cls-com"      -> {ClsCom(G)}
    [] rule = "cls-maxc1"    -> {ClsMaxC1(G, on) : on \in LastInserted(OnProperties(G))}
    [] rule = "cls-maxqc1"   -> {ClsMaxQc1(G, m[1], m[2]) :
                                   m \in LastInserted(OnProperties(G)) \X LastInserted(OnClasses(G))}
    [] rule = "cls-maxqc2"   -> {ClsMaxQc2(G, m[1], m[2]) :
                                   m \in LastInserted(OnProperties(G)) \X LastInserted(OnClasses(G))}
    [] rule = "cax-dw"       -> {CaxDw(G)}
    [] rule = "cax-adc"      -> {CaxAdc(G)}
    [] rule = "eq-diff1"     -> {EqDiff1(G)}
    [] rule = "eq-diff2"     -> {AllDifferent(G, "members")}
    [] rule = "eq-diff3"     -> {AllDifferent(G, "distinctMembers")}
    [] rule = "dt-not-type"  -> {DtNotType(G)}
=============================================================================
