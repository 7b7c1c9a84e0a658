---------------------------- MODULE OwlRlRules ----------------------------
(***************************************************************************)
(* The OWL 2 RL rule library (src/functions/rdf_owl_rl/rules.rs) and the   *)
(* RDF list walker it uses (rdf_lists.rs).                                 *)
(*                                                                         *)
(* A graph is a set of triples <<s, p, o>>: the union of the asserted and  *)
(* the inferred graph, which is all a rule reads.  A rule is an operator   *)
(* from graphs to the triples it derives; the loop filters out those that  *)
(* are already there.  Terms are strings and well-known IRIs their local   *)
(* names.  Everything that is not a literal may be a subject; quoted       *)
(* triples are left out.                                                   *)
(*                                                                         *)
(* The hash joins of the code are relational composition here; a join on a *)
(* subject needs no test for literals, since no literal is a subject.      *)
(***************************************************************************)
EXTENDS Naturals, FiniteSets, Sequences, SequencesExt

CONSTANTS
  Blanks,            \* the blank nodes among the terms
  Literals,          \* the literals among the terms
  DatatypeOf,        \* literal -> its datatype IRI
  LiteralValue,      \* literals that parse as u32 -> their value
  BuiltinDatatypes   \* the closed list of dt-type1

\* The IRIs the rules write, and the datatypes.
Vocabulary ==
  {"type", "sameAs", "subClassOf", "subPropertyOf", "equivalentClass", "equivalentProperty",
   "domain", "range", "Thing", "Nothing", "Class", "Datatype", "nil"}
ASSUME VocabularyIsIris == Vocabulary \cap (Literals \cup Blanks) = {}
ASSUME DatatypesAreIris ==
  (BuiltinDatatypes \cup {DatatypeOf[l] : l \in Literals}) \cap (Literals \cup Blanks) = {}
ASSUME BuiltinsFinite == IsFiniteSet(BuiltinDatatypes)

Node(t) == t \notin Literals
Iri(t)  == t \notin Literals \cup Blanks

\* A triple the store takes: a literal is no subject, a predicate is an IRI.
WellFormed(t) == t = <<t[1], t[2], t[3]>> /\ Node(t[1]) /\ Iri(t[2])

-----------------------------------------------------------------------------
(* Relations: what a predicate relates, composition, converse.             *)

Pairs(G, p)      == {<<t[1], t[3]>> : t \in {u \in G : u[2] = p}}
Objects(G, s, p) == {t[3] : t \in {u \in G : u[1] = s /\ u[2] = p}}
Instances(G, c)  == {t[1] : t \in {u \in G : u[2] = "type" /\ u[3] = c}}
IriPairs(G, p)   == {r \in Pairs(G, p) : Iri(r[1]) /\ Iri(r[2])}
NodePairs(G, p)  == {r \in Pairs(G, p) : Node(r[2])}

Compose(R, S) == {<<x[1][1], x[2][2]>> : x \in {y \in R \X S : y[1][2] = y[2][1]}}
Converse(R)   == {<<r[2], r[1]>> : r \in {x \in R : Node(x[2])}}

\* The triples that relate the pairs of R by p.
Stating(R, p) == {<<r[1], p, r[2]>> : r \in R}

\* Every triple whose predicate R relates to another, restated with that one.
Repredicated(G, R) ==
  {<<x[1][1], x[2][2], x[1][3]>> : x \in {y \in G \X R : y[1][2] = y[2][1]}}

\* Everything in S that can be a subject is the same thing.
AllSame(S) ==
  {<<x[1], "sameAs", x[2]>> : x \in {y \in S \X S : y[1] # y[2] /\ Node(y[1]) /\ Node(y[2])}}

-----------------------------------------------------------------------------
(* walk_list.                                                              *)

\* Defect: the first of several rdf:first or rdf:rest values is taken.
ListsFirstFound(G, head) ==
  LET Nodes == {t[1] : t \in G} \cup {t[3] : t \in G} \cup {head}
      walk[cursor \in Nodes, seen \in SUBSET Nodes] ==
        LET firsts == Objects(G, cursor, "first")
            rests  == Objects(G, cursor, "rest")
            rest   == CHOOSE r \in rests : TRUE
        IN  IF cursor \in seen \/ firsts = {} \/ rests = {}
              THEN {}
              ELSE {<<CHOOSE f \in firsts : TRUE>> \o tail :
                      tail \in IF rest = "nil" THEN {<< >>}
                               ELSE IF Node(rest) THEN walk[rest, seen \cup {cursor}] ELSE {}}
  IN  IF head = "nil" THEN {<< >>} ELSE walk[head, {}]

\* The list at head: a set holding one sequence, or nothing when it is
\* malformed - a node without exactly one first and one rest, a literal
\* rest, a cycle.
Lists(G, head) ==
  LET Nodes == {t[1] : t \in G} \cup {t[3] : t \in G} \cup {head}
      walk[at \in Nodes \X SUBSET Nodes] ==
        LET cursor == at[1]
            seen   == at[2]
            firsts == Objects(G, cursor, "first")
            rests  == Objects(G, cursor, "rest")
        IN  IF cursor \in seen \/ Cardinality(firsts) # 1 \/ Cardinality(rests) # 1
              THEN {}
              ELSE UNION {IF r = "nil" THEN {<<f>> : f \in firsts}
                          ELSE IF ~Node(r) THEN {}
                          ELSE {<<f>> \o tail : f \in firsts,
                                                tail \in walk[<<r, seen \cup {cursor}>>]} :
                            r \in rests}
  IN  IF head = "nil" THEN {<< >>} ELSE walk[<<head, {}>>]

\* collect_class_lists: each subject of p with the list it points at.
ListsOf(G, p) ==
  UNION {{<<r[1], l>> : l \in Lists(G, r[2])} : r \in NodePairs(G, p)}

\* The members of a list, and the lists of properties that can be used.
Members(l) == {l[i] : i \in DOMAIN l}
IriListsOf(G, p) == {x \in ListsOf(G, p) : x[2] # << >> /\ \A m \in Members(x[2]) : Iri(m)}

-----------------------------------------------------------------------------
(* The core rules.                                                         *)

SubClass(G) == Pairs(G, "subClassOf")
SubProp(G)  == Pairs(G, "subPropertyOf")

Transitive(G, p) == Stating(Compose(Pairs(G, p), Pairs(G, p)), p)
ScmSco(G)  == Transitive(G, "subClassOf")
ScmSpo(G)  == Transitive(G, "subPropertyOf")
EqTrans(G) == Transitive(G, "sameAs")

\* scm-eqc1, scm-eqp1: an equivalence is a subsumption both ways.
BothWays(G, equivalent, sub) ==
  LET R == NodePairs(G, equivalent) IN Stating(R \cup Converse(R), sub)
ScmEq1(G) == BothWays(G, "equivalentClass", "subClassOf")
               \cup BothWays(G, "equivalentProperty", "subPropertyOf")

CaxSco(G)  == Stating(Compose(Pairs(G, "type"), SubClass(G)), "type")
PrpSpo1(G) == Repredicated(G, IriPairs(G, "subPropertyOf"))

PrpDom(G) == Stating(Compose({<<t[1], t[2]>> : t \in G}, Pairs(G, "domain")), "type")
PrpRng(G) ==
  Stating(Compose({<<t[3], t[2]>> : t \in {u \in G : Node(u[3])}}, Pairs(G, "range")), "type")

\* The properties declared to be of a kind.
Properties(G, kind) == {p \in Instances(G, kind) : Iri(p)}

PrpTrp(G)  == UNION {Transitive(G, p) : p \in Properties(G, "TransitiveProperty")}
PrpSymp(G) == UNION {Stating(Converse(Pairs(G, p)), p) : p \in Properties(G, "SymmetricProperty")}

\* prp-inv1 and prp-inv2: the two directions of an inverse.
PrpInv(G) ==
  UNION {Stating(Converse(Pairs(G, r[1])), r[2]) \cup Stating(Converse(Pairs(G, r[2])), r[1]) :
           r \in IriPairs(G, "inverseOf")}

PrpFp(G) ==
  UNION {UNION {AllSame(Objects(G, r[1], p)) : r \in Pairs(G, p)} :
           p \in Properties(G, "FunctionalProperty")}

EqSym(G) == Stating(Converse(Pairs(G, "sameAs")), "sameAs")

-----------------------------------------------------------------------------
(* The schema rules.                                                       *)

ScmCls(G) ==
  UNION {{<<c, "subClassOf", c>>, <<c, "equivalentClass", c>>,
          <<c, "subClassOf", "Thing">>, <<"Nothing", "subClassOf", c>>} : c \in Instances(G, "Class")}

\* scm-op and scm-dp.
ScmReflexive(G) ==
  UNION {{<<p, "subPropertyOf", p>>, <<p, "equivalentProperty", p>>} :
           p \in Instances(G, "ObjectProperty") \cup Instances(G, "DatatypeProperty")}

\* scm-eqc2, scm-eqp2: subsumption both ways is an equivalence.
Mutual(R) == {r \in R : <<r[2], r[1]>> \in R}
ScmEq2(G) == Stating(Mutual(SubClass(G)), "equivalentClass")
               \cup Stating(Mutual(SubProp(G)), "equivalentProperty")

\* scm-dom1, scm-rng1, scm-dom2, scm-rng2.
ScmDom(G) == Stating(Compose(Pairs(G, "domain"), SubClass(G))
                       \cup Compose(SubProp(G), Pairs(G, "domain")), "domain")
ScmRng(G) == Stating(Compose(Pairs(G, "range"), SubClass(G))
                       \cup Compose(SubProp(G), Pairs(G, "range")), "range")

\* collect_restrictions: class, property and value of the restrictions that
\* use a constraint predicate, one for each onProperty.
Restrictions(G, constraint) ==
  UNION {{<<r[1], p, r[2]>> : p \in {o \in Objects(G, r[1], "onProperty") : Iri(o)}} :
           r \in Pairs(G, constraint)}

\* Two restrictions of the same value whose properties subsume each other.
BySubProperty(G, constraint) ==
  LET R == Restrictions(G, constraint)
  IN  {<<x[1][1], x[2][1]>> :
         x \in {y \in R \X R : /\ y[1][3] = y[2][3]
                               /\ <<y[1][2], y[2][2]>> \in IriPairs(G, "subPropertyOf")}}

\* Two restrictions of the same property whose fillers subsume each other.
ByFiller(G, constraint) ==
  LET R == Restrictions(G, constraint)
  IN  {<<x[1][1], x[2][1]>> :
         x \in {y \in R \X R : y[1][2] = y[2][2] /\ <<y[1][3], y[2][3]>> \in SubClass(G)}}

ScmHv(G)   == Stating(BySubProperty(G, "hasValue"), "subClassOf")
ScmSvf1(G) == Stating(ByFiller(G, "someValuesFrom"), "subClassOf")
ScmAvf1(G) == Stating(ByFiller(G, "allValuesFrom"), "subClassOf")
ScmSvf2(G) == Stating(BySubProperty(G, "someValuesFrom"), "subClassOf")

\* Defect: the direction is that of scm-svf2.
ScmAvf2Unflipped(G) == Stating(BySubProperty(G, "allValuesFrom"), "subClassOf")

\* For allValuesFrom the direction flips.
ScmAvf2(G) == Stating(Converse(BySubProperty(G, "allValuesFrom")), "subClassOf")

\* scm-int keeps literal members, scm-uni cannot.
ScmInt(G) == UNION {{<<x[1], "subClassOf", m>> : m \in Members(x[2])} :
                      x \in ListsOf(G, "intersectionOf")}
ScmUni(G) == UNION {{<<m, "subClassOf", x[1]>> : m \in {n \in Members(x[2]) : Node(n)}} :
                      x \in ListsOf(G, "unionOf")}

-----------------------------------------------------------------------------
(* The class expression rules.                                             *)

Axioms == {<<"Thing", "type", "Class">>, <<"Nothing", "type", "Class">>}

Typed(S, c) == {<<x, "type", c>> : x \in S}

\* cls-int1: the instances of every member; an empty list defines nothing.
ClsInt1(G) ==
  UNION {Typed({i \in Instances(G, x[2][1]) : \A m \in Members(x[2]) : i \in Instances(G, m)}, x[1]) :
           x \in {y \in ListsOf(G, "intersectionOf") : y[2] # << >>}}

ClsInt2(G) ==
  UNION {UNION {Typed(Instances(G, x[1]), m) : m \in Members(x[2])} :
           x \in ListsOf(G, "intersectionOf")}
ClsUni(G) ==
  UNION {UNION {Typed(Instances(G, m), x[1]) : m \in Members(x[2])} : x \in ListsOf(G, "unionOf")}
ClsOo(G) ==
  UNION {Typed({m \in Members(x[2]) : Node(m)}, x[1]) : x \in ListsOf(G, "oneOf")}

ClsSvf1(G) ==
  UNION {Typed({r[1] : r \in {q \in Pairs(G, x[2]) : q[2] \in Instances(G, x[3])}}, x[1]) :
           x \in Restrictions(G, "someValuesFrom")}
ClsSvf2(G) ==
  UNION {Typed({r[1] : r \in Pairs(G, x[2])}, x[1]) :
           x \in {y \in Restrictions(G, "someValuesFrom") : y[3] = "Thing"}}
ClsAvf(G) ==
  UNION {Typed({r[2] : r \in {q \in NodePairs(G, x[2]) : q[1] \in Instances(G, x[1])}}, x[3]) :
           x \in Restrictions(G, "allValuesFrom")}
ClsHv1(G) ==
  UNION {{<<i, x[2], x[3]>> : i \in Instances(G, x[1])} : x \in Restrictions(G, "hasValue")}
ClsHv2(G) ==
  UNION {Typed({r[1] : r \in {q \in Pairs(G, x[2]) : q[2] = x[3]}}, x[1]) :
           x \in Restrictions(G, "hasValue")}

\* literal_int_value_eq(v, 1).
IsOne(v) == v \in DOMAIN LiteralValue /\ LiteralValue[v] = 1

\* A hash map filled from a set of pairs keeps the value inserted last, and a
\* hash set is iterated in any order: every function inside R can result.
LastInserted(R) ==
  {f \in [{r[1] : r \in R} -> {r[2] : r \in R}] : \A c \in DOMAIN f : <<c, f[c]>> \in R}

OnProperties(G) == {r \in Pairs(G, "onProperty") : Iri(r[2])}
OnClasses(G)    == Pairs(G, "onClass")

\* Classes limited to one value by a cardinality predicate.
AtMostOne(G, limit) == {r[1] : r \in {q \in Pairs(G, limit) : IsOne(q[2])}}

\* cls-maxc2, where on is the property kept for each class.
ClsMaxC2(G, on) ==
  UNION {UNION {AllSame(Objects(G, x, on[c])) : x \in Instances(G, c)} :
           c \in AtMostOne(G, "maxCardinality") \cap DOMAIN on}

Qualified(G, on, cls) == AtMostOne(G, "maxQualifiedCardinality") \cap DOMAIN on \cap DOMAIN cls

\* cls-maxqc3 filters the values by the filler class, cls-maxqc4 need not.
ClsMaxQc3(G, on, cls) ==
  UNION {UNION {AllSame(Objects(G, x, on[c]) \cap Instances(G, cls[c])) : x \in Instances(G, c)} :
           c \in {k \in Qualified(G, on, cls) : cls[k] # "Thing"}}
ClsMaxQc4(G, on, cls) ==
  UNION {UNION {AllSame(Objects(G, x, on[c])) : x \in Instances(G, c)} :
           c \in {k \in Qualified(G, on, cls) : cls[k] = "Thing"}}

\* cax-eqc1 and cax-eqc2.
CaxEqc(G) ==
  UNION {Typed(Instances(G, r[1]), r[2]) \cup Typed(Instances(G, r[2]), r[1]) :
           r \in Pairs(G, "equivalentClass")}

-----------------------------------------------------------------------------
(* The remaining property rules, equality and datatypes.                   *)

PrpIfp(G) ==
  UNION {UNION {AllSame({q[1] : q \in {x \in Pairs(G, p) : x[2] = r[2]}}) : r \in Pairs(G, p)} :
           p \in Properties(G, "InverseFunctionalProperty")}

\* prp-spo2: the composition of the chain's properties, from the left.
Chain(G, l) ==
  LET joined[k \in 1..Len(l)] ==
        IF k = 1 THEN Pairs(G, l[1]) ELSE Compose(joined[k - 1], Pairs(G, l[k]))
  IN  joined[Len(l)]
PrpSpo2(G) ==
  UNION {Stating(Chain(G, x[2]), x[1]) :
           x \in {y \in IriListsOf(G, "propertyChainAxiom") : Iri(y[1])}}

PrpEqp(G) ==
  LET R == IriPairs(G, "equivalentProperty") IN Repredicated(G, R \cup Converse(R))

\* Defect: key values are compared as sets.
ShareAllKeys(G, x, y, l) ==
  \A p \in Members(l) : Objects(G, x, p) = Objects(G, y, p) /\ Objects(G, x, p) # {}

\* prp-key: instances that share a value of every key property, i.e. a tuple
\* of the cartesian product of their values.
ShareKey(G, x, y, l) ==
  \A p \in Members(l) : Objects(G, x, p) \cap Objects(G, y, p) # {}
PrpKey(G) ==
  UNION {{<<x[1], "sameAs", x[2]>> :
            x \in {y \in Instances(G, k[1]) \X Instances(G, k[1]) :
                     y[1] # y[2] /\ ShareKey(G, y[1], y[2], k[2])}} :
           k \in IriListsOf(G, "hasKey")}

EqRef(G) ==
  {<<x, "sameAs", x>> : x \in {t[1] : t \in G} \cup {t[2] : t \in G}
                                \cup {t[3] : t \in {u \in G : Node(u[3])}}}

\* eq-rep-s, eq-rep-p, eq-rep-o: reflexive pairs substitute nothing, and an
\* object may be replaced by a literal.
Substitutes(G) == {r \in Pairs(G, "sameAs") : r[1] # r[2]}
EqRepS(G) ==
  {<<x[2][2], x[1][2], x[1][3]>> :
     x \in {y \in G \X Substitutes(G) : y[1][1] = y[2][1] /\ Node(y[2][2])}}
EqRepP(G) ==
  Repredicated(G, {r \in Substitutes(G) : Iri(r[1]) /\ Iri(r[2])})
EqRepO(G) ==
  {<<x[1][1], x[1][2], x[2][2]>> : x \in {y \in G \X Substitutes(G) : y[1][3] = y[2][1]}}
EqRep(G) == EqRepS(G) \cup EqRepP(G) \cup EqRepO(G)

\* dt-type1 and dt-type2; dt-eq and dt-diff derive nothing.
DtType(G) ==
  Typed(BuiltinDatatypes \cup {DatatypeOf[t[3]] : t \in {u \in G : ~Node(u[3])}}, "Datatype")

-----------------------------------------------------------------------------
(* RULES: what one iteration derives.  All the rules of an iteration read  *)
(* the same store, since its insertions come at the end.                   *)

SchemaRules(G) ==
  ScmSco(G) \cup ScmSpo(G) \cup ScmEq1(G) \cup ScmCls(G) \cup ScmReflexive(G) \cup ScmEq2(G)
    \cup ScmDom(G) \cup ScmRng(G) \cup ScmHv(G) \cup ScmSvf1(G) \cup ScmSvf2(G)
    \cup ScmAvf1(G) \cup ScmAvf2(G) \cup ScmInt(G) \cup ScmUni(G)

PropertyRules(G) ==
  PrpSpo1(G) \cup PrpDom(G) \cup PrpRng(G) \cup PrpTrp(G) \cup PrpSymp(G) \cup PrpInv(G)
    \cup PrpFp(G) \cup PrpIfp(G) \cup PrpSpo2(G) \cup PrpEqp(G) \cup PrpKey(G)

ClassRules(G) ==
  CaxSco(G) \cup CaxEqc(G) \cup ClsInt1(G) \cup ClsInt2(G) \cup ClsUni(G) \cup ClsOo(G)
    \cup ClsSvf1(G) \cup ClsSvf2(G) \cup ClsAvf(G) \cup ClsHv1(G) \cup ClsHv2(G)

\* The rules whose result does not depend on a hash map's iteration order.
DeterminateRules(G, saturation, reflexive) ==
  Axioms \cup SchemaRules(G) \cup PropertyRules(G) \cup ClassRules(G)
    \cup EqSym(G) \cup EqTrans(G) \cup DtType(G)
    \cup (IF saturation THEN EqRep(G) ELSE {})
    \cup (IF reflexive THEN EqRef(G) ELSE {})

\* Everything the cardinality rules can derive, one outcome per way the
\* three of them fill their maps.
CardinalityOutcomes(G) ==
  {ClsMaxC2(G, m[1]) \cup ClsMaxQc3(G, m[2], m[4]) \cup ClsMaxQc4(G, m[3], m[5]) :
     m \in LastInserted(OnProperties(G)) \X LastInserted(OnProperties(G))
             \X LastInserted(OnProperties(G))
             \X LastInserted(OnClasses(G)) \X LastInserted(OnClasses(G))}

-----------------------------------------------------------------------------
(* Graphs whose growth takes nothing away.                                 *)

\* No list node has two firsts or two rests.
Unambiguous(G) ==
  \A t, u \in G : t[1] = u[1] /\ t[2] = u[2] /\ t[2] \in {"first", "rest"} => t = u

\* A hash map filled from R has nothing to choose.
Functional(R) == \A q, r \in R : q[1] = r[1] => q[2] = r[2]

-----------------------------------------------------------------------------
(* The tracked variants, over quads <<s, p, o, g>>: what they derive, with *)
(* the two quads that were joined.                                         *)

\* Defect: only the first of the joined quads is recorded.
JoinedFirstOnly(Q, R, p) ==
  {[triple |-> <<x[1][1], p, x[2][3]>>, premises |-> {x[1]}] :
     x \in {y \in Q \X R : y[1][3] = y[2][1]}}

Joined(Q, R, p) ==
  {[triple |-> <<x[1][1], p, x[2][3]>>, premises |-> {x[1], x[2]}] :
     x \in {y \in Q \X R : y[1][3] = y[2][1]}}

With(Q, p) == {q \in Q : q[2] = p}

TrackedTransitive(Q, p) == Joined(With(Q, p), With(Q, p), p)
TrackedCaxSco(Q)  == Joined(With(Q, "type"), With(Q, "subClassOf"), "type")
TrackedPrpSpo1(Q) ==
  {[triple |-> <<x[1][1], x[2][3], x[1][3]>>, premises |-> {x[1], x[2]}] :
     x \in {y \in Q \X With(Q, "subPropertyOf") : /\ y[1][2] = y[2][1]
                                                  /\ Iri(y[2][3])}}
TrackedRules(Q) ==
  TrackedTransitive(Q, "subClassOf") \cup TrackedTransitive(Q, "subPropertyOf")
    \cup TrackedTransitive(Q, "sameAs") \cup TrackedCaxSco(Q) \cup TrackedPrpSpo1(Q)
=============================================================================
