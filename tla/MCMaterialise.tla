--------------------------- MODULE MCMaterialise ---------------------------
(***************************************************************************)
(* The fixpoint loop on small ontologies, one workload per group of rules, *)
(* against the meaning of the vocabulary (OwlSemantics).                   *)
(*                                                                         *)
(* Each workload carries a signature.  `meaningful` ones only use the      *)
(* vocabulary as OWL intends; `complete` are the predicates for which the  *)
(* rules have to find every assertion, the axioms being in the profile.    *)
(***************************************************************************)
EXTENDS Materialise

Default  == [saturation |-> TRUE, reflexive |-> FALSE]
Unsaturated == [saturation |-> FALSE, reflexive |-> FALSE]
Reflexive == [saturation |-> TRUE, reflexive |-> TRUE]

Signature(inds, cls, props, n) ==
  [individuals |-> inds, classes |-> cls, properties |-> props, size |-> n]
Facts     == {"type", "sameAs", "p", "q", "r"}
Subclass  == Facts \cup {"subClassOf"}
Work(sig, meaningful, complete, axioms) ==
  [axioms |-> axioms, options |-> {Default}, sig |-> sig,
   meaningful |-> meaningful, complete |-> complete]

\* The list <<x, y>> on the nodes m and n.
ListOf(m, x, n, y) ==
  {<<m, "first", x>>, <<m, "rest", n>>, <<n, "first", y>>, <<n, "rest", "nil">>}
Restriction(c, p, kind, v) == {<<c, "onProperty", p>>, <<c, kind, v>>}

Hierarchy ==
  Work(Signature(<<"a">>, {"C", "D", "E"}, {}, 2), TRUE, Subclass \cup {"equivalentClass"},
       {{<<"a", "type", "C">>}, {<<"C", "subClassOf", "D">>}, {<<"D", "equivalentClass", "E">>},
        {<<"E", "subClassOf", "C">>}, {<<"C", "type", "Class">>}})

PropertyAxioms ==
  Work(Signature(<<"a", "b">>, {"C", "D"}, {"p", "q"}, 2), TRUE, Facts,
       {{<<"a", "p", "b">>}, {<<"p", "subPropertyOf", "q">>, <<"q", "type", "ObjectProperty">>},
        {<<"q", "domain", "C">>, <<"q", "range", "D">>}, {<<"p", "inverseOf", "q">>},
        {<<"C", "subClassOf", "D">>}})

PropertySchema ==
  Work(Signature(<<>>, {"C", "D"}, {"p", "q"}, 2), TRUE,
       {"subClassOf", "subPropertyOf", "equivalentProperty", "domain", "range"},
       {{<<"p", "subPropertyOf", "q">>}, {<<"q", "subPropertyOf", "p">>}, {<<"q", "domain", "C">>},
        {<<"q", "range", "C">>}, {<<"C", "subClassOf", "D">>}})

PropertyKinds ==
  Work(Signature(<<"a", "b", "c">>, {}, {"p"}, 3), TRUE, Facts,
       {{<<"a", "p", "b">>, <<"b", "p", "c">>}, {<<"p", "type", "TransitiveProperty">>},
        {<<"p", "type", "SymmetricProperty">>}, {<<"p", "type", "FunctionalProperty">>},
        {<<"p", "type", "InverseFunctionalProperty">>}})

Equality ==
  [Work(Signature(<<"a", "b", "c">>, {"C"}, {"p"}, 3), TRUE, Facts,
        {{<<"a", "sameAs", "b">>}, {<<"b", "sameAs", "c">>}, {<<"a", "type", "C">>, <<"c", "p", "a">>}})
   EXCEPT !.options = {Default, Unsaturated, Reflexive}]

SomeValues ==
  Work(Signature(<<"a", "b">>, {"C", "D", "E"}, {"p"}, 2), TRUE, Subclass,
       {Restriction("C", "p", "someValuesFrom", "E") \cup {<<"E", "type", "Class">>},
        Restriction("D", "p", "someValuesFrom", "Thing"), {<<"a", "p", "b">>}, {<<"b", "type", "E">>}})

SomeOfSubProperty ==
  Work(Signature(<<"a", "b">>, {"C", "D"}, {"p", "q"}, 2), TRUE, Subclass,
       {Restriction("C", "p", "someValuesFrom", "Thing"),
        Restriction("D", "q", "someValuesFrom", "Thing"),
        {<<"p", "subPropertyOf", "q">>}, {<<"a", "p", "b">>}})

AllValues ==
  Work(Signature(<<"a", "b">>, {"C", "D", "E"}, {"p", "q"}, 2), TRUE, Subclass,
       {Restriction("C", "p", "allValuesFrom", "E"), Restriction("D", "q", "allValuesFrom", "E"),
        {<<"p", "subPropertyOf", "q">>}, {<<"a", "type", "D">>, <<"a", "p", "b">>}})

AllOfSubClass ==
  Work(Signature(<<"a", "b">>, {"C", "D", "E", "F"}, {"p"}, 2), TRUE, Subclass,
       {Restriction("C", "p", "allValuesFrom", "E"), Restriction("D", "p", "allValuesFrom", "F"),
        {<<"E", "subClassOf", "F">>}, {<<"a", "type", "C">>, <<"a", "p", "b">>}})

HasValue ==
  Work(Signature(<<"a", "b">>, {"C", "D"}, {"p", "q"}, 2), TRUE, Subclass,
       {Restriction("C", "p", "hasValue", "b"), Restriction("D", "q", "hasValue", "b"),
        {<<"p", "subPropertyOf", "q">>}, {<<"a", "type", "C">>}, {<<"b", "p", "b">>}})

ClassLists ==
  Work(Signature(<<"a">>, {"C", "D", "E", "F"}, {}, 2), TRUE, Subclass,
       {{<<"C", "intersectionOf", "m1">>} \cup ListOf("m1", "D", "m2", "E"),
        {<<"F", "unionOf", "n1">>} \cup ListOf("n1", "D", "n2", "E"),
        {<<"a", "type", "D">>}, {<<"a", "type", "E">>}, {<<"a", "type", "C">>}})

Enumeration ==
  Work(Signature(<<"a", "b">>, {"C", "D"}, {}, 2), TRUE, Facts,
       {{<<"C", "oneOf", "m1">>} \cup ListOf("m1", "a", "m2", "b"), {<<"C", "subClassOf", "D">>},
        {<<"a", "type", "D">>}, {<<"a", "sameAs", "b">>}})

Chains ==
  Work(Signature(<<"a", "b">>, {}, {"p", "q", "r"}, 2), TRUE, Facts,
       {{<<"r", "propertyChainAxiom", "m1">>} \cup ListOf("m1", "p", "m2", "q"),
        {<<"a", "p", "b">>}, {<<"b", "q", "a">>}, {<<"p", "equivalentProperty", "q">>}})

Keys ==
  Work(Signature(<<"a", "b">>, {"C"}, {"p", "q"}, 2), TRUE, Facts,
       {{<<"C", "hasKey", "m1">>} \cup ListOf("m1", "p", "m2", "q"),
        {<<"a", "type", "C">>, <<"b", "type", "C">>}, {<<"a", "p", "a">>, <<"a", "p", "b">>, <<"b", "p", "a">>},
        {<<"a", "q", "b">>}, {<<"b", "q", "b">>}})

Cardinalities ==
  Work(Signature(<<"a", "b">>, {"C", "D", "E"}, {"p"}, 2), TRUE, {"sameAs"},
       {Restriction("C", "p", "maxCardinality", "1") \cup {<<"a", "type", "C">>},
        Restriction("D", "p", "maxQualifiedCardinality", "1")
          \cup {<<"D", "onClass", "E">>, <<"a", "type", "D">>},
        {<<"a", "p", "a">>, <<"a", "p", "b">>}, {<<"a", "type", "E">>}, {<<"b", "type", "E">>}})

QualifiedByThing ==
  Work(Signature(<<"a", "b">>, {"D"}, {"p"}, 2), TRUE, {"sameAs"},
       {Restriction("D", "p", "maxQualifiedCardinality", "1") \cup {<<"D", "onClass", "Thing">>},
        {<<"a", "type", "D">>}, {<<"a", "p", "a">>}, {<<"a", "p", "b">>}})

\* A list that arrives triple by triple and may close on itself, fork or end
\* in a literal.
GrowingList ==
  Work(Signature(<<>>, {}, {}, 1), FALSE, {},
       {{<<"C", "intersectionOf", "m1">>, <<"m1", "first", "D">>}, {<<"m1", "rest", "m2">>},
        {<<"m2", "first", "E">>}, {<<"m2", "rest", "nil">>}, {<<"m2", "rest", "m1">>},
        {<<"m1", "rest", "1">>}})

\* Literals as values and a blank node as a property.
LiteralsAndBlanks ==
  Work(Signature(<<>>, {}, {}, 1), FALSE, {},
       {{<<"a", "p", "1">>, <<"a", "p", "b">>}, {<<"p", "type", "SymmetricProperty">>},
        {<<"p", "range", "C">>}, {<<"p", "type", "FunctionalProperty">>},
        {<<"_q", "equivalentProperty", "p">>, <<"b", "sameAs", "1">>}})

\* A class restricted on two properties.
TwoProperties ==
  Work(Signature(<<"a", "b">>, {"C"}, {"p", "q"}, 2), TRUE, {},
       {Restriction("C", "p", "maxCardinality", "1") \cup {<<"C", "onProperty", "q">>},
        {<<"a", "type", "C">>}, {<<"a", "p", "a">>, <<"a", "p", "b">>},
        {<<"a", "q", "a">>, <<"a", "q", "b">>}})

MCWorkloads ==
  {Hierarchy, PropertyAxioms, PropertySchema, PropertyKinds, Equality, SomeValues, SomeOfSubProperty, AllValues,
   AllOfSubClass, HasValue, ClassLists, Enumeration, Chains, Keys, Cardinalities,
   QualifiedByThing, GrowingList, LiteralsAndBlanks}

MCAmbiguous == {TwoProperties}

MCBlanks           == {"_q"}
MCLiterals         == {"1"}
MCDatatypeOf       == [l \in MCLiterals |-> "integer"]
MCLiteralValue     == [l \in MCLiterals |-> 1]
MCBuiltinDatatypes == {"integer"}

-----------------------------------------------------------------------------
\* A finished call has found every assertion about individuals (and every
\* subsumption, for the workloads that say so) that is true wherever the
\* asserted graph is.
RulesAreComplete ==
  atFixpoint /\ workload.meaningful /\ options.saturation =>
    LET M == Models(workload.sig, asserted)
    IN  M # {} => {t \in Entailed(workload.sig, M) : t[2] \in workload.complete}
                    \subseteq Graph
=============================================================================
