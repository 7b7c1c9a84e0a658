---------------------------- MODULE MCConsistent ----------------------------
(***************************************************************************)
(* The consistency check on small graphs, one workload per group of        *)
(* detectors; each uses the vocabulary as OWL intends (Meaningful).        *)
(***************************************************************************)
EXTENDS Consistent

Signature(inds, cls, props, n) ==
  [individuals |-> inds, classes |-> cls, properties |-> props, size |-> n]
Work(sig, axioms) == [sig |-> sig, axioms |-> axioms]

\* The list <<x, y>> on the nodes m and n.
ListOf(m, x, n, y) ==
  {<<m, "first", x>>, <<m, "rest", n>>, <<n, "first", y>>, <<n, "rest", "nil">>}
Restriction(c, p, kind, v) == {<<c, "onProperty", p>>, <<c, kind, v>>}

PropertyKinds ==
  Work(Signature(<<"a", "b">>, {}, {"p", "q"}, 2),
       {{<<"p", "type", "AsymmetricProperty">>}, {<<"a", "p", "b">>}, {<<"b", "p", "a">>},
        {<<"b", "p", "b">>}, {<<"q", "type", "IrreflexiveProperty">>, <<"a", "q", "a">>}})

DisjointProperties ==
  Work(Signature(<<"a", "b">>, {}, {"p", "q"}, 2),
       {{<<"p", "propertyDisjointWith", "q">>}, {<<"q", "propertyDisjointWith", "p">>},
        {<<"z", "type", "AllDisjointProperties">>, <<"z", "members", "m1">>}
          \cup ListOf("m1", "p", "m2", "q"),
        {<<"a", "p", "b">>}, {<<"a", "q", "b">>}})

NegativeAssertions ==
  Work(Signature(<<"a", "b", "one">>, {}, {"p", "q"}, 2),
       {{<<"n", "sourceIndividual", "a">>, <<"n", "assertionProperty", "p">>,
         <<"n", "targetIndividual", "b">>},
        {<<"m", "sourceIndividual", "a">>, <<"m", "assertionProperty", "q">>, <<"m", "targetValue", "one">>},
        {<<"a", "p", "b">>}, {<<"a", "q", "b">>}, {<<"a", "q", "one">>}})

DisjointClasses ==
  Work(Signature(<<"a", "b">>, {"C", "D"}, {}, 2),
       {{<<"C", "disjointWith", "D">>}, {<<"D", "disjointWith", "C">>}, {<<"C", "complementOf", "D">>},
        {<<"a", "type", "C">>, <<"b", "type", "C">>}, {<<"a", "type", "D">>, <<"b", "type", "D">>}})

EmptyClasses ==
  Work(Signature(<<"a">>, {"C", "D"}, {}, 2),
       {{<<"C", "disjointWith", "C">>}, {<<"a", "type", "Nothing">>}, {<<"a", "type", "C">>},
        {<<"z", "type", "AllDisjointClasses">>, <<"z", "distinctMembers", "m1">>}
          \cup ListOf("m1", "C", "m2", "D"),
        {<<"a", "type", "D">>}})

Cardinalities ==
  Work(Signature(<<"a", "b">>, {"C", "D", "E"}, {"p"}, 2),
       {Restriction("C", "p", "maxCardinality", "0") \cup {<<"a", "type", "C">>},
        Restriction("D", "p", "maxQualifiedCardinality", "0")
          \cup {<<"D", "onClass", "E">>, <<"b", "type", "D">>},
        {<<"a", "p", "a">>, <<"a", "p", "b">>}, {<<"b", "p", "a">>}, {<<"a", "type", "E">>},
        {<<"b", "type", "E">>}})

QualifiedByThing ==
  Work(Signature(<<"a", "b">>, {"D"}, {"p"}, 2),
       {Restriction("D", "p", "maxQualifiedCardinality", "0") \cup {<<"D", "onClass", "Thing">>},
        {<<"a", "type", "D">>}, {<<"a", "p", "b">>}, {<<"b", "p", "a">>}})

Identity ==
  Work(Signature(<<"a", "b">>, {}, {}, 2),
       {{<<"a", "differentFrom", "b">>}, {<<"a", "sameAs", "b">>}, {<<"b", "sameAs", "a">>},
        {<<"y", "type", "AllDifferent">>, <<"y", "members", "l1">>} \cup ListOf("l1", "b", "l2", "a"),
        {<<"z", "type", "AllDifferent">>, <<"z", "distinctMembers", "m1">>}
          \cup ListOf("m1", "a", "m2", "b")})

\* A decimal is not looked at; a whole number beyond i64 is rejected, one
\* beyond its narrow type accepted.
Datatypes ==
  Work(Signature(<<"a", "thirty", "zero", "huge", "wide", "maybe", "half", "one">>, {}, {"p"}, 1),
       {{<<"a", "p", "half">>, <<"a", "p", "thirty">>}, {<<"a", "p", "one">>, <<"a", "p", "zero">>},
        {<<"a", "p", "huge">>}, {<<"a", "p", "wide">>}, {<<"a", "p", "maybe">>}})

MCWorkloads ==
  {PropertyKinds, DisjointProperties, NegativeAssertions, DisjointClasses, EmptyClasses,
   Cardinalities, QualifiedByThing, Identity, Datatypes}

\* Literals, IRIs, blank nodes: as their N-Triples forms begin.
MCOrder ==
  <<"0", "half", "huge", "maybe", "one", "thirty", "wide", "zero",
    "AllDifferent", "AllDisjointClasses", "AllDisjointProperties", "AsymmetricProperty", "C", "D", "E",
    "IrreflexiveProperty", "Nothing", "Thing", "a", "assertionProperty", "b", "complementOf",
    "differentFrom", "disjointWith", "distinctMembers", "first", "m", "maxCardinality",
    "maxQualifiedCardinality", "members", "n", "nil", "onClass", "onProperty", "p",
    "propertyDisjointWith", "q", "rest", "sameAs", "sourceIndividual", "targetIndividual",
    "targetValue", "type", "y", "z", "l1", "l2", "m1", "m2">>
MCRank   == [t \in Range(MCOrder) |-> CHOOSE i \in DOMAIN MCOrder : MCOrder[i] = t]
MCBlanks == {"m1", "m2", "l1", "l2"}
MCDatatypeOf ==
  [zero |-> "positiveInteger", half |-> "decimal", huge |-> "integer", maybe |-> "boolean",
   one |-> "integer", thirty |-> "integer", wide |-> "byte"] @@ ("0" :> "nonNegativeInteger")
MCLiterals         == DOMAIN MCDatatypeOf
MCLiteralValue     == [one |-> 1, zero |-> 0, wide |-> 5, huge |-> 9] @@ ("0" :> 0)
MCNumeral          == MCLiteralValue
MCBooleans         == {}
MCBuiltinDatatypes == {"integer"}
MCNarrow           == [d \in {"int", "short", "byte"} |-> -4 .. 3]
                        @@ [d \in {"unsignedInt", "unsignedShort", "unsignedByte"} |-> 0 .. 7]

-----------------------------------------------------------------------------
\* A term that contradicts itself is passed over: a class disjoint from
\* itself, an asymmetric property with a loop.
SelfContradiction(G) ==
  \E t \in G : /\ t[1] = t[3]
               /\ \/ t[2] \in {"disjointWith", "propertyDisjointWith", "complementOf", "differentFrom"}
                  \/ <<t[2], "type", "AsymmetricProperty">> \in G

\* And "[]" means consistent: the graph the call began with can be made true,
\* unless a term contradicts itself or a literal is too wide for its type.
EmptyReportIsConsistent ==
  outcome = "ok" /\ all = {} /\ ~SelfContradiction(seen) /\ (\A t \in seen : t[3] # "wide")
    => Satisfiable(workload.sig, seen)
=============================================================================
