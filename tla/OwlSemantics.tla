--------------------------- MODULE OwlSemantics ---------------------------
(***************************************************************************)
(* A reference for the rule library: what OWL's vocabulary means.  An      *)
(* interpretation gives every individual an element of a domain, every     *)
(* class a set of elements and every property a set of pairs; a graph is   *)
(* true in it when each of its axioms is.  A graph entails what is true in *)
(* every interpretation in which it is true.  Nothing here mentions rules. *)
(*                                                                         *)
(* A signature names the individuals, classes and properties of a graph    *)
(* and the size of the domain.                                             *)
(***************************************************************************)
EXTENDS Naturals, FiniteSets, Sequences

\* What OWL's vocabulary is made of.
Containers    == {"AllDisjointProperties", "AllDisjointClasses", "AllDifferent"}
PropertyTypes ==
  {"ObjectProperty", "DatatypeProperty", "TransitiveProperty", "SymmetricProperty",
   "FunctionalProperty", "InverseFunctionalProperty", "IrreflexiveProperty", "AsymmetricProperty"}
ClassRelations    == {"subClassOf", "equivalentClass", "disjointWith"}
PropertyRelations == {"subPropertyOf", "equivalentProperty", "inverseOf", "propertyDisjointWith"}
ListPredicates    == {"intersectionOf", "unionOf", "oneOf", "propertyChainAxiom", "hasKey",
                      "members", "distinctMembers"}
Reserved ==
  Containers \cup PropertyTypes \cup ClassRelations \cup PropertyRelations \cup ListPredicates
    \cup {"Thing", "Nothing", "Class", "Datatype", "nil", "0", "1", "type", "sameAs", "differentFrom",
          "domain", "range", "someValuesFrom", "allValuesFrom", "hasValue", "complementOf",
          "maxCardinality", "maxQualifiedCardinality", "onProperty", "onClass", "first", "rest",
          "sourceIndividual", "targetIndividual", "targetValue", "assertionProperty"}

\* The declarative reading of an RDF list: a path of distinct nodes, none of
\* them nil, each with one first and one rest, leading to nil.
Links(G, n, p) == {t[3] : t \in {u \in G : u[1] = n /\ u[2] = p}}
ListValues(G, head) ==
  LET Nodes == {n \in {t[1] : t \in G} : /\ n # "nil"
                                        /\ Cardinality(Links(G, n, "first")) = 1
                                        /\ Cardinality(Links(G, n, "rest")) = 1}
      Paths == {n \in UNION {[1..k -> Nodes] : k \in 1..Cardinality(Nodes)} :
                  /\ n[1] = head
                  /\ \A i, j \in DOMAIN n : n[i] = n[j] => i = j
                  /\ \A i \in DOMAIN n : Links(G, n[i], "rest") =
                       {IF i + 1 \in DOMAIN n THEN n[i + 1] ELSE "nil"}}
  IN  IF head = "nil"
        THEN {<< >>}
        ELSE {[i \in DOMAIN n |-> CHOOSE v \in Links(G, n[i], "first") : TRUE] : n \in Paths}

\* A graph with the lists its axioms point at.
WithLists(G) ==
  [triples |-> G,
   lists   |-> UNION {{<<t[3], l>> : l \in ListValues(G, t[3])} :
                        t \in {u \in G : u[2] \in ListPredicates}}]
ListsAt(H, head) == {x[2] : x \in {y \in H.lists : y[1] = head}}

\* Up to renaming the elements, individual number k may denote an element no
\* further than one beyond those of its predecessors.
Denotations(order, size) ==
  {f \in [{order[k] : k \in DOMAIN order} -> 1..size] :
     \A k \in DOMAIN order : \A e \in 1..(f[order[k]] - 1) : \E j \in 1..(k - 1) : f[order[j]] = e}

Interpretations(sig) ==
  [ind  : Denotations(sig.individuals, sig.size),
   cls  : [sig.classes -> SUBSET (1..sig.size)],
   prop : [sig.properties -> SUBSET ((1..sig.size) \X (1..sig.size))]]

Elements(sig) == 1..sig.size
Individuals(sig) == {sig.individuals[i] : i \in DOMAIN sig.individuals}
ClassOf(sig, I, c) ==
  IF c = "Thing" THEN Elements(sig) ELSE IF c = "Nothing" THEN {} ELSE I.cls[c]

Values(R, d) == {r[2] : r \in {x \in R : x[1] = d}}
Composed(R, S) == {<<x[1][1], x[2][2]>> : x \in {y \in R \X S : y[1][2] = y[2][1]}}

\* The ends of the paths that follow the properties of l.
ComposedAll(sig, I, l) ==
  LET Paths == {w \in [1..(Len(l) + 1) -> Elements(sig)] :
                  \A k \in DOMAIN l : <<w[k], w[k + 1]>> \in I.prop[l[k]]}
  IN  {<<w[1], w[Len(l) + 1]>> : w \in Paths}

\* s type o.
TypeTrue(sig, I, s, o) ==
  CASE o \in {"Class", "ObjectProperty", "DatatypeProperty", "Datatype", "AllDisjointProperties",
              "AllDisjointClasses", "AllDifferent"} -> TRUE
    [] o = "TransitiveProperty" -> Composed(I.prop[s], I.prop[s]) \subseteq I.prop[s]
    [] o = "SymmetricProperty"  -> \A r \in I.prop[s] : <<r[2], r[1]>> \in I.prop[s]
    [] o = "FunctionalProperty" -> \A q, r \in I.prop[s] : q[1] = r[1] => q[2] = r[2]
    [] o = "InverseFunctionalProperty" -> \A q, r \in I.prop[s] : q[2] = r[2] => q[1] = r[1]
    [] o = "IrreflexiveProperty" -> \A r \in I.prop[s] : r[1] # r[2]
    [] o = "AsymmetricProperty"  -> \A r \in I.prop[s] : <<r[2], r[1]>> \notin I.prop[s]
    [] OTHER -> I.ind[s] \in ClassOf(sig, I, o)

\* The cardinalities in use.
Limit(v) == IF v = "0" THEN 0 ELSE 1

\* The elements of a restriction by p.
Restricted(sig, I, kind, p, v) ==
  CASE kind = "someValuesFrom" ->
         {d \in Elements(sig) : Values(I.prop[p], d) \cap ClassOf(sig, I, v) # {}}
    [] kind = "allValuesFrom" ->
         {d \in Elements(sig) : Values(I.prop[p], d) \subseteq ClassOf(sig, I, v)}
    [] kind = "hasValue" -> {d \in Elements(sig) : I.ind[v] \in Values(I.prop[p], d)}
    [] kind = "maxCardinality" ->
         {d \in Elements(sig) : Cardinality(Values(I.prop[p], d)) <= Limit(v)}

AtMostOf(sig, I, p, c, v) ==
  {d \in Elements(sig) : Cardinality(Values(I.prop[p], d) \cap ClassOf(sig, I, c)) <= Limit(v)}

\* The elements of a class given by a list.
Listed(sig, I, kind, l) ==
  CASE kind = "intersectionOf" ->
         {d \in Elements(sig) : \A i \in DOMAIN l : d \in ClassOf(sig, I, l[i])}
    [] kind = "unionOf" -> {d \in Elements(sig) : \E i \in DOMAIN l : d \in ClassOf(sig, I, l[i])}
    [] kind = "oneOf"   -> {I.ind[l[i]] : i \in DOMAIN l}

\* Named individuals that agree on a value of every key property are equal.
KeyTrue(sig, I, c, l) ==
  LET Named == {I.ind[x] : x \in Individuals(sig)}
  IN  \A d, e \in ClassOf(sig, I, c) \cap Named :
        (\A i \in DOMAIN l :
           Values(I.prop[l[i]], d) \cap Values(I.prop[l[i]], e) \cap Named # {}) => d = e

\* What it means to be a member of a container of some kind: the members
\* are pairwise disjoint or different.
MembersTrue(sig, I, kind, l) ==
  \A i, j \in DOMAIN l : i < j =>
    CASE kind = "AllDisjointProperties" -> I.prop[l[i]] \cap I.prop[l[j]] = {}
      [] kind = "AllDisjointClasses" -> ClassOf(sig, I, l[i]) \cap ClassOf(sig, I, l[j]) = {}
      [] kind = "AllDifferent" -> I.ind[l[i]] # I.ind[l[j]]

\* A triple of the graph H is true in I.
True(sig, I, H, t) ==
  LET s == t[1]
      p == t[2]
      o == t[3]
  IN CASE p = "type"               -> TypeTrue(sig, I, s, o)
       [] p = "sameAs"             -> s = o \/ I.ind[s] = I.ind[o]
       [] p = "subClassOf"         -> ClassOf(sig, I, s) \subseteq ClassOf(sig, I, o)
       [] p = "equivalentClass"    -> ClassOf(sig, I, s) = ClassOf(sig, I, o)
       [] p = "subPropertyOf"      -> I.prop[s] \subseteq I.prop[o]
       [] p = "equivalentProperty" -> I.prop[s] = I.prop[o]
       [] p = "inverseOf"          -> I.prop[s] = {<<r[2], r[1]>> : r \in I.prop[o]}
       [] p = "domain"             -> \A r \in I.prop[s] : r[1] \in ClassOf(sig, I, o)
       [] p = "range"              -> \A r \in I.prop[s] : r[2] \in ClassOf(sig, I, o)
       [] p \in {"someValuesFrom", "allValuesFrom", "hasValue", "maxCardinality"} ->
            \A q \in Links(H.triples, s, "onProperty") : I.cls[s] = Restricted(sig, I, p, q, o)
       [] p = "maxQualifiedCardinality" ->
            \A q \in Links(H.triples, s, "onProperty"), c \in Links(H.triples, s, "onClass") :
              I.cls[s] = AtMostOf(sig, I, q, c, o)
       [] p \in {"intersectionOf", "unionOf", "oneOf"} ->
            \A l \in ListsAt(H, o) : I.cls[s] = Listed(sig, I, p, l)
       [] p = "propertyChainAxiom" ->
            \A l \in ListsAt(H, o) : ComposedAll(sig, I, l) \subseteq I.prop[s]
       [] p = "hasKey" -> \A l \in ListsAt(H, o) : KeyTrue(sig, I, s, l)
       [] p = "differentFrom"        -> I.ind[s] # I.ind[o]
       [] p = "disjointWith"         -> ClassOf(sig, I, s) \cap ClassOf(sig, I, o) = {}
       [] p = "complementOf"         -> I.cls[s] = Elements(sig) \ ClassOf(sig, I, o)
       [] p = "propertyDisjointWith" -> I.prop[s] \cap I.prop[o] = {}
       [] p \in {"members", "distinctMembers"} ->
            \A kind \in Links(H.triples, s, "type") \cap Containers, l \in ListsAt(H, o) :
              MembersTrue(sig, I, kind, l)
       [] p = "sourceIndividual" ->
            \A q \in Links(H.triples, s, "assertionProperty"),
               v \in Links(H.triples, s, "targetIndividual") \cup Links(H.triples, s, "targetValue") :
              <<I.ind[o], I.ind[v]>> \notin I.prop[q]
       [] p \in {"onProperty", "onClass", "first", "rest", "assertionProperty",
                 "targetIndividual", "targetValue"} -> TRUE
       [] OTHER -> <<I.ind[s], I.ind[o]>> \in I.prop[p]

\* A signature whose names are apart from each other and from the vocabulary.
ClassNames(sig)  == sig.classes \cup {"Thing", "Nothing"}
Names(sig)       == Individuals(sig) \cup ClassNames(sig) \cup sig.properties
SignatureApart(sig) ==
  /\ Individuals(sig) \cap ClassNames(sig) = {}
  /\ Individuals(sig) \cap sig.properties = {}
  /\ ClassNames(sig) \cap sig.properties = {}
  /\ Reserved \cap (Individuals(sig) \cup sig.classes \cup sig.properties) = {}
  /\ sig.size \in Nat

\* A triple uses the vocabulary as OWL intends: each predicate relates things
\* of its sort, and what is no name is a node of a list or an axiom.
Used(sig, t) ==
  LET s == t[1]
      p == t[2]
      o == t[3]
      Inds  == Individuals(sig)
      Cls   == ClassNames(sig)
      Props == sig.properties
  IN  \/ p = "type" /\ \/ s \in Inds /\ o \in Cls
                       \/ s \in Cls /\ o = "Class"
                       \/ s \in Props /\ o \in PropertyTypes
                       \/ s \notin Names(sig) /\ o \in Containers
                       \/ o = "Datatype"
      \/ p = "sameAs" /\ (s = o \/ (s \in Inds /\ o \in Inds))
      \/ p = "differentFrom" /\ s \in Inds /\ o \in Inds
      \/ p \in ClassRelations /\ s \in Cls /\ o \in Cls
      \/ p \in PropertyRelations /\ s \in Props /\ o \in Props
      \/ p \in {"domain", "range"} /\ s \in Props /\ o \in Cls
      \/ p \in {"someValuesFrom", "allValuesFrom", "complementOf", "onClass"}
           /\ s \in sig.classes /\ o \in Cls
      \/ p = "hasValue" /\ s \in sig.classes /\ o \in Inds
      \/ p \in {"maxCardinality", "maxQualifiedCardinality"} /\ s \in sig.classes /\ o \in {"0", "1"}
      \/ p = "onProperty" /\ s \in sig.classes /\ o \in Props
      \/ p \in {"intersectionOf", "unionOf", "oneOf"} /\ s \in sig.classes /\ o \notin Names(sig)
      \/ p = "hasKey" /\ s \in Cls /\ o \notin Names(sig)
      \/ p = "propertyChainAxiom" /\ s \in Props /\ o \notin Names(sig)
      \/ p \in {"members", "distinctMembers", "rest"} /\ s \notin Names(sig) /\ o \notin Names(sig)
      \/ p = "first" /\ s \notin Names(sig)
      \/ p \in {"sourceIndividual", "targetIndividual", "targetValue"} /\ s \notin Names(sig) /\ o \in Inds
      \/ p = "assertionProperty" /\ s \notin Names(sig) /\ o \in Props
      \/ p \in Props /\ s \in Inds /\ o \in Inds

\* What a container of some kind has as members.
MembersOf(sig, kind) ==
  CASE kind = "AllDisjointProperties" -> sig.properties
    [] kind = "AllDisjointClasses" -> ClassNames(sig)
    [] kind = "AllDifferent" -> Individuals(sig)

\* And so do the lists it has.
ListsUsed(sig, G) ==
  \A t \in G : t[2] \in ListPredicates =>
    \A l \in ListValues(G, t[3]) : \A i \in DOMAIN l :
      /\ t[2] \in {"intersectionOf", "unionOf"} => l[i] \in ClassNames(sig)
      /\ t[2] = "oneOf" => l[i] \in Individuals(sig)
      /\ t[2] \in {"propertyChainAxiom", "hasKey"} => l[i] \in sig.properties
      /\ t[2] \in {"members", "distinctMembers"} =>
           \A kind \in Links(G, t[1], "type") \cap Containers : l[i] \in MembersOf(sig, kind)
Meaningful(sig, G) ==
  SignatureApart(sig) /\ (\A t \in G : Used(sig, t)) /\ ListsUsed(sig, G)

\* The interpretations in which every triple of G is true.
Models(sig, G) ==
  LET H == WithLists(G) IN {I \in Interpretations(sig) : \A t \in G : True(sig, I, H, t)}

\* The assertions the rules have to find: class membership, property values
\* and identity of two individuals; relations of two classes or properties.
Assertions(sig) ==
  LET Inds == Individuals(sig)
  IN  (Inds \X {"type"} \X sig.classes) \cup (Inds \X sig.properties \X Inds)
        \cup (sig.properties \X {"domain", "range"} \X sig.classes)
        \cup {t \in (Inds \X {"sameAs"} \X Inds)
                      \cup (sig.classes \X {"subClassOf", "equivalentClass"} \X sig.classes)
                      \cup (sig.properties \X {"subPropertyOf", "equivalentProperty"}
                                           \X sig.properties) : t[1] # t[3]}

\* Whether every interpretation in M makes G true, and what they agree on.
AllTrue(sig, M, G) == LET H == WithLists(G) IN \A I \in M : \A t \in G : True(sig, I, H, t)
Entailed(sig, M) ==
  LET H == WithLists({}) IN {t \in Assertions(sig) : \A I \in M : True(sig, I, H, t)}
=============================================================================
