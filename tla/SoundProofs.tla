---------------------------- MODULE SoundProofs ----------------------------
(***************************************************************************)
(* The rules are sound, for every graph: what they derive is true in every *)
(* interpretation (OwlSemantics) in which the axioms they started from     *)
(* are.  A triple is sound when it uses the vocabulary as OWL intends and  *)
(* is true; but what some triples mean depends on others - on the          *)
(* onProperty of a restriction, on a list.  These no rule derives, unless  *)
(* by replacing an individual by an equal one, so they are sound when they *)
(* are among the axioms, up to such replacements.                          *)
(***************************************************************************)
EXTENDS RuleProofs

\* Axioms whose meaning depends on other triples: those no rule derives, and
\* those an individual may be replaced in.
Rigid ==
  {"someValuesFrom", "allValuesFrom", "maxCardinality", "maxQualifiedCardinality", "onProperty",
   "onClass", "rest", "assertionProperty"} \cup ListPredicates
Soft == {"first", "hasValue", "sourceIndividual", "targetIndividual", "targetValue"}

\* What the rules leave of the axioms of A.
Framed(I, A, t) ==
  /\ t[2] \in Rigid \/ (t[2] = "type" /\ t[3] \in Containers) => t \in A
  /\ t[2] \in Soft => \E u \in A : u[1] = t[1] /\ u[2] = t[2] /\ I.ind[u[3]] = I.ind[t[3]]

\* The other predicates mean the same in every graph.
Free(p) == p \notin Rigid \cup Soft

\* A triple the rules may derive from the axioms A.
Sound(sig, I, A, t) ==
  Used(sig, t) /\ Framed(I, A, t) /\ (Free(t[2]) => True(sig, I, WithLists({}), t))

\* What it means that a triple with one of the relations is true,
LEMMA TrueRelations ==
  ASSUME NEW sig, NEW I, NEW H, NEW t
  PROVE  /\ t[2] = "subClassOf" =>
              (True(sig, I, H, t) <=> ClassOf(sig, I, t[1]) \subseteq ClassOf(sig, I, t[3]))
         /\ t[2] = "equivalentClass" =>
              (True(sig, I, H, t) <=> ClassOf(sig, I, t[1]) = ClassOf(sig, I, t[3]))
         /\ t[2] = "subPropertyOf" => (True(sig, I, H, t) <=> I.prop[t[1]] \subseteq I.prop[t[3]])
         /\ t[2] = "equivalentProperty" => (True(sig, I, H, t) <=> I.prop[t[1]] = I.prop[t[3]])
         /\ t[2] = "type" => (True(sig, I, H, t) <=> TypeTrue(sig, I, t[1], t[3]))
         /\ t[2] = "sameAs" => (True(sig, I, H, t) <=> t[1] = t[3] \/ I.ind[t[1]] = I.ind[t[3]])
         /\ t[2] = "inverseOf" =>
              (True(sig, I, H, t) <=> I.prop[t[1]] = {<<r[2], r[1]>> : r \in I.prop[t[3]]})
         /\ t[2] = "domain" =>
              (True(sig, I, H, t) <=> \A r \in I.prop[t[1]] : r[1] \in ClassOf(sig, I, t[3]))
         /\ t[2] = "range" =>
              (True(sig, I, H, t) <=> \A r \in I.prop[t[1]] : r[2] \in ClassOf(sig, I, t[3]))
BY DEF True

\* or one with a property of the signature, which is no word of the vocabulary;
LEMMA TrueFact ==
  ASSUME NEW sig, SignatureApart(sig), NEW I, NEW H, NEW t, t[2] \in sig.properties
  PROVE  /\ True(sig, I, H, t) <=> <<I.ind[t[1]], I.ind[t[3]]>> \in I.prop[t[2]]
         /\ Free(t[2])
<1> DEFINE V == Reserved
<1>1. t[2] \notin Reserved
  BY DEF SignatureApart
<1> QED BY <1>1 DEF True, Reserved, ClassRelations, PropertyRelations, ListPredicates, Free, Rigid, Soft

\* and what such triples relate, when they are used as OWL intends.
LEMMA UsedRelations ==
  ASSUME NEW sig, SignatureApart(sig), NEW t
  PROVE  /\ t[2] \in {"subClassOf", "equivalentClass"} =>
              (Used(sig, t) <=> t[1] \in ClassNames(sig) /\ t[3] \in ClassNames(sig))
         /\ t[2] \in {"subPropertyOf", "equivalentProperty", "inverseOf"} =>
              (Used(sig, t) <=> t[1] \in sig.properties /\ t[3] \in sig.properties)
         /\ t[2] \in {"domain", "range"} =>
              (Used(sig, t) <=> t[1] \in sig.properties /\ t[3] \in ClassNames(sig))
         /\ t[2] = "sameAs" =>
              (Used(sig, t) <=> t[1] = t[3] \/ (t[1] \in Individuals(sig) /\ t[3] \in Individuals(sig)))
         /\ t[2] \in sig.properties =>
              (Used(sig, t) <=> t[1] \in Individuals(sig) /\ t[3] \in Individuals(sig))
<1>1. sig.properties \cap Reserved = {}
  BY DEF SignatureApart
<1> QED BY <1>1 DEF Used, Reserved, ClassRelations, PropertyRelations, ListPredicates, Containers, PropertyTypes

\* What may have which type,
LEMMA UsedTypes ==
  ASSUME NEW sig, SignatureApart(sig), NEW t, t[2] = "type"
  PROVE  /\ t[3] \in ClassNames(sig) => (Used(sig, t) <=> t[1] \in Individuals(sig))
         /\ t[3] = "Class" => (Used(sig, t) <=> t[1] \in ClassNames(sig))
         /\ t[3] = "Datatype" => Used(sig, t)
         /\ t[3] \in PropertyTypes => (Used(sig, t) <=> t[1] \in sig.properties)
<1>1. (sig.properties \cup sig.classes) \cap Reserved = {}
  BY DEF SignatureApart
<1> QED BY <1>1 DEF Used, Reserved, ClassRelations, PropertyRelations, ListPredicates, Containers,
                    PropertyTypes, ClassNames

\* and when it has.
LEMMA TrueTypes ==
  ASSUME NEW sig, SignatureApart(sig), NEW I, NEW s, NEW o
  PROVE  /\ o \in ClassNames(sig) => (TypeTrue(sig, I, s, o) <=> I.ind[s] \in ClassOf(sig, I, o))
         /\ o \in {"Class", "Datatype"} => TypeTrue(sig, I, s, o)
<1>1. sig.classes \cap Reserved = {}
  BY DEF SignatureApart
<1> QED BY <1>1 DEF TypeTrue, Reserved, Containers, PropertyTypes, ClassNames

\* Together: what it takes for a relation of classes or properties to be sound,
LEMMA SoundRelations ==
  ASSUME NEW sig, SignatureApart(sig), NEW I, NEW A, NEW t
  PROVE  /\ t[2] = "subClassOf" =>
              (Sound(sig, I, A, t) <=>
                 /\ t[1] \in ClassNames(sig) /\ t[3] \in ClassNames(sig)
                 /\ ClassOf(sig, I, t[1]) \subseteq ClassOf(sig, I, t[3]))
         /\ t[2] = "equivalentClass" =>
              (Sound(sig, I, A, t) <=>
                 /\ t[1] \in ClassNames(sig) /\ t[3] \in ClassNames(sig)
                 /\ ClassOf(sig, I, t[1]) = ClassOf(sig, I, t[3]))
         /\ t[2] = "subPropertyOf" =>
              (Sound(sig, I, A, t) <=>
                 /\ t[1] \in sig.properties /\ t[3] \in sig.properties
                 /\ I.prop[t[1]] \subseteq I.prop[t[3]])
         /\ t[2] = "equivalentProperty" =>
              (Sound(sig, I, A, t) <=>
                 /\ t[1] \in sig.properties /\ t[3] \in sig.properties
                 /\ I.prop[t[1]] = I.prop[t[3]])
         /\ t[2] = "inverseOf" =>
              (Sound(sig, I, A, t) <=>
                 /\ t[1] \in sig.properties /\ t[3] \in sig.properties
                 /\ I.prop[t[1]] = {<<r[2], r[1]>> : r \in I.prop[t[3]]})
         /\ t[2] = "domain" =>
              (Sound(sig, I, A, t) <=>
                 /\ t[1] \in sig.properties /\ t[3] \in ClassNames(sig)
                 /\ \A r \in I.prop[t[1]] : r[1] \in ClassOf(sig, I, t[3]))
         /\ t[2] = "range" =>
              (Sound(sig, I, A, t) <=>
                 /\ t[1] \in sig.properties /\ t[3] \in ClassNames(sig)
                 /\ \A r \in I.prop[t[1]] : r[2] \in ClassOf(sig, I, t[3]))
<1>1. t[2] \in {"subClassOf", "equivalentClass", "subPropertyOf", "equivalentProperty", "inverseOf",
                "domain", "range"} =>
        Framed(I, A, t) /\ Free(t[2])
  BY DEF Framed, Free, Rigid, Soft, ListPredicates
<1> QED BY <1>1, TrueRelations, UsedRelations DEF Sound

\* or an assertion about individuals.
LEMMA SoundAssertions ==
  ASSUME NEW sig, SignatureApart(sig), NEW I, NEW A, NEW t
  PROVE  /\ t[2] = "sameAs" =>
              (Sound(sig, I, A, t) <=>
                 \/ t[1] = t[3]
                 \/ /\ t[1] \in Individuals(sig) /\ t[3] \in Individuals(sig)
                    /\ I.ind[t[1]] = I.ind[t[3]])
         /\ t[2] = "type" /\ t[3] \in ClassNames(sig) =>
              (Sound(sig, I, A, t) <=>
                 t[1] \in Individuals(sig) /\ I.ind[t[1]] \in ClassOf(sig, I, t[3]))
         /\ t[2] = "type" /\ t[3] = "Class" => (Sound(sig, I, A, t) <=> t[1] \in ClassNames(sig))
         /\ t[2] = "type" /\ t[3] = "Datatype" => Sound(sig, I, A, t)
         /\ t[2] = "type" /\ t[3] \in PropertyTypes =>
              (Sound(sig, I, A, t) => t[1] \in sig.properties /\ TypeTrue(sig, I, t[1], t[3]))
         /\ t[2] \in sig.properties =>
              (Sound(sig, I, A, t) <=>
                 /\ t[1] \in Individuals(sig) /\ t[3] \in Individuals(sig)
                 /\ <<I.ind[t[1]], I.ind[t[3]]>> \in I.prop[t[2]])
<1>1. (sig.properties \cup sig.classes) \cap Reserved = {}
  BY DEF SignatureApart
<1>2. t[2] = "sameAs" => Framed(I, A, t) /\ Free(t[2])
  BY DEF Framed, Free, Rigid, Soft, ListPredicates
<1>3. t[2] = "type" => Free(t[2])
  BY DEF Free, Rigid, Soft, ListPredicates
<1>4. t[2] = "type" /\ t[3] \in ClassNames(sig) \cup {"Class", "Datatype"} => Framed(I, A, t)
  BY <1>1 DEF Framed, Rigid, Soft, ListPredicates, Containers, ClassNames, Reserved
<1>5. t[2] \in sig.properties => Framed(I, A, t) /\ Free(t[2])
  BY <1>1, TrueFact DEF Framed, Free, Reserved
<1>6. t[2] = "type" => (True(sig, I, WithLists({}), t) <=> TypeTrue(sig, I, t[1], t[3]))
  BY TrueRelations
<1>7. t[2] = "sameAs" =>
        (True(sig, I, WithLists({}), t) <=> t[1] = t[3] \/ I.ind[t[1]] = I.ind[t[3]])
  BY TrueRelations
<1>8. CASE t[2] = "type"
  <2> USE <1>8
  <2>1. t[2] \notin sig.properties
    BY <1>1 DEF Reserved
  <2> QED BY <1>3, <1>4, <1>6, <2>1, UsedTypes, TrueTypes DEF Sound
<1>9. CASE t[2] = "sameAs"
  BY <1>1, <1>2, <1>7, <1>9, UsedRelations DEF Sound, Reserved
<1>10. CASE t[2] \in sig.properties
  BY <1>1, <1>5, <1>10, TrueFact, UsedRelations DEF Sound, Reserved
<1> QED BY <1>8, <1>9, <1>10

-----------------------------------------------------------------------------
(* An interpretation, the axioms, and a graph the rules have extended.     *)

\* I is an interpretation of the axioms A, and the triples of G, which
\* contains A, are sound in it.
Fits(sig, I, A, G) ==
  /\ Meaningful(sig, A)
  /\ I \in Interpretations(sig)
  /\ \A t \in A : True(sig, I, WithLists(A), t)
  /\ A \subseteq G /\ IsFiniteSet(G) /\ AllWellFormed(G)
  /\ \A t \in G : Sound(sig, I, A, t)

\* An interpretation gives sets and pairs of elements of its domain.
LEMMA Interpreted ==
  ASSUME NEW sig, SignatureApart(sig), NEW I \in Interpretations(sig)
  PROVE  /\ \A c \in ClassNames(sig) : ClassOf(sig, I, c) \subseteq Elements(sig)
         /\ \A p \in sig.properties : I.prop[p] \subseteq Elements(sig) \X Elements(sig)
         /\ \A x \in Individuals(sig) : I.ind[x] \in Elements(sig)
         /\ \A c \in sig.classes : ClassOf(sig, I, c) = I.cls[c]
<1>1. I.ind \in Denotations(sig.individuals, sig.size)
  BY DEF Interpretations
<1>2. I.ind \in [Individuals(sig) -> Elements(sig)]
  BY <1>1 DEF Denotations, Individuals, Elements
<1>3. I.cls \in [sig.classes -> SUBSET Elements(sig)] /\ I.prop \in [sig.properties -> SUBSET (Elements(sig) \X Elements(sig))]
  BY DEF Interpretations, Elements
<1>4. \A c \in sig.classes : c # "Thing" /\ c # "Nothing"
  BY DEF SignatureApart, Reserved
<1> QED BY <1>2, <1>3, <1>4 DEF ClassOf, ClassNames

\* So what the relations of the graph say is the case,
LEMMA RelationFacts ==
  ASSUME NEW sig, NEW I, NEW A, NEW G, Fits(sig, I, A, G)
  PROVE  /\ \A r \in SubClass(G) : /\ r[1] \in ClassNames(sig) /\ r[2] \in ClassNames(sig)
                                   /\ ClassOf(sig, I, r[1]) \subseteq ClassOf(sig, I, r[2])
         /\ \A r \in SubProp(G) : /\ r[1] \in sig.properties /\ r[2] \in sig.properties
                                  /\ I.prop[r[1]] \subseteq I.prop[r[2]]
         /\ \A r \in Pairs(G, "equivalentClass") :
              /\ r[1] \in ClassNames(sig) /\ r[2] \in ClassNames(sig)
              /\ ClassOf(sig, I, r[1]) = ClassOf(sig, I, r[2])
         /\ \A r \in Pairs(G, "equivalentProperty") :
              /\ r[1] \in sig.properties /\ r[2] \in sig.properties
              /\ I.prop[r[1]] = I.prop[r[2]]
         /\ \A r \in Pairs(G, "inverseOf") :
              /\ r[1] \in sig.properties /\ r[2] \in sig.properties
              /\ I.prop[r[1]] = {<<q[2], q[1]>> : q \in I.prop[r[2]]}
         /\ \A r \in Pairs(G, "domain") :
              /\ r[1] \in sig.properties /\ r[2] \in ClassNames(sig)
              /\ \A q \in I.prop[r[1]] : q[1] \in ClassOf(sig, I, r[2])
         /\ \A r \in Pairs(G, "range") :
              /\ r[1] \in sig.properties /\ r[2] \in ClassNames(sig)
              /\ \A q \in I.prop[r[1]] : q[2] \in ClassOf(sig, I, r[2])
<1>1. SignatureApart(sig)
  BY DEF Fits, Meaningful
<1>2. \A t \in G : Sound(sig, I, A, t)
  BY DEF Fits
<1>3. \A r \in SubClass(G) : /\ r[1] \in ClassNames(sig) /\ r[2] \in ClassNames(sig)
                             /\ ClassOf(sig, I, r[1]) \subseteq ClassOf(sig, I, r[2])
  <2> \A t \in G : t[2] = "subClassOf" =>
                 /\ t[1] \in ClassNames(sig) /\ t[3] \in ClassNames(sig)
                 /\ ClassOf(sig, I, t[1]) \subseteq ClassOf(sig, I, t[3])
    BY <1>1, <1>2, SoundRelations
  <2> QED BY DEF Pairs, SubClass
<1>4. \A r \in SubProp(G) : /\ r[1] \in sig.properties /\ r[2] \in sig.properties
                            /\ I.prop[r[1]] \subseteq I.prop[r[2]]
  <2> \A t \in G : t[2] = "subPropertyOf" =>
                 /\ t[1] \in sig.properties /\ t[3] \in sig.properties
                 /\ I.prop[t[1]] \subseteq I.prop[t[3]]
    BY <1>1, <1>2, SoundRelations
  <2> QED BY DEF Pairs, SubProp
<1>5. \A r \in Pairs(G, "equivalentClass") :
              /\ r[1] \in ClassNames(sig) /\ r[2] \in ClassNames(sig)
              /\ ClassOf(sig, I, r[1]) = ClassOf(sig, I, r[2])
  <2> \A t \in G : t[2] = "equivalentClass" =>
                 /\ t[1] \in ClassNames(sig) /\ t[3] \in ClassNames(sig)
                 /\ ClassOf(sig, I, t[1]) = ClassOf(sig, I, t[3])
    BY <1>1, <1>2, SoundRelations
  <2> QED BY DEF Pairs
<1>6. \A r \in Pairs(G, "equivalentProperty") :
              /\ r[1] \in sig.properties /\ r[2] \in sig.properties
              /\ I.prop[r[1]] = I.prop[r[2]]
  <2> \A t \in G : t[2] = "equivalentProperty" =>
                 /\ t[1] \in sig.properties /\ t[3] \in sig.properties
                 /\ I.prop[t[1]] = I.prop[t[3]]
    BY <1>1, <1>2, SoundRelations
  <2> QED BY DEF Pairs
<1>7. \A r \in Pairs(G, "inverseOf") :
              /\ r[1] \in sig.properties /\ r[2] \in sig.properties
              /\ I.prop[r[1]] = {<<q[2], q[1]>> : q \in I.prop[r[2]]}
  <2> \A t \in G : t[2] = "inverseOf" =>
                 /\ t[1] \in sig.properties /\ t[3] \in sig.properties
                 /\ I.prop[t[1]] = {<<q[2], q[1]>> : q \in I.prop[t[3]]}
    BY <1>1, <1>2, SoundRelations
  <2> QED BY DEF Pairs
<1>8. \A r \in Pairs(G, "domain") :
              /\ r[1] \in sig.properties /\ r[2] \in ClassNames(sig)
              /\ \A q \in I.prop[r[1]] : q[1] \in ClassOf(sig, I, r[2])
  <2> \A t \in G : t[2] = "domain" =>
                 /\ t[1] \in sig.properties /\ t[3] \in ClassNames(sig)
                 /\ \A q \in I.prop[t[1]] : q[1] \in ClassOf(sig, I, t[3])
    BY <1>1, <1>2, SoundRelations
  <2> QED BY DEF Pairs
<1>9. \A r \in Pairs(G, "range") :
              /\ r[1] \in sig.properties /\ r[2] \in ClassNames(sig)
              /\ \A q \in I.prop[r[1]] : q[2] \in ClassOf(sig, I, r[2])
  <2> \A t \in G : t[2] = "range" =>
                 /\ t[1] \in sig.properties /\ t[3] \in ClassNames(sig)
                 /\ \A q \in I.prop[t[1]] : q[2] \in ClassOf(sig, I, t[3])
    BY <1>1, <1>2, SoundRelations
  <2> QED BY DEF Pairs
<1> QED BY <1>3, <1>4, <1>5, <1>6, <1>7, <1>8, <1>9

\* and what its assertions say.
LEMMA AssertionFacts ==
  ASSUME NEW sig, NEW I, NEW A, NEW G, Fits(sig, I, A, G)
  PROVE  /\ \A c \in ClassNames(sig) : \A x \in Instances(G, c) :
              x \in Individuals(sig) /\ I.ind[x] \in ClassOf(sig, I, c)
         /\ \A x \in Instances(G, "Class") : x \in ClassNames(sig)
         /\ \A k \in PropertyTypes : \A x \in Instances(G, k) :
              x \in sig.properties /\ TypeTrue(sig, I, x, k)
         /\ \A p \in sig.properties : \A r \in Pairs(G, p) :
              /\ r[1] \in Individuals(sig) /\ r[2] \in Individuals(sig)
              /\ <<I.ind[r[1]], I.ind[r[2]]>> \in I.prop[p]
         /\ \A p \in sig.properties : \A s : \A o \in Objects(G, s, p) :
              /\ s \in Individuals(sig) /\ o \in Individuals(sig)
              /\ <<I.ind[s], I.ind[o]>> \in I.prop[p]
         /\ \A r \in Pairs(G, "sameAs") :
              \/ r[1] = r[2]
              \/ /\ r[1] \in Individuals(sig) /\ r[2] \in Individuals(sig)
                 /\ I.ind[r[1]] = I.ind[r[2]]
<1>1. SignatureApart(sig)
  BY DEF Fits, Meaningful
<1>2. \A t \in G : Sound(sig, I, A, t)
  BY DEF Fits
<1>3. \A c \in ClassNames(sig) : \A x \in Instances(G, c) :
              x \in Individuals(sig) /\ I.ind[x] \in ClassOf(sig, I, c)
  <2> \A t \in G : t[2] = "type" /\ t[3] \in ClassNames(sig) =>
        t[1] \in Individuals(sig) /\ I.ind[t[1]] \in ClassOf(sig, I, t[3])
    BY <1>1, <1>2, SoundAssertions
  <2> QED BY DEF Instances
<1>4. \A x \in Instances(G, "Class") : x \in ClassNames(sig)
  <2> \A t \in G : t[2] = "type" /\ t[3] = "Class" => t[1] \in ClassNames(sig)
    BY <1>1, <1>2, SoundAssertions
  <2> QED BY DEF Instances
<1>5. \A k \in PropertyTypes : \A x \in Instances(G, k) : x \in sig.properties /\ TypeTrue(sig, I, x, k)
  <2> \A t \in G : t[2] = "type" /\ t[3] \in PropertyTypes =>
        t[1] \in sig.properties /\ TypeTrue(sig, I, t[1], t[3])
    BY <1>1, <1>2, SoundAssertions
  <2> QED BY DEF Instances
<1>6. \A t \in G : t[2] \in sig.properties =>
         /\ t[1] \in Individuals(sig) /\ t[3] \in Individuals(sig)
         /\ <<I.ind[t[1]], I.ind[t[3]]>> \in I.prop[t[2]]
  BY <1>1, <1>2, SoundAssertions
<1>7. \A p \in sig.properties : \A r \in Pairs(G, p) :
              /\ r[1] \in Individuals(sig) /\ r[2] \in Individuals(sig)
              /\ <<I.ind[r[1]], I.ind[r[2]]>> \in I.prop[p]
  BY <1>6 DEF Pairs
<1>8. \A p \in sig.properties : \A s : \A o \in Objects(G, s, p) :
              /\ s \in Individuals(sig) /\ o \in Individuals(sig)
              /\ <<I.ind[s], I.ind[o]>> \in I.prop[p]
  BY <1>6 DEF Objects
<1>9. \A r \in Pairs(G, "sameAs") :
              \/ r[1] = r[2]
              \/ /\ r[1] \in Individuals(sig) /\ r[2] \in Individuals(sig)
                 /\ I.ind[r[1]] = I.ind[r[2]]
  <2> \A t \in G : t[2] = "sameAs" =>
              \/ t[1] = t[3]
              \/ /\ t[1] \in Individuals(sig) /\ t[3] \in Individuals(sig)
                 /\ I.ind[t[1]] = I.ind[t[3]]
    BY <1>1, <1>2, SoundAssertions
  <2> QED BY DEF Pairs
<1> QED BY <1>3, <1>4, <1>5, <1>7, <1>8, <1>9

\* What it means that an axiom is true whose meaning depends on other triples,
LEMMA TrueAxioms ==
  ASSUME NEW sig, NEW I, NEW H, NEW t
  PROVE  /\ t[2] \in {"someValuesFrom", "allValuesFrom", "hasValue", "maxCardinality"} =>
              (True(sig, I, H, t) <=>
                 \A q \in Links(H.triples, t[1], "onProperty") :
                   I.cls[t[1]] = Restricted(sig, I, t[2], q, t[3]))
         /\ t[2] = "maxQualifiedCardinality" =>
              (True(sig, I, H, t) <=>
                 \A q \in Links(H.triples, t[1], "onProperty"), c \in Links(H.triples, t[1], "onClass") :
                   I.cls[t[1]] = AtMostOf(sig, I, q, c, t[3]))
         /\ t[2] \in {"intersectionOf", "unionOf", "oneOf"} =>
              (True(sig, I, H, t) <=>
                 \A l \in ListsAt(H, t[3]) : I.cls[t[1]] = Listed(sig, I, t[2], l))
         /\ t[2] = "propertyChainAxiom" =>
              (True(sig, I, H, t) <=>
                 \A l \in ListsAt(H, t[3]) : ComposedAll(sig, I, l) \subseteq I.prop[t[1]])
         /\ t[2] = "hasKey" =>
              (True(sig, I, H, t) <=> \A l \in ListsAt(H, t[3]) : KeyTrue(sig, I, t[1], l))
BY DEF True

\* and what such axioms relate.
LEMMA UsedAxioms ==
  ASSUME NEW sig, SignatureApart(sig), NEW t, Used(sig, t)
  PROVE  /\ t[2] \in {"someValuesFrom", "allValuesFrom", "onClass"} =>
              t[1] \in sig.classes /\ t[3] \in ClassNames(sig)
         /\ t[2] = "hasValue" => t[1] \in sig.classes /\ t[3] \in Individuals(sig)
         /\ t[2] = "onProperty" => t[1] \in sig.classes /\ t[3] \in sig.properties
         /\ t[2] \in {"maxCardinality", "maxQualifiedCardinality"} =>
              t[1] \in sig.classes /\ t[3] \in {"0", "1"}
         /\ t[2] \in {"intersectionOf", "unionOf", "oneOf"} => t[1] \in sig.classes
         /\ t[2] = "hasKey" => t[1] \in ClassNames(sig)
         /\ t[2] = "propertyChainAxiom" => t[1] \in sig.properties
<1>1. sig.properties \cap Reserved = {}
  BY DEF SignatureApart
<1> QED BY <1>1 DEF Used, Reserved, ClassRelations, PropertyRelations, ListPredicates, Containers, PropertyTypes

\* The rules leave these axioms as they are, so that what a restriction's class
\* is linked to are the links it had.
LEMMA RigidFacts ==
  ASSUME NEW sig, NEW I, NEW A, NEW G, Fits(sig, I, A, G)
  PROVE  /\ SignatureApart(sig)
         /\ \A t \in G : Used(sig, t) /\ (t[2] \in Rigid => t \in A)
         /\ \A t \in G : t = <<t[1], t[2], t[3]>>
         /\ \A t \in G : t[2] = "hasValue" =>
              \E u \in A : u[1] = t[1] /\ u[2] = t[2] /\ I.ind[u[3]] = I.ind[t[3]]
         /\ \A s : Objects(G, s, "onProperty") = Links(A, s, "onProperty")
         /\ \A s : Objects(G, s, "onClass") = Links(A, s, "onClass")
<1>1. SignatureApart(sig) /\ A \subseteq G
  BY DEF Fits, Meaningful
<1>2. \A t \in G : Used(sig, t) /\ (t[2] \in Rigid => t \in A)
  BY DEF Fits, Sound, Framed
<1>3. \A t \in G : t = <<t[1], t[2], t[3]>>
  BY DEF Fits, AllWellFormed, WellFormed
<1>4. \A t \in G : t[2] = "hasValue" =>
        \E u \in A : u[1] = t[1] /\ u[2] = t[2] /\ I.ind[u[3]] = I.ind[t[3]]
  BY DEF Fits, Sound, Framed, Soft
<1>5. "onProperty" \in Rigid /\ "onClass" \in Rigid
  BY DEF Rigid
<1>6. ASSUME NEW p \in Rigid, NEW s PROVE Objects(G, s, p) = Links(A, s, p)
  BY <1>1, <1>2 DEF Objects, Links
<1> QED BY <1>1, <1>2, <1>3, <1>4, <1>5, <1>6

\* A restriction that the rules find is one of the axioms, up to the value of a
\* hasValue, and its class is what the axiom says.
LEMMA RestrictionFacts ==
  ASSUME NEW sig, NEW I, NEW A, NEW G, Fits(sig, I, A, G)
  PROVE  /\ \A k \in {"someValuesFrom", "allValuesFrom"} : \A x \in Restrictions(G, k) :
              /\ x[1] \in sig.classes /\ x[2] \in sig.properties /\ x[3] \in ClassNames(sig)
              /\ I.cls[x[1]] = Restricted(sig, I, k, x[2], x[3])
         /\ \A x \in Restrictions(G, "hasValue") :
              /\ x[1] \in sig.classes /\ x[2] \in sig.properties /\ x[3] \in Individuals(sig)
              /\ I.cls[x[1]] = Restricted(sig, I, "hasValue", x[2], x[3])
<1>1. ASSUME NEW k \in {"someValuesFrom", "allValuesFrom", "hasValue"}, NEW x \in Restrictions(G, k)
      PROVE  /\ x[1] \in sig.classes /\ x[2] \in sig.properties
             /\ k \in {"someValuesFrom", "allValuesFrom"} => x[3] \in ClassNames(sig)
             /\ k = "hasValue" => x[3] \in Individuals(sig)
             /\ I.cls[x[1]] = Restricted(sig, I, k, x[2], x[3])
  <2>1. PICK r \in Pairs(G, k) :
          \E p \in {o \in Objects(G, r[1], "onProperty") : Iri(o)} : x = <<r[1], p, r[2]>>
    BY DEF Restrictions
  <2>2. PICK t \in G : t[2] = k /\ r = <<t[1], t[3]>>
    BY <2>1 DEF Pairs
  <2>3. x[1] = t[1] /\ x[3] = t[3] /\ x[2] \in Objects(G, t[1], "onProperty")
    BY <2>1, <2>2
  <2>4. x[2] \in Links(A, t[1], "onProperty")
    BY <2>3, RigidFacts
  <2>5. PICK u \in G : u[1] = t[1] /\ u[2] = "onProperty" /\ u[3] = x[2]
    BY <2>3 DEF Objects
  <2>6. Used(sig, t) /\ Used(sig, u) /\ SignatureApart(sig)
    BY RigidFacts
  <2>7. /\ x[1] \in sig.classes /\ x[2] \in sig.properties
        /\ k \in {"someValuesFrom", "allValuesFrom"} => x[3] \in ClassNames(sig)
        /\ k = "hasValue" => x[3] \in Individuals(sig)
    BY <2>2, <2>3, <2>5, <2>6, UsedAxioms
  <2>8. PICK v \in A : /\ v[1] = t[1] /\ v[2] = t[2]
                       /\ \/ v[3] = t[3]
                          \/ k = "hasValue" /\ I.ind[v[3]] = I.ind[t[3]]
    <3>1. k # "hasValue" => t \in A
      BY <2>2, RigidFacts DEF Rigid
    <3> QED BY <2>2, <3>1, RigidFacts
  <2>9. True(sig, I, WithLists(A), v) /\ WithLists(A).triples = A
    BY DEF Fits, WithLists
  <2>10. I.cls[x[1]] = Restricted(sig, I, k, x[2], v[3])
    BY <2>2, <2>3, <2>4, <2>8, <2>9, TrueAxioms
  <2>11. v[3] # t[3] => Restricted(sig, I, k, x[2], v[3]) = Restricted(sig, I, k, x[2], t[3])
    BY <2>8 DEF Restricted
  <2> QED BY <2>3, <2>7, <2>10, <2>11
<1> QED BY <1>1

\* So are the cardinality restrictions, whichever property and class are kept,
LEMMA CardinalityFacts ==
  ASSUME NEW sig, NEW I, NEW A, NEW G, Fits(sig, I, A, G)
  PROVE  /\ \A c, p : c \in AtMostOne(G, "maxCardinality") /\ <<c, p>> \in OnProperties(G) =>
              /\ c \in sig.classes /\ p \in sig.properties
              /\ \E v : I.cls[c] = Restricted(sig, I, "maxCardinality", p, v)
         /\ \A c, p, d :
              c \in AtMostOne(G, "maxQualifiedCardinality") /\ <<c, p>> \in OnProperties(G)
                /\ <<c, d>> \in OnClasses(G) =>
              /\ c \in sig.classes /\ p \in sig.properties /\ d \in ClassNames(sig)
              /\ \E v : I.cls[c] = AtMostOf(sig, I, p, d, v)
<1>1. ASSUME NEW k \in {"maxCardinality", "maxQualifiedCardinality"}, NEW c \in AtMostOne(G, k)
      PROVE  \E t \in A : t[1] = c /\ t[2] = k /\ Used(sig, t) /\ True(sig, I, WithLists(A), t)
  <2>1. PICK t \in G : t[1] = c /\ t[2] = k
    BY DEF AtMostOne, Pairs
  <2>2. t \in A
    BY <2>1, RigidFacts DEF Rigid
  <2> QED BY <2>1, <2>2, RigidFacts DEF Fits
<1>2. ASSUME NEW c, NEW p, <<c, p>> \in OnProperties(G)
      PROVE  p \in Links(A, c, "onProperty") /\ p \in sig.properties
  <2>1. PICK u \in G : u[1] = c /\ u[2] = "onProperty" /\ u[3] = p
    BY <1>2 DEF OnProperties, Pairs
  <2>2. p \in Objects(G, c, "onProperty")
    BY <2>1 DEF Objects
  <2> QED BY <2>1, <2>2, RigidFacts, UsedAxioms
<1>3. ASSUME NEW c, NEW p, <<c, p>> \in OnClasses(G)
      PROVE  p \in Links(A, c, "onClass") /\ p \in ClassNames(sig)
  <2>1. PICK u \in G : u[1] = c /\ u[2] = "onClass" /\ u[3] = p
    BY <1>3 DEF OnClasses, Pairs
  <2>2. p \in Objects(G, c, "onClass")
    BY <2>1 DEF Objects
  <2> QED BY <2>1, <2>2, RigidFacts, UsedAxioms
<1>4. WithLists(A).triples = A /\ SignatureApart(sig)
  BY RigidFacts DEF WithLists
<1>5. ASSUME NEW c \in AtMostOne(G, "maxCardinality"), NEW p, <<c, p>> \in OnProperties(G)
      PROVE  /\ c \in sig.classes /\ p \in sig.properties
             /\ \E v : I.cls[c] = Restricted(sig, I, "maxCardinality", p, v)
  <2>1. PICK t \in A : /\ t[1] = c /\ t[2] = "maxCardinality" /\ Used(sig, t)
                       /\ True(sig, I, WithLists(A), t)
    BY <1>1
  <2>2. \A q \in Links(A, c, "onProperty") : I.cls[c] = Restricted(sig, I, "maxCardinality", q, t[3])
    BY <1>4, <2>1, TrueAxioms
  <2> QED BY <1>2, <1>4, <1>5, <2>1, <2>2, UsedAxioms
<1>6. ASSUME NEW c \in AtMostOne(G, "maxQualifiedCardinality"), NEW p, <<c, p>> \in OnProperties(G),
             NEW d, <<c, d>> \in OnClasses(G)
      PROVE  /\ c \in sig.classes /\ p \in sig.properties /\ d \in ClassNames(sig)
             /\ \E v : I.cls[c] = AtMostOf(sig, I, p, d, v)
  <2>1. PICK t \in A : /\ t[1] = c /\ t[2] = "maxQualifiedCardinality" /\ Used(sig, t)
                       /\ True(sig, I, WithLists(A), t)
    BY <1>1
  <2>2. \A q \in Links(A, c, "onProperty"), e \in Links(A, c, "onClass") :
          I.cls[c] = AtMostOf(sig, I, q, e, t[3])
    BY <1>4, <2>1, TrueAxioms
  <2> QED BY <1>2, <1>3, <1>4, <1>6, <2>1, <2>2, UsedAxioms
<1> QED BY <1>5, <1>6

\* The rules add no list to those of the axioms: they derive no rest, and
\* what they make of a first denotes the same individual.
LEMMA ListsInside ==
  ASSUME NEW sig, NEW I, NEW A, NEW G, Fits(sig, I, A, G)
  PROVE  \A h : Lists(G, h) \subseteq ListValues(A, h) /\ Lists(G, h) = ListValues(G, h)
<1>1. /\ A \subseteq G /\ IsFiniteSet(G) /\ IsFiniteSet(A) /\ AllWellFormed(G) /\ AllWellFormed(A)
  BY FS_Subset DEF Fits, AllWellFormed
<1>2. ASSUME NEW c, NEW x, NEW p \in {"first", "rest"}, Links(G, c, p) = {x}
      PROVE  Links(A, c, p) = {x}
  <2>1. PICK t \in G : t[1] = c /\ t[2] = p /\ t[3] = x
    BY <1>2 DEF Links
  <2>2. \E u \in A : u[1] = c /\ u[2] = p
    BY <2>1 DEF Fits, Sound, Framed, Rigid, Soft
  <2> QED BY <1>1, <1>2, <2>2 DEF Links
<1>3. \A h : Lists(G, h) \subseteq Lists(A, h)
  BY <1>1, <1>2, ListsFollow
<1>4. \A h : Lists(A, h) = ListValues(A, h) /\ Lists(G, h) = ListValues(G, h)
  BY <1>1, ListsExact
<1> QED BY <1>3, <1>4

\* and the axioms with a list, for every list the walker finds.
LEMMA ListFacts ==
  ASSUME NEW sig, NEW I, NEW A, NEW G, Fits(sig, I, A, G)
  PROVE  /\ \A k \in {"intersectionOf", "unionOf"} : \A x \in ListsOf(G, k) :
              /\ x[1] \in sig.classes /\ Members(x[2]) \subseteq ClassNames(sig)
              /\ I.cls[x[1]] = Listed(sig, I, k, x[2])
         /\ \A x \in ListsOf(G, "oneOf") :
              /\ x[1] \in sig.classes /\ Members(x[2]) \subseteq Individuals(sig)
              /\ I.cls[x[1]] = Listed(sig, I, "oneOf", x[2])
         /\ \A x \in ListsOf(G, "propertyChainAxiom") :
              /\ x[1] \in sig.properties /\ Members(x[2]) \subseteq sig.properties
              /\ ComposedAll(sig, I, x[2]) \subseteq I.prop[x[1]]
         /\ \A x \in ListsOf(G, "hasKey") :
              /\ x[1] \in ClassNames(sig) /\ Members(x[2]) \subseteq sig.properties
              /\ KeyTrue(sig, I, x[1], x[2])
<1>1. SignatureApart(sig) /\ ListsUsed(sig, A)
  BY DEF Fits, Meaningful
<1>3. \A h : Lists(G, h) \subseteq ListValues(A, h)
  BY ListsInside
<1>4. ASSUME NEW k \in ListPredicates, NEW x \in ListsOf(G, k)
      PROVE  \E t \in A : /\ t[1] = x[1] /\ t[2] = k /\ Used(sig, t) /\ True(sig, I, WithLists(A), t)
                          /\ x[2] \in ListValues(A, t[3]) /\ x[2] \in ListsAt(WithLists(A), t[3])
  <2>1. PICK r \in NodePairs(G, k) : \E l \in Lists(G, r[2]) : x = <<r[1], l>>
    BY DEF ListsOf
  <2>2. PICK t \in G : t[2] = k /\ r = <<t[1], t[3]>>
    BY DEF NodePairs, Pairs
  <2>3. t \in A /\ Used(sig, t)
    BY <2>2, RigidFacts DEF Rigid
  <2>4. x[1] = t[1] /\ x[2] \in ListValues(A, t[3])
    BY <1>3, <2>1, <2>2
  <2>5. <<t[3], x[2]>> \in WithLists(A).lists
    BY <2>2, <2>3, <2>4 DEF WithLists
  <2>6. x[2] \in ListsAt(WithLists(A), t[3])
    BY <2>5 DEF ListsAt
  <2>7. True(sig, I, WithLists(A), t)
    BY <2>3 DEF Fits
  <2> QED BY <2>2, <2>3, <2>4, <2>6, <2>7
<1>5. ASSUME NEW k \in {"intersectionOf", "unionOf"}, NEW x \in ListsOf(G, k)
      PROVE  /\ x[1] \in sig.classes /\ Members(x[2]) \subseteq ClassNames(sig)
             /\ I.cls[x[1]] = Listed(sig, I, k, x[2])
  <2>1. PICK t \in A : /\ t[1] = x[1] /\ t[2] = k /\ Used(sig, t) /\ True(sig, I, WithLists(A), t)
                       /\ x[2] \in ListValues(A, t[3]) /\ x[2] \in ListsAt(WithLists(A), t[3])
    BY <1>4 DEF ListPredicates
  <2>2. \A i \in DOMAIN x[2] : x[2][i] \in ClassNames(sig)
    BY <1>1, <2>1 DEF ListsUsed, ListPredicates
  <2> QED BY <1>1, <2>1, <2>2, TrueAxioms, UsedAxioms DEF Members
<1>6. ASSUME NEW x \in ListsOf(G, "oneOf")
      PROVE  /\ x[1] \in sig.classes /\ Members(x[2]) \subseteq Individuals(sig)
             /\ I.cls[x[1]] = Listed(sig, I, "oneOf", x[2])
  <2>1. PICK t \in A : /\ t[1] = x[1] /\ t[2] = "oneOf" /\ Used(sig, t) /\ True(sig, I, WithLists(A), t)
                       /\ x[2] \in ListValues(A, t[3]) /\ x[2] \in ListsAt(WithLists(A), t[3])
    BY <1>4 DEF ListPredicates
  <2>2. \A i \in DOMAIN x[2] : x[2][i] \in Individuals(sig)
    BY <1>1, <2>1 DEF ListsUsed, ListPredicates
  <2> QED BY <1>1, <2>1, <2>2, TrueAxioms, UsedAxioms DEF Members
<1>7. ASSUME NEW x \in ListsOf(G, "propertyChainAxiom")
      PROVE  /\ x[1] \in sig.properties /\ Members(x[2]) \subseteq sig.properties
             /\ ComposedAll(sig, I, x[2]) \subseteq I.prop[x[1]]
  <2>1. PICK t \in A : /\ t[1] = x[1] /\ t[2] = "propertyChainAxiom" /\ Used(sig, t)
                       /\ True(sig, I, WithLists(A), t)
                       /\ x[2] \in ListValues(A, t[3]) /\ x[2] \in ListsAt(WithLists(A), t[3])
    BY <1>4 DEF ListPredicates
  <2>2. \A i \in DOMAIN x[2] : x[2][i] \in sig.properties
    BY <1>1, <2>1 DEF ListsUsed, ListPredicates
  <2> QED BY <1>1, <2>1, <2>2, TrueAxioms, UsedAxioms DEF Members
<1>8. ASSUME NEW x \in ListsOf(G, "hasKey")
      PROVE  /\ x[1] \in ClassNames(sig) /\ Members(x[2]) \subseteq sig.properties
             /\ KeyTrue(sig, I, x[1], x[2])
  <2>1. PICK t \in A : /\ t[1] = x[1] /\ t[2] = "hasKey" /\ Used(sig, t) /\ True(sig, I, WithLists(A), t)
                       /\ x[2] \in ListValues(A, t[3]) /\ x[2] \in ListsAt(WithLists(A), t[3])
    BY <1>4 DEF ListPredicates
  <2>2. \A i \in DOMAIN x[2] : x[2][i] \in sig.properties
    BY <1>1, <2>1 DEF ListsUsed, ListPredicates
  <2> QED BY <1>1, <2>1, <2>2, TrueAxioms, UsedAxioms DEF Members
<1> QED BY <1>5, <1>6, <1>7, <1>8

-----------------------------------------------------------------------------
(* The schema rules.                                                       *)

AllSound(sig, I, A, S) == \A t \in S : Sound(sig, I, A, t)

\* Stating what is true of two classes or two properties.
LEMMA SoundPairs ==
  ASSUME NEW sig, SignatureApart(sig), NEW I, NEW A, NEW R
  PROVE  /\ (\A r \in R : /\ r[1] \in ClassNames(sig) /\ r[2] \in ClassNames(sig)
                          /\ ClassOf(sig, I, r[1]) \subseteq ClassOf(sig, I, r[2]))
               => AllSound(sig, I, A, Stating(R, "subClassOf"))
         /\ (\A r \in R : /\ r[1] \in ClassNames(sig) /\ r[2] \in ClassNames(sig)
                          /\ ClassOf(sig, I, r[1]) = ClassOf(sig, I, r[2]))
               => AllSound(sig, I, A, Stating(R, "equivalentClass"))
         /\ (\A r \in R : /\ r[1] \in sig.properties /\ r[2] \in sig.properties
                          /\ I.prop[r[1]] \subseteq I.prop[r[2]])
               => AllSound(sig, I, A, Stating(R, "subPropertyOf"))
         /\ (\A r \in R : /\ r[1] \in sig.properties /\ r[2] \in sig.properties
                          /\ I.prop[r[1]] = I.prop[r[2]])
               => AllSound(sig, I, A, Stating(R, "equivalentProperty"))
         /\ (\A r \in R : /\ r[1] \in sig.properties /\ r[2] \in ClassNames(sig)
                          /\ \A q \in I.prop[r[1]] : q[1] \in ClassOf(sig, I, r[2]))
               => AllSound(sig, I, A, Stating(R, "domain"))
         /\ (\A r \in R : /\ r[1] \in sig.properties /\ r[2] \in ClassNames(sig)
                          /\ \A q \in I.prop[r[1]] : q[2] \in ClassOf(sig, I, r[2]))
               => AllSound(sig, I, A, Stating(R, "range"))
<1>1. \A p : \A t \in Stating(R, p) : t[2] = p /\ \E r \in R : t[1] = r[1] /\ t[3] = r[2]
  BY DEF Stating
<1>2. ASSUME NEW t \in Stating(R, "subClassOf"),
             \A r \in R : /\ r[1] \in ClassNames(sig) /\ r[2] \in ClassNames(sig)
                          /\ ClassOf(sig, I, r[1]) \subseteq ClassOf(sig, I, r[2])
      PROVE  Sound(sig, I, A, t)
  BY <1>1, <1>2, SoundRelations
<1>3. ASSUME NEW t \in Stating(R, "equivalentClass"),
             \A r \in R : /\ r[1] \in ClassNames(sig) /\ r[2] \in ClassNames(sig)
                          /\ ClassOf(sig, I, r[1]) = ClassOf(sig, I, r[2])
      PROVE  Sound(sig, I, A, t)
  BY <1>1, <1>3, SoundRelations
<1>4. ASSUME NEW t \in Stating(R, "subPropertyOf"),
             \A r \in R : /\ r[1] \in sig.properties /\ r[2] \in sig.properties
                          /\ I.prop[r[1]] \subseteq I.prop[r[2]]
      PROVE  Sound(sig, I, A, t)
  BY <1>1, <1>4, SoundRelations
<1>5. ASSUME NEW t \in Stating(R, "equivalentProperty"),
             \A r \in R : /\ r[1] \in sig.properties /\ r[2] \in sig.properties
                          /\ I.prop[r[1]] = I.prop[r[2]]
      PROVE  Sound(sig, I, A, t)
  BY <1>1, <1>5, SoundRelations
<1>6. ASSUME NEW t \in Stating(R, "domain"),
             \A r \in R : /\ r[1] \in sig.properties /\ r[2] \in ClassNames(sig)
                          /\ \A q \in I.prop[r[1]] : q[1] \in ClassOf(sig, I, r[2])
      PROVE  Sound(sig, I, A, t)
  BY <1>1, <1>6, SoundRelations
<1>7. ASSUME NEW t \in Stating(R, "range"),
             \A r \in R : /\ r[1] \in sig.properties /\ r[2] \in ClassNames(sig)
                          /\ \A q \in I.prop[r[1]] : q[2] \in ClassOf(sig, I, r[2])
      PROVE  Sound(sig, I, A, t)
  BY <1>1, <1>7, SoundRelations
<1> QED BY <1>2, <1>3, <1>4, <1>5, <1>6, <1>7 DEF AllSound

\* Each schema rule is sound: the relations of classes and properties are
\* orders, and restrictions follow those of their properties and fillers.
LEMMA SchemaSound ==
  ASSUME NEW sig, NEW I, NEW A, NEW G, Fits(sig, I, A, G)
  PROVE  AllSound(sig, I, A, SchemaRules(G))
<1>1. SignatureApart(sig) /\ I \in Interpretations(sig)
  BY DEF Fits, Meaningful
<1> DEFINE Cls == ClassNames(sig)
           C(c) == ClassOf(sig, I, c)
           P(p) == I.prop[p]
           OK(S) == AllSound(sig, I, A, S)
<1>2. \A R, S : \A r \in Compose(R, S) : \E x \in R, y \in S : x[2] = y[1] /\ r = <<x[1], y[2]>>
  BY DEF Compose
<1>3. \A R : \A r \in Converse(R) : \E x \in R : r = <<x[2], x[1]>>
  BY DEF Converse
<1>0. \A c \in sig.classes : c \in Cls /\ C(c) = I.cls[c]
  BY <1>1, Interpreted DEF ClassNames
<1>4. OK(ScmSco(G))
  <2>1. \A r \in Compose(SubClass(G), SubClass(G)) :
          r[1] \in Cls /\ r[2] \in Cls /\ C(r[1]) \subseteq C(r[2])
    <3>1. \A r \in SubClass(G) : r[1] \in Cls /\ r[2] \in Cls /\ C(r[1]) \subseteq C(r[2])
      BY RelationFacts
    <3> QED BY <1>2, <3>1
  <2> QED BY <1>1, <2>1, SoundPairs DEF ScmSco, Transitive, SubClass
<1>5. OK(ScmSpo(G))
  <2>1. \A r \in Compose(SubProp(G), SubProp(G)) :
          r[1] \in sig.properties /\ r[2] \in sig.properties /\ P(r[1]) \subseteq P(r[2])
    <3>1. \A r \in SubProp(G) : r[1] \in sig.properties /\ r[2] \in sig.properties /\ P(r[1]) \subseteq P(r[2])
      BY RelationFacts
    <3> QED BY <1>2, <3>1
  <2> QED BY <1>1, <2>1, SoundPairs DEF ScmSpo, Transitive, SubProp
<1>6. OK(ScmEq1(G))
  <2> DEFINE R(p) == NodePairs(G, p) \cup Converse(NodePairs(G, p))
  <2>1. \A p : \A r \in R(p) : \E x \in Pairs(G, p) : r = <<x[1], x[2]>> \/ r = <<x[2], x[1]>>
    <3>1. \A p : \A r \in Pairs(G, p) : r = <<r[1], r[2]>>
      BY DEF Pairs
    <3> QED BY <1>3, <3>1 DEF NodePairs
  <2>2. \A r \in R("equivalentClass") : r[1] \in Cls /\ r[2] \in Cls /\ C(r[1]) \subseteq C(r[2])
    <3>1. \A r \in Pairs(G, "equivalentClass") : r[1] \in Cls /\ r[2] \in Cls /\ C(r[1]) = C(r[2])
      BY RelationFacts
    <3> HIDE DEF R
    <3> QED BY <2>1, <3>1
  <2>3. \A r \in R("equivalentProperty") :
          r[1] \in sig.properties /\ r[2] \in sig.properties /\ P(r[1]) \subseteq P(r[2])
    <3>1. \A r \in Pairs(G, "equivalentProperty") :
            r[1] \in sig.properties /\ r[2] \in sig.properties /\ P(r[1]) = P(r[2])
      BY RelationFacts
    <3> HIDE DEF R
    <3> QED BY <2>1, <3>1
  <2>4. OK(Stating(R("equivalentClass"), "subClassOf")) /\ OK(Stating(R("equivalentProperty"), "subPropertyOf"))
    <3> HIDE DEF R
    <3> QED BY <1>1, <2>2, <2>3, SoundPairs
  <2> QED BY <2>4 DEF ScmEq1, BothWays, AllSound
<1>7. OK(ScmCls(G))
  <2> SUFFICES ASSUME NEW c \in Instances(G, "Class"), NEW t \in {<<c, "subClassOf", c>>, <<c, "equivalentClass", c>>,
                       <<c, "subClassOf", "Thing">>, <<"Nothing", "subClassOf", c>>}
               PROVE  Sound(sig, I, A, t)
    BY DEF ScmCls, AllSound
  <2>1. c \in Cls
    BY AssertionFacts
  <2>2. /\ "Thing" \in Cls /\ "Nothing" \in Cls
        /\ C("Nothing") \subseteq C(c) /\ C(c) \subseteq C("Thing")
    BY <1>1, <2>1, Interpreted DEF ClassOf, ClassNames
  <2> QED BY <1>1, <2>1, <2>2, SoundRelations
<1>8. OK(ScmReflexive(G))
  <2> SUFFICES ASSUME NEW p \in Instances(G, "ObjectProperty") \cup Instances(G, "DatatypeProperty"),
                      NEW t \in {<<p, "subPropertyOf", p>>, <<p, "equivalentProperty", p>>}
               PROVE  Sound(sig, I, A, t)
    BY DEF ScmReflexive, AllSound
  <2>1. p \in sig.properties
    BY AssertionFacts DEF PropertyTypes
  <2> QED BY <1>1, <2>1, SoundRelations
<1>9. OK(ScmEq2(G))
  <2>1. \A r \in Mutual(SubClass(G)) : r[1] \in Cls /\ r[2] \in Cls /\ C(r[1]) = C(r[2])
    <3>1. \A r \in SubClass(G) : r[1] \in Cls /\ r[2] \in Cls /\ C(r[1]) \subseteq C(r[2])
      BY RelationFacts
    <3>2. \A r \in Mutual(SubClass(G)) : r \in SubClass(G) /\ <<r[2], r[1]>> \in SubClass(G)
      BY DEF Mutual
    <3>3. \A x, y : <<x, y>> \in SubClass(G) => C(x) \subseteq C(y)
      BY <3>1
    <3> HIDE DEF C
    <3> QED BY <3>1, <3>2, <3>3
  <2>2. \A r \in Mutual(SubProp(G)) : r[1] \in sig.properties /\ r[2] \in sig.properties /\ P(r[1]) = P(r[2])
    <3>1. \A r \in SubProp(G) : r[1] \in sig.properties /\ r[2] \in sig.properties /\ P(r[1]) \subseteq P(r[2])
      BY RelationFacts
    <3>2. \A r \in Mutual(SubProp(G)) : r \in SubProp(G) /\ <<r[2], r[1]>> \in SubProp(G)
      BY DEF Mutual
    <3>3. \A x, y : <<x, y>> \in SubProp(G) => P(x) \subseteq P(y)
      BY <3>1
    <3> HIDE DEF P
    <3> QED BY <3>1, <3>2, <3>3
  <2>3. OK(Stating(Mutual(SubClass(G)), "equivalentClass")) /\ OK(Stating(Mutual(SubProp(G)), "equivalentProperty"))
    BY <1>1, <2>1, <2>2, SoundPairs
  <2> QED BY <2>3 DEF ScmEq2, AllSound
<1>10. OK(ScmDom(G)) /\ OK(ScmRng(G))
  <2> DEFINE D(p) == Compose(Pairs(G, p), SubClass(G)) \cup Compose(SubProp(G), Pairs(G, p))
  <2>1. \A p : \A r \in D(p) :
          \/ \E x \in Pairs(G, p), y \in SubClass(G) : x[2] = y[1] /\ r = <<x[1], y[2]>>
          \/ \E x \in SubProp(G), y \in Pairs(G, p) : x[2] = y[1] /\ r = <<x[1], y[2]>>
    BY <1>2
  <2>2. /\ \A r \in SubClass(G) : r[1] \in Cls /\ r[2] \in Cls /\ C(r[1]) \subseteq C(r[2])
        /\ \A r \in SubProp(G) : r[1] \in sig.properties /\ r[2] \in sig.properties /\ P(r[1]) \subseteq P(r[2])
    BY RelationFacts
  <2>3. \A r \in D("domain") : /\ r[1] \in sig.properties /\ r[2] \in Cls
                               /\ \A q \in P(r[1]) : q[1] \in C(r[2])
    <3>1. \A r \in Pairs(G, "domain") : /\ r[1] \in sig.properties /\ r[2] \in Cls
                                        /\ \A q \in P(r[1]) : q[1] \in C(r[2])
      BY RelationFacts
    <3> HIDE DEF D, C, P
    <3> QED BY <2>1, <2>2, <3>1
  <2>4. \A r \in D("range") : /\ r[1] \in sig.properties /\ r[2] \in Cls
                              /\ \A q \in P(r[1]) : q[2] \in C(r[2])
    <3>1. \A r \in Pairs(G, "range") : /\ r[1] \in sig.properties /\ r[2] \in Cls
                                       /\ \A q \in P(r[1]) : q[2] \in C(r[2])
      BY RelationFacts
    <3> HIDE DEF D, C, P
    <3> QED BY <2>1, <2>2, <3>1
  <2>5. OK(Stating(D("domain"), "domain")) /\ OK(Stating(D("range"), "range"))
    <3> HIDE DEF D
    <3> QED BY <1>1, <2>3, <2>4, SoundPairs
  <2> QED BY <2>5 DEF ScmDom, ScmRng
<1>11. \A k \in {"someValuesFrom", "allValuesFrom"} : \A r \in ByFiller(G, k) :
         r[1] \in Cls /\ r[2] \in Cls /\ C(r[1]) \subseteq C(r[2])
  <2> SUFFICES ASSUME NEW k \in {"someValuesFrom", "allValuesFrom"}, NEW r \in ByFiller(G, k)
               PROVE  r[1] \in Cls /\ r[2] \in Cls /\ C(r[1]) \subseteq C(r[2])
    OBVIOUS
  <2>1. PICK x \in Restrictions(G, k), y \in Restrictions(G, k) :
          x[2] = y[2] /\ <<x[3], y[3]>> \in SubClass(G) /\ r = <<x[1], y[1]>>
    BY DEF ByFiller
  <2>2. C(x[3]) \subseteq C(y[3])
    BY <2>1, RelationFacts
  <2>3. Restricted(sig, I, k, x[2], x[3]) \subseteq Restricted(sig, I, k, y[2], y[3])
    BY <2>1, <2>2 DEF Restricted
  <2>4. /\ x[1] \in sig.classes /\ I.cls[x[1]] = Restricted(sig, I, k, x[2], x[3])
        /\ y[1] \in sig.classes /\ I.cls[y[1]] = Restricted(sig, I, k, y[2], y[3])
    BY RestrictionFacts
  <2> QED BY <1>0, <2>1, <2>3, <2>4
<1>12. \A k \in {"someValuesFrom", "hasValue"} : \A r \in BySubProperty(G, k) :
         r[1] \in Cls /\ r[2] \in Cls /\ C(r[1]) \subseteq C(r[2])
  <2> SUFFICES ASSUME NEW k \in {"someValuesFrom", "hasValue"}, NEW r \in BySubProperty(G, k)
               PROVE  r[1] \in Cls /\ r[2] \in Cls /\ C(r[1]) \subseteq C(r[2])
    OBVIOUS
  <2>1. PICK x \in Restrictions(G, k), y \in Restrictions(G, k) :
          x[3] = y[3] /\ <<x[2], y[2]>> \in IriPairs(G, "subPropertyOf") /\ r = <<x[1], y[1]>>
    BY DEF BySubProperty
  <2>2. P(x[2]) \subseteq P(y[2])
    BY <2>1, RelationFacts DEF IriPairs, SubProp
  <2>3. Restricted(sig, I, k, x[2], x[3]) \subseteq Restricted(sig, I, k, y[2], y[3])
    BY <2>1, <2>2 DEF Restricted, Values
  <2>4. /\ x[1] \in sig.classes /\ I.cls[x[1]] = Restricted(sig, I, k, x[2], x[3])
        /\ y[1] \in sig.classes /\ I.cls[y[1]] = Restricted(sig, I, k, y[2], y[3])
    BY RestrictionFacts
  <2> QED BY <1>0, <2>1, <2>3, <2>4
<1>13. \A r \in BySubProperty(G, "allValuesFrom") : r[1] \in Cls /\ r[2] \in Cls /\ C(r[2]) \subseteq C(r[1])
  <2> DEFINE k == "allValuesFrom"
  <2> SUFFICES ASSUME NEW r \in BySubProperty(G, k)
               PROVE  r[1] \in Cls /\ r[2] \in Cls /\ C(r[2]) \subseteq C(r[1])
    OBVIOUS
  <2>1. PICK x \in Restrictions(G, k), y \in Restrictions(G, k) :
          x[3] = y[3] /\ <<x[2], y[2]>> \in IriPairs(G, "subPropertyOf") /\ r = <<x[1], y[1]>>
    BY DEF BySubProperty
  <2>2. P(x[2]) \subseteq P(y[2])
    BY <2>1, RelationFacts DEF IriPairs, SubProp
  <2>3. Restricted(sig, I, k, y[2], y[3]) \subseteq Restricted(sig, I, k, x[2], x[3])
    BY <2>1, <2>2 DEF Restricted, Values
  <2>4. /\ x[1] \in sig.classes /\ I.cls[x[1]] = Restricted(sig, I, k, x[2], x[3])
        /\ y[1] \in sig.classes /\ I.cls[y[1]] = Restricted(sig, I, k, y[2], y[3])
    BY RestrictionFacts
  <2> QED BY <1>0, <2>1, <2>3, <2>4
<1>14. OK(ScmHv(G)) /\ OK(ScmSvf1(G)) /\ OK(ScmSvf2(G)) /\ OK(ScmAvf1(G)) /\ OK(ScmAvf2(G))
  <2>1. \A r \in Converse(BySubProperty(G, "allValuesFrom")) :
          r[1] \in Cls /\ r[2] \in Cls /\ C(r[1]) \subseteq C(r[2])
    BY <1>3, <1>13
  <2> HIDE DEF C, Cls
  <2> QED BY <1>1, <1>11, <1>12, <2>1, SoundPairs DEF ScmHv, ScmSvf1, ScmSvf2, ScmAvf1, ScmAvf2, C, Cls
<1>15. OK(ScmInt(G))
  <2> SUFFICES ASSUME NEW x \in ListsOf(G, "intersectionOf"), NEW m \in Members(x[2])
               PROVE  Sound(sig, I, A, <<x[1], "subClassOf", m>>)
    BY DEF ScmInt, AllSound
  <2>1. x[1] \in sig.classes /\ m \in Cls /\ I.cls[x[1]] = Listed(sig, I, "intersectionOf", x[2])
    BY ListFacts
  <2>2. C(x[1]) \subseteq C(m)
    BY <1>0, <2>1 DEF Listed, Members
  <2> QED BY <1>0, <1>1, <2>1, <2>2, SoundRelations
<1>16. OK(ScmUni(G))
  <2> SUFFICES ASSUME NEW x \in ListsOf(G, "unionOf"), NEW m \in Members(x[2])
               PROVE  Sound(sig, I, A, <<m, "subClassOf", x[1]>>)
    BY DEF ScmUni, AllSound
  <2>1. x[1] \in sig.classes /\ m \in Cls /\ I.cls[x[1]] = Listed(sig, I, "unionOf", x[2])
    BY ListFacts
  <2>2. C(m) \subseteq C(x[1])
    <3>1. C(m) \subseteq Elements(sig)
      BY <1>1, <2>1, Interpreted
    <3> QED BY <1>0, <2>1, <3>1 DEF Listed, Members
  <2> QED BY <1>0, <1>1, <2>1, <2>2, SoundRelations
<1> QED BY <1>4, <1>5, <1>6, <1>7, <1>8, <1>9, <1>10, <1>14, <1>15, <1>16 DEF SchemaRules, AllSound

-----------------------------------------------------------------------------
(* The property rules.                                                     *)

\* What the rules about individuals have to show.
LEMMA SoundIntro ==
  ASSUME NEW sig, SignatureApart(sig), NEW I, NEW A
  PROVE  /\ \A s, o \in Individuals(sig) : \A p \in sig.properties :
              <<I.ind[s], I.ind[o]>> \in I.prop[p] => Sound(sig, I, A, <<s, p, o>>)
         /\ \A s \in Individuals(sig) : \A c \in ClassNames(sig) :
              I.ind[s] \in ClassOf(sig, I, c) => Sound(sig, I, A, <<s, "type", c>>)
         /\ \A s, o \in Individuals(sig) :
              I.ind[s] = I.ind[o] => Sound(sig, I, A, <<s, "sameAs", o>>)
         /\ \A x : Sound(sig, I, A, <<x, "sameAs", x>>)
<1>1. ASSUME NEW s \in Individuals(sig), NEW o \in Individuals(sig), NEW p \in sig.properties,
             <<I.ind[s], I.ind[o]>> \in I.prop[p]
      PROVE  Sound(sig, I, A, <<s, p, o>>)
  BY <1>1, SoundAssertions
<1>2. ASSUME NEW s \in Individuals(sig), NEW c \in ClassNames(sig), I.ind[s] \in ClassOf(sig, I, c)
      PROVE  Sound(sig, I, A, <<s, "type", c>>)
  BY <1>2, SoundAssertions
<1>3. ASSUME NEW s \in Individuals(sig), NEW o \in Individuals(sig), I.ind[s] = I.ind[o]
      PROVE  Sound(sig, I, A, <<s, "sameAs", o>>)
  BY <1>3, SoundAssertions
<1>4. ASSUME NEW x PROVE Sound(sig, I, A, <<x, "sameAs", x>>)
  BY SoundAssertions
<1> QED BY <1>1, <1>2, <1>3, <1>4

\* A property holds of the elements its assertions name,
LEMMA FactsOfGraph ==
  ASSUME NEW sig, NEW I, NEW A, NEW G, Fits(sig, I, A, G), NEW t \in G, t[2] \in sig.properties
  PROVE  /\ t[1] \in Individuals(sig) /\ t[3] \in Individuals(sig)
         /\ <<I.ind[t[1]], I.ind[t[3]]>> \in I.prop[t[2]]
<1>1. SignatureApart(sig) /\ Sound(sig, I, A, t)
  BY DEF Fits, Meaningful
<1> QED BY <1>1, SoundAssertions

\* and a chain of them of the ends of the paths the rule follows: the rule
\* composes from the left, the reference speaks of whole paths.
LEMMA ChainSound ==
  ASSUME NEW sig, NEW I, NEW A, NEW G, Fits(sig, I, A, G),
         NEW l \in Seq(sig.properties), l # << >>
  PROVE  \A r \in Chain(G, l) : /\ r[1] \in Individuals(sig) /\ r[2] \in Individuals(sig)
                                /\ <<I.ind[r[1]], I.ind[r[2]]>> \in ComposedAll(sig, I, l)
<1> DEFINE n == Len(l)
           E == Elements(sig)
           Path(k, w) == w \in [1..(k + 1) -> E] /\ \A i \in 1..k : <<w[i], w[i + 1]>> \in I.prop[l[i]]
<1>1. n \in Nat /\ n # 0 /\ DOMAIN l = 1..n /\ \A i \in 1..n : l[i] \in sig.properties
  BY EmptySeq, LenProperties, ElementOfSeq
<1>2. PICK joined :
        /\ joined = [k \in 1..Len(l) |->
             IF k = 1 THEN Pairs(G, l[1]) ELSE Compose(joined[k - 1], Pairs(G, l[k]))]
        /\ Chain(G, l) = joined[Len(l)]
  BY <1>1, ChainSolved
<1>3. SignatureApart(sig) /\ I \in Interpretations(sig)
  BY DEF Fits, Meaningful
<1>4. \A x \in Individuals(sig) : I.ind[x] \in E
  BY <1>3, Interpreted
<1>5. \A k \in 1..n : \A r \in Pairs(G, l[k]) :
        /\ r[1] \in Individuals(sig) /\ r[2] \in Individuals(sig)
        /\ <<I.ind[r[1]], I.ind[r[2]]>> \in I.prop[l[k]]
  BY <1>1, AssertionFacts
<1> HIDE DEF n, E
<1> DEFINE Walked(k, r) == /\ r[1] \in Individuals(sig) /\ r[2] \in Individuals(sig)
                           /\ \E w : Path(k, w) /\ w[1] = I.ind[r[1]] /\ w[k + 1] = I.ind[r[2]]
           S == {k \in Nat : k \in 1..n => \A r \in joined[k] : Walked(k, r)}
<1>6. 0 \in S
  BY <1>1
<1>7. ASSUME NEW k \in Nat, k \in S PROVE k + 1 \in S
  <2> SUFFICES ASSUME k + 1 \in 1..n, NEW r \in joined[k + 1] PROVE Walked(k + 1, r)
    <3> HIDE DEF Walked
    <3> QED OBVIOUS
  <2>1. CASE k = 0
    <3>1. r \in Pairs(G, l[1])
      BY <1>1, <1>2, <2>1 DEF n
    <3>2. /\ r[1] \in Individuals(sig) /\ r[2] \in Individuals(sig)
          /\ <<I.ind[r[1]], I.ind[r[2]]>> \in I.prop[l[1]]
      BY <1>1, <1>5, <3>1
    <3> DEFINE w == [i \in 1..2 |-> IF i = 1 THEN I.ind[r[1]] ELSE I.ind[r[2]]]
    <3>3. w \in [1..2 -> E] /\ w[1] = I.ind[r[1]] /\ w[2] = I.ind[r[2]] /\ k + 1 = 1 /\ (k + 1) + 1 = 2
      BY <1>4, <2>1, <3>2
    <3> HIDE DEF w
    <3>4. Path(k + 1, w)
      BY <3>2, <3>3
    <3>5. w[(k + 1) + 1] = I.ind[r[2]]
      BY <3>3
    <3> HIDE DEF Path
    <3> QED BY <3>2, <3>3, <3>4, <3>5
  <2>2. CASE k # 0
    <3>1. k \in 1..n /\ (k + 1) - 1 = k /\ k + 1 # 1
      BY <1>1, <2>2
    <3>2. joined[k + 1] = Compose(joined[k], Pairs(G, l[k + 1]))
      <4>1. joined[k + 1] = IF k + 1 = 1 THEN Pairs(G, l[1])
                            ELSE Compose(joined[(k + 1) - 1], Pairs(G, l[k + 1]))
        BY <1>2 DEF n
      <4> QED BY <3>1, <4>1
    <3>3. PICK x \in joined[k], y \in Pairs(G, l[k + 1]) : x[2] = y[1] /\ r = <<x[1], y[2]>>
      BY <3>2 DEF Compose
    <3>4. PICK w : Path(k, w) /\ w[1] = I.ind[x[1]] /\ w[k + 1] = I.ind[x[2]]
      BY <1>7, <3>1, <3>3
    <3>5. x[1] \in Individuals(sig)
      BY <1>7, <3>1, <3>3
    <3>6. /\ y[1] \in Individuals(sig) /\ y[2] \in Individuals(sig)
          /\ <<I.ind[y[1]], I.ind[y[2]]>> \in I.prop[l[k + 1]]
      BY <1>5, <3>3
    <3> DEFINE v == [i \in 1..((k + 1) + 1) |-> IF i = (k + 1) + 1 THEN I.ind[y[2]] ELSE w[i]]
    <3>7. /\ v \in [1..((k + 1) + 1) -> E] /\ v[(k + 1) + 1] = I.ind[y[2]]
          /\ \A i \in 1..(k + 1) : v[i] = w[i]
      BY <1>4, <3>4, <3>6
    <3> HIDE DEF v
    <3>8. ASSUME NEW i \in 1..(k + 1) PROVE <<v[i], v[i + 1]>> \in I.prop[l[i]]
      <4>1. CASE i = k + 1
        BY <3>3, <3>4, <3>6, <3>7, <4>1
      <4>2. CASE i # k + 1
        <5>1. i \in 1..k /\ i + 1 \in 1..(k + 1)
          BY <4>2
        <5> QED BY <3>4, <3>7, <5>1
      <4> QED BY <4>1, <4>2
    <3>9. Path(k + 1, v)
      BY <3>7, <3>8
    <3>10. v[1] = I.ind[r[1]] /\ v[(k + 1) + 1] = I.ind[r[2]]
      BY <3>3, <3>4, <3>7
    <3> HIDE DEF Path
    <3> QED BY <3>3, <3>5, <3>6, <3>9, <3>10
  <2> QED BY <2>1, <2>2
<1>8. Nat \subseteq S
  <2> HIDE DEF S
  <2> QED BY <1>6, <1>7, NumberInduction
<1>9. ASSUME NEW r \in Chain(G, l) PROVE Walked(n, r)
  <2>1. n \in S /\ n \in 1..n /\ Chain(G, l) = joined[n]
    <3> HIDE DEF S
    <3> QED BY <1>1, <1>2, <1>8 DEF n
  <2> HIDE DEF Walked
  <2> QED BY <2>1
<1>10. ASSUME NEW w, Path(n, w) PROVE <<w[1], w[n + 1]>> \in ComposedAll(sig, I, l)
  BY <1>1, <1>10 DEF ComposedAll, E, n
<1> HIDE DEF Path
<1> QED BY <1>9, <1>10, Zenon

\* Two pairs that meet are composed.
LEMMA ComposedHolds ==
  ASSUME NEW R, NEW S, NEW a, NEW b, NEW c, <<a, b>> \in R, <<b, c>> \in S
  PROVE  <<a, c>> \in Composed(R, S)
<1> DEFINE y == <<<<a, b>>, <<b, c>>>>
<1>1. y \in R \X S /\ y[1][2] = y[2][1]
  OBVIOUS
<1>2. <<a, c>> = <<y[1][1], y[2][2]>>
  OBVIOUS
<1> HIDE DEF y
<1> QED BY <1>1, <1>2 DEF Composed

\* Each property rule is sound,
LEMMA PropertySound ==
  ASSUME NEW sig, NEW I, NEW A, NEW G, Fits(sig, I, A, G)
  PROVE  AllSound(sig, I, A, PropertyRules(G))
<1>1. SignatureApart(sig) /\ I \in Interpretations(sig)
  BY DEF Fits, Meaningful
<1> DEFINE Cls == ClassNames(sig)
           Inds == Individuals(sig)
           Props == sig.properties
           C(c) == ClassOf(sig, I, c)
           P(p) == I.prop[p]
           OK(S) == AllSound(sig, I, A, S)
<1>2. \A R, S : \A r \in Compose(R, S) : \E x \in R, y \in S : x[2] = y[1] /\ r = <<x[1], y[2]>>
  BY DEF Compose
<1>3. \A R : \A r \in Converse(R) : \E x \in R : r = <<x[2], x[1]>>
  BY DEF Converse
<1>4. /\ \A s, o \in Inds : \A p \in Props : <<I.ind[s], I.ind[o]>> \in P(p) => Sound(sig, I, A, <<s, p, o>>)
      /\ \A s \in Inds : \A c \in Cls : I.ind[s] \in C(c) => Sound(sig, I, A, <<s, "type", c>>)
      /\ \A s, o \in Inds : I.ind[s] = I.ind[o] => Sound(sig, I, A, <<s, "sameAs", o>>)
  BY <1>1, SoundIntro
<1>5. \A t \in G : t[2] \in Props =>
         t[1] \in Inds /\ t[3] \in Inds /\ <<I.ind[t[1]], I.ind[t[3]]>> \in P(t[2])
  BY FactsOfGraph
<1>6. \A p \in Props : \A r \in Pairs(G, p) :
         r[1] \in Inds /\ r[2] \in Inds /\ <<I.ind[r[1]], I.ind[r[2]]>> \in P(p)
  BY AssertionFacts
<1>7. \A p \in Props : \A s : \A o \in Objects(G, s, p) :
         s \in Inds /\ o \in Inds /\ <<I.ind[s], I.ind[o]>> \in P(p)
  BY AssertionFacts
<1>8. \A k \in PropertyTypes : \A p \in Properties(G, k) : p \in Props /\ TypeTrue(sig, I, p, k)
  BY AssertionFacts DEF Properties
<1>9. \A R : (\A r \in R : r[1] \in Props /\ r[2] \in Props /\ P(r[1]) \subseteq P(r[2]))
               => OK(Repredicated(G, R))
  <2> SUFFICES ASSUME NEW R, \A r \in R : r[1] \in Props /\ r[2] \in Props /\ P(r[1]) \subseteq P(r[2]),
                      NEW t \in Repredicated(G, R)
               PROVE  Sound(sig, I, A, t)
    BY DEF AllSound
  <2>1. PICK u \in G, r \in R : u[2] = r[1] /\ t = <<u[1], r[2], u[3]>>
    BY DEF Repredicated
  <2> QED BY <1>4, <1>5, <2>1
<1>10. OK(PrpSpo1(G))
  <2>1. \A r \in IriPairs(G, "subPropertyOf") : r[1] \in Props /\ r[2] \in Props /\ P(r[1]) \subseteq P(r[2])
    BY RelationFacts DEF IriPairs, SubProp
  <2> QED BY <1>9, <2>1 DEF PrpSpo1
<1>11. OK(PrpEqp(G))
  <2> DEFINE R == IriPairs(G, "equivalentProperty")
  <2>1. \A r \in R : r[1] \in Props /\ r[2] \in Props /\ P(r[1]) = P(r[2])
    BY RelationFacts DEF IriPairs
  <2>2. \A r \in R \cup Converse(R) : r[1] \in Props /\ r[2] \in Props /\ P(r[1]) \subseteq P(r[2])
    <3> HIDE DEF R
    <3> QED BY <1>3, <2>1
  <2> QED BY <1>9, <2>2 DEF PrpEqp
<1>12. OK(PrpDom(G))
  <2> SUFFICES ASSUME NEW t \in PrpDom(G) PROVE Sound(sig, I, A, t)
    BY DEF AllSound
  <2>1. PICK u \in G, r \in Pairs(G, "domain") : u[2] = r[1] /\ t = <<u[1], "type", r[2]>>
    BY DEF PrpDom, Stating, Compose
  <2>2. r[1] \in Props /\ r[2] \in Cls /\ \A q \in P(r[1]) : q[1] \in C(r[2])
    BY RelationFacts
  <2>3. u[1] \in Inds /\ I.ind[u[1]] \in C(r[2])
    <3>1. u[1] \in Inds /\ <<I.ind[u[1]], I.ind[u[3]]>> \in P(r[1])
      BY <1>5, <2>1, <2>2
    <3> QED BY <2>2, <3>1
  <2> HIDE DEF C
  <2> QED BY <1>4, <2>1, <2>2, <2>3
<1>13. OK(PrpRng(G))
  <2> SUFFICES ASSUME NEW t \in PrpRng(G) PROVE Sound(sig, I, A, t)
    BY DEF AllSound
  <2>1. PICK u \in G, r \in Pairs(G, "range") : u[2] = r[1] /\ t = <<u[3], "type", r[2]>>
    BY DEF PrpRng, Stating, Compose
  <2>2. r[1] \in Props /\ r[2] \in Cls /\ \A q \in P(r[1]) : q[2] \in C(r[2])
    BY RelationFacts
  <2>3. u[3] \in Inds /\ I.ind[u[3]] \in C(r[2])
    <3>1. u[3] \in Inds /\ <<I.ind[u[1]], I.ind[u[3]]>> \in P(r[1])
      BY <1>5, <2>1, <2>2
    <3> QED BY <2>2, <3>1
  <2> HIDE DEF C
  <2> QED BY <1>4, <2>1, <2>2, <2>3
<1>14. OK(PrpTrp(G))
  <2> SUFFICES ASSUME NEW p \in Properties(G, "TransitiveProperty"), NEW t \in Transitive(G, p)
               PROVE  Sound(sig, I, A, t)
    BY DEF AllSound, PrpTrp
  <2>1. p \in Props /\ Composed(P(p), P(p)) \subseteq P(p)
    BY <1>8 DEF PropertyTypes, TypeTrue
  <2>2. PICK x \in Pairs(G, p), y \in Pairs(G, p) : x[2] = y[1] /\ t = <<x[1], p, y[2]>>
    BY DEF Transitive, Stating, Compose
  <2>3. <<I.ind[x[1]], I.ind[x[2]]>> \in P(p) /\ <<I.ind[y[1]], I.ind[y[2]]>> \in P(p)
    BY <1>6, <2>1
  <2>4. <<I.ind[x[1]], I.ind[y[2]]>> \in Composed(P(p), P(p))
    BY <2>2, <2>3, ComposedHolds
  <2> QED BY <1>4, <1>6, <2>1, <2>2, <2>4
<1>15. OK(PrpSymp(G))
  <2> SUFFICES ASSUME NEW p \in Properties(G, "SymmetricProperty"), NEW t \in Stating(Converse(Pairs(G, p)), p)
               PROVE  Sound(sig, I, A, t)
    BY DEF AllSound, PrpSymp
  <2>1. p \in Props /\ \A r \in P(p) : <<r[2], r[1]>> \in P(p)
    BY <1>8 DEF PropertyTypes, TypeTrue
  <2>2. PICK x \in Pairs(G, p) : t = <<x[2], p, x[1]>>
    BY DEF Stating, Converse
  <2>3. <<I.ind[x[1]], I.ind[x[2]]>> \in P(p)
    BY <1>6, <2>1
  <2> QED BY <1>4, <1>6, <2>1, <2>2, <2>3
<1>16. OK(PrpInv(G))
  <2> SUFFICES ASSUME NEW r \in IriPairs(G, "inverseOf"),
                      NEW t \in Stating(Converse(Pairs(G, r[1])), r[2]) \cup Stating(Converse(Pairs(G, r[2])), r[1])
               PROVE  Sound(sig, I, A, t)
    BY DEF AllSound, PrpInv
  <2>1. r[1] \in Props /\ r[2] \in Props /\ P(r[1]) = {<<q[2], q[1]>> : q \in P(r[2])}
    BY RelationFacts DEF IriPairs
  <2>2. P(r[2]) \subseteq Elements(sig) \X Elements(sig)
    BY <1>1, <2>1, Interpreted
  <2>3. \A d, e : <<d, e>> \in P(r[1]) <=> <<e, d>> \in P(r[2])
    BY <2>1, <2>2
  <2>4. \/ \E x \in Pairs(G, r[1]) : t = <<x[2], r[2], x[1]>>
        \/ \E x \in Pairs(G, r[2]) : t = <<x[2], r[1], x[1]>>
    BY DEF Stating, Converse
  <2> HIDE DEF P
  <2>5. CASE \E x \in Pairs(G, r[1]) : t = <<x[2], r[2], x[1]>>
    <3>1. PICK x \in Pairs(G, r[1]) : t = <<x[2], r[2], x[1]>>
      BY <2>5
    <3>2. x[1] \in Inds /\ x[2] \in Inds /\ <<I.ind[x[2]], I.ind[x[1]]>> \in P(r[2])
      BY <1>6, <2>1, <2>3
    <3> QED BY <1>4, <2>1, <3>1, <3>2
  <2>6. CASE \E x \in Pairs(G, r[2]) : t = <<x[2], r[1], x[1]>>
    <3>1. PICK x \in Pairs(G, r[2]) : t = <<x[2], r[1], x[1]>>
      BY <2>6
    <3>2. x[1] \in Inds /\ x[2] \in Inds /\ <<I.ind[x[2]], I.ind[x[1]]>> \in P(r[1])
      BY <1>6, <2>1, <2>3
    <3> QED BY <1>4, <2>1, <3>1, <3>2
  <2> QED BY <2>4, <2>5, <2>6
<1>17. OK(PrpFp(G))
  <2> SUFFICES ASSUME NEW p \in Properties(G, "FunctionalProperty"), NEW r \in Pairs(G, p),
                      NEW t \in AllSame(Objects(G, r[1], p))
               PROVE  Sound(sig, I, A, t)
    BY DEF AllSound, PrpFp
  <2>1. p \in Props /\ \A q, w \in P(p) : q[1] = w[1] => q[2] = w[2]
    BY <1>8 DEF PropertyTypes, TypeTrue
  <2>2. PICK x \in Objects(G, r[1], p), y \in Objects(G, r[1], p) : t = <<x, "sameAs", y>>
    BY DEF AllSame
  <2>3. x \in Inds /\ y \in Inds /\ <<I.ind[r[1]], I.ind[x]>> \in P(p) /\ <<I.ind[r[1]], I.ind[y]>> \in P(p)
    BY <1>7, <2>1
  <2>4. I.ind[x] = I.ind[y]
    BY <2>1, <2>3
  <2> QED BY <1>4, <2>2, <2>3, <2>4
<1>18. OK(PrpIfp(G))
  <2> DEFINE Same(p, r) == AllSame({q[1] : q \in {x \in Pairs(G, p) : x[2] = r[2]}})
  <2>0. PrpIfp(G) = UNION {UNION {Same(p, r) : r \in Pairs(G, p)} :
                             p \in Properties(G, "InverseFunctionalProperty")}
    BY DEF PrpIfp
  <2> SUFFICES ASSUME NEW p \in Properties(G, "InverseFunctionalProperty"), NEW r \in Pairs(G, p),
                      NEW t \in Same(p, r)
               PROVE  Sound(sig, I, A, t)
    <3> HIDE DEF Same
    <3> QED BY <2>0 DEF AllSound
  <2>1. p \in Props /\ \A q, w \in P(p) : q[2] = w[2] => q[1] = w[1]
    BY <1>8 DEF PropertyTypes, TypeTrue
  <2>2. PICK x \in Pairs(G, p), y \in Pairs(G, p) :
          x[2] = r[2] /\ y[2] = r[2] /\ t = <<x[1], "sameAs", y[1]>>
    BY DEF AllSame
  <2>3. /\ x[1] \in Inds /\ y[1] \in Inds
        /\ <<I.ind[x[1]], I.ind[r[2]]>> \in P(p) /\ <<I.ind[y[1]], I.ind[r[2]]>> \in P(p)
    BY <1>6, <2>1, <2>2
  <2>4. I.ind[x[1]] = I.ind[y[1]]
    BY <2>1, <2>3
  <2> QED BY <1>4, <2>2, <2>3, <2>4
<1>19. OK(PrpSpo2(G))
  <2> SUFFICES ASSUME NEW x \in IriListsOf(G, "propertyChainAxiom"), NEW t \in Stating(Chain(G, x[2]), x[1])
               PROVE  Sound(sig, I, A, t)
    BY DEF AllSound, PrpSpo2
  <2>1. /\ x[1] \in Props /\ Members(x[2]) \subseteq Props /\ x[2] # << >>
        /\ ComposedAll(sig, I, x[2]) \subseteq P(x[1])
    BY ListFacts DEF IriListsOf
  <2>2. x[2] \in Seq(Props)
    <3>1. PICK r \in NodePairs(G, "propertyChainAxiom") : \E l \in Lists(G, r[2]) : x = <<r[1], l>>
      BY DEF IriListsOf, ListsOf
    <3>2. x[2] \in Seq(Ends(G, r[2]))
      BY <3>1, ListsAreSequences DEF Fits
    <3> QED BY <2>1, <3>2 DEF Members
  <2>3. PICK r \in Chain(G, x[2]) : t = <<r[1], x[1], r[2]>>
    BY DEF Stating
  <2>4. r[1] \in Inds /\ r[2] \in Inds /\ <<I.ind[r[1]], I.ind[r[2]]>> \in P(x[1])
    BY <2>1, <2>2, ChainSound
  <2> QED BY <1>4, <2>1, <2>3, <2>4
<1>20. OK(PrpKey(G))
  <2> SUFFICES ASSUME NEW k \in IriListsOf(G, "hasKey"), NEW x \in Instances(G, k[1]), NEW y \in Instances(G, k[1]),
                      ShareKey(G, x, y, k[2])
               PROVE  Sound(sig, I, A, <<x, "sameAs", y>>)
    BY DEF AllSound, PrpKey
  <2>1. k[1] \in Cls /\ Members(k[2]) \subseteq Props /\ KeyTrue(sig, I, k[1], k[2])
    BY ListFacts DEF IriListsOf
  <2>2. x \in Inds /\ y \in Inds /\ I.ind[x] \in C(k[1]) /\ I.ind[y] \in C(k[1])
    BY <2>1, AssertionFacts
  <2> DEFINE Named == {I.ind[z] : z \in Individuals(sig)}
  <2>3. ASSUME NEW i \in DOMAIN k[2]
        PROVE  Values(P(k[2][i]), I.ind[x]) \cap Values(P(k[2][i]), I.ind[y]) \cap Named # {}
    <3>1. k[2][i] \in Members(k[2])
      BY DEF Members
    <3>2. PICK z : z \in Objects(G, x, k[2][i]) /\ z \in Objects(G, y, k[2][i])
      BY <3>1 DEF ShareKey
    <3>3. z \in Inds /\ <<I.ind[x], I.ind[z]>> \in P(k[2][i]) /\ <<I.ind[y], I.ind[z]>> \in P(k[2][i])
      BY <1>7, <2>1, <3>1, <3>2
    <3>4. I.ind[z] \in Values(P(k[2][i]), I.ind[x]) /\ I.ind[z] \in Values(P(k[2][i]), I.ind[y])
      BY <3>3 DEF Values
    <3> QED BY <3>3, <3>4
  <2>4. I.ind[x] = I.ind[y]
    BY <2>1, <2>2, <2>3 DEF KeyTrue
  <2> QED BY <1>4, <2>2, <2>4
<1> QED BY <1>10, <1>11, <1>12, <1>13, <1>14, <1>15, <1>16, <1>17, <1>18, <1>19, <1>20 DEF PropertyRules, AllSound

-----------------------------------------------------------------------------
(* The class expression rules.                                             *)

\* and each rule of the class expressions,
LEMMA ClassSound ==
  ASSUME NEW sig, NEW I, NEW A, NEW G, Fits(sig, I, A, G)
  PROVE  AllSound(sig, I, A, ClassRules(G))
<1>1. SignatureApart(sig) /\ I \in Interpretations(sig)
  BY DEF Fits, Meaningful
<1> DEFINE Cls == ClassNames(sig)
           Inds == Individuals(sig)
           Props == sig.properties
           C(c) == ClassOf(sig, I, c)
           P(p) == I.prop[p]
           OK(S) == AllSound(sig, I, A, S)
<1>2. \A c \in sig.classes : c \in Cls /\ C(c) = I.cls[c]
  BY <1>1, Interpreted DEF ClassNames
<1>3. \A c \in Cls : C(c) \subseteq Elements(sig)
  BY <1>1, Interpreted
<1>4. \A x \in Inds : I.ind[x] \in Elements(sig)
  BY <1>1, Interpreted
<1>5. /\ \A s, o \in Inds : \A p \in Props : <<I.ind[s], I.ind[o]>> \in P(p) => Sound(sig, I, A, <<s, p, o>>)
      /\ \A s \in Inds : \A c \in Cls : I.ind[s] \in C(c) => Sound(sig, I, A, <<s, "type", c>>)
  BY <1>1, SoundIntro
<1>6. \A p \in Props : \A r \in Pairs(G, p) :
         r[1] \in Inds /\ r[2] \in Inds /\ <<I.ind[r[1]], I.ind[r[2]]>> \in P(p)
  BY AssertionFacts
<1>7. \A c \in Cls : \A x \in Instances(G, c) : x \in Inds /\ I.ind[x] \in C(c)
  BY AssertionFacts
<1>8. \A R, c : (c \in Cls /\ \A x \in R : x \in Inds /\ I.ind[x] \in C(c)) => OK(Typed(R, c))
  BY <1>5 DEF Typed, AllSound
<1>9. OK(CaxSco(G))
  <2> SUFFICES ASSUME NEW t \in CaxSco(G) PROVE Sound(sig, I, A, t)
    BY DEF AllSound
  <2>1. PICK x \in Pairs(G, "type"), r \in SubClass(G) : x[2] = r[1] /\ t = <<x[1], "type", r[2]>>
    BY DEF CaxSco, Stating, Compose
  <2>2. r[1] \in Cls /\ r[2] \in Cls /\ C(r[1]) \subseteq C(r[2])
    BY RelationFacts
  <2>3. x[1] \in Instances(G, r[1])
    BY <2>1 DEF Pairs, Instances
  <2>4. x[1] \in Inds /\ I.ind[x[1]] \in C(r[2])
    BY <1>7, <2>2, <2>3
  <2> HIDE DEF C
  <2> QED BY <1>5, <2>1, <2>2, <2>4
<1>10. OK(CaxEqc(G))
  <2> SUFFICES ASSUME NEW r \in Pairs(G, "equivalentClass")
               PROVE  OK(Typed(Instances(G, r[1]), r[2])) /\ OK(Typed(Instances(G, r[2]), r[1]))
    BY DEF CaxEqc, AllSound
  <2>1. r[1] \in Cls /\ r[2] \in Cls /\ C(r[1]) = C(r[2])
    BY RelationFacts
  <2> HIDE DEF C
  <2> QED BY <1>7, <1>8, <2>1
<1>11. OK(ClsInt1(G))
  <2> SUFFICES ASSUME NEW x \in ListsOf(G, "intersectionOf"), x[2] # << >>,
                      NEW i \in Instances(G, x[2][1]), \A m \in Members(x[2]) : i \in Instances(G, m)
               PROVE  Sound(sig, I, A, <<i, "type", x[1]>>)
    BY DEF ClsInt1, AllSound, Typed
  <2>1. /\ x[1] \in sig.classes /\ Members(x[2]) \subseteq Cls
        /\ I.cls[x[1]] = Listed(sig, I, "intersectionOf", x[2])
    BY ListFacts
  <2>2. x[2][1] \in Members(x[2])
    <3>1. PICK r \in NodePairs(G, "intersectionOf") : \E l \in Lists(G, r[2]) : x = <<r[1], l>>
      BY DEF ListsOf
    <3>2. x[2] \in Seq(Ends(G, r[2]))
      BY <3>1, ListsAreSequences DEF Fits
    <3>3. Len(x[2]) \in Nat /\ Len(x[2]) # 0 /\ DOMAIN x[2] = 1..Len(x[2])
      BY <3>2, EmptySeq, LenProperties
    <3> QED BY <3>3 DEF Members
  <2>3. \A k \in DOMAIN x[2] : i \in Inds /\ I.ind[i] \in C(x[2][k])
    BY <1>7, <2>1 DEF Members
  <2>4. i \in Inds
    BY <1>7, <2>1, <2>2
  <2>5. I.ind[i] \in I.cls[x[1]]
    BY <1>4, <2>1, <2>3, <2>4 DEF Listed
  <2> HIDE DEF C, Cls
  <2> QED BY <1>2, <1>5, <2>1, <2>4, <2>5
<1>12. OK(ClsInt2(G))
  <2> SUFFICES ASSUME NEW x \in ListsOf(G, "intersectionOf"), NEW m \in Members(x[2])
               PROVE  OK(Typed(Instances(G, x[1]), m))
    BY DEF ClsInt2, AllSound
  <2>1. /\ x[1] \in sig.classes /\ m \in Cls /\ I.cls[x[1]] = Listed(sig, I, "intersectionOf", x[2])
    BY ListFacts
  <2>2. C(x[1]) \subseteq C(m)
    BY <1>2, <2>1 DEF Listed, Members
  <2> HIDE DEF C, Cls
  <2> QED BY <1>2, <1>7, <1>8, <2>1, <2>2
<1>13. OK(ClsUni(G))
  <2> SUFFICES ASSUME NEW x \in ListsOf(G, "unionOf"), NEW m \in Members(x[2])
               PROVE  OK(Typed(Instances(G, m), x[1]))
    BY DEF ClsUni, AllSound
  <2>1. /\ x[1] \in sig.classes /\ m \in Cls /\ I.cls[x[1]] = Listed(sig, I, "unionOf", x[2])
    BY ListFacts
  <2>2. C(m) \subseteq C(x[1])
    BY <1>2, <1>3, <2>1 DEF Listed, Members
  <2> HIDE DEF C, Cls
  <2> QED BY <1>2, <1>7, <1>8, <2>1, <2>2
<1>14. OK(ClsOo(G))
  <2> SUFFICES ASSUME NEW x \in ListsOf(G, "oneOf")
               PROVE  OK(Typed({m \in Members(x[2]) : Node(m)}, x[1]))
    BY DEF ClsOo, AllSound
  <2>1. /\ x[1] \in sig.classes /\ Members(x[2]) \subseteq Inds
        /\ I.cls[x[1]] = Listed(sig, I, "oneOf", x[2])
    BY ListFacts
  <2>2. \A m \in Members(x[2]) : I.ind[m] \in I.cls[x[1]]
    BY <2>1 DEF Listed, Members
  <2> HIDE DEF C, Cls
  <2> QED BY <1>2, <1>8, <2>1, <2>2
<1>15. OK(ClsSvf1(G))
  <2> SUFFICES ASSUME NEW x \in Restrictions(G, "someValuesFrom"), NEW r \in Pairs(G, x[2]),
                      r[2] \in Instances(G, x[3])
               PROVE  Sound(sig, I, A, <<r[1], "type", x[1]>>)
    BY DEF ClsSvf1, AllSound, Typed
  <2>1. /\ x[1] \in sig.classes /\ x[2] \in Props /\ x[3] \in Cls
        /\ I.cls[x[1]] = Restricted(sig, I, "someValuesFrom", x[2], x[3])
    BY RestrictionFacts
  <2>2. r[1] \in Inds /\ r[2] \in Inds /\ <<I.ind[r[1]], I.ind[r[2]]>> \in P(x[2])
    BY <1>6, <2>1
  <2>3. I.ind[r[2]] \in Values(P(x[2]), I.ind[r[1]]) /\ I.ind[r[2]] \in C(x[3])
    BY <1>7, <2>1, <2>2 DEF Values
  <2>4. I.ind[r[1]] \in I.cls[x[1]]
    BY <1>4, <2>1, <2>2, <2>3 DEF Restricted
  <2> HIDE DEF C, Cls
  <2> QED BY <1>2, <1>5, <2>1, <2>2, <2>4
<1>16. OK(ClsSvf2(G))
  <2> SUFFICES ASSUME NEW x \in Restrictions(G, "someValuesFrom"), x[3] = "Thing", NEW r \in Pairs(G, x[2])
               PROVE  Sound(sig, I, A, <<r[1], "type", x[1]>>)
    BY DEF ClsSvf2, AllSound, Typed
  <2>1. /\ x[1] \in sig.classes /\ x[2] \in Props
        /\ I.cls[x[1]] = Restricted(sig, I, "someValuesFrom", x[2], x[3])
    BY RestrictionFacts
  <2>2. r[1] \in Inds /\ r[2] \in Inds /\ <<I.ind[r[1]], I.ind[r[2]]>> \in P(x[2])
    BY <1>6, <2>1
  <2>3. I.ind[r[2]] \in Values(P(x[2]), I.ind[r[1]]) /\ I.ind[r[2]] \in C(x[3])
    BY <1>4, <2>2 DEF Values, ClassOf
  <2>4. I.ind[r[1]] \in I.cls[x[1]]
    BY <1>4, <2>1, <2>2, <2>3 DEF Restricted
  <2> HIDE DEF C, Cls
  <2> QED BY <1>2, <1>5, <2>1, <2>2, <2>4
<1>17. OK(ClsAvf(G))
  <2> SUFFICES ASSUME NEW x \in Restrictions(G, "allValuesFrom"), NEW r \in NodePairs(G, x[2]),
                      r[1] \in Instances(G, x[1])
               PROVE  Sound(sig, I, A, <<r[2], "type", x[3]>>)
    BY DEF ClsAvf, AllSound, Typed
  <2>1. /\ x[1] \in sig.classes /\ x[2] \in Props /\ x[3] \in Cls
        /\ I.cls[x[1]] = Restricted(sig, I, "allValuesFrom", x[2], x[3])
    BY RestrictionFacts
  <2>2. r[1] \in Inds /\ r[2] \in Inds /\ <<I.ind[r[1]], I.ind[r[2]]>> \in P(x[2])
    BY <1>6, <2>1 DEF NodePairs
  <2>3. I.ind[r[2]] \in Values(P(x[2]), I.ind[r[1]]) /\ I.ind[r[1]] \in I.cls[x[1]]
    BY <1>2, <1>7, <2>1, <2>2 DEF Values
  <2>4. I.ind[r[2]] \in C(x[3])
    BY <2>1, <2>3 DEF Restricted
  <2> HIDE DEF C, Cls
  <2> QED BY <1>5, <2>1, <2>2, <2>4
<1>18. OK(ClsHv1(G))
  <2> SUFFICES ASSUME NEW x \in Restrictions(G, "hasValue"), NEW i \in Instances(G, x[1])
               PROVE  Sound(sig, I, A, <<i, x[2], x[3]>>)
    BY DEF ClsHv1, AllSound
  <2>1. /\ x[1] \in sig.classes /\ x[2] \in Props /\ x[3] \in Inds
        /\ I.cls[x[1]] = Restricted(sig, I, "hasValue", x[2], x[3])
    BY RestrictionFacts
  <2>2. i \in Inds /\ I.ind[i] \in I.cls[x[1]]
    BY <1>2, <1>7, <2>1
  <2>3. <<I.ind[i], I.ind[x[3]]>> \in P(x[2])
    <3>1. I.ind[x[3]] \in Values(P(x[2]), I.ind[i])
      BY <2>1, <2>2 DEF Restricted
    <3>2. P(x[2]) \subseteq Elements(sig) \X Elements(sig)
      BY <1>1, <2>1, Interpreted
    <3> QED BY <3>1, <3>2 DEF Values
  <2> QED BY <1>5, <2>1, <2>2, <2>3
<1>19. OK(ClsHv2(G))
  <2> SUFFICES ASSUME NEW x \in Restrictions(G, "hasValue"), NEW r \in Pairs(G, x[2]), r[2] = x[3]
               PROVE  Sound(sig, I, A, <<r[1], "type", x[1]>>)
    BY DEF ClsHv2, AllSound, Typed
  <2>1. /\ x[1] \in sig.classes /\ x[2] \in Props
        /\ I.cls[x[1]] = Restricted(sig, I, "hasValue", x[2], x[3])
    BY RestrictionFacts
  <2>2. r[1] \in Inds /\ r[2] \in Inds /\ <<I.ind[r[1]], I.ind[r[2]]>> \in P(x[2])
    BY <1>6, <2>1
  <2>3. I.ind[r[1]] \in I.cls[x[1]]
    BY <1>4, <2>1, <2>2 DEF Restricted, Values
  <2> HIDE DEF C, Cls
  <2> QED BY <1>2, <1>5, <2>1, <2>2, <2>3
<1> QED BY <1>9, <1>10, <1>11, <1>12, <1>13, <1>14, <1>15, <1>16, <1>17, <1>18, <1>19 DEF ClassRules, AllSound

\* At most one value: two values of an individual are the same.
LEMMA AtMostOneSame ==
  ASSUME NEW S, NEW n \in Nat, S \subseteq 1..n, NEW k \in {0, 1}, Cardinality(S) <= k,
         NEW x \in S, NEW y \in S
  PROVE  x = y
<1>1. IsFiniteSet(S)
  <2>1. IsFiniteSet(1..n)
    BY FS_Interval
  <2> QED BY <2>1, FS_Subset
<1>2. SUFFICES ASSUME x # y PROVE FALSE
  OBVIOUS
<1>3. Cardinality({x, y}) = 2
  <2>1. Cardinality({x}) = 1 /\ IsFiniteSet({x})
    BY FS_Singleton
  <2>2. {x, y} = {x} \cup {y} /\ y \notin {x}
    BY <1>2
  <2> QED BY <2>1, <2>2, FS_AddElement
<1>4. Cardinality({x, y}) <= Cardinality(S)
  BY <1>1, FS_Subset
<1> QED BY <1>1, <1>3, <1>4, FS_CardinalityType

\* and the cardinality rules are, whatever their hash maps kept:
\* of a class restricted on two properties, both restrictions are true.
LEMMA CardinalitySound ==
  ASSUME NEW sig, NEW I, NEW A, NEW G, Fits(sig, I, A, G), NEW c \in CardinalityOutcomes(G)
  PROVE  AllSound(sig, I, A, c)
<1>1. SignatureApart(sig) /\ I \in Interpretations(sig) /\ sig.size \in Nat
  BY DEF Fits, Meaningful, SignatureApart
<1> DEFINE Inds == Individuals(sig)
           P(p) == I.prop[p]
           OK(S) == AllSound(sig, I, A, S)
<1>2. \A p \in sig.properties : \A d : Values(P(p), d) \subseteq 1..sig.size
  BY <1>1, Interpreted DEF Values, Elements
<1>3. \A v : Limit(v) \in {0, 1}
  BY DEF Limit
<1>4. ASSUME NEW p \in sig.properties, NEW s, NEW o \in Objects(G, s, p)
      PROVE  s \in Inds /\ o \in Inds /\ I.ind[o] \in Values(P(p), I.ind[s])
  <2>1. s \in Inds /\ o \in Inds /\ <<I.ind[s], I.ind[o]>> \in P(p)
    BY AssertionFacts
  <2> HIDE DEF P
  <2> QED BY <2>1 DEF Values
<1>5. \A k \in sig.classes : \A x \in Instances(G, k) : x \in Inds /\ I.ind[x] \in I.cls[k]
  BY <1>1, AssertionFacts, Interpreted DEF ClassNames
<1>6. \A S : \A t \in AllSame(S) : \E x, y \in S : t = <<x, "sameAs", y>>
  BY DEF AllSame
<1>7. \A s, o \in Inds : I.ind[s] = I.ind[o] => Sound(sig, I, A, <<s, "sameAs", o>>)
  BY <1>1, SoundIntro
<1>8. ASSUME NEW on \in LastInserted(OnProperties(G)) PROVE OK(ClsMaxC2(G, on))
  <2> SUFFICES ASSUME NEW k \in AtMostOne(G, "maxCardinality") \cap DOMAIN on, NEW x \in Instances(G, k),
                      NEW t \in AllSame(Objects(G, x, on[k]))
               PROVE  Sound(sig, I, A, t)
    BY DEF ClsMaxC2, AllSound
  <2>1. <<k, on[k]>> \in OnProperties(G)
    BY DEF LastInserted
  <2>2. PICK v : k \in sig.classes /\ on[k] \in sig.properties
                 /\ I.cls[k] = Restricted(sig, I, "maxCardinality", on[k], v)
    BY <2>1, CardinalityFacts
  <2>3. Cardinality(Values(P(on[k]), I.ind[x])) <= Limit(v)
    BY <1>5, <2>2 DEF Restricted
  <2>4. PICK y \in Objects(G, x, on[k]), z \in Objects(G, x, on[k]) : t = <<y, "sameAs", z>>
    BY <1>6
  <2>5. I.ind[y] = I.ind[z]
    <3>1. I.ind[y] \in Values(P(on[k]), I.ind[x]) /\ I.ind[z] \in Values(P(on[k]), I.ind[x])
      BY <1>4, <2>2
    <3> HIDE DEF P
    <3> QED BY <1>1, <1>2, <1>3, <2>2, <2>3, <3>1, AtMostOneSame
  <2> QED BY <1>4, <1>7, <2>2, <2>4, <2>5
<1>9. ASSUME NEW on \in LastInserted(OnProperties(G)), NEW cls \in LastInserted(OnClasses(G))
      PROVE  OK(ClsMaxQc3(G, on, cls)) /\ OK(ClsMaxQc4(G, on, cls))
  <2>1. ASSUME NEW k \in Qualified(G, on, cls)
        PROVE  /\ k \in sig.classes /\ on[k] \in sig.properties /\ cls[k] \in ClassNames(sig)
               /\ \E v : I.cls[k] = AtMostOf(sig, I, on[k], cls[k], v)
    <3>1. <<k, on[k]>> \in OnProperties(G) /\ <<k, cls[k]>> \in OnClasses(G)
      BY DEF LastInserted, Qualified
    <3>2. k \in AtMostOne(G, "maxQualifiedCardinality")
      BY DEF Qualified
    <3> QED BY <3>1, <3>2, CardinalityFacts
  <2>2. ASSUME NEW k \in Qualified(G, on, cls), NEW x \in Instances(G, k),
               NEW y \in Objects(G, x, on[k]), NEW z \in Objects(G, x, on[k]),
               I.ind[y] \in ClassOf(sig, I, cls[k]), I.ind[z] \in ClassOf(sig, I, cls[k])
        PROVE  Sound(sig, I, A, <<y, "sameAs", z>>)
    <3>1. PICK v : I.cls[k] = AtMostOf(sig, I, on[k], cls[k], v)
      BY <2>1
    <3> DEFINE S == Values(P(on[k]), I.ind[x]) \cap ClassOf(sig, I, cls[k])
    <3>2. Cardinality(S) <= Limit(v)
      BY <1>5, <2>1, <3>1 DEF AtMostOf
    <3>3. I.ind[y] \in S /\ I.ind[z] \in S /\ S \subseteq 1..sig.size
      BY <1>2, <1>4, <2>1, <2>2
    <3> HIDE DEF S
    <3>4. I.ind[y] = I.ind[z]
      <4>1. Limit(v) \in {0, 1} /\ sig.size \in Nat
        BY <1>1, <1>3
      <4> QED BY <3>2, <3>3, <4>1, AtMostOneSame
    <3> QED BY <1>4, <1>7, <2>1, <3>4
  <2>3. OK(ClsMaxQc3(G, on, cls))
    <3> DEFINE T(k, x) == AllSame(Objects(G, x, on[k]) \cap Instances(G, cls[k]))
               K == {k \in Qualified(G, on, cls) : cls[k] # "Thing"}
    <3>0. ClsMaxQc3(G, on, cls) = UNION {UNION {T(k, x) : x \in Instances(G, k)} : k \in K}
      BY DEF ClsMaxQc3
    <3> SUFFICES ASSUME NEW k \in K, NEW x \in Instances(G, k), NEW t \in T(k, x)
                 PROVE  Sound(sig, I, A, t)
      <4> HIDE DEF T, K
      <4> QED BY <3>0 DEF AllSound
    <3>1. PICK y \in Objects(G, x, on[k]) \cap Instances(G, cls[k]),
               z \in Objects(G, x, on[k]) \cap Instances(G, cls[k]) : t = <<y, "sameAs", z>>
      BY <1>6
    <3>2. I.ind[y] \in ClassOf(sig, I, cls[k]) /\ I.ind[z] \in ClassOf(sig, I, cls[k])
      BY <2>1, AssertionFacts
    <3> QED BY <2>2, <3>1, <3>2
  <2>4. OK(ClsMaxQc4(G, on, cls))
    <3> SUFFICES ASSUME NEW k \in Qualified(G, on, cls), cls[k] = "Thing", NEW x \in Instances(G, k),
                        NEW t \in AllSame(Objects(G, x, on[k]))
                 PROVE  Sound(sig, I, A, t)
      BY DEF ClsMaxQc4, AllSound
    <3>1. PICK y \in Objects(G, x, on[k]), z \in Objects(G, x, on[k]) : t = <<y, "sameAs", z>>
      BY <1>6
    <3>2. ClassOf(sig, I, cls[k]) = 1..sig.size
      BY DEF ClassOf, Elements
    <3>3. I.ind[y] \in ClassOf(sig, I, cls[k]) /\ I.ind[z] \in ClassOf(sig, I, cls[k])
      BY <1>2, <1>4, <2>1, <3>2
    <3> QED BY <2>2, <3>1, <3>3
  <2> QED BY <2>3, <2>4
<1>10. PICK m \in LastInserted(OnProperties(G)) \X LastInserted(OnProperties(G)) \X LastInserted(OnProperties(G))
                    \X LastInserted(OnClasses(G)) \X LastInserted(OnClasses(G)) :
         c = ClsMaxC2(G, m[1]) \cup ClsMaxQc3(G, m[2], m[4]) \cup ClsMaxQc4(G, m[3], m[5])
  BY DEF CardinalityOutcomes
<1>11. OK(ClsMaxC2(G, m[1])) /\ OK(ClsMaxQc3(G, m[2], m[4])) /\ OK(ClsMaxQc4(G, m[3], m[5]))
  BY <1>8, <1>9
<1> QED BY <1>10, <1>11 DEF AllSound

-----------------------------------------------------------------------------
(* The equality and datatype rules.                                        *)

\* What can be said of an individual, and what an individual can be a value of.
LEMMA UsedIndividuals ==
  ASSUME NEW sig, SignatureApart(sig), NEW t, Used(sig, t)
  PROVE  /\ t[1] \in Individuals(sig) =>
              \/ t[2] = "type" /\ t[3] \in ClassNames(sig) \cup {"Datatype"}
              \/ t[2] = "sameAs"
              \/ t[2] = "differentFrom" /\ t[3] \in Individuals(sig)
              \/ t[2] \in sig.properties
         /\ t[3] \in Individuals(sig) =>
              \/ t[2] = "sameAs"
              \/ t[2] = "differentFrom" /\ t[1] \in Individuals(sig)
              \/ t[2] \in sig.properties
              \/ t[2] = "hasValue" /\ t[1] \in sig.classes
              \/ t[2] \in Soft \ {"hasValue"} /\ t[1] \notin Names(sig)
<1> DEFINE Inds == Individuals(sig)
           Cls == ClassNames(sig)
           Props == sig.properties
<1>1. /\ Inds \cap Cls = {} /\ Inds \cap Props = {} /\ Inds \cap Reserved = {}
      /\ Inds \subseteq Names(sig) /\ Cls \subseteq Names(sig) /\ Props \subseteq Names(sig)
      /\ sig.classes \subseteq Cls
  BY DEF SignatureApart, Names, ClassNames
<1>2. ASSUME t[1] \in Inds
      PROVE  \/ t[2] = "type" /\ t[3] \in Cls \cup {"Datatype"}
             \/ t[2] = "sameAs"
             \/ t[2] = "differentFrom" /\ t[3] \in Inds
             \/ t[2] \in Props
  BY <1>1, <1>2 DEF Used
<1>3. ASSUME t[3] \in Inds
      PROVE  \/ t[2] = "sameAs"
             \/ t[2] = "differentFrom" /\ t[1] \in Inds
             \/ t[2] \in Props
             \/ t[2] = "hasValue" /\ t[1] \in sig.classes
             \/ t[2] \in Soft \ {"hasValue"} /\ t[1] \notin Names(sig)
  <2>1. /\ t[3] \notin Cls /\ t[3] \notin Props /\ t[3] \in Names(sig)
        /\ t[3] \notin PropertyTypes /\ t[3] \notin Containers
        /\ t[3] \notin {"Class", "Datatype", "0", "1"}
    BY <1>1, <1>3 DEF Reserved
  <2>2. ClassRelations \subseteq Reserved /\ PropertyRelations \subseteq Reserved
    BY DEF Reserved
  <2> QED BY <1>1, <1>3, <2>1 DEF Used, Soft
<1> QED BY <1>2, <1>3

\* What it takes for differentFrom to be sound; no rule derives it, but
\* individuals are replaced in it.
LEMMA SoundDifferent ==
  ASSUME NEW sig, SignatureApart(sig), NEW I, NEW A, NEW t, t[2] = "differentFrom"
  PROVE  Sound(sig, I, A, t) <=>
           /\ t[1] \in Individuals(sig) /\ t[3] \in Individuals(sig)
           /\ I.ind[t[1]] # I.ind[t[3]]
<1>1. Framed(I, A, t) /\ Free(t[2])
  BY DEF Framed, Free, Rigid, Soft, ListPredicates
<1>2. \A H : True(sig, I, H, t) <=> I.ind[t[1]] # I.ind[t[3]]
  BY DEF True
<1>3. t[2] \notin sig.properties
  BY DEF SignatureApart, Reserved
<1>4. Used(sig, t) <=> t[1] \in Individuals(sig) /\ t[3] \in Individuals(sig)
  BY <1>3 DEF Used, ClassRelations, PropertyRelations
<1> QED BY <1>1, <1>2, <1>4 DEF Sound

\* Replacing an individual by one that is equal to it.
LEMMA SubjectReplaced ==
  ASSUME NEW sig, SignatureApart(sig), NEW I, NEW A, NEW t, Sound(sig, I, A, t),
         NEW x \in Individuals(sig), t[1] \in Individuals(sig), I.ind[t[1]] = I.ind[x]
  PROVE  Sound(sig, I, A, <<x, t[2], t[3]>>)
<1> DEFINE u == <<x, t[2], t[3]>>
<1>1. u[1] = x /\ u[2] = t[2] /\ u[3] = t[3]
  OBVIOUS
<1>2. \/ t[2] = "type" /\ t[3] \in ClassNames(sig) \cup {"Datatype"}
      \/ t[2] = "sameAs"
      \/ t[2] = "differentFrom" /\ t[3] \in Individuals(sig)
      \/ t[2] \in sig.properties
  BY UsedIndividuals DEF Sound
<1> HIDE DEF u
<1>3. CASE t[2] = "type" /\ t[3] \in ClassNames(sig)
  BY <1>1, <1>3, SoundAssertions DEF u
<1>4. CASE t[2] = "type" /\ t[3] = "Datatype"
  BY <1>1, <1>4, SoundAssertions DEF u
<1>5. CASE t[2] = "sameAs"
  <2>1. Sound(sig, I, A, u)
    BY <1>1, <1>5, SoundAssertions
  <2> QED BY <2>1 DEF u
<1>6. CASE t[2] = "differentFrom"
  <2>1. Sound(sig, I, A, u)
    BY <1>1, <1>6, SoundDifferent
  <2> QED BY <2>1 DEF u
<1>7. CASE t[2] \in sig.properties
  <2>1. Sound(sig, I, A, u)
    BY <1>1, <1>7, SoundAssertions
  <2> QED BY <2>1 DEF u
<1> QED BY <1>2, <1>3, <1>4, <1>5, <1>6, <1>7

\* The same for the object, where the axioms with a value are frames too.
LEMMA ObjectReplaced ==
  ASSUME NEW sig, SignatureApart(sig), NEW I, NEW A, NEW t, Sound(sig, I, A, t),
         NEW x \in Individuals(sig), t[3] \in Individuals(sig), I.ind[t[3]] = I.ind[x]
  PROVE  Sound(sig, I, A, <<t[1], t[2], x>>)
<1> DEFINE u == <<t[1], t[2], x>>
<1>1. u[1] = t[1] /\ u[2] = t[2] /\ u[3] = x
  OBVIOUS
<1>2. \/ t[2] = "sameAs"
      \/ t[2] = "differentFrom"
      \/ t[2] \in sig.properties
      \/ t[2] = "hasValue" /\ t[1] \in sig.classes
      \/ t[2] \in Soft \ {"hasValue"} /\ t[1] \notin Names(sig)
  BY UsedIndividuals DEF Sound
<1> HIDE DEF u
<1>3. CASE t[2] = "sameAs"
  <2>1. Sound(sig, I, A, u)
    BY <1>1, <1>3, SoundAssertions
  <2> QED BY <2>1 DEF u
<1>4. CASE t[2] = "differentFrom"
  <2>1. Sound(sig, I, A, u)
    BY <1>1, <1>4, SoundDifferent
  <2> QED BY <2>1 DEF u
<1>5. CASE t[2] \in sig.properties
  <2>1. Sound(sig, I, A, u)
    BY <1>1, <1>5, SoundAssertions
  <2> QED BY <2>1 DEF u
<1>6. CASE \/ t[2] = "hasValue" /\ t[1] \in sig.classes
           \/ t[2] \in Soft \ {"hasValue"} /\ t[1] \notin Names(sig)
  <2>1. t[2] \in Soft /\ t[2] \notin Rigid /\ t[2] # "type"
    BY <1>6 DEF Soft, Rigid, ListPredicates
  <2>2. Used(sig, u)
    BY <1>1, <1>6 DEF Used, Soft
  <2>3. Framed(I, A, u)
    BY <1>1, <2>1 DEF Sound, Framed
  <2>4. ~Free(u[2])
    BY <1>1, <2>1 DEF Free
  <2>5. Sound(sig, I, A, u)
    BY <2>2, <2>3, <2>4 DEF Sound
  <2> QED BY <2>5 DEF u
<1> QED BY <1>2, <1>3, <1>4, <1>5, <1>6

\* The equality and datatype rules are sound: sameAs is only ever stated of
\* equal individuals, or of a term and itself.
LEMMA EqualitySound ==
  ASSUME NEW sig, NEW I, NEW A, NEW G, Fits(sig, I, A, G)
  PROVE  /\ AllSound(sig, I, A, EqSym(G) \cup EqTrans(G) \cup EqRef(G) \cup EqRep(G))
         /\ AllSound(sig, I, A, Axioms \cup DtType(G))
<1>1. SignatureApart(sig) /\ I \in Interpretations(sig)
  BY DEF Fits, Meaningful
<1> DEFINE Inds == Individuals(sig)
           OK(S) == AllSound(sig, I, A, S)
           Same(x, y) == x = y \/ (x \in Inds /\ y \in Inds /\ I.ind[x] = I.ind[y])
<1>2. \A x, y : Same(x, y) => Sound(sig, I, A, <<x, "sameAs", y>>)
  BY <1>1, SoundIntro
<1>3. \A r \in Pairs(G, "sameAs") : Same(r[1], r[2])
  BY AssertionFacts
<1>4. OK(EqSym(G))
  <2> SUFFICES ASSUME NEW t \in EqSym(G) PROVE Sound(sig, I, A, t)
    BY DEF AllSound
  <2>1. PICK x \in Pairs(G, "sameAs") : t = <<x[2], "sameAs", x[1]>>
    BY DEF EqSym, Stating, Converse
  <2> QED BY <1>2, <1>3, <2>1
<1>5. OK(EqTrans(G))
  <2> SUFFICES ASSUME NEW t \in EqTrans(G) PROVE Sound(sig, I, A, t)
    BY DEF AllSound
  <2>1. PICK x \in Pairs(G, "sameAs"), y \in Pairs(G, "sameAs") : x[2] = y[1] /\ t = <<x[1], "sameAs", y[2]>>
    BY DEF EqTrans, Transitive, Stating, Compose
  <2> QED BY <1>2, <1>3, <2>1
<1>6. OK(EqRef(G))
  BY <1>2 DEF EqRef, AllSound
<1>7. \A r \in Substitutes(G) : r[1] \in Inds /\ r[2] \in Inds /\ I.ind[r[1]] = I.ind[r[2]]
  BY <1>3 DEF Substitutes
<1>8. ASSUME NEW t \in G, NEW x \in Inds, t[1] \in Inds, I.ind[t[1]] = I.ind[x]
      PROVE  Sound(sig, I, A, <<x, t[2], t[3]>>)
  BY <1>1, <1>8, SubjectReplaced DEF Fits
<1>9. ASSUME NEW t \in G, NEW x \in Inds, t[3] \in Inds, I.ind[t[3]] = I.ind[x]
      PROVE  Sound(sig, I, A, <<t[1], t[2], x>>)
  BY <1>1, <1>9, ObjectReplaced DEF Fits
<1>10. OK(EqRepS(G))
  <2> SUFFICES ASSUME NEW t \in G, NEW r \in Substitutes(G), t[1] = r[1]
               PROVE  Sound(sig, I, A, <<r[2], t[2], t[3]>>)
    BY DEF EqRepS, AllSound
  <2> QED BY <1>7, <1>8
<1>11. OK(EqRepO(G))
  <2> SUFFICES ASSUME NEW t \in G, NEW r \in Substitutes(G), t[3] = r[1]
               PROVE  Sound(sig, I, A, <<t[1], t[2], r[2]>>)
    BY DEF EqRepO, AllSound
  <2> QED BY <1>7, <1>9
<1>12. OK(EqRepP(G))
  <2> SUFFICES ASSUME NEW t \in G, NEW r \in Substitutes(G), t[2] = r[1] PROVE FALSE
    BY DEF EqRepP, Repredicated, AllSound
  <2>1. t[2] \in Inds /\ Used(sig, t)
    BY <1>7, RigidFacts
  <2> QED BY <1>1, <2>1 DEF SignatureApart, Used, Reserved, ClassRelations, PropertyRelations, ListPredicates
<1>13. OK(Axioms)
  <2>1. \A c \in {"Thing", "Nothing"} : Sound(sig, I, A, <<c, "type", "Class">>)
    BY <1>1, SoundAssertions DEF ClassNames
  <2> QED BY <2>1 DEF Axioms, AllSound
<1>14. OK(DtType(G))
  BY <1>1, SoundAssertions DEF DtType, Typed, AllSound
<1> QED BY <1>4, <1>5, <1>6, <1>10, <1>11, <1>12, <1>13, <1>14 DEF AllSound, EqRep

-----------------------------------------------------------------------------
(* All the rules, and all the triples of a graph they have extended.       *)

\* Every rule is sound, in any combination of the options.
LEMMA RulesSound ==
  ASSUME NEW sig, NEW I, NEW A, NEW G, Fits(sig, I, A, G)
  PROVE  /\ \A saturation, reflexive : AllSound(sig, I, A, DeterminateRules(G, saturation, reflexive))
         /\ \A c \in CardinalityOutcomes(G) : AllSound(sig, I, A, c)
<1>1. /\ AllSound(sig, I, A, SchemaRules(G)) /\ AllSound(sig, I, A, PropertyRules(G))
      /\ AllSound(sig, I, A, ClassRules(G))
  BY SchemaSound, PropertySound, ClassSound
<1>2. /\ AllSound(sig, I, A, EqSym(G) \cup EqTrans(G) \cup EqRef(G) \cup EqRep(G))
      /\ AllSound(sig, I, A, Axioms \cup DtType(G))
  BY EqualitySound
<1>3. \A saturation, reflexive : AllSound(sig, I, A, DeterminateRules(G, saturation, reflexive))
  BY <1>1, <1>2 DEF AllSound, DeterminateRules
<1> QED BY <1>3, CardinalitySound

\* Most predicates mean the same in every graph.
LEMMA TrueAnywhere ==
  ASSUME NEW sig, NEW I, NEW H, NEW K, NEW t, Free(t[2]), True(sig, I, K, t)
  PROVE  True(sig, I, H, t)
BY DEF True, Free, Rigid, Soft, ListPredicates

\* The others depend on other triples: they hold in a graph where the subject
\* has no more of these, and the object no more lists.
LEMMA TrueElsewhere ==
  ASSUME NEW sig, NEW I, NEW H, NEW K, NEW t, NEW u,
         True(sig, I, K, u), u[1] = t[1], u[2] = t[2],
         ~Free(t[2]) \/ t[2] = "type",
         u[3] = t[3] \/ (t[2] \in Soft /\ I.ind[u[3]] = I.ind[t[3]]),
         \A p \in {"onProperty", "onClass", "assertionProperty"} :
           Links(H.triples, t[1], p) \subseteq Links(K.triples, t[1], p),
         Links(H.triples, t[1], "type") \cap Containers \subseteq Links(K.triples, t[1], "type"),
         \A v \in Links(H.triples, t[1], "targetIndividual") \cup Links(H.triples, t[1], "targetValue") :
           \E w \in Links(K.triples, t[1], "targetIndividual") \cup Links(K.triples, t[1], "targetValue") :
             I.ind[w] = I.ind[v],
         t[2] \in ListPredicates => ListsAt(H, t[3]) \subseteq ListsAt(K, t[3])
  PROVE  True(sig, I, H, t)
<1>1. CASE t[2] \in {"someValuesFrom", "allValuesFrom", "maxCardinality"}
  BY <1>1, TrueAxioms DEF Soft
<1>2. CASE t[2] = "hasValue"
  <2>1. \A q \in Links(H.triples, t[1], "onProperty") : I.cls[t[1]] = Restricted(sig, I, "hasValue", q, u[3])
    BY <1>2, TrueAxioms
  <2>2. \A q : Restricted(sig, I, "hasValue", q, u[3]) = Restricted(sig, I, "hasValue", q, t[3])
    <3>1. I.ind[u[3]] = I.ind[t[3]]
      OBVIOUS
    <3> QED BY <3>1 DEF Restricted
  <2> QED BY <1>2, <2>1, <2>2, TrueAxioms
<1>3. CASE t[2] = "maxQualifiedCardinality"
  BY <1>3, TrueAxioms DEF Soft
<1>4. CASE t[2] \in ListPredicates
  <2>1. ListsAt(H, t[3]) \subseteq ListsAt(K, t[3]) /\ u[3] = t[3]
    BY <1>4 DEF ListPredicates, Soft
  <2>2. CASE t[2] \in {"members", "distinctMembers"}
    <3>1. \A S, X : \A y \in {t, u} : y[2] = t[2] => (True(sig, I, S, y) <=>
             \A kind \in Links(S.triples, y[1], "type") \cap Containers, l \in ListsAt(S, y[3]) :
               MembersTrue(sig, I, kind, l))
      BY <2>2 DEF True
    <3> QED BY <2>1, <3>1
  <2>3. CASE t[2] \notin {"members", "distinctMembers"}
    BY <1>4, <2>1, <2>3, TrueAxioms DEF ListPredicates
  <2> QED BY <2>2, <2>3
<1>5. CASE t[2] = "sourceIndividual"
  <2>1. \A S : \A y \in {t, u} : True(sig, I, S, y) <=>
          \A q \in Links(S.triples, y[1], "assertionProperty"),
             v \in Links(S.triples, y[1], "targetIndividual") \cup Links(S.triples, y[1], "targetValue") :
            <<I.ind[y[3]], I.ind[v]>> \notin I.prop[q]
    BY <1>5 DEF True
  <2>2. I.ind[u[3]] = I.ind[t[3]]
    OBVIOUS
  <2> QED BY <2>1, <2>2
<1>6. CASE t[2] \in {"onProperty", "onClass", "first", "rest", "assertionProperty",
                     "targetIndividual", "targetValue"}
  BY <1>6 DEF True
<1>7. CASE t[2] = "type"
  <2>1. u[3] = t[3]
    BY <1>7 DEF Soft
  <2> QED BY <1>7, <2>1, TrueRelations
<1> QED BY <1>1, <1>2, <1>3, <1>4, <1>5, <1>6, <1>7 DEF Free, Rigid, Soft

\* The lists that the axioms of a graph point at.
LEMMA ListsPointedAt ==
  ASSUME NEW G
  PROVE  /\ \A h : ListsAt(WithLists(G), h) \subseteq ListValues(G, h)
         /\ \A t \in G : t[2] \in ListPredicates => ListsAt(WithLists(G), t[3]) = ListValues(G, t[3])
<1> DEFINE At(t) == {<<t[3], l>> : l \in ListValues(G, t[3])}
           L == UNION {At(t) : t \in {u \in G : u[2] \in ListPredicates}}
<1>1. WithLists(G).lists = L
  BY DEF WithLists
<1>2. \A h : ListsAt(WithLists(G), h) = {x[2] : x \in {y \in L : y[1] = h}}
  BY <1>1 DEF ListsAt
<1>3. \A x \in L : \E t \in G : t[2] \in ListPredicates /\ \E l \in ListValues(G, t[3]) : x = <<t[3], l>>
  OBVIOUS
<1>4. ASSUME NEW t \in G, t[2] \in ListPredicates, NEW l \in ListValues(G, t[3]) PROVE <<t[3], l>> \in L
  BY <1>4
<1> HIDE DEF L
<1>5. ASSUME NEW h, NEW l \in ListsAt(WithLists(G), h) PROVE l \in ListValues(G, h)
  <2>1. PICK x \in L : x[1] = h /\ l = x[2]
    BY <1>2
  <2>2. PICK t \in G : t[2] \in ListPredicates /\ \E m \in ListValues(G, t[3]) : x = <<t[3], m>>
    BY <1>3
  <2> QED BY <2>1, <2>2
<1>6. ASSUME NEW t \in G, t[2] \in ListPredicates, NEW l \in ListValues(G, t[3])
      PROVE  l \in ListsAt(WithLists(G), t[3])
  <2>1. <<t[3], l>> \in L
    BY <1>4, <1>6
  <2>2. <<t[3], l>>[1] = t[3] /\ <<t[3], l>>[2] = l
    OBVIOUS
  <2> QED BY <1>2, <2>1, <2>2
<1> QED BY <1>5, <1>6

\* A graph that the rules have extended is true where the axioms are.
LEMMA GraphTrue ==
  ASSUME NEW sig, NEW I, NEW A, NEW G, Fits(sig, I, A, G), NEW t \in G
  PROVE  True(sig, I, WithLists(G), t)
<1> DEFINE H == WithLists(G)
           K == WithLists(A)
<1>1. H.triples = G /\ K.triples = A /\ A \subseteq G
  BY DEF WithLists, Fits
<1>2. \A u \in G : Sound(sig, I, A, u)
  BY DEF Fits
<1>3. \A u \in A : True(sig, I, K, u)
  BY DEF Fits
<1>4. CASE Free(t[2])
  BY <1>2, <1>4, TrueAnywhere DEF Sound
<1>5. CASE ~Free(t[2])
  <2>1. PICK u \in A : /\ u[1] = t[1] /\ u[2] = t[2]
                       /\ u[3] = t[3] \/ (t[2] \in Soft /\ I.ind[u[3]] = I.ind[t[3]])
    BY <1>2, <1>5 DEF Sound, Framed, Free
  <2>2. \A p \in {"onProperty", "onClass", "assertionProperty"} : Links(G, t[1], p) \subseteq Links(A, t[1], p)
    <3>1. \A v \in G : v[2] \in {"onProperty", "onClass", "assertionProperty"} => v \in A
      BY <1>2 DEF Sound, Framed, Rigid
    <3> QED BY <3>1 DEF Links
  <2>3. Links(G, t[1], "type") \cap Containers \subseteq Links(A, t[1], "type")
    BY <1>2 DEF Sound, Framed, Links
  <2>4. ASSUME NEW p \in {"targetIndividual", "targetValue"}, NEW v \in Links(G, t[1], p)
        PROVE  \E w \in Links(A, t[1], p) : I.ind[w] = I.ind[v]
    <3>1. PICK x \in G : x[1] = t[1] /\ x[2] = p /\ x[3] = v
      BY <2>4 DEF Links
    <3>2. PICK y \in A : y[1] = x[1] /\ y[2] = x[2] /\ I.ind[y[3]] = I.ind[x[3]]
      BY <1>2, <3>1 DEF Sound, Framed, Soft
    <3> QED BY <3>1, <3>2 DEF Links
  <2>5. t[2] \in ListPredicates => ListsAt(H, t[3]) \subseteq ListsAt(K, t[3])
    <3>1. ASSUME t[2] \in ListPredicates PROVE t \in A
      BY <1>2, <3>1 DEF Sound, Framed, Rigid
    <3>2. ListsAt(H, t[3]) \subseteq ListValues(G, t[3])
      BY ListsPointedAt
    <3>3. t[2] \in ListPredicates => ListsAt(K, t[3]) = ListValues(A, t[3])
      BY <3>1, ListsPointedAt
    <3> QED BY <3>2, <3>3, ListsInside
  <2>6. True(sig, I, K, u)
    BY <1>3
  <2> HIDE DEF H, K
  <2>7. \A v \in Links(H.triples, t[1], "targetIndividual") \cup Links(H.triples, t[1], "targetValue") :
          \E w \in Links(K.triples, t[1], "targetIndividual") \cup Links(K.triples, t[1], "targetValue") :
            I.ind[w] = I.ind[v]
    BY <1>1, <2>4
  <2>8. True(sig, I, H, t)
    BY <1>1, <1>5, <2>1, <2>2, <2>3, <2>5, <2>6, <2>7, TrueElsewhere
  <2> QED BY <2>8 DEF H
<1> QED BY <1>4, <1>5

-----------------------------------------------------------------------------
(* Loading more axioms.                                                    *)

\* Fewer axioms are true in more interpretations, if no list is ambiguous: a
\* list that stops being one would no longer be asked for.
LEMMA FewerAxioms ==
  ASSUME NEW sig, NEW A, NEW B, A \subseteq B, IsFiniteSet(B), AllWellFormed(B), Unambiguous(B)
  PROVE  /\ Meaningful(sig, B) => Meaningful(sig, A)
         /\ Models(sig, B) \subseteq Models(sig, A)
<1> DEFINE H == WithLists(A)
           K == WithLists(B)
<1>1. IsFiniteSet(A) /\ AllWellFormed(A) /\ H.triples = A /\ K.triples = B
  BY FS_Subset DEF AllWellFormed, WithLists
<1>2. \A h : ListValues(A, h) \subseteq ListValues(B, h)
  <2>1. \A h : Lists(A, h) = ListValues(A, h) /\ Lists(B, h) = ListValues(B, h)
    BY <1>1, ListsExact
  <2> QED BY <2>1, ListsGrow
<1>3. Meaningful(sig, B) => Meaningful(sig, A)
  <2>1. \A s, p : Links(A, s, p) \subseteq Links(B, s, p)
    BY DEF Links
  <2>2. ListsUsed(sig, B) => ListsUsed(sig, A)
    BY <1>2, <2>1 DEF ListsUsed
  <2> QED BY <2>2 DEF Meaningful
<1>4. ASSUME NEW I, NEW t \in A, True(sig, I, K, t) PROVE True(sig, I, H, t)
  <2>1. \A p : Links(A, t[1], p) \subseteq Links(B, t[1], p)
    BY DEF Links
  <2>2. t[2] \in ListPredicates => ListsAt(H, t[3]) \subseteq ListsAt(K, t[3])
    BY <1>2, ListsPointedAt
  <2> HIDE DEF H, K
  <2>3. /\ \A p : Links(H.triples, t[1], p) \subseteq Links(K.triples, t[1], p)
        /\ \A v \in Links(H.triples, t[1], "targetIndividual") \cup Links(H.triples, t[1], "targetValue") :
             \E w \in Links(K.triples, t[1], "targetIndividual") \cup Links(K.triples, t[1], "targetValue") :
               I.ind[w] = I.ind[v]
    BY <1>1, <2>1
  <2> QED BY <1>4, <2>2, <2>3, TrueAnywhere, TrueElsewhere
<1>5. Models(sig, B) \subseteq Models(sig, A)
  BY <1>4 DEF Models
<1> QED BY <1>3, <1>5

\* What follows from some axioms, follows from more.
LEMMA SoundForMore ==
  ASSUME NEW sig, NEW I, NEW A, NEW B, A \subseteq B, NEW t, Sound(sig, I, A, t)
  PROVE  Sound(sig, I, B, t)
BY DEF Sound, Framed

\* The axioms themselves.
LEMMA AxiomsSound ==
  ASSUME NEW sig, NEW I, NEW A, Meaningful(sig, A), I \in Models(sig, A), NEW t \in A
  PROVE  Sound(sig, I, A, t)
<1>1. Used(sig, t) /\ Framed(I, A, t)
  BY DEF Meaningful, Framed
<1>2. True(sig, I, WithLists(A), t)
  BY DEF Models
<1> QED BY <1>1, <1>2, TrueAnywhere DEF Sound
=============================================================================
