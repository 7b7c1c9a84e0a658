-------------------------- MODULE ShaclConstraints --------------------------
(***************************************************************************)
(* Shapes, their targets and the twelve constraint components of SHACL     *)
(* Core (functions/rdf_shacl_core/constraints.rs, and what validator.rs    *)
(* reads of the shapes graph).  A component is named after its parameter.  *)
(*                                                                         *)
(* Of a literal the constraints see its datatype, its length, the number   *)
(* it parses as and the regular expressions it matches; these are given.   *)
(***************************************************************************)
EXTENDS ShaclPath

CONSTANTS
  Datatype,    \* literal -> its datatype
  Length,      \* literal or IRI -> its number of characters
  Number,      \* literal that parses as f64 -> its value, but for
  NotANumber,  \* those that parse as NaN
  Unsigned,    \* the literals that parse as u64
  Matches      \* <<pattern, flags>> that compile -> the literals and IRIs they match

Components ==
  <<"sh:minCount", "sh:maxCount", "sh:datatype", "sh:nodeKind", "sh:class", "sh:pattern",
    "sh:minLength", "sh:maxLength", "sh:in", "sh:hasValue", "sh:minInclusive",
    "sh:maxInclusive">>
TargetPredicates ==
  {"sh:targetClass", "sh:targetNode", "sh:targetSubjectsOf", "sh:targetObjectsOf"}
Vocabulary ==
  Range(Components) \cup TargetPredicates
  \cup {"sh:flags", "sh:property", "sh:path", "sh:NodeShape", "rdf:type", "rdfs:subClassOf"}

ASSUME VocabularyIris == Vocabulary \subseteq Iris
ASSUME LiteralsTyped ==
  /\ Datatype \in [Literals -> Iris]
  /\ Length \in [Literals \cup Iris -> Nat]
  /\ DOMAIN Number \subseteq Literals /\ \A l \in DOMAIN Number : Number[l] \in Int
  /\ NotANumber \subseteq Literals \ DOMAIN Number
  /\ Unsigned \subseteq DOMAIN Number /\ \A l \in Unsigned : Number[l] >= 0

-----------------------------------------------------------------------------
(* Shapes and targets.                                                     *)

ShapesIn(S) ==
  {t[1] : t \in {u \in S : u[2] \in TargetPredicates
                           \/ (u[2] = "rdf:type" /\ u[3] = "sh:NodeShape")}}

\* Defect: a literal object is a focus node, too.
TargetsWithLiterals(S, D, shape) ==
  LET declared(p) == Objects(S, shape, p) \cap Iris
  IN  Objects(S, shape, "sh:targetNode")
      \cup {t[1] : t \in {u \in D : u[2] = "rdf:type" /\ u[3] \in declared("sh:targetClass")}}
      \cup {t[1] : t \in {u \in D : u[2] \in declared("sh:targetSubjectsOf")}}
      \cup {t[3] : t \in {u \in D : u[2] \in declared("sh:targetObjectsOf")}}

\* A focus node that several targets name is one.
Targets(S, D, shape) ==
  LET declared(p) == Objects(S, shape, p) \cap Iris
  IN  Onward(
        Objects(S, shape, "sh:targetNode")
        \cup {t[1] : t \in {u \in D : u[2] = "rdf:type" /\ u[3] \in declared("sh:targetClass")}}
        \cup {t[1] : t \in {u \in D : u[2] \in declared("sh:targetSubjectsOf")}}
        \cup {t[3] : t \in {u \in D : u[2] \in declared("sh:targetObjectsOf")}})

\* What a parameter of a property shape is set to, if it is; of sh:in, the
\* members of the list.
ReadParams(S, n) ==
  [k \in Range(Components) \cup {"sh:flags"} |->
     IF k = "sh:in" THEN {Range(WalkList(S, head).items) : head \in LookupObject(S, n, k)}
     ELSE LookupObject(S, n, k)]

ParamsReadable(S, n) ==
  LET all(kind, names) == \A k \in names : LookupObject(S, n, k) \subseteq kind
  IN  /\ all(Unsigned, {"sh:minCount", "sh:maxCount", "sh:minLength", "sh:maxLength"})
      /\ all(Iris, {"sh:datatype", "sh:nodeKind", "sh:class"})
      /\ all(Literals, {"sh:pattern", "sh:flags"})
      /\ \A head \in LookupObject(S, n, "sh:in") : WalkList(S, head).ok

PropertyNodes(S, shape) == Onward(Objects(S, shape, "sh:property"))

\* One property shape without a path, or with a parameter of the wrong kind,
\* refuses the whole call, whether or not there is a focus node.
PropertiesReadable(S, shape) ==
  \A n \in PropertyNodes(S, shape) :
    LookupObject(S, n, "sh:path") # {} /\ ParamsReadable(S, n)

PropertyShapes(S, shape) ==
  {[node |-> n, path |-> Only(LookupObject(S, n, "sh:path")), params |-> ReadParams(S, n)] :
     n \in PropertyNodes(S, shape)}

-----------------------------------------------------------------------------
(* Constraint components.                                                  *)

NodeKinds ==
  [k \in {"sh:IRI", "sh:BlankNode", "sh:Literal", "sh:BlankNodeOrIRI", "sh:BlankNodeOrLiteral",
          "sh:IRIOrLiteral"} |->
     CASE k = "sh:IRI"                -> Iris
       [] k = "sh:BlankNode"          -> Blanks
       [] k = "sh:Literal"            -> Literals
       [] k = "sh:BlankNodeOrIRI"     -> Blanks \cup Iris
       [] k = "sh:BlankNodeOrLiteral" -> Blanks \cup Literals
       [] k = "sh:IRIOrLiteral"       -> Iris \cup Literals]

\* Defect: the classes above the types are not looked at.
ClassesOfDirect(D, v) == Objects(D, v, "rdf:type") \cap Iris

\* The types of v and the classes above them; only IRIs are followed.
ClassesOf(D, v) ==
  LET above == [c \in {t[3] : t \in D} \cap Iris |-> Objects(D, c, "rdfs:subClassOf") \cap Iris]
  IN  Reached(above, Objects(D, v, "rdf:type") \cap Iris)

\* A parameter that no value can be held against ends the call in an error;
\* an unknown node kind only when there is a value.
EvaluationFails(params, values) ==
  \/ values # {} /\ \E k \in params["sh:nodeKind"] : k \notin DOMAIN NodeKinds
  \/ \E r \in params["sh:pattern"] : <<r, params["sh:flags"]>> \notin DOMAIN Matches
  \/ \E b \in params["sh:minInclusive"] \cup params["sh:maxInclusive"] :
       b \notin DOMAIN Number \cup NotANumber

\* A value is of the kind or the class asked for.
KindConforms(D, k, b, v) ==
  CASE k = "sh:datatype" -> v \in Literals /\ Datatype[v] = b
    [] k = "sh:nodeKind" -> v \in NodeKinds[b]
    [] k = "sh:class"    -> v \in Iris \cup Blanks /\ b \in ClassesOf(D, v)

\* Only a literal or an IRI has a text.
TextConforms(flags, k, b, v) ==
  /\ v \in Literals \cup Iris
  /\ CASE k = "sh:pattern"   -> v \in Matches[<<b, flags>>]
       [] k = "sh:minLength" -> Length[v] >= Number[b]
       [] k = "sh:maxLength" -> Length[v] <= Number[b]

\* What cannot be compared, NaN among it, does not conform.
RangeConforms(k, b, v) ==
  CASE k = "sh:in"           -> v \in b
    [] k = "sh:minInclusive" -> {v, b} \subseteq DOMAIN Number /\ Number[v] >= Number[b]
    [] k = "sh:maxInclusive" -> {v, b} \subseteq DOMAIN Number /\ Number[v] <= Number[b]

\* Value v under component k with parameter b.
ValueConforms(D, params, k, b, v) ==
  CASE k \in {"sh:datatype", "sh:nodeKind", "sh:class"}       -> KindConforms(D, k, b, v)
    [] k \in {"sh:pattern", "sh:minLength", "sh:maxLength"}   -> TextConforms(params["sh:flags"], k, b, v)
    [] k \in {"sh:in", "sh:minInclusive", "sh:maxInclusive"}  -> RangeConforms(k, b, v)

\* The three components that look at the values together.
CountConforms(k, b, values) ==
  CASE k = "sh:minCount" -> Cardinality(values) >= Number[b]
    [] k = "sh:maxCount" -> Cardinality(values) <= Number[b]
    [] k = "sh:hasValue" -> b \in values

\* The results of one component: one without a value, or one for each value
\* that does not conform.
ResultsOf(D, focus, shape, values, k) ==
  LET result(value) == [focus |-> focus, path |-> shape.path, value |-> value,
                        shape |-> shape.node, component |-> k]
      b             == Only(shape.params[k])
  IN  IF shape.params[k] = {} THEN << >>
      ELSE IF k \in {"sh:minCount", "sh:maxCount", "sh:hasValue"}
      THEN IF CountConforms(k, b, values) THEN << >> ELSE <<result({})>>
      ELSE Listed({result({v}) : v \in {w \in values : ~ValueConforms(D, shape.params, k, b, w)}})

EvaluateAllConstraints(D, focus, shape, values) ==
  FlattenSeq([i \in DOMAIN Components |-> ResultsOf(D, focus, shape, values, Components[i])])
=============================================================================
