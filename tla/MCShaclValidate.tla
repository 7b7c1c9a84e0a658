-------------------------- MODULE MCShaclValidate --------------------------
(***************************************************************************)
(* Validations of small graphs: every path operator over every subset of a *)
(* data graph, every constraint component, the ways a call can fail, and   *)
(* two validations, or one and a writer, at the same time.                 *)
(***************************************************************************)
EXTENDS ShaclValidate, TLC

CONSTANTS c1, c2

-----------------------------------------------------------------------------
(* Shapes graphs.                                                          *)

\* An RDF list whose cells are the given blank nodes.
ListOf(cells, items) ==
  UNION {{<<cells[i], "rdf:first", items[i]>>,
          <<cells[i], "rdf:rest", IF i = Len(cells) THEN "rdf:nil" ELSE cells[i + 1]>>} :
         i \in DOMAIN cells}

GoodPaths ==
  {<<"_:inv", "sh:inversePath", "ex:p">>, <<"_:invinv", "sh:inversePath", "_:invalt">>,
   <<"_:invalt", "sh:inversePath", "_:alt">>, <<"_:alt", "sh:alternativePath", "_:l1">>,
   <<"_:star", "sh:zeroOrMorePath", "ex:p">>, <<"_:plus", "sh:oneOrMorePath", "ex:p">>,
   <<"_:opt", "sh:zeroOrOnePath", "ex:p">>, <<"_:plusalt", "sh:oneOrMorePath", "_:alt">>}
  \cup ListOf(<<"_:l1", "_:l2">>, <<"ex:p", "ex:q">>)
  \cup ListOf(<<"_:s1", "_:s2">>, <<"ex:p", "ex:q">>)
  \cup ListOf(<<"_:t1", "_:t2">>, <<"_:star", "ex:q">>)
  \cup ListOf(<<"_:u1", "_:u2">>, <<"ex:q", "_:inv">>)
PathRoots == {"ex:p", "_:inv", "_:invinv", "_:invalt", "_:alt", "_:star", "_:plus", "_:opt",
              "_:plusalt", "_:s1", "_:t1", "_:u1"}

BadPaths ==
  {<<"_:loop", "sh:zeroOrMorePath", "_:loop">>, <<"_:badalt", "sh:alternativePath", "_:b1">>}
  \cup ListOf(<<"_:b1">>, <<"'x'">>)
  \cup {<<"_:open", "rdf:first", "ex:p">>}
  \cup {<<"_:ring", "rdf:first", "ex:p">>, <<"_:ring", "rdf:rest", "_:ring">>}
BadRoots == {"_:loop", "_:badalt", "_:open", "_:ring", "_:none", "'x'"}

\* A property shape for every path; the node is named after the path.
PropertyNode == [r \in PathRoots \cup BadRoots |-> "ex:at " \o r]

PropertyTriples(shape, node, root, params) ==
  {<<shape, "sh:property", node>>, <<node, "sh:path", root>>} \cup {<<node, k[1], k[2]>> : k \in params}

PathShapes ==
  {<<"ex:S", "sh:targetNode", "ex:a">>, <<"ex:S", "sh:targetNode", "ex:b">>} \cup GoodPaths
  \cup UNION {PropertyTriples("ex:S", PropertyNode[r], r, {}) : r \in PathRoots}
BadPathShapes(r) ==
  {<<"ex:S", "sh:targetNode", "ex:a">>} \cup BadPaths \cup PropertyTriples("ex:S", PropertyNode[r], r, {})

\* One property shape per component, so that none hides another.
Parameters ==
  {<<"sh:minCount", "'2'">>, <<"sh:maxCount", "'2'">>, <<"sh:datatype", "xsd:integer">>,
   <<"sh:nodeKind", "sh:IRIOrLiteral">>, <<"sh:class", "ex:C">>, <<"sh:pattern", "'x'">>,
   <<"sh:minLength", "'2'">>, <<"sh:maxLength", "'2'">>, <<"sh:in", "_:l1">>,
   <<"sh:hasValue", "'2'">>, <<"sh:minInclusive", "'2'">>, <<"sh:maxInclusive", "'2'">>}
ConstraintShapes(params) ==
  {<<"ex:S", "sh:targetSubjectsOf", "ex:p">>, <<"ex:S", "sh:targetClass", "ex:C">>}
  \cup ListOf(<<"_:l1", "_:l2">>, <<"'1'", "ex:b">>)
  \cup UNION {PropertyTriples("ex:S", k[1], "ex:p", {k}) : k \in params}

\* Calls that fail: parameters of the wrong kind or out of use, a property
\* shape without a path.
WrongParameters ==
  {<<"sh:minCount", "'x'">>, <<"sh:datatype", "'x'">>, <<"sh:pattern", "ex:C">>,
   <<"sh:in", "_:open">>, <<"sh:nodeKind", "ex:C">>, <<"sh:pattern", "'1'">>,
   <<"sh:minInclusive", "'x'">>, <<"sh:maxInclusive", "'NaN'">>}
NoPath == {<<"ex:S", "sh:targetNode", "ex:a">>, <<"ex:S", "sh:property", "_:none">>}

\* A node of both shapes, reached by every kind of target, with the same
\* property shape in both; a blank property shape; objects that are literals.
SharedShapes ==
  {<<"ex:S", "sh:targetObjectsOf", "ex:p">>, <<"ex:T", "sh:targetNode", "ex:b">>,
   <<"ex:T", "sh:targetNode", "'x'">>, <<"ex:U", "rdf:type", "sh:NodeShape">>}
  \cup PropertyTriples("ex:S", "_:none", "ex:q", {<<"sh:minCount", "'1'">>})
  \cup PropertyTriples("ex:T", "_:none", "ex:q", {<<"sh:minCount", "'1'">>})

OneShape ==
  {<<"ex:S", "sh:targetObjectsOf", "ex:p">>}
  \cup PropertyTriples("ex:S", "_:none", "ex:q", {<<"sh:minCount", "'1'">>})

-----------------------------------------------------------------------------
(* Data graphs, calls and workloads.                                       *)

PathData ==
  {<<"ex:a", "ex:p", "ex:b">>, <<"ex:b", "ex:p", "ex:a">>, <<"ex:b", "ex:p", "_:n">>,
   <<"ex:a", "ex:p", "'x'">>, <<"_:n", "ex:p", "'1'">>, <<"ex:a", "ex:q", "ex:b">>,
   <<"ex:b", "ex:q", "'x'">>, <<"_:n", "ex:q", "ex:a">>}
ValueData ==
  {<<"ex:a", "ex:p", v>> : v \in {"'1'", "'2'", "'x'", "ex:b", "_:n", "<<a>>"}}
ClassData ==
  {{}, {<<"ex:b", "rdf:type", "ex:D">>, <<"ex:D", "rdfs:subClassOf", "ex:C">>,
        <<"ex:C", "rdfs:subClassOf", "ex:D">>}}

At(g, T) == {<<t[1], t[2], t[3], g>> : t \in T}
OldReport == At("report", {<<"_:old", "rdf:type", "sh:ValidationReport">>, <<"_:old", "sh:conforms", "true">>})

Validate(data, report, max) ==
  [op |-> "validate", data |-> data, shapes |-> "shapes", report |-> report, max |-> max,
   provenance |-> FALSE, by |-> "by", at |-> "at"]
Recorded(k)   == [k EXCEPT !.provenance = TRUE]
BadAuthor(k)  == [k EXCEPT !.by = Malformed]
Insert(q)     == [op |-> "insert", quad |-> q]
Removal(q)    == [op |-> "remove", quad |-> q]

Work(shapesGraph, data, p, q) ==
  [store |-> At("shapes", shapesGraph) \cup At("data", data) \cup OldReport,
   program |-> [c \in {c1, c2} |-> IF c = c1 THEN p ELSE q]]
Once == Validate("data", "report", 9)

PathWork == {Work(PathShapes, D, <<Once>>, << >>) : D \in SUBSET PathData}
ConstraintWork ==
  {Work(ConstraintShapes(Parameters), D \cup E, <<Recorded(Once)>>, << >>) :
     D \in SUBSET ValueData, E \in ClassData}
FailingWork ==
  {Work(BadPathShapes(r), {}, <<Once>>, << >>) : r \in BadRoots}
  \cup {Work(ConstraintShapes({k}), D, <<Once>>, << >>) :
          k \in WrongParameters, D \in {{}, {<<"ex:a", "ex:p", "'1'">>}}}
  \cup {Work(NoPath, {}, <<Once>>, << >>)}
  \cup {Work(SharedShapes, {<<"ex:a", "ex:p", "ex:b">>}, <<k, Once>>, << >>) :
          k \in {BadAuthor(Once), Validate("data", "report", 1), Validate(Malformed, "report", 9)}}

\* Two on one report graph, or one that reports into the other's data; a writer
\* of the data, the shapes or the report beside one.
SharedData == {<<"ex:a", "ex:p", "ex:b">>, <<"ex:a", "ex:p", "'x'">>}
Beside ==
  {<<Once>>, <<BadAuthor(Once)>>, <<Validate("report", "data", 9)>>,
   <<Insert(<<"ex:b", "ex:q", "'1'", "data">>), Insert(<<"ex:b", "ex:p", "ex:a", "data">>)>>,
   <<Removal(<<"ex:S", "sh:targetObjectsOf", "ex:p", "shapes">>)>>,
   <<Insert(<<"_:old", "sh:conforms", "false", "report">>)>>}
ConcurrentWork ==
  {Work(OneShape, SharedData, <<k>>, other) :
     k \in {Once, Validate("data", "data", 9), Validate("data", "report", 0)}, other \in Beside}

MCWorkloads == PathWork \cup ConstraintWork \cup FailingWork \cup ConcurrentWork

-----------------------------------------------------------------------------
(* The terms.                                                              *)

MCConns    == {c1, c2}
MCGraphs   == {"data", "shapes", "report"}
MCMaxNodes == 26
FreshName(c, n) == (IF c = c1 THEN "_:r" ELSE "_:t") \o ToString(n)
MCFresh    == [c \in MCConns |-> [n \in 1..MCMaxNodes |-> FreshName(c, n)]]

PathBlanks == {"_:inv", "_:invinv", "_:invalt", "_:alt", "_:star", "_:plus", "_:opt", "_:plusalt",
               "_:l1", "_:l2", "_:s1", "_:s2", "_:t1", "_:t2", "_:u1", "_:u2",
               "_:loop", "_:badalt", "_:b1", "_:open", "_:ring", "_:none"}
MCBlanks   == PathBlanks \cup {"_:n", "_:old"} \cup UNION {Range(MCFresh[c]) : c \in MCConns}
MCStamped  == [b \in MCBlanks |-> IF b = "_:none" THEN "shape:none" ELSE "shape:other"]
MCQuoted   == {"<<a>>"}

\* 'x' stands for text; 'NaN' parses as a number that compares with none.
MCLiterals == {"'1'", "'2'", "'x'", "'NaN'", "true", "false", "now", "message"}
MCIris ==
  PathVocabulary \cup Vocabulary \cup ReportVocabulary
  \cup {PropertyNode[r] : r \in PathRoots \cup BadRoots}
  \cup {"ex:S", "ex:T", "ex:U", "ex:a", "ex:b", "ex:p", "ex:q", "ex:C", "ex:D", "sh:IRIOrLiteral",
        "xsd:integer", "xsd:string", "by", "at", "shape:none", "shape:other"}

MCNumber     == ("'1'" :> 1) @@ ("'2'" :> 2)
MCUnsigned   == {"'1'", "'2'"}
MCNotANumber == {"'NaN'"}
MCDatatype   == [l \in MCLiterals |-> IF l \in MCUnsigned THEN "xsd:integer" ELSE "xsd:string"]
MCLength     == [t \in MCLiterals \cup MCIris |-> IF t \in MCUnsigned THEN 1 ELSE IF t = "'x'" THEN 2 ELSE 4]
MCMatches    == (<<"'x'", {}>> :> {"'x'", "ex:b"})
=============================================================================
