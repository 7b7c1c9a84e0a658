--------------------------- MODULE ShaclValidate ---------------------------
(***************************************************************************)
(* rdf_shacl_core_validate (functions/rdf_shacl_core.rs and                *)
(* rdf_shacl_core/validator.rs), called by several connections on one      *)
(* store while others insert and remove quads.                             *)
(*                                                                         *)
(* A call reads the shapes, and for every shape its targets and property   *)
(* shapes; for every focus node and property shape it parses the path,     *)
(* evaluates it and checks the constraints.  Each of these is one step, on *)
(* the store as it then is.  Only when all are done is the report graph    *)
(* cleared and written, quad by quad.  A quad is <<s, p, o, graph>>.       *)
(***************************************************************************)
EXTENDS ShaclSemantics

CONSTANTS
  Conns,
  Graphs,
  Malformed,   \* an argument that is refused or an IRI that does not parse
  Fresh,       \* per connection: the blank nodes it makes, in order
  MaxNodes,    \* the bound on them
  Stamped,     \* blank node -> shape_iri_prefix with its label
  Workloads    \* [store, program]

Quads == Subjects \X Iris \X Terms \X Graphs

ReportVocabulary ==
  {"sh:ValidationReport", "sh:conforms", "sh:result", "sh:ValidationResult", "sh:focusNode",
   "sh:resultPath", "sh:value", "sh:sourceShape", "sh:sourceConstraintComponent",
   "sh:resultSeverity", "sh:Violation", "sh:resultMessage", "urn:unsupported-triple-shape"}

\* Validations, and another connection's inserts and removals of one quad.
Calls ==
  [op : {"insert", "remove"}, quad : Quads]
  \cup [op : {"validate"}, data : Graphs \cup {Malformed}, shapes : Graphs \cup {Malformed},
        report : Graphs \cup {Malformed}, max : Nat, provenance : BOOLEAN,
        by : Iris \cup {Malformed}, at : Iris \cup {Malformed}]

ASSUME ReportVocabularyTerms ==
  /\ ReportVocabulary \subseteq Iris
  /\ {"true", "false", "now", "message"} \subseteq Literals
ASSUME NodesTyped ==
  /\ MaxNodes \in Nat
  /\ Fresh \in [Conns -> [1..MaxNodes -> Blanks]]
  /\ \A c, d \in Conns, i, j \in 1..MaxNodes : Fresh[c][i] = Fresh[d][j] => c = d /\ i = j
  /\ Stamped \in [Blanks -> Iris]
  /\ Malformed \notin Iris \cup Graphs
ASSUME WorkloadsTyped ==
  \A w \in Workloads : /\ w.store \subseteq Quads /\ IsFiniteSet(w.store)
                       /\ w.program \in [Conns -> Seq(Calls)]

VARIABLES
  store,
  alive,       \* FALSE once a thread's stack has overflowed
  program,     \* per connection: the calls still to make
  call,        \* per connection: the call being made, or the last one
  pc,
  shapes,      \* per connection: the shapes still to do, the current one first
  targets,     \* per connection: the focus nodes of the current shape
  pairs,       \* per connection: <<focus, property shape>> still to do, the current one first
  path,        \* per connection: the syntax of the current path
  values,      \* per connection: its values
  violations,
  doomed,      \* per connection: the quads of the old report still to be removed
  block,       \* per connection: the result it is writing; 0 is the report's header
  line,        \* per connection: the line of it to be written next
  given,       \* per connection: how many blank nodes its earlier calls may have made
  status,
  result,
  base,        \* history: the store when the call began
  quiet,       \* history: no other connection has changed the store since
  wrote,       \* history: the quads the call has inserted
  erased       \* history: the quads the call has removed

reading == <<shapes, targets, pairs, path, values>>
writing == <<doomed, block, line, given>>
locals  == <<program, call, pc, reading, violations, writing, status, result>>
history == <<base, quiet, wrote, erased>>
vars    == <<store, alive, locals, history>>

Stages == {"idle", "change", "shapes", "targets", "properties", "parse", "evaluate",
           "constraints", "clear", "remove", "emit"}

Violations ==
  [focus : Subjects, path : Terms, value : {{}} \cup {{v} : v \in Terms}, shape : Subjects,
   component : Range(Components)]

TypeOK ==
  /\ store      \in SUBSET Quads
  /\ alive      \in BOOLEAN
  /\ program    \in [Conns -> Seq(Calls)]
  /\ call       \in [Conns -> Calls]
  /\ pc         \in [Conns -> Stages]
  /\ shapes     \in [Conns -> Seq(Subjects)]
  /\ targets    \in [Conns -> SUBSET Subjects]
  /\ \A c \in Conns : \A i \in DOMAIN pairs[c] :
       /\ pairs[c][i][1] \in Subjects
       /\ pairs[c][i][2].node \in Subjects /\ pairs[c][i][2].path \in Terms
  /\ \A c \in Conns : pc[c] = "evaluate" =>
       /\ DOMAIN path[c] \subseteq Blanks
       /\ \A t \in DOMAIN path[c] : path[c][t] \in [op : PathOps, parts : Seq(Terms)]
  /\ values     \in [Conns -> SUBSET Terms]
  /\ violations \in [Conns -> Seq(Violations)]
  /\ doomed     \in [Conns -> SUBSET Quads]
  /\ block      \in [Conns -> Nat]
  /\ line       \in [Conns -> Nat]
  /\ given      \in [Conns -> Nat]
  /\ status     \in [Conns -> {"none", "ok", "error"}]
  /\ result     \in [Conns -> Nat]
  /\ base       \in [Conns -> SUBSET Quads]
  /\ quiet      \in [Conns -> BOOLEAN]
  /\ wrote      \in [Conns -> SUBSET Quads]
  /\ erased     \in [Conns -> SUBSET Quads]

In(S, g) == {<<q[1], q[2], q[3]>> : q \in {r \in S : r[4] = g}}

NoCall == [op |-> "validate", data |-> Malformed, shapes |-> Malformed, report |-> Malformed,
           max |-> 0, provenance |-> FALSE, by |-> Malformed, at |-> Malformed]

Init ==
  /\ \E w \in Workloads : store = w.store /\ program = w.program
  /\ alive = TRUE
  /\ call = [c \in Conns |-> NoCall]
  /\ pc = [c \in Conns |-> "idle"]
  /\ shapes = [c \in Conns |-> << >>]
  /\ targets = [c \in Conns |-> {}]
  /\ pairs = [c \in Conns |-> << >>]
  /\ path = [c \in Conns |-> << >>]
  /\ values = [c \in Conns |-> {}]
  /\ violations = [c \in Conns |-> << >>]
  /\ doomed = [c \in Conns |-> {}]
  /\ block = [c \in Conns |-> 0]
  /\ line = [c \in Conns |-> 1]
  /\ given = [c \in Conns |-> 0]
  /\ status = [c \in Conns |-> "none"]
  /\ result = [c \in Conns |-> 0]
  /\ base = [c \in Conns |-> store]
  /\ quiet = [c \in Conns |-> TRUE]
  /\ wrote = [c \in Conns |-> {}]
  /\ erased = [c \in Conns |-> {}]

-----------------------------------------------------------------------------
(* Pieces of a step.                                                       *)

Running(c, stage) == alive /\ pc[c] = stage

Goto(c, stage) == pc' = [pc EXCEPT ![c] = stage]

Return(c, how, n) ==
  /\ Goto(c, "idle")
  /\ status' = [status EXCEPT ![c] = how]
  /\ result' = [result EXCEPT ![c] = n]

Fail(c) == Return(c, "error", 0)

Write(c, inserts, removes) ==
  LET new == (store \ removes) \cup inserts
  IN  /\ store' = new
      /\ quiet' = [d \in Conns |-> quiet[d] /\ (d = c \/ new = store)]
      /\ wrote' = [wrote EXCEPT ![c] = @ \cup inserts]
      /\ erased' = [erased EXCEPT ![c] = @ \cup removes]
      /\ UNCHANGED base

ReadOnly == UNCHANGED <<store, history>>

Data(c)   == In(store, call[c].data)
Shapes(c) == In(store, call[c].shapes)

\* Where the loops of run go on to, with so many shapes and pairs left.
Onto(c, shapesLeft, pairsLeft) ==
  /\ Goto(c, IF pairsLeft # << >> THEN "parse"
             ELSE IF shapesLeft # << >> THEN "targets" ELSE "clear")
  /\ shapes' = [shapes EXCEPT ![c] = shapesLeft]
  /\ pairs' = [pairs EXCEPT ![c] = pairsLeft]

-----------------------------------------------------------------------------
(* Reading the shapes, the data and the constraints.                       *)

\* Arguments are read and refused first.
Begin(c) ==
  /\ Running(c, "idle")
  /\ program[c] # << >>
  /\ LET k == Head(program[c])
     IN  /\ call' = [call EXCEPT ![c] = k]
         /\ IF k.op = "validate" /\ Malformed \in {k.data, k.shapes, k.report} THEN Fail(c)
            ELSE /\ Goto(c, IF k.op = "validate" THEN "shapes" ELSE "change")
                 /\ status' = [status EXCEPT ![c] = "none"]
                 /\ result' = [result EXCEPT ![c] = 0]
  /\ program' = [program EXCEPT ![c] = Tail(@)]
  /\ violations' = [violations EXCEPT ![c] = << >>]
  /\ given' = [given EXCEPT ![c] = @ + 1 + Len(violations[c])]
  /\ base' = [base EXCEPT ![c] = store]
  /\ quiet' = [quiet EXCEPT ![c] = TRUE]
  /\ wrote' = [wrote EXCEPT ![c] = {}]
  /\ erased' = [erased EXCEPT ![c] = {}]
  /\ UNCHANGED <<store, alive, reading, doomed, block, line>>

\* Another connection's call.
Change(c) ==
  /\ Running(c, "change")
  /\ IF call[c].op = "insert" THEN Write(c, {call[c].quad}, {}) ELSE Write(c, {}, {call[c].quad})
  /\ Return(c, "ok", 1)
  /\ UNCHANGED <<alive, program, call, reading, violations, writing>>

\* Defect: the report graph is emptied before the shapes are looked at.
EnumerateShapesClears(c) ==
  /\ Running(c, "shapes")
  /\ Onto(c, Listed(ShapesIn(Shapes(c))), << >>)
  /\ Write(c, {}, {q \in store : q[4] = call[c].report})
  /\ UNCHANGED <<alive, program, call, targets, path, values, violations, writing, status, result>>

EnumerateShapes(c) ==
  /\ Running(c, "shapes")
  /\ Onto(c, Listed(ShapesIn(Shapes(c))), << >>)
  /\ ReadOnly
  /\ UNCHANGED <<alive, program, call, targets, path, values, violations, writing, status, result>>

ResolveTargets(c) ==
  /\ Running(c, "targets")
  /\ targets' = [targets EXCEPT ![c] = Targets(Shapes(c), Data(c), Head(shapes[c]))]
  /\ Goto(c, "properties")
  /\ ReadOnly
  /\ UNCHANGED <<alive, program, call, shapes, pairs, path, values, violations, writing,
                 status, result>>

ReadPropertyShapes(c) ==
  /\ Running(c, "properties")
  /\ PropertiesReadable(Shapes(c), Head(shapes[c]))
  /\ Onto(c, Tail(shapes[c]),
          Listed(targets[c] \X PropertyShapes(Shapes(c), Head(shapes[c]))))
  /\ ReadOnly
  /\ UNCHANGED <<alive, program, call, targets, path, values, violations, writing, status, result>>

PropertyShapesRefused(c) ==
  /\ Running(c, "properties")
  /\ ~PropertiesReadable(Shapes(c), Head(shapes[c]))
  /\ Fail(c)
  /\ ReadOnly
  /\ UNCHANGED <<alive, program, call, reading, violations, writing>>

Verdict(c) == ParsePath(Syntax(Shapes(c)), Head(pairs[c])[2].path)

Parse(c) ==
  /\ Running(c, "parse")
  /\ Verdict(c) = "ok"
  /\ path' = [path EXCEPT ![c] = Syntax(Shapes(c))]
  /\ Goto(c, "evaluate")
  /\ ReadOnly
  /\ UNCHANGED <<alive, program, call, shapes, targets, pairs, values, violations, writing,
                 status, result>>

PathRefused(c) ==
  /\ Running(c, "parse")
  /\ Verdict(c) = "error"
  /\ Fail(c)
  /\ ReadOnly
  /\ UNCHANGED <<alive, program, call, reading, violations, writing>>

\* A path that is a part of itself: the recursion has no guard, the process dies.
PathOverflows(c) ==
  /\ Running(c, "parse")
  /\ Verdict(c) = "loops"
  /\ alive' = FALSE
  /\ UNCHANGED <<store, locals, history>>

Evaluate(c) ==
  /\ Running(c, "evaluate")
  /\ LET pair == Head(pairs[c])
     IN  values' = [values EXCEPT ![c] = EvaluatePath(path[c], pair[2].path, Data(c), pair[1])]
  /\ Goto(c, "constraints")
  /\ ReadOnly
  /\ UNCHANGED <<alive, program, call, shapes, targets, pairs, path, violations, writing,
                 status, result>>

\* What the constraints of the current pair add to the violations.
NewViolations(c) ==
  LET pair == Head(pairs[c])
  IN  EvaluateAllConstraints(Data(c), pair[1], pair[2], values[c])

\* Every parameter can be used, and there is not one violation too many.
Passes(c) ==
  /\ ~EvaluationFails(Head(pairs[c])[2].params, values[c])
  /\ Len(violations[c] \o NewViolations(c)) <= call[c].max

CheckConstraints(c) ==
  /\ Running(c, "constraints")
  /\ Passes(c)
  /\ violations' = [violations EXCEPT ![c] = @ \o NewViolations(c)]
  /\ Onto(c, shapes[c], Tail(pairs[c]))
  /\ ReadOnly
  /\ UNCHANGED <<alive, program, call, targets, path, values, writing, status, result>>

CheckAborts(c) ==
  /\ Running(c, "constraints")
  /\ ~Passes(c)
  /\ Fail(c)
  /\ ReadOnly
  /\ UNCHANGED <<alive, program, call, reading, violations, writing>>

-----------------------------------------------------------------------------
(* Writing the report.                                                     *)

\* The quads of the report graph are collected, then removed one by one.
CollectReport(c) ==
  /\ Running(c, "clear")
  /\ doomed' = [doomed EXCEPT ![c] = {q \in store : q[4] = call[c].report}]
  /\ Goto(c, "remove")
  /\ ReadOnly
  /\ UNCHANGED <<alive, program, call, reading, violations, block, line, given, status, result>>

RemoveQuad(c) ==
  /\ Running(c, "remove")
  /\ doomed[c] # {}
  /\ LET q == CHOOSE x \in doomed[c] : TRUE
     IN  /\ Write(c, {}, {q})
         /\ doomed' = [doomed EXCEPT ![c] = @ \ {q}]
  /\ UNCHANGED <<alive, program, call, pc, reading, violations, block, line, given, status, result>>

ReportCleared(c) ==
  /\ Running(c, "remove")
  /\ doomed[c] = {}
  /\ given[c] + 1 + Len(violations[c]) <= MaxNodes
  /\ block' = [block EXCEPT ![c] = 0]
  /\ line' = [line EXCEPT ![c] = 1]
  /\ Goto(c, "emit")
  /\ ReadOnly
  /\ UNCHANGED <<alive, program, call, reading, violations, doomed, given, status, result>>

ShapeIri(n) ==
  CASE n \in Iris   -> n
    [] n \in Blanks -> Stamped[n]
    [] OTHER        -> "urn:unsupported-triple-shape"

\* The report's node, and that of its i-th result.
ReportNode(c)    == Fresh[c][given[c] + 1]

\* Defect: one node for all results.
ResultNodeShared(c, i) == Fresh[c][given[c] + 2]

ResultNode(c, i) == Fresh[c][given[c] + 1 + i]

HeaderLines(c) ==
  LET r == ReportNode(c)
      g == call[c].report
  IN  <<<<r, "rdf:type", "sh:ValidationReport", g>>,
        <<r, "sh:conforms", IF violations[c] = << >> THEN "true" ELSE "false", g>>>>

ResultLines(c, i) ==
  LET v     == violations[c][i]
      n     == ResultNode(c, i)
      g     == call[c].report
      say(p, o) == <<n, p, o, g>>
  IN  <<<<ReportNode(c), "sh:result", n, g>>,
        say("rdf:type", "sh:ValidationResult"),
        say("sh:focusNode", v.focus),
        say("sh:resultPath", v.path)>>
      \o (IF v.value = {} THEN << >> ELSE <<say("sh:value", Only(v.value))>>)
      \o <<say("sh:sourceShape", ShapeIri(v.shape)),
           say("sh:sourceConstraintComponent", v.component),
           say("sh:resultSeverity", "sh:Violation"),
           say("sh:resultMessage", "message")>>
      \o (IF call[c].provenance
          THEN <<say(call[c].by, ShapeIri(v.shape)), say(call[c].at, "now")>>
          ELSE << >>)

BlockLines(c, i) == IF i = 0 THEN HeaderLines(c) ELSE ResultLines(c, i)

EmitLine(c) ==
  /\ Running(c, "emit")
  /\ line[c] \in DOMAIN BlockLines(c, block[c])
  /\ Write(c, {BlockLines(c, block[c])[line[c]]}, {})
  /\ line' = [line EXCEPT ![c] = @ + 1]
  /\ UNCHANGED <<alive, program, call, pc, reading, violations, doomed, block, given, status, result>>

BlockWritten(c) == Running(c, "emit") /\ line[c] \notin DOMAIN BlockLines(c, block[c])

\* The provenance IRIs are parsed between the header and the results, whether
\* or not provenance is asked for.
ProvenanceParses(c) == Malformed \notin {call[c].by, call[c].at}

ProvenanceRefused(c) ==
  /\ BlockWritten(c)
  /\ block[c] = 0
  /\ ~ProvenanceParses(c)
  /\ Fail(c)
  /\ ReadOnly
  /\ UNCHANGED <<alive, program, call, reading, violations, writing>>

NextResult(c) ==
  /\ BlockWritten(c)
  /\ ProvenanceParses(c)
  /\ block[c] < Len(violations[c])
  /\ block' = [block EXCEPT ![c] = @ + 1]
  /\ line' = [line EXCEPT ![c] = 1]
  /\ ReadOnly
  /\ UNCHANGED <<alive, program, call, pc, reading, violations, doomed, given, status, result>>

EmitDone(c) ==
  /\ BlockWritten(c)
  /\ ProvenanceParses(c)
  /\ block[c] >= Len(violations[c])
  /\ Return(c, "ok", Len(violations[c]))
  /\ ReadOnly
  /\ UNCHANGED <<alive, program, call, reading, violations, writing>>

Next ==
  \E c \in Conns :
    \/ Begin(c) \/ Change(c)
    \/ EnumerateShapes(c) \/ ResolveTargets(c)
    \/ ReadPropertyShapes(c) \/ PropertyShapesRefused(c)
    \/ Parse(c) \/ PathRefused(c) \/ PathOverflows(c)
    \/ Evaluate(c) \/ CheckConstraints(c) \/ CheckAborts(c)
    \/ CollectReport(c) \/ RemoveQuad(c) \/ ReportCleared(c)
    \/ EmitLine(c) \/ ProvenanceRefused(c) \/ NextResult(c) \/ EmitDone(c)

Spec == Init /\ [][Next]_vars

-----------------------------------------------------------------------------
\* A validation inserts and removes nothing outside its report graph, and one
\* that fails not even there, whatever others write meanwhile: it fails before
\* it clears.  The one exception is a provenance IRI that does not parse: then
\* the old report is gone, and of the new one there is a header without
\* results (validator.rs:128-145, 482-491).
FailuresKeepTheReport ==
  \A c \in Conns :
    /\ call[c].op = "validate" => \A q \in wrote[c] \cup erased[c] : q[4] = call[c].report
    /\ status[c] = "error" =>
         \/ wrote[c] = {} /\ erased[c] = {}
         \/ ~ProvenanceParses(c) /\ wrote[c] = Range(HeaderLines(c))

\* When a validation returns, the quads it wrote are one report, complete: one
\* sh:conforms flag, "true" exactly when the number returned is 0, as many
\* sh:result links to as many nodes of its own as that number, never more than
\* max_violations, each with one focus node, one component and one source
\* shape.  If nobody else has written since, it is all that the report graph
\* holds.  A provenance predicate could be one of the report's own: that would
\* say the same of a result twice (validator.rs:134-147, 454-589).
ReportIsTheAnswer ==
  \A c \in Conns :
    /\ status[c] = "ok" /\ call[c].op = "validate"
    /\ call[c].provenance => {call[c].by, call[c].at} \cap ReportVocabulary = {}
    => LET report == In(wrote[c], call[c].report)
           nodes  == UNION {Objects(report, s, "sh:result") : s \in {t[1] : t \in report}}
           flags  == {t[3] : t \in {u \in report : u[2] = "sh:conforms"}}
       IN  /\ result[c] = Cardinality(nodes) /\ result[c] <= call[c].max
           /\ flags = {IF result[c] = 0 THEN "true" ELSE "false"}
           /\ \A n \in nodes, p \in {"sh:focusNode", "sh:sourceConstraintComponent", "sh:sourceShape"} :
                Cardinality(Objects(report, n, p)) = 1
           /\ {<<Objects(report, n, "sh:focusNode"), Objects(report, n, "sh:value"),
                 Objects(report, n, "sh:sourceConstraintComponent")>> : n \in nodes}
              = {<<{v.focus}, v.value, {v.component}>> : v \in Range(violations[c])}
           /\ quiet[c] => In(store, call[c].report) = report

\* The violations a call goes on to report are those of the store it began on,
\* if nobody wrote meanwhile: every target of every shape, every property
\* shape and every component, each value once, and none twice however many
\* targets name the node; a property shape of two shapes counts for each
\* (validator.rs:112-142).
ViolationsAreExact ==
  \A c \in Conns :
    pc[c] = "clear" /\ quiet[c] /\ Unambiguous(Shapes(c)) =>
      LET S == Shapes(c)
          D == Data(c)
          syntax    == Syntax(S)
          places    == {<<t[1], t[3]>> : t \in {u \in S : u[2] = "sh:property" /\ u[3] \notin Literals}}
          foci(s)   == {f \in Nodes(D \cup S) : IsTarget(S, D, s, f)}
          reached(n, f) == EvaluatePath(syntax, Only(Objects(S, n, "sh:path")), D, f)
          found     == UNION {UNION {{<<p[1], p[2], f, b>> : b \in Violated(S, D, p[2], reached(p[2], f))} :
                                     f \in foci(p[1])} : p \in places}
      IN  /\ Len(violations[c]) = Cardinality(found)
          /\ {<<v.shape, v.focus, v.component, v.value>> : v \in Range(violations[c])}
             = {<<x[2], x[3], x[4][1], x[4][2]>> : x \in found}

\* Without a writer beside it, the values found on a path are all in the
\* relation SHACL gives the path.  Where no inverse is inside another path,
\* none is missing but literals, and those only where the path repeats or has
\* an optional step in a sequence; the closures end on every graph, cyclic ones
\* too (path.rs:141-284).
PathsAreRelations ==
  \A c \in Conns :
    pc[c] = "constraints" /\ quiet[c] =>
      LET D     == Data(c)
          pair  == Head(pairs[c])
          root  == pair[2].path
          image == {r[2] : r \in {x \in PathRelation(path[c], root, D, Nodes(D) \cup {pair[1]}) :
                                   x[1] = pair[1]}}
      IN  /\ values[c] \subseteq image
          /\ Forward(path[c], root) =>
               /\ image \ values[c] \subseteq Literals
               /\ Stepwise(path[c], root) => values[c] = image
=============================================================================
