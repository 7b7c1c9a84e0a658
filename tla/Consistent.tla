----------------------------- MODULE Consistent -----------------------------
(***************************************************************************)
(* rdf_owl_rl_consistent (src/functions/rdf_owl_rl_consistent.rs): one     *)
(* connection runs the detectors one after the other while others load     *)
(* axioms.                                                                 *)
(*                                                                         *)
(* A detector is one step: its scans and those of the list walker are      *)
(* taken together.  The records of a result are a set; sorting them makes  *)
(* the set a text and changes nothing else.                                *)
(***************************************************************************)
EXTENDS Inconsistency, OwlSemantics

CONSTANTS
  Workloads,  \* what is loaded: [axioms], a set of sets of triples, and [sig],
              \* the signature its meaning is measured with
  Caps,       \* values callers give max_violations
  Narrow      \* the types narrower than a word -> the integers each has

ASSUME CapsNat == Caps \subseteq Nat
\* What is loaded the store takes, and its terms have a place in the order.
ASSUME WorkloadsTyped ==
  \A w \in Workloads :
    /\ IsFiniteSet(UNION w.axioms)
    /\ \A t \in UNION w.axioms : WellFormed(t) /\ {t[1], t[2], t[3]} \subseteq DOMAIN Rank

\* Each narrow type has a part of the word of its family; "0" and "1" read as
\* the limits they are.
ASSUME NarrowTypes ==
  /\ \A d \in {"int", "short", "byte"} : Narrow[d] \subseteq -WordBound .. WordBound - 1
  /\ \A d \in {"unsignedInt", "unsignedShort", "unsignedByte"} :
       Narrow[d] \subseteq 0 .. 2 * WordBound - 1
ASSUME LiteralsRead ==
  /\ \A l \in DOMAIN Numeral : Numeral[l] \in Int
  /\ \A v \in {"0", "1"} \cap DOMAIN LiteralValue : LiteralValue[v] = Limit(v)

VARIABLES
  workload,   \* what is loaded
  graph,      \* the asserted and inferred graphs
  rule,       \* the detector to run next, 0 between calls
  cap,        \* options.max_violations
  all,        \* the records found so far, <<rule, s, p, o>>
  outcome,    \* how the last call ended: "none", "ok" or "error"
  seen        \* history: the graph when the last call began

vars == <<workload, graph, rule, cap, all, outcome, seen>>

TypeOK ==
  /\ workload \in Workloads
  /\ graph    \in SUBSET UNION workload.axioms
  /\ rule     \in 0..Len(InconsistencyRules)
  /\ cap      \in Caps
  /\ \A r \in all :
       r[1] \in Range(InconsistencyRules) /\ {r[2], r[3], r[4]} \subseteq DOMAIN Rank
  /\ outcome  \in {"none", "ok", "error"}
  /\ seen     \in SUBSET graph

Init ==
  /\ workload \in Workloads
  /\ graph = {}
  /\ rule = 0
  /\ cap \in Caps
  /\ all = {}
  /\ outcome = "none"
  /\ seen = {}

\* Another connection loads an axiom, whatever this one is doing.  Its
\* triples arrive together: half an axiom is no more than a smaller graph.
Load(axiom) ==
  /\ ~(axiom \subseteq graph)
  /\ graph' = graph \cup axiom
  /\ UNCHANGED <<workload, rule, cap, all, outcome, seen>>

Begin(c) ==
  /\ rule = 0
  /\ rule' = 1
  /\ cap' = c
  /\ all' = {}
  /\ outcome' = "none"
  /\ seen' = graph
  /\ UNCHANGED <<workload, graph>>

Records(name, witnesses) == {<<name, w[1], w[2], w[3]>> : w \in witnesses}

\* Defects: the cap truncates; the counter is not reset.
DetectTruncating ==
  /\ rule # 0
  /\ \E found \in Outcomes(InconsistencyRules[rule], graph) :
       LET new  == Records(InconsistencyRules[rule], found)
           last == rule = Len(InconsistencyRules)
       IN  /\ all' = IF Cardinality(all) + Cardinality(new) <= cap THEN all \cup new ELSE all
           /\ rule' = IF last THEN 0 ELSE rule + 1
           /\ outcome' = IF last THEN "ok" ELSE outcome
  /\ UNCHANGED <<workload, graph, cap, seen>>

DetectOnAndOn ==
  /\ rule \in DOMAIN InconsistencyRules
  /\ Cardinality(all) < cap
  /\ \E found \in Outcomes(InconsistencyRules[rule], graph) :
       LET new  == Records(InconsistencyRules[rule], found)
           last == rule = Len(InconsistencyRules)
       IN  /\ Cardinality(new) <= cap - Cardinality(all)
           /\ all' = all \cup new
           /\ rule' = rule + 1
           /\ outcome' = IF last THEN "ok" ELSE outcome
  /\ UNCHANGED <<workload, graph, cap, seen>>

\* Run a detector; after the last one the call returns what was found.
Detect ==
  /\ rule # 0
  /\ Cardinality(all) < cap
  /\ \E found \in Outcomes(InconsistencyRules[rule], graph) :
       LET new  == Records(InconsistencyRules[rule], found)
           last == rule = Len(InconsistencyRules)
       IN  /\ Cardinality(new) <= cap - Cardinality(all)
           /\ all' = all \cup new
           /\ rule' = IF last THEN 0 ELSE rule + 1
           /\ outcome' = IF last THEN "ok" ELSE outcome
  /\ UNCHANGED <<workload, graph, cap, seen>>

\* "violation count exceeded": with the cap reached there is no further
\* detector to run, whatever it would find; nor may one exceed the cap.
Exceeded ==
  /\ rule # 0
  /\ \/ Cardinality(all) >= cap
     \/ \E found \in Outcomes(InconsistencyRules[rule], graph) :
          Cardinality(found) > cap - Cardinality(all)
  /\ outcome' = "error"
  /\ rule' = 0
  /\ all' = {}
  /\ UNCHANGED <<workload, graph, cap, seen>>

Next ==
  \/ \E axiom \in workload.axioms : Load(axiom)
  \/ \E c \in Caps : Begin(c)
  \/ Detect
  \/ Exceeded

Spec == Init /\ [][Next]_vars

-----------------------------------------------------------------------------
\* Everything the detectors may report of a graph.
Findable(G) ==
  UNION {Records(n, UNION Outcomes(n, G)) : n \in Range(InconsistencyRules)}

\* Graphs whose growth takes no violation away: no list becomes ambiguous and
\* the hash maps of the detectors have nothing to choose.
Determined(G) ==
  /\ Unambiguous(G)
  /\ \A R \in {OnProperties(G), OnClasses(G), AssertionProperties(G),
                Pairs(G, "targetIndividual"), Pairs(G, "targetValue")} : Functional(R)

\* The graphs the store may have held since the call began.
Passed == {G \in {seen \cup UNION A : A \in SUBSET workload.axioms} : G \subseteq graph}

\* The cap never truncates in silence and never fails a call that found less:
\* a report has every record there was to find when the call began, and an
\* error means that there were cap of them while it ran.  The object may be
\* another: of several excess values the smallest is reported.
NothingTruncated ==
  /\ outcome = "ok" =>
       /\ Cardinality(all) <= cap
       /\ Determined(graph) =>
            \A r \in Findable(seen) : \E s \in all : <<s[1], s[2], s[3]>> = <<r[1], r[2], r[3]>>
  /\ outcome = "error" => Cardinality(UNION {Findable(G) : G \in Passed}) >= cap

\* What XSD says a datatype's values are, whatever words the code parses with;
\* which types have no bounds but zero; and what is no value of its type.
ValueSpace(datatype) ==
  CASE datatype = "integer"            -> Int
    [] datatype = "nonNegativeInteger" -> Nat
    [] datatype = "positiveInteger"    -> Nat \ {0}
    [] datatype = "nonPositiveInteger" -> Int \ (Nat \ {0})
    [] datatype = "negativeInteger"    -> Int \ Nat
    [] datatype = "long"               -> -WordBound .. WordBound - 1
    [] datatype = "unsignedLong"       -> 0 .. 2 * WordBound - 1
    [] OTHER                           -> Narrow[datatype]
Unbounded ==
  {"integer", "nonNegativeInteger", "positiveInteger", "nonPositiveInteger", "negativeInteger"}
IllTyped(l) ==
  \/ DatatypeOf[l] = "boolean" /\ l \notin Booleans
  \/ /\ DatatypeOf[l] \in Unbounded \cup Signed \cup Unsigned
     /\ ~(l \in DOMAIN Numeral /\ Numeral[l] \in ValueSpace(DatatypeOf[l]))

\* A graph is consistent when some interpretation makes it true and each of its
\* literals has a value.
Satisfiable(sig, G) ==
  (\A t \in G : ~Node(t[3]) => ~IllTyped(t[3])) /\ Models(sig, G) # {}

\* Integers that are values of their type and beyond the word the code parses.
BeyondWord(l) ==
  /\ l \in DOMAIN Numeral /\ DatatypeOf[l] \in Unbounded
  /\ Numeral[l] \in ValueSpace(DatatypeOf[l])
  /\ Numeral[l] \notin IF DatatypeOf[l] \in {"nonNegativeInteger", "positiveInteger"}
                         THEN 0 .. 2 * WordBound - 1 ELSE -WordBound .. WordBound - 1

\* A report is never a false alarm, whatever is loaded while the detectors run:
\* with a record in it, no interpretation makes the graph true.  The exception
\* is an integer beyond 64 bits.  Lists that became ambiguous after a detector
\* walked them say nothing any more, and a vocabulary used as OWL does not
\* intend never said anything.
FalseAlarms == {r \in all : r[1] = "dt-not-type" /\ BeyondWord(r[4])}
ReportIsSound ==
  outcome = "ok" /\ Unambiguous(graph) /\ Meaningful(workload.sig, graph) /\ all \ FalseAlarms # {}
    => ~Satisfiable(workload.sig, graph)

\* "emit one record per semantic violation": stating a symmetric axiom the
\* other way round as well adds no record, where the symmetric predicates are
\* not themselves described.
SymmetricPredicates ==
  {"disjointWith", "propertyDisjointWith", "complementOf", "differentFrom", "sameAs"}
Mirrored(G) == {<<t[3], t[2], t[1]>> : t \in {u \in G : u[2] \in SymmetricPredicates}}
Undescribed(G) == \A t \in G : {t[1], t[3]} \cap SymmetricPredicates = {}
OneRecordPerViolation ==
  outcome = "ok" /\ Undescribed(graph) => Findable(graph \cup Mirrored(graph)) = Findable(graph)
=============================================================================
