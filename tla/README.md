# Verification of sqlite-sparql

sqlite-sparql is a SQLite extension, written in Rust, that embeds the Oxigraph
quad store and adds OWL 2 RL reasoning, incremental over-deletion (DRed),
consistency checking and SHACL Core validation as SQL functions; a Ruby gem
wraps it. These TLA+ modules model its reasoning core, the SQL functions on the store
and the SHACL validator. TLC checks them on small instances and TLAPS proves the central
invariants for every instance.

Paths below are relative to the repository (`src/store.rs` is the Rust file).

## The system

| Component | State | Operations | What makes it correct |
|---|---|---|---|
| Quad store (`src/store.rs`) | one process-wide Oxigraph `Store`; every insert, remove, contains and scan is atomic by itself | insert, delete, clear, count, term parsing | callers of several atomic steps see each other's half-done work |
| Dependency index (`src/dependency_index.rs`) | two hash maps behind one process-wide mutex: derivations of an inferred quad, and the quads a premise supports | record, cascade, forget, clear, is_empty | the maps are transposes; a cascade is exact and ends |
| Materialise (`src/functions/rdf_owl_rl.rs`) | none of its own between calls | the fixpoint loop: fire every rule, flush derivations to the index, insert | sound, complete, a fixpoint, whatever was there before |
| Rule library (`.../rules.rs`, `.../rdf_lists.rs`) | none | about sixty rules, five with a variant that reports premises | each rule is the W3C rule; the variants agree |
| DRed over-deletion (`src/functions/rdf_dred.rs`) | none | is_empty, cascade, remove from store, forget | removes exactly what lost its support |
| Consistency checker (`.../inconsistency.rs`, `rdf_owl_rl_consistent.rs`) | none | seventeen detectors, a cap | reports every contradiction or fails |
| Bulk, load, dump, SPARQL (`rdf_bulk.rs`, `rdf_triple.rs`, `sparql_query.rs`) | none | several store steps and a count | counts and partial failures |
| Virtual table (`src/vtab/triples_vtab.rs`) | a copy of the store per open cursor | filter, next, insert | a scan is one snapshot |
| SHACL Core (`rdf_shacl_core*`) | the report graph | paths, constraints, clear and rewrite the report | report describes the data graph |
| Ruby gem (`ruby/lib`) | a memoised handle per model class | after_create, after_destroy hooks | records and triples agree |

Each SQLite connection runs its SQL function on its own thread. Connections share
the store and the index and nothing else, so interaction is by shared state: a
materialise writes the index and then the store, an over-deletion reads the index,
removes from the store and prunes the index, `rdf_clear` empties the index and then
the store. No lock spans two of those steps. The hard behaviours are these
interleavings, the history a single caller builds up in the index over many
retractions, a call that fails half way, and the rules themselves. `PROJECT.json`
lists each hazard with its line.

## Modules

**DependencyIndex** models `src/dependency_index.rs`. `derivations` and `reverse` are
the two maps. `Record`, `Forget` and `Clear` are one critical section each. The
cascade, whose outcome could depend on the order hash sets are iterated in, is
modelled step by step: `CascadeBegin` puts the retracted quads on the worklist in any
order, `CascadePop` takes the last and snapshots what it supports, `CascadeKeep` and
`CascadeDelete` decide one candidate, in any order, `CascadeReturn` gives the result
to the caller. `holder` is the mutex. An absent key and an empty value are the same
state. `forgotten` is a history variable.

**DependencyIndexProofs** proves its invariants (below).

**Reasoner** composes the calls on several threads: `Insert`, `Delete`, `ClearIndex` /
`ClearStore`, the `Mat...` actions of `rdf_owl_rl_materialise`, the `Od...` actions of
`rdf_dred_overdelete`. It instantiates DependencyIndex (`Index`) and every step on the
index is one of `Index`'s actions, except the read-only `is_empty`. `pc` is the
statement each call is at; between any two of them another thread may run. Rules are
abstract: a table of ground instances, each rule finding its premises with several
scans of the store. `ever`, `owed` and `retractions` are history variables.

**ReasonerProofs** proves that it implements DependencyIndex, the invariants of any number of
callers, and the properties of one caller (below).

**OwlRlRules** translates the rule library: one operator per rule or family of
symmetric rules, from a set of triples to the triples derived, plus the list walker
(`Lists`) and the tracked variants, over quads. A hash join is relational
composition. Where the code fills a `HashMap` from a randomly ordered `HashSet` and
keeps the last value, the operator returns every possible outcome
(`CardinalityOutcomes`).

**OwlSemantics** is what the rules are measured against: finite interpretations of a
small signature, which of them satisfy each axiom, and what holds in all. It
translates no code; it is the meaning the OWL 2 direct semantics gives the
vocabulary, written independently of the rules. `Meaningful` says that a graph uses the
vocabulary as OWL intends: names of individuals, classes and properties are apart, and each
predicate, and each list, relates names of its sort.

**RuleProofs** has what is true of the rules and the list walker on every graph. It begins with
induction over numbers and over ranks, and recursive functions on ranked sets, in a form the
provers can use: the library's theorems take the property as an operator, these take it as a
set. **SoundProofs** proves the rules against OwlSemantics, **MaterialiseProofs** the properties
of the loop (below).

**Materialise** is the fixpoint loop over the full rule library for one caller, who
loads axioms between calls: `Load`, `Begin`, `Iterate` (one iteration), `GiveUp`
(`max_iterations`). What other threads do within an iteration is Reasoner's subject.

**Inconsistency** translates the seventeen detectors of `rdf_owl_rl_consistent`: operators from
a graph to the witnesses reported, on top of OwlRlRules' scans, list walker and hash maps. Terms
carry a rank in place of their N-Triples form (a violation of a symmetric axiom commits to the
smaller), literals the integer they read as, and `WordBound` scales `i64` and `u64` down.

**Consistent** is the call: `Begin`, one `Detect` per detector, `Exceeded` (the cap), while other
connections `Load`. `seen` (the graph when the call began) is a history variable. The checker
never writes to the store: it has no action that could. `Satisfiable` is what a report is measured
against: an interpretation of OwlSemantics that makes the graph true, and a value for every
literal (`ValueSpace`, where `Narrow` gives the types that are narrower than a word their
integers). **ConsistentProofs** proves that the cap and the order of the call lose nothing and
that a report is never a false alarm (below).

**StoreOps** is every other SQL function on the store, and the `rdf_triples` table, called by
several connections, each with a program of calls. One call the code makes on Oxigraph (an
insert, a removal, `len`, a bulk load, an update, the evaluation of a query, a scan) is one step;
`pc` is the statement a connection is at. `Insert` to `Dump` are functions with one such step;
`LenBefore`, `LoadQuads` or `Update`, `LenAfter` are `rdf_insert_many` and `sparql_update`;
`RemoveRow`, `LoadStatement` and `Query` go through a list; `Filter`, `RowOf`, `RowFails`, `Eof`
are a cursor under a statement that writes to the store for each row. The store lists its quads in
any order. Each row is printed and parsed again (`Reread`, `RowQuad`): what is written is what the
parser makes of it, and a row it refuses (`RowFails`) ends the statement, the rows before it
applied, since the store does not roll back. What a parser refuses is `Malformed`.
`base`, `past`, `alone`, `brought` and `taken` are history variables.

**Terms** is the text of terms: `TermToNTriples` (the printer), `ParseTerm` (the crate's parser),
`TermType`, `TermValue` and `TripleObject`, and, as external code, the N-Triples parser that the
loaders and quoted triples go through.

**StoreOpsProofs** proves the invariants of StoreOps and `AloneIsAtomic` (below).

**ShaclPath** reads `sh:path` from the shapes graph (`ParsePath`, with its three outcomes: a path,
a refusal, a recursion without end) and evaluates it on the data graph (`EvaluatePath`).
**ShaclConstraints** adds the shapes, their targets (`Targets`) and property shapes, the twelve
components, and what makes them fail the call (`PropertiesReadable`, `EvaluationFails`). The
recursions are functions of one tuple: a node with those above it, or a depth, a node and a start.

**ShaclSemantics** is what the validator is measured against and translates no code: paths as
relations on nodes (`PathRelation`), closures as least sets rather than worklists, lists by their
cells, the meaning of each component (`Meets`) and what the values of a focus node violate
(`Violated`).

**ShaclValidate** is `rdf_shacl_core_validate` called by several connections beside writers. The
nested loops of `run` are `EnumerateShapes`, `ResolveTargets`, `ReadPropertyShapes`, `Parse`,
`Evaluate` and `CheckConstraints`, each with the error that can end the call there; then
`CollectReport`, `RemoveQuad` (one quad of the old report) and `EmitLine` (one of the new).
`PathOverflows` ends everything: the process is gone. `base`, `quiet`, `wrote` and `erased` are
history variables.

**ShaclProofs** proves its five properties (below).

Operators marked *Defect* are plausible mistakes in the operator that follows them.
Nothing uses them; each stands for a bug some property must notice.

## What the runs check

| Run | Instance | Shows |
|---|---|---|
| `index` | 4 quads, 4 derivations (one through itself), 2 threads, every order | the reverse map is sound, loses edges only to forgotten quads, a cascade removes only what it must and, with no edge missing, all of it; the mutex is released |
| `reasoner_one_caller` | 2 asserted, 4 inferred quads, two tracked rules and one that is not | index and store agree between calls, a fixpoint is saturated, removals were unsupported, and the first over-deletion is exact |
| `reasoner_two_callers` | 2 threads, a two-rule chain, 2 iterations | no interleaving invents facts, touches asserted quads or uses the index in a way DependencyIndex does not allow; every call returns |
| `reasoner_retract_twice` | as one caller | finding: see below |
| `reasoner_circle` | two inferred quads, each derived from the other and from an asserted one | finding |
| `reasoner_clear_race` | 2 threads | finding |
| `materialise` | 18 ontologies of 3 to 8 axioms, loaded in every order, 2 iterations per call | conclusions are entailed, entailed facts are found, order of loading and failed calls do not matter, the list walker is exact, tracked variants agree with the plain rules, a second call derives nothing |
| `materialise_second_call` | one class restricted on two properties | finding |
| `consistent` | 9 ontologies of 3 to 6 axioms, one per group of detectors, loaded in every order, also while the detectors run; caps 0, 1, 2 and 9 | a report is never a false alarm, an empty one means the graph has a model, the cap loses nothing in silence and fails no call that found less, symmetric axioms stated twice add no record |
| `store_calls` | two connections, every call beside every other and, on one store, beside two changes; a dump loaded again beside every call and for every small term | an undisturbed call is atomic and its number is right; credits, failed calls and answers are right in every interleaving; a failed load or scan leaves a prefix; which printed terms can be written back |
| `store_dump_loads` | as `store_calls` | finding |
| `shacl` | twelve paths over all 256 subsets of a cyclic data graph, twelve components over 128 value graphs, 27 failing calls, 18 pairs of concurrent calls | paths are relations, violations are exact, the report is the answer, a failing call keeps the old report |

### Bounds

*index*: a self-supporting derivation, a quad with several derivations and a derivation
through another inferred quad are the shapes the cascade's loop distinguishes; two
threads are enough for a cascade, a pending result and a writer. The maps are finite
functions of four quads, so nothing is cut off: the state space is complete.

*reasoner*: `MaxIterations` is the program's option (default far larger); 3 lets the
diamond reach its fixpoint and 2 makes it fail in the chain. `CountedRetractions` bounds
a history counter only: 2 tells the first over-deletion from later ones, 0 leaves it
out where no property asks. One scan is one step; the tests for presence after a rule's
last scan are taken together.

*materialise*: `MaxIterations = 2` makes some workloads fail and continue, the deeper ones
several times over, and lets others finish; the ontologies are one per group of rules with at most three individuals, and between them
each rule fires and has to. Domain sizes of interpretations are the number of
individuals (2 or 3): a larger domain can only refute more entailments, so the run alone could
miss an unsound rule, which the proof for every size (`RulesAreSoundHolds`) excludes;
completeness against a small domain is the stricter test. `meaningful` workloads use the
vocabulary as OWL intends, which `MeaningIsMeant` makes TLC verify; `complete` names the
predicates whose assertions the rules promise to find.

*consistent*: two individuals are enough for every detector but the list ones, whose lists have
two members; between them the workloads make each of the seventeen detectors report. The caps
are those around the numbers of records the workloads have: none, one, two and more than all.
`WordBound = 8` puts one literal beyond the word, one beyond its narrow type (`Narrow`) and zero at
the edge of `positiveInteger`. Every workload is `Meaningful`.

*store_calls*: what a call can meet is another call between any two of its steps; two
connections give every pair, and the runs with two calls beside one let the store change and
change back. The triples have one subject and one predicate: the code never compares them
otherwise than as a whole. `MaxLength = 2` over nine characters has a quote, a backslash, a
bracket or an `n` after a backslash at every place of a literal that its length allows. Of the
stores that are scanned, one holds a quoted triple the parser refuses (`SD`), at any place among
the rows, and one a quoted triple it takes for another (`ND`). Each
connection has a finite program, so all counters are bounded by it.

*shacl*: three nodes and two literals with both predicates, on a cycle, reach every branch of the
path evaluator; the paths nest two deep. `MaxNodes = 26` is more blank nodes than a
connection of these workloads makes (`ReportCleared` would stop at it). Numbers, lengths and
matches of the few literals are tables. The graphs are small, so the run alone could miss what a
longer cycle, a deeper path or a larger shapes graph does; the proofs are for all of them.

Deadlock is checked in every run except `store_calls`, `store_dump_loads` and `shacl`, whose
programs are finite (and in `shacl` a stack overflow stops everything); elsewhere a caller can
always call again.

### Fairness

*index* assumes weak fairness of the cascade's step: it is a loop run by a thread
inside the process, which nothing in the code blocks. *reasoner_two_callers* assumes a
call that has begun is run on by its thread (strong fairness of `Step(t)`, since a
mutex that other threads take and give back must eventually be won) and weak fairness
of the cascade. Nobody is assumed to call anything.

### Findings

Each is a run whose property, quoted from a document or comment, TLC refutes.

* **Two retractions** (`InferredSupported`): a derivation broken by one over-deletion
  stays recorded on a quad that survives it, and the next over-deletion, whose set of
  removed quads starts afresh, takes it for alive. A quad whose two derivations are
  broken one after the other is never removed. `FirstRetractionExact` is what does hold.
* **A circle keeps itself alive** (`OverdeleteIsFullCycle`): the cascade removes a quad once each
  of its derivations has lost a premise to a quad already removed. Two inferred quads that each
  have a derivation from the other never get there: when their last asserted support is
  retracted, already the first over-deletion keeps both, and materialising again takes nothing
  away. `scm-sco`, `scm-spo` and `eq-trans`, all tracked, derive such circles from cyclic
  hierarchies and from `owl:sameAs`.
* **Clear and materialise** (`IndexMatchesStore`): cleared "in lockstep" means two steps.
* **A second call derives more** (`FixpointContract`): of several `owl:onProperty` values
  the cardinality rules keep one, whichever a randomly seeded hash map kept.
* **A dump that does not load** (`DumpLoads`): `term_to_ntriples` escapes nothing, and the loaders
  parse real N-Triples, so a literal with a quote, a backslash or a line end is refused or read
  as another literal. Within the crate's own parser, which looks for the last quote, the text
  of a term that is no quoted triple round-trips; that of a quoted triple does not, because it goes
  through the N-Triples parser there, too (`SqlTermsRoundTrip` says exactly which terms do).

Disagreements with the documents and comments that no run states:

* A cascade need not be closed: `forget` drops a quad's whole reverse entry, and `record` returns
  early for a derivation it already has, so an edge is missing for good once the quad is derived
  again; the comment at `dependency_index.rs:100-104` calls what `forget` leaves behind harmless.
  `EdgesLostOnlyByForget` bounds the loss, `CascadeComplete` says when it does not matter, and
  until something was forgotten every cascade is closed (`CascadeResultClosed` in
  DependencyIndex, which `FirstRetractionExact` rests on).

* Quoted triples whose literal has a quote, a backslash or a line end do not "round-trip through
  every read and write path" (README.md:569-570, 607-613). `rdf_triple_object` does not return the
  object of such a one. A row of `rdf_triples` with it, handed to `rdf_delete`, stops the statement,
  the earlier rows deleted, or deletes another quad than the row's. `SqlTermsRoundTrip`,
  `FailuresLeaveAPrefix` and `AloneIsAtomic` say what the code does.
* README.md:302 has the report graph "cleared before each call"; the code clears it after the
  violations were computed, right before it writes the new report, as README.md:285 says, so a call
  that fails earlier keeps the old report (`FailuresKeepTheReport`).
* `inferred_iri` does not restrict what an over-deletion removes (`rdf_dred.rs:74`), although
  `docs/plans/PLAN_0.12.0.md:110-112` says it removes "from `inferred_iri`".
* The hash maps of the cardinality rules are in the detectors, too, so two checks of one graph
  need not return the byte-identical JSON that README.md:366-368 promises; `Outcomes` is all they
  can return, and *consistent* checks each.
* The comment on `ValidateOptions::provenance` (`rdf_shacl_core.rs`) speaks of an RDF-star annotation;
  the code writes two plain triples on the result node.

Exceptions the properties of *consistent* name, so that a reader knows them: a term that
contradicts itself (`C owl:disjointWith C`, a loop of an asymmetric property) is skipped by
design, although no model satisfies a graph that uses it; an `xsd:integer` beyond 64 bits
is reported although it is valid (`FalseAlarms`); a value beyond a narrow type (`xsd:byte`) but
within 64 bits is not reported. A call that has exactly `max_violations` records before its last
detector fails, and a cap of 0 always fails; `NothingTruncated` allows that. A graph can also grow
so that a violation is no longer found: a list becomes malformed, or one of the hash maps keeps
another value (`Determined` excludes both), and of several excess values another is the smallest,
so the object of a record may differ. `OneRecordPerViolation` leaves out graphs that describe the
symmetric predicates themselves (`Undescribed`), such as one that declares `owl:sameAs` functional.
A literal is modelled by the integer it reads as, so forms of one value that the code reads
differently are out of reach: `-0` is a `xsd:nonNegativeInteger`, but parsing it as `u64` fails
(`inconsistency.rs:831`).

Exceptions the properties of *shacl* name: `sh:zeroOrMorePath` never returns a literal, and
`sh:oneOrMorePath` only one of the first step; the inverse of anything but a predicate (or of an
inverse, which cancels) leads nowhere, and a literal in the middle of a sequence is not walked
back from. A provenance IRI that does not parse is noticed after the old report is gone, whether
or not provenance is on. Two validations into one report graph may leave the quads of both: each
wrote a complete report (`ReportIsTheAnswer`), but the graph is nobody's. A report written into
the data or the shapes graph replaces it.

`AloneIsAtomic` is the strongest statement about counts that holds: beside another connection the
difference of two `len` is about everybody's changes, and only `rdf_delete_many`'s count stays
the caller's own (`CreditsAreOwn`). `rdf_insert` and `rdf_delete` always return 1. Of a scan that
writes it says that every row is written back as it is parsed, and that the statement fails if and
only if the store held a row the parser refuses; which rows were applied by then depends on the
order in which the store lists them.

What the properties bound but do not exclude, because the code does it: an over-deletion can
forget a derivation that another connection recorded since its cascade, and records are flushed
before their quads are inserted; `NoInventedFacts`, `IndexSpec` and `AssertedUntouched` allow both,
and only `IndexMatchesStore` would notice, which holds of one caller. Two checks of one graph may
differ, two validations may mix their reports, and a bad provenance IRI loses the old report.

`IncrementalIsBatch` has two exceptions worth knowing. If `eq-rep-o` or a later load gives a
list node a second `rdf:first` or `rdf:rest`, the walker rejects the list, and conclusions
already drawn from it stay although a single call on the whole graph would not draw them
(`Unambiguous`). And where a class is restricted on two properties, what is derived depends on
what the hash maps kept in each iteration (`SingleValued`).

## What is proved

`DependencyIndexProofs`, for every finite set of quads, every set of derivations and
every set of threads; the assumptions are those named in DependencyIndex
(`QuadsFinite`, `FiringsTyped`, `FreeNotCaller`):

* `TypeCorrect`, `ReverseSoundHolds`, `EdgesLostOnlyByForgetHolds`: each by induction on
  steps from `TypeOK`. `Record` and `Forget` are the interesting cases: an early return
  must leave a consistent reverse map, and `forget` must not keep a pointer into a quad
  whose derivations are gone.
* `CascadeSoundHolds`, `CascadeCompleteHolds`, `OverDeletedIsInferredHolds`: all three from
  the loop invariant `CascadeInv`, which holds while a thread is inside the cascade. None
  of the three is inductive alone. The invariant adds that a quad whose every derivation
  is broken and whose edges are all present is *scheduled*: it is a candidate, or a premise
  still on the worklist leads to it. When the loop ends nothing is scheduled, hence
  the result is closed. The maps do not change during a cascade because the mutex
  is held, which is where the code's locking enters the proof.
* `RecordOneByOne`, `ForgetOneByOne`: the model records and forgets a set in one step, the
  code one element at a time in hash order; these show the order cannot matter.
  The second needs `ReverseSound`.

`ReasonerProofs`, for every set of quads, rule table, tracked rules, iteration limit and set
of threads; the assumptions are those named in Reasoner (`QuadsFinite`, `RulesTyped`,
`GraphsTyped`, `OptionsTyped`, `FreeNotThread`; `RulesReadTheirGraphs` is not needed):

* `ImplementsIndex`: every step of a call is a step of DependencyIndex or leaves its
  variables alone, given the types of what the calls pass on (`CallTypesHold`): what
  materialise records are firings, what an over-deletion forgets is what a cascade
  returned to it. So every theorem about the index is one about the composed system;
  `TypeCorrect` takes the types of the index from there.
* `NoInventedFactsHolds`, from `OnlyKnown`: not the store alone but also what a rule has
  scanned and what waits to be inserted is known, that is asserted at some time or derivable
  from such quads. `NoInventedFacts` alone is not inductive, because a rule joins what it
  found earlier, possibly deleted since. That derivability is monotone
  (`DerivableMonotone`) and closed under a rule (`DerivableStep`) is proved on the way.
* `AssertedUntouchedHolds`, from `OnlyInferred`: the index has derivations of inferred quads
  only, so a cascade result, and hence what is removed, is inferred.

Also in `ReasonerProofs`, the properties of a single caller (`OneCaller`), for every rule table.
A model with one thread still has every step of every call, and any history of calls:

* `FixpointIsSaturatedHolds`: a call that returns at a fixpoint leaves nothing a rule could add.
  `Settled` says what each statement of a call leaves unused, `Evaluated` that a rule's scans
  found the quads of the store as it is now (`RulesScanTheirPremises`: they look for every premise)
  and that what the earlier rules fire is in the batch.
* `OnlyUnsupportedRemovedHolds`: `Justified` says, at each statement from the cascade to the
  removal, that every derivation of what is to go uses a premise or something else that goes.
* `IndexMatchesStoreHolds`, for callers that always track (`AlwaysTracks`; quads materialised
  without tracking have no derivations at all): `Described` relates the maps, the store and what
  is on its way between them at each statement.
* `FirstRetractionExactHolds`, with at least two counted retractions: until the first
  over-deletion returns nothing was forgotten, so the reverse map has every edge and the cascade's
  result is closed (`CascadeResultClosed`). `Standings` then says which derivations of a quad
  stand at each statement of the over-deletion.

`StoreOpsProofs`, for every number of connections, every program of calls and every set of triples
and graphs (`MalformedApart`, `FiniteData`, `ReparsedTyped`, `RereadTyped`, `WorkloadsTyped`): `StoreTypes`,
`CreditSafety`, `PrefixSafety` and `MomentSafety`, all from one inductive invariant, `StoreInv`.
None of the four is inductive alone. `StoreInv` adds for each connection which statement its call
can be at (`Stage`), that the store is among the moments of a running call (`Moment`), that a local
count equals the history's `taken`, or is at least `brought`, while the loop still runs
(`Credit`), and (`Leaves`) that a call which goes through no list has changed nothing before the
statement that may fail, that one which does has made at most one change for each element behind
it, and that the rows a scan is past were readable and written back (`ScanPrefix`). The
induction has one step per action of the calling connection and one lemma for what the others'
steps leave alone: another connection changes the store but only ever adds to `past`.
`DumpIsTheStore` and `ListedOnce` (any listing of the store, a member of the community modules'
`SetToSeqs`, has each quad once) give the rows of a dump and of a scan.

`AtomicSafety` is the fifth, an action property: `AloneIsAtomic` compares the step that ends a call
with the store the call began on. Its invariant, `AloneInv`, is `StoreInv` and, for each call that
nobody has disturbed, what it has made so far (`SoFar`) and counted so far (`Tally`): a removal
loop has taken away exactly the rows before the current one, and counted those that were there; a
load has put in exactly the statements before the current one, none of them malformed, so that the
statement it fails at is the first error (`GoodIs`); a cursor's rows are the store the call began
on, so a statement that writes as it scans neither misses a row nor meets one it wrote, and has
written back exactly the rows before the current one (`OneMoreRow`) until one cannot be read.
Between the two counts of a batch or an update the first is the size of the store it began on,
so the difference is the rows that were new (`LenAfterAdvances`), with no clamping.

`RuleProofs` and `MaterialiseProofs`, for every graph, every set of workloads and every
iteration limit; the assumptions are those of OwlRlRules and Materialise (`VocabularyIsIris`,
`DatatypesAreIris`, `BuiltinsFinite`, `AxiomsWellFormed`, `IterationsNat`):

* `ListsExact`: the walker, a recursion over the nodes not yet seen, finds exactly the sequences
  that `ListValues` describes as paths. Each list found is such a path, by induction on what is
  unseen; each path is walked, because its nodes are distinct; and the pigeonhole principle
  bounds its length by the number of nodes.
* `RulesGrow`: a larger graph derives no less, for each of the sixty rules, as long as no list
  becomes ambiguous and the hash maps have nothing to choose.
* `TypeCorrect`: rules write only triples the store takes, over the terms that were loaded, the
  vocabulary and datatypes; one lemma per rule. Finite terms make the loop's state finite
  (`IInv` adds that to the types).
* `WalkListExactHolds` and `TrackingIsFaithfulHolds` hold in every state by `ListsExact` and the
  definitions of the joins.
* `FixpointContractHolds`, for behaviours in which no class ever has two `owl:onProperty` or
  `owl:onClass` values (`[]SingleValued`; without it the property is the finding above). Its
  invariant is `Saturated`: at a fixpoint every outcome of the rules is already inferred.
* `IncrementalIsBatchHolds`: what is inferred stays within every set closed under the rules
  (`Least`, from `RulesGrow`) and is closed at a fixpoint (`Closed`); `FromScratch` is a recursive
  function that grows a set of triples to such a closed set, by induction on what is missing.

`SoundProofs` and `MaterialiseProofs`, for every graph, signature and size of the domain
(`MeaningIsMeant` besides the assumptions above, of which it is what `meaningful` stands for: the
axioms a workload may load are finite, have unambiguous lists and are `Meaningful`):

* `RulesAreSoundHolds`: in every state, also in the middle of a call, every inferred triple is true in
  every interpretation in which the graph is. Its invariant is `DerivedSound`: every inferred
  triple is `Sound`, that is true and used as OWL intends. Truth alone is not inductive, because
  the truth of some triples depends on others (a restriction on its `onProperty`, an intersection
  on its list), so a derived triple could change what an earlier one says. The rules derive such
  triples only by replacing an individual by an equal one, which can touch the values of a
  restriction and the members of a list (`Soft` predicates) but no link to a property, a filler or
  the rest of a list (`Rigid` ones), so restrictions and lists mean what they meant when loaded
  (`Framed`). Loading more keeps all of it: fewer interpretations are left, as long as no list
  becomes ambiguous (`FewerAxioms`, `SoundForMore`).
* `RulesSound` is the step: one lemma per rule or family of rules, sixty rules in all, each from
  the definition of the join and the truth of its premises.

`ConsistentProofs`, for every set of workloads and caps, every rank of terms and every word size
(`RankOrders`, `WorkloadsTyped`, `CapsNat`, `WordPositive` besides those of OwlRlRules):

* `TypeCorrect` and `NothingTruncatedHolds`, from `TypeOK`, `Loaded` (the graph is among those
  that passed since the call began) and `Progress`: while the call runs, `all` has fewer than the
  cap, holds only records that a graph which passed admits, and has, where `Determined`, a record
  for each one findable in `seen` by a detector that has run. A detector may have looked at any
  graph between `seen` and the current one, so `DetectorsGrow` (each of the seventeen reports, for
  a larger graph, the subject and predicate it reported before, by `Covers`) does the work; counts
  add up because records of different detectors differ.
* `OneRecordPerViolationHolds`: mirrored axioms leave the lists, maps and instances of the graph
  as they were, and change the symmetric relations only by their converse, of which each
  detector keeps one pair.
* `ReportIsSoundHolds`, for every size of the domain and every part of the word that a narrow type
  may have (`NarrowTypes`, `LiteralsRead`), and for graphs that use the vocabulary as OWL intends
  and whose lists are unambiguous. In a graph that some interpretation makes true sixteen detectors find nothing
  (`DetectorsQuiet`, one lemma per group), and a literal that the seventeenth reports has no
  value, unless it is an integer beyond the word (`ReportedLiterals`). The report mixes moments,
  but by `Progress` each record was found in a graph that is a part of the current one, which is
  true wherever the current one is (`FewerAxioms`).

`ShaclProofs`, for all terms, graphs, literal tables, numbers of connections and programs,
whoever writes meanwhile. The assumptions are those named in the modules: the vocabulary is made of IRIs
and the kinds of terms are apart, a store is finite, and new blank nodes are new
(`NodesTyped`: `Fresh` never repeats, which is what Oxigraph's random identifiers are for). The
five invariants are stacked, each proved once and used by those after it:

* `Typing`, by `TypeInv`: types, the finiteness of everything read, and, by stage, what a call must
  have at hand (a shape before targets, a pair before a path, nodes enough for the report). That
  the evaluator ends on every graph is in the types: its recursions are solved over a rank (`TreeSolved`,
  `ValueSolved`), so a path has finitely many terms for its values.
* `FailureSafety`, by `ReportInv`: what has been written and removed at each stage. Nothing up to
  `clear`, quads of the report graph only during `remove`, and during `emit` exactly the lines before
  the current one, so that where a provenance IRI is refused it is the header.
* `ReportSafety`, by `AnswerInv`: what is written is a prefix of the blocks of the report, and for
  a quiet call, one that nobody wrote beside, it is all the report graph holds. `ReportIs` then
  reads the answer off the blocks: results have nodes of their own because `Fresh` is
  injective, which is also what makes `sh:result` links as many as violations.
* `PathSafety`, by `PathInv`, which only says which path a call is at and on what graph. The work is
  in `StepMeans`: a path node means its relation if its parts do and, for an inverse, if their
  parts do. Three notions are needed, because the code loses literals at some operators: `Sound`
  (nothing outside the relation), `Complete` (all but literals) and `Exact`; the first holds for
  every path, the others for sets of operators (`Means`). Worklists meet least sets in
  `ReachedLeast`.
* `ViolationSafety`, by `DoneInv`: the violations so far are a list without repetition of what is
  found at the work done, where work is a shape, a property shape of it and a focus node, and what
  is left is told by the loops' variables (`Left`). The order of the shapes, the pairs and
  the results is arbitrary. `ResultsWrong` relates each of the twelve components to its
  meaning, `MembersAre` lists to their cells.

The last two speak of calls nobody wrote beside (`quiet`): a validation reads the store in many
steps, and what it finds while others write is of no single graph. `Unambiguous` excludes shapes
graphs whose property shapes set a parameter twice or whose lists fork: of two values the code
takes whichever the store has first. A path under which an inverse has something other than a
predicate or an inverse is outside completeness, not soundness.

Only model-checked: liveness (`CascadeTerminates`, `CallsReturn`), which is out of the
prover's reach; the rest of what relates rules and detectors to the meaning of the vocabulary
(`RulesAreComplete`, `EmptyReportIsConsistent`), completeness for the workloads and not for all
ontologies, for which neither rules nor detectors promise it; and `SqlTermsRoundTrip` of Terms,
which is induction over the characters of a literal.

## What is not modelled, and why

* Quoted triples (RDF-star) as terms and the provenance annotations built from them: the
  rules treat them as opaque nodes, and the annotations change no conclusion except through
  `eq-ref`, whose non-convergence the code documents (`rules.rs:242-246`).
* Option and argument parsing, error wording, SQL registration, the Oxigraph internals. A bulk
  load, an update and the evaluation of a query are one step each, because Oxigraph makes them
  transactions or reads a snapshot.
* `dt-eq` and `dt-diff`, which derive nothing.
* Quoted triples within quoted triples: the printer and the external parser recurse on them alike.
* Storage errors (`StoreError`): the store is in memory and the code has no path that recovers.
* In SHACL, the scans within one read phase are one step (all of a shape's targets, all of one
  path), the message and the time stamp are one literal each, and floating point is the order of
  a few numbers and a NaN.
* The Ruby gem: its callbacks call methods that the application defines and everything else
  forwards to a SQL function, so there is no state of its own to model but a memoised handle.
* Errors and registration have no state.

## Plan

1. DependencyIndex and its proofs: done.
2. Reasoner: done; composes DependencyIndex and is shown to implement it.
3. OwlRlRules, OwlSemantics, Materialise: done.
4. Inconsistency, Consistent: done.
5. StoreOps, Terms and the proofs of StoreOps: done.
6. ShaclPath, ShaclConstraints, ShaclSemantics, ShaclValidate: done.
7. Proofs of Reasoner for one caller, of the rules and the loop, of the checker, and of the
   soundness of both: done.
8. Proofs of the SHACL validator, down to the meaning of paths and components: done.
9. Left: `SqlTermsRoundTrip`, and completeness of the rules (`RulesAreComplete`) for a class of
   ontologies.
