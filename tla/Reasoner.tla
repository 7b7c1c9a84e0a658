------------------------------ MODULE Reasoner ------------------------------
(***************************************************************************)
(* The incremental reasoning loop: rdf_owl_rl_materialise,                 *)
(* rdf_dred_overdelete, rdf_clear, rdf_insert and rdf_delete called by     *)
(* several threads (one per SQLite connection) on one process-wide store   *)
(* and one process-wide dependency index.                                  *)
(*                                                                         *)
(* A quad stands for a triple in one graph.  A rule is the set of its      *)
(* ground instances, [inferred, premises] records over quads: the premises *)
(* lie in the asserted graph or in the graph being written, the conclusion *)
(* always in the graph being written.  The rule finds its premises with    *)
(* several scans of the store, one graph and one pattern at a time.        *)
(*                                                                         *)
(* One call on the store (insert, remove, clear, or one scan) and one      *)
(* critical section of the index is one action, so any other thread may    *)
(* run in between; only the tests for presence that follow the last scan   *)
(* of a rule are taken together.  The steps of a cascade are those of   *)
(* DependencyIndex, instantiated below.                                    *)
(***************************************************************************)
EXTENDS Naturals, FiniteSets, Sequences, SequencesExt

CONSTANTS
  Quads,           \* every quad: asserted ones and conclusions
  Assertable,      \* the quads callers insert and delete
  InferredGraphs,  \* graphs materialise may be asked to write
  GraphOf,         \* conclusion -> the inferred graph it lies in
  RuleTable,       \* rules in table order: [scans, instances]; each scan the
                   \* quads its pattern and graph select
  TrackedRules,    \* positions in RuleTable with a tracked variant
  TrackOptions,    \* values callers give track_dependencies
  MaxIterations,   \* the max_iterations option
  CountedRetractions, \* bound of the history `retractions`; 2 tells one
                   \* over-deletion from several, 0 saves states
  Threads,
  Free

Conclusions == Quads \ Assertable
Firings     == UNION {RuleTable[i].instances : i \in DOMAIN RuleTable}

ASSUME QuadsFinite    == IsFiniteSet(Quads) /\ Assertable \subseteq Quads
ASSUME RulesTyped     ==
  /\ RuleTable \in Seq([scans : Seq(SUBSET Quads),
                        instances : SUBSET [inferred : Conclusions, premises : SUBSET Quads]])
  /\ RuleTable # << >>
\* A rule finds each premise with one of its scans.
ASSUME RulesScanTheirPremises ==
  \A i \in DOMAIN RuleTable : \A f \in RuleTable[i].instances : \A p \in f.premises :
    \E k \in DOMAIN RuleTable[i].scans : p \in RuleTable[i].scans[k]
ASSUME GraphsTyped    == GraphOf \in [Conclusions -> InferredGraphs] /\ InferredGraphs # {}
\* graphs_to_query: a rule sees the asserted graph and the one it writes.
ASSUME RulesReadTheirGraphs ==
  \A f \in Firings : \A p \in f.premises \ Assertable : GraphOf[p] = GraphOf[f.inferred]
ASSUME OptionsTyped   == /\ TrackedRules \subseteq DOMAIN RuleTable
                         /\ TrackOptions \subseteq BOOLEAN
                         /\ MaxIterations \in Nat /\ CountedRetractions \in Nat
ASSUME FreeNotThread  == Free \notin Threads

VARIABLES
  \* the dependency index, see DependencyIndex
  derivations, reverse, holder, retracted, removed, worklist, candidates,
  overDeleted, pending, forgotten,
  store,        \* the quads in the store
  pc,           \* per thread: the statement its SQL call is at
  graph,        \* per thread: the inferred_iri argument
  track,        \* per thread: options.track_dependencies
  iteration,    \* per thread: materialise's iteration counter
  rule,         \* per thread: the rule evaluated next
  scan,         \* per thread: how many of its scans are done
  found,        \* per thread: the quads they found
  batch,        \* per thread: new_quads to insert, or cascade quads to remove
  toRecord,     \* per thread: derivations to hand to the index
  premises,     \* per thread: rdf_dred_overdelete's retracted premises
  ever,         \* history: quads asserted at any time
  owed,         \* history: deleted premises not yet over-deleted
  retractions   \* history: over-deletions begun, up to CountedRetractions

Index == INSTANCE DependencyIndex WITH Callers <- Threads

indexMaps  == <<derivations, reverse, forgotten>>
indexVars  == <<indexMaps, holder, retracted, removed, worklist, candidates,
                overDeleted, pending>>
scanVars   == <<scan, found>>
matVars    == <<track, iteration, rule, scanVars, toRecord>>
callVars   == <<pc, graph, batch, premises, matVars>>
history    == <<ever, owed, retractions>>
vars       == <<indexVars, store, callVars, history>>

Statements == {"idle", "loop", "fire", "flush", "insert", "check", "cascade",
               "cascading", "remove", "forget", "clear_store"}

-----------------------------------------------------------------------------
TypeOK ==
  /\ Index!TypeOK
  /\ store       \in SUBSET Quads
  /\ pc          \in [Threads -> Statements]
  /\ graph       \in [Threads -> InferredGraphs]
  /\ track       \in [Threads -> BOOLEAN]
  /\ iteration   \in [Threads -> 0..MaxIterations]
  /\ rule        \in [Threads -> 1..(Len(RuleTable) + 1)]
  /\ scan        \in [Threads -> Nat]
  /\ found       \in [Threads -> SUBSET Quads]
  /\ batch       \in [Threads -> SUBSET Quads]
  /\ toRecord    \in [Threads -> SUBSET Firings]
  /\ premises    \in [Threads -> SUBSET Assertable]
  /\ ever        \in SUBSET Assertable
  /\ owed        \in SUBSET Assertable
  /\ retractions \in 0..CountedRetractions

Init ==
  /\ Index!Init
  /\ store = {}
  /\ pc = [t \in Threads |-> "idle"]
  /\ graph \in [Threads -> {CHOOSE g \in InferredGraphs : TRUE}]
  /\ track = [t \in Threads |-> FALSE]
  /\ iteration = [t \in Threads |-> 0]
  /\ rule = [t \in Threads |-> 1]
  /\ scan = [t \in Threads |-> 0]
  /\ found = [t \in Threads |-> {}]
  /\ batch = [t \in Threads |-> {}]
  /\ toRecord = [t \in Threads |-> {}]
  /\ premises = [t \in Threads |-> {}]
  /\ ever = {}
  /\ owed = {}
  /\ retractions = 0

Goto(t, statement) == pc' = [pc EXCEPT ![t] = statement]

-----------------------------------------------------------------------------
(* Calls that are one step: rdf_insert, rdf_delete.                        *)

Insert(t, q) ==
  /\ pc[t] = "idle"
  /\ q \notin store
  /\ store' = store \cup {q}
  /\ ever' = ever \cup {q}
  /\ owed' = owed \ {q}
  /\ UNCHANGED <<indexVars, callVars, retractions>>

Delete(t, q) ==
  /\ pc[t] = "idle"
  /\ q \in store
  /\ store' = store \ {q}
  /\ owed' = owed \cup {q}
  /\ UNCHANGED <<indexVars, callVars, ever, retractions>>

-----------------------------------------------------------------------------
(* rdf_clear: the index first, then the store.                             *)

ClearIndex(t) ==
  /\ pc[t] = "idle"
  /\ Index!Clear
  /\ Goto(t, "clear_store")
  /\ UNCHANGED <<store, graph, batch, premises, matVars, history>>

ClearStore(t) ==
  /\ pc[t] = "clear_store"
  /\ store' = {}
  /\ owed' = {}
  /\ Goto(t, "idle")
  /\ UNCHANGED <<indexVars, graph, batch, premises, matVars, ever, retractions>>

-----------------------------------------------------------------------------
(* rdf_owl_rl_materialise.                                                 *)

MatBegin(t, g, tracking) ==
  /\ pc[t] = "idle"
  /\ graph' = [graph EXCEPT ![t] = g]
  /\ track' = [track EXCEPT ![t] = tracking]
  /\ iteration' = [iteration EXCEPT ![t] = 0]
  /\ Goto(t, "loop")
  /\ UNCHANGED <<indexVars, store, batch, premises, rule, scanVars, toRecord, history>>

\* Defects of the loop head below: one iteration too many; iterations are not
\* counted.
MatIterateOnceMore(t) ==
  /\ pc[t] = "loop"
  /\ iteration[t] <= MaxIterations
  /\ iteration' = [iteration EXCEPT ![t] = @ + 1]
  /\ rule' = [rule EXCEPT ![t] = 1]
  /\ Goto(t, "fire")
  /\ UNCHANGED <<indexVars, store, graph, batch, premises, track, scanVars, toRecord, history>>

MatIterateUncounted(t) ==
  /\ pc[t] = "loop"
  /\ iteration[t] < MaxIterations
  /\ rule' = [rule EXCEPT ![t] = 1]
  /\ Goto(t, "fire")
  /\ UNCHANGED <<indexVars, store, graph, batch, premises, track, iteration, scanVars, toRecord, history>>

\* The head of the loop: one more iteration, unless the limit is used up.
MatIterate(t) ==
  /\ pc[t] = "loop"
  /\ iteration[t] < MaxIterations
  /\ iteration' = [iteration EXCEPT ![t] = @ + 1]
  /\ rule' = [rule EXCEPT ![t] = 1]
  /\ Goto(t, "fire")
  /\ UNCHANGED <<indexVars, store, graph, batch, premises, track, scanVars, toRecord, history>>

\* "fixpoint not reached": the call fails and keeps what it has inserted.
MatGiveUp(t) ==
  /\ pc[t] = "loop"
  /\ iteration[t] = MaxIterations
  /\ iteration' = [iteration EXCEPT ![t] = 0]
  /\ Goto(t, "idle")
  /\ UNCHANGED <<indexVars, store, graph, batch, premises, track, rule, scanVars, toRecord, history>>

\* One scan of the rule being evaluated.
MatScan(t) ==
  /\ pc[t] = "fire"
  /\ scan[t] < Len(RuleTable[rule[t]].scans)
  /\ scan' = [scan EXCEPT ![t] = @ + 1]
  /\ found' = [found EXCEPT ![t] = @ \cup (store \cap RuleTable[rule[t]].scans[scan'[t]])]
  /\ UNCHANGED <<indexVars, store, pc, graph, batch, premises, track, iteration, rule, toRecord, history>>

\* Defects: a rule reads the asserted graph only; a premise is not looked up.
FiredFromAsserted(i, g, Q) ==
  {f \in RuleTable[i].instances : GraphOf[f.inferred] = g /\ f.premises \subseteq Q \cap Assertable}
FiredUnchecked(i, g, Q) == {f \in RuleTable[i].instances : GraphOf[f.inferred] = g}

\* The instances of a rule that fire: premises found, writing graph g.
Fired(i, g, Q) ==
  {f \in RuleTable[i].instances : GraphOf[f.inferred] = g /\ f.premises \subseteq Q}

\* Join what the scans found.  Conclusions missing from the graph are queued;
\* a tracked rule queues every derivation it found, also of quads present.
MatFire(t) ==
  /\ pc[t] = "fire"
  /\ scan[t] = Len(RuleTable[rule[t]].scans)
  /\ LET fired == Fired(rule[t], graph[t], found[t])
     IN  /\ batch' = [batch EXCEPT ![t] = @ \cup ({f.inferred : f \in fired} \ store)]
         /\ toRecord' = [toRecord EXCEPT
              ![t] = IF track[t] /\ rule[t] \in TrackedRules THEN @ \cup fired ELSE @]
  /\ rule' = [rule EXCEPT ![t] = @ + 1]
  /\ scan' = [scan EXCEPT ![t] = 0]
  /\ found' = [found EXCEPT ![t] = {}]
  /\ Goto(t, IF rule[t] = Len(RuleTable) THEN "flush" ELSE "fire")
  /\ UNCHANGED <<indexVars, store, graph, premises, track, iteration, history>>

\* Flush the derivations to the index, before anything is inserted and
\* before asking whether the fixpoint is reached.
\* Defect: the maps are written without taking the mutex.
FlushUnlocked(t) ==
  /\ derivations' = Index!RecordedDerivations(derivations, toRecord[t])
  /\ reverse' = Index!RecordedReverse(derivations, reverse, toRecord[t])
  /\ UNCHANGED <<forgotten, holder, retracted, removed, worklist, candidates,
                 overDeleted, pending>>

FlushToIndex(t) ==
  \/ toRecord[t] = {} /\ UNCHANGED indexVars
  \/ Index!Record(toRecord[t])

MatFlush(t) ==
  /\ pc[t] = "flush"
  /\ batch[t] # {}
  /\ FlushToIndex(t)
  /\ toRecord' = [toRecord EXCEPT ![t] = {}]
  /\ Goto(t, "insert")
  /\ UNCHANGED <<store, graph, batch, premises, track, iteration, rule, scanVars, history>>

\* Nothing new: the fixpoint, and the call returns.
MatFixpoint(t) ==
  /\ pc[t] = "flush"
  /\ batch[t] = {}
  /\ FlushToIndex(t)
  /\ toRecord' = [toRecord EXCEPT ![t] = {}]
  /\ iteration' = [iteration EXCEPT ![t] = 0]
  /\ Goto(t, "idle")
  /\ UNCHANGED <<store, graph, batch, premises, track, rule, scanVars, history>>

\* new_quads go in one by one, in the order the rules produced them.
MatInsert(t) ==
  /\ pc[t] = "insert"
  /\ \E q \in batch[t] :
       /\ store' = store \cup {q}
       /\ batch' = [batch EXCEPT ![t] = @ \ {q}]
       /\ Goto(t, IF batch[t] = {q} THEN "loop" ELSE "insert")
  /\ UNCHANGED <<indexVars, graph, premises, matVars, history>>

-----------------------------------------------------------------------------
(* rdf_dred_overdelete: three critical sections and a removal loop.        *)

OdBegin(t, g, R) ==
  /\ pc[t] = "idle"
  /\ R # {}
  /\ graph' = [graph EXCEPT ![t] = g]
  /\ premises' = [premises EXCEPT ![t] = R]
  /\ retractions' = IF retractions = CountedRetractions THEN retractions ELSE retractions + 1
  /\ Goto(t, "check")
  /\ UNCHANGED <<indexVars, store, batch, matVars, ever, owed>>

\* First section: an empty index is a wiring error of the caller.
OdNoIndex(t) ==
  /\ pc[t] = "check"
  /\ holder = Free
  /\ Index!IndexEmpty
  /\ premises' = [premises EXCEPT ![t] = {}]
  /\ Goto(t, "idle")
  /\ UNCHANGED <<indexVars, store, graph, batch, matVars, history>>

OdCheck(t) ==
  /\ pc[t] = "check"
  /\ holder = Free
  /\ ~Index!IndexEmpty
  /\ Goto(t, "cascade")
  /\ UNCHANGED <<indexVars, store, graph, batch, premises, matVars, history>>

\* Second section: the cascade, on an index that may have changed since.
OdCascade(t) ==
  /\ pc[t] = "cascade"
  /\ Index!CascadeBegin(t, premises[t])
  /\ Goto(t, "cascading")
  /\ UNCHANGED <<store, graph, batch, premises, matVars, history>>

OdCascading ==
  /\ \/ Index!CascadePop
     \/ \E c \in candidates : Index!CascadeKeep(c)
     \/ \E c \in candidates : Index!CascadeDelete(c)
  /\ UNCHANGED <<store, callVars, history>>

\* Defect: the retracted premises are removed along with what rested on them.
OdCascadedWithPremises(t) ==
  /\ pc[t] = "cascading"
  /\ Index!CascadeReturn(t)
  /\ batch' = [batch EXCEPT ![t] = IF overDeleted = {} THEN {} ELSE removed]
  /\ owed' = IF overDeleted = {} THEN owed \ premises[t] ELSE owed
  /\ premises' = IF overDeleted = {} THEN [premises EXCEPT ![t] = {}] ELSE premises
  /\ Goto(t, IF overDeleted = {} THEN "idle" ELSE "remove")
  /\ UNCHANGED <<store, graph, matVars, ever, retractions>>

\* The cascade returns; with nothing over-deleted so does the call.
OdCascaded(t) ==
  /\ pc[t] = "cascading"
  /\ Index!CascadeReturn(t)
  /\ batch' = [batch EXCEPT ![t] = overDeleted]
  /\ owed' = IF overDeleted = {} THEN owed \ premises[t] ELSE owed
  /\ premises' = IF overDeleted = {} THEN [premises EXCEPT ![t] = {}] ELSE premises
  /\ Goto(t, IF overDeleted = {} THEN "idle" ELSE "remove")
  /\ UNCHANGED <<store, graph, matVars, ever, retractions>>

\* Remove the over-deleted quads from the store, whichever graph they are in.
OdRemove(t) ==
  /\ pc[t] = "remove"
  /\ \E q \in batch[t] :
       /\ store' = store \ {q}
       /\ batch' = [batch EXCEPT ![t] = @ \ {q}]
       /\ Goto(t, IF batch[t] = {q} THEN "forget" ELSE "remove")
  /\ UNCHANGED <<indexVars, graph, premises, matVars, history>>

\* Defect: the removed quads keep their derivations.
OdForgetNothing(t) ==
  /\ pc[t] = "forget"
  /\ holder = Free
  /\ pending' = [pending EXCEPT ![t] = {}]
  /\ owed' = owed \ premises[t]
  /\ premises' = [premises EXCEPT ![t] = {}]
  /\ Goto(t, "idle")
  /\ UNCHANGED <<indexMaps, holder, retracted, removed, worklist, candidates, overDeleted,
                 store, graph, batch, matVars, ever, retractions>>

\* Third section: forget them.
OdForget(t) ==
  /\ pc[t] = "forget"
  /\ Index!Forget(t)
  /\ owed' = owed \ premises[t]
  /\ premises' = [premises EXCEPT ![t] = {}]
  /\ Goto(t, "idle")
  /\ UNCHANGED <<store, graph, batch, matVars, ever, retractions>>

-----------------------------------------------------------------------------
\* What a running call does next, whoever runs it.
Step(t) ==
  \/ ClearStore(t)
  \/ MatIterate(t) \/ MatGiveUp(t) \/ MatScan(t) \/ MatFire(t)
  \/ MatFlush(t) \/ MatFixpoint(t) \/ MatInsert(t)
  \/ OdNoIndex(t) \/ OdCheck(t) \/ OdCascade(t) \/ OdCascaded(t)
  \/ OdRemove(t) \/ OdForget(t)

Call(t) ==
  \/ \E q \in Assertable : Insert(t, q) \/ Delete(t, q)
  \/ ClearIndex(t)
  \/ \E g \in InferredGraphs, tracking \in TrackOptions : MatBegin(t, g, tracking)
  \/ \E g \in InferredGraphs, R \in SUBSET Assertable : OdBegin(t, g, R)

Next == \/ \E t \in Threads : Call(t) \/ Step(t)
        \/ OdCascading

Spec == Init /\ [][Next]_vars

\* A call that has begun is run on by its thread, and a mutex that is given
\* back again and again is eventually won.  Nobody has to call anything.
Fairness == /\ \A t \in Threads : SF_vars(Step(t))
            /\ WF_vars(OdCascading)
FairSpec == Spec /\ Fairness

-----------------------------------------------------------------------------
Quiescent == \A t \in Threads : pc[t] = "idle"

\* What the rules make of a set of quads: the least set of conclusions that,
\* with them, is closed under every rule.
Saturated(S) == \A f \in Firings : f.premises \subseteq S => f.inferred \in S
Derivable(A) ==
  {q \in Conclusions : \A C \in SUBSET Conclusions : Saturated(A \cup C) => q \in A \cup C}

\* The conclusions that only rules with a tracked variant draw.
TrackedConclusions ==
  {q \in Conclusions : \A i \in DOMAIN RuleTable \ TrackedRules :
                         \A f \in RuleTable[i].instances : f.inferred # q}

\* Every use the calls make of the index is one the index allows: the
\* composed system implements the component.
IndexSpec == Index!Spec

\* No thread interleaving invents knowledge: whatever is in an inferred graph
\* follows from quads that have been asserted at some time.
NoInventedFacts == store \cap Conclusions \subseteq Derivable(ever)

\* Materialising and over-deleting leave the asserted graph alone: only the
\* callers retract ("the retracted premises themselves are not touched").
AssertedUntouched ==
  [][(\E t \in Threads : MatInsert(t) \/ OdRemove(t))
       => store' \cap Assertable = store \cap Assertable]_vars

\* Every call returns, however often other threads delete what a materialise
\* has just derived: max_iterations ends the chase.
CallsReturn == \A t \in Threads : (pc[t] # "idle") ~> (pc[t] = "idle")

\* With one caller that always tracks, index and inferred graphs describe
\* each other between calls: no derivation of an absent quad, no quad a
\* tracked rule had to conclude without one.
IndexMatchesStore ==
  Quiescent =>
    /\ \A q \in Quads : derivations[q] # {} => q \in store \cap Conclusions
    /\ \A q \in store \cap TrackedConclusions : derivations[q] # {}

\* With one caller, a materialise that returns normally leaves nothing
\* derivable out of the graph it wrote.
FixpointIsSaturated ==
  [][\A t \in Threads : MatFixpoint(t) =>
       \A f \in Firings : GraphOf[f.inferred] = graph[t] /\ f.premises \subseteq store
                            => f.inferred \in store]_vars

\* With one caller, a quad is only removed when each of its derivations
\* really uses something retracted or over-deleted by this very call.
OnlyUnsupportedRemoved ==
  [][\A t \in Threads : OdRemove(t) =>
       \A q \in store \ store' : \A D \in derivations[q] :
         D \cap (premises[t] \cup pending[t]) # {}]_vars

\* Retract, then over-delete: once every deleted premise has been handed to
\* rdf_dred_overdelete, each inferred quad of the tracked rules follows from
\* what is still asserted, and from what the other rules left behind.
InferredSupported ==
  Quiescent /\ owed = {} =>
    store \cap TrackedConclusions \subseteq Derivable(store \ TrackedConclusions)

\* No set of conclusions is supported only by itself.
Acyclic ==
  \A C \in SUBSET Conclusions : C # {} =>
    \E q \in C : \A f \in Firings : f.inferred = q => f.premises \cap C = {}

\* The first over-deletion leaves no quad of the tracked rules without a rule
\* instance whose premises are all still there.  So of the unsupported it
\* leaves only what derivations in a circle hold up, and nothing where the
\* rules have no circles.
FirstRetractionExact ==
  retractions <= 1 /\ Quiescent /\ owed = {} =>
    /\ \A q \in store \cap TrackedConclusions :
         \E f \in Firings : f.inferred = q /\ f.premises \subseteq store
    /\ Acyclic => InferredSupported

\* "The combination of over-delete + re-materialise is the full DRed cycle":
\* one over-deletion removes whatever no longer follows.
OverdeleteIsFullCycle == retractions <= 1 => InferredSupported

\* A finished cascade has found every quad whose every derivation is broken:
\* so it is until the first forget loses an edge that record never restores.
CascadeResultClosed == Index!CascadeDone => Index!Closed(removed)
=============================================================================
