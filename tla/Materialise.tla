---------------------------- MODULE Materialise ----------------------------
(***************************************************************************)
(* The fixpoint loop of rdf_owl_rl_materialise over the rule library, for  *)
(* one caller that loads axioms between calls.                             *)
(*                                                                         *)
(* One iteration is one action: its rules all read the store before its    *)
(* insertions, and what other connections do in between is the subject of  *)
(* Reasoner.  A materialised triple is looked for in the inferred graph    *)
(* only, so one that is also asserted is stored a second time.             *)
(***************************************************************************)
EXTENDS OwlRlRules, OwlSemantics

CONSTANTS
  Workloads,         \* what a caller may do: [axioms, options, sig, meaningful], the
                     \* sets of triples it loads, the options it materialises with,
                     \* [saturation, reflexive], its signature, and whether it
                     \* uses the vocabulary as OWL intends
  MaxIterations      \* the max_iterations option

VARIABLES
  workload,    \* the caller's workload
  asserted,    \* the asserted graph
  inferred,    \* the inferred graph
  options,     \* equality_saturation and eq_reflexive, the same in every call
  iteration,   \* iterations of the current call, 0 between calls
  running,     \* whether a call is running
  atFixpoint   \* history: the last call succeeded, nothing was loaded since

vars == <<workload, asserted, inferred, options, iteration, running, atFixpoint>>

ASSUME IterationsNat == MaxIterations \in Nat
ASSUME AxiomsWellFormed ==
  \A w \in Workloads : \A axiom \in w.axioms : IsFiniteSet(axiom) /\ \A t \in axiom : WellFormed(t)

\* A workload is meaningful when everything it may load is, together.
ASSUME MeaningIsMeant ==
  \A w \in Workloads : w.meaningful =>
    LET A == UNION w.axioms IN IsFiniteSet(A) /\ Unambiguous(A) /\ Meaningful(w.sig, A)

\* The terms of the triples in A and those the rules add by themselves.
Terms(A) ==
  {t[1] : t \in A} \cup {t[2] : t \in A} \cup {t[3] : t \in A}
    \cup Vocabulary \cup BuiltinDatatypes \cup {DatatypeOf[t[3]] : t \in {u \in A : ~Node(u[3])}}
Triples(A) == {t \in Terms(A) \X Terms(A) \X Terms(A) : WellFormed(t)}

TypeOK ==
  /\ workload  \in Workloads
  /\ asserted  \in SUBSET UNION workload.axioms
  /\ inferred  \in SUBSET Triples(asserted)
  /\ options   \in workload.options
  /\ iteration \in 0..MaxIterations
  /\ running   \in BOOLEAN
  /\ atFixpoint \in BOOLEAN

Init ==
  /\ workload \in Workloads
  /\ asserted = {}
  /\ inferred = {}
  /\ options \in workload.options
  /\ iteration = 0
  /\ running = FALSE
  /\ atFixpoint = FALSE

Graph == asserted \cup inferred

\* rdf_insert_many or a bulk load into the asserted graph.
Load(axiom) ==
  /\ ~running
  /\ ~(axiom \subseteq asserted)
  /\ asserted' = asserted \cup axiom
  /\ atFixpoint' = FALSE
  /\ UNCHANGED <<workload, inferred, options, iteration, running>>

Begin ==
  /\ ~running
  /\ running' = TRUE
  /\ UNCHANGED <<workload, asserted, inferred, options, iteration, atFixpoint>>

\* What an iteration may derive; the outcomes differ in the cardinality rules.
Derivations ==
  {DeterminateRules(Graph, options.saturation, options.reflexive) \cup c :
     c \in CardinalityOutcomes(Graph)}

\* Defect: triples already asserted count as present.
IterateUnlessAsserted ==
  /\ running
  /\ iteration < MaxIterations
  /\ \E derived \in Derivations :
       /\ inferred' = inferred \cup (derived \ asserted)
       /\ running' = (inferred' # inferred)
       /\ iteration' = IF running' THEN iteration + 1 ELSE 0
       /\ atFixpoint' = (running' => atFixpoint)
  /\ UNCHANGED <<workload, asserted, options>>

\* Defect: one more iteration than allowed.
IterateOnceMore ==
  /\ running
  /\ iteration <= MaxIterations
  /\ \E derived \in Derivations :
       /\ inferred' = inferred \cup derived
       /\ running' = (inferred' # inferred)
       /\ iteration' = IF running' THEN iteration + 1 ELSE 0
       /\ atFixpoint' = (running' => atFixpoint)
  /\ UNCHANGED <<workload, asserted, options>>

\* Apply every rule and insert what is new; with nothing new the call returns.
Iterate ==
  /\ running
  /\ iteration < MaxIterations
  /\ \E derived \in Derivations :
       /\ inferred' = inferred \cup derived
       /\ running' = (inferred' # inferred)
       /\ iteration' = IF running' THEN iteration + 1 ELSE 0
       /\ atFixpoint' = (running' => atFixpoint)
  /\ UNCHANGED <<workload, asserted, options>>

\* Defect: running out of iterations counts as success.
GiveUpQuietly ==
  /\ running
  /\ iteration = MaxIterations
  /\ running' = FALSE
  /\ iteration' = 0
  /\ atFixpoint' = TRUE
  /\ UNCHANGED <<workload, asserted, inferred, options>>

\* The limit is used up: the call fails, and what it inserted stays.
GiveUp ==
  /\ running
  /\ iteration = MaxIterations
  /\ running' = FALSE
  /\ iteration' = 0
  /\ atFixpoint' = FALSE
  /\ UNCHANGED <<workload, asserted, inferred, options>>

Next ==
  \/ \E axiom \in workload.axioms : Load(axiom)
  \/ Begin
  \/ Iterate
  \/ GiveUp

Spec == Init /\ [][Next]_vars

-----------------------------------------------------------------------------
\* "Fixpoint contract": a second call on the same input derives nothing.
FixpointContract == [][atFixpoint => inferred' = inferred]_vars

\* No class is restricted on two properties or qualified by two classes, so
\* that the hash maps of the cardinality rules have nothing to choose.
SingleValued ==
  Functional(OnProperties(Graph)) /\ Functional(OnClasses(Graph))

\* What one call on the whole asserted graph would derive: the rules applied
\* to it and to what they derived, until they derive nothing new.
AllRules(G) ==
  DeterminateRules(G, options.saturation, options.reflexive) \cup UNION CardinalityOutcomes(G)
FromScratch ==
  LET grow[I \in SUBSET Triples(asserted)] ==
        LET J == I \cup AllRules(asserted \cup I) IN IF J = I THEN I ELSE grow[J]
  IN  grow[{}]

\* However loading, materialising and running into the limit interleave, a
\* call that succeeds leaves what one call on the whole asserted graph would
\* have derived - unless a list became ambiguous, which takes conclusions
\* away from the rules that had already drawn them, or the cardinality rules
\* had a choice.
IncrementalIsBatch ==
  atFixpoint /\ SingleValued /\ Unambiguous(Graph) => inferred = FromScratch

\* Everything derived is true wherever the asserted graph is, in the middle of
\* a call too: no rule has its direction, its join or a guard wrong.
RulesAreSound ==
  workload.meaningful =>
    AllTrue(workload.sig, Models(workload.sig, asserted), Graph)

\* The walker finds exactly the well-formed lists, from every term, in every
\* graph the loop passes through.
WalkListExact ==
  \A head \in {t[1] : t \in Graph} \cup {t[3] : t \in Graph} \cup {"nil"} :
    Lists(Graph, head) = ListValues(Graph, head)

\* Tracking changes no conclusion: over the quads of both graphs the tracked
\* variants derive what the plain rules do, and the premises recorded for a
\* triple are enough to derive it again with those rules.
Quads == {<<t[1], t[2], t[3], "asserted">> : t \in asserted}
           \cup {<<t[1], t[2], t[3], "inferred">> : t \in inferred}
CoreRules(G) == ScmSco(G) \cup ScmSpo(G) \cup EqTrans(G) \cup CaxSco(G) \cup PrpSpo1(G)
TrackingIsFaithful ==
  LET D == TrackedRules(Quads)
  IN  /\ {d.triple : d \in D} = CoreRules(Graph)
      /\ \A d \in D : d.triple \in CoreRules({<<q[1], q[2], q[3]>> : q \in d.premises})
=============================================================================
