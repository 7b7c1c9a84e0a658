-------------------------- MODULE DependencyIndex --------------------------
(***************************************************************************)
(* The process-wide dependency index of the OWL 2 RL reasoner              *)
(* (src/dependency_index.rs): two maps behind one mutex, written by        *)
(* rdf_owl_rl_materialise (record) and rdf_clear (clear), read and pruned  *)
(* by rdf_dred_overdelete (cascade, then forget, in two separate critical  *)
(* sections).                                                              *)
(*                                                                         *)
(* An absent map key and an empty value are the same state: `record` and   *)
(* `forget` never leave an empty value behind.  The Vec of derivations is  *)
(* a set, because `record` never stores the same premise set twice.        *)
(*                                                                         *)
(* A short critical section is one action.  The cascade, whose outcome     *)
(* depends on the order its hash sets are iterated in, is modelled step by *)
(* step while `holder` keeps the mutex.                                    *)
(***************************************************************************)
EXTENDS Naturals, FiniteSets, Sequences, SequencesExt

CONSTANTS
  Quads,     \* every quad a derivation may name
  Firings,   \* what tracked rules can hand to record: [inferred, premises]
  Callers,   \* threads that enter the index
  Free       \* the holder of an unlocked mutex

ASSUME QuadsFinite   == IsFiniteSet(Quads)
ASSUME FiringsTyped  == Firings \subseteq [inferred : Quads, premises : SUBSET Quads]
ASSUME FreeNotCaller == Free \notin Callers

VARIABLES
  derivations,  \* inferred quad -> the premise sets recorded for it
  reverse,      \* premise quad -> inferred quads it supports
  holder,       \* the thread running a cascade under the mutex, or Free
  retracted,    \* the cascade's argument
  removed,      \* the cascade's `removed`: retracted and over-deleted quads
  worklist,     \* the cascade's stack of removed quads still to follow
  candidates,   \* the snapshot of reverse[p] still to examine
  overDeleted,  \* the cascade's result so far
  pending,      \* per caller: a returned cascade it has not yet forgotten
  forgotten     \* history: quads forgotten since the index was last cleared

maps    == <<derivations, reverse, forgotten>>
locals  == <<retracted, removed, worklist, candidates, overDeleted>>
vars    == <<maps, holder, locals, pending>>

-----------------------------------------------------------------------------
(* The map updates, as functions of the maps they read.                    *)

\* record, applied to each of the firings F in some order: a premise set
\* already present returns early and leaves the reverse map alone.
RecordedDerivations(drv, F) ==
  [q \in Quads |-> drv[q] \cup {f.premises : f \in {g \in F : g.inferred = q}}]

\* Defect: the early return fires for any quad with a derivation.
RecordedFirstOnly(drv, rev, F) ==
  [p \in Quads |->
     rev[p] \cup {f.inferred : f \in {g \in F : p \in g.premises /\ drv[g.inferred] = {}}}]

RecordedReverse(drv, rev, F) ==
  [p \in Quads |->
     rev[p] \cup {f.inferred : f \in {g \in F : /\ p \in g.premises
                                                /\ g.premises \notin drv[g.inferred]}}]

\* Defect: the entry goes, and a later lookup finds no value at all.
ForgottenAltogether(drv, S) == [q \in Quads \ S |-> drv[q]]

\* forget, applied to each quad of S in some order: the quad's own reverse
\* entry goes whatever it holds, its derivations go, and it leaves the
\* entries of the premises those derivations name.
ForgottenDerivations(drv, S) == [q \in Quads |-> IF q \in S THEN {} ELSE drv[q]]

\* Defect: a forgotten quad stays in the entries of its premises.
ForgottenUnpruned(drv, rev, S) == [p \in Quads |-> IF p \in S THEN {} ELSE rev[p]]

ForgottenReverse(drv, rev, S) ==
  [p \in Quads |-> IF p \in S
                     THEN {}
                     ELSE {c \in rev[p] : ~(c \in S /\ \E D \in drv[c] : p \in D)}]

\* DependencyIndex::is_empty looks at the derivations only.
IndexEmpty == \A q \in Quads : derivations[q] = {}

\* A derivation survives while none of its premises has been removed.
Survives(D, S)    == D \cap S = {}
AnySurvives(c, S) == \E D \in derivations[c] : Survives(D, S)

-----------------------------------------------------------------------------
TypeOK ==
  /\ derivations \in [Quads -> SUBSET SUBSET Quads]
  /\ reverse     \in [Quads -> SUBSET Quads]
  /\ holder      \in Callers \cup {Free}
  /\ retracted   \in SUBSET Quads
  /\ removed     \in SUBSET Quads
  /\ worklist    \in Seq(Quads)
  /\ candidates  \in SUBSET Quads
  /\ overDeleted \in SUBSET Quads
  /\ pending     \in [Callers -> SUBSET Quads]
  /\ forgotten   \in SUBSET Quads

Init ==
  /\ derivations = [q \in Quads |-> {}]
  /\ reverse     = [q \in Quads |-> {}]
  /\ holder      = Free
  /\ retracted   = {}
  /\ removed     = {}
  /\ worklist    = << >>
  /\ candidates  = {}
  /\ overDeleted = {}
  /\ pending     = [t \in Callers |-> {}]
  /\ forgotten   = {}

\* One critical section of materialise: every derivation of an iteration.
Record(F) ==
  /\ holder = Free
  /\ F # {}
  /\ derivations' = RecordedDerivations(derivations, F)
  /\ reverse' = RecordedReverse(derivations, reverse, F)
  /\ UNCHANGED <<forgotten, holder, locals, pending>>

\* cascade(retracted): every retracted quad is on the worklist, in the order
\* a hash set yields them.
CascadeBegin(t, R) ==
  /\ holder = Free
  /\ pending[t] = {}
  /\ holder' = t
  /\ retracted' = R
  /\ removed' = R
  /\ worklist' \in SetToSeqs(R)
  /\ candidates' = {}
  /\ overDeleted' = {}
  /\ UNCHANGED <<maps, pending>>

\* Pop a removed quad and snapshot the quads it supports.
CascadePop ==
  /\ holder # Free
  /\ candidates = {}
  /\ worklist # << >>
  /\ candidates' = reverse[Last(worklist)]
  /\ worklist' = Front(worklist)
  /\ UNCHANGED <<maps, holder, retracted, removed, overDeleted, pending>>

\* A candidate stays: already removed, unknown, or still supported.
CascadeKeep(c) ==
  /\ holder # Free
  /\ c \in candidates
  /\ c \in removed \/ derivations[c] = {} \/ AnySurvives(c, removed)
  /\ candidates' = candidates \ {c}
  /\ UNCHANGED <<maps, holder, retracted, removed, worklist, overDeleted, pending>>

\* Defects of the deletion below: one broken derivation suffices; the deleted
\* quad is not followed; a removed quad is looked at again; the deleted quad
\* is not remembered as removed.
CascadeDeleteIfAnyBroken(c) ==
  /\ holder # Free
  /\ c \in candidates
  /\ c \notin removed
  /\ \E D \in derivations[c] : ~Survives(D, removed)
  /\ candidates' = candidates \ {c}
  /\ removed' = removed \cup {c}
  /\ overDeleted' = overDeleted \cup {c}
  /\ worklist' = Append(worklist, c)
  /\ UNCHANGED <<maps, holder, retracted, pending>>

CascadeDeleteNotFollowed(c) ==
  /\ holder # Free
  /\ c \in candidates \ removed
  /\ derivations[c] # {}
  /\ ~AnySurvives(c, removed)
  /\ candidates' = candidates \ {c}
  /\ removed' = removed \cup {c}
  /\ overDeleted' = overDeleted \cup {c}
  /\ UNCHANGED <<maps, holder, retracted, worklist, pending>>

CascadeDeleteAgain(c) ==
  /\ holder # Free
  /\ c \in candidates
  /\ derivations[c] # {}
  /\ ~AnySurvives(c, removed)
  /\ candidates' = candidates \ {c}
  /\ removed' = removed \cup {c}
  /\ overDeleted' = overDeleted \cup {c}
  /\ worklist' = IF c \in removed THEN worklist ELSE Append(worklist, c)
  /\ UNCHANGED <<maps, holder, retracted, pending>>

CascadeDeleteNotRemoved(c) ==
  /\ holder # Free
  /\ c \in candidates \ removed
  /\ derivations[c] # {}
  /\ ~AnySurvives(c, removed)
  /\ candidates' = candidates \ {c}
  /\ overDeleted' = overDeleted \cup {c}
  /\ worklist' = Append(worklist, c)
  /\ UNCHANGED <<maps, holder, retracted, removed, pending>>

\* A candidate goes: it is known and none of its derivations survives.
CascadeDelete(c) ==
  /\ holder # Free
  /\ c \in candidates
  /\ c \notin removed
  /\ derivations[c] # {}
  /\ ~AnySurvives(c, removed)
  /\ candidates' = candidates \ {c}
  /\ removed' = removed \cup {c}
  /\ overDeleted' = overDeleted \cup {c}
  /\ worklist' = Append(worklist, c)
  /\ UNCHANGED <<maps, holder, retracted, pending>>

CascadeDone == holder # Free /\ candidates = {} /\ worklist = << >>

\* The cascade hands its result to the caller and drops the mutex; its
\* locals die with the call.
CascadeReturn(t) ==
  /\ CascadeDone
  /\ holder = t
  /\ pending' = [pending EXCEPT ![t] = overDeleted]
  /\ holder' = Free
  /\ retracted' = {}
  /\ removed' = {}
  /\ overDeleted' = {}
  /\ UNCHANGED <<maps, worklist, candidates>>

\* The second critical section of rdf_dred_overdelete: forget the result.
Forget(t) ==
  /\ holder = Free
  /\ pending[t] # {}
  /\ derivations' = ForgottenDerivations(derivations, pending[t])
  /\ reverse' = ForgottenReverse(derivations, reverse, pending[t])
  /\ forgotten' = forgotten \cup pending[t]
  /\ pending' = [pending EXCEPT ![t] = {}]
  /\ UNCHANGED <<holder, locals>>

\* clear: rdf_clear empties both maps.
Clear ==
  /\ holder = Free
  /\ derivations' = [q \in Quads |-> {}]
  /\ reverse' = [q \in Quads |-> {}]
  /\ forgotten' = {}
  /\ UNCHANGED <<holder, locals, pending>>

CascadeStep ==
  \/ CascadePop
  \/ \E c \in candidates : CascadeKeep(c)
  \/ \E c \in candidates : CascadeDelete(c)
  \/ \E t \in Callers : CascadeReturn(t)

Next ==
  \/ \E F \in SUBSET Firings : Record(F)
  \/ \E t \in Callers, R \in SUBSET Quads : CascadeBegin(t, R)
  \/ CascadeStep
  \/ \E t \in Callers : Forget(t)
  \/ Clear

\* The loop of a cascade runs to its end on the thread that entered it.
Spec     == Init /\ [][Next]_vars
FairSpec == Spec /\ WF_vars(CascadeStep)

-----------------------------------------------------------------------------
\* The reverse map never invents support: an entry of reverse[p] is a quad
\* one of whose recorded derivations really uses p.  A wrong entry would
\* make a cascade examine, and forget keep alive, quads unrelated to p.
ReverseSound ==
  \A p \in Quads : \A c \in reverse[p] : \E D \in derivations[c] : p \in D

\* Whether every premise of every derivation of c leads back to c.
EdgesExact(c) == \A D \in derivations[c] : \A p \in D : c \in reverse[p]

\* A reverse edge is missing only towards a quad that was forgotten: until
\* something is forgotten the two maps are transposes of each other.
\* record's early return and forget's unconditional reverse.remove make it
\* possible to lose edges; this bounds which ones.
EdgesLostOnlyByForget ==
  \A c \in Quads : \A D \in derivations[c] : \A p \in D :
    c \in reverse[p] \/ p \in forgotten

\* A set of quads closed under "every derivation is broken".
Closed(S) ==
  \A c \in Quads : derivations[c] # {} /\ ~AnySurvives(c, S) => c \in S

\* What a cascade over-deletes is forced: it lies in every closed set that
\* contains the retracted quads, in whatever order the worklist and the
\* candidates are visited, whatever the reverse map says.
CascadeSound ==
  holder # Free =>
    \A S \in SUBSET Quads : retracted \subseteq S /\ Closed(S) => removed \subseteq S

\* When no reverse edge is missing a finished cascade has found everything:
\* its removed set is closed, hence (with CascadeSound) it is the least
\* closed set, whatever the order it was computed in.
CascadeComplete ==
  CascadeDone /\ (\A c \in Quads : EdgesExact(c)) => Closed(removed)

\* The count rdf_dred_overdelete returns is the number of over-deleted quads:
\* the retracted premises, which are the caller's to delete, are never among
\* them even when they are themselves inferred, and each of them did have a
\* derivation.
OverDeletedIsInferred ==
  holder # Free =>
    /\ removed = retracted \cup overDeleted
    /\ overDeleted \cap retracted = {}
    /\ \A c \in overDeleted : derivations[c] # {}

\* A cascade ends although cyclic support pushes quads while others are
\* popped: the mutex is released, so no thread waits for the index forever.
CascadeTerminates == (holder # Free) ~> (holder = Free)
=============================================================================
