----------------------- MODULE DependencyIndexProofs -----------------------
(***************************************************************************)
(* Theorems about the dependency index, for every set of quads, firings    *)
(* and callers.                                                            *)
(***************************************************************************)
EXTENDS DependencyIndex, FiniteSetTheorems, SequenceTheorems, TLAPS

-----------------------------------------------------------------------------
(* The worklist, a Vec used as a stack, seen as the set of its elements.   *)

\* Popping takes the last element off and leaves the others.
LEMMA WorklistPop ==
  ASSUME NEW s \in Seq(Quads), s # << >>
  PROVE  /\ Front(s) \in Seq(Quads)
         /\ Last(s) \in Quads
         /\ ToSet(s) = ToSet(Front(s)) \cup {Last(s)}
<1>1. Len(s) \in Nat /\ Len(s) > 0 /\ DOMAIN s = 1..Len(s)
  BY EmptySeq, LenProperties
<1>2. \A i \in 1..Len(s) : s[i] \in Quads
  BY ElementOfSeq
<1>3. /\ Front(s) \in Seq(Quads)
      /\ Len(Front(s)) = Len(s) - 1
      /\ \A i \in 1..(Len(s) - 1) : Front(s)[i] = s[i]
  BY <1>1, <1>2, SubSeqProperties DEF Front
<1>4. DOMAIN Front(s) = 1..(Len(s) - 1)
  BY <1>3, LenProperties
<1>5. QED
  BY <1>1, <1>2, <1>3, <1>4 DEF ToSet, Last

\* Pushing adds one element.
LEMMA WorklistPush ==
  ASSUME NEW s \in Seq(Quads), NEW c \in Quads
  PROVE  /\ Append(s, c) \in Seq(Quads)
         /\ ToSet(Append(s, c)) = ToSet(s) \cup {c}
<1>1. Len(s) \in Nat /\ DOMAIN s = 1..Len(s)
  BY LenProperties
<1>2. /\ Append(s, c) \in Seq(Quads)
      /\ Len(Append(s, c)) = Len(s) + 1
      /\ \A i \in 1..Len(s) : Append(s, c)[i] = s[i]
      /\ Append(s, c)[Len(s) + 1] = c
  BY AppendProperties
<1>3. DOMAIN Append(s, c) = 1..(Len(s) + 1)
  BY <1>2, LenProperties
<1>4. QED
  BY <1>1, <1>2, <1>3 DEF ToSet

\* A worklist seeded with the retracted quads, in any order, holds them all.
LEMMA WorklistSeed ==
  ASSUME NEW R \in SUBSET Quads, NEW w \in SetToSeqs(R)
  PROVE  w \in Seq(Quads) /\ ToSet(w) = R
<1> DEFINE n == Cardinality(R)
<1>1. IsFiniteSet(R) /\ n \in Nat
  BY QuadsFinite, FS_Subset, FS_CardinalityType
<1>2. /\ w \in [1..n -> R]
      /\ \A i, j \in 1..n : i # j => w[i] # w[j]
  BY DEF SetToSeqs
<1>3. w \in Seq(R) /\ w \in Seq(Quads)
  BY <1>1, <1>2, IsASeq
<1>4. w \in Injection(1..n, R)
  BY <1>2 DEF Injection, IsInjective
<1>5. Cardinality(1..n) = n
  BY <1>1, FS_Interval
<1>6. w \in Surjection(1..n, R)
  BY <1>1, <1>4, <1>5, FS_Injection
<1>7. QED
  BY <1>2, <1>3, <1>6 DEF ToSet, Surjection

-----------------------------------------------------------------------------
(* The set-at-a-time map updates are the loops of the code.                *)

\* Recording the firings F and then one more is recording F with it: the
\* loop of materialise over to_record, one DependencyIndex::record per
\* element, has the outcome of Record whatever its order, early returns
\* included.
THEOREM RecordOneByOne ==
  ASSUME NEW drv \in [Quads -> SUBSET SUBSET Quads],
         NEW rev \in [Quads -> SUBSET Quads],
         NEW F \in SUBSET Firings, NEW f \in Firings
  PROVE  LET drv1 == RecordedDerivations(drv, F)
             rev1 == RecordedReverse(drv, rev, F)
         IN  /\ RecordedDerivations(drv1, {f}) = RecordedDerivations(drv, F \cup {f})
             /\ RecordedReverse(drv1, rev1, {f}) = RecordedReverse(drv, rev, F \cup {f})
<1> DEFINE drv1 == RecordedDerivations(drv, F)
           rev1 == RecordedReverse(drv, rev, F)
<1>1. \A g \in F \cup {f} : /\ g.inferred \in Quads
                            /\ g = [inferred |-> g.inferred, premises |-> g.premises]
  BY FiringsTyped
<1>2. RecordedDerivations(drv1, {f}) = RecordedDerivations(drv, F \cup {f})
  BY DEF RecordedDerivations
<1>3. f.premises \in drv1[f.inferred] <=> f.premises \in drv[f.inferred] \/ f \in F
  BY <1>1 DEF RecordedDerivations
<1>4. ASSUME NEW p \in Quads
      PROVE  RecordedReverse(drv1, rev1, {f})[p] = RecordedReverse(drv, rev, F \cup {f})[p]
  BY <1>3 DEF RecordedReverse
<1>5. QED
  BY <1>2, <1>4 DEF RecordedReverse

\* Forgetting S and then one more quad is forgetting S with it: the loop of
\* rdf_dred_overdelete over its cascade, one DependencyIndex::forget per
\* quad, has the outcome of Forget whatever its order.
THEOREM ForgetOneByOne ==
  ASSUME NEW drv \in [Quads -> SUBSET SUBSET Quads],
         NEW rev \in [Quads -> SUBSET Quads],
         NEW S \in SUBSET Quads, NEW q \in Quads,
         \A p \in Quads : \A c \in rev[p] : \E D \in drv[c] : p \in D
  PROVE  LET drv1 == ForgottenDerivations(drv, S)
             rev1 == ForgottenReverse(drv, rev, S)
         IN  /\ ForgottenDerivations(drv1, {q}) = ForgottenDerivations(drv, S \cup {q})
             /\ ForgottenReverse(drv1, rev1, {q}) = ForgottenReverse(drv, rev, S \cup {q})
<1> DEFINE drv1 == ForgottenDerivations(drv, S)
           rev1 == ForgottenReverse(drv, rev, S)
<1>1. ForgottenDerivations(drv1, {q}) = ForgottenDerivations(drv, S \cup {q})
  BY DEF ForgottenDerivations
<1>2. ASSUME NEW p \in Quads
      PROVE  ForgottenReverse(drv1, rev1, {q})[p] = ForgottenReverse(drv, rev, S \cup {q})[p]
  <2>1. rev1[p] = IF p \in S THEN {} ELSE {c \in rev[p] : ~(c \in S /\ \E D \in drv[c] : p \in D)}
    BY DEF ForgottenReverse
  <2>2. \A c \in Quads : drv1[c] = IF c \in S THEN {} ELSE drv[c]
    BY DEF ForgottenDerivations
  <2>3. rev[p] \subseteq Quads /\ \A c \in rev[p] : \E D \in drv[c] : p \in D
    OBVIOUS
  <2>4. rev1[p] = IF p \in S THEN {} ELSE rev[p] \ S
    BY <2>1, <2>3
  <2>5. ForgottenReverse(drv1, rev1, {q})[p]
          = IF p = q THEN {} ELSE {c \in rev1[p] : ~(c = q /\ \E D \in drv1[c] : p \in D)}
    BY DEF ForgottenReverse
  <2>6. ForgottenReverse(drv, rev, S \cup {q})[p]
          = IF p \in S \cup {q} THEN {} ELSE rev[p] \ (S \cup {q})
    BY <2>3 DEF ForgottenReverse
  <2>7. \A c \in rev1[p] : \E D \in drv1[c] : p \in D
    BY <2>2, <2>3, <2>4
  <2>8. QED
    BY <2>4, <2>5, <2>6, <2>7
<1>3. QED
  BY <1>1, <1>2 DEF ForgottenReverse

-----------------------------------------------------------------------------
(* The invariants.                                                         *)

\* Every variable keeps its type: in particular a worklist only ever holds
\* quads, so the lookups of a cascade are defined.
THEOREM TypeCorrect == Spec => []TypeOK
<1>1. Init => TypeOK
  BY EmptySeq DEF Init, TypeOK
<1>2. TypeOK /\ [Next]_vars => TypeOK'
  <2> SUFFICES ASSUME TypeOK, [Next]_vars PROVE TypeOK'
    OBVIOUS
  <2> USE DEF TypeOK
  <2>1. ASSUME NEW F \in SUBSET Firings, Record(F) PROVE TypeOK'
    <3>1. \A f \in F : f.inferred \in Quads /\ f.premises \in SUBSET Quads
      BY FiringsTyped
    <3>2. RecordedDerivations(derivations, F) \in [Quads -> SUBSET SUBSET Quads]
      BY <3>1 DEF RecordedDerivations
    <3>3. RecordedReverse(derivations, reverse, F) \in [Quads -> SUBSET Quads]
      BY <3>1 DEF RecordedReverse
    <3>4. QED
      BY <2>1, <3>2, <3>3 DEF Record, locals
  <2>2. ASSUME NEW t \in Callers, NEW R \in SUBSET Quads, CascadeBegin(t, R)
        PROVE  TypeOK'
    BY <2>2, WorklistSeed DEF CascadeBegin, maps
  <2>3. CASE CascadePop
    BY <2>3, WorklistPop DEF CascadePop, maps
  <2>4. ASSUME NEW c \in candidates, CascadeKeep(c) PROVE TypeOK'
    BY <2>4 DEF CascadeKeep, maps
  <2>5. ASSUME NEW c \in candidates, CascadeDelete(c) PROVE TypeOK'
    BY <2>5, WorklistPush DEF CascadeDelete, maps
  <2>6. ASSUME NEW t \in Callers, CascadeReturn(t) PROVE TypeOK'
    BY <2>6 DEF CascadeReturn, maps
  <2>7. ASSUME NEW t \in Callers, Forget(t) PROVE TypeOK'
    <3>1. derivations' \in [Quads -> SUBSET SUBSET Quads]
      BY <2>7 DEF Forget, ForgottenDerivations
    <3>2. reverse' \in [Quads -> SUBSET Quads]
      BY <2>7 DEF Forget, ForgottenReverse
    <3>3. QED
      BY <2>7, <3>1, <3>2 DEF Forget, locals
  <2>8. CASE Clear
    BY <2>8 DEF Clear, locals
  <2>9. CASE UNCHANGED vars
    BY <2>9 DEF vars, maps, locals
  <2>10. QED
    BY <2>1, <2>2, <2>3, <2>4, <2>5, <2>6, <2>7, <2>8, <2>9 DEF Next, CascadeStep
<1>3. QED
  BY <1>1, <1>2, PTL DEF Spec

\* The reverse map never names a quad that does not rest on the premise.
THEOREM ReverseSoundHolds == Spec => []ReverseSound
<1>1. Init => ReverseSound
  BY DEF Init, ReverseSound
<1>2. TypeOK /\ ReverseSound /\ [Next]_vars => ReverseSound'
  <2> SUFFICES ASSUME TypeOK, ReverseSound, [Next]_vars PROVE ReverseSound'
    OBVIOUS
  <2>1. ASSUME UNCHANGED maps PROVE ReverseSound'
    BY <2>1 DEF ReverseSound, maps
  <2>2. ASSUME NEW F \in SUBSET Firings, Record(F) PROVE ReverseSound'
    <3> SUFFICES ASSUME NEW p \in Quads, NEW c \in reverse'[p]
                 PROVE  \E D \in derivations'[c] : p \in D
      BY DEF ReverseSound
    <3>1. \A f \in F : f.inferred \in Quads /\ f.premises \in SUBSET Quads
      BY FiringsTyped
    <3>2. /\ c \in reverse[p] \/ \E f \in F : c = f.inferred /\ p \in f.premises
          /\ c \in Quads
      BY <2>2, <3>1 DEF Record, RecordedReverse, TypeOK
    <3>3. derivations'[c] = derivations[c] \cup {f.premises : f \in {g \in F : g.inferred = c}}
      BY <2>2, <3>2 DEF Record, RecordedDerivations
    <3>4. QED
      BY <3>2, <3>3 DEF ReverseSound
  <2>3. ASSUME NEW t \in Callers, Forget(t) PROVE ReverseSound'
    <3> SUFFICES ASSUME NEW p \in Quads, NEW c \in reverse'[p]
                 PROVE  \E D \in derivations'[c] : p \in D
      BY DEF ReverseSound
    <3>1. c \in reverse[p] /\ c \in Quads /\ ~(c \in pending[t] /\ \E D \in derivations[c] : p \in D)
      BY <2>3 DEF Forget, ForgottenReverse, TypeOK
    <3>2. c \notin pending[t]
      BY <3>1 DEF ReverseSound
    <3>3. derivations'[c] = derivations[c]
      BY <2>3, <3>1, <3>2 DEF Forget, ForgottenDerivations
    <3>4. QED
      BY <3>1, <3>3 DEF ReverseSound
  <2>4. CASE Clear
    BY <2>4 DEF Clear, ReverseSound
  <2>5. QED
    BY <2>1, <2>2, <2>3, <2>4
    DEF Next, CascadeStep, CascadeBegin, CascadePop, CascadeKeep, CascadeDelete,
        CascadeReturn, vars
<1>3. QED
  BY <1>1, <1>2, TypeCorrect, PTL DEF Spec

\* Until a quad is forgotten every edge from its premises is there.
THEOREM EdgesLostOnlyByForgetHolds == Spec => []EdgesLostOnlyByForget
<1>1. Init => EdgesLostOnlyByForget
  BY DEF Init, EdgesLostOnlyByForget
<1>2. TypeOK /\ EdgesLostOnlyByForget /\ [Next]_vars => EdgesLostOnlyByForget'
  <2> SUFFICES ASSUME TypeOK, EdgesLostOnlyByForget, [Next]_vars
               PROVE  EdgesLostOnlyByForget'
    OBVIOUS
  <2>1. ASSUME UNCHANGED maps PROVE EdgesLostOnlyByForget'
    BY <2>1 DEF EdgesLostOnlyByForget, maps
  <2>2. ASSUME NEW F \in SUBSET Firings, Record(F) PROVE EdgesLostOnlyByForget'
    <3> SUFFICES ASSUME NEW c \in Quads, NEW D \in derivations'[c],
                        NEW p \in D, p \notin forgotten
                 PROVE  c \in reverse'[p]
      BY <2>2 DEF Record, EdgesLostOnlyByForget
    <3>1. \A f \in F : f.inferred \in Quads /\ f.premises \in SUBSET Quads
      BY FiringsTyped
    <3>2. D \in derivations[c] \/ \E f \in F : f.inferred = c /\ f.premises = D
      BY <2>2 DEF Record, RecordedDerivations
    <3>3. p \in Quads
      BY <3>1, <3>2 DEF TypeOK
    <3>4. reverse'[p] = reverse[p] \cup {f.inferred : f \in
             {g \in F : p \in g.premises /\ g.premises \notin derivations[g.inferred]}}
      BY <2>2, <3>3 DEF Record, RecordedReverse
    <3>5. CASE D \in derivations[c]
      BY <3>4, <3>5 DEF EdgesLostOnlyByForget
    <3>6. CASE D \notin derivations[c]
      BY <3>2, <3>4, <3>6
    <3>7. QED
      BY <3>5, <3>6
  <2>3. ASSUME NEW t \in Callers, Forget(t) PROVE EdgesLostOnlyByForget'
    <3> SUFFICES ASSUME NEW c \in Quads, NEW D \in derivations'[c],
                        NEW p \in D, p \notin forgotten'
                 PROVE  c \in reverse'[p]
      BY DEF EdgesLostOnlyByForget
    <3>1. c \notin pending[t] /\ D \in derivations[c]
      BY <2>3 DEF Forget, ForgottenDerivations
    <3>2. p \in Quads /\ p \notin pending[t] /\ p \notin forgotten
      BY <2>3, <3>1 DEF Forget, TypeOK
    <3>3. c \in reverse[p]
      BY <3>1, <3>2 DEF EdgesLostOnlyByForget
    <3>4. QED
      BY <2>3, <3>1, <3>2, <3>3 DEF Forget, ForgottenReverse
  <2>4. CASE Clear
    BY <2>4 DEF Clear, EdgesLostOnlyByForget
  <2>5. QED
    BY <2>1, <2>2, <2>3, <2>4
    DEF Next, CascadeStep, CascadeBegin, CascadePop, CascadeKeep, CascadeDelete,
        CascadeReturn, vars
<1>3. QED
  BY <1>1, <1>2, TypeCorrect, PTL DEF Spec

-----------------------------------------------------------------------------
(* The cascade.  Its loop invariant relates the running result to the      *)
(* derivations, and says where a quad that has lost its last derivation is *)
(* still going to be found.                                                *)

\* The next visit to c is already scheduled.
Scheduled(c) == c \in candidates \/ \E p \in ToSet(worklist) : c \in reverse[p]

CascadeInv ==
  holder # Free =>
    /\ OverDeletedIsInferred
    /\ CascadeSound
    /\ \A c \in Quads \ removed :
         derivations[c] # {} /\ ~AnySurvives(c, removed) /\ EdgesExact(c) => Scheduled(c)

\* No step outside the cascade touches what its invariant speaks of: the
\* mutex keeps every other critical section out.
LEMMA CascadeInvFrame ==
  ASSUME CascadeInv, holder' = Free \/ UNCHANGED <<maps, holder, locals>>
  PROVE  CascadeInv'
BY DEF CascadeInv, OverDeletedIsInferred, CascadeSound, Scheduled, AnySurvives, Survives,
       EdgesExact, Closed, maps, locals

\* The loop invariant is inductive.
LEMMA CascadeInvHolds == Spec => []CascadeInv
<1>1. Init => CascadeInv
  BY DEF Init, CascadeInv
<1>2. TypeOK /\ CascadeInv /\ [Next]_vars => CascadeInv'
  <2> SUFFICES ASSUME TypeOK, CascadeInv, [Next]_vars PROVE CascadeInv'
    OBVIOUS
  <2>1. ASSUME NEW t \in Callers, NEW R \in SUBSET Quads, CascadeBegin(t, R)
        PROVE  CascadeInv'
    <3>1. /\ retracted' = R /\ removed' = R /\ overDeleted' = {}
          /\ ToSet(worklist') = R
          /\ derivations' = derivations /\ reverse' = reverse
      BY <2>1, WorklistSeed DEF CascadeBegin, maps
    <3>2. OverDeletedIsInferred' /\ CascadeSound'
      BY <3>1 DEF OverDeletedIsInferred, CascadeSound
    <3>3. ASSUME NEW c \in Quads, derivations[c] # {}, ~AnySurvives(c, R), EdgesExact(c)
          PROVE  \E p \in R : c \in reverse[p]
      BY <3>3 DEF AnySurvives, Survives, EdgesExact
    <3>4. QED
      BY <3>1, <3>2, <3>3 DEF CascadeInv, Scheduled, AnySurvives, Survives, EdgesExact
  <2>2. CASE CascadePop
    <3>1. /\ UNCHANGED <<maps, holder, retracted, removed, overDeleted>>
          /\ candidates = {} /\ holder # Free
          /\ candidates' = reverse[Last(worklist)]
          /\ ToSet(worklist) = ToSet(worklist') \cup {Last(worklist)}
      BY <2>2, WorklistPop DEF CascadePop, TypeOK
    <3>2. OverDeletedIsInferred' /\ CascadeSound'
      BY <3>1 DEF CascadeInv, OverDeletedIsInferred, CascadeSound, Closed, AnySurvives, Survives, maps
    <3>3. \A c \in Quads : Scheduled(c) => Scheduled(c)'
      BY <3>1 DEF Scheduled, maps
    <3>4. QED
      BY <3>1, <3>2, <3>3 DEF CascadeInv, AnySurvives, Survives, EdgesExact, maps
  <2>3. ASSUME NEW c \in candidates, CascadeKeep(c) PROVE CascadeInv'
    <3>1. /\ UNCHANGED <<maps, holder, retracted, removed, worklist, overDeleted>>
          /\ holder # Free
          /\ candidates' = candidates \ {c}
          /\ c \in removed \/ derivations[c] = {} \/ AnySurvives(c, removed)
      BY <2>3 DEF CascadeKeep
    <3>2. OverDeletedIsInferred' /\ CascadeSound'
      BY <3>1 DEF CascadeInv, OverDeletedIsInferred, CascadeSound, Closed, AnySurvives, Survives, maps
    <3>3. \A d \in Quads : d # c /\ Scheduled(d) => Scheduled(d)'
      BY <3>1 DEF Scheduled, maps
    <3>4. QED
      BY <3>1, <3>2, <3>3 DEF CascadeInv, AnySurvives, Survives, EdgesExact, maps
  <2>4. ASSUME NEW c \in candidates, CascadeDelete(c) PROVE CascadeInv'
    <3>1. /\ UNCHANGED <<maps, holder, retracted>>
          /\ c \in Quads /\ c \notin removed /\ derivations[c] # {} /\ holder # Free
          /\ ~AnySurvives(c, removed)
          /\ candidates' = candidates \ {c}
          /\ removed' = removed \cup {c}
          /\ overDeleted' = overDeleted \cup {c}
          /\ ToSet(worklist') = ToSet(worklist) \cup {c}
      BY <2>4, WorklistPush DEF CascadeDelete, TypeOK
    <3>2. OverDeletedIsInferred'
      BY <3>1 DEF CascadeInv, OverDeletedIsInferred, maps
    <3>3. CascadeSound'
      <4> SUFFICES ASSUME NEW S \in SUBSET Quads, retracted \subseteq S, Closed(S)
                   PROVE  c \in S
        BY <3>1 DEF CascadeInv, CascadeSound, Closed, AnySurvives, Survives, maps
      <4>1. removed \subseteq S
        BY <3>1 DEF CascadeInv, CascadeSound
      <4>2. ~AnySurvives(c, S)
        BY <3>1, <4>1 DEF AnySurvives, Survives
      <4>3. QED
        BY <3>1, <4>2 DEF Closed
    <3>4. ASSUME NEW d \in Quads \ removed', derivations[d] # {},
                 ~AnySurvives(d, removed'), EdgesExact(d)
          PROVE  Scheduled(d)'
      <4>1. CASE AnySurvives(d, removed)
        <5>1. \E D \in derivations[d] : c \in D
          BY <3>1, <3>4, <4>1 DEF AnySurvives, Survives
        <5>2. d \in reverse[c]
          BY <3>4, <5>1 DEF EdgesExact
        <5>3. QED
          BY <3>1, <5>2 DEF Scheduled, maps
      <4>2. CASE ~AnySurvives(d, removed)
        BY <3>1, <3>4, <4>2 DEF CascadeInv, Scheduled, maps
      <4>3. QED
        BY <4>1, <4>2
    <3>5. QED
      BY <3>1, <3>2, <3>3, <3>4 DEF CascadeInv, AnySurvives, Survives, EdgesExact, maps
  <2>5. ASSUME NEW t \in Callers, CascadeReturn(t) PROVE CascadeInv'
    BY <2>5, CascadeInvFrame DEF CascadeReturn
  <2>6. ASSUME NEW F \in SUBSET Firings, Record(F) PROVE CascadeInv'
    BY <2>6, CascadeInvFrame DEF Record
  <2>7. ASSUME NEW t \in Callers, Forget(t) PROVE CascadeInv'
    BY <2>7, CascadeInvFrame DEF Forget
  <2>8. CASE Clear
    BY <2>8, CascadeInvFrame DEF Clear
  <2>9. CASE UNCHANGED vars
    BY <2>9, CascadeInvFrame DEF vars
  <2>10. QED
    BY <2>1, <2>2, <2>3, <2>4, <2>5, <2>6, <2>7, <2>8, <2>9 DEF Next, CascadeStep
<1>3. QED
  BY <1>1, <1>2, TypeCorrect, PTL DEF Spec

\* Whatever the visiting order, a cascade over-deletes only what every closed
\* superset of the retracted quads must contain.
THEOREM CascadeSoundHolds == Spec => []CascadeSound
<1>1. CascadeInv => CascadeSound
  BY DEF CascadeInv, CascadeSound
<1>2. QED
  BY <1>1, CascadeInvHolds, PTL

\* A cascade that finds every reverse edge in place ends with a closed set:
\* nothing that lost its last derivation is left behind.
THEOREM CascadeCompleteHolds == Spec => []CascadeComplete
<1>1. CascadeInv => CascadeComplete
  <2> SUFFICES ASSUME CascadeInv, CascadeDone, \A c \in Quads : EdgesExact(c),
                      NEW c \in Quads, derivations[c] # {}, ~AnySurvives(c, removed)
               PROVE  c \in removed
    BY DEF CascadeComplete, Closed
  <2>1. ToSet(worklist) = {}
    BY DEF CascadeDone, ToSet
  <2>2. ~Scheduled(c)
    BY <2>1 DEF CascadeDone, Scheduled
  <2>3. QED
    BY <2>2 DEF CascadeInv, CascadeDone
<1>2. QED
  BY <1>1, CascadeInvHolds, PTL

\* The number rdf_dred_overdelete returns counts inferred quads only, and
\* never a retracted premise.
THEOREM OverDeletedIsInferredHolds == Spec => []OverDeletedIsInferred
<1>1. CascadeInv => OverDeletedIsInferred
  BY DEF CascadeInv, OverDeletedIsInferred
<1>2. QED
  BY <1>1, CascadeInvHolds, PTL
=============================================================================
