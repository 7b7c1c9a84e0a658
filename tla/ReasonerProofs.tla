--------------------------- MODULE ReasonerProofs ---------------------------
(***************************************************************************)
(* Theorems about the reasoner, for every set of quads, rule table,        *)
(* iteration limit and number of threads: what it does to the dependency   *)
(* index is what DependencyIndex allows, and no interleaving of calls      *)
(* invents facts or touches asserted quads.                                *)
(***************************************************************************)
EXTENDS Reasoner, SequenceTheorems, TLAPS

\* The theorems of the index, for the threads as its callers.
IndexProofs == INSTANCE DependencyIndexProofs WITH Callers <- Threads

-----------------------------------------------------------------------------
(* What the rules derive.                                                  *)

RuleType == [scans : Seq(SUBSET Quads),
             instances : SUBSET [inferred : Conclusions, premises : SUBSET Quads]]

\* Every rule of the table concludes inferred quads from quads.
LEMMA TableTyped ==
  /\ Len(RuleTable) \in Nat /\ Len(RuleTable) >= 1
  /\ DOMAIN RuleTable = 1..Len(RuleTable)
  /\ \A i \in DOMAIN RuleTable : RuleTable[i] \in RuleType
  /\ Firings \subseteq [inferred : Conclusions, premises : SUBSET Quads]
<1>1. RuleTable \in Seq(RuleType) /\ RuleTable # << >>
  BY RulesTyped DEF RuleType
<1>2. /\ Len(RuleTable) \in Nat /\ Len(RuleTable) >= 1
      /\ DOMAIN RuleTable = 1..Len(RuleTable)
  BY <1>1, EmptySeq, LenProperties
<1>3. \A i \in DOMAIN RuleTable : RuleTable[i] \in RuleType
  BY <1>1, <1>2, ElementOfSeq
<1>4. QED
  BY <1>2, <1>3 DEF Firings, RuleType

\* A rule instance whose premises are given or derivable has a derivable
\* conclusion.
LEMMA DerivableStep ==
  ASSUME NEW A \in SUBSET Quads, NEW f \in Firings,
         f.premises \subseteq A \cup Derivable(A)
  PROVE  f.inferred \in Derivable(A)
<1>1. f.inferred \in Conclusions
  BY TableTyped
<1>2. ASSUME NEW C \in SUBSET Conclusions, Saturated(A \cup C)
      PROVE  f.inferred \in A \cup C
  <2>1. f.premises \subseteq A \cup C
    BY <1>2 DEF Derivable
  <2>2. QED
    BY <1>2, <2>1 DEF Saturated
<1>3. QED
  BY <1>1, <1>2 DEF Derivable

\* More asserted quads derive more.
LEMMA DerivableMonotone ==
  ASSUME NEW A \in SUBSET Assertable, NEW B \in SUBSET Assertable, A \subseteq B
  PROVE  Derivable(A) \subseteq Derivable(B)
<1>1. ASSUME NEW C \in SUBSET Conclusions, Saturated(B \cup C) PROVE Saturated(A \cup C)
  <2> SUFFICES ASSUME NEW f \in Firings, f.premises \subseteq A \cup C
               PROVE  f.inferred \in A \cup C
    BY DEF Saturated
  <2>1. f.inferred \in B \cup C
    BY <1>1 DEF Saturated
  <2>2. f.inferred \in Conclusions
    BY TableTyped
  <2>3. QED
    BY <2>1, <2>2 DEF Conclusions
<1>2. QED
  BY <1>1 DEF Derivable

\* Firing a rule yields instances of the table whose premises were found.
LEMMA FiredIsFound ==
  ASSUME NEW i \in DOMAIN RuleTable, NEW g, NEW Q
  PROVE  /\ Fired(i, g, Q) \subseteq Firings
         /\ \A f \in Fired(i, g, Q) : f.premises \subseteq Q
BY DEF Fired, Firings

-----------------------------------------------------------------------------
(* The types of what the calls hand to each other.                         *)

CallTypes ==
  /\ rule     \in [Threads -> 1..(Len(RuleTable) + 1)]
  /\ \A t \in Threads : pc[t] = "fire" => rule[t] \in DOMAIN RuleTable
  /\ pc       \in [Threads -> Statements]
  /\ graph    \in [Threads -> InferredGraphs]
  /\ track    \in [Threads -> BOOLEAN]
  /\ iteration \in [Threads -> 0..MaxIterations]
  /\ scan     \in [Threads -> Nat]
  /\ toRecord \in [Threads -> SUBSET Firings]
  /\ premises \in [Threads -> SUBSET Assertable]
  /\ ever     \in SUBSET Assertable
  /\ owed     \in SUBSET Assertable
  /\ retractions \in 0..CountedRetractions

\* The steps of a call are the only ones that change what CallTypes types.
LEMMA CallTypesHold == Spec => []CallTypes
<1>1. Init => CallTypes
  <2> SUFFICES ASSUME Init PROVE CallTypes
    OBVIOUS
  <2>1. (CHOOSE g \in InferredGraphs : TRUE) \in InferredGraphs
    BY GraphsTyped
  <2>2. graph \in [Threads -> InferredGraphs]
    BY <2>1 DEF Init
  <2>3. 1 \in 1..(Len(RuleTable) + 1) /\ 0 \in 0..MaxIterations /\ 0 \in 0..CountedRetractions
    BY TableTyped, OptionsTyped
  <2>4. QED
    BY <2>2, <2>3 DEF Init, CallTypes, Statements
<1>2. CallTypes /\ [Next]_vars => CallTypes'
  <2> SUFFICES ASSUME CallTypes, [Next]_vars PROVE CallTypes'
    OBVIOUS
  <2> USE DEF CallTypes, Goto, Statements
  <2>1. ASSUME NEW t \in Threads, NEW q \in Assertable, Insert(t, q) \/ Delete(t, q)
        PROVE  CallTypes'
    BY <2>1, QuadsFinite DEF Insert, Delete, callVars, matVars, scanVars
  <2>2. ASSUME NEW t \in Threads, ClearIndex(t) \/ ClearStore(t) PROVE CallTypes'
    BY <2>2 DEF ClearIndex, ClearStore, matVars, scanVars, history
  <2>3. ASSUME NEW t \in Threads, NEW g \in InferredGraphs, NEW tracking \in TrackOptions,
               MatBegin(t, g, tracking)
        PROVE  CallTypes'
    BY <2>3, OptionsTyped DEF MatBegin, matVars, scanVars, history
  <2>4. ASSUME NEW t \in Threads, MatIterate(t) \/ MatGiveUp(t) PROVE CallTypes'
    <3>1. /\ 1 \in DOMAIN RuleTable /\ 1 \in 1..(Len(RuleTable) + 1) /\ 0 \in 0..MaxIterations
          /\ iteration[t] < MaxIterations => iteration[t] + 1 \in 0..MaxIterations
      BY OptionsTyped, TableTyped
    <3>2. CASE MatIterate(t)
      BY <3>1, <3>2 DEF MatIterate, scanVars, history
    <3>3. CASE MatGiveUp(t)
      BY <3>1, <3>3 DEF MatGiveUp, scanVars, history
    <3>4. QED
      BY <2>4, <3>2, <3>3
  <2>5. ASSUME NEW t \in Threads, MatScan(t) PROVE CallTypes'
    BY <2>5 DEF MatScan, history
  <2>6. ASSUME NEW t \in Threads, MatFire(t) PROVE CallTypes'
    <3>1. Fired(rule[t], graph[t], found[t]) \subseteq Firings
      BY <2>6, FiredIsFound DEF MatFire
    <3>2. toRecord' \in [Threads -> SUBSET Firings]
      BY <2>6, <3>1 DEF MatFire
    <3>3. rule[t] + 1 \in 1..(Len(RuleTable) + 1)
      BY <2>6, TableTyped DEF MatFire
    <3>4. rule[t] # Len(RuleTable) => rule[t] + 1 \in DOMAIN RuleTable
      BY <2>6, TableTyped DEF MatFire
    <3>5. QED
      BY <2>6, <3>2, <3>3, <3>4 DEF MatFire, history
  <2>7. ASSUME NEW t \in Threads, MatFlush(t) \/ MatFixpoint(t) PROVE CallTypes'
    <3>1. CASE MatFlush(t)
      BY <3>1 DEF MatFlush, scanVars, history
    <3>2. CASE MatFixpoint(t)
      <4>1. 0 \in 0..MaxIterations
        BY OptionsTyped
      <4>2. QED
        BY <3>2, <4>1 DEF MatFixpoint, scanVars, history
    <3>3. QED
      BY <2>7, <3>1, <3>2
  <2>8. ASSUME NEW t \in Threads, MatInsert(t) PROVE CallTypes'
    BY <2>8 DEF MatInsert, matVars, scanVars, history
  <2>9. ASSUME NEW t \in Threads, NEW g \in InferredGraphs, NEW R \in SUBSET Assertable,
               OdBegin(t, g, R)
        PROVE  CallTypes'
    BY <2>9, OptionsTyped DEF OdBegin, matVars, scanVars
  <2>10. ASSUME NEW t \in Threads, OdNoIndex(t) \/ OdCheck(t) \/ OdCascade(t) PROVE CallTypes'
    BY <2>10 DEF OdNoIndex, OdCheck, OdCascade, matVars, scanVars, history
  <2>11. ASSUME NEW t \in Threads, OdCascaded(t) PROVE CallTypes'
    BY <2>11 DEF OdCascaded, matVars, scanVars
  <2>12. ASSUME NEW t \in Threads, OdRemove(t) PROVE CallTypes'
    BY <2>12 DEF OdRemove, matVars, scanVars, history
  <2>13. ASSUME NEW t \in Threads, OdForget(t) PROVE CallTypes'
    BY <2>13 DEF OdForget, matVars, scanVars
  <2>14. CASE OdCascading \/ UNCHANGED vars
    BY <2>14 DEF OdCascading, vars, callVars, matVars, scanVars, history
  <2>15. QED
    BY <2>1, <2>2, <2>3, <2>4, <2>5, <2>6, <2>7, <2>8, <2>9, <2>10, <2>11, <2>12, <2>13, <2>14
    DEF Next, Call, Step
<1>3. QED
  BY <1>1, <1>2, PTL DEF Spec

-----------------------------------------------------------------------------
(* The composed system implements the index.                               *)

\* Every step of a call is a step of the index or leaves it alone: no call
\* reads or writes the maps outside a critical section, hands record
\* something that is no derivation, or forgets what no cascade returned.
THEOREM ImplementsIndex == Spec => IndexSpec
<1>1. Init => Index!Init
  BY DEF Init
<1>2. CallTypes /\ [Next]_vars => [Index!Next]_(Index!vars)
  <2> SUFFICES ASSUME CallTypes, [Next]_vars PROVE Index!Next \/ UNCHANGED Index!vars
    OBVIOUS
  <2> USE DEF indexVars, indexMaps, Index!vars, Index!maps, Index!locals
  <2>1. ASSUME NEW t \in Threads, MatFlush(t) \/ MatFixpoint(t)
        PROVE  Index!Next \/ UNCHANGED Index!vars
    BY <2>1 DEF MatFlush, MatFixpoint, FlushToIndex, CallTypes, Index!Next
  <2>2. ASSUME NEW t \in Threads, OdCascade(t) PROVE Index!Next
    BY <2>2, QuadsFinite DEF OdCascade, CallTypes, Index!Next
  <2>3. ASSUME NEW t \in Threads, OdCascaded(t) PROVE Index!Next
    BY <2>3 DEF OdCascaded, Index!Next, Index!CascadeStep
  <2>4. ASSUME NEW t \in Threads, OdForget(t) PROVE Index!Next
    BY <2>4 DEF OdForget, Index!Next
  <2>5. ASSUME NEW t \in Threads, ClearIndex(t) PROVE Index!Next
    BY <2>5 DEF ClearIndex, Index!Next
  <2>6. CASE OdCascading
    BY <2>6 DEF OdCascading, Index!Next, Index!CascadeStep
  <2>7. CASE UNCHANGED vars
    BY <2>7 DEF vars
  <2>8. ASSUME NEW t \in Threads,
               \/ \E q \in Assertable : Insert(t, q) \/ Delete(t, q)
               \/ \E g \in InferredGraphs, tracking \in TrackOptions : MatBegin(t, g, tracking)
               \/ \E g \in InferredGraphs, R \in SUBSET Assertable : OdBegin(t, g, R)
               \/ ClearStore(t) \/ MatIterate(t) \/ MatGiveUp(t) \/ MatScan(t)
               \/ MatFire(t) \/ MatInsert(t) \/ OdNoIndex(t) \/ OdCheck(t) \/ OdRemove(t)
        PROVE  UNCHANGED Index!vars
    BY <2>8 DEF Insert, Delete, MatBegin, OdBegin, ClearStore, MatIterate, MatGiveUp,
                MatScan, MatFire, MatInsert, OdNoIndex, OdCheck, OdRemove
  <2>9. QED
    BY <2>1, <2>2, <2>3, <2>4, <2>5, <2>6, <2>7, <2>8 DEF Next, Call, Step
<1>3. QED
  BY <1>1, <1>2, CallTypesHold, PTL DEF Spec, IndexSpec, Index!Spec

\* The two instances of the index take the same steps.
LEMMA SameSteps == [Index!Next]_(Index!vars) => [IndexProofs!Next]_(IndexProofs!vars)
<1> SUFFICES ASSUME Index!Next \/ UNCHANGED Index!vars
             PROVE  IndexProofs!Next \/ UNCHANGED IndexProofs!vars
  OBVIOUS
<1>1. \A S : Index!SetToSeqs(S) = IndexProofs!SetToSeqs(S)
  BY Zenon DEF Index!SetToSeqs, IndexProofs!SetToSeqs, Index!Cardinality,
     IndexProofs!Cardinality
<1>2. ASSUME NEW F \in SUBSET Firings, Index!Record(F) PROVE IndexProofs!Next
  <2>1. IndexProofs!Record(F)
    BY <1>2 DEF Index!Record, IndexProofs!Record, Index!RecordedDerivations,
       IndexProofs!RecordedDerivations, Index!RecordedReverse,
       IndexProofs!RecordedReverse, Index!locals, IndexProofs!locals
  <2>2. QED
    BY <2>1 DEF IndexProofs!Next
<1>3. ASSUME NEW t \in Threads, NEW R \in SUBSET Quads, Index!CascadeBegin(t, R)
      PROVE  IndexProofs!Next
  <2>1. IndexProofs!CascadeBegin(t, R)
    BY <1>1, <1>3 DEF Index!CascadeBegin, IndexProofs!CascadeBegin, Index!maps,
       IndexProofs!maps
  <2>2. QED
    BY <2>1 DEF IndexProofs!Next
<1>4. CASE Index!CascadePop
  <2>1. IndexProofs!CascadePop
    BY <1>4 DEF Index!CascadePop, IndexProofs!CascadePop, Index!Last, IndexProofs!Last,
       Index!Front, IndexProofs!Front, Index!maps, IndexProofs!maps
  <2>2. QED
    BY <2>1 DEF IndexProofs!Next, IndexProofs!CascadeStep
<1>5. ASSUME NEW c \in candidates, Index!CascadeKeep(c) PROVE IndexProofs!Next
  <2>1. IndexProofs!CascadeKeep(c)
    BY <1>5 DEF Index!CascadeKeep, IndexProofs!CascadeKeep, Index!AnySurvives,
       IndexProofs!AnySurvives, Index!Survives, IndexProofs!Survives, Index!maps,
       IndexProofs!maps
  <2>2. QED
    BY <2>1 DEF IndexProofs!Next, IndexProofs!CascadeStep
<1>6. ASSUME NEW c \in candidates, Index!CascadeDelete(c) PROVE IndexProofs!Next
  <2>1. IndexProofs!CascadeDelete(c)
    BY <1>6 DEF Index!CascadeDelete, IndexProofs!CascadeDelete, Index!AnySurvives,
       IndexProofs!AnySurvives, Index!Survives, IndexProofs!Survives, Index!maps,
       IndexProofs!maps
  <2>2. QED
    BY <2>1 DEF IndexProofs!Next, IndexProofs!CascadeStep
<1>7. ASSUME NEW t \in Threads, Index!CascadeReturn(t) PROVE IndexProofs!Next
  <2>1. IndexProofs!CascadeReturn(t)
    BY <1>7 DEF Index!CascadeReturn, IndexProofs!CascadeReturn, Index!CascadeDone,
       IndexProofs!CascadeDone, Index!maps, IndexProofs!maps
  <2>2. QED
    BY <2>1 DEF IndexProofs!Next, IndexProofs!CascadeStep
<1>8. ASSUME NEW t \in Threads, Index!Forget(t) PROVE IndexProofs!Next
  <2>1. IndexProofs!Forget(t)
    BY <1>8 DEF Index!Forget, IndexProofs!Forget, Index!ForgottenDerivations,
       IndexProofs!ForgottenDerivations, Index!ForgottenReverse,
       IndexProofs!ForgottenReverse, Index!locals, IndexProofs!locals
  <2>2. QED
    BY <2>1 DEF IndexProofs!Next
<1>9. CASE Index!Clear
  <2>1. IndexProofs!Clear
    BY <1>9 DEF Index!Clear, IndexProofs!Clear, Index!locals, IndexProofs!locals
  <2>2. QED
    BY <2>1 DEF IndexProofs!Next
<1>10. CASE UNCHANGED Index!vars
  BY <1>10 DEF Index!vars, IndexProofs!vars, Index!maps, IndexProofs!maps, Index!locals,
     IndexProofs!locals
<1>11. QED
  BY <1>2, <1>3, <1>4, <1>5, <1>6, <1>7, <1>8, <1>9, <1>10 DEF Index!Next, Index!CascadeStep

\* What the proofs of the index say of its variables holds here too.
LEMMA IndexTypes == Spec => []Index!TypeOK
<1>1. Index!Init => IndexProofs!Init
  BY DEF Index!Init, IndexProofs!Init
<1>2. IndexProofs!TypeOK => Index!TypeOK
  BY DEF Index!TypeOK, IndexProofs!TypeOK
<1>3. IndexProofs!Spec => []IndexProofs!TypeOK
  <2>1. Firings \subseteq [inferred : Quads, premises : SUBSET Quads]
    BY TableTyped, QuadsFinite DEF Conclusions
  <2>2. IsFiniteSet(Quads)
    BY QuadsFinite
  <2>3. Free \notin Threads
    BY FreeNotThread
  <2>4. QED
    BY <2>1, <2>2, <2>3, IndexProofs!TypeCorrect, Zenon DEF IsFiniteSet, IndexProofs!IsFiniteSet
<1>4. QED
  BY ImplementsIndex, <1>1, SameSteps, <1>2, <1>3, PTL
  DEF IndexSpec, Index!Spec, IndexProofs!Spec

-----------------------------------------------------------------------------
(* Types.                                                                  *)

\* What the calls move between store and rules are quads.
Moved ==
  /\ store \in SUBSET Quads
  /\ found \in [Threads -> SUBSET Quads]
  /\ batch \in [Threads -> SUBSET Quads]

\* Every variable of the composed system keeps its type.
THEOREM TypeCorrect == Spec => []TypeOK
<1>1. Init => Moved
  BY DEF Init, Moved
<1>2. CallTypes /\ Index!TypeOK /\ Moved /\ [Next]_vars => Moved'
  <2> SUFFICES ASSUME CallTypes, Index!TypeOK, Moved, [Next]_vars PROVE Moved'
    OBVIOUS
  <2> USE DEF Moved
  <2>1. ASSUME NEW t \in Threads, NEW q \in Assertable, Insert(t, q) \/ Delete(t, q)
        PROVE  Moved'
    BY <2>1, QuadsFinite DEF Insert, Delete, callVars, matVars, scanVars
  <2>2. ASSUME NEW t \in Threads, MatScan(t) PROVE Moved'
    BY <2>2 DEF MatScan
  <2>3. ASSUME NEW t \in Threads, MatFire(t) PROVE Moved'
    <3> DEFINE new == {f.inferred : f \in Fired(rule[t], graph[t], found[t])} \ store
    <3>1. new \subseteq Quads
      BY <2>3, FiredIsFound, TableTyped DEF MatFire, CallTypes, Conclusions
    <3>2. batch' = [batch EXCEPT ![t] = @ \cup new]
      BY <2>3 DEF MatFire
    <3>3. store' = store /\ found' = [found EXCEPT ![t] = {}]
      BY <2>3 DEF MatFire
    <3> HIDE DEF new
    <3>4. QED
      BY <3>1, <3>2, <3>3
  <2>4. ASSUME NEW t \in Threads, MatInsert(t) PROVE Moved'
    BY <2>4 DEF MatInsert, matVars, scanVars
  <2>5. ASSUME NEW t \in Threads, OdCascaded(t) PROVE Moved'
    BY <2>5 DEF OdCascaded, Index!TypeOK, matVars, scanVars
  <2>6. ASSUME NEW t \in Threads, OdRemove(t) PROVE Moved'
    BY <2>6 DEF OdRemove, matVars, scanVars
  <2>7. ASSUME NEW t \in Threads, ClearStore(t) PROVE Moved'
    BY <2>7 DEF ClearStore, matVars, scanVars
  <2>8. CASE UNCHANGED <<store, found, batch>>
    BY <2>8
  <2>9. ASSUME NEW t \in Threads,
               \/ ClearIndex(t)
               \/ \E g \in InferredGraphs, tracking \in TrackOptions : MatBegin(t, g, tracking)
               \/ \E g \in InferredGraphs, R \in SUBSET Assertable : OdBegin(t, g, R)
               \/ MatIterate(t) \/ MatGiveUp(t) \/ MatFlush(t) \/ MatFixpoint(t)
               \/ OdNoIndex(t) \/ OdCheck(t) \/ OdCascade(t) \/ OdForget(t)
        PROVE  UNCHANGED <<store, found, batch>>
    BY <2>9 DEF ClearIndex, MatBegin, OdBegin, MatIterate, MatGiveUp, MatFlush, MatFixpoint,
                OdNoIndex, OdCheck, OdCascade, OdForget, matVars, scanVars
  <2>10. OdCascading \/ UNCHANGED vars => UNCHANGED <<store, found, batch>>
    BY DEF OdCascading, vars, callVars, matVars, scanVars
  <2>11. QED
    BY <2>1, <2>2, <2>3, <2>4, <2>5, <2>6, <2>7, <2>8, <2>9, <2>10 DEF Next, Call, Step
<1>3. CallTypes /\ Index!TypeOK /\ Moved => TypeOK
  BY DEF CallTypes, Moved, TypeOK
<1>4. QED
  BY <1>1, <1>2, <1>3, CallTypesHold, IndexTypes, PTL DEF Spec

-----------------------------------------------------------------------------
(* No interleaving invents facts.                                          *)

\* Whatever has been asserted, or follows from it.  It only ever grows, so a
\* quad a rule has found stays explained when another thread deletes it.
Known == ever \cup Derivable(ever)

\* NoInventedFacts, strengthened by what is on its way into the store: the
\* premises a rule has found and the quads it has concluded.
OnlyKnown ==
  /\ store \subseteq Known
  /\ \A t \in Threads : found[t] \subseteq Known
  /\ \A t \in Threads : pc[t] # "remove" => batch[t] \subseteq Derivable(ever)

\* No step takes anything out of Known, and only Insert adds to it.
LEMMA KnownGrows ==
  ASSUME CallTypes, Next \/ UNCHANGED vars
  PROVE  ever \subseteq ever' /\ Derivable(ever) \subseteq Derivable(ever') /\ Known \subseteq Known'
<1>1. ever \subseteq ever' /\ ever' \in SUBSET Assertable
  <2>1. ASSUME NEW t \in Threads, NEW q \in Assertable, Insert(t, q) \/ Delete(t, q)
        PROVE  ever \subseteq ever' /\ ever' \in SUBSET Assertable
    BY <2>1 DEF Insert, Delete, CallTypes
  <2>2. ASSUME NEW t \in Threads,
               \/ ClearIndex(t)
               \/ \E g \in InferredGraphs, tracking \in TrackOptions : MatBegin(t, g, tracking)
               \/ \E g \in InferredGraphs, R \in SUBSET Assertable : OdBegin(t, g, R)
               \/ Step(t)
        PROVE  ever' = ever
    BY <2>2 DEF Step, ClearIndex, ClearStore, MatBegin, OdBegin, MatIterate, MatGiveUp,
                MatScan, MatFire, MatFlush, MatFixpoint, MatInsert, OdNoIndex, OdCheck,
                OdCascade, OdCascaded, OdRemove, OdForget, history
  <2>3. OdCascading \/ UNCHANGED vars => ever' = ever
    BY DEF OdCascading, vars, history
  <2>4. QED
    BY <2>1, <2>2, <2>3 DEF Next, Call, CallTypes
<1>2. Derivable(ever) \subseteq Derivable(ever')
  BY <1>1, DerivableMonotone DEF CallTypes
<1>3. QED
  BY <1>1, <1>2 DEF Known

\* Whatever is in an inferred graph follows from quads asserted at some time,
\* however inserts, deletes, clears, materialisations and over-deletions of
\* any number of threads interleave.
THEOREM NoInventedFactsHolds == Spec => []NoInventedFacts
<1>1. Init => OnlyKnown
  BY DEF Init, OnlyKnown
<1>2. TypeOK /\ CallTypes /\ OnlyKnown /\ [Next]_vars => OnlyKnown'
  <2> SUFFICES ASSUME TypeOK, CallTypes, OnlyKnown, Next \/ UNCHANGED vars PROVE OnlyKnown'
    OBVIOUS
  <2>0. Derivable(ever) \subseteq Derivable(ever') /\ Known \subseteq Known'
    BY KnownGrows
  <2> USE DEF TypeOK, Goto
  <2>1. ASSUME NEW t \in Threads, NEW q \in Assertable, Insert(t, q) PROVE OnlyKnown'
    <3>1. ever \subseteq ever' /\ q \in ever'
      BY <2>1 DEF Insert
    <3>2. UNCHANGED <<found, pc, batch>> /\ store' = store \cup {q}
      BY <2>1 DEF Insert, callVars, matVars, scanVars
    <3>3. q \in Known'
      BY <3>1 DEF Known
    <3>4. QED
      BY <2>0, <3>2, <3>3 DEF OnlyKnown
  <2>2. ASSUME NEW t \in Threads, MatScan(t) PROVE OnlyKnown'
    <3>1. /\ UNCHANGED <<store, pc, batch>>
          /\ found' = [found EXCEPT ![t] =
                         @ \cup (store \cap RuleTable[rule[t]].scans[scan'[t]])]
      BY <2>2 DEF MatScan
    <3>2. QED
      BY <2>0, <3>1 DEF OnlyKnown
  <2>3. ASSUME NEW t \in Threads, MatFire(t) PROVE OnlyKnown'
    <3> DEFINE fired == Fired(rule[t], graph[t], found[t])
    <3> DEFINE new == {f.inferred : f \in fired} \ store
    <3>1. \A f \in fired : f.inferred \in Derivable(ever)
      <4> SUFFICES ASSUME NEW f \in fired PROVE f.inferred \in Derivable(ever)
        OBVIOUS
      <4>1. rule[t] \in DOMAIN RuleTable
        BY <2>3 DEF MatFire, CallTypes
      <4>2. f \in Firings /\ f.premises \subseteq found[t]
        BY <4>1, FiredIsFound
      <4>3. f.premises \subseteq ever \cup Derivable(ever)
        BY <4>2 DEF OnlyKnown, Known
      <4>4. QED
        BY <4>2, <4>3, DerivableStep, QuadsFinite DEF CallTypes
    <3>2. new \subseteq Derivable(ever)
      BY <3>1
    <3>3. /\ batch' = [batch EXCEPT ![t] = @ \cup new]
          /\ UNCHANGED store
          /\ found' = [found EXCEPT ![t] = {}]
          /\ pc[t] = "fire"
          /\ \A u \in Threads \ {t} : pc'[u] = pc[u]
      BY <2>3 DEF MatFire
    <3> HIDE DEF new
    <3>4. QED
      BY <2>0, <3>2, <3>3 DEF OnlyKnown
  <2>4. ASSUME NEW t \in Threads, MatInsert(t) PROVE OnlyKnown'
    <3>1. PICK q \in batch[t] :
            /\ store' = store \cup {q}
            /\ batch' = [batch EXCEPT ![t] = @ \ {q}]
      BY <2>4 DEF MatInsert
    <3>2. /\ pc[t] = "insert" /\ UNCHANGED found
          /\ \A u \in Threads \ {t} : pc'[u] = pc[u]
      BY <2>4 DEF MatInsert, matVars, scanVars
    <3>3. q \in Known
      BY <3>2 DEF OnlyKnown, Known
    <3>4. QED
      BY <2>0, <3>1, <3>2, <3>3 DEF OnlyKnown
  <2>5. ASSUME NEW t \in Threads, OdCascaded(t) PROVE OnlyKnown'
    <3>1. /\ UNCHANGED <<store, found>>
          /\ batch' = [batch EXCEPT ![t] = overDeleted]
          /\ pc' = [pc EXCEPT ![t] = IF overDeleted = {} THEN "idle" ELSE "remove"]
      BY <2>5 DEF OdCascaded, matVars, scanVars
    <3>2. QED
      BY <2>0, <3>1 DEF OnlyKnown
  <2>6. ASSUME NEW t \in Threads, OdRemove(t) PROVE OnlyKnown'
    <3>1. PICK q \in batch[t] :
            /\ store' = store \ {q}
            /\ batch' = [batch EXCEPT ![t] = @ \ {q}]
            /\ pc' = [pc EXCEPT ![t] = IF batch[t] = {q} THEN "forget" ELSE "remove"]
      BY <2>6 DEF OdRemove
    <3>2. UNCHANGED found
      BY <2>6 DEF OdRemove, matVars, scanVars
    <3>3. QED
      BY <2>0, <3>1, <3>2 DEF OnlyKnown
  <2>7. ASSUME store' \subseteq store, UNCHANGED <<found, batch>>,
               \A u \in Threads : pc[u] = "remove" => pc'[u] = "remove"
        PROVE  OnlyKnown'
    BY <2>0, <2>7 DEF OnlyKnown
  <2>8. ASSUME NEW t \in Threads,
               \/ \E q \in Assertable : Delete(t, q)
               \/ ClearIndex(t) \/ ClearStore(t)
               \/ \E g \in InferredGraphs, tracking \in TrackOptions : MatBegin(t, g, tracking)
               \/ \E g \in InferredGraphs, R \in SUBSET Assertable : OdBegin(t, g, R)
        PROVE  OnlyKnown'
    <3>1. /\ store' \subseteq store /\ UNCHANGED <<found, batch>>
          /\ \A u \in Threads : pc[u] = "remove" => pc'[u] = "remove"
      BY <2>8 DEF Delete, ClearIndex, ClearStore, MatBegin, OdBegin, callVars, matVars, scanVars
    <3>2. QED
      BY <2>7, <3>1
  <2>9. ASSUME NEW t \in Threads,
               \/ MatIterate(t) \/ MatGiveUp(t) \/ MatFlush(t) \/ MatFixpoint(t)
               \/ OdNoIndex(t) \/ OdCheck(t) \/ OdCascade(t) \/ OdForget(t)
        PROVE  OnlyKnown'
    <3>1. /\ store' \subseteq store /\ UNCHANGED <<found, batch>>
          /\ \A u \in Threads : pc[u] = "remove" => pc'[u] = "remove"
      BY <2>9 DEF MatIterate, MatGiveUp, MatFlush, MatFixpoint, OdNoIndex, OdCheck,
                  OdCascade, OdForget, matVars, scanVars
    <3>2. QED
      BY <2>7, <3>1
  <2>10. CASE OdCascading \/ UNCHANGED vars
    <3>1. /\ store' \subseteq store /\ UNCHANGED <<found, batch>>
          /\ \A u \in Threads : pc[u] = "remove" => pc'[u] = "remove"
      BY <2>10 DEF OdCascading, vars, callVars, matVars, scanVars
    <3>2. QED
      BY <2>7, <3>1
  <2>11. QED
    BY <2>1, <2>2, <2>3, <2>4, <2>5, <2>6, <2>8, <2>9, <2>10 DEF Next, Call, Step
<1>3. CallTypes /\ OnlyKnown => NoInventedFacts
  BY DEF CallTypes, OnlyKnown, Known, NoInventedFacts, Conclusions
<1>4. QED
  BY <1>1, <1>2, <1>3, TypeCorrect, CallTypesHold, PTL DEF Spec

-----------------------------------------------------------------------------
(* Only callers touch the asserted graph.                                  *)

\* What materialise writes and what rdf_dred_overdelete removes is inferred:
\* the index never holds a derivation of an asserted quad, so no cascade
\* over-deletes one.
OnlyInferred ==
  /\ \A q \in Quads : derivations[q] # {} => q \in Conclusions
  /\ overDeleted \subseteq Conclusions
  /\ \A t \in Threads : batch[t] \subseteq Conclusions

\* The index, cascades and batches are about inferred quads alone.
LEMMA OnlyInferredHolds == Spec => []OnlyInferred
<1>1. Init => OnlyInferred
  BY DEF Init, Index!Init, OnlyInferred
<1>2. TypeOK /\ CallTypes /\ OnlyInferred /\ [Next]_vars => OnlyInferred'
  <2> SUFFICES ASSUME TypeOK, CallTypes, OnlyInferred, Next \/ UNCHANGED vars
               PROVE  OnlyInferred'
    OBVIOUS
  <2> USE DEF TypeOK, Index!TypeOK
  <2>1. ASSUME NEW t \in Threads, MatFire(t) PROVE OnlyInferred'
    <3> DEFINE new == {f.inferred : f \in Fired(rule[t], graph[t], found[t])} \ store
    <3>1. new \subseteq Conclusions
      BY <2>1, FiredIsFound, TableTyped DEF MatFire, CallTypes
    <3>2. /\ batch' = [batch EXCEPT ![t] = @ \cup new]
          /\ UNCHANGED <<derivations, overDeleted>>
      BY <2>1 DEF MatFire, indexVars, indexMaps
    <3> HIDE DEF new
    <3>3. QED
      BY <3>1, <3>2 DEF OnlyInferred
  <2>2. ASSUME NEW t \in Threads, MatFlush(t) \/ MatFixpoint(t) PROVE OnlyInferred'
    <3>1. UNCHANGED <<batch, overDeleted>>
      BY <2>2 DEF MatFlush, MatFixpoint, FlushToIndex, Index!Record, Index!locals,
                  indexVars, indexMaps
    <3>2. \/ derivations' = derivations
          \/ derivations' = Index!RecordedDerivations(derivations, toRecord[t])
      BY <2>2 DEF MatFlush, MatFixpoint, FlushToIndex, Index!Record, indexVars, indexMaps
    <3>3. \A g \in toRecord[t] : g.inferred \in Conclusions
      BY TableTyped DEF CallTypes
    <3>4. \A q \in Quads : derivations'[q] # {} => q \in Conclusions
      <4> SUFFICES ASSUME NEW q \in Quads, derivations'[q] # {} PROVE q \in Conclusions
        OBVIOUS
      <4>1. CASE derivations[q] # {}
        BY <4>1 DEF OnlyInferred
      <4>2. CASE derivations[q] = {}
        <5>1. derivations' = Index!RecordedDerivations(derivations, toRecord[t])
          BY <3>2, <4>2
        <5>2. derivations'[q] =
                derivations[q] \cup {f.premises : f \in {g \in toRecord[t] : g.inferred = q}}
          BY <5>1 DEF Index!RecordedDerivations
        <5>3. \E g \in toRecord[t] : g.inferred = q
          BY <4>2, <5>2
        <5>4. QED
          BY <3>3, <5>3
      <4>3. QED
        BY <4>1, <4>2
    <3>5. QED
      BY <3>1, <3>4 DEF OnlyInferred
  <2>3. ASSUME NEW t \in Threads, MatInsert(t) \/ OdRemove(t) PROVE OnlyInferred'
    <3>1. /\ UNCHANGED <<derivations, overDeleted>>
          /\ \E q \in batch[t] : batch' = [batch EXCEPT ![t] = @ \ {q}]
      BY <2>3 DEF MatInsert, OdRemove, indexVars, indexMaps
    <3>2. QED
      BY <3>1 DEF OnlyInferred
  <2>4. ASSUME NEW t \in Threads, OdCascade(t) PROVE OnlyInferred'
    BY <2>4 DEF OdCascade, Index!CascadeBegin, Index!maps, OnlyInferred
  <2>5. ASSUME NEW t \in Threads, OdCascaded(t) PROVE OnlyInferred'
    BY <2>5 DEF OdCascaded, Index!CascadeReturn, Index!maps, OnlyInferred
  <2>6. ASSUME NEW t \in Threads, OdForget(t) PROVE OnlyInferred'
    BY <2>6 DEF OdForget, Index!Forget, Index!ForgottenDerivations, Index!locals, OnlyInferred
  <2>7. ASSUME NEW t \in Threads, ClearIndex(t) PROVE OnlyInferred'
    BY <2>7 DEF ClearIndex, Index!Clear, Index!locals, OnlyInferred
  <2>8. CASE OdCascading
    <3>1. /\ UNCHANGED <<derivations, batch>>
          /\ \/ UNCHANGED overDeleted
             \/ \E c \in candidates : derivations[c] # {} /\ overDeleted' = overDeleted \cup {c}
      BY <2>8 DEF OdCascading, Index!CascadePop, Index!CascadeKeep, Index!CascadeDelete,
                  Index!maps, callVars
    <3>2. QED
      BY <3>1 DEF OnlyInferred
  <2>9. CASE UNCHANGED <<derivations, overDeleted, batch>>
    BY <2>9 DEF OnlyInferred
  <2>10. ASSUME NEW t \in Threads,
               \/ \E q \in Assertable : Insert(t, q) \/ Delete(t, q)
               \/ ClearStore(t)
               \/ \E g \in InferredGraphs, tracking \in TrackOptions : MatBegin(t, g, tracking)
               \/ \E g \in InferredGraphs, R \in SUBSET Assertable : OdBegin(t, g, R)
               \/ MatIterate(t) \/ MatGiveUp(t) \/ MatScan(t)
               \/ OdNoIndex(t) \/ OdCheck(t)
        PROVE  UNCHANGED <<derivations, overDeleted, batch>>
    BY <2>10 DEF Insert, Delete, ClearStore, MatBegin, OdBegin, MatIterate, MatGiveUp,
                 MatScan, OdNoIndex, OdCheck, indexVars, indexMaps, callVars
  <2>11. UNCHANGED vars => UNCHANGED <<derivations, overDeleted, batch>>
    BY DEF vars, indexVars, indexMaps, callVars
  <2>12. QED
    BY <2>1, <2>2, <2>3, <2>4, <2>5, <2>6, <2>7, <2>8, <2>9, <2>10, <2>11 DEF Next, Call, Step
<1>3. QED
  BY <1>1, <1>2, TypeCorrect, CallTypesHold, PTL DEF Spec

\* Neither materialising nor over-deleting changes which asserted quads the
\* store holds, for any number of threads and any rules.
THEOREM AssertedUntouchedHolds == Spec => AssertedUntouched
<1>1. OnlyInferred =>
        ((\E t \in Threads : MatInsert(t) \/ OdRemove(t))
           => store' \cap Assertable = store \cap Assertable)
  BY DEF OnlyInferred, MatInsert, OdRemove, Conclusions
<1>2. QED
  BY <1>1, OnlyInferredHolds, PTL DEF AssertedUntouched

-----------------------------------------------------------------------------
(* One caller at a time: a fixpoint is saturated, index and store describe *)
(* each other between calls, what is removed was unsupported, and the      *)
(* first over-deletion leaves nothing unsupported that no circle holds up. *)

\* There is one thread.
OneCaller == \E t \in Threads : Threads = {t}

\* Every materialise is asked to track.
AlwaysTracks == TrackOptions = {TRUE}

LEMMA TrackedTyped == TrackedConclusions \subseteq Conclusions /\ Conclusions \subseteq Quads
BY DEF TrackedConclusions, Conclusions

-----------------------------------------------------------------------------
(* Which local variables are in use at which statement.                    *)

InUse(t) ==
  /\ pc[t] # "fire" => scan[t] = 0 /\ found[t] = {}
  /\ pc[t] = "flush" => rule[t] = Len(RuleTable) + 1
  /\ batch[t] # {} => pc[t] \in {"fire", "flush", "insert", "remove"}
  /\ toRecord[t] # {} => pc[t] \in {"fire", "flush"}
  /\ pending[t] # {} => pc[t] \in {"remove", "forget"}
  /\ holder # Free <=> pc[t] = "cascading"

Settled == \A t \in Threads : InUse(t)

\* What the scans of the rule at hand have found is what they select.
ScansExact(t) ==
  pc[t] = "fire" =>
    /\ scan[t] <= Len(RuleTable[rule[t]].scans)
    /\ found[t] \subseteq store
    /\ \A k \in 1..scan[t] : store \cap RuleTable[rule[t]].scans[k] \subseteq found[t]

\* The rules evaluated in this iteration have nothing left to derive.
RulesDone(t) ==
  pc[t] \in {"fire", "flush"} =>
    \A i \in DOMAIN RuleTable : i < rule[t] =>
      \A f \in RuleTable[i].instances :
        GraphOf[f.inferred] = graph[t] /\ f.premises \subseteq store
          => f.inferred \in store \cup batch[t]

Evaluated == \A t \in Threads : ScansExact(t) /\ RulesDone(t)

\* With one caller no other thread's locals, mutex or pending result are in
\* the way.
LEMMA SettledHolds == ASSUME OneCaller PROVE Spec => []Settled
<1>1. Init => Settled
  BY DEF Init, Index!Init, Settled, InUse
<1>2. TypeOK /\ Settled /\ [Next]_vars => Settled'
  <2> SUFFICES ASSUME TypeOK, Settled, Next \/ UNCHANGED vars, NEW t \in Threads
               PROVE  InUse(t)'
    BY DEF Settled
  <2>0. InUse(t) /\ Threads = {t} /\ t # Free
    BY FreeNotThread DEF Settled, OneCaller
  <2> USE DEF TypeOK, Index!TypeOK, InUse, Goto, Statements, matVars, scanVars, indexVars
  <2>1. ASSUME NEW q \in Assertable, Insert(t, q) \/ Delete(t, q) PROVE InUse(t)'
    BY <2>0, <2>1 DEF Insert, Delete, callVars
  <2>2. ASSUME ClearIndex(t) \/ ClearStore(t) PROVE InUse(t)'
    BY <2>0, <2>2 DEF ClearIndex, ClearStore, Index!Clear
  <2>3. ASSUME NEW g \in InferredGraphs, NEW tracking \in TrackOptions, MatBegin(t, g, tracking)
        PROVE  InUse(t)'
    BY <2>0, <2>3 DEF MatBegin
  <2>4. ASSUME MatIterate(t) \/ MatGiveUp(t) PROVE InUse(t)'
    BY <2>0, <2>4 DEF MatIterate, MatGiveUp
  <2>5. ASSUME MatScan(t) PROVE InUse(t)'
    BY <2>0, <2>5 DEF MatScan
  <2>6. ASSUME MatFire(t) PROVE InUse(t)'
    BY <2>0, <2>6 DEF MatFire
  <2>7. ASSUME MatFlush(t) \/ MatFixpoint(t) PROVE InUse(t)'
    BY <2>0, <2>7 DEF MatFlush, MatFixpoint, FlushToIndex, Index!Record
  <2>8. ASSUME MatInsert(t) PROVE InUse(t)'
    BY <2>0, <2>8 DEF MatInsert
  <2>9. ASSUME NEW g \in InferredGraphs, NEW R \in SUBSET Assertable, OdBegin(t, g, R)
        PROVE  InUse(t)'
    BY <2>0, <2>9 DEF OdBegin
  <2>10. ASSUME OdNoIndex(t) \/ OdCheck(t) PROVE InUse(t)'
    BY <2>0, <2>10 DEF OdNoIndex, OdCheck
  <2>11. ASSUME OdCascade(t) PROVE InUse(t)'
    BY <2>0, <2>11 DEF OdCascade, Index!CascadeBegin, Index!maps
  <2>12. ASSUME OdCascaded(t) PROVE InUse(t)'
    BY <2>0, <2>12 DEF OdCascaded, Index!CascadeReturn, Index!maps
  <2>13. ASSUME OdRemove(t) PROVE InUse(t)'
    BY <2>0, <2>13 DEF OdRemove
  <2>14. ASSUME OdForget(t) PROVE InUse(t)'
    BY <2>0, <2>14 DEF OdForget, Index!Forget, Index!locals
  <2>15. CASE OdCascading
    BY <2>0, <2>15 DEF OdCascading, Index!CascadePop, Index!CascadeKeep, Index!CascadeDelete,
                       callVars
  <2>16. CASE UNCHANGED vars
    BY <2>0, <2>16 DEF vars, callVars
  <2>17. QED
    BY <2>0, <2>1, <2>2, <2>3, <2>4, <2>5, <2>6, <2>7, <2>8, <2>9, <2>10, <2>11, <2>12, <2>13,
       <2>14, <2>15, <2>16 DEF Next, Call, Step
<1>3. QED
  BY <1>1, <1>2, TypeCorrect, PTL DEF Spec

\* The scans of a rule, taken while nobody else writes, find all there is to
\* find; so what a rule derives is all it can derive.
LEMMA EvaluatedHolds == ASSUME OneCaller PROVE Spec => []Evaluated
<1>1. Init => Evaluated
  BY DEF Init, Evaluated, ScansExact, RulesDone
<1>2. TypeOK /\ CallTypes /\ Settled /\ Evaluated /\ [Next]_vars => Evaluated'
  <2> SUFFICES ASSUME TypeOK, CallTypes, Settled, Evaluated, Next \/ UNCHANGED vars,
                      NEW t \in Threads
               PROVE  (ScansExact(t) /\ RulesDone(t))'
    BY DEF Evaluated
  <2> DEFINE Inv == ScansExact(t) /\ RulesDone(t)
  <2>0. Inv /\ InUse(t) /\ Threads = {t}
    BY DEF Evaluated, Settled, OneCaller
  <2>1. ASSUME pc'[t] \notin {"fire", "flush"} PROVE Inv'
    BY <2>1 DEF ScansExact, RulesDone
  <2>2. ASSUME UNCHANGED <<store, pc, graph, rule, scan, found, batch>> PROVE Inv'
    BY <2>0, <2>2 DEF ScansExact, RulesDone
  <2>3. ASSUME MatIterate(t) PROVE Inv'
    <3>1. /\ rule'[t] = 1 /\ UNCHANGED <<scan, found>> /\ scan[t] = 0 /\ found[t] = {}
      BY <2>0, <2>3 DEF MatIterate, InUse, TypeOK, scanVars
    <3>2. RuleTable[1] \in RuleType
      BY TableTyped
    <3>3. 0 <= Len(RuleTable[1].scans)
      BY <3>2, LenProperties DEF RuleType
    <3>4. QED
      BY <3>1, <3>3, TableTyped DEF ScansExact, RulesDone
  <2>4. ASSUME MatScan(t) PROVE Inv'
    <3> DEFINE S == RuleTable[rule[t]].scans
    <3>1. /\ pc[t] = "fire" /\ scan[t] < Len(S) /\ UNCHANGED <<store, pc, graph, batch, rule>>
          /\ scan'[t] = scan[t] + 1
          /\ found'[t] = found[t] \cup (store \cap S[scan[t] + 1])
      BY <2>4 DEF MatScan, TypeOK
    <3>2. RuleTable[rule[t]] \in RuleType
      BY <3>1, TableTyped DEF CallTypes
    <3>3. Len(S) \in Nat /\ scan[t] \in Nat
      BY <3>2, LenProperties DEF RuleType, TypeOK
    <3>4. ScansExact(t)'
      BY <2>0, <3>1, <3>3 DEF ScansExact
    <3>5. RulesDone(t)'
      BY <2>0, <3>1 DEF RulesDone
    <3>6. QED
      BY <3>4, <3>5
  <2>5. ASSUME MatFire(t) PROVE Inv'
    <3> DEFINE S == RuleTable[rule[t]].scans
    <3> DEFINE new == {f.inferred : f \in Fired(rule[t], graph[t], found[t])} \ store
    <3>1. /\ pc[t] = "fire" /\ scan[t] = Len(S) /\ UNCHANGED <<store, graph>>
          /\ rule'[t] = rule[t] + 1 /\ scan'[t] = 0 /\ found'[t] = {}
          /\ batch'[t] = batch[t] \cup new
          /\ pc'[t] = IF rule[t] = Len(RuleTable) THEN "flush" ELSE "fire"
      BY <2>5 DEF MatFire, TypeOK, Goto
    <3>2. rule[t] \in DOMAIN RuleTable /\ rule[t] \in Nat /\ RuleTable[rule[t]] \in RuleType
      BY <3>1, TableTyped DEF CallTypes
    <3>3. DOMAIN S = 1..Len(S)
      BY <3>2 DEF RuleType
    <3>4. ASSUME NEW f \in RuleTable[rule[t]].instances, GraphOf[f.inferred] = graph[t],
                 f.premises \subseteq store
          PROVE  f.inferred \in store \cup new
      <4>1. f.premises \subseteq found[t]
        BY <2>0, <3>1, <3>2, <3>3, <3>4, RulesScanTheirPremises DEF ScansExact
      <4>2. QED
        BY <3>4, <4>1 DEF Fired
    <3> HIDE DEF new
    <3>5. RulesDone(t)'
      <4> SUFFICES ASSUME NEW i \in DOMAIN RuleTable, i < rule[t] + 1,
                          NEW f \in RuleTable[i].instances,
                          GraphOf[f.inferred] = graph[t], f.premises \subseteq store
                   PROVE  f.inferred \in store \cup batch'[t]
        BY <3>1 DEF RulesDone
      <4>1. CASE i = rule[t]
        BY <3>1, <3>4, <4>1
      <4>2. CASE i < rule[t]
        BY <2>0, <3>1, <4>2 DEF RulesDone
      <4>3. i = rule[t] \/ i < rule[t]
        BY <3>2, TableTyped
      <4>4. QED
        BY <4>1, <4>2, <4>3
    <3>6. ScansExact(t)'
      <4> SUFFICES ASSUME pc'[t] = "fire" PROVE 0 <= Len(RuleTable[rule[t] + 1].scans)
        BY <3>1 DEF ScansExact
      <4>1. rule[t] + 1 \in DOMAIN RuleTable
        BY <3>1, <3>2, TableTyped
      <4>2. RuleTable[rule[t] + 1] \in RuleType
        BY <4>1, TableTyped
      <4>3. QED
        BY <4>2, LenProperties DEF RuleType
    <3>7. QED
      BY <3>5, <3>6
  <2>6. ASSUME NEW q \in Assertable, Insert(t, q) \/ Delete(t, q) PROVE Inv'
    BY <2>1, <2>6 DEF Insert, Delete, callVars
  <2>7. ASSUME \/ ClearIndex(t) \/ ClearStore(t)
               \/ \E g \in InferredGraphs, tracking \in TrackOptions : MatBegin(t, g, tracking)
               \/ \E g \in InferredGraphs, R \in SUBSET Assertable : OdBegin(t, g, R)
               \/ MatGiveUp(t) \/ MatFlush(t) \/ MatFixpoint(t) \/ MatInsert(t)
               \/ OdNoIndex(t) \/ OdCheck(t) \/ OdCascade(t) \/ OdCascaded(t)
               \/ OdRemove(t) \/ OdForget(t)
        PROVE  Inv'
    <3>1. pc'[t] \notin {"fire", "flush"}
      BY <2>7 DEF ClearIndex, ClearStore, MatBegin, OdBegin, MatGiveUp, MatFlush, MatFixpoint,
                  MatInsert, OdNoIndex, OdCheck, OdCascade, OdCascaded, OdRemove, OdForget,
                  Goto, TypeOK
    <3>2. QED
      BY <2>1, <3>1
  <2>8. CASE OdCascading \/ UNCHANGED vars
    BY <2>2, <2>8 DEF OdCascading, vars, callVars, matVars, scanVars
  <2>9. QED
    BY <2>0, <2>3, <2>4, <2>5, <2>6, <2>7, <2>8 DEF Next, Call, Step
<1>3. QED
  BY <1>1, <1>2, TypeCorrect, CallTypesHold, SettledHolds, PTL DEF Spec

\* A materialise that returns normally has left nothing derivable out of the
\* graph it wrote.
THEOREM FixpointIsSaturatedHolds == ASSUME OneCaller PROVE Spec => FixpointIsSaturated
<1>1. CallTypes /\ Settled /\ Evaluated =>
        (\A t \in Threads : MatFixpoint(t) =>
           \A f \in Firings : GraphOf[f.inferred] = graph[t] /\ f.premises \subseteq store
                                => f.inferred \in store)
  <2> SUFFICES ASSUME CallTypes, Settled, Evaluated, NEW t \in Threads, MatFixpoint(t),
                      NEW f \in Firings, GraphOf[f.inferred] = graph[t], f.premises \subseteq store
               PROVE  f.inferred \in store
    OBVIOUS
  <2>1. pc[t] = "flush" /\ batch[t] = {}
    BY DEF MatFixpoint
  <2>2. PICK i \in DOMAIN RuleTable : f \in RuleTable[i].instances
    BY DEF Firings
  <2>3. i < rule[t]
    BY <2>1, TableTyped DEF Settled, InUse
  <2>4. QED
    BY <2>1, <2>2, <2>3 DEF Evaluated, RulesDone
<1>2. QED
  BY <1>1, CallTypesHold, SettledHolds, EvaluatedHolds, PTL DEF Spec, FixpointIsSaturated

-----------------------------------------------------------------------------
(* Index and store.                                                        *)

\* A quad with derivations is in the store or on its way in or out.
DerivationsPlaced(t) ==
  \A q \in Quads : derivations[q] # {} => q \in store \cup batch[t] \cup pending[t]

ToRecordPlaced(t) == \A f \in toRecord[t] : f.inferred \in store \cup batch[t]

\* A quad of the tracked rules that is in an inferred graph, or about to be,
\* has a derivation or gets one before it is inserted.
Explained(t) ==
  /\ pc[t] \in {"loop", "fire", "flush", "insert"} => track[t]
  /\ pc[t] # "clear_store" => \A q \in store \cap TrackedConclusions : derivations[q] # {}
  /\ pc[t] = "clear_store" => \A q \in Quads : derivations[q] = {}
  /\ pc[t] \in {"fire", "flush"} =>
       \A q \in batch[t] \cap TrackedConclusions : \E f \in toRecord[t] : f.inferred = q
  /\ pc[t] = "insert" => \A q \in batch[t] \cap TrackedConclusions : derivations[q] # {}

\* What a cascade returned is removed before it is forgotten.
Removing(t) ==
  /\ pc[t] \in {"remove", "forget"} => pending[t] \cap store \subseteq batch[t]
  /\ pc[t] = "remove" => batch[t] \subseteq pending[t]

Described ==
  \A t \in Threads :
    DerivationsPlaced(t) /\ ToRecordPlaced(t) /\ Explained(t) /\ Removing(t)

\* Materialise records before it inserts and an over-deletion removes before
\* it forgets; at the end of each call every quad is accounted for.
LEMMA DescribedHolds == ASSUME OneCaller, AlwaysTracks PROVE Spec => []Described
<1>1. Init => Described
  BY DEF Init, Index!Init, Described, DerivationsPlaced, ToRecordPlaced, Explained, Removing
<1>2. TypeOK /\ CallTypes /\ Settled /\ OnlyInferred /\ Described /\ [Next]_vars => Described'
  <2> DEFINE Inv(t) == DerivationsPlaced(t) /\ ToRecordPlaced(t) /\ Explained(t) /\ Removing(t)
  <2> SUFFICES ASSUME TypeOK, CallTypes, Settled, OnlyInferred, Described,
                      Next \/ UNCHANGED vars, NEW t \in Threads
               PROVE  Inv(t)'
    BY DEF Described
  <2>0. Inv(t) /\ InUse(t) /\ Threads = {t}
    BY DEF Described, Settled, OneCaller
  <2> USE DEF DerivationsPlaced, ToRecordPlaced, Explained, Removing
  <2> DEFINE Resting == {"idle", "check", "cascade", "cascading"}
  <2>1. ASSUME pc[t] \in Resting, pc'[t] \in Resting,
               UNCHANGED <<derivations, batch, toRecord, pending>>,
               store' \cap Conclusions = store \cap Conclusions
        PROVE  Inv(t)'
    BY <2>0, <2>1, TrackedTyped DEF InUse, OnlyInferred, TypeOK
  <2>2. ASSUME NEW q \in Assertable, Insert(t, q) \/ Delete(t, q) PROVE Inv(t)'
    <3>1. store' \cap Conclusions = store \cap Conclusions
      BY <2>2 DEF Insert, Delete, Conclusions
    <3>2. pc[t] = "idle" /\ UNCHANGED <<pc, derivations, batch, toRecord, pending>>
      BY <2>2 DEF Insert, Delete, callVars, matVars, indexVars, indexMaps
    <3>3. QED
      BY <2>1, <3>1, <3>2
  <2>3. ASSUME ClearIndex(t) PROVE Inv(t)'
    <3>1. /\ pc[t] = "idle" /\ pc'[t] = "clear_store"
          /\ \A q \in Quads : derivations'[q] = {}
          /\ UNCHANGED <<store, batch, toRecord, pending>>
      BY <2>3 DEF ClearIndex, Index!Clear, Index!locals, TypeOK, Goto, matVars
    <3>2. QED
      BY <2>0, <3>1 DEF InUse
  <2>4. ASSUME ClearStore(t) PROVE Inv(t)'
    <3>1. /\ pc[t] = "clear_store" /\ pc'[t] = "idle" /\ store' = {}
          /\ UNCHANGED <<derivations, batch, toRecord, pending>>
      BY <2>4 DEF ClearStore, TypeOK, Goto, matVars, indexVars, indexMaps
    <3>2. QED
      BY <2>0, <3>1 DEF InUse
  <2>5. ASSUME NEW g \in InferredGraphs, NEW tracking \in TrackOptions, MatBegin(t, g, tracking)
        PROVE  Inv(t)'
    <3>1. /\ pc[t] = "idle" /\ pc'[t] = "loop" /\ track'[t]
          /\ UNCHANGED <<store, derivations, batch, toRecord, pending>>
      BY <2>5 DEF MatBegin, TypeOK, Goto, indexVars, indexMaps, AlwaysTracks
    <3>2. QED
      BY <2>0, <3>1 DEF InUse
  <2>6. ASSUME MatIterate(t) \/ MatGiveUp(t) PROVE Inv(t)'
    <3>1. /\ pc[t] = "loop" /\ pc'[t] \in {"fire", "idle"}
          /\ UNCHANGED <<store, derivations, batch, toRecord, pending, track>>
      BY <2>6 DEF MatIterate, MatGiveUp, TypeOK, Goto, indexVars, indexMaps
    <3>2. QED
      BY <2>0, <3>1 DEF InUse
  <2>7. ASSUME MatScan(t) PROVE Inv(t)'
    <3>1. UNCHANGED <<store, pc, derivations, batch, toRecord, pending, track>>
      BY <2>7 DEF MatScan, indexVars, indexMaps
    <3>2. QED
      BY <2>0, <3>1
  <2>8. ASSUME MatFire(t) PROVE Inv(t)'
    <3> DEFINE fired == Fired(rule[t], graph[t], found[t])
    <3> DEFINE new == {f.inferred : f \in fired} \ store
    <3>1. /\ pc[t] = "fire" /\ pc'[t] \in {"fire", "flush"} /\ track[t]
          /\ UNCHANGED <<store, derivations, pending, track>>
          /\ batch'[t] = batch[t] \cup new
          /\ toRecord'[t] = IF rule[t] \in TrackedRules THEN toRecord[t] \cup fired ELSE toRecord[t]
      BY <2>0, <2>8 DEF MatFire, TypeOK, Goto, indexVars, indexMaps
    <3>2. toRecord[t] \subseteq toRecord'[t] /\ toRecord'[t] \subseteq toRecord[t] \cup fired
      BY <3>1
    <3>3. \A f \in fired : f.inferred \in store \cup new
      OBVIOUS
    <3>4. \A q \in new \cap TrackedConclusions : \E f \in toRecord'[t] : f.inferred = q
      <4> SUFFICES ASSUME NEW q \in new \cap TrackedConclusions
                   PROVE  \E f \in toRecord'[t] : f.inferred = q
        OBVIOUS
      <4>1. PICK f \in fired : f.inferred = q
        OBVIOUS
      <4>2. f \in RuleTable[rule[t]].instances /\ rule[t] \in DOMAIN RuleTable
        BY <3>1 DEF Fired, CallTypes
      <4>3. rule[t] \in TrackedRules
        BY <4>1, <4>2 DEF TrackedConclusions
      <4>4. QED
        BY <3>1, <4>1, <4>3
    <3> HIDE DEF new, fired
    <3>5. QED
      BY <2>0, <3>1, <3>2, <3>3, <3>4 DEF InUse
  <2>9. ASSUME MatFlush(t) \/ MatFixpoint(t) PROVE Inv(t)'
    <3>1. /\ pc[t] = "flush" /\ UNCHANGED <<store, batch, track, pending>>
          /\ toRecord'[t] = {}
          /\ \/ batch[t] # {} /\ pc'[t] = "insert"
             \/ batch[t] = {} /\ pc'[t] = "idle"
      BY <2>9 DEF MatFlush, MatFixpoint, FlushToIndex, Index!Record, TypeOK, Goto, indexVars
    <3>2. \A q \in Quads :
            derivations'[q] =
              derivations[q] \cup {f.premises : f \in {h \in toRecord[t] : h.inferred = q}}
      BY <2>9 DEF MatFlush, MatFixpoint, FlushToIndex, Index!Record, Index!RecordedDerivations,
                  indexVars, indexMaps
    <3>3. \A q \in Quads : derivations'[q] # {} <=>
            derivations[q] # {} \/ \E f \in toRecord[t] : f.inferred = q
      BY <3>2
    <3>4. batch[t] \subseteq Quads
      BY DEF TypeOK
    <3>5. QED
      BY <2>0, <3>1, <3>3, <3>4, TrackedTyped DEF InUse
  <2>10. ASSUME MatInsert(t) PROVE Inv(t)'
    <3>1. PICK q \in batch[t] :
            /\ store' = store \cup {q} /\ batch'[t] = batch[t] \ {q}
            /\ pc'[t] = IF batch[t] = {q} THEN "loop" ELSE "insert"
      BY <2>10 DEF MatInsert, TypeOK, Goto
    <3>2. pc[t] = "insert" /\ UNCHANGED <<derivations, toRecord, pending, track>>
      BY <2>10 DEF MatInsert, matVars, indexVars, indexMaps
    <3>3. QED
      BY <2>0, <3>1, <3>2 DEF InUse
  <2>11. ASSUME \/ \E g \in InferredGraphs, R \in SUBSET Assertable : OdBegin(t, g, R)
                \/ OdNoIndex(t) \/ OdCheck(t)
        PROVE  Inv(t)'
    <3>1. /\ pc[t] \in Resting /\ pc'[t] \in Resting
          /\ UNCHANGED <<store, derivations, batch, toRecord, pending>>
      BY <2>11 DEF OdBegin, OdNoIndex, OdCheck, TypeOK, Goto, matVars, indexVars, indexMaps
    <3>2. QED
      BY <2>1, <3>1
  <2>12. ASSUME OdCascade(t) PROVE Inv(t)'
    <3>1. /\ pc[t] \in Resting /\ pc'[t] \in Resting
          /\ UNCHANGED <<store, derivations, batch, toRecord, pending>>
      BY <2>12 DEF OdCascade, Index!CascadeBegin, Index!maps, TypeOK, Goto, matVars
    <3>2. QED
      BY <2>1, <3>1
  <2>13. ASSUME OdCascaded(t) PROVE Inv(t)'
    <3>1. /\ pc[t] = "cascading" /\ UNCHANGED <<store, derivations, toRecord, track>>
          /\ batch'[t] = overDeleted /\ pending'[t] = overDeleted
          /\ pc'[t] = IF overDeleted = {} THEN "idle" ELSE "remove"
      BY <2>13 DEF OdCascaded, Index!CascadeReturn, Index!maps, Index!TypeOK, TypeOK, Goto, matVars
    <3>2. QED
      BY <2>0, <3>1 DEF InUse
  <2>14. ASSUME OdRemove(t) PROVE Inv(t)'
    <3>1. PICK q \in batch[t] :
            /\ store' = store \ {q} /\ batch'[t] = batch[t] \ {q}
            /\ pc'[t] = IF batch[t] = {q} THEN "forget" ELSE "remove"
      BY <2>14 DEF OdRemove, TypeOK, Goto
    <3>2. pc[t] = "remove" /\ UNCHANGED <<derivations, toRecord, pending, track>>
      BY <2>14 DEF OdRemove, matVars, indexVars, indexMaps
    <3>3. QED
      BY <2>0, <3>1, <3>2 DEF InUse
  <2>15. ASSUME OdForget(t) PROVE Inv(t)'
    <3>1. /\ pc[t] = "forget" /\ pc'[t] = "idle" /\ pending'[t] = {}
          /\ \A q \in Quads : derivations'[q] = IF q \in pending[t] THEN {} ELSE derivations[q]
          /\ UNCHANGED <<store, batch, toRecord, track>>
      BY <2>15 DEF OdForget, Index!Forget, Index!ForgottenDerivations, Index!TypeOK, TypeOK, Goto,
                   matVars
    <3>2. QED
      BY <2>0, <3>1, TrackedTyped DEF InUse
  <2>16. CASE OdCascading \/ UNCHANGED vars
    <3>1. UNCHANGED <<store, pc, derivations, batch, toRecord, pending, track>>
      BY <2>16 DEF OdCascading, Index!CascadePop, Index!CascadeKeep, Index!CascadeDelete,
                   Index!maps, vars, callVars, matVars, indexVars, indexMaps
    <3>2. QED
      BY <2>0, <3>1
  <2>17. QED
    BY <2>0, <2>2, <2>3, <2>4, <2>5, <2>6, <2>7, <2>8, <2>9, <2>10, <2>11, <2>12, <2>13, <2>14,
       <2>15, <2>16 DEF Next, Call, Step
<1>3. QED
  BY <1>1, <1>2, TypeCorrect, CallTypesHold, SettledHolds, OnlyInferredHolds, PTL DEF Spec

\* Between calls the index has derivations of quads in the inferred graphs
\* only, and of each one there that a tracked rule had to conclude.
THEOREM IndexMatchesStoreHolds ==
  ASSUME OneCaller, AlwaysTracks PROVE Spec => []IndexMatchesStore
<1>1. TypeOK /\ Settled /\ OnlyInferred /\ Described => IndexMatchesStore
  <2> SUFFICES ASSUME TypeOK, Settled, OnlyInferred, Described, Quiescent, NEW q \in Quads
               PROVE  /\ derivations[q] # {} => q \in store \cap Conclusions
                      /\ q \in store \cap TrackedConclusions => derivations[q] # {}
    BY DEF IndexMatchesStore, TypeOK
  <2>1. PICK t \in Threads : TRUE
    BY DEF OneCaller
  <2>2. pc[t] = "idle" /\ batch[t] = {} /\ pending[t] = {}
    BY DEF Quiescent, Settled, InUse
  <2>3. QED
    BY <2>2 DEF Described, DerivationsPlaced, Explained, OnlyInferred
<1>2. QED
  BY <1>1, TypeCorrect, SettledHolds, OnlyInferredHolds, DescribedHolds, PTL
-----------------------------------------------------------------------------
(* What a cascade found.                                                   *)

\* Every derivation of a quad that is to go uses something that goes.
Broken(q, S) == \A D \in derivations[q] : D \cap S # {}

Justified(t) ==
  /\ pc[t] = "cascading" =>
       /\ removed = premises[t] \cup overDeleted
       /\ \A q \in overDeleted : Broken(q, removed)
  /\ pc[t] \in {"remove", "forget"} =>
       \A q \in pending[t] : Broken(q, premises[t] \cup pending[t])
  /\ pc[t] = "remove" => batch[t] \subseteq pending[t]

AllJustified == \A t \in Threads : Justified(t)

\* The maps and the store do not change under a cascade of the only caller,
\* so what its loop saw broken is broken still when the quads are removed.
LEMMA JustifiedHolds == ASSUME OneCaller PROVE Spec => []AllJustified
<1>1. Init => AllJustified
  BY DEF Init, AllJustified, Justified
<1>2. TypeOK /\ Settled /\ AllJustified /\ [Next]_vars => AllJustified'
  <2> SUFFICES ASSUME TypeOK, Settled, AllJustified, Next \/ UNCHANGED vars, NEW t \in Threads
               PROVE  Justified(t)'
    BY DEF AllJustified
  <2>0. Justified(t) /\ InUse(t) /\ Threads = {t}
    BY DEF AllJustified, Settled, OneCaller
  <2>1. ASSUME pc'[t] \notin {"cascading", "remove", "forget"} PROVE Justified(t)'
    BY <2>1 DEF Justified
  <2>2. ASSUME OdCascade(t) PROVE Justified(t)'
    <3>1. removed' = premises[t] /\ overDeleted' = {} /\ premises' = premises
          /\ pc'[t] = "cascading"
      BY <2>2 DEF OdCascade, Index!CascadeBegin, TypeOK, Goto
    <3>2. QED
      BY <3>1 DEF Justified
  <2>3. CASE OdCascading
    <3>1. UNCHANGED <<derivations, pc, premises, batch, pending>> /\ holder # Free
      BY <2>3 DEF OdCascading, Index!CascadePop, Index!CascadeKeep, Index!CascadeDelete,
                  Index!maps, callVars
    <3>2. pc[t] = "cascading"
      BY <2>0, <3>1 DEF InUse
    <3>3. CASE UNCHANGED <<removed, overDeleted>>
      BY <2>0, <3>1, <3>3 DEF Justified, Broken
    <3>4. CASE \E c \in candidates : Index!CascadeDelete(c)
      <4>1. PICK c \in candidates :
              /\ \A D \in derivations[c] : D \cap removed # {}
              /\ removed' = removed \cup {c} /\ overDeleted' = overDeleted \cup {c}
        BY <3>4 DEF Index!CascadeDelete, Index!AnySurvives, Index!Survives
      <4>2. \A q \in overDeleted' : Broken(q, removed)
        BY <2>0, <3>2, <4>1 DEF Justified, Broken
      <4>3. removed' = premises[t] \cup overDeleted'
        BY <2>0, <3>2, <4>1 DEF Justified
      <4>4. \A q \in overDeleted' : Broken(q, removed)'
        BY <3>1, <4>1, <4>2 DEF Broken
      <4>5. QED
        BY <3>1, <3>2, <4>3, <4>4 DEF Justified
    <3>5. QED
      BY <2>3, <3>3, <3>4 DEF OdCascading, Index!CascadePop, Index!CascadeKeep
  <2>4. ASSUME OdCascaded(t) PROVE Justified(t)'
    <3>1. /\ pc[t] = "cascading" /\ UNCHANGED derivations
          /\ pending'[t] = overDeleted /\ batch'[t] = overDeleted
          /\ pc'[t] = IF overDeleted = {} THEN "idle" ELSE "remove"
          /\ overDeleted # {} => premises' = premises
      BY <2>4 DEF OdCascaded, Index!CascadeReturn, Index!maps, Index!TypeOK, TypeOK, Goto
    <3>2. QED
      BY <2>0, <3>1 DEF Justified, Broken
  <2>5. ASSUME OdRemove(t) PROVE Justified(t)'
    <3>1. /\ pc[t] = "remove" /\ pc'[t] \in {"remove", "forget"}
          /\ batch'[t] \subseteq batch[t]
          /\ UNCHANGED <<derivations, pending, premises>>
      BY <2>5 DEF OdRemove, TypeOK, Goto, indexVars, indexMaps
    <3>2. QED
      BY <2>0, <3>1 DEF Justified, Broken
  <2>6. CASE UNCHANGED vars
    BY <2>0, <2>6 DEF Justified, Broken, vars, indexVars, indexMaps, callVars
  <2>7. ASSUME NEW q \in Assertable, Insert(t, q) \/ Delete(t, q) PROVE Justified(t)'
    BY <2>1, <2>7 DEF Insert, Delete, callVars
  <2>8. ASSUME \/ ClearIndex(t) \/ ClearStore(t)
               \/ \E g \in InferredGraphs, tracking \in TrackOptions : MatBegin(t, g, tracking)
               \/ \E g \in InferredGraphs, R \in SUBSET Assertable : OdBegin(t, g, R)
               \/ MatIterate(t) \/ MatGiveUp(t) \/ MatScan(t) \/ MatFire(t)
               \/ MatFlush(t) \/ MatFixpoint(t) \/ MatInsert(t)
               \/ OdNoIndex(t) \/ OdCheck(t) \/ OdForget(t)
        PROVE  Justified(t)'
    <3>1. pc'[t] \notin {"cascading", "remove", "forget"}
      BY <2>8 DEF ClearIndex, ClearStore, MatBegin, OdBegin, MatIterate, MatGiveUp, MatScan,
                  MatFire, MatFlush, MatFixpoint, MatInsert, OdNoIndex, OdCheck, OdForget,
                  Goto, TypeOK
    <3>2. QED
      BY <2>1, <3>1
  <2>9. QED
    BY <2>0, <2>2, <2>3, <2>4, <2>5, <2>6, <2>7, <2>8 DEF Next, Call, Step
<1>3. QED
  BY <1>1, <1>2, TypeCorrect, SettledHolds, PTL DEF Spec

\* A quad is removed only when each of its derivations uses something this
\* very over-deletion retracted or removed.
THEOREM OnlyUnsupportedRemovedHolds == ASSUME OneCaller PROVE Spec => OnlyUnsupportedRemoved
<1>1. AllJustified =>
        (\A t \in Threads : OdRemove(t) =>
           \A q \in store \ store' : \A D \in derivations[q] :
             D \cap (premises[t] \cup pending[t]) # {})
  <2> SUFFICES ASSUME AllJustified, NEW t \in Threads, OdRemove(t), NEW q \in store \ store'
               PROVE  \A D \in derivations[q] : D \cap (premises[t] \cup pending[t]) # {}
    OBVIOUS
  <2>1. pc[t] = "remove" /\ q \in batch[t]
    BY DEF OdRemove
  <2>2. QED
    BY <2>1 DEF AllJustified, Justified, Broken
<1>2. QED
  BY <1>1, JustifiedHolds, PTL DEF OnlyUnsupportedRemoved

-----------------------------------------------------------------------------
(* The first over-deletion.                                                *)

\* q is concluded by a rule instance with premises in S.
Concluded(q, S) == \E f \in Firings : f.inferred = q /\ f.premises \subseteq S

\* The quads a rule instance may rest on: what the running over-deletion
\* takes away counts no more.
Footing(t) ==
  IF pc[t] \in {"remove", "forget"}
    THEN (store \cup owed) \ (premises[t] \cup pending[t])
    ELSE store \cup owed

\* Until the first cascade returns, what is recorded rests on what is there.
BeforeFirst(t) ==
  retractions = 0 \/ (retractions = 1 /\ pc[t] \in {"check", "cascade", "cascading"})

Counted(t) ==
  pc[t] \in {"check", "cascade", "cascading", "remove", "forget"} => retractions >= 1

Recorded(t) ==
  BeforeFirst(t) =>
    /\ forgotten = {}
    /\ \A q \in Quads : \A D \in derivations[q] :
         D \subseteq store \cup owed /\ \E f \in Firings : f.inferred = q /\ f.premises = D

Standing(t) ==
  retractions <= 1 =>
    /\ \A q \in (store \cap TrackedConclusions) \ pending[t] : Concluded(q, Footing(t))
    /\ pc[t] \in {"fire", "flush", "insert"} =>
         \A q \in batch[t] : Concluded(q, store \cup owed)
    /\ \A f \in toRecord[t] : f.premises \subseteq store

Standings == \A t \in Threads : Counted(t) /\ Recorded(t) /\ Standing(t)

\* A finished cascade that has no forgotten quad behind it is closed.
LEMMA FreshCascadeClosed == Spec => [](forgotten = {} => CascadeResultClosed)
<1>1. Index!Init => IndexProofs!Init
  BY DEF Index!Init, IndexProofs!Init
<1>2. /\ IndexProofs!Spec => []IndexProofs!EdgesLostOnlyByForget
      /\ IndexProofs!Spec => []IndexProofs!CascadeComplete
  <2>1. Firings \subseteq [inferred : Quads, premises : SUBSET Quads]
    BY TableTyped, QuadsFinite DEF Conclusions
  <2>2. IsFiniteSet(Quads)
    BY QuadsFinite
  <2>3. Free \notin Threads
    BY FreeNotThread
  <2>4. QED
    BY <2>1, <2>2, <2>3, IndexProofs!EdgesLostOnlyByForgetHolds, IndexProofs!CascadeCompleteHolds,
       Zenon DEF IsFiniteSet, IndexProofs!IsFiniteSet
<1>3. IndexProofs!EdgesLostOnlyByForget /\ IndexProofs!CascadeComplete =>
        (forgotten = {} => CascadeResultClosed)
  <2> SUFFICES ASSUME IndexProofs!EdgesLostOnlyByForget, IndexProofs!CascadeComplete,
                      forgotten = {}, Index!CascadeDone
               PROVE  Index!Closed(removed)
    BY DEF CascadeResultClosed
  <2>1. \A c \in Quads : IndexProofs!EdgesExact(c)
    BY DEF IndexProofs!EdgesLostOnlyByForget, IndexProofs!EdgesExact
  <2>2. IndexProofs!Closed(removed)
    BY <2>1 DEF IndexProofs!CascadeComplete, IndexProofs!CascadeDone, Index!CascadeDone
  <2>3. QED
    BY <2>2 DEF IndexProofs!Closed, Index!Closed, IndexProofs!AnySurvives, Index!AnySurvives,
                IndexProofs!Survives, Index!Survives
<1>4. QED
  BY ImplementsIndex, <1>1, SameSteps, <1>2, <1>3, PTL
  DEF IndexSpec, Index!Spec, IndexProofs!Spec

\* Every quad of an inferred graph, or on its way into one, keeps a rule
\* instance to rest on until a second over-deletion begins.
LEMMA StandingsHold ==
  ASSUME OneCaller, AlwaysTracks, CountedRetractions >= 2 PROVE Spec => []Standings
<1>1. Init => Standings
  BY DEF Init, Index!Init, Standings, Counted, Recorded, Standing
<1> DEFINE Base == /\ TypeOK /\ CallTypes /\ Settled /\ Evaluated /\ OnlyInferred /\ Described
                     /\ AllJustified /\ (forgotten = {} => CascadeResultClosed)
<1>2. Base /\ Standings /\ [Next]_vars => Standings'
  <2> DEFINE Inv(t) == Counted(t) /\ Recorded(t) /\ Standing(t)
  <2> SUFFICES ASSUME Base, Standings, Next \/ UNCHANGED vars, NEW t \in Threads
               PROVE  Inv(t)'
    BY DEF Standings
  <2>0. Inv(t) /\ InUse(t) /\ Threads = {t} /\ retractions \in Nat
    BY DEF Standings, Settled, OneCaller, TypeOK
  <2> DEFINE Resting == {"idle", "check", "cascade", "cascading"}
  <2> USE DEF Counted, Recorded, Standing, Footing, BeforeFirst
  \* Steps after which there is no less to rest on.
  <2>1. ASSUME UNCHANGED <<derivations, forgotten, retractions, batch, toRecord, pending>>,
               store' \cap Conclusions = store \cap Conclusions,
               store \cup owed \subseteq store' \cup owed',
               pc[t] \in Resting, pc'[t] \in Resting,
               pc'[t] = "idle" \/ pc[t] # "idle",
               BeforeFirst(t)' => BeforeFirst(t)
        PROVE  Inv(t)'
    BY <2>0, <2>1 DEF InUse, Concluded, TrackedConclusions
  <2>2. ASSUME NEW q \in Assertable, Insert(t, q) \/ Delete(t, q) PROVE Inv(t)'
    <3>1. store' \cap Conclusions = store \cap Conclusions
      BY <2>2 DEF Insert, Delete, Conclusions
    <3>2. store \cup owed \subseteq store' \cup owed'
      BY <2>2 DEF Insert, Delete
    <3>3. /\ pc[t] = "idle"
          /\ UNCHANGED <<pc, derivations, forgotten, retractions, batch, toRecord, pending>>
      BY <2>2 DEF Insert, Delete, callVars, matVars, indexVars, indexMaps
    <3>4. QED
      BY <2>1, <3>1, <3>2, <3>3
  <2>3. ASSUME ClearIndex(t) PROVE Inv(t)'
    <3>1. /\ pc[t] = "idle" /\ pc'[t] = "clear_store" /\ forgotten' = {}
          /\ \A q \in Quads : derivations'[q] = {}
          /\ UNCHANGED <<store, owed, batch, toRecord, pending, retractions>>
      BY <2>3 DEF ClearIndex, Index!Clear, Index!locals, TypeOK, Goto, matVars, history
    <3>2. QED
      BY <2>0, <3>1 DEF InUse, Concluded, TrackedConclusions
  <2>4. ASSUME ClearStore(t) PROVE Inv(t)'
    <3>1. /\ pc[t] = "clear_store" /\ pc'[t] = "idle" /\ store' = {}
          /\ UNCHANGED <<derivations, forgotten, batch, toRecord, pending, retractions>>
      BY <2>4 DEF ClearStore, TypeOK, Goto, matVars, indexVars, indexMaps
    <3>2. \A q \in Quads : derivations[q] = {}
      BY <3>1 DEF Described, Explained
    <3>3. QED
      BY <2>0, <3>1, <3>2 DEF InUse
  <2>5. ASSUME \/ \E g \in InferredGraphs, tracking \in TrackOptions : MatBegin(t, g, tracking)
               \/ MatIterate(t) \/ MatGiveUp(t) \/ MatScan(t)
        PROVE  Inv(t)'
    <3>1. /\ pc[t] \in {"idle", "loop", "fire"} /\ pc'[t] \in {"idle", "loop", "fire"}
          /\ pc[t] # "fire" => batch[t] = {}
          /\ UNCHANGED <<store, owed, derivations, forgotten, batch, toRecord, pending, retractions>>
      BY <2>0, <2>5 DEF MatBegin, MatIterate, MatGiveUp, MatScan, TypeOK, Goto, indexVars,
                        indexMaps, history, InUse
    <3>2. QED
      BY <2>0, <3>1 DEF InUse, Concluded, TrackedConclusions
  <2>6. ASSUME MatFire(t) PROVE Inv(t)'
    <3> DEFINE fired == Fired(rule[t], graph[t], found[t])
    <3> DEFINE new == {f.inferred : f \in fired} \ store
    <3>1. /\ pc[t] = "fire" /\ pc'[t] \in {"fire", "flush"}
          /\ UNCHANGED <<store, owed, derivations, forgotten, pending, retractions>>
          /\ batch'[t] = batch[t] \cup new
          /\ toRecord'[t] \subseteq toRecord[t] \cup fired
      BY <2>6 DEF MatFire, TypeOK, Goto, indexVars, indexMaps, history
    <3>2. \A f \in fired : f \in Firings /\ f.premises \subseteq store
      BY <3>1, FiredIsFound DEF Evaluated, ScansExact, CallTypes
    <3>3. \A q \in new : Concluded(q, store \cup owed)
      BY <3>2 DEF Concluded
    <3> HIDE DEF new, fired
    <3>4. QED
      BY <2>0, <3>1, <3>2, <3>3 DEF InUse, Concluded, TrackedConclusions
  <2>7. ASSUME MatFlush(t) \/ MatFixpoint(t) PROVE Inv(t)'
    <3>1. /\ pc[t] = "flush" /\ pc'[t] \in {"insert", "idle"}
          /\ UNCHANGED <<store, owed, batch, forgotten, pending, retractions>>
          /\ toRecord'[t] = {}
      BY <2>7 DEF MatFlush, MatFixpoint, FlushToIndex, Index!Record, TypeOK, Goto, indexVars,
                  indexMaps, history
    <3>2. \A q \in Quads :
            derivations'[q] =
              derivations[q] \cup {f.premises : f \in {h \in toRecord[t] : h.inferred = q}}
      BY <2>7 DEF MatFlush, MatFixpoint, FlushToIndex, Index!Record, Index!RecordedDerivations,
                  indexVars, indexMaps
    <3>3. toRecord[t] \subseteq Firings
      BY DEF CallTypes
    <3>4. Counted(t)' /\ Standing(t)'
      BY <2>0, <3>1 DEF InUse, Concluded, TrackedConclusions
    <3>5. Recorded(t)'
      <4> SUFFICES ASSUME BeforeFirst(t)', NEW q \in Quads, NEW D \in derivations'[q]
                   PROVE  /\ forgotten' = {}
                          /\ D \subseteq store \cup owed
                          /\ \E f \in Firings : f.inferred = q /\ f.premises = D
        BY <2>0, <3>1
      <4>1. BeforeFirst(t) /\ retractions <= 1
        BY <3>1
      <4>2. CASE D \in derivations[q]
        BY <2>0, <3>1, <4>1, <4>2
      <4>3. CASE \E f \in toRecord[t] : f.inferred = q /\ f.premises = D
        BY <2>0, <3>1, <3>3, <4>1, <4>3
      <4>4. QED
        BY <3>2, <4>2, <4>3
    <3>6. QED
      BY <3>4, <3>5
  <2>8. ASSUME MatInsert(t) PROVE Inv(t)'
    <3>1. PICK q \in batch[t] :
            /\ store' = store \cup {q} /\ batch'[t] = batch[t] \ {q}
            /\ pc'[t] \in {"loop", "insert"}
      BY <2>8 DEF MatInsert, TypeOK, Goto
    <3>2. /\ pc[t] = "insert"
          /\ UNCHANGED <<owed, derivations, forgotten, toRecord, pending, retractions>>
      BY <2>8 DEF MatInsert, matVars, indexVars, indexMaps, history
    <3>3. QED
      BY <2>0, <3>1, <3>2 DEF InUse, Concluded, TrackedConclusions
  <2>9. ASSUME NEW g \in InferredGraphs, NEW R \in SUBSET Assertable, OdBegin(t, g, R)
        PROVE  Inv(t)'
    <3>1. /\ pc[t] = "idle" /\ pc'[t] = "check"
          /\ UNCHANGED <<store, owed, derivations, forgotten, batch, toRecord, pending>>
      BY <2>9 DEF OdBegin, TypeOK, Goto, matVars, indexVars, indexMaps
    <3>2. \/ retractions = 0 /\ retractions' = 1
          \/ retractions' \in Nat /\ retractions' >= 2
      BY <2>0, <2>9, OptionsTyped DEF OdBegin
    <3>3. CASE retractions = 0 /\ retractions' = 1
      BY <2>0, <3>1, <3>3 DEF InUse, Concluded, TrackedConclusions
    <3>4. CASE retractions' \in Nat /\ retractions' >= 2
      BY <3>1, <3>4
    <3>5. QED
      BY <3>2, <3>3, <3>4
  <2>10. ASSUME OdNoIndex(t) \/ OdCheck(t) PROVE Inv(t)'
    <3>1. /\ pc[t] = "check" /\ pc'[t] \in {"idle", "cascade"}
          /\ UNCHANGED <<store, owed, derivations, forgotten, retractions, batch, toRecord, pending>>
      BY <2>10 DEF OdNoIndex, OdCheck, TypeOK, Goto, matVars, indexVars, indexMaps, history
    <3>2. BeforeFirst(t)' => BeforeFirst(t)
      BY <3>1
    <3>3. QED
      BY <2>1, <3>1, <3>2
  <2>11. ASSUME OdCascade(t) PROVE Inv(t)'
    <3>1. /\ pc[t] = "cascade" /\ pc'[t] = "cascading"
          /\ UNCHANGED <<store, owed, derivations, forgotten, retractions, batch, toRecord, pending>>
      BY <2>11 DEF OdCascade, Index!CascadeBegin, Index!maps, TypeOK, Goto, matVars, history
    <3>2. QED
      BY <2>1, <3>1
  <2>12. ASSUME OdCascaded(t) PROVE Inv(t)'
    <3>1. /\ pc[t] = "cascading" /\ UNCHANGED <<store, derivations, forgotten, toRecord, retractions>>
          /\ batch'[t] = overDeleted /\ pending'[t] = overDeleted
          /\ pc'[t] = IF overDeleted = {} THEN "idle" ELSE "remove"
          /\ owed' = IF overDeleted = {} THEN owed \ premises[t] ELSE owed
          /\ overDeleted # {} => premises' = premises
          /\ Index!CascadeDone
      BY <2>12 DEF OdCascaded, Index!CascadeReturn, Index!maps, Index!TypeOK, TypeOK, Goto, matVars
    <3>2. toRecord[t] = {}
      BY <2>0, <3>1 DEF InUse
    <3>3. removed = premises[t] \cup overDeleted
      BY <3>1 DEF AllJustified, Justified
    <3>4. ASSUME retractions <= 1, NEW q \in (store \cap TrackedConclusions) \ overDeleted
          PROVE  Concluded(q, (store \cup owed) \ (premises[t] \cup overDeleted))
      <4>1. q \notin removed
        BY <3>3 DEF TypeOK, Conclusions, TrackedConclusions
      <4>2. BeforeFirst(t) /\ CascadeResultClosed
        BY <2>0, <3>1, <3>4
      <4>3. derivations[q] # {}
        BY <3>1 DEF Described, Explained
      <4>4. PICK D \in derivations[q] : D \cap removed = {}
        BY <3>1, <4>1, <4>2, <4>3
        DEF CascadeResultClosed, Index!Closed, Index!AnySurvives, Index!Survives, Conclusions,
            TrackedConclusions
      <4>5. D \subseteq store \cup owed /\ \E f \in Firings : f.inferred = q /\ f.premises = D
        BY <2>0, <4>2 DEF Conclusions, TrackedConclusions
      <4>6. QED
        BY <3>3, <4>4, <4>5 DEF Concluded
    <3>5. CASE overDeleted = {}
      <4>1. ASSUME retractions <= 1, NEW q \in store \cap TrackedConclusions
            PROVE  Concluded(q, store \cup (owed \ premises[t]))
        BY <3>4, <3>5, <4>1 DEF Concluded
      <4>2. /\ pc'[t] = "idle" /\ pending'[t] = {} /\ batch'[t] = {} /\ owed' = owed \ premises[t]
            /\ retractions >= 1
        BY <2>0, <3>1, <3>5
      <4>3. Counted(t)' /\ Recorded(t)'
        BY <2>0, <3>1, <4>2
      <4>4. Standing(t)'
        BY <3>1, <3>2, <4>1, <4>2
      <4>5. QED
        BY <4>3, <4>4
    <3>6. CASE overDeleted # {}
      BY <2>0, <3>1, <3>2, <3>4, <3>6
    <3>7. QED
      BY <3>5, <3>6
  <2>13. ASSUME OdRemove(t) PROVE Inv(t)'
    <3>1. PICK r \in batch[t] :
            /\ store' = store \ {r} /\ batch'[t] = batch[t] \ {r}
            /\ pc'[t] \in {"remove", "forget"}
      BY <2>13 DEF OdRemove, TypeOK, Goto
    <3>2. /\ pc[t] = "remove"
          /\ UNCHANGED <<owed, premises, derivations, forgotten, toRecord, pending, retractions>>
      BY <2>13 DEF OdRemove, matVars, indexVars, indexMaps, history
    <3>3. r \in pending[t]
      BY <3>1, <3>2 DEF AllJustified, Justified
    <3>4. Footing(t) \subseteq Footing(t)'
      BY <3>1, <3>2, <3>3
    <3>5. QED
      BY <2>0, <3>1, <3>2, <3>3, <3>4 DEF InUse, Concluded, TrackedConclusions
  <2>14. ASSUME OdForget(t) PROVE Inv(t)'
    <3>1. /\ pc[t] = "forget" /\ pc'[t] = "idle" /\ pending'[t] = {} /\ owed' = owed \ premises[t]
          /\ UNCHANGED <<store, batch, toRecord, retractions>>
      BY <2>14 DEF OdForget, Index!Forget, Index!TypeOK, TypeOK, Goto, matVars
    <3>2. pending[t] \cap store = {}
      BY <2>0, <3>1 DEF Described, Removing, InUse
    <3>3. Footing(t) \subseteq Footing(t)'
      BY <3>1
    <3>4. QED
      BY <2>0, <3>1, <3>2, <3>3 DEF InUse, Concluded, TrackedConclusions
  <2>15. CASE OdCascading
    <3>1. /\ holder # Free
          /\ UNCHANGED <<store, pc, owed, derivations, forgotten, retractions, batch, toRecord, pending>>
      BY <2>15 DEF OdCascading, Index!CascadePop, Index!CascadeKeep, Index!CascadeDelete,
                   Index!maps, callVars, matVars, history
    <3>2. pc[t] = "cascading"
      BY <2>0, <3>1 DEF InUse
    <3>3. QED
      BY <2>1, <3>1, <3>2
  <2>16. CASE UNCHANGED vars
    BY <2>0, <2>16 DEF Concluded, vars, indexVars, indexMaps, callVars, matVars, history
  <2> HIDE DEF Inv, Counted, Recorded, Standing, Footing, BeforeFirst
  <2>17. QED
    BY <2>0, <2>2, <2>3, <2>4, <2>5, <2>6, <2>7, <2>8, <2>9, <2>10, <2>11, <2>12, <2>13, <2>14,
       <2>15, <2>16 DEF Next, Call, Step
<1>3. QED
  BY <1>1, <1>2, TypeCorrect, CallTypesHold, SettledHolds, EvaluatedHolds, OnlyInferredHolds,
     DescribedHolds, JustifiedHolds, FreshCascadeClosed, PTL DEF Spec

\* After the first over-deletion every quad of the tracked rules is still
\* concluded by a rule instance whose premises are all there, so an
\* unsupported one is held up by a circle; where the rules have none, none is
\* unsupported.
THEOREM FirstRetractionExactHolds ==
  ASSUME OneCaller, AlwaysTracks, CountedRetractions >= 2 PROVE Spec => []FirstRetractionExact
<1>1. TypeOK /\ Settled /\ Standings => FirstRetractionExact
  <2> DEFINE Held == store \cap TrackedConclusions
  <2> DEFINE A == store \ TrackedConclusions
  <2> SUFFICES ASSUME TypeOK, Settled, Standings, retractions <= 1, Quiescent, owed = {}
               PROVE  /\ \A q \in Held : Concluded(q, store)
                      /\ Acyclic => Held \subseteq Derivable(A)
    BY DEF FirstRetractionExact, Concluded, InferredSupported
  <2>1. \A q \in Held : Concluded(q, store)
    <3>1. PICK t \in Threads : TRUE
      BY DEF OneCaller
    <3>2. pc[t] = "idle" /\ pending[t] = {}
      BY DEF Quiescent, Settled, InUse
    <3>3. QED
      BY <3>2 DEF Standings, Standing, Footing
  <2>2. ASSUME Acyclic, NEW U, U = Held \ Derivable(A), U # {} PROVE FALSE
    <3>0. U \in SUBSET Conclusions /\ U # {}
      BY <2>2, TrackedTyped
    <3>1. PICK q \in U : \A f \in Firings : f.inferred = q => f.premises \cap U = {}
      BY <2>2, <3>0 DEF Acyclic
    <3>2. PICK f \in Firings : f.inferred = q /\ f.premises \subseteq store
      BY <2>1, <2>2 DEF Concluded
    <3>3. f.premises \subseteq A \cup Derivable(A)
      BY <2>2, <3>1, <3>2
    <3>4. A \in SUBSET Quads
      BY DEF TypeOK
    <3>5. q \in Derivable(A)
      BY <3>2, <3>3, <3>4, DerivableStep
    <3>6. QED
      BY <2>2, <3>5
  <2>3. QED
    BY <2>1, <2>2
<1>2. QED
  BY <1>1, TypeCorrect, SettledHolds, StandingsHold, PTL
=============================================================================
