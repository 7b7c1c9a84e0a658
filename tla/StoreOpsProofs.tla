--------------------------- MODULE StoreOpsProofs ---------------------------
(***************************************************************************)
(* Proofs about concurrent calls on the store: types, the counts a call is *)
(* credited with, what a failing call leaves, that every answer is the     *)
(* store at one moment, and that a call no other connection disturbs is    *)
(* atomic.  Any number of connections, any programs.                       *)
(***************************************************************************)
EXTENDS StoreOps, FiniteSetTheorems, TLAPS

(* Finite sets listed as sequences.                                        *)

LEMMA QuadsAreFinite == IsFiniteSet(Quads)
  BY FiniteData, FS_Product DEF Quads

LEMMA StoresAreFinite ==
  ASSUME NEW S \in SUBSET Quads
  PROVE  IsFiniteSet(S) /\ Cardinality(S) \in Nat
  BY QuadsAreFinite, FS_Subset, FS_CardinalityType

\* Whatever the order, a listing of a set has every element once.
LEMMA ListedOnce ==
  ASSUME NEW S, IsFiniteSet(S), NEW s \in SetToSeqs(S)
  PROVE  /\ s \in Seq(S)
         /\ Len(s) = Cardinality(S)
         /\ Range(s) = S
<1> DEFINE n == Cardinality(S)
<1>1. n \in Nat
  BY FS_CardinalityType
<1>2. s \in [1..n -> S] /\ \A i, j \in 1..n : i # j => s[i] # s[j]
  BY DEF SetToSeqs
<1>3. s \in Injection(1..n, S)
  BY <1>2 DEF Injection, IsInjective
<1>4. s \in Surjection(1..n, S)
  BY <1>1, <1>3, FS_Injection, FS_Interval
<1>5. Range(s) = S
  BY <1>2, <1>4 DEF Range, Surjection
<1>6. QED
  BY <1>1, <1>2, <1>5

\* A dump has a line per quad.
LEMMA DumpIsTheStore ==
  ASSUME NEW S \in SUBSET Quads, NEW s \in SetToSeqs(S)
  PROVE  /\ DumpLines(s) \in Seq(Triples)
         /\ Len(DumpLines(s)) = Cardinality(S)
         /\ Range(DumpLines(s)) = {q[1] : q \in S}
<1>1. /\ s \in Seq(S) /\ Len(s) = Cardinality(S) /\ Range(s) = S
  BY ListedOnce, StoresAreFinite
<1>2. /\ DOMAIN s = 1..Len(s) /\ Len(s) \in Nat
      /\ \A k \in DOMAIN s : s[k] \in Quads
      /\ {s[k] : k \in DOMAIN s} = S
  BY <1>1 DEF Range
<1>3. DumpLines(s) = [k \in 1..Len(s) |-> s[k][1]]
  BY <1>2 DEF DumpLines
<1>4. \A k \in 1..Len(s) : s[k][1] \in Triples
  BY <1>2 DEF Quads
<1>5. DumpLines(s) \in Seq(Triples) /\ Len(DumpLines(s)) = Cardinality(S)
  BY <1>1, <1>2, <1>3, <1>4
<1>6. Range(DumpLines(s)) = {q[1] : q \in S}
  BY <1>2, <1>3 DEF Range
<1>7. QED
  BY <1>5, <1>6

-----------------------------------------------------------------------------
(* The inductive invariant.                                                *)

LocalTypes ==
  /\ DOMAIN call = Conns /\ DOMAIN program = Conns
  /\ pc     \in [Conns -> Statements]
  /\ at     \in [Conns -> Nat]
  /\ count  \in [Conns -> Nat]
  /\ rows   \in [Conns -> Seq(Quads)]
  /\ blobs  \in [Conns -> Seq(SUBSET Quads)]
  /\ text   \in [Conns -> Seq(Triples)]
  /\ status \in [Conns -> {"none", "ok", "error"}]
  /\ result \in [Conns -> Int]

HistoryTypes ==
  /\ store   \in SUBSET Quads
  /\ base    \in [Conns -> SUBSET Quads]
  /\ past    \in [Conns -> SUBSET SUBSET Quads]
  /\ alone   \in [Conns -> BOOLEAN]
  /\ brought \in [Conns -> Nat]
  /\ taken   \in [Conns -> Nat]

Loads(c) == call[c].op \in {"load", "reload"}

\* The calls made and to be made are well formed.
Calls(c) ==
  /\ IsCall(call[c])
  /\ \E S : program[c] \in Seq(S) /\ \A k \in S : IsCall(k)

\* What is known of a connection by where it is.
Stage(c) ==
  /\ pc[c] # "idle" => store \in past[c] /\ ~Refused(call[c]) /\ status[c] = "none"
  /\ at[c] >= 1
  /\ pc[c] = "single" => call[c].op \in Singles /\ at[c] = 1
  /\ pc[c] \in {"before", "change", "after"} => call[c].op \in {"insert_many", "update"}
  /\ pc[c] = "remove" => call[c].op = "delete_many"
  /\ pc[c] = "parse" => Loads(c)
  /\ pc[c] = "query" => call[c].op \in Forms \cup {"construct_many"}
  /\ pc[c] \in {"filter", "row"} => call[c].op \in Scans
  /\ pc[c] = "filter" => at[c] = 1
  /\ call[c].op # "update" => result[c] >= 0

Credit(c) ==
  /\ call[c].op = "delete_many" /\ status[c] # "error" => count[c] = taken[c] /\ brought[c] = 0
  /\ Loads(c) => brought[c] <= count[c] /\ taken[c] = 0

\* The rows a scan has got through were written back; one it cannot read
\* back is where it fails.
ScanPrefix(c) ==
  /\ \A i \in 1..(at[c] - 1) : /\ Readable(call[c], rows[c][i])
                               /\ \E S \in past[c] : Applied(call[c], rows[c][i], S)
  /\ status[c] = "error" => at[c] <= Len(rows[c]) /\ ~Readable(call[c], rows[c][at[c]])

\* A call that may still fail has changed nothing, unless it goes through a
\* list: then it has made at most a change for each element behind it.
Leaves(c) ==
  /\ pc[c] \in {"before", "change", "query"} => brought[c] = 0 /\ taken[c] = 0
  /\ Loads(c) \/ call[c].op \in Scans => brought[c] + taken[c] <= at[c] - 1
  /\ call[c].op = "for_each_insert" => taken[c] = 0
  /\ call[c].op = "for_each_delete" => brought[c] = 0
  /\ Loads(c) => \A i \in 1..(at[c] - 1) :
                   <<Document(call[c], text[c])[i], call[c].graph>> \in UNION past[c]
  /\ call[c].op \in Scans => ScanPrefix(c)
  /\ status[c] = "error" /\ ~Loads(c) /\ call[c].op \notin Scans => brought[c] = 0 /\ taken[c] = 0

Moment(c) ==
  /\ pc[c] = "query" => Len(blobs[c]) = at[c] - 1
  /\ \A i \in DOMAIN blobs[c] : \E S \in past[c] : blobs[c][i] = call[c].items[i].selects \cap S
  /\ call[c].op = "dump" /\ status[c] = "ok" =>
       \E S \in past[c] : /\ Len(text[c]) = Cardinality(S)
                          /\ Range(text[c]) = {q[1] : q \in S}
  /\ pc[c] = "row" => \E S \in past[c] : Len(rows[c]) = Cardinality(S) /\ Range(rows[c]) = S

Holds(c) == Calls(c) /\ Stage(c) /\ Credit(c) /\ Leaves(c) /\ Moment(c)

StoreInv ==
  /\ LocalTypes
  /\ HistoryTypes
  /\ \A c \in Conns : Holds(c)

LEMMA StoreInvImplies ==
  StoreInv => TypeOK /\ CreditsAreOwn /\ FailuresLeaveAPrefix /\ ReadsAreMoments
<1> SUFFICES ASSUME StoreInv PROVE TypeOK /\ CreditsAreOwn /\ FailuresLeaveAPrefix /\ ReadsAreMoments
  OBVIOUS
<1>1. ASSUME NEW c \in Conns
      PROVE  IsCall(call[c]) /\ \A i \in DOMAIN program[c] : IsCall(program[c][i])
  <2>1. PICK S : program[c] \in Seq(S) /\ \A k \in S : IsCall(k)
    BY DEF StoreInv, Holds, Calls
  <2>2. \A i \in DOMAIN program[c] : program[c][i] \in S
    BY <2>1
  <2>3. QED
    BY <2>1, <2>2 DEF StoreInv, Holds, Calls
<1>2. TypeOK
  BY <1>1 DEF StoreInv, LocalTypes, HistoryTypes, Holds, Stage, TypeOK
<1>3. CreditsAreOwn
  BY DEF StoreInv, Holds, Credit, Loads, CreditsAreOwn
<1>4. FailuresLeaveAPrefix
  <2>1. ASSUME NEW c \in Conns, status[c] = "error"
        PROVE  /\ brought[c] + taken[c] <= at[c] - 1
               /\ call[c].op \notin {"load", "reload", "for_each_insert"} => brought[c] = 0
               /\ call[c].op # "for_each_delete" => taken[c] = 0
    <3>1. /\ Stage(c) /\ Credit(c) /\ Leaves(c) /\ at[c] \in Nat
      BY DEF StoreInv, Holds, LocalTypes
    <3>2. CASE Loads(c)
      BY <3>1, <3>2 DEF Leaves, Credit, Loads
    <3>3. CASE ~Loads(c) /\ call[c].op \in Scans
      BY <3>1, <3>3 DEF Leaves, Scans
    <3>4. CASE ~Loads(c) /\ call[c].op \notin Scans
      BY <2>1, <3>1, <3>4 DEF Leaves, Stage
    <3>5. QED
      BY <3>2, <3>3, <3>4
  <2>2. ASSUME NEW c \in Conns, status[c] = "error", Loads(c)
        PROVE  \A i \in 1..(at[c] - 1) :
                 <<Document(call[c], text[c])[i], call[c].graph>> \in UNION past[c]
    BY <2>2 DEF StoreInv, Holds, Leaves
  <2>3. ASSUME NEW c \in Conns, status[c] = "error", call[c].op \in Scans
        PROVE  /\ at[c] <= Len(rows[c]) /\ ~Readable(call[c], rows[c][at[c]])
               /\ \A i \in 1..(at[c] - 1) : /\ Readable(call[c], rows[c][i])
                                            /\ \E S \in past[c] : Applied(call[c], rows[c][i], S)
    BY <2>3 DEF StoreInv, Holds, Leaves, ScanPrefix
  <2>4. QED
    BY <2>1, <2>2, <2>3 DEF FailuresLeaveAPrefix, Loads
<1>5. ReadsAreMoments
  BY DEF StoreInv, Holds, Moment, ReadsAreMoments, CursorRows
<1>6. QED
  BY <1>2, <1>3, <1>4, <1>5

-----------------------------------------------------------------------------
(* A connection that does not move.                                        *)

LocalStill(d) ==
  /\ program'[d] = program[d] /\ call'[d] = call[d] /\ pc'[d] = pc[d] /\ at'[d] = at[d]
  /\ count'[d] = count[d] /\ rows'[d] = rows[d] /\ blobs'[d] = blobs[d]
  /\ text'[d] = text[d] /\ status'[d] = status[d] /\ result'[d] = result[d]

\* Others may write meanwhile; a call remembers every store since it began.
HistoryStill(d) ==
  /\ brought'[d] = brought[d] /\ taken'[d] = taken[d]
  /\ past[d] \subseteq past'[d]
  /\ pc[d] # "idle" => store' \in past'[d]

LEMMA StillHolds ==
  ASSUME NEW d, Holds(d), LocalStill(d), HistoryStill(d) PROVE Holds(d)'
<1>1. Calls(d)'
  BY DEF Holds, Calls, LocalStill
<1>2. Stage(d)'
  BY DEF Holds, Stage, Loads, LocalStill, HistoryStill
<1>3. Credit(d)'
  BY DEF Holds, Credit, Loads, LocalStill, HistoryStill
<1>4. Leaves(d)'
  <2>1. Leaves(d) /\ past[d] \subseteq past'[d]
    BY DEF Holds, HistoryStill
  <2>2. ScanPrefix(d) => ScanPrefix(d)'
    <3>1. ASSUME ScanPrefix(d), NEW i \in 1..(at[d] - 1)
          PROVE  /\ Readable(call[d], rows[d][i])'
                 /\ \E S \in past'[d] : Applied(call[d], rows[d][i], S)'
      BY <2>1, <3>1 DEF ScanPrefix, Readable, Applied, RowQuad, LocalStill
    <3>2. QED
      BY <3>1 DEF ScanPrefix, Readable, Applied, RowQuad, LocalStill
  <2>3. Loads(d)' <=> Loads(d)
    BY DEF Loads, LocalStill
  <2>4. ASSUME Loads(d), NEW i \in 1..(at[d] - 1)
        PROVE  <<Document(call[d], text[d])[i], call[d].graph>>' \in UNION past'[d]
    <3>1. <<Document(call[d], text[d])[i], call[d].graph>> \in UNION past[d]
      BY <2>1, <2>4 DEF Leaves
    <3>2. Document(call[d], text[d])' = Document(call[d], text[d])
      BY DEF LocalStill
    <3>3. QED
      BY <2>1, <3>1, <3>2 DEF LocalStill
  <2>5. QED
    BY <2>1, <2>2, <2>3, <2>4 DEF Leaves, LocalStill, HistoryStill
<1>5. Moment(d)'
  BY DEF Holds, Moment, LocalStill, HistoryStill
<1>6. QED
  BY <1>1, <1>2, <1>3, <1>4, <1>5 DEF Holds

\* What a step of connection c has to establish.
Kept(c) ==
  /\ LocalTypes' /\ HistoryTypes'
  /\ Holds(c)'
  /\ \A d \in Conns \ {c} : LocalStill(d) /\ HistoryStill(d)

LEMMA WriteEffects ==
  ASSUME StoreInv, NEW c \in Conns, pc[c] # "idle", NEW new \in SUBSET Quads, Write(c, new)
  PROVE  /\ HistoryTypes'
         /\ store' = new /\ new \in past'[c] /\ past[c] \subseteq past'[c]
         /\ brought'[c] = brought[c] + Cardinality(new \ store)
         /\ taken'[c] = taken[c] + Cardinality(store \ new)
         /\ \A d \in Conns \ {c} : HistoryStill(d)
<1>1. Cardinality(new \ store) \in Nat /\ Cardinality(store \ new) \in Nat
  BY StoresAreFinite DEF StoreInv, HistoryTypes
<1>2. past' \in [Conns -> SUBSET SUBSET Quads] /\ \A d \in Conns : past[d] \subseteq past'[d]
  BY DEF StoreInv, HistoryTypes, Write
<1>3. \A d \in Conns : pc[d] # "idle" => new \in past'[d]
  BY DEF StoreInv, HistoryTypes, Write
<1>4. HistoryTypes'
  BY <1>1, <1>2 DEF StoreInv, HistoryTypes, Write
<1>5. QED
  BY <1>2, <1>3, <1>4 DEF StoreInv, HistoryTypes, Write, HistoryStill

LEMMA ReadEffects ==
  ASSUME StoreInv, NEW c \in Conns, ReadOnly
  PROVE  /\ HistoryTypes'
         /\ store' = store /\ past' = past /\ brought' = brought /\ taken' = taken
         /\ \A d \in Conns : HistoryStill(d)
  BY DEF StoreInv, HistoryTypes, Holds, Stage, ReadOnly, history, HistoryStill

\* A connection that goes on, and one whose call returns.
LEMMA GotoEffects ==
  ASSUME LocalTypes, NEW c \in Conns, NEW statement \in Statements, Goto(c, statement)
  PROVE  /\ pc' \in [Conns -> Statements] /\ pc'[c] = statement
         /\ \A d \in Conns \ {c} : pc'[d] = pc[d]
  BY DEF LocalTypes, Goto

LEMMA ReturnEffects ==
  ASSUME LocalTypes, NEW c \in Conns, NEW how \in {"ok", "error"}, NEW n \in Int, Return(c, how, n)
  PROVE  /\ pc' \in [Conns -> Statements] /\ pc'[c] = "idle"
         /\ status' \in [Conns -> {"none", "ok", "error"}] /\ status'[c] = how
         /\ result' \in [Conns -> Int] /\ result'[c] = n
         /\ \A d \in Conns \ {c} : pc'[d] = pc[d] /\ status'[d] = status[d] /\ result'[d] = result[d]
<1>1. "idle" \in Statements /\ Goto(c, "idle")
  BY DEF Statements, Return
<1>2. pc' \in [Conns -> Statements] /\ pc'[c] = "idle" /\ \A d \in Conns \ {c} : pc'[d] = pc[d]
  BY <1>1, GotoEffects
<1>3. /\ status' \in [Conns -> {"none", "ok", "error"}] /\ status'[c] = how
      /\ result' \in [Conns -> Int] /\ result'[c] = n
      /\ \A d \in Conns \ {c} : status'[d] = status[d] /\ result'[d] = result[d]
  BY DEF Return, LocalTypes
<1>4. QED
  BY <1>2, <1>3

\* What a call that is not refused is given.
LEMMA Arguments ==
  ASSUME NEW k, IsCall(k), ~Refused(k)
  PROVE  /\ k.items \in Seq(ItemsOf(k.op))
         /\ k.deletes \subseteq Quads /\ k.inserts \subseteq Quads
         /\ k.op \in {"insert", "delete"} => k.items[1] \in Triples /\ k.graph \in Graphs
         /\ k.op \in {"insert_many", "delete_many"} => k.items \in Seq(Quads)
         /\ k.op \in {"load", "reload"} => k.graph \in Graphs
<1>1. /\ k.items \in Seq(ItemsOf(k.op)) /\ k.graph \in Graphs \cup {Malformed}
      /\ k.deletes \subseteq Quads /\ k.inserts \subseteq Quads
      /\ k.op \in {"insert", "delete"} => Len(k.items) = 1
  BY DEF IsCall
<1>2. /\ k.op \in {"insert", "delete", "load", "reload"} => k.graph # Malformed
      /\ k.op \in {"insert", "delete", "insert_many", "delete_many"} => Malformed \notin Range(k.items)
  BY DEF Refused
<1>3. CASE k.op \in {"insert", "delete"}
  <2>1. k.items \in Seq(Triples \cup {Malformed}) /\ Len(k.items) = 1
    <3>1. ItemsOf(k.op) = Triples \cup {Malformed}
      BY <1>3 DEF ItemsOf, Forms
    <3>2. QED
      BY <1>1, <1>3, <3>1
  <2>2. k.items[1] \in Triples \cup {Malformed} /\ k.items[1] \in Range(k.items)
    BY <2>1 DEF Range
  <2>3. QED
    BY <1>1, <1>2, <1>3, <2>2
<1>4. CASE k.op \in {"insert_many", "delete_many"}
  <2>1. k.items \in Seq(Quads \cup {Malformed})
    <3>1. ItemsOf(k.op) = Quads \cup {Malformed}
      BY <1>4 DEF ItemsOf, Forms
    <3>2. QED
      BY <1>1, <3>1
  <2>2. \A i \in 1..Len(k.items) : k.items[i] # Malformed
    BY <1>2, <1>4, <2>1 DEF Range
  <2>3. k.items \in Seq(Quads)
    BY <2>1, <2>2
  <2>4. QED
    BY <1>1, <1>4, <2>3
<1>5. CASE k.op \notin {"insert", "delete", "insert_many", "delete_many"}
  BY <1>1, <1>2, <1>5
<1>6. QED
  BY <1>3, <1>4, <1>5

\* A call that goes through no list has changed nothing before its change.
LEMMA OthersLeave ==
  ASSUME NEW c, ~Loads(c)', call'[c].op \notin Scans, status'[c] # "error",
         pc'[c] \in {"before", "change", "query"} => brought'[c] = 0 /\ taken'[c] = 0
  PROVE  Leaves(c)'
  BY DEF Leaves, Loads, Scans

LEMMA BeginKeeps ==
  ASSUME StoreInv, NEW c \in Conns, Begin(c) PROVE Kept(c)
<1> DEFINE k == Head(program[c])
<1>1. IsCall(k) /\ \E S : Tail(program[c]) \in Seq(S) /\ \A j \in S : IsCall(j)
  <2>1. PICK S : program[c] \in Seq(S) /\ \A j \in S : IsCall(j)
    BY DEF StoreInv, Holds, Calls
  <2>2. program[c] # << >>
    BY DEF Begin
  <2>3. QED
    BY <2>1, <2>2
<1>2. /\ call' = [call EXCEPT ![c] = k]
      /\ program' = [program EXCEPT ![c] = Tail(@)]
      /\ at' = [at EXCEPT ![c] = 1] /\ count' = [count EXCEPT ![c] = 0]
      /\ blobs' = [blobs EXCEPT ![c] = << >>]
      /\ base' = [base EXCEPT ![c] = store] /\ past' = [past EXCEPT ![c] = {store}]
      /\ alone' = [alone EXCEPT ![c] = TRUE]
      /\ brought' = [brought EXCEPT ![c] = 0] /\ taken' = [taken EXCEPT ![c] = 0]
      /\ store' = store /\ rows' = rows /\ text' = text
  BY DEF Begin
<1> HIDE DEF k
<1>3. \/ Refused(k) /\ Return(c, "error", 0)
      \/ ~Refused(k) /\ k.op = "insert_many" /\ Return(c, "ok", 0)
      \/ /\ ~Refused(k)
         /\ Goto(c, FirstStatement(k))
         /\ status' = [status EXCEPT ![c] = "none"] /\ result' = [result EXCEPT ![c] = 0]
  BY DEF Begin, k
<1>4. FirstStatement(k) \in Statements \ {"idle", "change", "after", "row"}
  BY DEF FirstStatement, Statements
<1>5. /\ pc' \in [Conns -> Statements]
      /\ status' \in [Conns -> {"none", "ok", "error"}]
      /\ result' \in [Conns -> Int] /\ result'[c] = 0
      /\ \A d \in Conns \ {c} : pc'[d] = pc[d] /\ status'[d] = status[d] /\ result'[d] = result[d]
      /\ \/ pc'[c] = "idle" /\ status'[c] \in {"ok", "error"}
            /\ (status'[c] = "ok" => k.op = "insert_many") /\ (status'[c] = "error" => Refused(k))
         \/ pc'[c] = FirstStatement(k) /\ ~Refused(k) /\ status'[c] = "none"
  <2> LocalTypes
    BY DEF StoreInv
  <2>1. CASE Refused(k) /\ Return(c, "error", 0)
    BY <2>1, ReturnEffects
  <2>2. CASE k.op = "insert_many" /\ Return(c, "ok", 0)
    BY <2>2, ReturnEffects
  <2>3. CASE /\ ~Refused(k) /\ Goto(c, FirstStatement(k))
             /\ status' = [status EXCEPT ![c] = "none"] /\ result' = [result EXCEPT ![c] = 0]
    BY <1>4, <2>3, GotoEffects DEF LocalTypes
  <2>4. QED
    BY <1>3, <2>1, <2>2, <2>3
<1>6. LocalTypes' /\ HistoryTypes'
  <2>1. /\ DOMAIN call' = Conns /\ DOMAIN program' = Conns
        /\ at' \in [Conns -> Nat] /\ count' \in [Conns -> Nat]
        /\ rows' \in [Conns -> Seq(Quads)] /\ text' \in [Conns -> Seq(Triples)]
    BY <1>2 DEF StoreInv, LocalTypes
  <2>2. blobs' \in [Conns -> Seq(SUBSET Quads)]
    BY <1>2 DEF StoreInv, LocalTypes
  <2>3. HistoryTypes'
    BY <1>2 DEF StoreInv, HistoryTypes
  <2>4. QED
    BY <1>5, <2>1, <2>2, <2>3 DEF LocalTypes
<1>7. \A d \in Conns \ {c} : LocalStill(d) /\ HistoryStill(d)
  BY <1>2, <1>5 DEF StoreInv, LocalTypes, HistoryTypes, Holds, Stage, LocalStill, HistoryStill
<1>8. /\ call'[c] = k /\ program'[c] = Tail(program[c]) /\ at'[c] = 1 /\ count'[c] = 0
      /\ blobs'[c] = << >> /\ past'[c] = {store} /\ brought'[c] = 0 /\ taken'[c] = 0
  BY <1>2 DEF StoreInv, LocalTypes, HistoryTypes
<1>9. \/ pc'[c] = "idle" /\ status'[c] \in {"ok", "error"}
         /\ (status'[c] = "ok" => k.op = "insert_many") /\ (status'[c] = "error" => Refused(k))
      \/ pc'[c] = FirstStatement(k) /\ ~Refused(k) /\ status'[c] = "none"
  BY <1>5
<1>10. Calls(c)'
  BY <1>1, <1>8 DEF Calls
<1>11. k.op \in Singles \cup Batches \cup Scans \cup Forms
  BY <1>1 DEF IsCall
<1>12. Stage(c)'
  BY <1>2, <1>4, <1>5, <1>8, <1>9, <1>11
     DEF Stage, Loads, FirstStatement, Singles, Batches, Scans, Forms, Statements
<1>13. Credit(c)' /\ Leaves(c)'
  <2>1. 1..(at'[c] - 1) = {}
    BY <1>8
  <2>2. call'[c].op \in Scans => status'[c] # "error"
    BY <1>8, <1>9 DEF Scans, Refused
  <2>3. call'[c].op \in Scans => ScanPrefix(c)'
    BY <2>1, <2>2 DEF ScanPrefix
  <2>4. QED
    BY <1>8, <1>9, <2>1, <2>3 DEF Credit, Leaves, Loads
<1>14. Moment(c)'
  BY <1>4, <1>8, <1>9 DEF Moment
<1>15. QED
  BY <1>6, <1>7, <1>10, <1>12, <1>13, <1>14 DEF Kept, Holds

-----------------------------------------------------------------------------
(* Steps that read the store and end the call.                             *)

LEMMA ReturnKeeps ==
  ASSUME StoreInv, NEW c \in Conns, pc[c] # "idle", ReadOnly,
         NEW how \in {"ok", "error"}, NEW n \in Int, Return(c, how, n),
         UNCHANGED <<program, call, at, count, rows, blobs>>,
         text' \in [Conns -> Seq(Triples)], \A d \in Conns \ {c} : text'[d] = text[d],
         Loads(c) => text'[c] = text[c],
         call[c].op # "update" => n >= 0,
         how = "error" =>
           /\ ~Loads(c) /\ call[c].op \notin Scans => brought[c] = 0 /\ taken[c] = 0
           /\ call[c].op \in Scans => at[c] <= Len(rows[c]) /\ ~Readable(call[c], rows[c][at[c]]),
         call[c].op = "dump" /\ how = "ok" =>
           \E S \in past[c] : /\ Len(text'[c]) = Cardinality(S)
                              /\ Range(text'[c]) = {q[1] : q \in S}
  PROVE  Kept(c)
<1>1. /\ HistoryTypes'
      /\ store' = store /\ past' = past /\ brought' = brought /\ taken' = taken
      /\ \A d \in Conns : HistoryStill(d)
  BY ReadEffects
<1>2. /\ pc' \in [Conns -> Statements] /\ pc'[c] = "idle"
      /\ status' \in [Conns -> {"none", "ok", "error"}] /\ status'[c] = how
      /\ result' \in [Conns -> Int] /\ result'[c] = n
      /\ \A d \in Conns \ {c} : pc'[d] = pc[d] /\ status'[d] = status[d] /\ result'[d] = result[d]
  BY ReturnEffects DEF StoreInv
<1>3. LocalTypes' /\ \A d \in Conns \ {c} : LocalStill(d)
  BY <1>2 DEF StoreInv, LocalTypes, LocalStill
<1>4. Calls(c) /\ Stage(c) /\ Credit(c) /\ Leaves(c) /\ Moment(c)
  BY DEF StoreInv, Holds
<1>5. Calls(c)' /\ Stage(c)'
  BY <1>2, <1>4 DEF Calls, Stage
<1>6. Credit(c)'
  BY <1>1, <1>2, <1>4 DEF Credit, Stage, Loads
<1>7. Leaves(c)'
  <2>1. pc'[c] = "idle" /\ call' = call /\ at' = at
    BY <1>2
  <2>2. Loads(c) => Document(call[c], text[c])' = Document(call[c], text[c])
    BY <2>1
  <2>3. Loads(c)' <=> Loads(c)
    BY <2>1 DEF Loads
  <2>4. \A i : Loads(c) => Document(call[c], text[c])'[i] = Document(call[c], text[c])[i]
    BY <2>2
  <2>5. Loads(c) => \A i \in 1..(at[c] - 1) :
                      <<Document(call[c], text[c])[i], call[c].graph>> \in UNION past[c]
    BY <1>4 DEF Leaves
  <2>6. Loads(c)' => \A i \in 1..(at'[c] - 1) :
                       <<Document(call[c], text[c])'[i], call'[c].graph>> \in UNION past'[c]
    BY <1>1, <2>1, <2>3, <2>4, <2>5
  <2>7. status'[c] = "error" /\ ~Loads(c)' /\ call'[c].op \notin Scans =>
          brought'[c] = 0 /\ taken'[c] = 0
    BY <1>1, <1>2, <2>1, <2>3
  <2>8. ASSUME call[c].op \in Scans PROVE ScanPrefix(c)'
    <3>1. ScanPrefix(c)
      BY <1>4, <2>8 DEF Leaves
    <3>2. /\ call'[c] = call[c] /\ at'[c] = at[c] /\ rows'[c] = rows[c] /\ past'[c] = past[c]
          /\ status'[c] = how
      BY <1>1, <1>2
    <3>3. \A i \in 1..(at'[c] - 1) :
            /\ Readable(call'[c], rows'[c][i])
            /\ \E S \in past'[c] : Applied(call'[c], rows'[c][i], S)
      BY <3>1, <3>2 DEF ScanPrefix
    <3>4. status'[c] = "error" => at'[c] <= Len(rows'[c]) /\ ~Readable(call'[c], rows'[c][at'[c]])
      BY <2>8, <3>2
    <3>5. QED
      BY <3>3, <3>4 DEF ScanPrefix
  <2>9. /\ Loads(c)' \/ call'[c].op \in Scans => brought'[c] + taken'[c] <= at'[c] - 1
        /\ call'[c].op = "for_each_insert" => taken'[c] = 0
        /\ call'[c].op = "for_each_delete" => brought'[c] = 0
    BY <1>1, <1>4, <2>1, <2>3 DEF Leaves
  <2>10. call'[c].op \in Scans => ScanPrefix(c)'
    BY <2>1, <2>8
  <2>11. QED
    BY <2>1, <2>6, <2>7, <2>9, <2>10 DEF Leaves
<1>8. Moment(c)'
  BY <1>1, <1>2, <1>4 DEF Moment
<1>9. QED
  BY <1>1, <1>3, <1>5, <1>6, <1>7, <1>8 DEF Kept, Holds

\* The read-only statements that return.
Answers(c) ==
  \/ Count(c) \/ CountAll(c) \/ LenAfter(c) \/ RemoveDone(c) \/ LoadDone(c)
  \/ QueryDone(c) \/ Eof(c)
Errors(c) == UpdateFails(c) \/ LoadFails(c) \/ QueryFails(c) \/ RowFails(c)

LEMMA AnswersKeep ==
  ASSUME StoreInv, NEW c \in Conns, Answers(c) PROVE Kept(c)
<1>1. /\ Stage(c) /\ text \in [Conns -> Seq(Triples)] /\ count[c] \in Nat
      /\ store \in SUBSET Quads
  BY DEF StoreInv, Holds, LocalTypes, HistoryTypes
<1>2. Cardinality(store) \in Nat /\ \A g : Cardinality({q \in store : q[2] = g}) \in Nat
  BY <1>1, StoresAreFinite
<1>3. /\ pc[c] # "idle" /\ ReadOnly /\ UNCHANGED <<program, call, at, count, rows, blobs, text>>
      /\ call[c].op # "dump"
  BY <1>1 DEF Answers, Count, CountAll, LenAfter, RemoveDone, LoadDone, QueryDone, Eof, Single,
              Stage, Loads, Scans, Forms
<1>4. PICK n \in Int : Return(c, "ok", n) /\ (call[c].op # "update" => n >= 0)
  <2>1. CASE Count(c) \/ CountAll(c)
    BY <1>2, <2>1 DEF Count, CountAll
  <2>2. CASE LenAfter(c)
    <3> DEFINE change == Cardinality(store) - count[c]
               n == IF call[c].op = "insert_many" /\ change < 0 THEN 0 ELSE change
    <3>1. n \in Int /\ (call[c].op = "insert_many" => n >= 0)
      BY <1>1, <1>2
    <3>2. Return(c, "ok", n) /\ call[c].op \in {"insert_many", "update"}
      BY <1>1, <2>2 DEF LenAfter, Stage
    <3>3. QED
      BY <3>1, <3>2
  <2>3. CASE RemoveDone(c) \/ LoadDone(c) \/ QueryDone(c) \/ Eof(c)
    BY <1>1, <2>3 DEF RemoveDone, LoadDone, QueryDone, Eof
  <2>4. QED
    BY <2>1, <2>2, <2>3 DEF Answers
<1>5. QED
  BY <1>1, <1>3, <1>4, ReturnKeeps

LEMMA ErrorsKeep ==
  ASSUME StoreInv, NEW c \in Conns, Errors(c) PROVE Kept(c)
<1>1. Stage(c) /\ Credit(c) /\ Leaves(c) /\ text \in [Conns -> Seq(Triples)]
  BY DEF StoreInv, Holds, LocalTypes
<1>2. /\ pc[c] # "idle" /\ ReadOnly /\ UNCHANGED <<program, call, at, count, rows, blobs, text>>
      /\ Return(c, "error", 0)
      /\ \/ pc[c] \in {"change", "query"}
         \/ pc[c] = "parse"
         \/ pc[c] = "row" /\ at[c] <= Len(rows[c]) /\ ~Readable(call[c], rows[c][at[c]])
  BY DEF Errors, UpdateFails, LoadFails, QueryFails, RowFails, Row, CursorRows
<1>3. ~Loads(c) /\ call[c].op \notin Scans => brought[c] = 0 /\ taken[c] = 0
  BY <1>1, <1>2 DEF Stage, Leaves
<1>4. call[c].op \in Scans => at[c] <= Len(rows[c]) /\ ~Readable(call[c], rows[c][at[c]])
  BY <1>1, <1>2 DEF Stage, Scans, Loads, Forms
<1>5. QED
  BY <1>1, <1>2, <1>3, <1>4, ReturnKeeps

LEMMA DumpKeeps ==
  ASSUME StoreInv, NEW c \in Conns, Dump(c) PROVE Kept(c)
<1>1. /\ Stage(c) /\ text \in [Conns -> Seq(Triples)] /\ store \in SUBSET Quads
  BY DEF StoreInv, Holds, LocalTypes, HistoryTypes
<1>2. /\ pc[c] = "single" /\ call[c].op = "dump" /\ ReadOnly /\ Return(c, "ok", 0)
      /\ UNCHANGED <<program, call, at, count, rows, blobs>>
  BY DEF Dump, Single
<1> PICK quads \in SetToSeqs(store) : text' = [text EXCEPT ![c] = DumpLines(quads)]
  BY DEF Dump
<1>3. /\ DumpLines(quads) \in Seq(Triples)
      /\ Len(DumpLines(quads)) = Cardinality(store)
      /\ Range(DumpLines(quads)) = {q[1] : q \in store}
  BY <1>1, DumpIsTheStore
<1>4. /\ text' \in [Conns -> Seq(Triples)] /\ text'[c] = DumpLines(quads)
      /\ \A d \in Conns \ {c} : text'[d] = text[d]
  BY <1>1, <1>3
<1>5. store \in past[c]
  BY <1>1, <1>2 DEF Stage
<1>6. ~Loads(c)
  BY <1>2 DEF Loads
<1>7. QED
  BY <1>2, <1>3, <1>4, <1>5, <1>6, ReturnKeeps

-----------------------------------------------------------------------------
(* Steps that change the store.                                            *)

LEMMA SingleWriteKeeps ==
  ASSUME StoreInv, NEW c \in Conns, Insert(c) \/ Delete(c) \/ Clear(c) PROVE Kept(c)
<1>1. /\ Calls(c) /\ Stage(c) /\ Credit(c) /\ Leaves(c) /\ Moment(c)
      /\ store \in SUBSET Quads
  BY DEF StoreInv, Holds, HistoryTypes
<1>2. /\ pc[c] = "single" /\ call[c].op \in {"insert", "delete", "clear"} /\ Return(c, "ok", 1)
      /\ UNCHANGED <<program, call, at, count, rows, blobs, text>>
  BY DEF Insert, Delete, Clear, Single
<1>3. PICK new \in SUBSET Quads : Write(c, new)
  <2>1. CASE Insert(c)
    <3>1. IsCall(call[c]) /\ ~Refused(call[c]) /\ at[c] = 1 /\ call[c].op = "insert"
      BY <1>1, <1>2, <2>1 DEF Calls, Stage, Insert, Single
    <3>2. <<Item(c), call[c].graph>> \in Quads
      BY <3>1, Arguments DEF Item, Quads
    <3>3. store \cup {<<Item(c), call[c].graph>>} \in SUBSET Quads
      BY <1>1, <3>2
    <3>4. QED
      BY <2>1, <3>3 DEF Insert
  <2>2. CASE Delete(c) \/ Clear(c)
    BY <1>1, <2>2 DEF Delete, Clear
  <2>3. QED
    BY <2>1, <2>2
<1>4. /\ HistoryTypes' /\ new \in past'[c] /\ past[c] \subseteq past'[c]
      /\ \A d \in Conns \ {c} : HistoryStill(d)
  BY <1>2, <1>3, WriteEffects
<1>5. /\ pc' \in [Conns -> Statements] /\ pc'[c] = "idle"
      /\ status' \in [Conns -> {"none", "ok", "error"}] /\ status'[c] = "ok"
      /\ result' \in [Conns -> Int] /\ result'[c] = 1
      /\ \A d \in Conns \ {c} : pc'[d] = pc[d] /\ status'[d] = status[d] /\ result'[d] = result[d]
  BY <1>2, ReturnEffects DEF StoreInv
<1>6. LocalTypes' /\ \A d \in Conns \ {c} : LocalStill(d)
  BY <1>2, <1>5 DEF StoreInv, LocalTypes, LocalStill
<1>7. Calls(c)' /\ Stage(c)' /\ Credit(c)' /\ Leaves(c)'
  <2>1. Calls(c)' /\ Stage(c)' /\ Credit(c)'
    BY <1>1, <1>2, <1>5 DEF Calls, Stage, Credit, Loads, Scans
  <2>2. ~Loads(c)' /\ call'[c].op \notin Scans /\ status'[c] # "error"
    BY <1>1, <1>2, <1>5 DEF Stage, Loads, Scans
  <2>3. pc'[c] \in {"before", "change", "query"} => brought'[c] = 0 /\ taken'[c] = 0
    BY <1>1, <1>2, <1>5 DEF Leaves
  <2>4. QED
    BY <2>1, <2>2, <2>3, OthersLeave
<1>8. Moment(c)'
  BY <1>1, <1>2, <1>4, <1>5 DEF Moment
<1>9. QED
  BY <1>4, <1>6, <1>7, <1>8 DEF Kept, Holds

\* A batch or an update between its two counts.
LEMMA BatchWriteKeeps ==
  ASSUME StoreInv, NEW c \in Conns, LoadQuads(c) \/ Update(c) PROVE Kept(c)
<1>1. /\ Calls(c) /\ Stage(c) /\ Credit(c) /\ Leaves(c) /\ Moment(c)
      /\ store \in SUBSET Quads
  BY DEF StoreInv, Holds, HistoryTypes
<1>2. /\ pc[c] = "change" /\ call[c].op \in {"insert_many", "update"} /\ Goto(c, "after")
      /\ UNCHANGED <<program, call, at, count, rows, blobs, text, status, result>>
  BY DEF LoadQuads, Update
<1>3. PICK new \in SUBSET Quads : Write(c, new)
  <2>1. IsCall(call[c]) /\ ~Refused(call[c])
    BY <1>1, <1>2 DEF Calls, Stage
  <2>2. CASE LoadQuads(c)
    <3>1. call[c].items \in Seq(Quads)
      BY <2>1, <2>2, Arguments DEF LoadQuads
    <3>2. Range(call[c].items) \subseteq Quads
      BY <3>1 DEF Range
    <3>3. store \cup Range(call[c].items) \in SUBSET Quads
      BY <1>1, <3>2
    <3>4. QED
      BY <2>2, <3>3 DEF LoadQuads
  <2>3. CASE Update(c)
    <3>1. (store \ call[c].deletes) \cup call[c].inserts \in SUBSET Quads
      BY <1>1, <2>1, Arguments
    <3>2. QED
      BY <2>3, <3>1 DEF Update
  <2>4. QED
    BY <2>2, <2>3
<1>4. /\ HistoryTypes' /\ store' = new /\ new \in past'[c] /\ past[c] \subseteq past'[c]
      /\ \A d \in Conns \ {c} : HistoryStill(d)
  BY <1>2, <1>3, WriteEffects
<1>5. /\ pc' \in [Conns -> Statements] /\ pc'[c] = "after"
      /\ \A d \in Conns \ {c} : pc'[d] = pc[d]
  <2>1. "after" \in Statements
    BY DEF Statements
  <2>2. QED
    BY <1>2, <2>1, GotoEffects DEF StoreInv
<1>6. LocalTypes' /\ \A d \in Conns \ {c} : LocalStill(d)
  BY <1>2, <1>5 DEF StoreInv, LocalTypes, LocalStill
<1>7. Calls(c)' /\ Stage(c)' /\ Credit(c)' /\ Leaves(c)'
  <2>1. Calls(c)' /\ Stage(c)' /\ Credit(c)'
    BY <1>1, <1>2, <1>4, <1>5 DEF Calls, Stage, Credit, Loads
  <2>2. ~Loads(c)' /\ call'[c].op \notin Scans /\ status'[c] # "error"
    BY <1>1, <1>2, <1>5 DEF Stage, Loads, Scans
  <2>3. pc'[c] \in {"before", "change", "query"} => brought'[c] = 0 /\ taken'[c] = 0
    BY <1>1, <1>2, <1>5 DEF Leaves
  <2>4. QED
    BY <2>1, <2>2, <2>3, OthersLeave
<1>8. Moment(c)'
  BY <1>1, <1>2, <1>4, <1>5 DEF Moment
<1>9. QED
  BY <1>4, <1>6, <1>7, <1>8 DEF Kept, Holds

\* A removal is credited when it takes the quad away.
LEMMA RemoveRowKeeps ==
  ASSUME StoreInv, NEW c \in Conns, RemoveRow(c) PROVE Kept(c)
<1>1. /\ Calls(c) /\ Stage(c) /\ Credit(c) /\ Leaves(c) /\ Moment(c)
      /\ store \in SUBSET Quads /\ at[c] \in Nat /\ count[c] \in Nat
  BY DEF StoreInv, Holds, LocalTypes, HistoryTypes
<1> DEFINE gone == IF Item(c) \in store THEN 1 ELSE 0
<1>2. /\ pc[c] = "remove" /\ call[c].op = "delete_many"
      /\ Write(c, store \ {Item(c)})
      /\ count' = [count EXCEPT ![c] = @ + gone]
      /\ at' = [at EXCEPT ![c] = @ + 1]
      /\ UNCHANGED <<program, call, pc, rows, blobs, text, status, result>>
  <2>1. [count EXCEPT ![c] = IF Item(c) \in store THEN @ + 1 ELSE @] = [count EXCEPT ![c] = @ + gone]
    <3>1. CASE Item(c) \in store
      BY <3>1
    <3>2. CASE Item(c) \notin store
      <4>1. count[c] + gone = count[c]
        BY <1>1, <3>2
      <4>2. QED
        BY <3>2, <4>1
    <3>3. QED
      BY <3>1, <3>2
  <2>2. QED
    BY <1>1, <2>1 DEF RemoveRow, Stage
<1>3. /\ Cardinality((store \ {Item(c)}) \ store) = 0
      /\ Cardinality(store \ (store \ {Item(c)})) = gone
  <2>1. (store \ {Item(c)}) \ store = {}
    OBVIOUS
  <2>2. store \ (store \ {Item(c)}) = IF Item(c) \in store THEN {Item(c)} ELSE {}
    OBVIOUS
  <2>3. QED
    BY <2>1, <2>2, FS_EmptySet, FS_Singleton
<1>4. /\ HistoryTypes' /\ store' \in past'[c] /\ past[c] \subseteq past'[c]
      /\ brought'[c] = brought[c] + 0 /\ taken'[c] = taken[c] + gone
      /\ \A d \in Conns \ {c} : HistoryStill(d)
  <2>1. store \ {Item(c)} \in SUBSET Quads /\ pc[c] # "idle"
    BY <1>1, <1>2
  <2>2. QED
    BY <1>2, <1>3, <2>1, WriteEffects
<1> HIDE DEF gone
<1>5. gone \in Nat
  BY DEF gone
<1>6. LocalTypes' /\ \A d \in Conns \ {c} : LocalStill(d)
  <2>1. LocalTypes
    BY DEF StoreInv
  <2>2. count[c] + gone \in Nat /\ at[c] + 1 \in Nat
    BY <1>1, <1>5
  <2>3. count' \in [Conns -> Nat] /\ at' \in [Conns -> Nat]
    BY <1>2, <2>1, <2>2 DEF LocalTypes
  <2>4. LocalTypes'
    BY <1>2, <2>1, <2>3 DEF LocalTypes
  <2>5. ASSUME NEW d \in Conns \ {c} PROVE LocalStill(d)
    BY <1>2, <2>1 DEF LocalTypes, LocalStill
  <2>6. QED
    BY <2>4, <2>5
<1>7. count'[c] = count[c] + gone /\ at'[c] = at[c] + 1
  BY <1>2 DEF StoreInv, LocalTypes
<1>8. /\ brought[c] \in Nat /\ taken[c] \in Nat
  BY DEF StoreInv, HistoryTypes
<1>9. Calls(c)' /\ Stage(c)'
  BY <1>1, <1>2, <1>4, <1>7 DEF Calls, Stage, Loads
<1>10. Credit(c)' /\ Leaves(c)'
  <2>1. Credit(c)'
    BY <1>1, <1>2, <1>4, <1>5, <1>7, <1>8 DEF Credit, Stage, Loads
  <2>2. ~Loads(c)' /\ call'[c].op \notin Scans /\ status'[c] # "error" /\ pc'[c] = "remove"
    BY <1>1, <1>2 DEF Stage, Loads, Scans
  <2>3. QED
    BY <2>1, <2>2, OthersLeave
<1>11. Moment(c)'
  BY <1>1, <1>2, <1>4 DEF Moment
<1>12. QED
  BY <1>4, <1>6, <1>9, <1>10, <1>11 DEF Kept, Holds

\* The document of a load: what the call was given, or the last dump read back.
LEMMA DocumentTyped ==
  ASSUME StoreInv, NEW c \in Conns, Loads(c), NEW i \in 1..Len(Document(call[c], text[c]))
  PROVE  Document(call[c], text[c])[i] \in Triples \cup {Malformed}
<1>1. CASE call[c].op = "reload"
  <2>1. text[c] \in Seq(Triples) /\ Document(call[c], text[c]) = [j \in DOMAIN text[c] |-> Reparsed[text[c][j]]]
    BY <1>1 DEF StoreInv, LocalTypes, Document
  <2>2. DOMAIN text[c] = 1..Len(text[c]) /\ Len(text[c]) \in Nat
    BY <2>1
  <2>3. Len(Document(call[c], text[c])) = Len(text[c])
    BY <2>1, <2>2
  <2>4. text[c][i] \in Triples /\ Document(call[c], text[c])[i] = Reparsed[text[c][i]]
    BY <2>1, <2>2, <2>3
  <2>5. QED
    BY <2>4, ReparsedTyped
<1>2. CASE call[c].op = "load"
  <2>1. IsCall(call[c]) /\ ItemsOf("load") = Triples \cup {Malformed}
    BY DEF StoreInv, Holds, Calls, ItemsOf, Forms
  <2>2. call[c].items \in Seq(Triples \cup {Malformed})
    BY <1>2, <2>1 DEF IsCall
  <2>3. Document(call[c], text[c]) = call[c].items
    BY <1>2 DEF Document
  <2>4. QED
    BY <2>2, <2>3
<1>3. QED
  BY <1>1, <1>2 DEF Loads

LEMMA LengthOfDocument ==
  ASSUME StoreInv, NEW c \in Conns, Loads(c)
  PROVE  Len(Document(call[c], text[c])) \in Nat
<1>1. CASE call[c].op = "reload"
  <2>1. text[c] \in Seq(Triples)
    BY DEF StoreInv, LocalTypes
  <2>2. DOMAIN text[c] = 1..Len(text[c]) /\ Len(text[c]) \in Nat
    BY <2>1
  <2>3. Len(Document(call[c], text[c])) = Len(text[c])
    BY <1>1, <2>1, <2>2 DEF Document
  <2>4. QED
    BY <2>2, <2>3
<1>2. CASE call[c].op = "load"
  <2>1. call[c].items \in Seq(ItemsOf("load")) /\ Document(call[c], text[c]) = call[c].items
    BY <1>2 DEF StoreInv, Holds, Calls, IsCall, Document
  <2>2. QED
    BY <2>1
<1>3. QED
  BY <1>1, <1>2 DEF Loads

\* A statement is inserted where every statement before it is, and counted.
LEMMA LoadStatementKeeps ==
  ASSUME StoreInv, NEW c \in Conns, LoadStatement(c) PROVE Kept(c)
<1> DEFINE document == Document(call[c], text[c])
           quad == <<document[at[c]], call[c].graph>>
<1>1. /\ Calls(c) /\ Stage(c) /\ Credit(c) /\ Leaves(c) /\ Moment(c)
      /\ store \in SUBSET Quads /\ at[c] \in Nat /\ count[c] \in Nat
      /\ brought[c] \in Nat /\ taken[c] \in Nat
  BY DEF StoreInv, Holds, LocalTypes, HistoryTypes
<1>2. /\ pc[c] = "parse" /\ at[c] <= Len(document) /\ document[at[c]] # Malformed
      /\ Write(c, store \cup {quad})
      /\ count' = [count EXCEPT ![c] = @ + 1]
      /\ at' = [at EXCEPT ![c] = @ + 1]
      /\ UNCHANGED <<program, call, pc, rows, blobs, text, status, result>>
  BY DEF LoadStatement
<1>3. Loads(c) /\ at[c] >= 1 /\ ~Refused(call[c]) /\ IsCall(call[c])
  BY <1>1, <1>2 DEF Stage, Calls
<1>4. quad \in Quads
  <2>1. document[at[c]] \in Triples
    <3>1. CASE Len(document) \in Nat
      BY <1>1, <1>2, <1>3, <3>1, DocumentTyped
    <3>2. Len(document) \in Nat
      BY <1>3, LengthOfDocument
    <3>3. QED
      BY <3>1, <3>2
  <2>2. call[c].graph \in Graphs
    BY <1>3, Arguments DEF Loads
  <2>3. QED
    BY <2>1, <2>2 DEF Quads
<1>5. /\ Cardinality((store \cup {quad}) \ store) \in 0..1
      /\ Cardinality(store \ (store \cup {quad})) = 0
  <2> HIDE DEF quad
  <2>1. (store \cup {quad}) \ store = IF quad \in store THEN {} ELSE {quad}
    OBVIOUS
  <2>2. store \ (store \cup {quad}) = {}
    OBVIOUS
  <2>3. Cardinality({}) = 0 /\ Cardinality({quad}) = 1
    BY FS_EmptySet, FS_Singleton
  <2>4. QED
    BY <2>1, <2>2, <2>3
<1>6. /\ HistoryTypes' /\ store' \in past'[c] /\ past[c] \subseteq past'[c]
      /\ quad \in UNION past'[c]
      /\ brought'[c] = brought[c] + Cardinality((store \cup {quad}) \ store) /\ taken'[c] = taken[c]
      /\ \A d \in Conns \ {c} : HistoryStill(d)
  <2> HIDE DEF quad
  <2>1. store \cup {quad} \in SUBSET Quads /\ pc[c] # "idle"
    BY <1>1, <1>2, <1>4
  <2> DEFINE new == store \cup {quad}
  <2>2. quad \in new /\ Write(c, new) /\ new \in SUBSET Quads
    BY <1>2, <2>1
  <2>3. Cardinality(store \ new) = 0
    BY <1>5
  <2>4. new \ store = (store \cup {quad}) \ store
    OBVIOUS
  <2> HIDE DEF new
  <2>5. /\ HistoryTypes' /\ store' = new /\ new \in past'[c] /\ past[c] \subseteq past'[c]
        /\ brought'[c] = brought[c] + Cardinality(new \ store)
        /\ taken'[c] = taken[c] + Cardinality(store \ new)
        /\ \A d \in Conns \ {c} : HistoryStill(d)
    BY <2>1, <2>2, WriteEffects
  <2>6. quad \in UNION past'[c]
    BY <2>2, <2>5
  <2>7. taken'[c] = taken[c]
    BY <1>1, <2>3, <2>5
  <2>8. QED
    BY <2>4, <2>5, <2>6, <2>7
<1>7. LocalTypes' /\ \A d \in Conns \ {c} : LocalStill(d)
  <2> HIDE DEF quad
  <2>1. LocalTypes
    BY DEF StoreInv
  <2>2. count' \in [Conns -> Nat] /\ at' \in [Conns -> Nat]
    BY <1>1, <1>2, <2>1 DEF LocalTypes
  <2>3. LocalTypes'
    BY <1>2, <2>1, <2>2 DEF LocalTypes
  <2>4. ASSUME NEW d \in Conns \ {c} PROVE LocalStill(d)
    BY <1>2, <2>1 DEF LocalTypes, LocalStill
  <2>5. QED
    BY <2>3, <2>4
<1>8. count'[c] = count[c] + 1 /\ at'[c] = at[c] + 1
  BY <1>2 DEF StoreInv, LocalTypes
<1>9. Calls(c)' /\ Stage(c)'
  BY <1>1, <1>2, <1>6, <1>8 DEF Calls, Stage, Loads
<1>10. Credit(c)'
  BY <1>1, <1>2, <1>3, <1>5, <1>6, <1>8 DEF Credit, Loads
<1>11. Leaves(c)'
  <2>1. \A i \in 1..(at[c] - 1) : <<document[i], call[c].graph>> \in UNION past[c]
    BY <1>1, <1>3 DEF Leaves
  <2>2. \A i \in 1..(at'[c] - 1) : <<document[i], call[c].graph>> \in UNION past'[c]
    <3>1. \A i \in 1..(at'[c] - 1) : i \in 1..(at[c] - 1) \/ i = at[c]
      BY <1>1, <1>8
    <3>2. UNION past[c] \subseteq UNION past'[c]
      BY <1>6
    <3>3. QED
      BY <1>6, <2>1, <3>1, <3>2
  <2>3. document' = document /\ call'[c] = call[c]
    BY <1>2
  <2>4. status'[c] = "none" /\ pc'[c] = "parse" /\ call[c].op \notin Scans
    BY <1>1, <1>2, <1>3 DEF Stage, Loads, Scans
  <2>5. brought'[c] + taken'[c] <= at'[c] - 1
    BY <1>1, <1>3, <1>5, <1>6, <1>8 DEF Leaves
  <2>6. call'[c].op \notin {"for_each_insert", "for_each_delete"}
    BY <2>3, <2>4 DEF Scans
  <2>7. QED
    BY <2>2, <2>3, <2>4, <2>5, <2>6 DEF Leaves
<1>12. Moment(c)'
  BY <1>1, <1>2, <1>3, <1>6 DEF Moment, Loads
<1>13. QED
  BY <1>6, <1>7, <1>9, <1>10, <1>11, <1>12 DEF Kept, Holds

\* A row that reads back changes one quad at most.
LEMMA RowKeeps ==
  ASSUME StoreInv, NEW c \in Conns, RowOf(c) PROVE Kept(c)
<1> DEFINE k == call[c]
           row == rows[c][at[c]]
           quad == RowQuad(k, row)
           new == IF k.op = "for_each_delete" THEN store \ {quad} ELSE store \cup {quad}
<1>1. /\ Calls(c) /\ Stage(c) /\ Credit(c) /\ Leaves(c) /\ Moment(c)
      /\ store \in SUBSET Quads /\ at[c] \in Nat /\ rows[c] \in Seq(Quads)
      /\ brought[c] \in Nat /\ taken[c] \in Nat
  BY DEF StoreInv, Holds, LocalTypes, HistoryTypes
<1>2. /\ pc[c] = "row" /\ at[c] <= Len(rows[c]) /\ Readable(k, row)
      /\ Write(c, new)
      /\ at' = [at EXCEPT ![c] = @ + 1]
      /\ UNCHANGED <<program, call, pc, count, rows, blobs, text, status, result>>
  BY DEF RowOf, Row, CursorRows
<1>3. k.op \in Scans /\ status[c] = "none" /\ at[c] >= 1
  BY <1>1, <1>2 DEF Stage
<1>4. new \in SUBSET Quads /\ Applied(k, row, new)
  <2>1. quad \in Quads
    BY <1>2 DEF Readable
  <2> HIDE DEF quad
  <2>2. new \in SUBSET Quads
    BY <1>1, <2>1
  <2>3. IF k.op = "for_each_delete" THEN quad \notin new ELSE quad \in new
    OBVIOUS
  <2>4. QED
    BY <2>2, <2>3 DEF Applied, quad
<1>5. /\ Cardinality(new \ store) \in 0..1 /\ Cardinality(store \ new) \in 0..1
      /\ Cardinality(new \ store) + Cardinality(store \ new) <= 1
      /\ k.op = "for_each_insert" => Cardinality(store \ new) = 0
      /\ k.op = "for_each_delete" => Cardinality(new \ store) = 0
  <2> HIDE DEF quad, k
  <2>1. Cardinality({}) = 0 /\ Cardinality({quad}) = 1
    BY FS_EmptySet, FS_Singleton
  <2>2. CASE k.op = "for_each_delete"
    <3>1. /\ new \ store = {}
          /\ store \ new = IF quad \in store THEN {quad} ELSE {}
      BY <2>2
    <3>2. QED
      BY <2>1, <2>2, <3>1
  <2>3. CASE k.op # "for_each_delete"
    <3>1. /\ store \ new = {}
          /\ new \ store = IF quad \in store THEN {} ELSE {quad}
      BY <2>3
    <3>2. QED
      BY <2>1, <2>3, <3>1
  <2>4. QED
    BY <2>2, <2>3
<1>6. /\ HistoryTypes' /\ store' = new /\ new \in past'[c] /\ past[c] \subseteq past'[c]
      /\ brought'[c] = brought[c] + Cardinality(new \ store)
      /\ taken'[c] = taken[c] + Cardinality(store \ new)
      /\ \A d \in Conns \ {c} : HistoryStill(d)
  <2> HIDE DEF new
  <2>1. pc[c] # "idle"
    BY <1>2
  <2>2. QED
    BY <1>2, <1>4, <2>1, WriteEffects
<1> HIDE DEF new
<1>7. LocalTypes' /\ \A d \in Conns \ {c} : LocalStill(d)
  BY <1>2 DEF StoreInv, LocalTypes, LocalStill
<1>8. at'[c] = at[c] + 1
  BY <1>2 DEF StoreInv, LocalTypes
<1>9. Calls(c)' /\ Stage(c)' /\ Credit(c)'
  BY <1>1, <1>2, <1>3, <1>6, <1>8 DEF Calls, Stage, Credit, Loads, Scans
<1>10. Leaves(c)'
  <2>1. brought'[c] + taken'[c] <= at'[c] - 1
    BY <1>1, <1>3, <1>5, <1>6, <1>8 DEF Leaves
  <2>2. /\ k.op = "for_each_insert" => taken'[c] = 0
        /\ k.op = "for_each_delete" => brought'[c] = 0
    BY <1>1, <1>5, <1>6 DEF Leaves
  <2>3. \A i \in 1..(at'[c] - 1) : /\ Readable(k, rows[c][i])
                                  /\ \E S \in past'[c] : Applied(k, rows[c][i], S)
    <3>1. ScanPrefix(c)
      BY <1>1, <1>3 DEF Leaves
    <3>2. \A i \in 1..(at'[c] - 1) : i \in 1..(at[c] - 1) \/ i = at[c]
      BY <1>1, <1>8
    <3>3. \A i \in 1..(at[c] - 1) : /\ Readable(k, rows[c][i])
                                   /\ \E S \in past'[c] : Applied(k, rows[c][i], S)
      BY <1>6, <3>1 DEF ScanPrefix
    <3>4. QED
      BY <1>2, <1>4, <1>6, <3>2, <3>3
  <2>4. call'[c] = k /\ rows'[c] = rows[c] /\ status'[c] = "none" /\ pc'[c] = "row"
    BY <1>2, <1>3
  <2>5. ScanPrefix(c)'
    BY <2>3, <2>4 DEF ScanPrefix
  <2>6. ~Loads(c)'
    BY <1>3, <2>4 DEF Loads, Scans
  <2>7. QED
    BY <2>1, <2>2, <2>4, <2>5, <2>6 DEF Leaves
<1>11. Moment(c)'
  BY <1>1, <1>2, <1>3, <1>6 DEF Moment
<1>12. QED
  BY <1>6, <1>7, <1>9, <1>10, <1>11 DEF Kept, Holds

-----------------------------------------------------------------------------
(* Steps that read the store and go on.                                    *)

LEMMA LenBeforeKeeps ==
  ASSUME StoreInv, NEW c \in Conns, LenBefore(c) PROVE Kept(c)
<1>1. /\ Calls(c) /\ Stage(c) /\ Credit(c) /\ Leaves(c) /\ Moment(c)
      /\ store \in SUBSET Quads
  BY DEF StoreInv, Holds, HistoryTypes
<1>2. /\ pc[c] = "before" /\ count' = [count EXCEPT ![c] = Cardinality(store)]
      /\ Goto(c, "change") /\ ReadOnly
      /\ UNCHANGED <<program, call, at, rows, blobs, text, status, result>>
  BY DEF LenBefore
<1>3. /\ HistoryTypes'
      /\ store' = store /\ past' = past /\ brought' = brought /\ taken' = taken
      /\ \A d \in Conns : HistoryStill(d)
  BY <1>2, ReadEffects
<1>4. /\ pc' \in [Conns -> Statements] /\ pc'[c] = "change"
      /\ \A d \in Conns \ {c} : pc'[d] = pc[d]
  <2>1. "change" \in Statements
    BY DEF Statements
  <2>2. QED
    BY <1>2, <2>1, GotoEffects DEF StoreInv
<1>5. LocalTypes' /\ \A d \in Conns \ {c} : LocalStill(d)
  <2>1. Cardinality(store) \in Nat
    BY <1>1, StoresAreFinite
  <2>2. QED
    BY <1>2, <1>4, <2>1 DEF StoreInv, LocalTypes, LocalStill
<1>6. Calls(c)' /\ Stage(c)' /\ Credit(c)' /\ Leaves(c)'
  <2>1. Calls(c)' /\ Stage(c)' /\ Credit(c)'
    BY <1>1, <1>2, <1>3, <1>4 DEF Calls, Stage, Credit, Loads
  <2>2. ~Loads(c)' /\ call'[c].op \notin Scans /\ status'[c] # "error"
    BY <1>1, <1>2, <1>3, <1>4 DEF Stage, Loads, Scans
  <2>3. pc'[c] \in {"before", "change", "query"} => brought'[c] = 0 /\ taken'[c] = 0
    BY <1>1, <1>2, <1>3, <1>4 DEF Leaves
  <2>4. QED
    BY <2>1, <2>2, <2>3, OthersLeave
<1>7. Moment(c)'
  BY <1>1, <1>2, <1>3, <1>4 DEF Moment
<1>8. QED
  BY <1>3, <1>5, <1>6, <1>7 DEF Kept, Holds

\* A query answers from the store as it is.
LEMMA QueryKeeps ==
  ASSUME StoreInv, NEW c \in Conns, Query(c) PROVE Kept(c)
<1>1. /\ Calls(c) /\ Stage(c) /\ Credit(c) /\ Leaves(c) /\ Moment(c)
      /\ store \in SUBSET Quads /\ at[c] \in Nat /\ blobs[c] \in Seq(SUBSET Quads)
  BY DEF StoreInv, Holds, LocalTypes, HistoryTypes
<1> DEFINE blob == Item(c).selects \cap store
<1>2. /\ pc[c] = "query" /\ ReadOnly
      /\ blobs' = [blobs EXCEPT ![c] = Append(@, blob)]
      /\ at' = [at EXCEPT ![c] = @ + 1]
      /\ UNCHANGED <<program, call, pc, count, rows, text, status, result>>
  BY DEF Query
<1>3. /\ HistoryTypes'
      /\ store' = store /\ past' = past /\ brought' = brought /\ taken' = taken
      /\ \A d \in Conns : HistoryStill(d)
  BY <1>2, ReadEffects
<1>4. blob \in SUBSET Quads /\ Append(blobs[c], blob) \in Seq(SUBSET Quads)
  BY <1>1
<1>5. /\ blobs' \in [Conns -> Seq(SUBSET Quads)]
      /\ blobs'[c] = Append(blobs[c], blob) /\ at'[c] = at[c] + 1
  <2> HIDE DEF blob
  <2>1. QED
    BY <1>2, <1>4 DEF StoreInv, LocalTypes
<1>6. LocalTypes' /\ \A d \in Conns \ {c} : LocalStill(d)
  <2> HIDE DEF blob
  <2>1. QED
    BY <1>2, <1>5 DEF StoreInv, LocalTypes, LocalStill
<1>7. Calls(c)' /\ Stage(c)' /\ Credit(c)' /\ Leaves(c)'
  <2>1. Calls(c)' /\ Stage(c)' /\ Credit(c)'
    BY <1>1, <1>2, <1>3, <1>5 DEF Calls, Stage, Credit, Loads, Forms
  <2>2. ~Loads(c)' /\ call'[c].op \notin Scans /\ status'[c] # "error"
    BY <1>1, <1>2, <1>3, <1>5 DEF Stage, Loads, Scans, Forms
  <2>3. pc'[c] \in {"before", "change", "query"} => brought'[c] = 0 /\ taken'[c] = 0
    BY <1>1, <1>2, <1>3, <1>5 DEF Leaves
  <2>4. QED
    BY <2>1, <2>2, <2>3, OthersLeave
<1>8. Moment(c)'
  <2>1. Len(blobs[c]) = at[c] - 1 /\ store \in past[c]
    BY <1>1, <1>2 DEF Moment, Stage
  <2>2. blob = call[c].items[at[c]].selects \cap store
    BY DEF Item
  <2> HIDE DEF blob
  <2>3. /\ Len(blobs'[c]) = at'[c] - 1
        /\ DOMAIN blobs'[c] = 1..at[c] /\ blobs'[c][at[c]] = blob
        /\ \A i \in 1..(at[c] - 1) : i \in DOMAIN blobs[c] /\ blobs'[c][i] = blobs[c][i]
    BY <1>1, <1>4, <1>5, <2>1
  <2>4. \A i \in DOMAIN blobs'[c] :
          \E S \in past'[c] : blobs'[c][i] = call'[c].items[i].selects \cap S
    <3>1. ASSUME NEW i \in 1..at[c]
          PROVE  \E S \in past[c] : blobs'[c][i] = call[c].items[i].selects \cap S
      <4>1. CASE i = at[c]
        BY <2>1, <2>2, <2>3, <4>1
      <4>2. CASE i # at[c]
        <5>1. i \in 1..(at[c] - 1)
          BY <1>1, <4>2
        <5>2. QED
          BY <1>1, <2>3, <5>1 DEF Moment
      <4>3. QED
        BY <4>1, <4>2
    <3>2. QED
      BY <1>2, <1>3, <2>3, <3>1
  <2>5. call'[c].op # "dump" /\ pc'[c] = "query"
    BY <1>1, <1>2 DEF Stage, Forms
  <2>6. QED
    BY <2>3, <2>4, <2>5 DEF Moment
<1>9. QED
  BY <1>3, <1>6, <1>7, <1>8 DEF Kept, Holds

\* The cursor copies the whole store.
LEMMA FilterKeeps ==
  ASSUME StoreInv, NEW c \in Conns, Filter(c) PROVE Kept(c)
<1>1. /\ Calls(c) /\ Stage(c) /\ Credit(c) /\ Leaves(c) /\ Moment(c)
      /\ store \in SUBSET Quads
  BY DEF StoreInv, Holds, HistoryTypes
<1> PICK quads \in SetToSeqs(store) : rows' = [rows EXCEPT ![c] = quads]
  BY DEF Filter
<1>2. /\ pc[c] = "filter" /\ at[c] = 1 /\ status[c] = "none" /\ call[c].op \in Scans
      /\ Goto(c, "row") /\ ReadOnly
      /\ UNCHANGED <<program, call, at, count, blobs, text, status, result>>
  BY <1>1 DEF Filter, Stage
<1>3. /\ HistoryTypes'
      /\ store' = store /\ past' = past /\ brought' = brought /\ taken' = taken
      /\ \A d \in Conns : HistoryStill(d)
  BY <1>2, ReadEffects
<1>4. /\ quads \in Seq(Quads)
      /\ Len(quads) = Cardinality(store) /\ Range(quads) = store
  <2>1. /\ quads \in Seq(store)
        /\ Len(quads) = Cardinality(store) /\ Range(quads) = store
    BY <1>1, StoresAreFinite, ListedOnce
  <2>2. Seq(store) \subseteq Seq(Quads)
    BY <1>1
  <2>3. QED
    BY <2>1, <2>2
<1>5. /\ pc' \in [Conns -> Statements] /\ pc'[c] = "row"
      /\ \A d \in Conns \ {c} : pc'[d] = pc[d]
  <2>1. "row" \in Statements
    BY DEF Statements
  <2>2. QED
    BY <1>2, <2>1, GotoEffects DEF StoreInv
<1>6. /\ rows' \in [Conns -> Seq(Quads)] /\ rows'[c] = quads
      /\ \A d \in Conns \ {c} : rows'[d] = rows[d]
  BY <1>4 DEF StoreInv, LocalTypes
<1>7. LocalTypes' /\ \A d \in Conns \ {c} : LocalStill(d)
  BY <1>2, <1>5, <1>6 DEF StoreInv, LocalTypes, LocalStill
<1>8. Calls(c)' /\ Stage(c)' /\ Credit(c)'
  BY <1>1, <1>2, <1>3, <1>5 DEF Calls, Stage, Credit, Loads
<1>9. Leaves(c)'
  <2>1. 1..(at'[c] - 1) = {} /\ status'[c] = "none" /\ pc'[c] = "row"
    BY <1>2, <1>5
  <2>2. ScanPrefix(c)'
    BY <2>1 DEF ScanPrefix
  <2>3. ~Loads(c)'
    BY <1>2 DEF Loads, Scans
  <2>4. QED
    BY <1>1, <1>2, <1>3, <2>1, <2>2, <2>3 DEF Leaves
<1>10. Moment(c)'
  BY <1>1, <1>2, <1>3, <1>4, <1>5, <1>6 DEF Moment, Stage
<1>11. QED
  BY <1>3, <1>7, <1>8, <1>9, <1>10 DEF Kept, Holds

-----------------------------------------------------------------------------
Steps(c) ==
  \/ Begin(c) \/ Answers(c) \/ Errors(c) \/ Dump(c)
  \/ Insert(c) \/ Delete(c) \/ Clear(c) \/ LoadQuads(c) \/ Update(c)
  \/ RemoveRow(c) \/ LoadStatement(c) \/ RowOf(c)
  \/ LenBefore(c) \/ Query(c) \/ Filter(c)

LEMMA StepsKeep ==
  ASSUME StoreInv, NEW c \in Conns, Steps(c) PROVE Kept(c)
  BY BeginKeeps, AnswersKeep, ErrorsKeep, DumpKeeps, SingleWriteKeeps, BatchWriteKeeps,
     RemoveRowKeeps, LoadStatementKeeps, RowKeeps, LenBeforeKeeps, QueryKeeps, FilterKeeps
     DEF Steps

LEMMA StoreInvStep ==
  ASSUME StoreInv, [Next]_vars PROVE StoreInv'
<1>1. CASE UNCHANGED vars
  <2>1. LocalTypes' /\ HistoryTypes'
    BY <1>1 DEF vars, locals, history, StoreInv, LocalTypes, HistoryTypes
  <2>2. \A d \in Conns : LocalStill(d) /\ HistoryStill(d)
    BY <1>1 DEF vars, locals, history, LocalStill, HistoryStill, StoreInv, Holds, Stage
  <2>3. QED
    BY <2>1, <2>2, StillHolds DEF StoreInv
<1>2. ASSUME NEW c \in Conns, Kept(c) PROVE StoreInv'
  BY <1>2, StillHolds DEF Kept, StoreInv
<1>3. ASSUME NEW c \in Conns, Steps(c) PROVE StoreInv'
  BY <1>2, <1>3, StepsKeep
<1>4. QED
  BY <1>1, <1>3 DEF Next, Steps, Answers, Errors

LEMMA StoreInvInit ==
  ASSUME Init PROVE StoreInv
<1>1. PICK w \in Workloads : store = w.store /\ program = w.program
  BY DEF Init
<1>2. LocalTypes
  BY <1>1, WorkloadsTyped DEF Init, LocalTypes, Statements
<1>3. HistoryTypes
  BY <1>1, WorkloadsTyped DEF Init, HistoryTypes
<1>4. ASSUME NEW c \in Conns PROVE Holds(c)
  <2>1. (CHOOSE g \in Graphs : TRUE) \in Graphs
    BY FiniteData
  <2>2. IsCall(NoCall)
    <3>1. ItemsOf(NoCall.op) = {} /\ << >> \in Seq({})
      BY DEF NoCall, ItemsOf, Forms
    <3>2. QED
      BY <2>1, <3>1 DEF IsCall, NoCall, Singles, Forms
  <2>3. Calls(c)
    <3>1. program[c] \in Seq(Range(program[c])) /\ \A k \in Range(program[c]) : IsCall(k)
      BY <1>1, WorkloadsTyped
    <3>2. QED
      BY <2>2, <3>1 DEF Calls, Init
  <2>4. Stage(c) /\ Credit(c) /\ Leaves(c) /\ Moment(c)
    <3>1. /\ call[c] = NoCall /\ pc[c] = "idle" /\ at[c] = 1 /\ status[c] = "none" /\ result[c] = 0
          /\ brought[c] = 0 /\ taken[c] = 0 /\ blobs[c] = << >> /\ NoCall.op = "count_all"
      BY DEF Init, NoCall
    <3>2. Stage(c) /\ Credit(c) /\ Moment(c)
      BY <3>1 DEF Stage, Credit, Moment, Loads
    <3>3. Leaves(c)
      BY <3>1 DEF Leaves, Loads, Scans
    <3>4. QED
      BY <3>2, <3>3
  <2>5. QED
    BY <2>3, <2>4 DEF Holds
<1>5. QED
  BY <1>2, <1>3, <1>4 DEF StoreInv

LEMMA StoreInvAlways == Spec => []StoreInv
<1>1. Init => StoreInv
  BY StoreInvInit
<1>2. StoreInv /\ [Next]_vars => StoreInv'
  BY StoreInvStep
<1>3. QED
  BY <1>1, <1>2, PTL DEF Spec

\* Every variable keeps its type, so no count and no answer but a signed
\* difference is ever negative.
THEOREM StoreTypes == Spec => []TypeOK
  BY StoreInvAlways, StoreInvImplies, PTL

\* What delete_many counts is what it took away, and a loader never counts
\* less than it added, for any number of connections.
THEOREM CreditSafety == Spec => []CreditsAreOwn
  BY StoreInvAlways, StoreInvImplies, PTL

\* A failing call leaves nothing behind; a failing load, and a scan that fails
\* at a row it cannot read back, leave what precedes the error applied.
THEOREM PrefixSafety == Spec => []FailuresLeaveAPrefix
  BY StoreInvAlways, StoreInvImplies, PTL

\* Every answer is the store at one moment of its call.
THEOREM MomentSafety == Spec => []ReadsAreMoments
  BY StoreInvAlways, StoreInvImplies, PTL

-----------------------------------------------------------------------------
(* A call that no other connection disturbs.                               *)

\* What such a call has made, so far, of the store it began with.
SoFar(c) ==
  LET done == 1..(at[c] - 1)
  IN  CASE pc[c] = "remove" -> base[c] \ {call[c].items[i] : i \in done}
        [] pc[c] = "parse"  ->
             base[c] \cup {<<Document(call[c], text[c])[i], call[c].graph>> : i \in done}
        [] pc[c] = "row"    ->
             Scanned(call[c], base[c], {rows[c][i] : i \in done})
        [] pc[c] = "after"  -> Promised(call[c], base[c], text[c])
        [] OTHER            -> base[c]

\* Where it is in its list, and what it has counted.
Tally(c) ==
  /\ pc[c] \in {"change", "after"} => count[c] = Cardinality(base[c])
  /\ pc[c] = "remove" =>
       /\ at[c] <= Len(call[c].items) + 1
       /\ count[c] = Cardinality(base[c] \cap {call[c].items[i] : i \in 1..(at[c] - 1)})
  /\ pc[c] = "parse" =>
       /\ at[c] <= Len(Document(call[c], text[c])) + 1
       /\ count[c] = at[c] - 1
       /\ \A i \in 1..(at[c] - 1) : Document(call[c], text[c])[i] # Malformed
  /\ pc[c] = "row" => at[c] <= Len(rows[c]) + 1 /\ Range(rows[c]) = base[c]

Undisturbed(c) == pc[c] # "idle" /\ alone[c] => store = SoFar(c) /\ Tally(c)

AloneInv == StoreInv /\ \A c \in Conns : Undisturbed(c)

\* The calls of the others are undisturbed only if this step left the store.
OthersWatch(c) ==
  \A d \in Conns \ {c} : /\ base'[d] = base[d]
                         /\ pc[d] # "idle" /\ alone'[d] => alone[d] /\ store' = store

Delivers(c) ==
  Returns(c) /\ alone'[c] =>
    /\ IF call[c].op \in Scans THEN ScanLeaves(call[c], base[c], status'[c], store')
       ELSE store' = Promised(call[c], base[c], text[c])
    /\ status'[c] = "ok" => result'[c] = PromisedCount(call[c], base[c], text[c])

\* What a step of connection c has to establish.
Advances(c) == Undisturbed(c)' /\ OthersWatch(c) /\ Delivers(c)

LEMMA StillUndisturbed ==
  ASSUME NEW d, Undisturbed(d), LocalStill(d), base'[d] = base[d],
         pc[d] # "idle" /\ alone'[d] => alone[d] /\ store' = store
  PROVE  Undisturbed(d)'
<1> SUFFICES ASSUME pc'[d] # "idle", alone'[d] PROVE store' = SoFar(d)' /\ Tally(d)'
  BY DEF Undisturbed
<1>1. pc[d] # "idle" /\ alone[d] /\ store' = store
  BY DEF LocalStill
<1>2. store = SoFar(d) /\ Tally(d)
  BY <1>1 DEF Undisturbed
<1>3. Document(call[d], text[d])' = Document(call[d], text[d])
  BY DEF LocalStill
<1>4. Promised(call[d], base[d], text[d])' = Promised(call[d], base[d], text[d])
  BY DEF LocalStill
<1>5. SoFar(d)' = SoFar(d)
  BY <1>3, <1>4 DEF SoFar, LocalStill
<1>6. Tally(d)'
  BY <1>2, <1>3 DEF Tally, LocalStill
<1>7. QED
  BY <1>1, <1>2, <1>5, <1>6

LEMMA WriteWatched ==
  ASSUME StoreInv, NEW c \in Conns, NEW new, Write(c, new)
  PROVE  store' = new /\ base' = base /\ (alone'[c] <=> alone[c]) /\ OthersWatch(c)
<1>1. store' = new /\ base' = base /\ alone \in [Conns -> BOOLEAN]
  BY DEF Write, StoreInv, HistoryTypes
<1>2. alone' = [d \in Conns |-> alone[d] /\ (d = c \/ new = store \/ pc[d] = "idle")]
  BY DEF Write
<1>3. alone'[c] <=> alone[c]
  BY <1>1, <1>2
<1>4. \A d \in Conns \ {c} : pc[d] # "idle" /\ alone'[d] => alone[d] /\ new = store
  BY <1>1, <1>2
<1>5. QED
  BY <1>1, <1>3, <1>4 DEF OthersWatch

LEMMA ReadWatched ==
  ASSUME NEW c \in Conns, ReadOnly
  PROVE  store' = store /\ base' = base /\ alone' = alone /\ OthersWatch(c)
  BY DEF ReadOnly, history, OthersWatch

LEMMA BeginAdvances ==
  ASSUME AloneInv, NEW c \in Conns, Begin(c) PROVE Advances(c)
<1> DEFINE k == Head(program[c])
<1>1. StoreInv
  BY DEF AloneInv
<1>2. Kept(c)
  BY <1>1, BeginKeeps
<1>3. /\ pc[c] = "idle" /\ store' = store /\ call'[c] = k /\ at'[c] = 1 /\ count'[c] = 0 /\ base'[c] = store
      /\ \A d \in Conns \ {c} : base'[d] = base[d] /\ alone'[d] = alone[d]
  BY <1>1 DEF Begin, StoreInv, LocalTypes, HistoryTypes
<1>4. OthersWatch(c)
  BY <1>3 DEF OthersWatch
<1>5. Delivers(c)
  BY <1>3 DEF Delivers, Returns
<1>6. pc'[c] = "idle" \/ pc'[c] = FirstStatement(k)
  <2>1. Goto(c, "idle") \/ Goto(c, FirstStatement(k))
    BY DEF Begin, Return
  <2>2. QED
    BY <1>1, <2>1 DEF Goto, StoreInv, LocalTypes
<1>7. CASE pc'[c] = "idle"
  BY <1>4, <1>5, <1>7 DEF Undisturbed, Advances
<1>8. CASE pc'[c] # "idle"
  <2>1. pc'[c] \in {"single", "before", "remove", "parse", "query", "filter"}
    BY <1>6, <1>8 DEF FirstStatement
  <2>2. SoFar(c)' = base'[c]
    <3>1. 1..(at'[c] - 1) = {}
      BY <1>3
    <3>2. QED
      BY <2>1, <3>1 DEF SoFar
  <2>3. Tally(c)'
    <3>1. CASE pc'[c] = "remove"
      <4>1. Calls(c)' /\ Stage(c)'
        BY <1>2 DEF Kept, Holds
      <4>2. call'[c].items \in Seq(ItemsOf(call'[c].op))
        BY <4>1 DEF Calls, IsCall
      <4>3. Len(call'[c].items) \in Nat
        BY <4>2
      <4>4. {call'[c].items[i] : i \in 1..(at'[c] - 1)} = {}
        BY <1>3
      <4>5. count'[c] = Cardinality(base'[c] \cap {call'[c].items[i] : i \in 1..(at'[c] - 1)})
        BY <1>3, <4>4, FS_EmptySet
      <4>6. QED
        BY <1>3, <3>1, <4>3, <4>5 DEF Tally
    <3>2. CASE pc'[c] = "parse"
      <4>1. StoreInv'
        BY <1>1, StoreInvStep DEF Next
      <4>2. Loads(c)'
        BY <3>2, <4>1 DEF StoreInv, Holds, Stage
      <4>3. Len(Document(call[c], text[c]))' \in Nat
        <5>1. CASE call'[c].op = "reload"
          <6>1. text'[c] \in Seq(Triples)
            BY <4>1 DEF StoreInv, LocalTypes
          <6>2. DOMAIN text'[c] = 1..Len(text'[c]) /\ Len(text'[c]) \in Nat
            BY <6>1
          <6>3. Len(Document(call[c], text[c]))' = Len(text'[c])
            BY <5>1, <6>1, <6>2 DEF Document
          <6>4. QED
            BY <6>2, <6>3
        <5>2. CASE call'[c].op = "load"
          <6>1. /\ call'[c].items \in Seq(ItemsOf(call'[c].op))
                /\ Document(call[c], text[c])' = call'[c].items
            BY <4>1, <5>2 DEF StoreInv, Holds, Calls, IsCall, Document
          <6>2. QED
            BY <6>1
        <5>3. QED
          BY <4>2, <5>1, <5>2 DEF Loads
      <4>4. QED
        BY <1>3, <3>2, <4>3 DEF Tally
    <3>3. CASE pc'[c] \notin {"remove", "parse"}
      BY <1>3, <2>1, <3>3 DEF Tally
    <3>4. QED
      BY <3>1, <3>2, <3>3
  <2>4. QED
    BY <1>3, <1>4, <1>5, <2>2, <2>3 DEF Undisturbed, Advances
<1>9. QED
  BY <1>7, <1>8

\* A call that returns without a step on the store.
LEMMA ReturnAdvances ==
  ASSUME AloneInv, NEW c \in Conns, pc[c] # "idle", ReadOnly,
         NEW how \in {"ok", "error"}, NEW n \in Int, Return(c, how, n),
         alone[c] => /\ IF call[c].op \in Scans THEN ScanLeaves(call[c], base[c], how, store)
                        ELSE store = Promised(call[c], base[c], text[c])
                     /\ how = "ok" => n = PromisedCount(call[c], base[c], text[c])
  PROVE  Advances(c)
<1>1. store' = store /\ alone' = alone /\ OthersWatch(c)
  BY ReadWatched
<1>2. pc'[c] = "idle" /\ status'[c] = how /\ result'[c] = n
  BY ReturnEffects DEF AloneInv, StoreInv
<1>3. Delivers(c)
  BY <1>1, <1>2 DEF Delivers
<1>4. QED
  BY <1>1, <1>2, <1>3 DEF Undisturbed, Advances

LEMMA PlainReturnAdvances ==
  ASSUME AloneInv, NEW c \in Conns, pc[c] # "idle", ReadOnly, call[c].op \notin Scans,
         NEW how \in {"ok", "error"}, NEW n \in Int, Return(c, how, n),
         alone[c] => /\ store = Promised(call[c], base[c], text[c])
                     /\ how = "ok" => n = PromisedCount(call[c], base[c], text[c])
  PROVE  Advances(c)
  BY ReturnAdvances

\* A single step between the call and its return.
LEMMA SingleAdvances ==
  ASSUME AloneInv, NEW c \in Conns, Insert(c) \/ Delete(c) \/ Clear(c) PROVE Advances(c)
<1>1. /\ pc[c] = "single" /\ call[c].op \in {"insert", "delete", "clear"} /\ Return(c, "ok", 1)
      /\ StoreInv /\ Stage(c) /\ Undisturbed(c)
  BY DEF Insert, Delete, Clear, Single, AloneInv, StoreInv, Holds
<1>2. at[c] = 1
  BY <1>1 DEF Stage
<1>3. alone[c] => store = base[c]
  BY <1>1 DEF Undisturbed, SoFar
<1>4. PICK new : /\ Write(c, new)
                 /\ alone[c] => new = Promised(call[c], base[c], text[c])
  BY <1>2, <1>3 DEF Insert, Delete, Clear, Single, Item, Promised
<1>5. store' = new /\ (alone'[c] <=> alone[c]) /\ OthersWatch(c)
  BY <1>1, <1>4, WriteWatched
<1>6. pc'[c] = "idle" /\ status'[c] = "ok" /\ result'[c] = 1
  BY <1>1, ReturnEffects DEF StoreInv
<1>7. PromisedCount(call[c], base[c], text[c]) = 1 /\ call[c].op \notin Scans
  BY <1>1 DEF PromisedCount, Scans
<1>8. Delivers(c)
  BY <1>4, <1>5, <1>6, <1>7 DEF Delivers
<1>9. QED
  BY <1>5, <1>6, <1>8 DEF Undisturbed, Advances

\* Reads of one step, and calls that change nothing.
LEMMA ReadAdvances ==
  ASSUME AloneInv, NEW c \in Conns,
         Count(c) \/ CountAll(c) \/ Dump(c) \/ QueryDone(c) \/ QueryFails(c) \/ UpdateFails(c)
  PROVE  Advances(c)
<1>1. StoreInv /\ Stage(c) /\ Undisturbed(c) /\ store \in SUBSET Quads
  BY DEF AloneInv, StoreInv, Holds, HistoryTypes
<1>2. Cardinality(store) \in Nat /\ Cardinality({q \in store : q[2] = call[c].graph}) \in Nat
  BY <1>1, StoresAreFinite
<1>3. pc[c] \in {"single", "query", "change"} /\ ReadOnly
  BY DEF Count, CountAll, Dump, QueryDone, QueryFails, UpdateFails, Single
<1>4. alone[c] => store = base[c]
  BY <1>1, <1>3 DEF Undisturbed, SoFar
<1>5. Promised(call[c], base[c], text[c]) = base[c]
  BY <1>1 DEF Count, CountAll, Dump, QueryDone, QueryFails, UpdateFails, Single, Stage, Forms, Promised
<1> call[c].op \notin Scans
  BY <1>1 DEF Count, CountAll, Dump, QueryDone, QueryFails, UpdateFails, Single, Stage, Forms, Scans
<1>6. CASE Count(c)
  <2>1. Return(c, "ok", Cardinality({q \in store : q[2] = call[c].graph})) /\ call[c].op = "count"
    BY <1>6 DEF Count, Single
  <2>2. alone[c] => PromisedCount(call[c], base[c], text[c])
                      = Cardinality({q \in store : q[2] = call[c].graph})
    BY <1>4, <2>1 DEF PromisedCount
  <2>3. QED
    BY <1>2, <1>3, <1>4, <1>5, <2>1, <2>2, PlainReturnAdvances
<1>7. CASE CountAll(c)
  <2>1. Return(c, "ok", Cardinality(store)) /\ call[c].op = "count_all"
    BY <1>7 DEF CountAll, Single
  <2>2. alone[c] => PromisedCount(call[c], base[c], text[c]) = Cardinality(store)
    BY <1>4, <2>1 DEF PromisedCount
  <2>3. QED
    BY <1>2, <1>3, <1>4, <1>5, <2>1, <2>2, PlainReturnAdvances
<1>8. CASE Dump(c) \/ QueryDone(c)
  <2>1. Return(c, "ok", 0) /\ call[c].op \in {"dump"} \cup Forms \cup {"construct_many"}
    BY <1>1, <1>8 DEF Dump, QueryDone, Single, Stage
  <2>2. PromisedCount(call[c], base[c], text[c]) = 0
    BY <2>1 DEF PromisedCount, Forms
  <2>3. QED
    BY <1>3, <1>4, <1>5, <2>1, <2>2, PlainReturnAdvances
<1>9. CASE QueryFails(c) \/ UpdateFails(c)
  <2>1. Return(c, "error", 0)
    BY <1>9 DEF QueryFails, UpdateFails
  <2>2. QED
    BY <1>3, <1>4, <1>5, <2>1, PlainReturnAdvances
<1>10. QED
  BY <1>6, <1>7, <1>8, <1>9

-----------------------------------------------------------------------------
(* A change between two counts.                                            *)

LEMMA LenBeforeAdvances ==
  ASSUME AloneInv, NEW c \in Conns, LenBefore(c) PROVE Advances(c)
<1>1. StoreInv /\ Undisturbed(c) /\ count \in [Conns -> Nat]
  BY DEF AloneInv, StoreInv, LocalTypes
<1>2. /\ pc[c] = "before" /\ count' = [count EXCEPT ![c] = Cardinality(store)]
      /\ Goto(c, "change") /\ ReadOnly
  BY DEF LenBefore
<1>3. store' = store /\ base' = base /\ alone' = alone /\ OthersWatch(c)
  BY <1>2, ReadWatched
<1>4. pc'[c] = "change" /\ count'[c] = Cardinality(store)
  <2>1. "change" \in Statements
    BY DEF Statements
  <2>2. QED
    BY <1>1, <1>2, <2>1, GotoEffects DEF StoreInv
<1>5. alone[c] => store = base[c]
  BY <1>1, <1>2 DEF Undisturbed, SoFar
<1>6. Undisturbed(c)'
  BY <1>3, <1>4, <1>5 DEF Undisturbed, SoFar, Tally
<1>7. Delivers(c)
  BY <1>4 DEF Delivers, Returns
<1>8. QED
  BY <1>3, <1>6, <1>7 DEF Advances

LEMMA BatchAdvances ==
  ASSUME AloneInv, NEW c \in Conns, LoadQuads(c) \/ Update(c) PROVE Advances(c)
<1>1. StoreInv /\ Undisturbed(c)
  BY DEF AloneInv
<1>2. /\ pc[c] = "change" /\ Goto(c, "after")
      /\ UNCHANGED <<call, text, count>>
  BY DEF LoadQuads, Update
<1>3. alone[c] => store = base[c] /\ count[c] = Cardinality(base[c])
  BY <1>1, <1>2 DEF Undisturbed, SoFar, Tally
<1>4. PICK new : Write(c, new) /\ (alone[c] => new = Promised(call[c], base[c], text[c]))
  BY <1>3 DEF LoadQuads, Update, Promised
<1>5. store' = new /\ base' = base /\ (alone'[c] <=> alone[c]) /\ OthersWatch(c)
  BY <1>1, <1>4, WriteWatched
<1>6. pc'[c] = "after"
  <2>1. "after" \in Statements
    BY DEF Statements
  <2>2. QED
    BY <1>1, <1>2, <2>1, GotoEffects DEF StoreInv
<1>7. SoFar(c)' = Promised(call[c], base[c], text[c])
  BY <1>2, <1>5, <1>6 DEF SoFar
<1>8. Undisturbed(c)'
  BY <1>2, <1>3, <1>4, <1>5, <1>6, <1>7 DEF Undisturbed, Tally
<1>9. Delivers(c)
  BY <1>6 DEF Delivers, Returns
<1>10. QED
  BY <1>5, <1>8, <1>9 DEF Advances

\* The difference of the two counts is what the batch brought.
LEMMA LenAfterAdvances ==
  ASSUME AloneInv, NEW c \in Conns, LenAfter(c) PROVE Advances(c)
<1> DEFINE change == Cardinality(store) - count[c]
           n == IF call[c].op = "insert_many" /\ change < 0 THEN 0 ELSE change
           R == Range(call[c].items)
<1>1. /\ StoreInv /\ Undisturbed(c) /\ Stage(c) /\ Calls(c)
      /\ count[c] \in Nat /\ store \in SUBSET Quads /\ base[c] \in SUBSET Quads
  BY DEF AloneInv, StoreInv, Holds, LocalTypes, HistoryTypes
<1>2. pc[c] = "after" /\ Return(c, "ok", n) /\ ReadOnly
  BY DEF LenAfter
<1>3. call[c].op \in {"insert_many", "update"}
  BY <1>1, <1>2 DEF Stage
<1>4. Cardinality(store) \in Nat /\ Cardinality(base[c]) \in Nat /\ IsFiniteSet(base[c])
  BY <1>1, StoresAreFinite
<1>5. n \in Int
  BY <1>1, <1>4
<1>6. alone[c] => /\ store = Promised(call[c], base[c], text[c])
                  /\ count[c] = Cardinality(base[c])
  BY <1>1, <1>2 DEF Undisturbed, SoFar, Tally
<1>7. ASSUME alone[c] PROVE n = PromisedCount(call[c], base[c], text[c])
  <2>1. CASE call[c].op = "update"
    BY <1>6, <1>7, <2>1 DEF PromisedCount
  <2>2. CASE call[c].op = "insert_many"
    <3>1. store = base[c] \cup R
      BY <1>6, <1>7, <2>2 DEF Promised
    <3>2. R \ base[c] \in SUBSET Quads
      BY <1>1, <3>1
    <3>3. IsFiniteSet(R \ base[c]) /\ Cardinality(R \ base[c]) \in Nat
      BY <3>2, StoresAreFinite
    <3>4. base[c] \cup (R \ base[c]) = store /\ base[c] \cap (R \ base[c]) = {}
      BY <3>1
    <3>5. Cardinality(store) = Cardinality(base[c]) + Cardinality(R \ base[c])
      BY <1>4, <3>3, <3>4, FS_Union, FS_EmptySet
    <3>6. PromisedCount(call[c], base[c], text[c]) = Cardinality(R \ base[c])
      BY <2>2 DEF PromisedCount
    <3> HIDE DEF R
    <3>7. change = Cardinality(R \ base[c])
      BY <1>4, <1>6, <1>7, <3>3, <3>5
    <3>8. QED
      BY <3>3, <3>6, <3>7
  <2>3. QED
    BY <1>3, <2>1, <2>2
<1> HIDE DEF n
<1>8. QED
  <2>1. call[c].op \notin Scans
    BY <1>3 DEF Scans
  <2>2. QED
    BY <1>2, <1>5, <1>6, <1>7, <2>1, PlainReturnAdvances

-----------------------------------------------------------------------------
(* A list gone through.                                                    *)

\* What the first n elements of a list give, and one more.
LEMMA OneMore ==
  ASSUME NEW f(_), NEW n \in Nat, n >= 1
  PROVE  {f(i) : i \in 1..((n + 1) - 1)} = {f(i) : i \in 1..(n - 1)} \cup {f(n)}
<1>1. 1..((n + 1) - 1) = (1..(n - 1)) \cup {n}
  OBVIOUS
<1>2. QED
  BY <1>1

LEMMA RemoveRowAdvances ==
  ASSUME AloneInv, NEW c \in Conns, RemoveRow(c) PROVE Advances(c)
<1> DEFINE items == call[c].items
           gone == {items[i] : i \in 1..(at[c] - 1)}
<1>1. /\ StoreInv /\ Undisturbed(c) /\ Stage(c) /\ Calls(c)
      /\ at[c] \in Nat /\ at[c] >= 1 /\ count[c] \in Nat /\ base[c] \in SUBSET Quads
  BY DEF AloneInv, StoreInv, Holds, LocalTypes, HistoryTypes, Stage
<1>2. /\ pc[c] = "remove" /\ at[c] <= Len(items) /\ Write(c, store \ {items[at[c]]})
      /\ count' = [count EXCEPT ![c] = IF items[at[c]] \in store THEN @ + 1 ELSE @]
      /\ at' = [at EXCEPT ![c] = @ + 1]
      /\ UNCHANGED <<call, pc, text>>
  BY DEF RemoveRow, Item
<1>3. /\ store' = store \ {items[at[c]]} /\ base' = base /\ (alone'[c] <=> alone[c])
      /\ OthersWatch(c)
  BY <1>1, <1>2, WriteWatched
<1>4. at'[c] = at[c] + 1 /\ count'[c] = IF items[at[c]] \in store THEN count[c] + 1 ELSE count[c]
  BY <1>1, <1>2 DEF StoreInv, LocalTypes
<1>5. {call'[c].items[i] : i \in 1..(at'[c] - 1)} = gone \cup {items[at[c]]}
  <2> DEFINE item(i) == items[i]
  <2>1. {item(i) : i \in 1..((at[c] + 1) - 1)} = {item(i) : i \in 1..(at[c] - 1)} \cup {item(at[c])}
    <3> HIDE DEF item
    <3>1. QED
      BY <1>1, OneMore
  <2>2. QED
    BY <1>2, <1>4, <2>1
<1>6. Len(items) \in Nat
  <2>1. items \in Seq(ItemsOf(call[c].op))
    BY <1>1 DEF Calls, IsCall
  <2>2. QED
    BY <2>1
<1>7. ASSUME alone[c] PROVE Undisturbed(c)'
  <2>1. store = base[c] \ gone /\ count[c] = Cardinality(base[c] \cap gone)
    BY <1>1, <1>2, <1>7 DEF Undisturbed, SoFar, Tally
  <2>2. IsFiniteSet(base[c] \cap gone) /\ Cardinality(base[c] \cap gone) \in Nat
    BY <1>1, StoresAreFinite
  <2> DEFINE x == items[at[c]]
  <2>3. count'[c] = Cardinality(base[c] \cap (gone \cup {x}))
    <3> HIDE DEF gone, items
    <3>1. CASE x \in store
      <4>1. base[c] \cap (gone \cup {x}) = (base[c] \cap gone) \cup {x} /\ x \notin base[c] \cap gone
        BY <2>1, <3>1
      <4>2. QED
        BY <1>4, <2>1, <2>2, <3>1, <4>1, FS_AddElement
    <3>2. CASE x \notin store
      <4>1. base[c] \cap (gone \cup {x}) = base[c] \cap gone
        BY <2>1, <3>2
      <4>2. QED
        BY <1>4, <2>1, <3>2, <4>1
    <3>3. QED
      BY <3>1, <3>2
  <2>4. store' = base[c] \ (gone \cup {x})
    BY <1>3, <2>1
  <2>5. SoFar(c)' = base[c] \ (gone \cup {x})
    BY <1>2, <1>3, <1>5 DEF SoFar
  <2>6. at'[c] <= Len(call'[c].items) + 1 /\ pc'[c] = "remove"
    BY <1>1, <1>2, <1>4, <1>6
  <2>7. count'[c] = Cardinality(base'[c] \cap {call'[c].items[i] : i \in 1..(at'[c] - 1)})
    <3> HIDE DEF gone, items
    <3>1. QED
      BY <1>3, <1>5, <2>3
  <2>8. Tally(c)'
    BY <2>6, <2>7 DEF Tally
  <2>9. QED
    BY <2>4, <2>5, <2>8 DEF Undisturbed
<1>8. Undisturbed(c)'
  BY <1>3, <1>7 DEF Undisturbed
<1>9. Delivers(c)
  BY <1>2 DEF Delivers, Returns
<1>10. QED
  BY <1>3, <1>8, <1>9 DEF Advances

LEMMA RemoveDoneAdvances ==
  ASSUME AloneInv, NEW c \in Conns, RemoveDone(c) PROVE Advances(c)
<1> DEFINE items == call[c].items
<1>1. /\ StoreInv /\ Undisturbed(c) /\ Stage(c) /\ Calls(c)
      /\ at[c] \in Nat /\ at[c] >= 1 /\ count[c] \in Nat
  BY DEF AloneInv, StoreInv, Holds, LocalTypes, Stage
<1>2. /\ pc[c] = "remove" /\ at[c] > Len(items) /\ Return(c, "ok", count[c]) /\ ReadOnly
  BY DEF RemoveDone
<1>3. call[c].op = "delete_many"
  BY <1>1, <1>2 DEF Stage
<1>4. items \in Seq(ItemsOf(call[c].op))
  BY <1>1 DEF Calls, IsCall
<1>5. Len(items) \in Nat /\ DOMAIN items = 1..Len(items)
  BY <1>4
<1>6. ASSUME alone[c]
      PROVE  /\ store = Promised(call[c], base[c], text[c])
             /\ count[c] = PromisedCount(call[c], base[c], text[c])
  <2>1. /\ store = base[c] \ {items[i] : i \in 1..(at[c] - 1)}
        /\ count[c] = Cardinality(base[c] \cap {items[i] : i \in 1..(at[c] - 1)})
        /\ at[c] <= Len(items) + 1
    BY <1>1, <1>2, <1>6 DEF Undisturbed, SoFar, Tally
  <2>2. at[c] - 1 = Len(items)
    BY <1>1, <1>2, <1>5, <2>1
  <2>3. {items[i] : i \in 1..(at[c] - 1)} = Range(items)
    BY <1>5, <2>2 DEF Range
  <2>4. base[c] \cap Range(items) = Range(items) \cap base[c]
    OBVIOUS
  <2>5. QED
    BY <1>3, <2>1, <2>3, <2>4 DEF Promised, PromisedCount
<1>7. QED
  <2>1. call[c].op \notin Scans
    BY <1>3 DEF Scans
  <2>2. QED
    BY <1>1, <1>2, <1>6, <2>1, PlainReturnAdvances

\* The statements a loader gets to.
LEMMA GoodIs ==
  ASSUME NEW doc, Len(doc) \in Nat, NEW n \in 0..Len(doc),
         \A i \in 1..n : doc[i] # Malformed, n < Len(doc) => doc[n + 1] = Malformed
  PROVE  Good(doc) = n
<1> DEFINE P(m) == /\ \A i \in 1..m : doc[i] # Malformed
                   /\ m < Len(doc) => doc[m + 1] = Malformed
<1>1. P(n)
  OBVIOUS
<1>2. ASSUME NEW m \in 0..Len(doc), P(m) PROVE m = n
  <2>1. ~(m < n)
    <3>1. SUFFICES ASSUME m < n PROVE FALSE
      OBVIOUS
    <3>2. m + 1 \in 1..n /\ m < Len(doc)
      BY <3>1
    <3>3. QED
      BY <1>2, <3>2
  <2>2. ~(n < m)
    <3>1. SUFFICES ASSUME n < m PROVE FALSE
      OBVIOUS
    <3>2. n + 1 \in 1..m /\ n < Len(doc)
      BY <3>1
    <3>3. QED
      BY <1>2, <3>2
  <2>3. QED
    BY <2>1, <2>2
<1>3. Good(doc) = CHOOSE m \in 0..Len(doc) : P(m)
  BY DEF Good
<1> HIDE DEF P
<1>4. (CHOOSE m \in 0..Len(doc) : P(m)) = n
  BY <1>1, <1>2
<1>5. QED
  BY <1>3, <1>4

LEMMA LoadStatementAdvances ==
  ASSUME AloneInv, NEW c \in Conns, LoadStatement(c) PROVE Advances(c)
<1> DEFINE document == Document(call[c], text[c])
           quad(i) == <<document[i], call[c].graph>>
           loaded == {quad(i) : i \in 1..(at[c] - 1)}
<1>1. /\ StoreInv /\ Undisturbed(c) /\ Stage(c)
      /\ at[c] \in Nat /\ at[c] >= 1 /\ count[c] \in Nat
  BY DEF AloneInv, StoreInv, Holds, LocalTypes, Stage
<1>2. /\ pc[c] = "parse" /\ at[c] <= Len(document) /\ document[at[c]] # Malformed
      /\ Write(c, store \cup {quad(at[c])})
      /\ count' = [count EXCEPT ![c] = @ + 1]
      /\ at' = [at EXCEPT ![c] = @ + 1]
      /\ UNCHANGED <<call, pc, text>>
  BY DEF LoadStatement
<1>3. /\ store' = store \cup {quad(at[c])} /\ base' = base /\ (alone'[c] <=> alone[c])
      /\ OthersWatch(c)
  BY <1>1, <1>2, WriteWatched
<1>4. at'[c] = at[c] + 1 /\ count'[c] = count[c] + 1
  BY <1>1, <1>2 DEF StoreInv, LocalTypes
<1>5. Document(call[c], text[c])' = document
  BY <1>2
<1>6. Len(document) \in Nat
  BY <1>1, <1>2, LengthOfDocument DEF Stage
<1>7. {<<Document(call[c], text[c])'[i], call'[c].graph>> : i \in 1..(at'[c] - 1)}
        = loaded \cup {quad(at[c])}
  <2>1. {quad(i) : i \in 1..((at[c] + 1) - 1)} = loaded \cup {quad(at[c])}
    <3> HIDE DEF quad
    <3>1. QED
      BY <1>1, OneMore
  <2>2. QED
    BY <1>2, <1>4, <1>5, <2>1
<1>8. ASSUME alone[c] PROVE Undisturbed(c)'
  <2>1. /\ store = base[c] \cup loaded /\ count[c] = at[c] - 1
        /\ \A i \in 1..(at[c] - 1) : document[i] # Malformed
    BY <1>1, <1>2, <1>8 DEF Undisturbed, SoFar, Tally
  <2>2. SoFar(c)' = base[c] \cup (loaded \cup {quad(at[c])})
    BY <1>2, <1>3, <1>7 DEF SoFar
  <2>3. store' = SoFar(c)'
    BY <1>3, <2>1, <2>2
  <2>4. \A i \in 1..(at'[c] - 1) : document[i] # Malformed
    <3>1. \A i \in 1..(at'[c] - 1) : i \in 1..(at[c] - 1) \/ i = at[c]
      BY <1>1, <1>4
    <3>2. QED
      BY <1>2, <2>1, <3>1
  <2>5. at'[c] <= Len(document) + 1 /\ count'[c] = at'[c] - 1
    BY <1>1, <1>2, <1>4, <1>6, <2>1
  <2>6. Tally(c)'
    BY <1>2, <1>5, <2>4, <2>5 DEF Tally
  <2>7. QED
    BY <2>3, <2>6 DEF Undisturbed
<1>9. Undisturbed(c)'
  BY <1>3, <1>8 DEF Undisturbed
<1>10. Delivers(c)
  BY <1>2 DEF Delivers, Returns
<1>11. QED
  BY <1>3, <1>9, <1>10 DEF Advances

\* A load ends at its first error or at the end of its text.
LEMMA LoadEndAdvances ==
  ASSUME AloneInv, NEW c \in Conns, LoadFails(c) \/ LoadDone(c) PROVE Advances(c)
<1> DEFINE document == Document(call[c], text[c])
           n == at[c] - 1
<1>1. /\ StoreInv /\ Undisturbed(c) /\ Stage(c)
      /\ at[c] \in Nat /\ at[c] >= 1 /\ count[c] \in Nat
  BY DEF AloneInv, StoreInv, Holds, LocalTypes, Stage
<1>2. pc[c] = "parse" /\ ReadOnly
  BY DEF LoadFails, LoadDone
<1>3. Loads(c) /\ Len(document) \in Nat
  BY <1>1, <1>2, LengthOfDocument DEF Stage
<1>4. ASSUME alone[c]
      PROVE  /\ store = Promised(call[c], base[c], text[c])
             /\ LoadDone(c) => count[c] = PromisedCount(call[c], base[c], text[c])
  <2>1. /\ store = base[c] \cup {<<document[i], call[c].graph>> : i \in 1..n}
        /\ at[c] <= Len(document) + 1 /\ count[c] = n
        /\ \A i \in 1..n : document[i] # Malformed
    BY <1>1, <1>2, <1>4 DEF Undisturbed, SoFar, Tally
  <2>2. n \in 0..Len(document)
    BY <1>1, <1>3, <2>1
  <2>3. n < Len(document) => document[n + 1] = Malformed
    <3>1. n + 1 = at[c]
      BY <1>1
    <3>2. QED
      BY <1>1, <1>3, <3>1 DEF LoadFails, LoadDone
  <2> HIDE DEF n, document
  <2>4. Good(document) = n
    BY <1>3, <2>1, <2>2, <2>3, GoodIs
  <2>5. Loaded(call[c], text[c]) = {<<document[i], call[c].graph>> : i \in 1..n}
    BY <2>4 DEF Loaded, document
  <2>6. Promised(call[c], base[c], text[c]) = base[c] \cup Loaded(call[c], text[c])
    BY <1>3 DEF Promised, Loads
  <2>7. PromisedCount(call[c], base[c], text[c]) = Len(document)
    BY <1>3 DEF PromisedCount, Loads, document
  <2>8. LoadDone(c) => n = Len(document)
    BY <1>1, <1>3, <2>1 DEF LoadDone, document, n
  <2>9. QED
    BY <2>1, <2>5, <2>6, <2>7, <2>8
<1> call[c].op \notin Scans
  BY <1>3 DEF Loads, Scans
<1>5. CASE LoadDone(c)
  <2>1. Return(c, "ok", count[c])
    BY <1>5 DEF LoadDone
  <2>2. QED
    BY <1>1, <1>2, <1>4, <1>5, <2>1, PlainReturnAdvances
<1>6. CASE LoadFails(c)
  <2>1. Return(c, "error", 0)
    BY <1>6 DEF LoadFails
  <2>2. QED
    BY <1>2, <1>4, <2>1, PlainReturnAdvances
<1>7. QED
  BY <1>5, <1>6

LEMMA QueryAdvances ==
  ASSUME AloneInv, NEW c \in Conns, Query(c) PROVE Advances(c)
<1>1. Undisturbed(c)
  BY DEF AloneInv
<1>2. pc[c] = "query" /\ ReadOnly /\ UNCHANGED pc
  BY DEF Query
<1>3. store' = store /\ base' = base /\ alone' = alone /\ OthersWatch(c)
  BY <1>2, ReadWatched
<1>4. Undisturbed(c)'
  BY <1>1, <1>2, <1>3 DEF Undisturbed, SoFar, Tally
<1>5. Delivers(c)
  BY <1>2 DEF Delivers, Returns
<1>6. QED
  BY <1>3, <1>4, <1>5 DEF Advances

-----------------------------------------------------------------------------
(* A cursor whose rows change the store.                                   *)

LEMMA FilterAdvances ==
  ASSUME AloneInv, NEW c \in Conns, Filter(c) PROVE Advances(c)
<1>1. /\ StoreInv /\ Undisturbed(c) /\ Stage(c) /\ store \in SUBSET Quads
      /\ rows \in [Conns -> Seq(Quads)] /\ at[c] \in Nat
  BY DEF AloneInv, StoreInv, Holds, LocalTypes, HistoryTypes
<1> PICK quads \in SetToSeqs(store) : rows' = [rows EXCEPT ![c] = quads]
  BY DEF Filter
<1>2. /\ pc[c] = "filter" /\ Goto(c, "row") /\ ReadOnly /\ UNCHANGED <<call, at>>
  BY DEF Filter
<1>3. store' = store /\ base' = base /\ alone' = alone /\ OthersWatch(c)
  BY <1>2, ReadWatched
<1>4. pc'[c] = "row" /\ rows'[c] = quads
  <2>1. "row" \in Statements
    BY DEF Statements
  <2>2. QED
    BY <1>1, <1>2, <2>1, GotoEffects DEF StoreInv
<1>5. Range(rows'[c]) = store /\ Len(rows'[c]) \in Nat
  BY <1>1, <1>4, StoresAreFinite, ListedOnce
<1>6. at'[c] = 1 /\ {rows'[c][i] : i \in 1..(at'[c] - 1)} = {}
  BY <1>1, <1>2 DEF Stage
<1>7. ASSUME alone[c] PROVE Undisturbed(c)'
  <2>1. store = base[c]
    BY <1>1, <1>2, <1>7 DEF Undisturbed, SoFar
  <2>2. Scanned(call'[c], base'[c], {}) = base'[c]
    BY DEF Scanned
  <2>3. SoFar(c)' = base'[c]
    BY <1>4, <1>6, <2>2 DEF SoFar
  <2>4. Tally(c)'
    BY <1>3, <1>4, <1>5, <1>6, <2>1 DEF Tally
  <2>5. QED
    BY <1>3, <2>1, <2>3, <2>4 DEF Undisturbed
<1>8. Undisturbed(c)'
  BY <1>3, <1>7 DEF Undisturbed
<1>9. Delivers(c)
  BY <1>4 DEF Delivers, Returns
<1>10. QED
  BY <1>3, <1>8, <1>9 DEF Advances

\* One more row written back.
LEMMA OneMoreRow ==
  ASSUME NEW k, NEW S, NEW T, NEW q, NEW U, U = T \cup {q}
  PROVE  Scanned(k, S, U) =
           IF k.op = "for_each_delete" THEN Scanned(k, S, T) \ {RowQuad(k, q)}
           ELSE Scanned(k, S, T) \cup {RowQuad(k, q)}
<1> DEFINE f(r) == RowQuad(k, r)
<1>1. {f(r) : r \in T \cup {q}} = {f(r) : r \in T} \cup {f(q)}
  OBVIOUS
<1>2. QED
  BY <1>1 DEF Scanned

LEMMA RowAdvances ==
  ASSUME AloneInv, NEW c \in Conns, RowOf(c) PROVE Advances(c)
<1> DEFINE row(i) == rows[c][i]
           quad == RowQuad(call[c], row(at[c]))
           done == {row(i) : i \in 1..(at[c] - 1)}
           next == done \cup {row(at[c])}
           new(S) == IF call[c].op = "for_each_delete" THEN S \ {quad} ELSE S \cup {quad}
<1>1. /\ StoreInv /\ Undisturbed(c) /\ Stage(c) /\ rows[c] \in Seq(Quads)
      /\ at[c] \in Nat /\ at[c] >= 1
  BY DEF AloneInv, StoreInv, Holds, LocalTypes, Stage
<1>2. /\ pc[c] = "row" /\ at[c] <= Len(rows[c])
      /\ Write(c, new(store))
      /\ at' = [at EXCEPT ![c] = @ + 1]
      /\ UNCHANGED <<call, pc, rows>>
  BY DEF RowOf, Row, CursorRows
<1>3. store' = new(store) /\ base' = base /\ (alone'[c] <=> alone[c]) /\ OthersWatch(c)
  <2> HIDE DEF new
  <2>1. QED
    BY <1>1, <1>2, WriteWatched
<1>4. at'[c] = at[c] + 1
  BY <1>1, <1>2 DEF StoreInv, LocalTypes
<1>5. {rows'[c][i] : i \in 1..(at'[c] - 1)} = next
  <2>1. {row(i) : i \in 1..((at[c] + 1) - 1)} = {row(i) : i \in 1..(at[c] - 1)} \cup {row(at[c])}
    <3> HIDE DEF row
    <3>1. QED
      BY <1>1, OneMore
  <2>2. QED
    BY <1>2, <1>4, <2>1
<1>6. ASSUME alone[c] PROVE Undisturbed(c)'
  <2>1. store = Scanned(call[c], base[c], done) /\ Range(rows[c]) = base[c]
    BY <1>1, <1>2, <1>6 DEF Undisturbed, SoFar, Tally
  <2>2. SoFar(c)' = Scanned(call[c], base[c], next)
    BY <1>2, <1>3, <1>5 DEF SoFar
  <2>3. store' = SoFar(c)'
    <3>1. next = done \cup {row(at[c])}
      OBVIOUS
    <3> HIDE DEF next, done, row
    <3>2. Scanned(call[c], base[c], next) = new(Scanned(call[c], base[c], done))
      BY <3>1, OneMoreRow
    <3> HIDE DEF new
    <3>3. QED
      BY <1>3, <2>1, <2>2, <3>2
  <2>4. at'[c] <= Len(rows[c]) + 1
    BY <1>1, <1>2, <1>4
  <2>5. Tally(c)'
    BY <1>2, <1>3, <2>1, <2>4 DEF Tally
  <2>6. QED
    BY <2>3, <2>5 DEF Undisturbed
<1>7. Undisturbed(c)'
  BY <1>3, <1>6 DEF Undisturbed
<1>8. Delivers(c)
  BY <1>2 DEF Delivers, Returns
<1>9. QED
  BY <1>3, <1>7, <1>8 DEF Advances

\* A scan at its end has written back every row there was; one that fails is
\* at a row of the store that cannot be.
LEMMA RowEndAdvances ==
  ASSUME AloneInv, NEW c \in Conns, RowFails(c) \/ Eof(c) PROVE Advances(c)
<1> DEFINE k == call[c]
           T == {rows[c][i] : i \in 1..(at[c] - 1)}
           readable == {q \in base[c] : Readable(k, q)}
<1>1. /\ StoreInv /\ Undisturbed(c) /\ Stage(c) /\ Leaves(c) /\ rows[c] \in Seq(Quads)
      /\ at[c] \in Nat /\ at[c] >= 1
  BY DEF AloneInv, StoreInv, Holds, LocalTypes, Stage
<1>2. pc[c] = "row" /\ ReadOnly /\ k.op \in Scans
  BY <1>1 DEF RowFails, Eof, Stage
<1>3. Len(rows[c]) \in Nat /\ DOMAIN rows[c] = 1..Len(rows[c])
  BY <1>1
<1>4. \A i \in 1..(at[c] - 1) : Readable(k, rows[c][i])
  BY <1>1, <1>2 DEF Leaves, ScanPrefix
<1>5. alone[c] => /\ store = Scanned(k, base[c], T)
                  /\ at[c] <= Len(rows[c]) + 1
                  /\ base[c] = {rows[c][i] : i \in 1..Len(rows[c])}
  BY <1>1, <1>2, <1>3 DEF Undisturbed, SoFar, Tally, Range
<1>6. alone[c] => T \in SUBSET readable
  <2>1. alone[c] => \A i \in 1..(at[c] - 1) : i \in 1..Len(rows[c])
    BY <1>1, <1>3, <1>5
  <2>2. QED
    BY <1>4, <1>5, <2>1
<1>7. PromisedCount(k, base[c], text[c]) = 0
  BY <1>2 DEF PromisedCount, Scans
<1>8. CASE Eof(c)
  <2>1. Return(c, "ok", 0) /\ at[c] > Len(rows[c])
    BY <1>8 DEF Eof, CursorRows
  <2>2. alone[c] => T = base[c]
    <3>1. alone[c] => at[c] - 1 = Len(rows[c])
      BY <1>1, <1>3, <1>5, <2>1
    <3>2. QED
      BY <1>5, <3>1
  <2>3. alone[c] => readable = base[c] /\ T \in SUBSET readable
    BY <1>6, <2>2
  <2>4. alone[c] => ScanLeaves(k, base[c], "ok", store)
    <3> HIDE DEF T, k
    <3>1. QED
      BY <1>5, <2>2, <2>3 DEF ScanLeaves
  <2>5. QED
    BY <1>2, <1>7, <2>1, <2>4, ReturnAdvances
<1>9. CASE RowFails(c)
  <2>1. /\ Return(c, "error", 0)
        /\ at[c] <= Len(rows[c]) /\ ~Readable(k, rows[c][at[c]])
    BY <1>9 DEF RowFails, Row, CursorRows
  <2>2. alone[c] => readable # base[c]
    <3>1. at[c] \in 1..Len(rows[c])
      BY <1>1, <1>3, <2>1
    <3>2. alone[c] => rows[c][at[c]] \in base[c]
      BY <1>5, <3>1
    <3>3. rows[c][at[c]] \notin readable
      BY <2>1
    <3>4. QED
      BY <3>2, <3>3
  <2>3. alone[c] => ScanLeaves(k, base[c], "error", store)
    <3> HIDE DEF T, k
    <3>1. QED
      BY <1>5, <1>6, <2>2 DEF ScanLeaves
  <2>4. QED
    BY <1>2, <2>1, <2>3, ReturnAdvances
<1>10. QED
  BY <1>8, <1>9

-----------------------------------------------------------------------------
\* Every step keeps the invariant, and the call it ends delivers.
LEMMA AloneInvStep ==
  ASSUME AloneInv, [Next]_vars
  PROVE  /\ AloneInv'
         /\ \A c \in Conns : Delivers(c)
<1>1. StoreInv'
  BY StoreInvStep DEF AloneInv
<1>2. CASE UNCHANGED vars
  <2>1. \A d \in Conns : /\ LocalStill(d) /\ base'[d] = base[d]
                         /\ (pc[d] # "idle" /\ alone'[d] => alone[d] /\ store' = store)
    BY <1>2 DEF vars, locals, history, LocalStill
  <2>2. \A d \in Conns : Undisturbed(d)'
    BY <2>1, StillUndisturbed DEF AloneInv
  <2>3. \A d \in Conns : Delivers(d)
    BY <2>1 DEF Delivers, Returns, LocalStill
  <2>4. QED
    BY <1>1, <2>2, <2>3 DEF AloneInv
<1>3. ASSUME NEW c \in Conns, Steps(c) PROVE AloneInv' /\ \A d \in Conns : Delivers(d)
  <2>1. Kept(c)
    BY <1>3, StepsKeep DEF AloneInv
  <2>2. Advances(c)
    BY <1>3, BeginAdvances, SingleAdvances, ReadAdvances, LenBeforeAdvances, BatchAdvances,
       LenAfterAdvances, RemoveRowAdvances, RemoveDoneAdvances, LoadStatementAdvances,
       LoadEndAdvances, QueryAdvances, FilterAdvances, RowAdvances, RowEndAdvances
       DEF Steps, Answers, Errors
  <2>3. ASSUME NEW d \in Conns \ {c} PROVE Undisturbed(d)' /\ Delivers(d)
    <3>1. LocalStill(d) /\ Undisturbed(d)
      BY <2>1 DEF Kept, AloneInv
    <3>2. base'[d] = base[d] /\ (pc[d] # "idle" /\ alone'[d] => alone[d] /\ store' = store)
      BY <2>2 DEF Advances, OthersWatch
    <3>3. Undisturbed(d)'
      BY <3>1, <3>2, StillUndisturbed
    <3>4. Delivers(d)
      BY <3>1 DEF Delivers, Returns, LocalStill
    <3>5. QED
      BY <3>3, <3>4
  <2>4. Undisturbed(c)' /\ Delivers(c)
    BY <2>2 DEF Advances
  <2>5. QED
    BY <1>1, <2>3, <2>4 DEF AloneInv
<1>4. QED
  BY <1>2, <1>3 DEF Next, Steps, Answers, Errors

LEMMA AloneInvInit ==
  ASSUME Init PROVE AloneInv
<1>1. \A c \in Conns : Undisturbed(c)
  BY DEF Init, Undisturbed
<1>2. QED
  BY <1>1, StoreInvInit DEF AloneInv

\* A call that no other connection disturbs leaves the store its arguments
\* call for and returns what that took; a statement that writes as it scans
\* writes back what the parser makes of every row there was, or fails because
\* there was one the parser refuses, some of the others written back.  For
\* every call, store and program, whatever the parsers do (Reparsed, Reread),
\* and any number of connections.
THEOREM AtomicSafety == Spec => AloneIsAtomic
<1>1. Init => AloneInv
  BY AloneInvInit
<1>2. AloneInv /\ [Next]_vars => AloneInv'
  BY AloneInvStep
<1>3. AloneInv /\ [Next]_vars =>
        [\A c \in Conns :
           Returns(c) /\ alone'[c] =>
             /\ IF call[c].op \in Scans THEN ScanLeaves(call[c], base[c], status'[c], store')
                ELSE store' = Promised(call[c], base[c], text[c])
             /\ status'[c] = "ok" => result'[c] = PromisedCount(call[c], base[c], text[c])]_vars
  BY AloneInvStep DEF Delivers
<1>4. QED
  BY <1>1, <1>2, <1>3, PTL DEF Spec, AloneIsAtomic
=============================================================================
