------------------------------ MODULE StoreOps ------------------------------
(***************************************************************************)
(* The SQL functions on the quad store and the rdf_triples table: several  *)
(* connections, each in a thread of its own, call them on the one store of *)
(* the process (store.rs, functions/rdf_triple.rs, rdf_bulk.rs,            *)
(* sparql_query.rs, vtab/triples_vtab.rs).                                 *)
(*                                                                         *)
(* Every call the code makes on the store (insert, remove, len, a bulk     *)
(* load, an update, a query, a scan) is one step, on the store as it is at *)
(* that moment; between two of them the other connections may run.  A      *)
(* quad is <<triple, graph>>.  Malformed stands for whatever a parser      *)
(* refuses: a bad row, a bad statement, a graph name that is empty, a      *)
(* blank node or no IRI.                                                   *)
(***************************************************************************)
EXTENDS Integers, FiniteSets, Sequences, SequencesExt

CONSTANTS
  Conns,
  Triples,
  Graphs,     \* the default graph and the named ones
  Malformed,
  Reparsed,   \* triple -> what the N-Triples parser makes of its dumped line
  Reread,     \* triple -> what build_quad makes of the row it is printed as
  Workloads   \* [store, program]: what is stored at first, and what calls each
              \* connection makes

Quads   == Triples \X Graphs
Singles == {"insert", "delete", "clear", "count", "count_all", "dump", "table_delete"}
Batches == {"insert_many", "delete_many", "update", "load", "reload", "construct_many"}
Scans   == {"for_each_insert", "for_each_delete"}
Forms   == {"select", "ask", "construct"}
Queries == [form : Forms \cup {"unparsable"}, selects : SUBSET Quads]

\* What the items of a call are: a triple, statements, rows, queries; the text
\* of an update matters only when it is none.
ItemsOf(op) ==
  CASE op \in {"insert", "delete", "load"}       -> Triples \cup {Malformed}
    [] op \in {"insert_many", "delete_many"}     -> Quads \cup {Malformed}
    [] op \in Forms \cup {"construct_many"}      -> Queries
    [] op = "update"                             -> {Malformed}
    [] OTHER                                     -> {}

\* A call: its items, its graph, the quads an update deletes and inserts.
IsCall(k) ==
  /\ DOMAIN k = {"op", "items", "graph", "deletes", "inserts"}
  /\ k.op \in Singles \cup Batches \cup Scans \cup Forms
  /\ k.items \in Seq(ItemsOf(k.op))
  /\ k.op \in {"insert", "delete"} \cup Forms => Len(k.items) = 1
  /\ k.graph \in Graphs \cup {Malformed}
  /\ k.deletes \subseteq Quads /\ k.inserts \subseteq Quads

ASSUME MalformedApart == Malformed \notin Triples \cup Graphs \cup Quads
ASSUME FiniteData     == IsFiniteSet(Triples) /\ IsFiniteSet(Graphs) /\ Graphs # {}
ASSUME ReparsedTyped  == Reparsed \in [Triples -> Triples \cup {Malformed}]
ASSUME RereadTyped    == Reread \in [Triples -> Triples \cup {Malformed}]
ASSUME WorkloadsTyped ==
  \A w \in Workloads : /\ w.store \subseteq Quads
                       /\ DOMAIN w.program = Conns
                       /\ \A c \in Conns : /\ w.program[c] \in Seq(Range(w.program[c]))
                                           /\ \A k \in Range(w.program[c]) : IsCall(k)

VARIABLES
  store,
  program,  \* per connection: the calls still to make
  call,     \* per connection: the call being made, or the last one made
  pc,       \* per connection: the statement it is at
  at,       \* per connection: the item, query or cursor row it is at
  count,    \* per connection: the local `count`, `removed` or `before`
  rows,     \* per connection: the rows of its cursor
  blobs,    \* per connection: the answers to its queries so far
  text,     \* per connection: the statements of its last dump
  status,   \* per connection: how its last call ended
  result,   \* per connection: the number its last call returned
  base,     \* history: the store when the call began
  past,     \* history: the stores there have been during the call
  alone,    \* history: no other connection changed the store meanwhile
  brought,  \* history: how many quads the call's own steps added
  taken     \* history: how many they removed

locals  == <<program, call, pc, at, count, rows, blobs, text, status, result>>
history == <<base, past, alone, brought, taken>>
vars    == <<store, locals, history>>

Statements == {"idle", "single", "before", "change", "after", "remove", "parse",
               "query", "filter", "row"}

TypeOK ==
  /\ store   \in SUBSET Quads
  /\ \A c \in Conns : IsCall(call[c]) /\ \A i \in DOMAIN program[c] : IsCall(program[c][i])
  /\ pc      \in [Conns -> Statements]
  /\ at      \in [Conns -> Nat]
  /\ count   \in [Conns -> Nat]
  /\ rows    \in [Conns -> Seq(Quads)]
  /\ blobs   \in [Conns -> Seq(SUBSET Quads)]
  /\ text    \in [Conns -> Seq(Triples)]
  /\ status  \in [Conns -> {"none", "ok", "error"}]
  /\ result  \in [Conns -> Int]
  /\ \A c \in Conns : call[c].op # "update" => result[c] >= 0
  /\ base    \in [Conns -> SUBSET Quads]
  /\ past    \in [Conns -> SUBSET SUBSET Quads]
  /\ alone   \in [Conns -> BOOLEAN]
  /\ brought \in [Conns -> Nat]
  /\ taken   \in [Conns -> Nat]

NoCall == [op |-> "count_all", items |-> << >>, graph |-> CHOOSE g \in Graphs : TRUE,
           deletes |-> {}, inserts |-> {}]

Init ==
  /\ \E w \in Workloads : store = w.store /\ program = w.program
  /\ call = [c \in Conns |-> NoCall]
  /\ pc = [c \in Conns |-> "idle"]
  /\ at = [c \in Conns |-> 1]
  /\ count = [c \in Conns |-> 0]
  /\ rows = [c \in Conns |-> << >>]
  /\ blobs = [c \in Conns |-> << >>]
  /\ text = [c \in Conns |-> << >>]
  /\ status = [c \in Conns |-> "none"]
  /\ result = [c \in Conns |-> 0]
  /\ base = [c \in Conns |-> store]
  /\ past = [c \in Conns |-> {store}]
  /\ alone = [c \in Conns |-> TRUE]
  /\ brought = [c \in Conns |-> 0]
  /\ taken = [c \in Conns |-> 0]

-----------------------------------------------------------------------------
(* Pieces of a step.                                                       *)

Goto(c, statement) == pc' = [pc EXCEPT ![c] = statement]

Return(c, how, n) ==
  /\ Goto(c, "idle")
  /\ status' = [status EXCEPT ![c] = how]
  /\ result' = [result EXCEPT ![c] = n]

\* Connection c makes the store `new`.
Write(c, new) ==
  /\ store' = new
  /\ past' = [d \in Conns |-> IF pc[d] = "idle" THEN past[d] ELSE past[d] \cup {new}]
  /\ alone' = [d \in Conns |-> alone[d] /\ (d = c \/ new = store \/ pc[d] = "idle")]
  /\ brought' = [brought EXCEPT ![c] = @ + Cardinality(new \ store)]
  /\ taken' = [taken EXCEPT ![c] = @ + Cardinality(store \ new)]
  /\ UNCHANGED base

ReadOnly == UNCHANGED <<store, history>>

Item(c) == call[c].items[at[c]]

\* The statements of an N-Triples dump: a line per quad, without its graph.
DumpLines(quads) == [k \in DOMAIN quads |-> quads[k][1]]

\* What the parser makes of the text a loader is given; "reload" is a load of
\* the text this connection's last dump returned.
Document(k, lines) ==
  IF k.op = "reload" THEN [i \in DOMAIN lines |-> Reparsed[lines[i]]] ELSE k.items

\* Arguments refused before the store is touched.  The rdf_triples table takes
\* neither DELETE nor UPDATE.
Refused(k) ==
  \/ k.op = "table_delete"
  \/ k.op \in {"insert", "delete", "load", "reload"} /\ k.graph = Malformed
  \/ k.op \in {"insert", "delete", "insert_many", "delete_many"} /\ Malformed \in Range(k.items)
  \/ k.op = "construct_many" /\ \E q \in Range(k.items) : q.form = "unparsable"

FirstStatement(k) ==
  CASE k.op \in Singles                        -> "single"
    [] k.op \in {"insert_many", "update"}      -> "before"
    [] k.op = "delete_many"                    -> "remove"
    [] k.op \in {"load", "reload"}             -> "parse"
    [] k.op \in Forms \cup {"construct_many"}  -> "query"
    [] OTHER                                   -> "filter"

\* SQLite calls the function.
Begin(c) ==
  /\ pc[c] = "idle"
  /\ program[c] # << >>
  /\ LET k == Head(program[c])
     IN  /\ call' = [call EXCEPT ![c] = k]
         /\ IF Refused(k) THEN Return(c, "error", 0)
            ELSE IF k.op = "insert_many" /\ k.items = << >> THEN Return(c, "ok", 0)
            ELSE /\ Goto(c, FirstStatement(k))
                 /\ status' = [status EXCEPT ![c] = "none"]
                 /\ result' = [result EXCEPT ![c] = 0]
  /\ program' = [program EXCEPT ![c] = Tail(@)]
  /\ at' = [at EXCEPT ![c] = 1]
  /\ count' = [count EXCEPT ![c] = 0]
  /\ blobs' = [blobs EXCEPT ![c] = << >>]
  /\ base' = [base EXCEPT ![c] = store]
  /\ past' = [past EXCEPT ![c] = {store}]
  /\ alone' = [alone EXCEPT ![c] = TRUE]
  /\ brought' = [brought EXCEPT ![c] = 0]
  /\ taken' = [taken EXCEPT ![c] = 0]
  /\ UNCHANGED <<store, rows, text>>

-----------------------------------------------------------------------------
(* Calls that are one step on the store.                                   *)

Single(c, op) == pc[c] = "single" /\ call[c].op = op

\* rdf_insert, and INSERT INTO the table: 1 whether or not the quad is new.
Insert(c) ==
  /\ Single(c, "insert")
  /\ Write(c, store \cup {<<Item(c), call[c].graph>>})
  /\ Return(c, "ok", 1)
  /\ UNCHANGED <<program, call, at, count, rows, blobs, text>>

Delete(c) ==
  /\ Single(c, "delete")
  /\ Write(c, store \ {<<Item(c), call[c].graph>>})
  /\ Return(c, "ok", 1)
  /\ UNCHANGED <<program, call, at, count, rows, blobs, text>>

\* clear_store; the dependency index it empties first is Reasoner's.
Clear(c) ==
  /\ Single(c, "clear")
  /\ Write(c, {})
  /\ Return(c, "ok", 1)
  /\ UNCHANGED <<program, call, at, count, rows, blobs, text>>

\* A graph name that is no IRI holds nothing; it is not refused.
Count(c) ==
  /\ Single(c, "count")
  /\ Return(c, "ok", Cardinality({q \in store : q[2] = call[c].graph}))
  /\ ReadOnly
  /\ UNCHANGED <<program, call, at, count, rows, blobs, text>>

CountAll(c) ==
  /\ Single(c, "count_all")
  /\ Return(c, "ok", Cardinality(store))
  /\ ReadOnly
  /\ UNCHANGED <<program, call, at, count, rows, blobs, text>>

\* The store lists its quads in an order of its own.
Dump(c) ==
  /\ Single(c, "dump")
  /\ \E quads \in SetToSeqs(store) : text' = [text EXCEPT ![c] = DumpLines(quads)]
  /\ Return(c, "ok", 0)
  /\ ReadOnly
  /\ UNCHANGED <<program, call, at, count, rows, blobs>>

-----------------------------------------------------------------------------
(* rdf_insert_many and sparql_update: a change between two counts.         *)

LenBefore(c) ==
  /\ pc[c] = "before"
  /\ count' = [count EXCEPT ![c] = Cardinality(store)]
  /\ Goto(c, "change")
  /\ ReadOnly
  /\ UNCHANGED <<program, call, at, rows, blobs, text, status, result>>

\* The bulk loader makes its quads visible together.
LoadQuads(c) ==
  /\ pc[c] = "change"
  /\ call[c].op = "insert_many"
  /\ Write(c, store \cup Range(call[c].items))
  /\ Goto(c, "after")
  /\ UNCHANGED <<program, call, at, count, rows, blobs, text, status, result>>

\* An update is one transaction of the store.
Update(c) ==
  /\ pc[c] = "change"
  /\ call[c].op = "update"
  /\ call[c].items = << >>
  /\ Write(c, (store \ call[c].deletes) \cup call[c].inserts)
  /\ Goto(c, "after")
  /\ UNCHANGED <<program, call, at, count, rows, blobs, text, status, result>>

\* Defect: the operations before the failing one stay.
UpdateFailsHalfway(c) ==
  /\ pc[c] = "change"
  /\ call[c].op = "update"
  /\ call[c].items # << >>
  /\ Write(c, store \ call[c].deletes)
  /\ Return(c, "error", 0)
  /\ UNCHANGED <<program, call, at, count, rows, blobs, text>>

\* The text is no update, or its evaluation fails.
UpdateFails(c) ==
  /\ pc[c] = "change"
  /\ call[c].op = "update"
  /\ call[c].items # << >>
  /\ Return(c, "error", 0)
  /\ ReadOnly
  /\ UNCHANGED <<program, call, at, count, rows, blobs, text>>

\* Defect: the usize difference is not saturating.
LenAfterWrapping(c) ==
  /\ pc[c] = "after"
  /\ Return(c, "ok", Cardinality(store) - count[c])
  /\ ReadOnly
  /\ UNCHANGED <<program, call, at, count, rows, blobs, text>>

\* saturating_sub for a batch, a signed difference for an update.
LenAfter(c) ==
  /\ pc[c] = "after"
  /\ LET change == Cardinality(store) - count[c]
     IN  Return(c, "ok", IF call[c].op = "insert_many" /\ change < 0 THEN 0 ELSE change)
  /\ ReadOnly
  /\ UNCHANGED <<program, call, at, count, rows, blobs, text>>

-----------------------------------------------------------------------------
(* Calls that go through a list, one step on the store per element.        *)

\* Defect: every row counts, the absent ones too.
RemoveRowCounted(c) ==
  /\ pc[c] = "remove"
  /\ at[c] <= Len(call[c].items)
  /\ Write(c, store \ {Item(c)})
  /\ count' = [count EXCEPT ![c] = @ + 1]
  /\ at' = [at EXCEPT ![c] = @ + 1]
  /\ UNCHANGED <<program, call, pc, rows, blobs, text, status, result>>

RemoveRow(c) ==
  /\ pc[c] = "remove"
  /\ at[c] <= Len(call[c].items)
  /\ Write(c, store \ {Item(c)})
  /\ count' = [count EXCEPT ![c] = IF Item(c) \in store THEN @ + 1 ELSE @]
  /\ at' = [at EXCEPT ![c] = @ + 1]
  /\ UNCHANGED <<program, call, pc, rows, blobs, text, status, result>>

RemoveDone(c) ==
  /\ pc[c] = "remove"
  /\ at[c] > Len(call[c].items)
  /\ Return(c, "ok", count[c])
  /\ ReadOnly
  /\ UNCHANGED <<program, call, at, count, rows, blobs, text>>

\* load_rdf: the parser yields the next statement, which is inserted into
\* the one graph and counted, new or not.
LoadStatement(c) ==
  LET document == Document(call[c], text[c])
  IN  /\ pc[c] = "parse"
      /\ at[c] <= Len(document)
      /\ document[at[c]] # Malformed
      /\ Write(c, store \cup {<<document[at[c]], call[c].graph>>})
      /\ count' = [count EXCEPT ![c] = @ + 1]
      /\ at' = [at EXCEPT ![c] = @ + 1]
      /\ UNCHANGED <<program, call, pc, rows, blobs, text, status, result>>

\* A parse error ends the call; what was inserted stays.
LoadFails(c) ==
  LET document == Document(call[c], text[c])
  IN  /\ pc[c] = "parse"
      /\ at[c] <= Len(document)
      /\ document[at[c]] = Malformed
      /\ Return(c, "error", 0)
      /\ ReadOnly
      /\ UNCHANGED <<program, call, at, count, rows, blobs, text>>

LoadDone(c) ==
  /\ pc[c] = "parse"
  /\ at[c] > Len(Document(call[c], text[c]))
  /\ Return(c, "ok", count[c])
  /\ ReadOnly
  /\ UNCHANGED <<program, call, at, count, rows, blobs, text>>

FormOf(k) == IF k.op = "construct_many" THEN "construct" ELSE k.op

\* Each query is evaluated on the store as it then is.
Query(c) ==
  /\ pc[c] = "query"
  /\ at[c] <= Len(call[c].items)
  /\ Item(c).form = FormOf(call[c])
  /\ blobs' = [blobs EXCEPT ![c] = Append(@, Item(c).selects \cap store)]
  /\ at' = [at EXCEPT ![c] = @ + 1]
  /\ ReadOnly
  /\ UNCHANGED <<program, call, pc, count, rows, text, status, result>>

\* The text does not parse, or is another form than the function takes.
QueryFails(c) ==
  /\ pc[c] = "query"
  /\ at[c] <= Len(call[c].items)
  /\ Item(c).form # FormOf(call[c])
  /\ Return(c, "error", 0)
  /\ ReadOnly
  /\ UNCHANGED <<program, call, at, count, rows, blobs, text>>

QueryDone(c) ==
  /\ pc[c] = "query"
  /\ at[c] > Len(call[c].items)
  /\ Return(c, "ok", 0)
  /\ ReadOnly
  /\ UNCHANGED <<program, call, at, count, rows, blobs, text>>

-----------------------------------------------------------------------------
(* SELECT f(rdf_term_value(subject), rdf_term_value(predicate),            *)
(*          CASE rdf_term_type(object) WHEN 'iri' THEN rdf_term_value(object) *)
(*          ELSE object END, graph) FROM rdf_triples, where f is rdf_delete, *)
(* or rdf_insert into a graph of its own: the cursor copies the store,     *)
(* then every row it yields is printed, parsed again and changes the       *)
(* store.  A row that is refused ends the statement; the store undoes      *)
(* nothing.                                                                *)

Filter(c) ==
  /\ pc[c] = "filter"
  /\ \E quads \in SetToSeqs(store) : rows' = [rows EXCEPT ![c] = quads]
  /\ Goto(c, "row")
  /\ ReadOnly
  /\ UNCHANGED <<program, call, at, count, blobs, text, status, result>>

\* Defect: the cursor keeps a position in the store as it is now.
CursorRowsLive(c) == SetToSeq(store)

\* Defect: the rows after the current one are read as they are needed.
CursorRowsPaged(c) ==
  LET yielded == SubSeq(rows[c], 1, IF at[c] <= Len(rows[c]) THEN at[c] - 1 ELSE Len(rows[c]))
  IN  yielded \o SetToSeq(store \ Range(yielded))

CursorRows(c) == rows[c]

Row(c) == CursorRows(c)[at[c]]

\* The quad the writer makes of a row.
RowQuad(k, row) ==
  <<Reread[row[1]], IF k.op = "for_each_delete" THEN row[2] ELSE k.graph>>

Readable(k, row) == RowQuad(k, row) \in Quads

RowOf(c) ==
  /\ pc[c] = "row"
  /\ at[c] <= Len(CursorRows(c))
  /\ Readable(call[c], Row(c))
  /\ Write(c, IF call[c].op = "for_each_delete" THEN store \ {RowQuad(call[c], Row(c))}
              ELSE store \cup {RowQuad(call[c], Row(c))})
  /\ at' = [at EXCEPT ![c] = @ + 1]
  /\ UNCHANGED <<program, call, pc, count, rows, blobs, text, status, result>>

RowFails(c) ==
  /\ pc[c] = "row"
  /\ at[c] <= Len(CursorRows(c))
  /\ ~Readable(call[c], Row(c))
  /\ Return(c, "error", 0)
  /\ ReadOnly
  /\ UNCHANGED <<program, call, at, count, rows, blobs, text>>

Eof(c) ==
  /\ pc[c] = "row"
  /\ at[c] > Len(CursorRows(c))
  /\ Return(c, "ok", 0)
  /\ ReadOnly
  /\ UNCHANGED <<program, call, at, count, rows, blobs, text>>

Next ==
  \E c \in Conns :
    \/ Begin(c)
    \/ Insert(c) \/ Delete(c) \/ Clear(c) \/ Count(c) \/ CountAll(c) \/ Dump(c)
    \/ LenBefore(c) \/ LoadQuads(c) \/ Update(c) \/ UpdateFails(c) \/ LenAfter(c)
    \/ RemoveRow(c) \/ RemoveDone(c)
    \/ LoadStatement(c) \/ LoadFails(c) \/ LoadDone(c)
    \/ Query(c) \/ QueryFails(c) \/ QueryDone(c)
    \/ Filter(c) \/ RowOf(c) \/ RowFails(c) \/ Eof(c)

Spec == Init /\ [][Next]_vars

-----------------------------------------------------------------------------
\* A count made of single removals is the caller's own, whoever else deletes
\* or inserts the same quads meanwhile: what delete_many counts is what it
\* took away, and no quad is credited to two calls; a loader never counts
\* less than it added (rdf_bulk.rs:63-75, rdf_triple.rs:389-392).
CreditsAreOwn ==
  \A c \in Conns :
    /\ call[c].op = "delete_many" /\ status[c] # "error" => count[c] = taken[c] /\ brought[c] = 0
    /\ call[c].op \in {"load", "reload"} => brought[c] <= count[c] /\ taken[c] = 0

\* Whether the store S shows what the writer made of a row.
Applied(k, row, S) ==
  IF k.op = "for_each_delete" THEN RowQuad(k, row) \notin S ELSE RowQuad(k, row) \in S

\* A call that ends in an error leaves nothing behind, in any interleaving:
\* neither batch function applies the rows before a malformed one.  The
\* loaders and the statements that write as they scan are the exceptions, and
\* theirs is a prefix: what precedes the error was applied, one change to the
\* store at most for each element, and nothing after it.  A scan fails exactly
\* at a row the writer cannot read back (rdf_bulk.rs:43,59,
\* sparql_query.rs:171, rdf_triple.rs:380-392, store.rs:128-140,216-240).
FailuresLeaveAPrefix ==
  \A c \in Conns :
    LET k == call[c]
        done == 1..(at[c] - 1)
    IN  status[c] = "error" =>
          /\ brought[c] + taken[c] <= at[c] - 1
          /\ k.op \notin {"load", "reload", "for_each_insert"} => brought[c] = 0
          /\ k.op # "for_each_delete" => taken[c] = 0
          /\ k.op \in {"load", "reload"} =>
               \A i \in done : <<Document(k, text[c])[i], k.graph>> \in UNION past[c]
          /\ k.op \in Scans =>
               /\ at[c] <= Len(rows[c]) /\ ~Readable(k, rows[c][at[c]])
               /\ \A i \in done : /\ Readable(k, rows[c][i])
                                   /\ \E S \in past[c] : Applied(k, rows[c][i], S)

\* Whoever writes meanwhile, an answer describes the store at one moment of
\* the call: each blob of construct_many, a dump, and the rows of a cursor
\* from its filter to its end (sparql_query.rs:239-241, rdf_triple.rs:404,
\* triples_vtab.rs:169-188).
ReadsAreMoments ==
  \A c \in Conns :
    /\ \A i \in DOMAIN blobs[c] : \E S \in past[c] : blobs[c][i] = call[c].items[i].selects \cap S
    /\ call[c].op = "dump" /\ status[c] = "ok" =>
         \E S \in past[c] : /\ Len(text[c]) = Cardinality(S)
                            /\ Range(text[c]) = {q[1] : q \in S}
    /\ pc[c] = "row" =>
         \E S \in past[c] : Len(CursorRows(c)) = Cardinality(S) /\ Range(CursorRows(c)) = S

-----------------------------------------------------------------------------
\* How many statements of a document precede its first error.
Good(doc) == CHOOSE n \in 0..Len(doc) :
               /\ \A i \in 1..n : doc[i] # Malformed
               /\ n < Len(doc) => doc[n + 1] = Malformed

Loaded(k, lines) == LET doc == Document(k, lines)
                    IN  {<<doc[i], k.graph>> : i \in 1..Good(doc)}

\* What a call promises: the store it leaves, and the number it returns.  A
\* statement that writes as it scans promises less, below.
Promised(k, S, lines) ==
  CASE k.op = "insert"          -> S \cup {<<k.items[1], k.graph>>}
    [] k.op = "delete"          -> S \ {<<k.items[1], k.graph>>}
    [] k.op = "clear"           -> {}
    [] k.op = "insert_many"     -> S \cup Range(k.items)
    [] k.op = "delete_many"     -> S \ Range(k.items)
    [] k.op = "update"          -> IF k.items = << >> THEN (S \ k.deletes) \cup k.inserts ELSE S
    [] k.op \in {"load", "reload"} -> S \cup Loaded(k, lines)
    [] OTHER                    -> S

PromisedCount(k, S, lines) ==
  CASE k.op \in {"insert", "delete", "clear"} -> 1
    [] k.op = "insert_many"    -> Cardinality(Range(k.items) \ S)
    [] k.op = "delete_many"    -> Cardinality(Range(k.items) \cap S)
    [] k.op = "update"         -> Cardinality(Promised(k, S, lines)) - Cardinality(S)
    [] k.op \in {"load", "reload"} -> Len(Document(k, lines))
    [] k.op = "count"          -> Cardinality({q \in S : q[2] = k.graph})
    [] k.op = "count_all"      -> Cardinality(S)
    [] OTHER                   -> 0

Returns(c) == pc[c] # "idle" /\ pc'[c] = "idle"

\* The store S once the rows of T have been written back.
Scanned(k, S, T) ==
  LET quads == {RowQuad(k, q) : q \in T}
  IN  IF k.op = "for_each_delete" THEN S \ quads ELSE S \cup quads

\* A scan of S applies every row if all can be read back, and fails with some
\* of them applied if one cannot.
ScanLeaves(k, S, how, new) ==
  LET readable == {q \in S : Readable(k, q)}
  IN  /\ how = (IF readable = S THEN "ok" ELSE "error")
      /\ \E T \in SUBSET readable : new = Scanned(k, S, T) /\ (how = "ok" => T = S)

\* A call no other connection disturbs leaves the store its arguments call for
\* and, if it succeeds, returns what that took: duplicate rows are not counted,
\* deletes of absent quads are not, the net change of an update has its sign,
\* a load counts statements and not quads, and a failed load keeps what
\* preceded the error.  A statement that changes the store row by row while
\* scanning it visits exactly the rows that were there: it writes back what
\* the parser makes of each, which is another quad than the row where the two
\* disagree, and stops with an error, the rows before it applied, if and only
\* if the store held a row the parser refuses (rdf_bulk.rs:42-76,
\* sparql_query.rs:168-175, rdf_triple.rs:367-396, triples_vtab.rs:161-200,
\* store.rs:128-140,216-240).
AloneIsAtomic ==
  [][\A c \in Conns :
       Returns(c) /\ alone'[c] =>
         /\ IF call[c].op \in Scans THEN ScanLeaves(call[c], base[c], status'[c], store')
            ELSE store' = Promised(call[c], base[c], text[c])
         /\ status'[c] = "ok" => result'[c] = PromisedCount(call[c], base[c], text[c])]_vars
=============================================================================
