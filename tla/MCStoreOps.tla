----------------------------- MODULE MCStoreOps -----------------------------
(***************************************************************************)
(* Two connections on a small store: every pair of the calls below, one in *)
(* each connection, and a dump that is loaded again beside each of them.   *)
(***************************************************************************)
EXTENDS StoreOps, Terms

CONSTANTS c1, c2

\* A triple is told from another by its object.
MCTriples  == Plain \cup QuotedTriples
MCReparsed == [t \in MCTriples |->
  LET read == NTriplesTerm(TermToNTriples(t)) IN IF read = Invalid THEN Malformed ELSE read]

\* A row of rdf_triples handed to rdf_insert or rdf_delete, the brackets of an
\* IRI taken off.
MCReread   == [t \in MCTriples |->
  LET printed == TermToNTriples(t)
      read    == ParseTerm(IF TermType(printed) = "iri" THEN TermValue(printed) ELSE printed)
  IN  IF read = Invalid THEN Malformed ELSE read]

Literal(value) == [kind |-> "literal", value |-> value, suffix |-> << >>]
plain == Literal(<<"a">>)
said  == QuotedTriple(Literal(<<Quote>>))
path  == Literal(<<Backslash, "n">>)

PD == <<plain, "default">>
PG == <<plain, "g">>
SD == <<said, "default">>
WG == <<path, "g">>
\* A quoted triple the parser refuses, SD, and one it takes for another, ND.
ND == <<QuotedTriple(path), "default">>

MCStores == {{}, {PD}, {PD, PG, WG}, {PD, SD, WG}, {PD, ND}}

Call(op, items, graph) ==
  [op |-> op, items |-> items, graph |-> graph, deletes |-> {}, inserts |-> {}]
UpdateCall(items, deletes, inserts) ==
  [op |-> "update", items |-> items, graph |-> "default", deletes |-> deletes, inserts |-> inserts]
QueryOf(form) == [form |-> form, selects |-> {PD, PG, SD}]

OneStep == {Call("insert", <<plain>>, "default"), Call("insert", <<plain>>, Malformed),
            Call("delete", <<plain>>, "default"), Call("clear", << >>, "default"),
            Call("count", << >>, "g"), Call("count", << >>, Malformed),
            Call("count_all", << >>, "default"), Call("dump", << >>, "default"),
            Call("table_delete", << >>, "default")}
Changing == {Call("insert_many", <<PD, PG, PD>>, "default"), Call("insert_many", << >>, "default"),
             Call("insert_many", <<PG, Malformed>>, "default"),
             Call("delete_many", <<PD, SD, PD>>, "default"),
             Call("delete_many", <<PD, Malformed>>, "default"),
             UpdateCall(<< >>, {PD, SD}, {PG}), UpdateCall(<<Malformed>>, {PD}, {}),
             Call("load", <<plain, said, plain>>, "g"),
             Call("load", <<said, Malformed, plain>>, "default"),
             Call("load", <<said>>, Malformed),
             Call("for_each_insert", << >>, "g"), Call("for_each_insert", << >>, Malformed),
             Call("for_each_delete", << >>, "default")}
Asking == {Call("select", <<QueryOf("select")>>, "default"), Call("ask", <<QueryOf("select")>>, "default"),
           Call("construct_many", <<QueryOf("construct"), QueryOf("construct")>>, "default"),
           Call("construct_many", <<QueryOf("construct"), QueryOf("ask")>>, "default"),
           Call("construct_many", <<QueryOf("construct"), QueryOf("unparsable")>>, "default")}
MCCalls == OneStep \cup Changing \cup Asking

DumpAndLoad == <<Call("dump", << >>, "default"), Call("clear", << >>, "default"),
                 Call("reload", << >>, "default")>>

Work(S, p, q) == [store |-> S, program |-> [c \in {c1, c2} |-> IF c = c1 THEN p ELSE q]]

Pairs      == {Work(S, <<k>>, <<l>>) : S \in MCStores, k \in MCCalls, l \in OneStep \cup Changing}
\* Every call beside two that change the store.
Racing     == {Call("delete", <<plain>>, "default"), Call("insert", <<plain>>, "default"),
               Call("clear", << >>, "default"), Call("insert_many", <<PD, PG, PD>>, "default"),
               Call("delete_many", <<PD, SD, PD>>, "default"), UpdateCall(<< >>, {PD, SD}, {PG})}
Triplets   == {Work(S, <<k>>, <<l, n>>) : S \in {{PD, SD, WG}}, k \in MCCalls, l \in Racing, n \in Racing}
Reloads    == {Work(S, DumpAndLoad, <<l>>) : S \in MCStores, l \in OneStep \cup Changing}
\* Every term on its own.
SingleTerms == {Work({<<t, "g">>}, DumpAndLoad, << >>) : t \in MCTriples}
MCWorkloads == Pairs \cup Triplets \cup Reloads \cup SingleTerms

-----------------------------------------------------------------------------
\* What the functions make of the text a reader prints.  rdf_term_type names
\* the kind of every term.  A term that is no quoted triple goes back to a
\* writer as the same term whatever characters its literal holds, an IRI once
\* rdf_term_value took its brackets off.  A quoted triple does so, and
\* rdf_triple_object returns its object as printed, exactly when its literal
\* has no quote, backslash or line end: those are printed as they are and read
\* by a parser that takes them for the end of the literal, an escape or an
\* error.  The lines of a dump come back under the same condition, quoted
\* triple or not (store.rs:207-309, rdf_triple.rs:243-305,
\* sparql_query.rs:282-318).
SqlTermsRoundTrip ==
  \A q \in store :
    LET t       == q[1]
        literal == IF t.kind = "triple" THEN t.object ELSE t
        printed == TermToNTriples(t)
        safe    == Range(literal.value) \cap {Quote, Backslash, Newline} = {}
    IN  /\ TermType(printed) = t.kind
        /\ t.kind # "triple" => TermValue(printed) = t.value /\ Reread[t] = t
        /\ t.kind = "triple" => /\ Reread[t] = t <=> safe
                                /\ TripleObject(printed) = TermToNTriples(t.object) <=> safe
        /\ Reparsed[t] = t <=> safe

\* docs/plans/PLAN_0.7.0.md:247 and README.md:569-570: what
\* rdf_dump_ntriples writes, rdf_load_ntriples reads (rdf_triple.rs:398-415).
DumpLoads ==
  \A c \in Conns : call[c].op = "reload" => status[c] # "error"
=============================================================================
