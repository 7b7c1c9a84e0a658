----------------------------- MODULE ShaclPath -----------------------------
(***************************************************************************)
(* SHACL property paths (functions/rdf_shacl_core/path.rs): how sh:path is *)
(* read from the shapes graph, and which values a path leads to in the     *)
(* data graph.  A graph is a set of triples <<subject, predicate, object>>.*)
(*                                                                         *)
(* The code's syntax tree is a root and a function that tells what every   *)
(* blank node means as a path: its operator and its parts, which are terms *)
(* again.                                                                  *)
(***************************************************************************)
EXTENDS Integers, FiniteSets, Sequences, SequencesExt

CONSTANTS Iris, Blanks, Literals, Quoted    \* the terms, by kind

Terms    == Iris \cup Blanks \cup Literals \cup Quoted
Subjects == Iris \cup Blanks \cup Quoted

PathVocabulary ==
  {"rdf:first", "rdf:rest", "rdf:nil", "sh:inversePath", "sh:alternativePath",
   "sh:zeroOrMorePath", "sh:oneOrMorePath", "sh:zeroOrOnePath"}

ASSUME PathVocabularyIris == PathVocabulary \subseteq Iris
ASSUME KindsApart ==
  /\ Subjects \cap Literals = {}
  /\ Iris \cap (Blanks \cup Quoted) = {}
  /\ Blanks \cap Quoted = {}

Objects(G, s, p)      == {t[3] : t \in {u \in G : u[1] = s /\ u[2] = p}}
SubjectsWith(G, p, o) == {t[1] : t \in {u \in G : u[2] = p /\ u[3] = o}}

\* The first object in the store's order, if there is one; nothing relies on
\* which it is.
LookupObject(G, s, p) ==
  LET found == Objects(G, s, p)
  IN  IF found = {} THEN {} ELSE {CHOOSE o \in found : TRUE}

Only(singleton) == CHOOSE x \in singleton : TRUE

\* The elements in some order, which the code leaves to the store or a hash set.
Listed(S) == FoldSet(LAMBDA x, list : Append(list, x), << >>, S)

Broken == [ok |-> FALSE, items |-> << >>]

\* An RDF list, walked with the nodes seen on the way; a literal or a cycle in
\* its spine, or a missing link, breaks it.
WalkList(G, head) ==
  LET walk[at \in Terms \X SUBSET Terms] ==
        LET first == LookupObject(G, at[1], "rdf:first")
            rest  == LookupObject(G, at[1], "rdf:rest")
        IN  IF at[1] = "rdf:nil" THEN [ok |-> TRUE, items |-> << >>]
            ELSE IF at[1] \in Literals \cup at[2] \/ first = {} \/ rest = {} THEN Broken
            ELSE LET tail == walk[<<Only(rest), at[2] \cup {at[1]}>>]
                 IN  IF tail.ok THEN [ok |-> TRUE, items |-> <<Only(first)>> \o tail.items]
                     ELSE Broken
  IN  walk[<<head, {}>>]

-----------------------------------------------------------------------------
(* Reading a path from the shapes graph.                                   *)

Markers == <<"sh:inversePath", "sh:alternativePath",
             "sh:zeroOrMorePath", "sh:oneOrMorePath", "sh:zeroOrOnePath">>
PathOps == {"predicate", "sequence", "refused"} \cup Range(Markers)

Node(op, parts) == [op |-> op, parts |-> parts]

\* A list of paths; a sequence may not be empty, an alternative may.
ListNode(op, list) ==
  IF ~list.ok \/ (op = "sequence" /\ list.items = << >>) THEN Node("refused", << >>)
  ELSE Node(op, list.items)

\* What a blank node means as a path.  The markers are looked up one after the
\* other: a node that bears two is read by the first.
BlankPathNode(G, t) ==
  LET marked(p) == LookupObject(G, t, p)
      bears     == {i \in DOMAIN Markers : marked(Markers[i]) # {}}
      mark      == Markers[Min(bears)]
  IN  IF bears = {} THEN ListNode("sequence", WalkList(G, t))
      ELSE IF mark = "sh:alternativePath" THEN ListNode(mark, WalkList(G, Only(marked(mark))))
      ELSE Node(mark, <<Only(marked(mark))>>)

Syntax(G) == [t \in Blanks \cap {u[1] : u \in G} |-> BlankPathNode(G, t)]

PathNode(syntax, t) ==
  CASE t \in DOMAIN syntax -> syntax[t]
    [] t \in Iris          -> Node("predicate", <<t>>)
    [] OTHER               -> Node("refused", << >>)

\* Depth first, from the left: a part that is refused ends the parse, and one
\* that leads back to a node it is part of, one of those above it, keeps it
\* descending.
ParsePath(syntax, root) ==
  LET parse[at \in Terms \X SUBSET Terms] ==
        LET node     == PathNode(syntax, at[1])
            verdicts == [i \in DOMAIN node.parts |-> parse[<<node.parts[i], at[2] \cup {at[1]}>>]]
            failing  == {i \in DOMAIN verdicts : verdicts[i] # "ok"}
        IN  IF at[1] \in at[2] THEN "loops"
            ELSE CASE node.op = "refused"   -> "error"
                   [] node.op = "predicate" -> "ok"
                   [] OTHER                 -> IF failing = {} THEN "ok" ELSE verdicts[Min(failing)]
  IN  parse[<<root, {}>>]

\* A branch of a tree repeats no node, and ends in a predicate.
MaxDepth(syntax) == Cardinality(DOMAIN syntax) + 1

-----------------------------------------------------------------------------
(* Walking the data graph D.                                               *)

Nodes(D) == {t[1] : t \in D} \cup {t[3] : t \in D}

\* Only a term that can be a subject is walked on from.
Onward(values) == values \cap Subjects

StepFrom(hop, F) == UNION {hop[f] : f \in F}

\* What can be walked on from, in any number of steps.
Reached(hop, F) ==
  LET closed[S \in SUBSET DOMAIN hop] ==
        LET new == Onward(StepFrom(hop, S)) \ S
        IN  IF new = {} THEN S ELSE closed[S \cup new]
  IN  closed[F]

\* A literal is never among these values ...
ZeroOrMore(hop, focus) == Reached(hop, {focus})

\* Defect: the focus node counts as visited from the start.
OneOrMoreVisited(hop, focus) == (Reached(hop, {focus}) \ {focus}) \cup hop[focus]

\* ... and among these only if the first step leads to it.
OneOrMore(hop, focus) == Reached(hop, Onward(hop[focus])) \cup hop[focus]

ZeroOrOne(hop, focus) == {focus} \cup hop[focus]

\* One hop after the other.
Along(hops, focus) ==
  LET walked[i \in 0..Len(hops)] ==
        IF i = 0 THEN {focus} ELSE StepFrom(hops[i], Onward(walked[i - 1]))
  IN  walked[Len(hops)]

\* The values of a path at a focus node, without repetition.  Only a predicate
\* is inverted: the inverse of an inverse is what that inverts, and that of any
\* other path leads nowhere.  The recursion is bounded by the depth of the tree.
EvaluatePath(syntax, root, D, focus) ==
  LET places == Onward(Nodes(D) \cup {focus})
      value[at \in (0..MaxDepth(syntax)) \X Terms \X places] ==
        LET n          == at[1]
            f          == at[3]
            node       == PathNode(syntax, at[2])
            part(t)    == [g \in places |-> value[<<n - 1, t, g>>]]
            hops       == [i \in DOMAIN node.parts |-> part(node.parts[i])]
            inner      == PathNode(syntax, node.parts[1])
        IN  IF n = 0 THEN {}
            ELSE CASE node.op = "predicate"          -> Objects(D, f, at[2])
                   [] node.op = "sh:inversePath"     ->
                        CASE inner.op = "predicate"      -> SubjectsWith(D, node.parts[1], f)
                          [] inner.op = "sh:inversePath" -> part(inner.parts[1])[f]
                          [] OTHER                       -> {}
                   [] node.op = "sequence"           -> Along(hops, f)
                   [] node.op = "sh:alternativePath" -> UNION {hops[i][f] : i \in DOMAIN hops}
                   [] node.op = "sh:zeroOrMorePath"  -> ZeroOrMore(hops[1], f)
                   [] node.op = "sh:oneOrMorePath"   -> OneOrMore(hops[1], f)
                   [] node.op = "sh:zeroOrOnePath"   -> ZeroOrOne(hops[1], f)
                   [] OTHER                          -> {}
  IN  value[<<MaxDepth(syntax), root, focus>>]
=============================================================================
