--------------------------- MODULE ShaclSemantics ---------------------------
(***************************************************************************)
(* What SHACL and RDF mean, against which the validator is checked: paths  *)
(* as relations on the nodes of the data graph, and what the values of a   *)
(* focus node violate.  Closures are least sets here, not worklists, and   *)
(* the components of a property shape are looked at all at once.           *)
(***************************************************************************)
EXTENDS ShaclConstraints

-----------------------------------------------------------------------------
(* Relations on a set N of nodes.                                          *)

Identity(N) == {<<n, n>> : n \in N}
Converse(R) == {<<r[2], r[1]>> : r \in R}

\* From a, along the relations in turn.
Composed(relations, N) ==
  {<<walk[0], walk[Len(relations)]>> :
     walk \in {w \in [0..Len(relations) -> N] :
                 \A i \in 1..Len(relations) : <<w[i - 1], w[i]>> \in relations[i]}}

\* What a reaches in one or more steps is in every set that has what a leads to
\* and is closed.
Closure(R, N) ==
  UNION {LET closed == {S \in SUBSET N : \A r \in R : r[1] \in {a} \cup S => r[2] \in S}
         IN  {<<a, b>> : b \in {n \in N : \A S \in closed : n \in S}} : a \in N}

-----------------------------------------------------------------------------
(* Paths.                                                                  *)

\* The relation that SHACL gives a path, over the nodes N of the data graph.  A
\* path that is a part of itself has none; no call gets past parsing one.
PathRelation(syntax, root, D, N) ==
  LET relation[at \in Terms \X SUBSET Terms] ==
        LET node  == PathNode(syntax, at[1])
            parts == [i \in DOMAIN node.parts |-> relation[<<node.parts[i], at[2] \cup {at[1]}>>]]
        IN  IF at[1] \in at[2] THEN {}
            ELSE CASE node.op = "predicate"          -> {<<t[1], t[3]>> : t \in {u \in D : u[2] = at[1]}}
                   [] node.op = "sh:inversePath"     -> Converse(parts[1])
                   [] node.op = "sequence"           -> Composed(parts, N)
                   [] node.op = "sh:alternativePath" -> UNION {parts[i] : i \in DOMAIN parts}
                   [] node.op = "sh:zeroOrMorePath"  -> Closure(parts[1], N) \cup Identity(N)
                   [] node.op = "sh:oneOrMorePath"   -> Closure(parts[1], N)
                   [] node.op = "sh:zeroOrOnePath"   -> parts[1] \cup Identity(N)
                   [] OTHER                          -> {}
  IN  relation[<<root, {}>>]

\* The operators of a path and its parts.
OpsOf(syntax, root) ==
  LET ops[at \in Terms \X SUBSET Terms] ==
        LET node  == PathNode(syntax, at[1])
            below == {ops[<<node.parts[i], at[2] \cup {at[1]}>>] : i \in DOMAIN node.parts}
        IN  IF at[1] \in at[2] \/ node.op = "predicate" THEN {node.op}
            ELSE {node.op} \cup UNION below
  IN  ops[<<root, {}>>]

\* Nothing is inverted but, at the root, a predicate.
Forward(syntax, root) ==
  LET node == PathNode(syntax, root)
  IN  \/ "sh:inversePath" \notin OpsOf(syntax, root)
      \/ node.op = "sh:inversePath" /\ PathNode(syntax, node.parts[1]).op = "predicate"

\* Nothing is repeated, and nothing is optional in a sequence.
Stepwise(syntax, root) ==
  LET ops == OpsOf(syntax, root)
  IN  /\ ops \cap {"sh:zeroOrMorePath", "sh:oneOrMorePath"} = {}
      /\ ~({"sequence", "sh:zeroOrOnePath"} \subseteq ops)

-----------------------------------------------------------------------------
(* Constraints.                                                            *)

\* No property shape sets a parameter twice, no list forks.
Unambiguous(S) ==
  \A t, u \in S :
    /\ t[1] = u[1] /\ t[2] = u[2]
    /\ t[2] \in Range(Components) \cup {"sh:flags", "sh:path", "rdf:first", "rdf:rest"}
    => t[3] = u[3]

\* A class is below itself and what it is said to be a subclass of.  RDF knows
\* no quoted triples as instances.
IsInstance(D, v, b) ==
  LET below == {<<t[1], t[3]>> : t \in {u \in D : u[2] = "rdfs:subClassOf" /\ {u[1], u[3]} \subseteq Iris}}
      above == Closure(below, {r[1] : r \in below} \cup {r[2] : r \in below})
  IN  /\ v \in Iris \cup Blanks
      /\ \E class \in Objects(D, v, "rdf:type") : class = b \/ <<class, b>> \in above

\* The members of a list: what the nodes down to rdf:nil have as their first.
Members(S, head) ==
  LET links == {<<t[1], t[3]>> : t \in {u \in S : u[2] = "rdf:rest" /\ u[1] # "rdf:nil"}}
      ends  == {r[1] : r \in links} \cup {r[2] : r \in links}
      cells == {head} \cup {r[2] : r \in {q \in Closure(links, ends) : q[1] = head}}
  IN  {t[3] : t \in {u \in S : u[2] = "rdf:first" /\ u[1] \in cells \ {"rdf:nil"}}}

IsTarget(S, D, shape, f) ==
  /\ f \notin Literals
  /\ \/ <<shape, "sh:targetNode", f>> \in S
     \/ \E t \in S :
          /\ t[1] = shape /\ t[3] \in Iris
          /\ \/ t[2] = "sh:targetClass" /\ <<f, "rdf:type", t[3]>> \in D
             \/ t[2] = "sh:targetSubjectsOf" /\ \E u \in D : u[1] = f /\ u[2] = t[3]
             \/ t[2] = "sh:targetObjectsOf" /\ \E u \in D : u[2] = t[3] /\ u[3] = f

Numbers(v) == {Number[l] : l \in {v} \cap DOMAIN Number}

\* A value meets component k of property shape n, whose parameter is b.
Meets(S, D, n, k, b, v) ==
  CASE k = "sh:datatype"     -> v \in Literals /\ Datatype[v] = b
    [] k = "sh:nodeKind"     -> v \in NodeKinds[b]
    [] k = "sh:class"        -> IsInstance(D, v, b)
    [] k = "sh:pattern"      -> v \in Literals \cup Iris /\ v \in Matches[<<b, Objects(S, n, "sh:flags")>>]
    [] k = "sh:minLength"    -> v \in Literals \cup Iris /\ Length[v] >= Number[b]
    [] k = "sh:maxLength"    -> v \in Literals \cup Iris /\ Length[v] <= Number[b]
    [] k = "sh:in"           -> v \in Members(S, b)
    [] k = "sh:minInclusive" -> \E i \in Numbers(v), j \in Numbers(b) : i >= j
    [] k = "sh:maxInclusive" -> \E i \in Numbers(v), j \in Numbers(b) : i <= j

\* What the values of a focus node at property shape n violate: pairs of a
\* component and, for all but the counts and sh:hasValue, a value.
Together == {"sh:minCount", "sh:maxCount", "sh:hasValue"}
OneByOne == Range(Components) \ Together
Violated(S, D, n, vals) ==
  {<<"sh:minCount", {}>> : b \in {l \in Objects(S, n, "sh:minCount") : Cardinality(vals) < Number[l]}}
  \cup {<<"sh:maxCount", {}>> : b \in {l \in Objects(S, n, "sh:maxCount") : Cardinality(vals) > Number[l]}}
  \cup {<<"sh:hasValue", {}>> : b \in Objects(S, n, "sh:hasValue") \ vals}
  \cup {<<x[1], {x[2]}>> : x \in {y \in OneByOne \X vals :
            \E b \in Objects(S, n, y[1]) : ~Meets(S, D, n, y[1], b, y[2])}}
=============================================================================
