---------------------------- MODULE MCReasoner ----------------------------
(* Small rule sets for the reasoner: a and b are asserted, w, x, y and z   *)
(* are inferred.                                                           *)
EXTENDS Reasoner

CONSTANTS a, b, w, x, y, z, g, t1, t2

From(q, D) == [inferred |-> q, premises |-> D]
Rule(scans, instances) == [scans |-> scans, instances |-> instances]

Asserts == {a, b}

\* One caller: x has two derivations, one through an inferred quad, and z
\* joins an inferred with an asserted premise.
DiamondQuads   == {a, b, x, y, z}
DiamondGraphOf == [q \in {x, y, z} |-> g]
DiamondRules   == << Rule(<<Asserts, {x, y, z}>>, {From(x, {a}), From(x, {y})}),
                     Rule(<<Asserts, {x, y, z}>>, {From(y, {b}), From(z, {x, b})}) >>

\* The same, and a rule without a tracked variant whose conclusion w is a
\* premise of z.
MixedQuads   == {a, b, w, x, y, z}
MixedGraphOf == [q \in {w, x, y, z} |-> g]
MixedRules   == << Rule(<<Asserts, {w, x, y, z}>>, {From(x, {a}), From(x, {y})}),
                   Rule(<<Asserts, {w, x, y, z}>>, {From(y, {b}), From(z, {x, w})}),
                   Rule(<<{b}>>, {From(w, {b})}) >>

\* The first three, with x and y deriving each other.
CircleRules  == << Rule(<<Asserts, {x, y, z}>>, {From(x, {a}), From(x, {y})}),
                   Rule(<<Asserts, {x, y, z}>>, {From(y, {b}), From(y, {x}), From(z, {x, b})}) >>

\* Two callers: a chain through two rules, the second a join of an asserted
\* and an inferred quad, read by two scans, without a tracked variant.
ChainQuads   == {a, x, y}
ChainGraphOf == [q \in {x, y} |-> g]
ChainRules   == << Rule(<<{a}>>, {From(x, {a})}), Rule(<<{a}, {x}>>, {From(y, {a, x})}) >>
=============================================================================
