------------------------ MODULE MCDependencyIndex ------------------------
(* A small index: two asserted premises p1, p2, an inferred quad y resting *)
(* on p2, and an inferred quad x with three derivations, one through y and *)
(* one through itself (a symmetric or reflexive premise).                  *)
EXTENDS DependencyIndex

CONSTANTS p1, p2, x, y, t1, t2

MCQuads   == {p1, p2, x, y}
MCCallers == {t1, t2}
MCFirings == {[inferred |-> x, premises |-> {p1}],
              [inferred |-> x, premises |-> {y}],
              [inferred |-> x, premises |-> {x, p2}],
              [inferred |-> y, premises |-> {p2}]}
=============================================================================
