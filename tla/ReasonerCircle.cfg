CONSTANTS
  a = a
  b = b
  w = w
  x = x
  y = y
  z = z
  g = g
  t1 = t1
  t2 = t2
  Free = Free
  Threads = {t1}
  Quads <- DiamondQuads
  Assertable = {a, b}
  InferredGraphs = {g}
  GraphOf <- DiamondGraphOf
  RuleTable <- CircleRules
  TrackedRules = {1, 2}
  TrackOptions = {TRUE}
  MaxIterations = 3
  CountedRetractions = 2
SPECIFICATION Spec
INVARIANT
  OverdeleteIsFullCycle
