CONSTANTS
  a = a
  b = b
  w = w
  x = x
  y = y
  z = z
  g = g
  t1 = t1
  t2 = t2
  Free = Free
  Threads = {t1, t2}
  Quads <- ChainQuads
  Assertable = {a}
  InferredGraphs = {g}
  GraphOf <- ChainGraphOf
  RuleTable <- ChainRules
  TrackedRules = {1, 2}
  TrackOptions = {TRUE}
  MaxIterations = 2
  CountedRetractions = 2
SPECIFICATION Spec
INVARIANT
  IndexMatchesStore
