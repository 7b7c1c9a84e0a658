CONSTANTS
  a = a
  b = b
  w = w
  x = x
  y = y
  z = z
  g = g
  t1 = t1
  t2 = t2
  Free = Free
  Threads = {t1}
  Quads <- MixedQuads
  Assertable = {a, b}
  InferredGraphs = {g}
  GraphOf <- MixedGraphOf
  RuleTable <- MixedRules
  TrackedRules = {1, 2}
  TrackOptions = {TRUE}
  MaxIterations = 3
  CountedRetractions = 2
SPECIFICATION Spec
INVARIANTS
  TypeOK
  IndexMatchesStore
  FirstRetractionExact
PROPERTIES
  FixpointIsSaturated
  OnlyUnsupportedRemoved
