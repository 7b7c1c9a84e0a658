CONSTANTS
  p1 = p1
  p2 = p2
  x = x
  y = y
  t1 = t1
  t2 = t2
  Free = Free
  Quads <- MCQuads
  Firings <- MCFirings
  Callers <- MCCallers
SPECIFICATION FairSpec
INVARIANTS
  TypeOK
  ReverseSound
  EdgesLostOnlyByForget
  CascadeSound
  CascadeComplete
  OverDeletedIsInferred
PROPERTY
  CascadeTerminates
