CONSTANTS
  Blanks <- MCBlanks
  Literals <- MCLiterals
  DatatypeOf <- MCDatatypeOf
  LiteralValue <- MCLiteralValue
  BuiltinDatatypes <- MCBuiltinDatatypes
  Workloads <- MCWorkloads
  MaxIterations = 2
SPECIFICATION Spec
INVARIANTS
  TypeOK
  RulesAreSound
  RulesAreComplete
  IncrementalIsBatch
  WalkListExact
  TrackingIsFaithful
PROPERTY
  FixpointContract
