CONSTANTS
  Blanks <- MCBlanks
  Literals <- MCLiterals
  DatatypeOf <- MCDatatypeOf
  LiteralValue <- MCLiteralValue
  BuiltinDatatypes <- MCBuiltinDatatypes
  Workloads <- MCAmbiguous
  MaxIterations = 6
SPECIFICATION Spec
PROPERTY
  FixpointContract
