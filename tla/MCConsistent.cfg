CONSTANTS
  Blanks <- MCBlanks
  Literals <- MCLiterals
  DatatypeOf <- MCDatatypeOf
  LiteralValue <- MCLiteralValue
  BuiltinDatatypes <- MCBuiltinDatatypes
  Rank <- MCRank
  Numeral <- MCNumeral
  Booleans <- MCBooleans
  WordBound = 8
  Workloads <- MCWorkloads
  Caps = {0, 1, 2, 9}
  Narrow <- MCNarrow
SPECIFICATION Spec
INVARIANTS
  TypeOK
  ReportIsSound
  NothingTruncated
  EmptyReportIsConsistent
  OneRecordPerViolation
