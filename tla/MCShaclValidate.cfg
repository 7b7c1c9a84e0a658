CONSTANTS
  c1 = c1
  c2 = c2
  Malformed = Malformed
  Conns <- MCConns
  Graphs <- MCGraphs
  Iris <- MCIris
  Blanks <- MCBlanks
  Literals <- MCLiterals
  Quoted <- MCQuoted
  Datatype <- MCDatatype
  Length <- MCLength
  Number <- MCNumber
  NotANumber <- MCNotANumber
  Unsigned <- MCUnsigned
  Matches <- MCMatches
  Fresh <- MCFresh
  MaxNodes <- MCMaxNodes
  Stamped <- MCStamped
  Workloads <- MCWorkloads
CHECK_DEADLOCK FALSE
SPECIFICATION Spec
INVARIANTS
  TypeOK
  FailuresKeepTheReport
  ReportIsTheAnswer
  ViolationsAreExact
  PathsAreRelations
