CONSTANTS
  ant = ant
  bee = bee
  shell = shell
  r1 = r1
  r2 = r2
  r3 = r3
  r4 = r4
  None = None
  NaN = NaN
  Worker <- MCWorker
  Reader <- MCReader
  Row <- MCRow
  Level <- MCLevel
  Scores <- MCScores
SPECIFICATION Spec
INVARIANTS
  OnlyLastAtRisk
  OnlyReportedRows
  BestRecorded
  IdleInAutocommit
PROPERTIES
  LogSpec
CHECK_DEADLOCK FALSE
