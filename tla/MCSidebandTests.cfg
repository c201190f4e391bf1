SPECIFICATION Spec
CONSTANTS
  Iterations = 3
  Sessions = {i1, i2}
  NoSession = NoSession
  WarmUp = 1
  Timed = 1
INVARIANTS
  DataIsOfThisRound
  MonikerReportIsComplete
PROPERTIES
  ReadTestEnds
  HandlerReturns
  MonikerTestEnds
CHECK_DEADLOCK FALSE
