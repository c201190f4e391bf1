SPECIFICATION SuitesSpec
CONSTANTS
  WarmUp = 2
  Timed = 3
  Handler = "interactive"
  WarmUpCalls = 1
  TimedCalls = 3
  RateCalls = 3
  Latencies = {1, 2, 3}
  Clients = 2
  Window = 2
  Iterations = 3
  TenThousand = 2
  Sizes <- MCSizes
  Choices <- MCChoices
  StreamSizes <- MCStreamSizes
  ParallelSizes <- MCParallelSizes
  ClientCounts <- MCClientCounts
INVARIANTS
  SuitesTypeOK
  ReplyIsOfThisRound
  ReportIsComplete
  ReportDescribesTimes
  OnlyFailedReadsCrash
  CleanRateIsServed
  OnlyLargeWritesAreRefused
  RateIsOfWhatWasRead
PROPERTIES
  HandlerReturns
  WritersReturn
  SuiteEnds
CHECK_DEADLOCK FALSE
