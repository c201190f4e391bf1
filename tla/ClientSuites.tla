----------------------------- MODULE ClientSuites -----------------------------
(***************************************************************************)
(* The test suites of the C++ client (src/src/perftest_client.cc:68-250):  *)
(* each runs a fixed list of tests, one after another, over the echo       *)
(* streams, the unary calls and the streams of ReadContinuously that the   *)
(* extended modules describe.  A test leaves handlers behind, which the    *)
(* next one meets; what it has measured goes to the report.                *)
(*                                                                         *)
(* File names and counts of iterations are left out; the sizes of messages *)
(* are those of the code but for the streams, whose sizes are constants    *)
(* because the C# server fills its list sample by sample.                  *)
(***************************************************************************)
EXTENDS EchoStream, UnaryTests, ParallelStreams, FiniteSets

CONSTANTS
  Choices,        \* pairs of a suite and the server it is run against
  StreamSizes,    \* the samples of RunSteamingTestSuite (10 to 200000)
  ParallelSizes,  \* those of RunParallelStreamTest (1000 to 200000)
  ClientCounts    \* its numbers of clients (2, 4, 8, 16)

ASSUME OneTestLength == Timed = TimedCalls
ASSUME SizesAssumption ==
  /\ StreamSizes \in Seq(Sizes) /\ ParallelSizes \in Seq(Sizes)
  /\ ClientCounts \in Seq(Threads)

VARIABLES
  suite,  \* the suite that runs
  at      \* its next test

suiteVars == <<suite, at>>
allVars == <<vars, unaryVars, reportVars, parallelVars, suiteVars>>

-----------------------------------------------------------------------------
Test(kind, methods, size) == [kind |-> kind, methods |-> methods, size |-> size, clients |-> 1]
Echo(size) == Test("echo", <<>>, size)
Timing(method, size) == Test("timed", <<method>>, size)
Rate(methods, size) == Test("rate", methods, size)
Streams(n, size) == [Test("streams", <<>>, size) EXCEPT !.clients = n]

RunLatencyStreamTestSuite == [x \in 1..5 |-> Echo(0)]
RunMessageLatencyTestSuite == [x \in 1..5 |-> Timing("Init", 0)]

PayloadSizes == <<1, 8, 16, 32, 64, 128, 1024, 32768>>
RunLatencyPayloadWriteTestSuite == [x \in 1..8 |-> Timing("TestWrite", PayloadSizes[x])]
RunLatencyPayloadWriteStreamTestSuite == [x \in 1..8 |-> Echo(PayloadSizes[x])]

RunParallelStreamTest(n) == [x \in 1..Len(ParallelSizes) |-> Streams(n, ParallelSizes[x])]
RunParallelStreamTestSuite ==
  LET k == Len(ParallelSizes) IN
  [x \in 1..Len(ClientCounts) * k |->
     RunParallelStreamTest(ClientCounts[((x - 1) \div k) + 1])[((x - 1) % k) + 1]]

RunMessagePerformanceTestSuite == <<Rate(<<"Init">>, 0)>>
RunSteamingTestSuite == [x \in 1..Len(StreamSizes) |-> Streams(1, StreamSizes[x])]
RunReadTestSuite ==
  LET sizes == <<100, 1000, 10000, 100000, 800000>> IN
  [x \in 1..5 |-> Rate(<<"Read">>, sizes[x])]
RunReadComplexTestSuite ==
  LET sizes == <<100, 1000, 10000, 100000>> IN
  [x \in 1..8 |-> IF x <= 4 THEN Rate(<<"ReadComplexArena">>, sizes[x])
                            ELSE Rate(<<"ReadComplex">>, sizes[x - 4])]
RunWriteTestSuite ==
  LET sizes == <<100, 1000, 10000, 100000, 200000, 393216>> IN
  [x \in 1..6 |-> Rate(<<"TestWrite">>, sizes[x])]
RunScpiCompareTestSuite ==
  <<Rate(<<"ConfigureVertical", "ConfigureHorizontalTiming",
           "InitiateAcquisition", "Read">>, 10)>>

(* The tests of one turn of localhost_perf_check's loop, over TCP and over *)
(* the Unix socket; the asynchronous test of each half is in ClientMain.   *)
LocalhostRound ==
  <<Rate(<<"Init">>, 0), Echo(0), Rate(<<"Init">>, 0), Echo(0)>>

Suites ==
  [latency_stream |-> RunLatencyStreamTestSuite,
   message_latency |-> RunMessageLatencyTestSuite,
   payload_write |-> RunLatencyPayloadWriteTestSuite,
   payload_stream |-> RunLatencyPayloadWriteStreamTestSuite,
   parallel_stream |-> RunParallelStreamTestSuite,
   message_performance |-> RunMessagePerformanceTestSuite,
   streaming |-> RunSteamingTestSuite,
   read |-> RunReadTestSuite,
   read_complex |-> RunReadComplexTestSuite,
   write |-> RunWriteTestSuite,
   scpi_compare |-> RunScpiCompareTestSuite,
   localhost |-> LocalhostRound]

ASSUME ChoicesAssumption == Choices \subseteq (DOMAIN Suites) \X {"cpp", "dotnet"}

SuitesTypeOK ==
  /\ TypeOK /\ UnaryTypeOK /\ ParallelTypeOK
  /\ suite \in DOMAIN Suites /\ at \in 1..Len(Suites[suite]) + 1

SuitesInit ==
  /\ Init /\ UnaryInit /\ ReportInit /\ ParallelInit
  /\ at = 1 /\ \E choice \in Choices : suite = choice[1] /\ server = choice[2]

-----------------------------------------------------------------------------
NoTest == pc = "idle" /\ upc = "idle" /\ ppc = "idle"
SuiteOver == at > Len(Suites[suite])

NextTest ==
  /\ NoTest /\ ~SuiteOver
  /\ at' = at + 1
  /\ UNCHANGED suite
  /\ LET test == Suites[suite][at] IN
     \/ /\ test.kind = "echo"
        /\ OpenStream /\ StartTimes
        /\ UNCHANGED <<unaryVars, parallelVars>>
     \/ /\ test.kind \in {"timed", "rate"}
        /\ StartCalls(test)
        /\ UNCHANGED <<vars, parallelVars>>
     \/ /\ test.kind = "streams"
        /\ StartStreams(test.clients, test.size)
        /\ UNCHANGED <<vars, unaryVars, reportVars>>

(* The echo test's loop, with the times it takes and reports. *)
EchoClient ==
  /\ \/ ReadSucceeds /\ round >= WarmUp /\ \E t \in Latencies : Record(t)
     \/ ReadSucceeds /\ round < WarmUp /\ UNCHANGED reportVars
     \/ CloseStream /\ IF outcome = "reported" THEN WriteLatencyData ELSE UNCHANGED reportVars
     \/ (ClientWrite \/ ReadFails) /\ UNCHANGED reportVars
  /\ UNCHANGED <<unaryVars, parallelVars, suiteVars>>

EchoHandler == HandlerStep /\ UNCHANGED <<unaryVars, reportVars, parallelVars, suiteVars>>
EchoBreaks == Break /\ UNCHANGED <<unaryVars, reportVars, parallelVars, suiteVars>>

UnaryClient == UnaryStep /\ UNCHANGED <<vars, parallelVars, suiteVars>>

besideStreams == <<vars, unaryVars, reportVars, suiteVars>>
StreamsMain == MainStep /\ UNCHANGED besideStreams
StreamsThread(i) == ThreadStep(i) /\ UNCHANGED besideStreams
StreamsWriter(i) == WriterStep(i) /\ UNCHANGED besideStreams
StreamsBreak(i) == BreakCall(i) /\ UNCHANGED besideStreams

SuitesNext ==
  \/ NextTest \/ EchoClient \/ EchoHandler \/ EchoBreaks \/ UnaryClient \/ StreamsMain
  \/ \E i \in Threads : StreamsThread(i) \/ StreamsWriter(i) \/ StreamsBreak(i)

(* Every thread runs and every unary call returns; nothing need break or   *)
(* fail. *)
SuitesFairness ==
  /\ WF_allVars(NextTest) /\ WF_allVars(EchoClient) /\ WF_allVars(EchoHandler)
  /\ WF_allVars(UnaryClient) /\ WF_allVars(StreamsMain)
  /\ \A i \in Threads : WF_allVars(StreamsThread(i)) /\ WF_allVars(StreamsWriter(i))

SuitesSpec == SuitesInit /\ [][SuitesNext]_allVars /\ SuitesFairness

-----------------------------------------------------------------------------
(* The numbers of a report describe the times that were taken: the file    *)
(* has one line for each timed call, in the order of the calls; what is    *)
(* printed begins with the least and ends with the greatest, does not      *)
(* decrease, and at least half, 90, 99 and 99.9 per cent of the times are  *)
(* no more than what is printed for them.  (WriteLatencyData,              *)
(* src/src/client_utilities.cc:233-281, sorts a copy in between.)          *)
ReportDescribesTimes ==
  report # NoReport =>
    LET n == Len(times)
        p == report.printed
        AtMost(v) == {i \in 1..n : times[i] <= v} IN
    /\ report.lines = times /\ n = TimedCalls
    /\ NonDecreasing(p)
    /\ \A i \in 1..n : p[1] <= times[i] /\ times[i] <= p[6]
    /\ \A k \in 2..5 :
         1000 * Cardinality(AtMost(p[k])) >= <<0, 500, 900, 990, 999>>[k] * n

(* A suite ends, unless the client's process faults.  (All server          *)
(* implementations are compatible with the C++ client, src/README.md:16.)  *)
SuiteEnds == <>(upc = "crashed" \/ (NoTest /\ SuiteOver))
=============================================================================
