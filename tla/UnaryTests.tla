------------------------------ MODULE UnaryTests ------------------------------
(***************************************************************************)
(* The tests that make one unary call after another: the latency tests     *)
(* (src/src/performance_tests.cc:1038-1072, 1192-1224), which time calls   *)
(* of the stub and check their status, and the rate tests (805-825,        *)
(* 960-974, 1228-1326), which call the wrappers of NIPerfTestClient        *)
(* (src/src/client_utilities.cc:19-211) and ignore what they return.       *)
(*                                                                         *)
(* A message is known by its size.  The server sets a limit for what it    *)
(* receives (src/src/perftest_server.cc:457-458), the client another       *)
(* (src/src/perftest_client.cc:604-605).  Both also ask for a minimal      *)
(* stack, which may leave the check of sizes out: a message above a limit  *)
(* may be refused, and need not be.  The few bytes of a message beside its *)
(* samples are left out: no size of a suite is that close to a limit.      *)
(***************************************************************************)
EXTENDS LatencyReport

CONSTANTS
  WarmUpCalls,  \* calls of a latency test that are not looked at (100)
  TimedCalls,   \* calls that are timed (LatencyTestIterations)
  RateCalls     \* iterations of a rate test (1000, 10000 or 50000)

ASSUME UnaryAssumption ==
  WarmUpCalls \in Nat /\ TimedCalls \in Nat \ {0} /\ RateCalls \in Nat \ {0}

VARIABLES
  upc,      \* "idle", "running", or "crashed" for the client's process
  utest,    \* the test: its kind, the methods of an iteration, its samples
  made,     \* calls made
  served,   \* calls whose status was OK
  errors,   \* failed calls that were printed
  stopped,  \* the server has been away during the test
  uoutcome  \* how the test ended

unaryVars == <<upc, utest, made, served, errors, stopped, uoutcome>>

(* The wrappers, with the bytes that a request and a reply have for each   *)
(* sample.  A double has 8 bytes; a complex number is a message of two,    *)
(* each with a tag, in a tag and a length.                                 *)
Bytes(request, reply) == [request |-> request, reply |-> reply]
Wrappers ==
  [Init |-> Bytes(0, 0), ConfigureVertical |-> Bytes(0, 0),
   ConfigureHorizontalTiming |-> Bytes(0, 0), InitiateAcquisition |-> Bytes(0, 0),
   Read |-> Bytes(0, 8), ReadComplex |-> Bytes(0, 20), ReadComplexArena |-> Bytes(0, 20),
   TestWrite |-> Bytes(8, 0)]

NoCalls == [kind |-> "none", methods |-> <<>>, size |-> 0]

UnaryTypeOK ==
  /\ upc \in {"idle", "running", "crashed"}
  /\ utest.kind \in {"none", "timed", "rate"} /\ utest.methods \in Seq(DOMAIN Wrappers)
  /\ made \in Nat /\ served \in 0..made /\ errors \in 0..made
  /\ stopped \in BOOLEAN
  /\ uoutcome \in {"none", "reported", "discarded", "rated"}

UnaryInit ==
  /\ upc = "idle" /\ utest = NoCalls /\ made = 0 /\ served = 0 /\ errors = 0
  /\ stopped = FALSE /\ uoutcome = "none"

-----------------------------------------------------------------------------
MB == 1024 * 1024
ServerLimit == MB
ClientLimit == 1000 * MB

(* Mutant of Accepted: the server's limit holds for its replies, too. *)
AcceptedBothWays(method, n) ==
  /\ Wrappers[method].request * n <= ServerLimit
  /\ Wrappers[method].reply * n <= ServerLimit

Accepted(method, n) ==
  /\ Wrappers[method].request * n <= ServerLimit
  /\ Wrappers[method].reply * n <= ClientLimit

(* Mutant of ReplySamples: room is reserved and no sample is added. *)
ReplyReserved(method, n) == 0

(* The samples in the reply of a method that is served. *)
ReplySamples(method, n) == IF Wrappers[method].reply > 0 THEN n ELSE 0

-----------------------------------------------------------------------------
CallIterations == IF utest.kind = "timed" THEN WarmUpCalls + TimedCalls ELSE RateCalls
Method == utest.methods[(made % Len(utest.methods)) + 1]
Over == made = CallIterations * Len(utest.methods)

StartCalls(test) ==
  /\ upc = "idle"
  /\ upc' = "running" /\ utest' = test
  /\ made' = 0 /\ served' = 0 /\ errors' = 0
  /\ stopped' = FALSE /\ uoutcome' = "none"
  /\ StartTimes

(* Only Read copies the samples it asked for, however many have come; what *)
(* is read beyond the reply's is whatever lies there, or a fault.          *)
CopySamples(replied) ==
  IF Method = "Read" /\ replied < utest.size
    THEN upc' \in {"running", "crashed"}
    ELSE UNCHANGED upc

CallIsServed ==
  /\ upc = "running" /\ ~Over
  /\ made' = made + 1 /\ served' = served + 1
  /\ IF utest.kind = "timed"
       THEN /\ IF made < WarmUpCalls THEN UNCHANGED reportVars
                                     ELSE \E t \in Latencies : Record(t)
            /\ UNCHANGED upc
       ELSE CopySamples(ReplySamples(Method, utest.size)) /\ UNCHANGED reportVars
  /\ UNCHANGED <<utest, errors, stopped, uoutcome>>

(* Mutant of PrintStatus: the status is not looked at. *)
PrintNoStatus == UNCHANGED errors

PrintStatus == errors' = errors + 1

(* A call fails: a message is refused, or the server is away for a moment. *)
(* A wrapper prints the status and goes on with an empty reply; a latency  *)
(* test looks at its timed calls only, and ends.                           *)
CallFails ==
  /\ upc = "running" /\ ~Over
  /\ stopped' = (stopped \/ Accepted(Method, utest.size))
  /\ made' = made + 1
  /\ IF utest.kind = "timed"
       THEN /\ IF made < WarmUpCalls THEN UNCHANGED <<upc, uoutcome>>
                                     ELSE upc' = "idle" /\ uoutcome' = "discarded"
            /\ UNCHANGED errors
       ELSE PrintStatus /\ CopySamples(0) /\ UNCHANGED uoutcome
  /\ UNCHANGED <<utest, served, reportVars>>

(* The rate is that of all calls, whatever became of them. *)
EndCalls ==
  /\ upc = "running" /\ Over
  /\ upc' = "idle"
  /\ IF utest.kind = "timed"
       THEN WriteLatencyData /\ uoutcome' = "reported"
       ELSE uoutcome' = "rated" /\ UNCHANGED reportVars
  /\ UNCHANGED <<utest, made, served, errors, stopped>>

UnaryStep == CallIsServed \/ CallFails \/ EndCalls

-----------------------------------------------------------------------------
(* The client's process faults in Read only after a call has failed: each  *)
(* reply that is served has the samples that are copied from it            *)
(* (src/src/client_utilities.cc:143-147).                                  *)
OnlyFailedReadsCrash == upc = "crashed" => served < made

(* A rate test during which nothing was printed is the rate of calls that  *)
(* were served: it counts failed calls, but none silently.                 *)
CleanRateIsServed == (uoutcome = "rated" /\ errors = 0) => served = made

(* As long as the server stays, nothing the suites send or ask for can be  *)
(* refused but the writes of more samples than a message of 1 MB has; no   *)
(* latency test is discarded.                                              *)
OnlyLargeWritesAreRefused ==
  (served < made /\ ~stopped) =>
     utest.kind = "rate" /\ utest.methods = <<"TestWrite">> /\ utest.size > 131072
=============================================================================
