-------------------------- MODULE ClientSuitesProofs --------------------------
(***************************************************************************)
(* The tests of the client's suites, for any number of clients, messages,  *)
(* calls and times and any list of sizes: what a rate of streams says;     *)
(* what WriteLatencyData prints of any list, and that a suite's report is  *)
(* of its own times; what the rates of unary calls say, which calls can be *)
(* refused, and what a failed call may do to the client.                   *)
(***************************************************************************)
EXTENDS EchoStreamProofs, FiniteSetTheorems

USE ParallelAssumption

(* The types that the argument needs. *)
Types ==
  /\ used \in 0..Clients /\ asked \in Nat
  /\ reader \in [Threads -> {"none", "spawned", "reading", "exited"}]
  /\ got \in [Threads -> Nat] /\ sent \in [Threads -> Nat]
  /\ link \in [Threads -> {"open", "broken", "ended"}]
  /\ wire \in [Threads -> Seq(Nat)]
  /\ writer \in [Threads -> {"called", "filling", "writing", "returned"}]
  /\ want \in [Threads -> Nat] /\ result \in [Threads -> Nat] /\ count \in Nat

(* While a thread reads an unbroken call, what it has read and what is     *)
(* under way is what the handler has written, and the call ends when that  *)
(* is what was asked for. *)
Conserved(i) ==
  reader[i] = "reading" =>
    /\ link[i] \in {"open", "ended"}
    /\ link[i] = "open" => writer[i] \in {"called", "writing"}
    /\ link[i] = "ended" => writer[i] = "returned" /\ sent[i] = Iterations
    /\ got[i] + Len(wire[i]) = sent[i]

(* Each message has the samples that were asked for. *)
SizesAgree(i) ==
  reader[i] = "reading" =>
    /\ want[i] = asked
    /\ writer[i] = "writing" => result[i] = asked
    /\ \A k \in 1..Len(wire[i]) : wire[i][k] = asked

Counted(i) ==
  /\ reader[i] \in {"none", "spawned"} => got[i] = 0
  /\ reader[i] = "exited" => got[i] = Iterations

ThreadInv(i) == Conserved(i) /\ SizesAgree(i) /\ Counted(i)

Unbroken == server = "cpp" /\ broke = FALSE
StreamsInv == Unbroken => \A i \in Threads : ThreadInv(i)
AllWhole == Unbroken => whole = TRUE
ClaimedAfterJoin ==
  claimed = TRUE => ppc = "idle" /\ \A i \in 1..used : reader[i] = "exited"

ParallelInv == Types /\ StreamsInv /\ AllWhole /\ ClaimedAfterJoin

-----------------------------------------------------------------------------
LEMMA InitIsParallel == ParallelInit => ParallelInv
<1> SUFFICES ASSUME ParallelInit PROVE ParallelInv
  OBVIOUS
<1>1. Types
  BY DEF ParallelInit, Types, Zero, Threads
<1>2. StreamsInv
  BY DEF ParallelInit, StreamsInv, ThreadInv, Conserved, SizesAgree, Counted, Zero, Threads
<1>3. AllWhole /\ ClaimedAfterJoin
  BY DEF ParallelInit, AllWhole, ClaimedAfterJoin
<1> QED
  BY <1>1, <1>2, <1>3 DEF ParallelInv

-----------------------------------------------------------------------------
(* A step of the test itself. *)

LEMMA StartKeepsParallel ==
  ASSUME ParallelInv, NEW n \in Threads, NEW size \in Sizes, StartStreams(n, size)
  PROVE  ParallelInv'
<1> USE DEF ParallelInv, StartStreams, handlerVars
<1>1. Types'
  <2>1. used' \in 0..Clients
    BY DEF Threads
  <2>2. size \in Nat
    OBVIOUS
  <2> QED
    BY <2>1, <2>2 DEF Types, Zero
<1>2. StreamsInv'
  BY DEF StreamsInv, ThreadInv, Conserved, SizesAgree, Counted, Zero
<1>3. AllWhole' /\ ClaimedAfterJoin'
  BY DEF AllWhole, ClaimedAfterJoin
<1> QED
  BY <1>1, <1>2, <1>3

LEMMA SpawnKeepsParallel == ASSUME ParallelInv, SpawnThread PROVE ParallelInv'
<1> USE DEF ParallelInv, SpawnThread, handlerVars
<1>1. PICK i \in 1..used : reader[i] = "none" /\ reader' = [reader EXCEPT ![i] = "spawned"]
  OBVIOUS
<1>2. i \in Threads
  BY DEF Types, Threads
<1>3. Types'
  BY <1>1, <1>2 DEF Types
<1>4. StreamsInv'
  BY <1>1, <1>2 DEF Types, StreamsInv, Unbroken, ThreadInv, Conserved, SizesAgree, Counted
<1>5. AllWhole'
  BY DEF AllWhole, Unbroken
<1>6. ClaimedAfterJoin'
  BY DEF ClaimedAfterJoin
<1> QED
  BY <1>3, <1>4, <1>5, <1>6

LEMMA JoinKeepsParallel == ASSUME ParallelInv, JoinThreads PROVE ParallelInv'
<1> USE DEF ParallelInv, JoinThreads, threadVars, handlerVars
<1>1. Types'
  BY DEF Types
<1>2. StreamsInv'
  BY DEF StreamsInv, Unbroken, ThreadInv, Conserved, SizesAgree, Counted
<1>3. AllWhole' /\ ClaimedAfterJoin'
  BY DEF AllWhole, Unbroken, ClaimedAfterJoin
<1> QED
  BY <1>1, <1>2, <1>3

-----------------------------------------------------------------------------
(* A step of a thread's. *)

LEMMA OpenKeepsParallel == ASSUME ParallelInv, NEW i \in Threads, OpenCall(i) PROVE ParallelInv'
<1> USE DEF ParallelInv, OpenCall, testVars
<1>1. Types'
  BY DEF Types
<1>2. ASSUME Unbroken', NEW t \in Threads PROVE ThreadInv(t)'
  <2>1. ThreadInv(t) /\ Types
    BY <1>2 DEF StreamsInv, Unbroken
  <2>2. CASE t = i
    BY <2>1, <2>2 DEF Types, ThreadInv, Conserved, SizesAgree, Counted
  <2>3. CASE t # i
    BY <2>1, <2>3 DEF Types, ThreadInv, Conserved, SizesAgree, Counted
  <2> QED
    BY <2>2, <2>3
<1>3. StreamsInv'
  BY <1>2 DEF StreamsInv
<1>4. AllWhole'
  BY DEF AllWhole, Unbroken
<1>5. ClaimedAfterJoin'
  BY DEF ClaimedAfterJoin, Types
<1> QED
  BY <1>1, <1>3, <1>4, <1>5

LEMMA ReadKeepsParallel == ASSUME ParallelInv, NEW i \in Threads, ReadMessage(i) PROVE ParallelInv'
<1> USE DEF ParallelInv
<1> DEFINE w == wire[i]
<1>1. /\ Types
      /\ reader[i] = "reading" /\ w # <<>>
      /\ got' = [got EXCEPT ![i] = @ + 1] /\ wire' = [wire EXCEPT ![i] = Tail(w)]
      /\ UNCHANGED <<server, ppc, used, asked, broke, claimed, reader, link>>
      /\ UNCHANGED <<writer, want, sent, result, count>>
  BY DEF ReadMessage, testVars, handlerVars
<1>2. w \in Seq(Nat) /\ got[i] \in Nat
  BY <1>1 DEF Types
<1>3. /\ Tail(w) \in Seq(Nat) /\ Len(Tail(w)) = Len(w) - 1
      /\ Len(w) \in Nat \ {0} /\ Head(w) = w[1]
      /\ \A k \in 1..Len(Tail(w)) : Tail(w)[k] = w[k + 1] /\ k + 1 \in 1..Len(w)
  BY <1>1, <1>2, HeadTailProperties, LenProperties
<1>4. Types'
  BY <1>1, <1>2, <1>3 DEF Types
<1>5. ASSUME Unbroken', NEW t \in Threads PROVE ThreadInv(t)'
  <2>1. ThreadInv(t)
    BY <1>1, <1>5 DEF StreamsInv, Unbroken
  <2>2. CASE t = i
    <3>1. got'[t] = got[t] + 1 /\ wire'[t] = Tail(w)
      BY <1>1, <2>2 DEF Types
    <3>2. Conserved(t)'
      BY <1>1, <1>2, <1>3, <2>1, <2>2, <3>1 DEF Types, ThreadInv, Conserved
    <3>3. SizesAgree(t)'
      BY <1>1, <1>3, <2>1, <2>2, <3>1 DEF ThreadInv, SizesAgree
    <3>4. Counted(t)'
      BY <1>1, <2>2 DEF Counted
    <3> QED
      BY <3>2, <3>3, <3>4 DEF ThreadInv
  <2>3. CASE t # i
    BY <1>1, <2>1, <2>3 DEF Types, ThreadInv, Conserved, SizesAgree, Counted
  <2> QED
    BY <2>2, <2>3
<1>6. StreamsInv'
  BY <1>5 DEF StreamsInv
<1>7. ASSUME Unbroken' PROVE whole' = TRUE
  <2>1. Unbroken /\ whole = TRUE
    BY <1>1, <1>7 DEF Unbroken, AllWhole
  <2>2. ThreadInv(i)
    BY <2>1 DEF StreamsInv
  <2>3. Head(w) = asked
    BY <1>1, <1>3, <2>2 DEF ThreadInv, SizesAgree
  <2> QED
    BY <2>1, <2>3 DEF ReadMessage
<1>8. AllWhole' /\ ClaimedAfterJoin'
  BY <1>1, <1>7 DEF AllWhole, ClaimedAfterJoin
<1> QED
  BY <1>4, <1>6, <1>8

LEMMA EndKeepsParallel == ASSUME ParallelInv, NEW i \in Threads, ReadEnds(i) PROVE ParallelInv'
<1> USE DEF ParallelInv, ReadEnds, testVars, handlerVars
<1>1. Types'
  BY DEF Types
<1>2. ASSUME Unbroken', NEW t \in Threads PROVE ThreadInv(t)'
  <2>1. ThreadInv(t) /\ Types
    BY <1>2 DEF StreamsInv, Unbroken
  <2>2. CASE t = i
    <3>1. got[i] + Len(wire[i]) = Iterations /\ Len(wire[i]) = 0
      BY <2>1, <2>2 DEF ThreadInv, Conserved
    <3>2. got[i] = Iterations
      BY <2>1, <3>1 DEF Types
    <3> QED
      BY <2>1, <2>2, <3>2 DEF Types, ThreadInv, Conserved, SizesAgree, Counted
  <2>3. CASE t # i
    BY <2>1, <2>3 DEF Types, ThreadInv, Conserved, SizesAgree, Counted
  <2> QED
    BY <2>2, <2>3
<1>3. StreamsInv'
  BY <1>2 DEF StreamsInv
<1>4. AllWhole' /\ ClaimedAfterJoin'
  BY DEF AllWhole, Unbroken, ClaimedAfterJoin, Types
<1> QED
  BY <1>1, <1>3, <1>4

LEMMA BreakKeepsParallel == ASSUME ParallelInv, NEW i \in Threads, BreakCall(i) PROVE ParallelInv'
<1> USE DEF ParallelInv, BreakCall, threadVars, handlerVars
<1>1. Types'
  <2>1. PICK left \in {wire[i], <<>>} : wire' = [wire EXCEPT ![i] = left]
    OBVIOUS
  <2>0. wire \in [Threads -> Seq(Nat)] /\ <<>> \in Seq(Nat)
    BY DEF Types
  <2>2. left \in Seq(Nat)
    BY <2>0
  <2>3. wire' \in [Threads -> Seq(Nat)]
    BY <2>0, <2>1, <2>2
  <2> QED
    BY <2>3 DEF Types
<1>2. StreamsInv' /\ AllWhole'
  BY DEF StreamsInv, AllWhole, Unbroken
<1>3. ClaimedAfterJoin'
  BY DEF ClaimedAfterJoin
<1> QED
  BY <1>1, <1>2, <1>3

-----------------------------------------------------------------------------
(* A step of a handler's.  It leaves the test and the threads alone. *)

LEMMA HandlerKeepsTest ==
  ASSUME ParallelInv, UNCHANGED <<testVars, threadVars>>
  PROVE  AllWhole' /\ ClaimedAfterJoin'
  BY DEF ParallelInv, testVars, threadVars, AllWhole, Unbroken, ClaimedAfterJoin

LEMMA BuildKeepsParallel == ASSUME ParallelInv, NEW i \in Threads, BuildResult(i) PROVE ParallelInv'
<1> USE DEF ParallelInv, BuildResult
<1>1. AllWhole' /\ ClaimedAfterJoin'
  BY HandlerKeepsTest
<1> USE DEF testVars, threadVars
<1>2. Types'
  <2>1. CASE server = "cpp" \/ count = want[i]
    BY <2>1 DEF Types
  <2>2. CASE ~(server = "cpp" \/ count = want[i])
    <3>1. /\ writer' = [writer EXCEPT ![i] = "filling"] /\ count' = 0
          /\ result' = result
      BY <2>2
    <3> QED
      BY <3>1 DEF Types
  <2> QED
    BY <2>1, <2>2
<1>3. ASSUME Unbroken', NEW t \in Threads PROVE ThreadInv(t)'
  <2>1. ThreadInv(t) /\ Types /\ server = "cpp"
    BY <1>3 DEF StreamsInv, Unbroken
  <2> QED
    BY <2>1 DEF Types, ThreadInv, Conserved, SizesAgree, Counted
<1>4. StreamsInv'
  BY <1>3 DEF StreamsInv
<1> QED
  BY <1>1, <1>2, <1>4

LEMMA FillKeepsParallel ==
  ASSUME ParallelInv, NEW i \in Threads, AddSample(i) \/ CopyList(i) PROVE ParallelInv'
<1> USE DEF ParallelInv, AddSample, CopyList, Filling
<1>1. AllWhole' /\ ClaimedAfterJoin'
  BY HandlerKeepsTest
<1> USE DEF testVars, threadVars
<1>2. Types'
  <2>1. count' \in Nat
    BY DEF Types
  <2>2. result' \in [Threads -> Nat]
    BY DEF Types
  <2>3. writer' \in [Threads -> {"called", "filling", "writing", "returned"}]
    BY DEF Types
  <2>4. UNCHANGED <<used, asked, reader, got, sent, link, wire, want>>
    OBVIOUS
  <2> QED
    BY ONLY <2>1, <2>2, <2>3, <2>4, ParallelInv DEF ParallelInv, Types
<1>3. ASSUME Unbroken', NEW t \in Threads PROVE ThreadInv(t)'
  <2>1. ThreadInv(t) /\ Types
    BY <1>3 DEF StreamsInv, Unbroken
  <2> QED
    BY <2>1 DEF Types, ThreadInv, Conserved, SizesAgree, Counted
<1>4. StreamsInv'
  BY <1>3 DEF StreamsInv
<1> QED
  BY <1>1, <1>2, <1>4

LEMMA WriteKeepsParallel == ASSUME ParallelInv, NEW i \in Threads, WriteMessage(i) PROVE ParallelInv'
<1> USE DEF ParallelInv
<1>1. AllWhole' /\ ClaimedAfterJoin'
  BY HandlerKeepsTest DEF WriteMessage
<1> DEFINE w == wire[i]  longer == Append(w, result[i])
<1>2. /\ Types
      /\ writer[i] = "writing" /\ sent' = [sent EXCEPT ![i] = @ + 1]
      /\ UNCHANGED <<server, ppc, used, asked, broke, claimed, reader, got, link>>
      /\ UNCHANGED <<writer, want, result>>
      /\ \/ link[i] = "open" /\ wire' = [wire EXCEPT ![i] = longer]
         \/ link[i] # "open" /\ wire' = wire
  BY DEF WriteMessage, testVars, threadVars
<1>3. w \in Seq(Nat) /\ result[i] \in Nat /\ sent[i] \in Nat
  BY <1>2 DEF Types
<1>4. /\ longer \in Seq(Nat) /\ Len(longer) = Len(w) + 1 /\ Len(w) \in Nat
      /\ \A k \in 1..Len(longer) : longer[k] = result[i] \/ (k \in 1..Len(w) /\ longer[k] = w[k])
  BY <1>3, AppendProperties, LenProperties
<1>5. Types'
  <2>1. wire' \in [Threads -> Seq(Nat)]
    <3>1. wire \in [Threads -> Seq(Nat)]
      BY DEF Types
    <3>2. CASE wire' = wire
      BY <3>1, <3>2
    <3>3. CASE wire' = [wire EXCEPT ![i] = longer]
      BY <1>4, <3>1, <3>3
    <3> QED
      BY <1>2, <3>2, <3>3
  <2>3. sent' \in [Threads -> Nat]
    BY <1>2, <1>3 DEF Types
  <2>2. count' = count
    BY DEF WriteMessage
  <2> QED
    BY <1>2, <2>1, <2>2, <2>3 DEF Types
<1>6. ASSUME Unbroken', NEW t \in Threads PROVE ThreadInv(t)'
  <2>1. ThreadInv(t)
    BY <1>2, <1>6 DEF StreamsInv, Unbroken
  <2>2. CASE t # i
    BY <1>2, <2>1, <2>2 DEF Types, ThreadInv, Conserved, SizesAgree, Counted
  <2>3. CASE t = i /\ reader[i] = "reading"
    <3>1. link[i] = "open"
      BY <1>2, <2>1, <2>3 DEF ThreadInv, Conserved
    <3>2. wire'[t] = longer /\ sent'[t] = sent[t] + 1
      BY <1>2, <2>3, <3>1 DEF Types
    <3>3. Conserved(t)'
      BY <1>2, <1>3, <1>4, <2>1, <2>3, <3>1, <3>2 DEF Types, ThreadInv, Conserved
    <3>4. SizesAgree(t)'
      BY <1>2, <1>4, <2>1, <2>3, <3>2 DEF ThreadInv, SizesAgree
    <3>5. Counted(t)'
      BY <1>2, <2>3 DEF Counted
    <3> QED
      BY <3>3, <3>4, <3>5 DEF ThreadInv
  <2>4. CASE t = i /\ reader[i] # "reading"
    BY <1>2, <2>1, <2>4 DEF ThreadInv, Conserved, SizesAgree, Counted
  <2> QED
    BY <2>2, <2>3, <2>4
<1>7. StreamsInv'
  BY <1>6 DEF StreamsInv
<1> QED
  BY <1>1, <1>5, <1>7

LEMMA ReturnKeepsParallel == ASSUME ParallelInv, NEW i \in Threads, Return(i) PROVE ParallelInv'
<1> USE DEF ParallelInv, Return
<1>1. AllWhole' /\ ClaimedAfterJoin'
  BY HandlerKeepsTest
<1> USE DEF testVars, threadVars
<1>2. Types'
  BY DEF Types
<1>3. ASSUME Unbroken', NEW t \in Threads PROVE ThreadInv(t)'
  <2>1. ThreadInv(t) /\ Types /\ server = "cpp"
    BY <1>3 DEF StreamsInv, Unbroken
  <2>2. sent[i] = Iterations
    BY <2>1 DEF Total
  <2> QED
    BY <2>1, <2>2 DEF Types, ThreadInv, Conserved, SizesAgree, Counted
<1>4. StreamsInv'
  BY <1>3 DEF StreamsInv
<1> QED
  BY <1>1, <1>2, <1>4

-----------------------------------------------------------------------------
LEMMA StepKeepsParallel == ParallelInv /\ [ParallelNext]_parallelVars => ParallelInv'
<1> SUFFICES ASSUME ParallelInv, [ParallelNext]_parallelVars PROVE ParallelInv'
  OBVIOUS
<1>1. CASE ParallelNext
  <2>1. ASSUME NEW i \in Threads, ThreadStep(i) \/ BreakCall(i) PROVE ParallelInv'
    BY <2>1, OpenKeepsParallel, ReadKeepsParallel, EndKeepsParallel, BreakKeepsParallel DEF ThreadStep
  <2>2. ASSUME NEW i \in Threads, WriterStep(i) PROVE ParallelInv'
    BY <2>2, BuildKeepsParallel, FillKeepsParallel, WriteKeepsParallel, ReturnKeepsParallel DEF WriterStep
  <2> QED
    BY <1>1, <2>1, <2>2, StartKeepsParallel, SpawnKeepsParallel, JoinKeepsParallel
    DEF ParallelNext, ParallelStep, MainStep
<1>2. CASE UNCHANGED parallelVars
  BY <1>2 DEF parallelVars, testVars, threadVars, handlerVars, ParallelInv, Types, StreamsInv,
     Unbroken, ThreadInv, Conserved, SizesAgree, Counted, AllWhole, ClaimedAfterJoin
<1> QED
  BY <1>1, <1>2

LEMMA ParallelInvGivesRate == ParallelInv => RateIsOfWhatWasRead
<1> SUFFICES ASSUME ParallelInv, claimed, ~broke, server = "cpp"
             PROVE  whole /\ \A i \in 1..used : got[i] = Iterations
  BY DEF RateIsOfWhatWasRead
<1>1. claimed = TRUE => \A i \in 1..used : reader[i] = "exited"
  BY DEF ParallelInv, ClaimedAfterJoin
<1>2. whole
  BY DEF ParallelInv, AllWhole, Unbroken
<1>3. ASSUME NEW i \in 1..used PROVE got[i] = Iterations
  <2>1. i \in Threads
    BY DEF ParallelInv, Types, Threads
  <2> QED
    BY <1>1, <2>1 DEF ParallelInv, StreamsInv, Unbroken, ThreadInv, Counted
<1> QED
  BY <1>2, <1>3

-----------------------------------------------------------------------------
(* The suites of the client: what they start as a streaming test has a     *)
(* size that is one of the list. *)
LEMMA Positions ==
  ASSUME NEW n \in Nat, NEW s, s = [x \in 1..n |-> s[x]]
  PROVE  Len(s) = n
<1> DEFINE S == {s[x] : x \in 1..n}
<1>1. s \in Seq(S)
  <2>1. s \in [1..n -> S]
    OBVIOUS
  <2> HIDE DEF S
  <2> QED
    BY <2>1, SeqDef
<1> HIDE DEF S
<1>2. DOMAIN s = 1..Len(s) /\ Len(s) \in Nat
  BY <1>1, LenProperties
<1>3. DOMAIN s = 1..n
  OBVIOUS
<1> QED
  BY <1>2, <1>3

(* Sizes are numbers, those of streaming tests from Sizes. *)
Sized(tests) ==
  /\ Len(tests) \in Nat
  /\ \A x \in 1..Len(tests) : /\ tests[x].size \in Nat
                              /\ tests[x].kind = "streams" => tests[x].size \in Sizes

LEMMA ListsAreSized ==
  /\ Len(StreamSizes) \in Nat /\ \A x \in 1..Len(StreamSizes) : StreamSizes[x] \in Sizes
  /\ Len(ParallelSizes) \in Nat /\ \A x \in 1..Len(ParallelSizes) : ParallelSizes[x] \in Sizes
  /\ Len(ClientCounts) \in Nat
  BY SizesAssumption, ElementOfSeq, LenProperties

LEMMA StreamingIsSized == Sized(RunSteamingTestSuite)
<1> DEFINE n == Len(StreamSizes)
           tests == [x \in 1..n |-> Streams(1, StreamSizes[x])]
<1>1. n \in Nat
  BY ListsAreSized
<1>2. \A x \in 1..n : tests[x].size = StreamSizes[x]
  BY DEF Streams, Test
<1>3. Len(tests) = n
  <2>1. tests = [x \in 1..n |-> tests[x]]
    OBVIOUS
  <2> HIDE DEF n, tests
  <2> QED
    BY <1>1, <2>1, Positions
<1> QED
  BY <1>1, <1>2, <1>3, ListsAreSized, ParallelAssumption DEF Sized, RunSteamingTestSuite

(* A list without a streaming test. *)
LEMMA UnstreamedIsSized ==
  /\ Sized(RunMessagePerformanceTestSuite) /\ Sized(RunScpiCompareTestSuite)
  /\ Sized(LocalhostRound)
  BY DEF Sized, RunMessagePerformanceTestSuite, RunScpiCompareTestSuite, LocalhostRound,
     Rate, Echo, Test

LEMMA FixedListIsSized ==
  ASSUME NEW n \in Nat, NEW s, s = [x \in 1..n |-> s[x]],
         \A x \in 1..n : s[x].kind # "streams" /\ s[x].size \in Nat
  PROVE  Sized(s)
  BY Positions DEF Sized

LEMMA PayloadSizesAreNat == \A x \in 1..8 : PayloadSizes[x] \in Nat
  BY DEF PayloadSizes

LEMMA Kinds ==
  /\ \A size : Echo(size).kind = "echo" /\ Echo(size).size = size
  /\ \A method, size : Timing(method, size).kind = "timed" /\ Timing(method, size).size = size
  /\ \A methods, size : Rate(methods, size).kind = "rate" /\ Rate(methods, size).size = size
  BY DEF Echo, Timing, Rate, Test

LEMMA FixedListsAreSized ==
  /\ Sized(RunLatencyStreamTestSuite)
  /\ Sized(RunMessageLatencyTestSuite)
  /\ Sized(RunLatencyPayloadWriteTestSuite)
  /\ Sized(RunLatencyPayloadWriteStreamTestSuite)
  /\ Sized(RunReadTestSuite)
  /\ Sized(RunReadComplexTestSuite)
  /\ Sized(RunWriteTestSuite)
<1>1. Sized(RunLatencyStreamTestSuite)
  <2>1. \A x \in 1..5 : RunLatencyStreamTestSuite[x].kind # "streams" /\ RunLatencyStreamTestSuite[x].size \in Nat
    BY Kinds, PayloadSizesAreNat DEF RunLatencyStreamTestSuite
  <2>2. RunLatencyStreamTestSuite = [x \in 1..5 |-> RunLatencyStreamTestSuite[x]]
    BY DEF RunLatencyStreamTestSuite
  <2> QED
    BY ONLY <2>1, <2>2, FixedListIsSized
<1>2. Sized(RunMessageLatencyTestSuite)
  <2>1. \A x \in 1..5 : RunMessageLatencyTestSuite[x].kind # "streams" /\ RunMessageLatencyTestSuite[x].size \in Nat
    BY Kinds, PayloadSizesAreNat DEF RunMessageLatencyTestSuite
  <2>2. RunMessageLatencyTestSuite = [x \in 1..5 |-> RunMessageLatencyTestSuite[x]]
    BY DEF RunMessageLatencyTestSuite
  <2> QED
    BY ONLY <2>1, <2>2, FixedListIsSized
<1>3. Sized(RunLatencyPayloadWriteTestSuite)
  <2>1. \A x \in 1..8 : RunLatencyPayloadWriteTestSuite[x].kind # "streams" /\ RunLatencyPayloadWriteTestSuite[x].size \in Nat
    BY Kinds, PayloadSizesAreNat DEF RunLatencyPayloadWriteTestSuite
  <2>2. RunLatencyPayloadWriteTestSuite = [x \in 1..8 |-> RunLatencyPayloadWriteTestSuite[x]]
    BY DEF RunLatencyPayloadWriteTestSuite
  <2> QED
    BY ONLY <2>1, <2>2, FixedListIsSized
<1>4. Sized(RunLatencyPayloadWriteStreamTestSuite)
  <2>1. \A x \in 1..8 : RunLatencyPayloadWriteStreamTestSuite[x].kind # "streams" /\ RunLatencyPayloadWriteStreamTestSuite[x].size \in Nat
    BY Kinds, PayloadSizesAreNat DEF RunLatencyPayloadWriteStreamTestSuite
  <2>2. RunLatencyPayloadWriteStreamTestSuite = [x \in 1..8 |-> RunLatencyPayloadWriteStreamTestSuite[x]]
    BY DEF RunLatencyPayloadWriteStreamTestSuite
  <2> QED
    BY ONLY <2>1, <2>2, FixedListIsSized
<1>5. Sized(RunReadTestSuite)
  <2>1. \A x \in 1..5 : RunReadTestSuite[x].kind # "streams" /\ RunReadTestSuite[x].size \in Nat
    BY Kinds, PayloadSizesAreNat DEF RunReadTestSuite
  <2>2. RunReadTestSuite = [x \in 1..5 |-> RunReadTestSuite[x]]
    BY DEF RunReadTestSuite
  <2> QED
    BY ONLY <2>1, <2>2, FixedListIsSized
<1>6. Sized(RunReadComplexTestSuite)
  <2>1. \A x \in 1..8 : RunReadComplexTestSuite[x].kind # "streams" /\ RunReadComplexTestSuite[x].size \in Nat
    BY Kinds, PayloadSizesAreNat DEF RunReadComplexTestSuite
  <2>2. RunReadComplexTestSuite = [x \in 1..8 |-> RunReadComplexTestSuite[x]]
    BY DEF RunReadComplexTestSuite
  <2> QED
    BY ONLY <2>1, <2>2, FixedListIsSized
<1>7. Sized(RunWriteTestSuite)
  <2>1. \A x \in 1..6 : RunWriteTestSuite[x].kind # "streams" /\ RunWriteTestSuite[x].size \in Nat
    BY Kinds, PayloadSizesAreNat DEF RunWriteTestSuite
  <2>2. RunWriteTestSuite = [x \in 1..6 |-> RunWriteTestSuite[x]]
    BY DEF RunWriteTestSuite
  <2> QED
    BY ONLY <2>1, <2>2, FixedListIsSized
<1> QED
  BY <1>1, <1>2, <1>3, <1>4, <1>5, <1>6, <1>7

(* The suite of all numbers of clients with all sizes. *)
LEMMA ParallelIsSized == Sized(RunParallelStreamTestSuite)
<1> DEFINE k == Len(ParallelSizes)
           n == Len(ClientCounts) * k
           tests == RunParallelStreamTestSuite
<1>1. k \in Nat /\ n \in Nat
  BY ListsAreSized
<1>2. tests = [x \in 1..n |-> tests[x]] /\ DOMAIN tests = 1..n
  BY DEF RunParallelStreamTestSuite
<1>3. Len(tests) = n
  <2> HIDE DEF n, tests
  <2> QED
    BY <1>1, <1>2, Positions
<1>4. ASSUME NEW x \in 1..n PROVE tests[x].size \in Sizes
  <2>1. k > 0
    BY <1>1
  <2>2. ((x - 1) % k) + 1 \in 1..k
    BY <1>1, <2>1
  <2> DEFINE i == ((x - 1) % k) + 1
             c == ClientCounts[((x - 1) \div k) + 1]
  <2>3. tests[x] = RunParallelStreamTest(c)[i]
    BY DEF RunParallelStreamTestSuite
  <2>4. tests[x].size = ParallelSizes[i]
    BY <2>2, <2>3 DEF RunParallelStreamTest, Streams, Test
  <2> QED
    BY <2>2, <2>4, ListsAreSized
<1> QED
  BY <1>1, <1>3, <1>4 DEF Sized

LEMMA SuitesAreSized == \A name \in DOMAIN Suites : Sized(Suites[name])
  BY StreamingIsSized, UnstreamedIsSized, FixedListsAreSized, ParallelIsSized DEF Suites

InSuite == suite \in DOMAIN Suites /\ at \in Nat \ {0}

(* A step of a suite is a step of the streaming test, or leaves it alone.  *)
LEMMA SuiteStepIsStreamsStep ==
  ASSUME InSuite, [SuitesNext]_allVars
  PROVE  InSuite' /\ [ParallelNext]_parallelVars
<1>1. CASE NextTest
  <2>1. PICK test : test = Suites[suite][at]
    OBVIOUS
  <2>2. Sized(Suites[suite])
    BY SuitesAreSized DEF InSuite
  <2>3. test.kind = "streams" => test.size \in Sizes
    BY <1>1, <2>1, <2>2 DEF InSuite, NextTest, SuiteOver, Sized
  <2>4. \/ test.kind = "streams" /\ StartStreams(test.clients, test.size)
        \/ UNCHANGED parallelVars
    BY <1>1, <2>1 DEF NextTest
  <2>5. ParallelNext \/ UNCHANGED parallelVars
    BY <2>3, <2>4 DEF ParallelNext, StartStreams
  <2>6. InSuite'
    BY <1>1 DEF InSuite, NextTest
  <2> QED
    BY <2>5, <2>6
<1>2. CASE \/ StreamsMain
           \/ \E i \in Threads : StreamsThread(i) \/ StreamsWriter(i) \/ StreamsBreak(i)
  <2>1. ParallelStep
    BY <1>2 DEF StreamsMain, StreamsThread, StreamsWriter, StreamsBreak, ParallelStep
  <2>2. UNCHANGED suiteVars
    BY <1>2 DEF StreamsMain, StreamsThread, StreamsWriter, StreamsBreak, besideStreams
  <2> QED
    BY <2>1, <2>2 DEF ParallelNext, InSuite, suiteVars
<1>3. CASE EchoClient \/ EchoHandler \/ EchoBreaks \/ UnaryClient
  BY <1>3 DEF EchoClient, EchoHandler, EchoBreaks, UnaryClient, InSuite, suiteVars
<1>4. CASE UNCHANGED allVars
  BY <1>4 DEF allVars, InSuite, suiteVars
<1> QED
  BY <1>1, <1>2, <1>3, <1>4 DEF SuitesNext

-----------------------------------------------------------------------------
(* The rate of a streaming test during which no call broke is of as many   *)
(* messages as were read, each whole (PerformNStreamTest,                  *)
(* src/src/performance_tests.cc:1376-1393): with the test repeated, and in *)
(* every suite of the client.                                              *)
THEOREM RateIsTrue ==
  /\ ParallelSpec => []RateIsOfWhatWasRead
  /\ SuitesSpec => []RateIsOfWhatWasRead
<1>1. ParallelInit => ParallelInv
  BY InitIsParallel
<1>2. ParallelInv /\ [ParallelNext]_parallelVars => ParallelInv'
  BY StepKeepsParallel
<1>3. ParallelInv => RateIsOfWhatWasRead
  BY ParallelInvGivesRate
<1>4. SuitesInit => ParallelInv /\ InSuite
  BY InitIsParallel, ChoicesAssumption DEF SuitesInit, InSuite
<1>5. InSuite /\ ParallelInv /\ [SuitesNext]_allVars => InSuite' /\ ParallelInv'
  BY StepKeepsParallel, SuiteStepIsStreamsStep
<1> QED
  BY <1>1, <1>2, <1>3, <1>4, <1>5, PTL DEF ParallelSpec, SuitesSpec

-----------------------------------------------------------------------------
(* What WriteLatencyData prints. *)

Shares == {500, 900, 990, 999}
SortedList(s, n) == n \in Nat \ {0} /\ s \in [1..n -> Int] /\ NonDecreasing(s)

(* Lists are functions on 1..n here. *)
LEMMA ListLength ==
  ASSUME NEW n \in Nat \ {0}, NEW s, SortedList(s, n)
  PROVE  Len(s) = n
  BY DEF SortedList

LEMMA IndexBounds ==
  ASSUME NEW n \in Nat \ {0}, NEW p \in Shares
  PROVE  /\ PercentileIndex(p, n) \in 0..n-1
         /\ 1000 * (PercentileIndex(p, n) + 1) > p * n
<1> DEFINE k == (p * n) \div 1000
<1>1. k \in Nat /\ 1000 * (k + 1) > p * n
  <2>1. CASE p = 500
    BY <2>1
  <2>2. CASE p = 900
    BY <2>2
  <2>3. CASE p = 990
    BY <2>3
  <2>4. CASE p = 999
    BY <2>4
  <2> QED
    BY <2>1, <2>2, <2>3, <2>4 DEF Shares
<1>2. p * n \in Nat /\ 1000 * n > p * n
  BY DEF Shares
<1>3. PercentileIndex(p, n) = IF k < n - 1 THEN k ELSE n - 1
  BY DEF PercentileIndex
<1> HIDE DEF k
<1>4. CASE k < n - 1
  BY <1>1, <1>3, <1>4
<1>5. CASE ~(k < n - 1)
  BY <1>1, <1>2, <1>3, <1>5
<1> QED
  BY <1>4, <1>5

(* For any number of times, every percentile of lines 266-280 of           *)
(* client_utilities.cc is an element of the list: a list of one or two     *)
(* times is not read past its end. *)
THEOREM PercentilesAreInTheList ==
  ASSUME NEW n \in Nat \ {0}, NEW s, SortedList(s, n)
  PROVE  \A i \in 1..6 : Printed(s)[i] \in {s[j] : j \in 1..n}
<1>1. Len(s) = n
  BY ListLength
<1>2. \A p \in Shares : PercentileIndex(p, n) + 1 \in 1..n
  BY IndexBounds
<1>3. \A p \in Shares : Percentile(s, p) \in {s[j] : j \in 1..n}
  BY <1>1, <1>2 DEF Percentile
<1>4. s[1] \in {s[j] : j \in 1..n} /\ s[n] \in {s[j] : j \in 1..n}
  OBVIOUS
<1>5. /\ Percentile(s, 500) \in {s[j] : j \in 1..n}
      /\ Percentile(s, 900) \in {s[j] : j \in 1..n}
      /\ Percentile(s, 990) \in {s[j] : j \in 1..n}
      /\ Percentile(s, 999) \in {s[j] : j \in 1..n}
  BY <1>3 DEF Shares
<1>6. Printed(s) = <<s[1], Percentile(s, 500), Percentile(s, 900),
                     Percentile(s, 990), Percentile(s, 999), s[n]>>
  BY <1>1 DEF Printed
<1> DEFINE list == {s[j] : j \in 1..n}
<1> HIDE DEF list
<1>7. \A a, b, c, d, e, f \in list : \A i \in 1..6 : <<a, b, c, d, e, f>>[i] \in list
  OBVIOUS
<1> QED
  BY <1>4, <1>5, <1>6, <1>7 DEF list

LEMMA IndexOrder ==
  ASSUME NEW n \in Nat \ {0}
  PROVE  /\ PercentileIndex(500, n) <= PercentileIndex(900, n)
         /\ PercentileIndex(900, n) <= PercentileIndex(990, n)
         /\ PercentileIndex(990, n) <= PercentileIndex(999, n)
<1>1. (500 * n) \div 1000 <= (900 * n) \div 1000
  OBVIOUS
<1>2. (900 * n) \div 1000 <= (990 * n) \div 1000
  OBVIOUS
<1>3. (990 * n) \div 1000 <= (999 * n) \div 1000
  OBVIOUS
<1> QED
  BY <1>1, <1>2, <1>3 DEF PercentileIndex

LEMMA SixInOrder ==
  ASSUME NEW t, Len(t) = 6,
         t[1] \in Int, t[2] \in Int, t[3] \in Int,
         t[4] \in Int, t[5] \in Int, t[6] \in Int,
         t[1] <= t[2], t[2] <= t[3], t[3] <= t[4], t[4] <= t[5], t[5] <= t[6]
  PROVE  NonDecreasing(t)
<1>1. SUFFICES ASSUME NEW i \in 1..6, NEW j \in 1..6, i <= j
               PROVE  t[i] <= t[j]
  BY DEF NonDecreasing
<1>2. CASE i = 1
  BY <1>1, <1>2
<1>3. CASE i = 2
  BY <1>1, <1>3
<1>4. CASE i = 3
  BY <1>1, <1>4
<1>5. CASE i = 4
  BY <1>1, <1>5
<1>6. CASE i = 5 \/ i = 6
  BY <1>1, <1>6
<1> QED
  BY <1>2, <1>3, <1>4, <1>5, <1>6

(* What is printed as minimum, median, P90, P99, P99.9 and maximum never   *)
(* decreases, whatever the number of times. *)
THEOREM PercentilesAreOrdered ==
  ASSUME NEW n \in Nat \ {0}, NEW s, SortedList(s, n)
  PROVE  NonDecreasing(Printed(s))
<1>1. Len(s) = n
  BY ListLength
<1>2. /\ PercentileIndex(500, n) \in 0..n-1 /\ PercentileIndex(900, n) \in 0..n-1
      /\ PercentileIndex(990, n) \in 0..n-1 /\ PercentileIndex(999, n) \in 0..n-1
  BY IndexBounds DEF Shares
<1>3. \A i, j \in 1..n : i <= j => s[i] <= s[j]
  BY <1>1 DEF SortedList, NonDecreasing
<1>4. \A i \in 1..n : s[i] \in Int
  BY DEF SortedList
<1>5. /\ s[1] <= Percentile(s, 500)
      /\ Percentile(s, 500) <= Percentile(s, 900)
      /\ Percentile(s, 900) <= Percentile(s, 990)
      /\ Percentile(s, 990) <= Percentile(s, 999)
      /\ Percentile(s, 999) <= s[n]
  <2>1. \A i, j \in 0..n-1 : i <= j => s[i + 1] <= s[j + 1]
    BY <1>3
  <2>2. \A q : Percentile(s, q) = s[PercentileIndex(q, n) + 1]
    BY <1>1 DEF Percentile
  <2>3. \A i \in 0..n-1 : s[1] <= s[i + 1] /\ s[i + 1] <= s[n]
    BY <1>3
  <2> QED
    BY ONLY <1>2, <2>1, <2>2, <2>3, IndexOrder, n \in Nat \ {0}
<1>6. /\ Percentile(s, 500) \in Int /\ Percentile(s, 900) \in Int
      /\ Percentile(s, 990) \in Int /\ Percentile(s, 999) \in Int
      /\ s[1] \in Int /\ s[n] \in Int
  <2>1. \A q \in 0..n-1 : q + 1 \in 1..n
    OBVIOUS
  <2>2. \A q \in 0..n-1 : s[q + 1] \in Int
    BY <1>4, <2>1
  <2>3. s[1] \in Int /\ s[n] \in Int
    BY <1>4
  <2>4. \A q \in Shares : Percentile(s, q) = s[PercentileIndex(q, n) + 1]
    BY <1>1 DEF Percentile
  <2>5. \A q \in Shares : Percentile(s, q) \in Int
    BY <2>2, <2>4, IndexBounds
  <2> QED
    BY <2>3, <2>5 DEF Shares
<1>7. Printed(s) = <<s[1], Percentile(s, 500), Percentile(s, 900),
                     Percentile(s, 990), Percentile(s, 999), s[n]>>
  BY <1>1 DEF Printed
<1> DEFINE t == Printed(s)
<1>8. Len(t) = 6 /\ t[1] = s[1] /\ t[6] = s[n]
  BY <1>7
<1>9. /\ t[2] = Percentile(s, 500) /\ t[3] = Percentile(s, 900)
      /\ t[4] = Percentile(s, 990) /\ t[5] = Percentile(s, 999)
  BY <1>7
<1> HIDE DEF t
<1>10. NonDecreasing(t)
  BY <1>5, <1>6, <1>8, <1>9, SixInOrder
<1> QED
  BY <1>10 DEF t

(* A percentile covers its share: of n times, more than p thousandths of  *)
(* n are at most the value printed as that percentile.                     *)
THEOREM PercentileCoversItsShare ==
  ASSUME NEW n \in Nat \ {0}, NEW s, SortedList(s, n), NEW p \in Shares
  PROVE  1000 * Cardinality({i \in 1..n : s[i] <= Percentile(s, p)}) > p * n
<1> DEFINE q == PercentileIndex(p, n) + 1
           covered == {i \in 1..n : s[i] <= Percentile(s, p)}
<1>1. Len(s) = n
  BY ListLength
<1>2. q \in 1..n /\ 1000 * q > p * n
  BY IndexBounds
<1>3. 1..q \subseteq covered
  BY <1>1, <1>2 DEF SortedList, NonDecreasing, Percentile
<1>4. IsFiniteSet(covered)
  BY FS_Interval, FS_Subset
<1>5. IsFiniteSet(1..q) /\ Cardinality(1..q) = q
  BY <1>2, FS_Interval
<1>6. Cardinality(covered) \in Nat /\ q <= Cardinality(covered)
  BY <1>3, <1>4, <1>5, FS_Subset, FS_CardinalityType
<1>7. p * n \in Nat
  BY DEF Shares
<1> HIDE DEF q, covered
<1>8. 1000 * Cardinality(covered) > p * n
  <2>1. q \in Nat
    BY <1>2
  <2> QED
    BY <1>2, <1>6, <1>7, <2>1
<1> QED
  BY <1>8 DEF covered

-----------------------------------------------------------------------------
(* The tests of unary calls in the suites: where a rate test's calls went. *)

UnaryInv ==
  /\ made \in Nat /\ served \in Nat /\ errors \in Nat
  /\ upc # "idle" => utest.size \in Nat
  /\ utest.kind # "timed" => made = served + errors
  /\ uoutcome = "rated" => utest.kind # "timed"
  /\ upc = "crashed" => served < made

(* A reply that is served has all samples of its request: Read copies no   *)
(* more than has come. *)
LEMMA ServedReplyIsWhole ==
  ASSUME utest.size \in Nat, CopySamples(ReplySamples(Method, utest.size))
  PROVE  UNCHANGED upc
<1>1. Wrappers["Read"].reply > 0
  BY DEF Wrappers, Bytes
<1>2. Method = "Read" => ReplySamples(Method, utest.size) = utest.size
  BY <1>1 DEF ReplySamples
<1> QED
  BY <1>2 DEF CopySamples

LEMMA ServedKeepsUnary == UnaryInv /\ CallIsServed => UnaryInv'
<1> SUFFICES ASSUME UnaryInv, CallIsServed PROVE UnaryInv'
  OBVIOUS
<1>1. /\ upc = "running" /\ made' = made + 1 /\ served' = served + 1
      /\ UNCHANGED <<utest, errors, uoutcome>>
  BY DEF CallIsServed
<1>2. upc' = upc
  BY <1>1, ServedReplyIsWhole DEF CallIsServed, UnaryInv
<1> QED
  BY <1>1, <1>2 DEF UnaryInv

LEMMA FailureKeepsUnary == UnaryInv /\ CallFails => UnaryInv'
<1> SUFFICES ASSUME UnaryInv, CallFails PROVE UnaryInv'
  OBVIOUS
<1>1. made' = made + 1 /\ UNCHANGED <<utest, served>> /\ upc = "running"
  BY DEF CallFails
<1>2. CASE utest.kind = "timed"
  BY <1>1, <1>2 DEF CallFails, UnaryInv
<1>3. CASE utest.kind # "timed"
  <2>1. /\ errors' = errors + 1 /\ uoutcome' = uoutcome
    BY <1>3 DEF CallFails, PrintStatus
  <2>2. upc' \in {"running", "crashed"}
    BY <1>1, <1>3 DEF CallFails, CopySamples
  <2> QED
    BY <1>1, <1>3, <2>1, <2>2 DEF UnaryInv
<1> QED
  BY <1>2, <1>3

LEMMA UnaryStepKeepsUnary == UnaryInv /\ UnaryStep => UnaryInv'
<1>1. UnaryInv /\ EndCalls => UnaryInv'
  BY DEF EndCalls, UnaryInv
<1> QED
  BY <1>1, ServedKeepsUnary, FailureKeepsUnary DEF UnaryStep

LEMMA UnaryUntouched == UnaryInv /\ UNCHANGED unaryVars => UnaryInv'
  BY DEF UnaryInv, unaryVars

LEMMA NextTestKeepsUnary == InSuite /\ UnaryInv /\ NextTest => UnaryInv'
<1> SUFFICES ASSUME InSuite, UnaryInv, NextTest PROVE UnaryInv'
  OBVIOUS
<1>1. PICK test : test = Suites[suite][at]
  OBVIOUS
<1>2. test.size \in Nat
  <2>1. Sized(Suites[suite])
    BY SuitesAreSized DEF InSuite
  <2> QED
    BY <1>1, <2>1 DEF InSuite, NextTest, SuiteOver, Sized
<1>3. StartCalls(test) \/ UNCHANGED unaryVars
  BY <1>1 DEF NextTest
<1>4. ASSUME StartCalls(test) PROVE UnaryInv'
  BY <1>2, <1>4 DEF StartCalls, UnaryInv
<1> QED
  BY <1>3, <1>4, UnaryUntouched

LEMMA SuiteStepKeepsUnary ==
  ASSUME InSuite, UnaryInv, [SuitesNext]_allVars
  PROVE  UnaryInv'
<1>1. CASE UnaryClient
  BY <1>1, UnaryStepKeepsUnary DEF UnaryClient
<1>2. CASE NextTest
  BY <1>2, NextTestKeepsUnary
<1>3. CASE \/ EchoClient \/ EchoHandler \/ EchoBreaks \/ StreamsMain
           \/ \E i \in Threads : StreamsThread(i) \/ StreamsWriter(i) \/ StreamsBreak(i)
           \/ UNCHANGED allVars
  BY <1>3, UnaryUntouched DEF EchoClient, EchoHandler, EchoBreaks, StreamsMain, StreamsThread,
     StreamsWriter, StreamsBreak, besideStreams, allVars
<1> QED
  BY <1>1, <1>2, <1>3 DEF SuitesNext

LEMMA SuitesKeepUnary == SuitesSpec => []UnaryInv
<1>1. SuitesInit => InSuite /\ UnaryInv
  BY ChoicesAssumption DEF SuitesInit, InSuite, UnaryInit, UnaryInv, NoCalls
<1>2. InSuite /\ UnaryInv /\ [SuitesNext]_allVars => InSuite' /\ UnaryInv'
  BY SuiteStepKeepsUnary, SuiteStepIsStreamsStep
<1> QED
  BY <1>1, <1>2, PTL DEF SuitesSpec

(* In every suite, for any number of calls: the client's process faults in *)
(* the copy of Read only after a call has failed. *)
THEOREM ServedReadsDoNotCrash == SuitesSpec => []OnlyFailedReadsCrash
<1>1. UnaryInv => OnlyFailedReadsCrash
  BY DEF UnaryInv, OnlyFailedReadsCrash
<1> QED
  BY <1>1, SuitesKeepUnary, PTL

(* In every suite, for any number of calls: a rate test that has printed   *)
(* no error gives the rate of calls that were all served.                  *)
THEOREM SilentRateIsServed == SuitesSpec => []CleanRateIsServed
<1>1. UnaryInv => CleanRateIsServed
  BY DEF UnaryInv, CleanRateIsServed
<1> QED
  BY <1>1, SuitesKeepUnary, PTL

-----------------------------------------------------------------------------
(* Every list that is built by appending has a sorted form, so Sort is the *)
(* sorted list. *)
Sortable(s) == SortedForms(s) # {}

LEMMA EmptyIsSortable == Sortable(<<>>)
<1> DEFINE t == [i \in 1..0 |-> 0]
           f == [i \in 1..0 |-> 0]
<1>1. Len(<<>>) = 0 /\ 1..0 = {}
  OBVIOUS
<1>2. t \in [1..0 -> {<<>>[i] : i \in 1..0}] /\ f \in [1..0 -> 1..0] /\ Permutes(f, 0)
  BY <1>1 DEF Permutes
<1>3. Len(t) = 0 /\ NonDecreasing(t)
  BY <1>1 DEF NonDecreasing
<1>4. t \in SortedForms(<<>>)
  BY <1>1, <1>2, <1>3 DEF SortedForms
<1> QED
  BY <1>4 DEF Sortable

(* What Sort returns, and that every element of the list is in it.         *)
LEMMA SortIsSorted ==
  ASSUME NEW s \in Seq(Int), Sortable(s), s # <<>>
  PROVE  /\ SortedList(Sort(s), Len(s))
         /\ \E f \in [1..Len(s) -> 1..Len(s)] :
              Permutes(f, Len(s)) /\ \A i \in 1..Len(s) : Sort(s)[i] = s[f[i]]
<1> DEFINE n == Len(s)
           t == Sort(s)
<1>1. n \in Nat \ {0} /\ \A i \in 1..n : s[i] \in Int
  BY EmptySeq
<1>2. t \in SortedForms(s)
  BY DEF Sort, Sortable
<1> HIDE DEF t
<1>3. t \in [1..n -> {s[i] : i \in 1..n}] /\ NonDecreasing(t)
  BY <1>2 DEF SortedForms
<1>4. t \in [1..n -> Int]
  BY <1>1, <1>3
<1>5. \E f \in [1..n -> 1..n] : Permutes(f, n) /\ \A i \in 1..n : t[i] = s[f[i]]
  BY <1>2 DEF SortedForms
<1> QED
  BY <1>1, <1>3, <1>4, <1>5 DEF SortedList, t

LEMMA InitialSegment ==
  ASSUME NEW n \in Nat
  PROVE  IsFiniteSet(1..n) /\ Cardinality(1..n) = n
  BY FS_Interval

(* One more time goes behind those that are no greater. *)
LEMMA AppendIsSortable ==
  ASSUME NEW s \in Seq(Int), Sortable(s), NEW v \in Int
  PROVE  Sortable(Append(s, v))
<1> DEFINE n == Len(s)
           r == Append(s, v)
<1>1. /\ n \in Nat /\ Len(r) = n + 1 /\ r[n + 1] = v
      /\ \A i \in 1..n : r[i] = s[i] /\ s[i] \in Int
  BY AppendProperties
<1>p. SortedForms(s) = {t \in [1..n -> {s[i] : i \in 1..n}] :
         NonDecreasing(t) /\ \E f \in [1..n -> 1..n] :
                                Permutes(f, n) /\ \A i \in 1..n : t[i] = s[f[i]]}
  BY DEF SortedForms
<1> HIDE DEF n, r
<1>2. PICK t \in SortedForms(s) : TRUE
  BY DEF Sortable
<1>3. PICK f \in [1..n -> 1..n] :
        /\ \A i, j \in 1..n : f[i] = f[j] => i = j
        /\ \A i \in 1..n : t[i] = s[f[i]]
  BY <1>2, <1>p DEF Permutes
<1>4. /\ t \in [1..n -> Int]
      /\ \A i, j \in 1..n : i <= j => t[i] <= t[j]
  <2>1. t \in [1..n -> {s[i] : i \in 1..n}] /\ NonDecreasing(t)
    BY <1>2, <1>p
  <2>2. Len(t) = n
    BY <1>1, <2>1
  <2>3. \A i \in 1..n : t[i] \in Int
    BY <1>1, <2>1
  <2>4. t = [i \in 1..n |-> t[i]]
    BY <2>1
  <2> QED
    BY <2>1, <2>2, <2>3, <2>4 DEF NonDecreasing
<1> DEFINE low == {i \in 1..n : t[i] <= v}
           q == Cardinality(low)
<1>5. q \in 0..n /\ low = 1..q
  <2>1. IsFiniteSet(1..n) /\ Cardinality(1..n) = n /\ low \subseteq 1..n
    BY <1>1, InitialSegment
  <2>2. IsFiniteSet(low) /\ q \in Nat /\ q <= n
    BY <1>1, <2>1, FS_Subset, FS_CardinalityType
  <2>3. IsFiniteSet(1..q) /\ Cardinality(1..q) = q
    BY <2>2, InitialSegment
  <2>4. ASSUME NEW i \in low PROVE i \in 1..q
    <3>1. ASSUME NEW j \in 1..i PROVE j \in low
      <4>1. j \in 1..n /\ i \in 1..n /\ j <= i /\ t[i] <= v
        BY <1>1
      <4>2. t[j] <= t[i] /\ t[i] \in Int /\ t[j] \in Int
        BY <1>4, <4>1
      <4> QED
        BY <4>1, <4>2
    <3>2. 1..i \subseteq low /\ i \in Nat
      BY <3>1
    <3>3. Cardinality(1..i) = i /\ Cardinality(1..i) <= q
      BY <2>2, <3>2, InitialSegment, FS_Subset
    <3> HIDE DEF q
    <3> QED
      BY <2>2, <3>3
  <2> HIDE DEF low, q
  <2>5. low \subseteq 1..q
    BY <2>4
  <2>6. low = 1..q
    BY <2>3, <2>5, FS_Subset DEF q
  <2> QED
    BY <2>2, <2>6
<1>6. /\ \A i \in 1..q : t[i] <= v
      /\ \A i \in 1..n : i > q => v < t[i]
  <2>1. \A i \in 1..n : i \in 1..q <=> t[i] <= v
    BY <1>5
  <2> HIDE DEF q
  <2>2. \A i \in 1..n : t[i] \in Int /\ (i \in 1..q <=> ~(i > q))
    BY <1>1, <1>4, <1>5
  <2>3. \A i \in 1..q : i \in 1..n
    BY <1>1, <1>5
  <2> QED
    BY <2>1, <2>2, <2>3
<1> HIDE DEF q, low
<1> DEFINE u == [i \in 1..n+1 |-> IF i <= q THEN t[i] ELSE IF i = q + 1 THEN v ELSE t[i-1]]
           g == [i \in 1..n+1 |-> IF i <= q THEN f[i] ELSE IF i = q + 1 THEN n + 1 ELSE f[i-1]]
<1>7. ASSUME NEW i \in 1..n+1
      PROVE  /\ i <= q => i \in 1..n /\ u[i] = t[i] /\ g[i] = f[i]
             /\ i = q + 1 => u[i] = v /\ g[i] = n + 1
             /\ i > q + 1 => i - 1 \in 1..n /\ i - 1 > q /\ u[i] = t[i-1] /\ g[i] = f[i-1]
             /\ i <= q \/ i = q + 1 \/ i > q + 1
  BY <1>1, <1>5
<1> HIDE DEF u, g
<1>8. ASSUME NEW i \in 1..n+1 PROVE g[i] \in 1..n+1 /\ u[i] = r[g[i]] /\ u[i] \in Int
  <2>1. ASSUME NEW k \in 1..n
        PROVE  f[k] \in 1..n+1 /\ t[k] = r[f[k]] /\ t[k] \in Int
    <3>1. f[k] \in 1..n
      BY <1>3
    <3>2. f[k] \in 1..n+1
      BY <1>1, <3>1
    <3>3. t[k] = r[f[k]]
      BY <1>1, <1>3, <3>1
    <3>4. t[k] \in Int
      BY <1>4
    <3> QED
      BY <3>2, <3>3, <3>4
  <2>2. n + 1 \in 1..n+1 /\ v = r[n + 1]
    BY <1>1
  <2> QED
    <3>1. CASE i <= q
      BY <1>7, <2>1, <3>1
    <3>2. CASE i = q + 1
      BY <1>7, <2>2, <3>2
    <3>3. CASE i > q + 1
      BY <1>7, <2>1, <3>3
    <3> QED
      BY <1>7, <3>1, <3>2, <3>3
<1>9. ASSUME NEW i \in 1..n+1, NEW j \in 1..n+1, i <= j PROVE u[i] <= u[j]
  <2>0. i \in Nat /\ j \in Nat /\ q \in Nat
    BY <1>1, <1>5
  <2>1. CASE j <= q
    <3>1. i <= q
      BY <1>9, <2>0, <2>1
    <3> QED
      BY <1>4, <1>7, <1>9, <2>1, <3>1
  <2>2. CASE i <= q /\ j = q + 1
    BY <1>6, <1>7, <2>0, <2>2
  <2>3. CASE i <= q /\ j > q + 1
    <3>1. i \in 1..n /\ j - 1 \in 1..n /\ i <= j - 1
      BY <1>7, <2>0, <2>3
    <3>2. t[i] <= t[j - 1]
      BY <1>4, <3>1
    <3> QED
      BY <1>7, <2>3, <3>2
  <2>4. CASE i = q + 1
    <3>1. CASE j = q + 1
      BY <1>8, <2>4, <3>1
    <3>2. CASE j > q + 1
      <4>1. v < t[j - 1] /\ t[j - 1] \in Int
        BY <1>4, <1>6, <1>7, <3>2
      <4> QED
        BY <1>7, <2>4, <3>2, <4>1
    <3> QED
      BY <1>9, <2>0, <2>4, <3>1, <3>2
  <2>5. CASE i > q + 1
    <3>1. j > q + 1 /\ i - 1 <= j - 1
      BY <1>9, <2>0, <2>5
    <3>2. t[i - 1] <= t[j - 1]
      BY <1>4, <1>7, <2>5, <3>1
    <3> QED
      BY <1>7, <2>5, <3>1, <3>2
  <2> QED
    BY <1>7, <1>9, <2>0, <2>1, <2>2, <2>3, <2>4, <2>5
<1>10. ASSUME NEW i \in 1..n+1, NEW j \in 1..n+1, g[i] = g[j] PROVE i = j
  <2>1. \A k \in 1..n : f[k] # n + 1
    BY <1>1, <1>3
  <2>2. CASE i = q + 1 \/ j = q + 1
    BY <1>7, <1>10, <2>1, <2>2
  <2>3. CASE i # q + 1 /\ j # q + 1
    <3>1. CASE i <= q
      <4>1. CASE j <= q
        BY <1>3, <1>7, <1>10, <3>1, <4>1
      <4>2. CASE j > q + 1
        <5>1. i \in 1..n /\ j - 1 \in 1..n /\ f[i] = f[j - 1] /\ j - 1 > q
          BY <1>7, <1>10, <3>1, <4>2
        <5>2. i = j - 1
          BY <1>3, <5>1
        <5> QED
          BY <1>5, <3>1, <5>1, <5>2
      <4> QED
        BY <1>7, <2>3, <4>1, <4>2
    <3>2. CASE i > q + 1
      <4>1. CASE j <= q
        <5>1. j \in 1..n /\ i - 1 \in 1..n /\ f[j] = f[i - 1] /\ i - 1 > q
          BY <1>7, <1>10, <3>2, <4>1
        <5>2. j = i - 1
          BY <1>3, <5>1
        <5> QED
          BY <1>5, <4>1, <5>1, <5>2
      <4>2. CASE j > q + 1
        <5>1. j - 1 \in 1..n /\ i - 1 \in 1..n /\ f[j - 1] = f[i - 1]
          BY <1>7, <1>10, <3>2, <4>2
        <5>2. j - 1 = i - 1
          BY <1>3, <5>1
        <5> QED
          BY <5>2
      <4> QED
        BY <1>7, <2>3, <4>1, <4>2
    <3> QED
      BY <1>7, <2>3, <3>1, <3>2
  <2> QED
    BY <2>2, <2>3
<1>11. u \in SortedForms(r)
  <2>1. u = [i \in 1..n+1 |-> u[i]] /\ g = [i \in 1..n+1 |-> g[i]]
    BY DEF u, g
  <2>2. u \in [1..n+1 -> {r[i] : i \in 1..n+1}] /\ g \in [1..n+1 -> 1..n+1]
    BY <1>8, <2>1
  <2>3. Len(u) = n + 1
    BY <1>1, <2>1
  <2>4. NonDecreasing(u)
    BY <1>9, <2>3 DEF NonDecreasing
  <2>5. Permutes(g, n + 1)
    BY <1>10 DEF Permutes
  <2> HIDE DEF r
  <2> QED
    BY <1>1, <1>8, <2>2, <2>4, <2>5 DEF SortedForms
<1> QED
  BY <1>11 DEF Sortable, r

(* A permutation of positions reaches each of them. *)
LEMMA PermutationIsOnto ==
  ASSUME NEW n \in Nat, NEW f \in [1..n -> 1..n], Permutes(f, n)
  PROVE  \A i \in 1..n : \E j \in 1..n : f[j] = i
<1>1. IsFiniteSet(1..n) /\ Cardinality(1..n) = n
  BY InitialSegment
<1>2. f \in Injection(1..n, 1..n)
  BY DEF Permutes, Injection, IsInjective
<1>3. f \in Surjection(1..n, 1..n)
  BY <1>1, <1>2, FS_Injection
<1> QED
  BY <1>3 DEF Surjection

(* The numbers that are printed of a list that could be sorted. *)
Describes(p, s) ==
  /\ NonDecreasing(p)
  /\ \A i \in 1..Len(s) : p[1] <= s[i] /\ s[i] <= p[6]
  /\ \A k \in 2..5 :
       1000 * Cardinality({i \in 1..Len(s) : s[i] <= p[k]})
         >= <<0, 500, 900, 990, 999>>[k] * Len(s)

LEMMA PrintedDescribes ==
  ASSUME NEW s \in Seq(Int), Sortable(s), s # <<>>
  PROVE  Describes(Printed(Sort(s)), s)
<1> DEFINE n == Len(s)
           t == Sort(s)
           p == Printed(t)
<1>1. n \in Nat \ {0} /\ SortedList(t, n)
  BY SortIsSorted, EmptySeq
<1>2. PICK f \in [1..n -> 1..n] : Permutes(f, n) /\ \A i \in 1..n : t[i] = s[f[i]]
  BY SortIsSorted
<1> HIDE DEF n, t, p
<1>3. Len(t) = n /\ t \in [1..n -> Int] /\ \A i, j \in 1..n : i <= j => t[i] <= t[j]
  BY <1>1, ListLength DEF SortedList, NonDecreasing
<1>4. p = <<t[1], Percentile(t, 500), Percentile(t, 900),
            Percentile(t, 990), Percentile(t, 999), t[n]>>
  BY <1>3 DEF Printed, p
<1>5. NonDecreasing(p)
  BY <1>1, PercentilesAreOrdered DEF p
<1>6. ASSUME NEW i \in 1..n PROVE p[1] <= s[i] /\ s[i] <= p[6]
  <2>1. PICK j \in 1..n : f[j] = i
    BY <1>1, <1>2, PermutationIsOnto
  <2>2. s[i] = t[j]
    BY <1>2, <2>1
  <2>3. 1 \in 1..n /\ n \in 1..n /\ 1 <= j /\ j <= n
    BY <1>1
  <2>4. t[1] <= t[j] /\ t[j] <= t[n]
    BY <1>3, <2>3
  <2> QED
    BY <1>4, <2>2, <2>4
<1>7. ASSUME NEW q \in Shares
      PROVE  1000 * Cardinality({i \in 1..n : s[i] <= Percentile(t, q)}) >= q * n
  <2> DEFINE v == Percentile(t, q)
             sorted == {i \in 1..n : t[i] <= v}
             taken == {i \in 1..n : s[i] <= v}
             g == [i \in sorted |-> f[i]]
  <2>1. 1000 * Cardinality(sorted) > q * n
    BY <1>1, PercentileCoversItsShare
  <2>2. IsFiniteSet(sorted) /\ IsFiniteSet(taken)
    <3>1. IsFiniteSet(1..n)
      BY <1>1, InitialSegment
    <3>2. sorted \in SUBSET (1..n) /\ taken \in SUBSET (1..n)
      OBVIOUS
    <3> QED
      BY <3>1, <3>2, FS_Subset
  <2> HIDE DEF v
  <2>3. g \in Injection(sorted, taken)
    BY <1>2 DEF Permutes, Injection, IsInjective
  <2>4. Cardinality(sorted) <= Cardinality(taken)
    BY <2>2, <2>3, FS_Injection
  <2>5. Cardinality(sorted) \in Nat /\ Cardinality(taken) \in Nat /\ q * n \in Nat
    BY <1>1, <2>2, FS_CardinalityType DEF Shares
  <2> HIDE DEF sorted, taken
  <2>6. 1000 * Cardinality(taken) >= q * n
    BY <2>1, <2>4, <2>5
  <2> QED
    BY <2>6 DEF taken, v
<1>8. ASSUME NEW k \in 2..5
      PROVE  1000 * Cardinality({i \in 1..n : s[i] <= p[k]}) >= <<0, 500, 900, 990, 999>>[k] * n
  <2>1. PICK q \in Shares : p[k] = Percentile(t, q) /\ <<0, 500, 900, 990, 999>>[k] = q
    <3>1. CASE k = 2
      BY <1>4, <3>1 DEF Shares
    <3>2. CASE k = 3
      BY <1>4, <3>2 DEF Shares
    <3>3. CASE k = 4
      BY <1>4, <3>3 DEF Shares
    <3>4. CASE k = 5
      BY <1>4, <3>4 DEF Shares
    <3> QED
      BY <3>1, <3>2, <3>3, <3>4
  <2>2. 1000 * Cardinality({i \in 1..n : s[i] <= Percentile(t, q)}) >= q * n
    BY <1>7
  <2>3. {i \in 1..n : s[i] <= p[k]} = {i \in 1..n : s[i] <= Percentile(t, q)}
    BY <2>1
  <2> QED
    BY ONLY <2>1, <2>2, <2>3
<1> QED
  BY <1>5, <1>6, <1>8 DEF Describes, n, t, p

-----------------------------------------------------------------------------
(* The unary tests of the suites call methods of the interface, a latency  *)
(* test just one, and ask for no message above a limit but in the tests of *)
(* large writes.                                                           *)
LargeWrite(test) ==
  test.kind = "rate" /\ test.methods = <<"TestWrite">> /\ test.size > 131072

ProperCalls(test) ==
  test.kind \in {"timed", "rate"} =>
    /\ test.methods \in Seq(DOMAIN Wrappers) /\ test.methods # <<>>
    /\ test.kind = "timed" => Len(test.methods) = 1
    /\ LargeWrite(test) \/ \A i \in 1..Len(test.methods) : Accepted(test.methods[i], test.size)

AllProper(tests) == \A x \in 1..Len(tests) : ProperCalls(tests[x])

LEMMA MethodBytes ==
  /\ \A m \in {"Init", "ConfigureVertical", "ConfigureHorizontalTiming", "InitiateAcquisition"} :
       m \in DOMAIN Wrappers /\ Wrappers[m].request = 0 /\ Wrappers[m].reply = 0
  /\ \A m \in {"Read", "ReadComplex", "ReadComplexArena"} :
       m \in DOMAIN Wrappers /\ Wrappers[m].request = 0 /\ Wrappers[m].reply \in {8, 20}
  /\ "TestWrite" \in DOMAIN Wrappers
  /\ Wrappers["TestWrite"].request = 8 /\ Wrappers["TestWrite"].reply = 0
  BY SMT DEF Wrappers, Bytes

LEMMA Limits == ServerLimit = 1048576 /\ ClientLimit = 1048576000
  BY SMT DEF ServerLimit, ClientLimit, MB

(* What the limits of the two sides let pass: every message without        *)
(* samples, the reads up to a million of them and the writes up to 131072. *)
LEMMA BareMessagesPass ==
  ASSUME NEW size \in Nat,
         NEW m \in {"Init", "ConfigureVertical", "ConfigureHorizontalTiming",
                   "InitiateAcquisition"}
  PROVE  Accepted(m, size)
  BY SMT, MethodBytes, Limits DEF Accepted

LEMMA ReadsPass ==
  ASSUME NEW size \in Nat, size <= 1000000,
         NEW m \in {"Read", "ReadComplex", "ReadComplexArena"}
  PROVE  Accepted(m, size)
  BY SMT, MethodBytes, Limits DEF Accepted

LEMMA SmallWritesPass ==
  ASSUME NEW size \in Nat, size <= 131072
  PROVE  Accepted("TestWrite", size)
  BY SMT, MethodBytes, Limits DEF Accepted

LEMMA OneMethod ==
  ASSUME NEW m \in DOMAIN Wrappers, NEW size
  PROVE  /\ Accepted(m, size) => ProperCalls(Rate(<<m>>, size)) /\ ProperCalls(Timing(m, size))
         /\ LargeWrite(Rate(<<m>>, size)) => ProperCalls(Rate(<<m>>, size))
<1> DEFINE one == <<m>>
<1>1. one \in Seq(DOMAIN Wrappers) /\ one # <<>> /\ Len(one) = 1
  OBVIOUS
<1>2. \A i \in 1..Len(one) : one[i] = m
  BY <1>1
<1>3. /\ Rate(one, size).kind = "rate" /\ Rate(one, size).methods = one
      /\ Rate(one, size).size = size
      /\ Timing(m, size).kind = "timed" /\ Timing(m, size).methods = one
      /\ Timing(m, size).size = size
  BY DEF Rate, Timing, Test
<1> HIDE DEF one
<1>4. Accepted(m, size) => ProperCalls(Rate(one, size))
  BY <1>1, <1>2, <1>3 DEF ProperCalls
<1>5. Accepted(m, size) => ProperCalls(Timing(m, size))
  BY <1>1, <1>2, <1>3 DEF ProperCalls
<1>6. LargeWrite(Rate(one, size)) => ProperCalls(Rate(one, size))
  BY <1>1, <1>3 DEF ProperCalls
<1> QED
  BY <1>4, <1>5, <1>6 DEF one

LEMMA WritesAreProper ==
  ASSUME NEW size \in Nat
  PROVE  /\ ProperCalls(Rate(<<"TestWrite">>, size))
         /\ size <= 131072 => ProperCalls(Timing("TestWrite", size))
<1>1. size <= 131072 => Accepted("TestWrite", size)
  BY SMT, SmallWritesPass
<1>2. size <= 131072 \/ LargeWrite(Rate(<<"TestWrite">>, size))
  BY SMT DEF LargeWrite, Rate, Test
<1>3. "TestWrite" \in DOMAIN Wrappers
  BY MethodBytes
<1> QED
  BY SMT, <1>1, <1>2, <1>3, OneMethod

LEMMA ReadsAreProper ==
  ASSUME NEW size \in Nat, size <= 1000000,
         NEW m \in {"Read", "ReadComplex", "ReadComplexArena"}
  PROVE  ProperCalls(Rate(<<m>>, size))
<1>1. m \in DOMAIN Wrappers /\ Accepted(m, size)
  BY SMT, ReadsPass, MethodBytes
<1> QED
  BY SMT, <1>1, OneMethod

LEMMA NoUnaryCalls ==
  /\ \A size : ProperCalls(Echo(size))
  /\ \A n, size : ProperCalls(Streams(n, size))
  BY DEF ProperCalls, Echo, Streams, Test

LEMMA ListIsProper ==
  ASSUME NEW n \in Nat, NEW s, s = [x \in 1..n |-> s[x]], \A x \in 1..n : ProperCalls(s[x])
  PROVE  AllProper(s)
  BY Positions DEF AllProper

LEMMA InitIsProper == ProperCalls(Timing("Init", 0)) /\ ProperCalls(Rate(<<"Init">>, 0))
<1>1. "Init" \in DOMAIN Wrappers /\ Accepted("Init", 0)
  BY BareMessagesPass, MethodBytes
<1> QED
  BY <1>1, OneMethod

LEMMA UnarySuitesAreProper ==
  /\ AllProper(RunMessageLatencyTestSuite)
  /\ AllProper(RunLatencyPayloadWriteTestSuite)
  /\ AllProper(RunReadTestSuite)
  /\ AllProper(RunReadComplexTestSuite)
  /\ AllProper(RunWriteTestSuite)
<1>1. AllProper(RunMessageLatencyTestSuite)
  <2>1. RunMessageLatencyTestSuite = [x \in 1..5 |-> RunMessageLatencyTestSuite[x]]
    BY DEF RunMessageLatencyTestSuite
  <2>2. \A x \in 1..5 : RunMessageLatencyTestSuite[x] = Timing("Init", 0)
    BY SMT DEF RunMessageLatencyTestSuite
  <2>3. ProperCalls(Timing("Init", 0))
    BY InitIsProper
  <2> QED
    BY ONLY <2>1, <2>2, <2>3, ListIsProper
<1>2. AllProper(RunLatencyPayloadWriteTestSuite)
  <2>1. RunLatencyPayloadWriteTestSuite = [x \in 1..8 |-> RunLatencyPayloadWriteTestSuite[x]]
    BY DEF RunLatencyPayloadWriteTestSuite
  <2>2. \A x \in 1..8 : PayloadSizes[x] \in Nat /\ PayloadSizes[x] <= 131072
    BY SMT DEF PayloadSizes
  <2>3. \A x \in 1..8 :
          RunLatencyPayloadWriteTestSuite[x] = Timing("TestWrite", PayloadSizes[x])
    BY SMT DEF RunLatencyPayloadWriteTestSuite
  <2>4. \A x \in 1..8 : ProperCalls(Timing("TestWrite", PayloadSizes[x]))
    BY SMT, <2>2, WritesAreProper
  <2>5. \A x \in 1..8 : ProperCalls(RunLatencyPayloadWriteTestSuite[x])
    BY ONLY <2>3, <2>4
  <2> QED
    BY ONLY <2>1, <2>5, ListIsProper
<1>3. AllProper(RunReadTestSuite)
  <2> DEFINE sizes == <<100, 1000, 10000, 100000, 800000>>
  <2>1. RunReadTestSuite = [x \in 1..5 |-> RunReadTestSuite[x]]
    BY DEF RunReadTestSuite
  <2>2. \A x \in 1..5 : sizes[x] \in Nat /\ sizes[x] <= 1000000
    BY SMT
  <2>3. \A x \in 1..5 : RunReadTestSuite[x] = Rate(<<"Read">>, sizes[x])
    BY SMT DEF RunReadTestSuite
  <2> HIDE DEF sizes
  <2>4. \A x \in 1..5 : ProperCalls(Rate(<<"Read">>, sizes[x]))
    BY SMT, <2>2, ReadsAreProper
  <2>5. \A x \in 1..5 : ProperCalls(RunReadTestSuite[x])
    BY ONLY <2>3, <2>4
  <2> QED
    BY ONLY <2>1, <2>5, ListIsProper
<1>4. AllProper(RunReadComplexTestSuite)
  <2> DEFINE sizes == <<100, 1000, 10000, 100000>>
  <2>1. RunReadComplexTestSuite = [x \in 1..8 |-> RunReadComplexTestSuite[x]]
    BY DEF RunReadComplexTestSuite
  <2>2. \A x \in 1..4 : sizes[x] \in Nat /\ sizes[x] <= 1000000
    BY SMT
  <2>3. \A x \in 1..8 :
          RunReadComplexTestSuite[x] = IF x <= 4 THEN Rate(<<"ReadComplexArena">>, sizes[x])
                                                 ELSE Rate(<<"ReadComplex">>, sizes[x - 4])
    BY SMT DEF RunReadComplexTestSuite
  <2> HIDE DEF sizes
  <2>4. \A x \in 1..4 : /\ ProperCalls(Rate(<<"ReadComplexArena">>, sizes[x]))
                        /\ ProperCalls(Rate(<<"ReadComplex">>, sizes[x]))
    BY SMT, <2>2, ReadsAreProper
  <2>5. ASSUME NEW x \in 1..8 PROVE ProperCalls(RunReadComplexTestSuite[x])
    <3>1. CASE x <= 4
      <4>1. x \in 1..4
        BY <3>1
      <4> QED
        BY ONLY <2>3, <2>4, <3>1, <4>1, x \in 1..8
    <3>2. CASE ~(x <= 4)
      <4>1. x - 4 \in 1..4
        BY <3>2
      <4> QED
        BY ONLY <2>3, <2>4, <3>2, <4>1, x \in 1..8
    <3> QED
      BY <3>1, <3>2
  <2> QED
    BY ONLY <2>1, <2>5, ListIsProper
<1>5. AllProper(RunWriteTestSuite)
  <2> DEFINE sizes == <<100, 1000, 10000, 100000, 200000, 393216>>
  <2>1. RunWriteTestSuite = [x \in 1..6 |-> RunWriteTestSuite[x]]
    BY DEF RunWriteTestSuite
  <2>2. \A x \in 1..6 : sizes[x] \in Nat
    BY SMT
  <2>3. \A x \in 1..6 : RunWriteTestSuite[x] = Rate(<<"TestWrite">>, sizes[x])
    BY SMT DEF RunWriteTestSuite
  <2> HIDE DEF sizes
  <2>4. \A x \in 1..6 : ProperCalls(Rate(<<"TestWrite">>, sizes[x]))
    BY SMT, <2>2, WritesAreProper
  <2>5. \A x \in 1..6 : ProperCalls(RunWriteTestSuite[x])
    BY ONLY <2>3, <2>4
  <2> QED
    BY ONLY <2>1, <2>5, ListIsProper
<1> QED
  BY <1>1, <1>2, <1>3, <1>4, <1>5

LEMMA MixedSuitesAreProper ==
  /\ AllProper(RunLatencyStreamTestSuite)
  /\ AllProper(RunLatencyPayloadWriteStreamTestSuite)
  /\ AllProper(RunMessagePerformanceTestSuite)
  /\ AllProper(RunScpiCompareTestSuite)
  /\ AllProper(LocalhostRound)
<1>1. AllProper(RunLatencyStreamTestSuite)
  <2>1. RunLatencyStreamTestSuite = [x \in 1..5 |-> RunLatencyStreamTestSuite[x]]
    BY DEF RunLatencyStreamTestSuite
  <2>2. \A x \in 1..5 : RunLatencyStreamTestSuite[x] = Echo(0)
    BY DEF RunLatencyStreamTestSuite
  <2> QED
    BY ONLY <2>1, <2>2, NoUnaryCalls, ListIsProper
<1>2. AllProper(RunLatencyPayloadWriteStreamTestSuite)
  <2> DEFINE tests == RunLatencyPayloadWriteStreamTestSuite
  <2>1. tests = [x \in 1..8 |-> tests[x]]
    BY DEF RunLatencyPayloadWriteStreamTestSuite
  <2>2. \A x \in 1..8 : tests[x] = Echo(PayloadSizes[x])
    BY DEF RunLatencyPayloadWriteStreamTestSuite
  <2> HIDE DEF tests
  <2>3. \A x \in 1..8 : ProperCalls(tests[x])
    BY ONLY <2>2, NoUnaryCalls
  <2>4. AllProper(tests)
    BY ONLY <2>1, <2>3, ListIsProper
  <2> QED
    BY <2>4 DEF tests
<1>3. ProperCalls(Rate(<<"Init">>, 0))
  BY InitIsProper
<1>4. AllProper(RunMessagePerformanceTestSuite)
  BY <1>3 DEF RunMessagePerformanceTestSuite, AllProper
<1>5. AllProper(LocalhostRound)
  <2> DEFINE echo == Echo(0)
             rate == Rate(<<"Init">>, 0)
  <2>1. ProperCalls(echo) /\ ProperCalls(rate)
    BY <1>3, NoUnaryCalls
  <2>2. LocalhostRound = <<rate, echo, rate, echo>>
    BY DEF LocalhostRound
  <2> HIDE DEF echo, rate
  <2>3. Len(LocalhostRound) = 4 /\ \A x \in 1..4 : LocalhostRound[x] \in {rate, echo}
    BY <2>2
  <2> QED
    BY <2>1, <2>3 DEF AllProper
<1>6. AllProper(RunScpiCompareTestSuite)
  <2> DEFINE ms == <<"ConfigureVertical", "ConfigureHorizontalTiming",
                     "InitiateAcquisition", "Read">>
  <2>1. ms \in Seq(DOMAIN Wrappers) /\ ms # <<>> /\ Len(ms) = 4
    BY MethodBytes
  <2>2. \A i \in 1..4 : ms[i] \in {"ConfigureVertical", "ConfigureHorizontalTiming",
                                   "InitiateAcquisition", "Read"}
    OBVIOUS
  <2>3. Len(RunScpiCompareTestSuite) = 1 /\ RunScpiCompareTestSuite[1] = Rate(ms, 10)
    BY DEF RunScpiCompareTestSuite
  <2>4. Rate(ms, 10).kind = "rate" /\ Rate(ms, 10).methods = ms /\ Rate(ms, 10).size = 10
    BY DEF Rate, Test
  <2> HIDE DEF ms
  <2>5. 10 \in Nat /\ 10 <= 1000000
    BY SMT
  <2>6. \A i \in 1..4 : Accepted(ms[i], 10)
    BY SMT, <2>2, <2>5, BareMessagesPass, ReadsPass
  <2>7. ProperCalls(Rate(ms, 10))
    BY <2>1, <2>4, <2>6 DEF ProperCalls
  <2> QED
    BY <2>3, <2>7 DEF AllProper
<1> QED
  BY <1>1, <1>2, <1>4, <1>5, <1>6

LEMMA ParallelLength ==
  LET k == Len(ParallelSizes)
      n == Len(ClientCounts) * k
  IN  /\ Len(RunParallelStreamTestSuite) = n
      /\ \A x \in 1..n : ((x - 1) % k) + 1 \in 1..k
<1> DEFINE k == Len(ParallelSizes)
           n == Len(ClientCounts) * k
           tests == RunParallelStreamTestSuite
<1>1. k \in Nat /\ n \in Nat
  BY ListsAreSized
<1>2. tests = [x \in 1..n |-> tests[x]]
  BY DEF RunParallelStreamTestSuite
<1>3. Len(tests) = n
  <2> HIDE DEF n, tests
  <2> QED
    BY <1>1, <1>2, Positions
<1>4. ASSUME NEW x \in 1..n PROVE ((x - 1) % k) + 1 \in 1..k
  <2>1. k > 0
    BY <1>1
  <2> QED
    BY <1>1, <2>1
<1> QED
  BY <1>3, <1>4

LEMMA StreamSuitesAreProper ==
  AllProper(RunSteamingTestSuite) /\ AllProper(RunParallelStreamTestSuite)
<1>1. AllProper(RunSteamingTestSuite)
  <2> DEFINE n == Len(StreamSizes)
             tests == RunSteamingTestSuite
  <2>1. tests = [x \in 1..n |-> tests[x]] /\ n \in Nat
    BY ListsAreSized DEF RunSteamingTestSuite
  <2>2. \A x \in 1..n : tests[x] = Streams(1, StreamSizes[x])
    BY DEF RunSteamingTestSuite
  <2> HIDE DEF n, tests
  <2>3. \A x \in 1..n : ProperCalls(tests[x])
    BY ONLY <2>2, NoUnaryCalls
  <2>4. AllProper(tests)
    BY ONLY <2>1, <2>3, ListIsProper
  <2> QED
    BY <2>4 DEF tests
<1>2. AllProper(RunParallelStreamTestSuite)
  <2> DEFINE k == Len(ParallelSizes)
             n == Len(ClientCounts) * k
             tests == RunParallelStreamTestSuite
  <2>1. Len(tests) = n
    BY ParallelLength
  <2>2. ASSUME NEW x \in 1..n PROVE ProperCalls(tests[x])
    <3> DEFINE i == ((x - 1) % k) + 1
               c == ClientCounts[((x - 1) \div k) + 1]
    <3>1. i \in 1..k
      BY ParallelLength
    <3>2. tests[x] = RunParallelStreamTest(c)[i]
      BY DEF RunParallelStreamTestSuite
    <3>3. tests[x] = Streams(c, ParallelSizes[i])
      BY <3>1, <3>2 DEF RunParallelStreamTest
    <3> QED
      BY <3>3, NoUnaryCalls
  <2> QED
    BY <2>1, <2>2 DEF AllProper
<1> QED
  BY <1>1, <1>2

LEMMA SuitesAreProper == \A name \in DOMAIN Suites : AllProper(Suites[name])
  BY UnarySuitesAreProper, MixedSuitesAreProper, StreamSuitesAreProper DEF Suites

-----------------------------------------------------------------------------
(* The unary tests in the suites: types, and what may have been refused.   *)
RefusedInv ==
  /\ UnaryTypeOK /\ ProperCalls(utest)
  /\ upc = "running" => utest.kind \in {"timed", "rate"}
  /\ (served < made /\ stopped = FALSE) => LargeWrite(utest)

LEMMA ServedKeepsRefused == RefusedInv /\ CallIsServed => RefusedInv'
<1> SUFFICES ASSUME RefusedInv, CallIsServed PROVE RefusedInv'
  OBVIOUS
<1>1. /\ made' = made + 1 /\ served' = served + 1
      /\ UNCHANGED <<utest, errors, stopped, uoutcome>>
  BY DEF CallIsServed
<1>2. upc' \in {"idle", "running", "crashed"} /\ upc = "running"
  BY DEF CallIsServed, CopySamples, RefusedInv, UnaryTypeOK
<1>3. /\ made \in Nat /\ served \in 0..made /\ errors \in 0..made
  BY DEF RefusedInv, UnaryTypeOK
<1>4. made' \in Nat /\ served' \in 0..made' /\ errors' \in 0..made'
  BY <1>1, <1>3
<1>5. served' < made' => served < made
  BY <1>1, <1>3
<1>6. UnaryTypeOK'
  BY <1>1, <1>2, <1>4 DEF RefusedInv, UnaryTypeOK
<1>7. ProperCalls(utest)' /\ (LargeWrite(utest)' <=> LargeWrite(utest))
  BY <1>1 DEF RefusedInv, ProperCalls, LargeWrite
<1> QED
  BY <1>1, <1>2, <1>5, <1>6, <1>7 DEF RefusedInv

(* Only a message above a limit is refused while the server stays.         *)
LEMMA RefusalIsLarge ==
  ASSUME RefusedInv, upc = "running", ~Accepted(Method, utest.size)
  PROVE  LargeWrite(utest)
<1>1. /\ utest.methods \in Seq(DOMAIN Wrappers) /\ utest.methods # <<>> /\ made \in Nat
      /\ \/ LargeWrite(utest)
         \/ \A i \in 1..Len(utest.methods) : Accepted(utest.methods[i], utest.size)
  BY DEF RefusedInv, ProperCalls, UnaryTypeOK
<1> DEFINE n == Len(utest.methods)
<1>2. n \in Nat \ {0}
  BY <1>1, EmptySeq, LenProperties
<1> HIDE DEF n
<1>3. (made % n) + 1 \in 1..n
  BY <1>1, <1>2
<1>4. Method = utest.methods[(made % n) + 1]
  BY DEF Method, n
<1> QED
  BY <1>1, <1>3, <1>4 DEF n

LEMMA FailureKeepsRefused == RefusedInv /\ CallFails => RefusedInv'
<1> SUFFICES ASSUME RefusedInv, CallFails PROVE RefusedInv'
  OBVIOUS
<1>1. /\ made' = made + 1 /\ served' = served /\ utest' = utest /\ upc = "running"
      /\ stopped' = (stopped \/ Accepted(Method, utest.size))
  BY DEF CallFails
<1>2. /\ upc' \in {"idle", "running", "crashed"} /\ errors' \in {errors, errors + 1}
      /\ uoutcome' \in {uoutcome, "discarded"}
  BY <1>1 DEF CallFails, CopySamples, PrintStatus
<1>3. /\ made \in Nat /\ served \in 0..made /\ errors \in 0..made
      /\ uoutcome \in {"none", "reported", "discarded", "rated"}
  BY DEF RefusedInv, UnaryTypeOK
<1>4. made' \in Nat /\ served' \in 0..made' /\ errors' \in 0..made'
  BY <1>1, <1>2, <1>3
<1>5. stopped' \in BOOLEAN /\ (stopped' = FALSE => ~Accepted(Method, utest.size))
  BY <1>1, Zenon DEF Accepted
<1>6. UnaryTypeOK'
  BY <1>1, <1>2, <1>3, <1>4, <1>5 DEF RefusedInv, UnaryTypeOK
<1>7. ProperCalls(utest)' /\ (LargeWrite(utest)' <=> LargeWrite(utest))
  BY <1>1 DEF RefusedInv, ProperCalls, LargeWrite
<1>8. stopped' = FALSE => LargeWrite(utest)
  BY <1>1, <1>5, RefusalIsLarge
<1>9. upc' = "running" => utest'.kind \in {"timed", "rate"}
  BY <1>1 DEF RefusedInv
<1> QED
  BY <1>6, <1>7, <1>8, <1>9 DEF RefusedInv

LEMMA UnaryStepKeepsRefused == RefusedInv /\ UnaryStep => RefusedInv'
<1>1. RefusedInv /\ EndCalls => RefusedInv'
  BY DEF EndCalls, RefusedInv, UnaryTypeOK, ProperCalls, LargeWrite
<1> QED
  BY <1>1, ServedKeepsRefused, FailureKeepsRefused DEF UnaryStep

LEMMA UntouchedRefused == RefusedInv /\ UNCHANGED unaryVars => RefusedInv'
  BY DEF RefusedInv, UnaryTypeOK, ProperCalls, LargeWrite, unaryVars

(* The next test of the suite is a proper one. *)
LEMMA NextTestIsProper ==
  ASSUME InSuite, NextTest
  PROVE  ProperCalls(Suites[suite][at])
<1>1. AllProper(Suites[suite]) /\ Sized(Suites[suite])
  BY SuitesAreProper, SuitesAreSized DEF InSuite
<1>2. at \in 1..Len(Suites[suite])
  BY <1>1 DEF InSuite, NextTest, SuiteOver, Sized
<1> QED
  BY <1>1, <1>2 DEF AllProper

LEMMA SuiteStepKeepsRefused ==
  ASSUME InSuite, RefusedInv, [SuitesNext]_allVars
  PROVE  RefusedInv'
<1>1. CASE UnaryClient
  BY <1>1, UnaryStepKeepsRefused DEF UnaryClient
<1>2. CASE NextTest
  <2>1. PICK test : test = Suites[suite][at]
    OBVIOUS
  <2>2. (test.kind \in {"timed", "rate"} /\ StartCalls(test)) \/ UNCHANGED unaryVars
    BY <1>2, <2>1 DEF NextTest
  <2>3. ProperCalls(test)
    BY <1>2, <2>1, NextTestIsProper
  <2>4. ASSUME test.kind \in {"timed", "rate"}, StartCalls(test) PROVE RefusedInv'
    <3>1. utest' = test /\ upc' = "running" /\ made' = 0 /\ served' = 0 /\ errors' = 0
          /\ stopped' = FALSE /\ uoutcome' = "none"
      BY <2>4 DEF StartCalls
    <3>2. ProperCalls(utest)'
      BY <2>3, <3>1 DEF ProperCalls, LargeWrite
    <3>3. UnaryTypeOK'
      <4>1. test.methods \in Seq(DOMAIN Wrappers) /\ test.kind \in {"none", "timed", "rate"}
        BY <2>3, <2>4 DEF ProperCalls
      <4>2. 0 \in Nat /\ 0 \in 0..0 /\ FALSE \in BOOLEAN
        OBVIOUS
      <4> QED
        BY ONLY <3>1, <4>1, <4>2 DEF UnaryTypeOK
    <3> QED
      BY <2>4, <3>1, <3>2, <3>3 DEF RefusedInv
  <2> QED
    BY <2>2, <2>4, UntouchedRefused
<1>3. CASE \/ EchoClient \/ EchoHandler \/ EchoBreaks \/ StreamsMain
           \/ \E i \in Threads : StreamsThread(i) \/ StreamsWriter(i) \/ StreamsBreak(i)
           \/ UNCHANGED allVars
  BY <1>3, UntouchedRefused DEF EchoClient, EchoHandler, EchoBreaks, StreamsMain, StreamsThread,
     StreamsWriter, StreamsBreak, besideStreams, allVars
<1> QED
  BY <1>1, <1>2, <1>3 DEF SuitesNext

LEMMA SuitesKeepRefused == SuitesSpec => []RefusedInv
<1>1. SuitesInit => InSuite /\ RefusedInv
  <2> SUFFICES ASSUME SuitesInit PROVE InSuite /\ RefusedInv
    OBVIOUS
  <2>1. <<>> \in Seq(DOMAIN Wrappers)
    BY EmptySeq
  <2>2. UnaryTypeOK /\ ProperCalls(utest) /\ upc = "idle" /\ served = 0 /\ made = 0
    <3>1. utest.kind = "none" /\ utest.methods = <<>>
      BY DEF SuitesInit, UnaryInit, NoCalls
    <3>2. 0 \in Nat /\ 0 \in 0..0 /\ FALSE \in BOOLEAN
      OBVIOUS
    <3> QED
      BY <2>1, <3>1, <3>2 DEF SuitesInit, UnaryInit, UnaryTypeOK, ProperCalls
  <2> QED
    BY <2>2, ChoicesAssumption DEF SuitesInit, InSuite, RefusedInv
<1>2. InSuite /\ RefusedInv /\ [SuitesNext]_allVars => InSuite' /\ RefusedInv'
  BY SuiteStepKeepsRefused, SuiteStepIsStreamsStep
<1> QED
  BY <1>1, <1>2, PTL DEF SuitesSpec

(* In every suite, for any number of calls: as long as the server stays,   *)
(* no call is refused but the writes of more samples than a message of     *)
(* 1 MB has; so no latency test is discarded for a refusal.                *)
THEOREM NothingElseIsRefused == SuitesSpec => []OnlyLargeWritesAreRefused
<1>1. RefusedInv => OnlyLargeWritesAreRefused
  BY DEF RefusedInv, OnlyLargeWritesAreRefused, LargeWrite, UnaryTypeOK
<1> QED
  BY <1>1, SuitesKeepRefused, PTL

-----------------------------------------------------------------------------
(* The list of times, through every suite: as many as timed calls have     *)
(* been answered, and once it has been reported nobody adds to it.         *)
After(k, w) == IF k <= w THEN 0 ELSE k - w

TimesInv ==
  /\ times \in Seq(Int) /\ Sortable(times)
  /\ upc = "running" => pc = "idle"
  /\ pc \in {"write", "read"} => Len(times) = After(round, WarmUp)
  /\ (pc = "close" /\ outcome = "reported") => Len(times) = Timed
  /\ (upc = "running" /\ utest.kind = "timed") =>
       Len(times) = After(made, WarmUpCalls) /\ Len(utest.methods) = 1
  /\ report # NoReport =>
       /\ pc = "idle" /\ upc # "running"
       /\ report.lines = times /\ report.printed = Printed(Sort(times))
       /\ Len(times) = TimedCalls

LEMMA RecordKeepsSortable ==
  ASSUME times \in Seq(Int), Sortable(times), NEW t \in Latencies, Record(t)
  PROVE  /\ times' \in Seq(Int) /\ Sortable(times)' /\ Len(times') = Len(times) + 1
         /\ report' = report
<1>1. t \in Int /\ times' = Append(times, t) /\ report' = report
  BY LatenciesAssumption DEF Record
<1>2. Append(times, t) \in Seq(Int) /\ Len(Append(times, t)) = Len(times) + 1
  BY <1>1, AppendProperties
<1>3. Sortable(Append(times, t))
  BY <1>1, AppendIsSortable
<1> QED
  BY <1>1, <1>2, <1>3 DEF Sortable

LEMMA StartKeepsSortable ==
  ASSUME StartTimes
  PROVE  times' \in Seq(Int) /\ Sortable(times)' /\ Len(times') = 0 /\ report' = NoReport
<1>1. times' = <<>> /\ report' = NoReport
  BY DEF StartTimes
<1> QED
  BY <1>1, EmptyIsSortable, EmptySeq DEF Sortable

LEMMA WriteReports ==
  ASSUME WriteLatencyData, Len(times) \in Nat \ {0}
  PROVE  /\ times' = times
         /\ report'.lines = times /\ report'.printed = Printed(Sort(times))
<1>1. times # <<>>
  OBVIOUS
<1>2. report' = [lines |-> times, printed |-> Printed(Sort(times))] /\ times' = times
  BY <1>1 DEF WriteLatencyData
<1> QED
  BY <1>2

(* What a step of the echo test's client does to its own variables.        *)
LEMMA EchoClientMoves ==
  ASSUME EchoInv
  PROVE  /\ ReadSucceeds => /\ pc = "read" /\ round \in 0..Rounds /\ round < Rounds
                            /\ round' = round + 1
                            /\ round + 1 = Rounds => pc' = "close"
                            /\ round + 1 # Rounds => pc' = "write"
         /\ ReadFails => /\ pc = "read" /\ round \in 0..Rounds
                         /\ \/ pc' = "write" /\ round' = round + 1 /\ round < WarmUp
                            \/ pc' = "close" /\ outcome' = "discarded"
         /\ ClientWrite => pc = "write" /\ pc' = "read" /\ round' = round
         /\ CloseStream => pc = "close" /\ pc' = "idle"
<1>1. pc = "read" => round \in 0..Rounds /\ round < Rounds
  BY DEF EchoInv, TypeOK, Progress, Testing
<1>2. ASSUME ReadSucceeds
      PROVE  /\ pc = "read" /\ round' = round + 1
             /\ round + 1 = Rounds => pc' = "close"
             /\ round + 1 # Rounds => pc' = "write"
  BY <1>2 DEF ReadSucceeds, NextRound
<1>3. ASSUME ReadFails
      PROVE  /\ pc = "read"
             /\ \/ pc' = "write" /\ round' = round + 1 /\ round < WarmUp
                \/ pc' = "close" /\ outcome' = "discarded"
  <2>1. pc = "read"
    BY <1>3 DEF ReadFails
  <2>2. CASE round < WarmUp /\ NextRound
    <3>1. round + 1 # Rounds
      BY <1>1, <2>1, <2>2, RoundsAssumption DEF Rounds
    <3> QED
      BY <2>1, <2>2, <3>1 DEF NextRound
  <2> QED
    BY <1>3, <2>1, <2>2 DEF ReadFails
<1>4. ClientWrite => pc = "write" /\ pc' = "read" /\ round' = round
  BY DEF ClientWrite
<1>5. CloseStream => pc = "close" /\ pc' = "idle"
  BY DEF CloseStream
<1> QED
  BY <1>1, <1>2, <1>3, <1>4, <1>5

LEMMA TimedRound ==
  ASSUME NEW k \in 0..Rounds, k < Rounds
  PROVE  /\ k >= WarmUp => After(k, WarmUp) + 1 = After(k + 1, WarmUp)
         /\ k < WarmUp => After(k, WarmUp) = 0 /\ After(k + 1, WarmUp) = 0
         /\ k + 1 = Rounds => After(k + 1, WarmUp) = Timed
         /\ k + 1 = Rounds => k >= WarmUp
BY RoundsAssumption DEF After, Rounds

LEMMA EchoClientKeepsTimes == EchoInv /\ TimesInv /\ EchoClient => TimesInv'
<1> SUFFICES ASSUME EchoInv, TimesInv, EchoClient PROVE TimesInv'
  OBVIOUS
<1>1. UNCHANGED unaryVars /\ upc' = upc /\ times \in Seq(Int) /\ Sortable(times)
  BY DEF EchoClient, unaryVars, TimesInv
<1>2. pc # "idle" /\ upc # "running" /\ report = NoReport
  BY DEF EchoClient, TimesInv, ReadSucceeds, ReadFails, ClientWrite, CloseStream
<1>3. ASSUME ReadSucceeds, round >= WarmUp, NEW t \in Latencies, Record(t) PROVE TimesInv'
  <2>1. /\ times' \in Seq(Int) /\ Sortable(times)' /\ Len(times') = Len(times) + 1
        /\ report' = NoReport
    BY <1>1, <1>2, <1>3, RecordKeepsSortable
  <2>2. /\ pc = "read" /\ round \in 0..Rounds /\ round < Rounds /\ round' = round + 1
        /\ round + 1 = Rounds => pc' = "close"
        /\ round + 1 # Rounds => pc' = "write"
    BY <1>3, EchoClientMoves
  <2>3. Len(times) = After(round, WarmUp)
    BY <2>2 DEF TimesInv
  <2>4. Len(times') = After(round + 1, WarmUp)
    BY <1>3, <2>1, <2>2, <2>3, TimedRound
  <2>5. round + 1 = Rounds => Len(times') = Timed
    BY <2>2, <2>4, TimedRound
  <2> QED
    BY <1>1, <1>2, <2>1, <2>2, <2>4, <2>5 DEF TimesInv
<1>4. ASSUME ReadSucceeds, round < WarmUp, UNCHANGED reportVars PROVE TimesInv'
  <2>1. times' = times /\ report' = NoReport
    BY <1>2, <1>4 DEF reportVars
  <2>2. /\ pc = "read" /\ round \in 0..Rounds /\ round < Rounds /\ round' = round + 1
        /\ round + 1 = Rounds => pc' = "close"
        /\ round + 1 # Rounds => pc' = "write"
    BY <1>4, EchoClientMoves
  <2>3. Len(times) = After(round, WarmUp)
    BY <2>2 DEF TimesInv
  <2>4. Len(times) = After(round + 1, WarmUp) /\ round + 1 # Rounds
    BY <1>4, <2>2, <2>3, TimedRound, RoundsAssumption
  <2>5. Sortable(times)' /\ times' \in Seq(Int)
    BY <1>1, <2>1 DEF Sortable
  <2> QED
    BY <1>1, <1>2, <2>1, <2>2, <2>4, <2>5 DEF TimesInv
<1>5. ASSUME CloseStream, IF outcome = "reported" THEN WriteLatencyData ELSE UNCHANGED reportVars
      PROVE  TimesInv'
  <2>1. pc = "close" /\ pc' = "idle"
    BY <1>5, EchoClientMoves
  <2>2. CASE outcome = "reported"
    <3>1. Len(times) = Timed /\ Timed \in Nat \ {0}
      BY <2>1, <2>2, RoundsAssumption DEF TimesInv
    <3>2. /\ times' = times
          /\ report'.lines = times /\ report'.printed = Printed(Sort(times))
      BY <1>5, <2>2, <3>1, WriteReports
    <3>3. Sortable(times)' /\ Printed(Sort(times)) = Printed(Sort(times))'
      BY <1>1, <3>2 DEF Sortable
    <3> QED
      BY <1>1, <1>2, <2>1, <3>1, <3>2, <3>3, OneTestLength DEF TimesInv
  <2>3. CASE outcome # "reported"
    <3>1. times' = times /\ report' = NoReport /\ Sortable(times)'
      BY <1>1, <1>2, <1>5, <2>3 DEF reportVars, Sortable
    <3> QED
      BY <1>1, <1>2, <2>1, <3>1 DEF TimesInv
  <2> QED
    BY <2>2, <2>3
<1>6. ASSUME ClientWrite \/ ReadFails, UNCHANGED reportVars PROVE TimesInv'
  <2>1. times' = times /\ report' = NoReport /\ Sortable(times)'
    BY <1>1, <1>2, <1>6 DEF reportVars, Sortable
  <2>2. CASE ClientWrite
    <3>1. pc = "write" /\ pc' = "read" /\ round' = round
      BY <2>2, EchoClientMoves
    <3> QED
      BY <1>1, <1>2, <2>1, <3>1 DEF TimesInv
  <2>3. CASE ReadFails
    <3>1. /\ pc = "read" /\ round \in 0..Rounds
          /\ \/ pc' = "write" /\ round' = round + 1 /\ round < WarmUp
             \/ pc' = "close" /\ outcome' = "discarded"
      BY <2>3, EchoClientMoves
    <3>2. round < WarmUp => Len(times) = After(round + 1, WarmUp)
      <4>1. Len(times) = After(round, WarmUp)
        BY <3>1 DEF TimesInv
      <4>2. round < WarmUp => round < Rounds
        BY <3>1, RoundsAssumption DEF Rounds
      <4> QED
        BY <3>1, <4>1, <4>2, TimedRound
    <3> QED
      BY <1>1, <1>2, <2>1, <3>1, <3>2 DEF TimesInv
  <2> QED
    BY <1>6, <2>2, <2>3
<1> QED
  BY <1>3, <1>4, <1>5, <1>6 DEF EchoClient

LEMMA UnaryClientKeepsTimes == RefusedInv /\ TimesInv /\ UnaryClient => TimesInv'
<1> SUFFICES ASSUME RefusedInv, TimesInv, UnaryClient PROVE TimesInv'
  OBVIOUS
<1>1. /\ UNCHANGED vars /\ pc' = pc /\ round' = round /\ outcome' = outcome
      /\ times \in Seq(Int) /\ Sortable(times) /\ made \in Nat
  BY DEF UnaryClient, vars, client, TimesInv, RefusedInv, UnaryTypeOK
<1>2. upc = "running" /\ pc = "idle" /\ report = NoReport
  BY DEF UnaryClient, UnaryStep, CallIsServed, CallFails, EndCalls, TimesInv
<1>3. ASSUME times' = times, report' = report PROVE Sortable(times)'
  BY <1>1, <1>3 DEF Sortable
<1>4. \A k \in Nat : /\ k < WarmUpCalls => After(k, WarmUpCalls) = After(k + 1, WarmUpCalls)
                     /\ ~(k < WarmUpCalls) =>
                          After(k, WarmUpCalls) + 1 = After(k + 1, WarmUpCalls)
  BY UnaryAssumption DEF After
<1>5. CASE CallIsServed
  <2>1. made' = made + 1 /\ utest' = utest
    BY <1>5 DEF CallIsServed
  <2>2. CASE utest.kind = "timed" /\ ~(made < WarmUpCalls)
    <3>1. PICK t \in Latencies : Record(t)
      BY <1>5, <2>2 DEF CallIsServed
    <3>2. /\ times' \in Seq(Int) /\ Sortable(times)' /\ Len(times') = Len(times) + 1
          /\ report' = NoReport
      BY <1>1, <1>2, <3>1, RecordKeepsSortable
    <3>3. Len(times) = After(made, WarmUpCalls) /\ Len(utest.methods) = 1
      BY <1>2, <2>2 DEF TimesInv
    <3>4. Len(times') = After(made', WarmUpCalls)
      BY <1>1, <1>4, <2>1, <2>2, <3>2, <3>3
    <3> QED
      BY <1>1, <1>2, <2>1, <3>2, <3>3, <3>4 DEF TimesInv
  <2>3. CASE utest.kind = "timed" /\ made < WarmUpCalls
    <3>1. times' = times /\ report' = report
      BY <1>5, <2>3 DEF CallIsServed, reportVars
    <3>2. Len(times) = After(made', WarmUpCalls) /\ Len(utest.methods) = 1
      BY <1>1, <1>2, <1>4, <2>1, <2>3 DEF TimesInv
    <3> QED
      BY <1>1, <1>2, <1>3, <2>1, <3>1, <3>2 DEF TimesInv
  <2>4. CASE utest.kind # "timed"
    <3>1. times' = times /\ report' = report
      BY <1>5, <2>4 DEF CallIsServed, reportVars
    <3> QED
      BY <1>1, <1>2, <1>3, <2>1, <2>4, <3>1 DEF TimesInv
  <2> QED
    BY <2>2, <2>3, <2>4
<1>6. CASE CallFails
  <2>1. made' = made + 1 /\ utest' = utest /\ times' = times /\ report' = report
    BY <1>6 DEF CallFails, reportVars
  <2>2. utest.kind = "timed" /\ ~(made < WarmUpCalls) => upc' = "idle"
    BY <1>6 DEF CallFails
  <2>3. utest.kind = "timed" /\ made < WarmUpCalls =>
          Len(times) = After(made', WarmUpCalls) /\ Len(utest.methods) = 1
    BY <1>1, <1>2, <1>4, <2>1 DEF TimesInv
  <2> QED
    BY <1>1, <1>2, <1>3, <2>1, <2>2, <2>3 DEF TimesInv
<1>7. CASE EndCalls
  <2>1. upc' = "idle" /\ utest' = utest /\ Over
    BY <1>7 DEF EndCalls
  <2>2. CASE utest.kind = "timed"
    <3>1. Len(times) = After(made, WarmUpCalls) /\ Len(utest.methods) = 1
      BY <1>2, <2>2 DEF TimesInv
    <3>2. made = WarmUpCalls + TimedCalls
      BY <2>1, <2>2, <3>1, UnaryAssumption DEF Over, CallIterations
    <3>3. Len(times) = TimedCalls /\ TimedCalls \in Nat \ {0}
      BY <3>1, <3>2, UnaryAssumption DEF After
    <3>4. WriteLatencyData
      BY <1>7, <2>2 DEF EndCalls
    <3>5. /\ times' = times
          /\ report'.lines = times /\ report'.printed = Printed(Sort(times))
      BY <3>3, <3>4, WriteReports
    <3>6. Sortable(times)' /\ Printed(Sort(times)) = Printed(Sort(times))'
      BY <1>1, <3>5 DEF Sortable
    <3> QED
      BY <1>1, <1>2, <2>1, <3>3, <3>5, <3>6 DEF TimesInv
  <2>3. CASE utest.kind # "timed"
    <3>1. times' = times /\ report' = report
      BY <1>7, <2>3 DEF EndCalls, reportVars
    <3> QED
      BY <1>1, <1>2, <1>3, <2>1, <3>1 DEF TimesInv
  <2> QED
    BY <2>2, <2>3
<1> QED
  BY <1>5, <1>6, <1>7 DEF UnaryClient, UnaryStep

LEMMA NextTestKeepsTimes == InSuite /\ TimesInv /\ NextTest => TimesInv'
<1> SUFFICES ASSUME InSuite, TimesInv, NextTest PROVE TimesInv'
  OBVIOUS
<1>1. PICK test : test = Suites[suite][at]
  OBVIOUS
<1>2. ProperCalls(test) /\ pc = "idle" /\ upc = "idle"
  BY <1>1, NextTestIsProper DEF NextTest, NoTest
<1>3. \/ OpenStream /\ StartTimes /\ UNCHANGED unaryVars
      \/ test.kind \in {"timed", "rate"} /\ StartCalls(test) /\ UNCHANGED vars
      \/ UNCHANGED <<vars, unaryVars, reportVars>>
  BY <1>1 DEF NextTest
<1>4. CASE OpenStream /\ StartTimes /\ UNCHANGED unaryVars
  <2>1. times' \in Seq(Int) /\ Sortable(times)' /\ Len(times') = 0 /\ report' = NoReport
    BY <1>4, StartKeepsSortable
  <2>2. pc' = "write" /\ round' = 0 /\ upc' = "idle"
    BY <1>2, <1>4 DEF OpenStream, unaryVars
  <2>3. After(0, WarmUp) = 0
    BY RoundsAssumption DEF After
  <2> QED
    BY <2>1, <2>2, <2>3 DEF TimesInv
<1>5. CASE test.kind \in {"timed", "rate"} /\ StartCalls(test) /\ UNCHANGED vars
  <2>1. times' \in Seq(Int) /\ Sortable(times)' /\ Len(times') = 0 /\ report' = NoReport
    BY <1>5, StartKeepsSortable DEF StartCalls
  <2>2. pc' = "idle" /\ utest' = test /\ made' = 0
    BY <1>2, <1>5 DEF StartCalls, vars, client
  <2>3. After(0, WarmUpCalls) = 0
    BY UnaryAssumption DEF After
  <2>4. test.kind = "timed" => Len(test.methods) = 1
    BY <1>2 DEF ProperCalls
  <2> QED
    BY <2>1, <2>2, <2>3, <2>4 DEF TimesInv
<1>6. CASE UNCHANGED <<vars, unaryVars, reportVars>>
  BY <1>6 DEF TimesInv, vars, client, unaryVars, reportVars, Sortable
<1> QED
  BY <1>3, <1>4, <1>5, <1>6

LEMMA OthersKeepTimes ==
  ASSUME TimesInv, UNCHANGED <<client, unaryVars, reportVars>>
  PROVE  TimesInv'
  BY DEF TimesInv, client, unaryVars, reportVars, Sortable

LEMMA SuiteStepKeepsTimes ==
  ASSUME InSuite, EchoInv, RefusedInv, TimesInv, [SuitesNext]_allVars
  PROVE  TimesInv'
<1>1. CASE EchoHandler \/ EchoBreaks
  <2>1. UNCHANGED <<client, unaryVars, reportVars>>
    BY <1>1 DEF EchoHandler, EchoBreaks, HandlerStep, HandlerReads, HandlerAnswers, HandlerEnds,
       Break
  <2> QED
    BY <2>1, OthersKeepTimes
<1>2. CASE \/ StreamsMain
           \/ \E i \in Threads : StreamsThread(i) \/ StreamsWriter(i) \/ StreamsBreak(i)
           \/ UNCHANGED allVars
  <2>1. UNCHANGED <<client, unaryVars, reportVars>>
    BY <1>2 DEF StreamsMain, StreamsThread, StreamsWriter, StreamsBreak, besideStreams, allVars,
       vars
  <2> QED
    BY <2>1, OthersKeepTimes
<1> QED
  BY <1>1, <1>2, NextTestKeepsTimes, EchoClientKeepsTimes, UnaryClientKeepsTimes DEF SuitesNext

LEMMA SuitesKeepTimes == SuitesSpec => []TimesInv
<1>1. SuitesInit => InSuite /\ TimesInv
  <2> SUFFICES ASSUME SuitesInit PROVE InSuite /\ TimesInv
    OBVIOUS
  <2>1. times = <<>> /\ report = NoReport /\ pc = "idle" /\ upc = "idle"
    BY DEF SuitesInit, ReportInit, Init, UnaryInit
  <2>2. times \in Seq(Int) /\ Sortable(times)
    BY <2>1, EmptySeq, EmptyIsSortable
  <2> QED
    BY <2>1, <2>2, ChoicesAssumption DEF SuitesInit, InSuite, TimesInv
<1>2. InSuite /\ EchoInv /\ RefusedInv /\ TimesInv /\ [SuitesNext]_allVars
        => InSuite' /\ TimesInv'
  BY SuiteStepKeepsTimes, SuiteStepIsStreamsStep
<1> QED
  BY <1>1, <1>2, SuitesKeepEcho, SuitesKeepRefused, PTL DEF SuitesSpec

(* In every suite, for any number of timed calls and any times: a report   *)
(* has one line for each timed call, and what WriteLatencyData             *)
(* (src/src/client_utilities.cc:233-281) prints begins with the least and  *)
(* ends with the greatest of them, does not decrease, and covers the       *)
(* shares that it names. *)
THEOREM ReportsAreOfTheTimes == SuitesSpec => []ReportDescribesTimes
<1>1. ASSUME TimesInv, report # NoReport
      PROVE  /\ report.lines = times /\ Len(times) = TimedCalls
             /\ Describes(report.printed, times)
  <2>1. /\ times \in Seq(Int) /\ Sortable(times) /\ Len(times) = TimedCalls
        /\ report.lines = times /\ report.printed = Printed(Sort(times))
    BY <1>1 DEF TimesInv
  <2>2. times # <<>>
    BY <2>1, UnaryAssumption
  <2> QED
    BY <2>1, <2>2, PrintedDescribes
<1>2. TimesInv => ReportDescribesTimes
  BY <1>1 DEF ReportDescribesTimes, Describes
<1> QED
  BY <1>2, SuitesKeepTimes, PTL

-----------------------------------------------------------------------------
(* What the types of the streaming test have beside Types. *)
RestTypes ==
  /\ server \in {"cpp", "dotnet"} /\ ppc \in {"idle", "starting", "joining"}
  /\ broke \in BOOLEAN /\ claimed \in BOOLEAN /\ whole \in BOOLEAN
  /\ filled \in [Threads -> Nat]

LEMMA StepKeepsRest == ASSUME RestTypes, [ParallelNext]_parallelVars PROVE RestTypes'
<1> USE DEF RestTypes
<1>1. ASSUME NEW n \in Threads, NEW size \in Sizes, StartStreams(n, size) PROVE RestTypes'
  BY <1>1 DEF StartStreams, handlerVars
<1>2. CASE MainStep
  BY <1>2 DEF MainStep, SpawnThread, JoinThreads, threadVars, handlerVars
<1>3. ASSUME NEW i \in Threads, ThreadStep(i) PROVE RestTypes'
  <2>1. CASE OpenCall(i)
    BY <2>1 DEF OpenCall, testVars
  <2>2. CASE ReadMessage(i)
    <3>1. whole' \in BOOLEAN
      BY <2>2, Zenon DEF ReadMessage
    <3> QED
      BY <2>2, <3>1 DEF ReadMessage, testVars, handlerVars
  <2>3. CASE ReadEnds(i)
    BY <2>3 DEF ReadEnds, testVars, handlerVars
  <2> QED
    BY <1>3, <2>1, <2>2, <2>3 DEF ThreadStep
<1>4. ASSUME NEW i \in Threads, BreakCall(i) PROVE RestTypes'
  BY <1>4 DEF BreakCall, threadVars, handlerVars
<1>5. ASSUME NEW i \in Threads, WriterStep(i) PROVE RestTypes'
  <2>1. /\ UNCHANGED <<testVars, threadVars>>
        /\ filled' = filled \/ filled' = [filled EXCEPT ![i] = @ + 1]
    BY <1>5 DEF WriterStep, BuildResult, AddSample, CopyList, WriteMessage, Return
  <2> QED
    BY <2>1 DEF testVars, threadVars
<1>6. CASE UNCHANGED parallelVars
  BY <1>6 DEF parallelVars, testVars, threadVars, handlerVars
<1> QED
  BY <1>1, <1>2, <1>3, <1>4, <1>5, <1>6 DEF ParallelNext, ParallelStep

InList == suite \in DOMAIN Suites /\ at \in 1..Len(Suites[suite]) + 1

LEMMA SuiteStepKeepsList == ASSUME InList, [SuitesNext]_allVars PROVE InList'
<1>1. Len(Suites[suite]) \in Nat
  BY SuitesAreSized DEF InList, Sized
<1>2. CASE NextTest
  BY <1>1, <1>2 DEF InList, NextTest, SuiteOver
<1>3. CASE ~NextTest
  <2>1. UNCHANGED suiteVars
    BY <1>3 DEF SuitesNext, EchoClient, EchoHandler, EchoBreaks, UnaryClient, StreamsMain,
       StreamsThread, StreamsWriter, StreamsBreak, besideStreams, allVars
  <2> QED
    BY <2>1 DEF InList, suiteVars
<1> QED
  BY <1>2, <1>3

(* The types of every suite's tests, for all constants. *)
THEOREM SuitesTypesCorrect == SuitesSpec => []SuitesTypeOK
<1>1. SuitesInit => InSuite /\ InList /\ RestTypes /\ ParallelInv
  <2> SUFFICES ASSUME SuitesInit PROVE InSuite /\ InList /\ RestTypes /\ ParallelInv
    OBVIOUS
  <2>1. suite \in DOMAIN Suites /\ at = 1
    BY ChoicesAssumption DEF SuitesInit
  <2>2. Len(Suites[suite]) \in Nat
    BY <2>1, SuitesAreSized DEF Sized
  <2>3. RestTypes
    BY DEF SuitesInit, ParallelInit, RestTypes, Zero
  <2> QED
    BY <2>1, <2>2, <2>3, InitIsParallel DEF SuitesInit, InSuite, InList
<1>2. InSuite /\ InList /\ RestTypes /\ ParallelInv /\ [SuitesNext]_allVars
        => InSuite' /\ InList' /\ RestTypes' /\ ParallelInv'
  BY SuiteStepIsStreamsStep, SuiteStepKeepsList, StepKeepsRest, StepKeepsParallel
<1>3. EchoInv /\ RefusedInv /\ InList /\ RestTypes /\ ParallelInv => SuitesTypeOK
  BY DEF SuitesTypeOK, EchoInv, RefusedInv, InList, ParallelTypeOK, RestTypes, ParallelInv, Types
<1> QED
  BY <1>1, <1>2, <1>3, SuitesKeepEcho, SuitesKeepRefused, PTL DEF SuitesSpec
=============================================================================
