--------------------------- MODULE ParallelStreams ---------------------------
(***************************************************************************)
(* N clients that each read a stream to its end, in a thread of their own: *)
(* PerformNStreamTest (src/src/performance_tests.cc:1376-1393) with its    *)
(* threads ReadSamples (src/src/client_utilities.cc:285-296), against the  *)
(* handlers of ReadContinuously.  PerformStreamingTest is the case of one. *)
(*                                                                         *)
(* The test claims the volume it asked for, whatever its threads have      *)
(* read; a ReadSamples that ends early says nothing.                       *)
(*                                                                         *)
(* The server's handler is the C++ one                                     *)
(* (src/src/perftest_server.cc:190-205), whose response is a local, or the *)
(* C# one (src/dotnet/PerfTestServer/PerftestServiceImpl.cs:41-52), whose  *)
(* samples come from one static list that every call may replace and fill. *)
(* A message is known by the number of its samples.                        *)
(***************************************************************************)
EXTENDS Naturals, Sequences

CONSTANTS
  Clients,        \* the most clients a test has (16 in the code)
  Window,         \* messages of a stream that flow control lets be under way
  Iterations,     \* messages asked for (DefaultTestIterations, 20000)
  TenThousand,    \* the servers' own number of messages (10000)
  Sizes           \* samples of a message

ASSUME ParallelAssumption ==
  /\ Clients \in Nat \ {0} /\ Window \in Nat \ {0} /\ Sizes \subseteq Nat
  /\ Iterations \in Nat \ {0} /\ TenThousand \in Nat \ {0}

VARIABLES
  server,  \* the server the client is connected to: "cpp" or "dotnet"
  ppc,     \* where the test is
  used,    \* its clients are 1..used
  asked,   \* the samples it asks for in each message
  broke,   \* a call of it has broken
  claimed, \* it has printed its rate
  reader,  \* where each thread is
  got,     \* messages a thread has read
  whole,   \* every message that was read had the samples asked for
  link,    \* each client's call
  wire,    \* its messages under way
  writer,  \* its handler
  want,    \* the samples the handler's request asks for
  sent,    \* the handler's loop counter
  result,  \* the samples in the handler's response
  filled,  \* samples the handler has added to the list (C#)
  count    \* the length of the static list (C#)

testVars == <<server, ppc, used, asked, broke, claimed>>
threadVars == <<reader, got, whole>>
handlerVars == <<writer, want, sent, result, filled, count>>
parallelVars == <<testVars, threadVars, link, wire, handlerVars>>

Threads == 1..Clients

ParallelTypeOK ==
  /\ server \in {"cpp", "dotnet"}
  /\ ppc \in {"idle", "starting", "joining"}
  /\ used \in 0..Clients /\ asked \in Nat
  /\ broke \in BOOLEAN /\ claimed \in BOOLEAN /\ whole \in BOOLEAN
  /\ reader \in [Threads -> {"none", "spawned", "reading", "exited"}]
  /\ got \in [Threads -> Nat]
  /\ link \in [Threads -> {"open", "broken", "ended"}]
  /\ wire \in [Threads -> Seq(Nat)]
  /\ writer \in [Threads -> {"called", "filling", "writing", "returned"}]
  /\ want \in [Threads -> Nat] /\ sent \in [Threads -> Nat]
  /\ result \in [Threads -> Nat] /\ filled \in [Threads -> Nat] /\ count \in Nat

Zero == [i \in Threads |-> 0]

ParallelInit ==
  /\ server \in {"cpp", "dotnet"}
  /\ ppc = "idle" /\ used = 0 /\ asked = 0 /\ broke = FALSE /\ claimed = FALSE
  /\ reader = [i \in Threads |-> "none"] /\ got = Zero /\ whole = TRUE
  /\ link = [i \in Threads |-> "ended"] /\ wire = [i \in Threads |-> <<>>]
  /\ writer = [i \in Threads |-> "returned"]
  /\ want = Zero /\ sent = Zero /\ result = Zero /\ filled = Zero /\ count = 0

-----------------------------------------------------------------------------
(* The test *)

StartStreams(n, size) ==
  /\ ppc = "idle" /\ n \in Threads
  /\ ppc' = "starting" /\ used' = n /\ asked' = size
  /\ broke' = FALSE /\ claimed' = FALSE
  /\ reader' = [i \in Threads |-> "none"] /\ got' = Zero /\ whole' = TRUE
  /\ UNCHANGED <<server, link, wire, handlerVars>>

SpawnThread ==
  /\ ppc = "starting"
  /\ \E i \in 1..used :
       /\ reader[i] = "none" /\ \A j \in 1..i-1 : reader[j] # "none"
       /\ reader' = [reader EXCEPT ![i] = "spawned"]
       /\ ppc' = IF i = used THEN "joining" ELSE "starting"
  /\ UNCHANGED <<server, used, asked, broke, claimed, got, whole, link, wire, handlerVars>>

(* Mutant of JoinThreads: only the first thread is joined. *)
JoinFirstThread ==
  /\ ppc = "joining" /\ reader[1] = "exited"
  /\ ppc' = "idle" /\ claimed' = TRUE
  /\ UNCHANGED <<server, used, asked, broke, threadVars, link, wire, handlerVars>>

(* When all threads have been joined the rate is printed: of used *        *)
(* Iterations messages, whatever was read.                                 *)
JoinThreads ==
  /\ ppc = "joining" /\ \A i \in 1..used : reader[i] = "exited"
  /\ ppc' = "idle" /\ claimed' = TRUE
  /\ UNCHANGED <<server, used, asked, broke, threadVars, link, wire, handlerVars>>

-----------------------------------------------------------------------------
(* ReadSamples.  The model gives each client one handler at a time: the    *)
(* next call waits for a handler that still serves a broken one. *)

OpenCall(i) ==
  /\ reader[i] = "spawned" /\ writer[i] = "returned"
  /\ reader' = [reader EXCEPT ![i] = "reading"]
  /\ link' = [link EXCEPT ![i] = "open"] /\ wire' = [wire EXCEPT ![i] = <<>>]
  /\ writer' = [writer EXCEPT ![i] = "called"] /\ want' = [want EXCEPT ![i] = asked]
  /\ sent' = [sent EXCEPT ![i] = 0] /\ filled' = [filled EXCEPT ![i] = 0]
  /\ UNCHANGED <<testVars, got, whole, result, count>>

ReadMessage(i) ==
  /\ reader[i] = "reading" /\ wire[i] # <<>>
  /\ got' = [got EXCEPT ![i] = @ + 1]
  /\ whole' = (whole /\ Head(wire[i]) = asked)
  /\ wire' = [wire EXCEPT ![i] = Tail(@)]
  /\ UNCHANGED <<testVars, reader, link, handlerVars>>

(* Read returns false at the end of the call, whatever ended it. *)
ReadEnds(i) ==
  /\ reader[i] = "reading" /\ wire[i] = <<>> /\ link[i] # "open"
  /\ reader' = [reader EXCEPT ![i] = "exited"]
  /\ UNCHANGED <<testVars, got, whole, link, wire, handlerVars>>

(* A call breaks; what has arrived may still be read. *)
BreakCall(i) ==
  /\ reader[i] = "reading" /\ link[i] # "broken"
  /\ link' = [link EXCEPT ![i] = "broken"]
  /\ \E left \in {wire[i], <<>>} : wire' = [wire EXCEPT ![i] = left]
  /\ broke' = TRUE
  /\ UNCHANGED <<server, ppc, used, asked, claimed, threadVars, handlerVars>>

-----------------------------------------------------------------------------
(* The handlers *)

Filling(i) == writer[i] = "filling"

(* C++: the response is built at once.  C#: the list is replaced when its  *)
(* length is wrong, before it is filled. *)
BuildResult(i) ==
  /\ writer[i] = "called"
  /\ IF server = "cpp" \/ count = want[i]
       THEN /\ writer' = [writer EXCEPT ![i] = "writing"]
            /\ result' = [result EXCEPT ![i] = want[i]]
            /\ UNCHANGED count
       ELSE /\ writer' = [writer EXCEPT ![i] = "filling"]
            /\ count' = 0
            /\ UNCHANGED result
  /\ UNCHANGED <<testVars, threadVars, link, wire, want, sent, filled>>

(* data.Add on whichever list is published now: of two that overlap one    *)
(* may be lost. *)
AddSample(i) ==
  /\ Filling(i) /\ filled[i] < want[i]
  /\ filled' = [filled EXCEPT ![i] = @ + 1]
  /\ count' \in {count + 1} \cup {count : j \in {j \in Threads \ {i} : Filling(j)}}
  /\ UNCHANGED <<testVars, threadVars, link, wire, writer, want, sent, result>>

(* AddRange(data) copies the list that is published now. *)
CopyList(i) ==
  /\ Filling(i) /\ filled[i] = want[i]
  /\ result' = [result EXCEPT ![i] = count]
  /\ writer' = [writer EXCEPT ![i] = "writing"]
  /\ UNCHANGED <<testVars, threadVars, link, wire, want, sent, filled, count>>

(* Mutant of Total: the loop runs once more. *)
TotalPlusOne == Iterations + 1

(* C++: as many messages as were asked for (10000 for none, which no test  *)
(* asks for).  C#: 10000. *)
Total == IF server = "cpp" THEN Iterations ELSE TenThousand

(* One Write: it waits for flow control, and its result is ignored. *)
WriteMessage(i) ==
  /\ writer[i] = "writing" /\ sent[i] < Total
  /\ \/ /\ link[i] = "open" /\ Len(wire[i]) < Window
        /\ wire' = [wire EXCEPT ![i] = Append(@, result[i])]
     \/ /\ link[i] # "open"
        /\ UNCHANGED wire
  /\ sent' = [sent EXCEPT ![i] = @ + 1]
  /\ UNCHANGED <<testVars, threadVars, link, writer, want, result, filled, count>>

(* Mutant of Return: a handler whose call is broken stays. *)
ReturnIfOpen(i) ==
  /\ writer[i] = "writing" /\ sent[i] = Total /\ link[i] = "open"
  /\ writer' = [writer EXCEPT ![i] = "returned"]
  /\ link' = [link EXCEPT ![i] = "ended"]
  /\ UNCHANGED <<testVars, threadVars, wire, want, sent, result, filled, count>>

Return(i) ==
  /\ writer[i] = "writing" /\ sent[i] = Total
  /\ writer' = [writer EXCEPT ![i] = "returned"]
  /\ link' = [link EXCEPT ![i] = IF @ = "open" THEN "ended" ELSE @]
  /\ UNCHANGED <<testVars, threadVars, wire, want, sent, result, filled, count>>

MainStep == SpawnThread \/ JoinThreads
ThreadStep(i) == OpenCall(i) \/ ReadMessage(i) \/ ReadEnds(i)
WriterStep(i) ==
  BuildResult(i) \/ AddSample(i) \/ CopyList(i) \/ WriteMessage(i) \/ Return(i)

ParallelStep ==
  MainStep \/ \E i \in Threads : ThreadStep(i) \/ BreakCall(i) \/ WriterStep(i)

ParallelNext == (\E n \in Threads, size \in Sizes : StartStreams(n, size)) \/ ParallelStep

ParallelSpec == ParallelInit /\ [][ParallelNext]_parallelVars

-----------------------------------------------------------------------------
(* The rate that is printed is of messages that were read, each with the   *)
(* samples that were asked for, if no call broke: no thread is counted     *)
(* before it is done, and the C++ server's loop runs as often as the       *)
(* client says.  (When a call breaks the rate is too high and nothing says *)
(* so.)                                                                    *)
RateIsOfWhatWasRead ==
  (claimed /\ ~broke /\ server = "cpp") =>
    whole /\ \A i \in 1..used : got[i] = Iterations

(* All server implementations are compatible with the C++ client           *)
(* (src/README.md:16), which takes a reply with another number of samples  *)
(* than it asked for to be an error (src/src/client_utilities.cc:143-145). *)
MessagesAreWhole == whole

(* A handler whose call is over returns, although it ignores that its      *)
(* writes fail. *)
WritersReturn == \A i \in Threads : (link[i] # "open") ~> (writer[i] = "returned")
=============================================================================
