---------------------------- MODULE StreamTest2 ----------------------------
(***************************************************************************)
(* The client's two-call stream latency test, PerformLatencyStreamTest2    *)
(* (src/src/performance_tests.cc:1116-1188), run again and again against   *)
(* the writer table of SlotRelay.                                          *)
(*                                                                         *)
(* For each stream the test opens a StreamLatencyTestServer call, sleeps,  *)
(* and opens a StreamLatencyTestClient call that names the same slot.  A   *)
(* round writes one message on every stream and then reads one reply from  *)
(* every stream.  The test reports its latencies when all timed rounds are *)
(* over; when a timed read fails it discards them.  Its calls are          *)
(* cancelled when it deletes them, and when the client process is killed.  *)
(*                                                                         *)
(* Nothing but the sleeps orders a client's step after the server steps it *)
(* relies on.  Settled = TRUE says that they are long enough; with FALSE   *)
(* the two sides run at any relative speed.                                *)
(***************************************************************************)
EXTENDS SlotRelay

CONSTANTS
  StreamCount,  \* streams of a test
  RGens, WGens, \* calls of each kind that may exist at a time for a stream
  WarmUp,       \* rounds whose reads are ignored (100 in the code)
  Timed,        \* rounds that are timed (LatencyTestIterations)
  Settled,      \* the sleeps are long enough
  EarlyKill     \* the client may be killed between its first write and the
                \* end of its first round

Streams == 1..StreamCount

(* The calls of a stream: one per generation, all for the stream's slot. *)
RCalls == RGens \X Streams
WCalls == WGens \X Streams
StreamOf(c) == c[2]
OwnSlot(calls) == [c \in calls |-> {StreamOf(c)}]
ROwnSlot == OwnSlot(RCalls)
WOwnSlot == OwnSlot(WCalls)

ASSUME SizesAssumption ==
  /\ StreamCount \in Nat \ {0} /\ WarmUp \in Nat /\ Timed \in Nat \ {0}
  /\ Settled \in BOOLEAN /\ EarlyKill \in BOOLEAN
  /\ RGens # {} /\ WGens # {}
ASSUME RelayAssumption ==
  /\ Slots = Streams /\ Servers = RCalls /\ Clients = WCalls
  /\ ServerSlots = ROwnSlot /\ ClientSlots = WOwnSlot /\ Garbage = Slots

VARIABLES
  pc,         \* where the test is
  idx,        \* the stream its loop is at
  round,      \* rounds finished
  ok,         \* the timed round's reads have all succeeded so far
  outcome,    \* how the last test ended
  rcall,      \* the stream's StreamLatencyTestServer call (rstream)
  wcall,      \* the stream's StreamLatencyTestClient call (wstream)
  rlink,      \* the client's side of each StreamLatencyTestServer call
  wlink,      \* the client's side of each StreamLatencyTestClient call
  wire,       \* messages sent on a wstream and not yet read
  replies,    \* replies on an rstream and not yet read
  delivered,  \* the handler's Write has sent its reply and not returned
  got         \* replies the test has read from the stream

client == <<pc, idx, round, ok, outcome, rcall, wcall, got>>
net == <<rlink, wlink, wire, replies, delivered>>
allVars == <<vars, client, net>>

(* A call the client has asked for is "asked" until its handler starts and *)
(* then "open"; one cancelled before its handler starts is "late", and one *)
(* whose handler has yet to see the end of the stream is "ended".          *)
Links == {"none", "asked", "open", "late", "ended"}

TestTypeOK ==
  /\ TypeOK
  /\ pc \in {"idle", "opened", "opening", "write", "read", "finish"}
  /\ idx \in Streams
  /\ round \in 0..(WarmUp + Timed)
  /\ ok \in BOOLEAN
  /\ outcome \in {"none", "reported", "discarded", "killed"}
  /\ rcall \in [Streams -> RCalls] /\ wcall \in [Streams -> WCalls]
  /\ rlink \in [RCalls -> Links] /\ wlink \in [WCalls -> Links]
  /\ wire \in [WCalls -> Nat] /\ replies \in [RCalls -> Nat]
  /\ delivered \in [WCalls -> BOOLEAN]
  /\ got \in [Streams -> 0..(WarmUp + Timed)]

TestInit ==
  /\ Init
  /\ pc = "idle" /\ idx = 1 /\ round = 0 /\ ok = TRUE /\ outcome = "none"
  /\ rcall = [x \in Streams |-> CHOOSE s \in RCalls : StreamOf(s) = x]
  /\ wcall = [x \in Streams |-> CHOOSE c \in WCalls : StreamOf(c) = x]
  /\ rlink = [s \in RCalls |-> "none"] /\ wlink = [c \in WCalls |-> "none"]
  /\ wire = [c \in WCalls |-> 0] /\ replies = [s \in RCalls |-> 0]
  /\ delivered = [c \in WCalls |-> FALSE]
  /\ got = [x \in Streams |-> 0]

-----------------------------------------------------------------------------
(* The test.  A new call takes an address no running handler uses. *)

FreeReader(s) == rlink[s] = "none" /\ ~Running(s)
FreeWriter(c) == wlink[c] = "none" /\ cpc[c] = "closed"

(* The previous test's handlers are done with the table, except those that *)
(* poll for a slot nobody will clear. *)
Quiet == (\A s \in RCalls : rlink[s] = "none") /\ (\A c \in WCalls : FreeWriter(c))

StartTest ==
  /\ pc = "idle"
  /\ Settled => Quiet
  /\ pc' = "opening" /\ idx' = 1 /\ round' = 0 /\ ok' = TRUE /\ outcome' = "none"
  /\ got' = [x \in Streams |-> 0]
  /\ UNCHANGED <<vars, net, rcall, wcall>>

OpenReader ==
  /\ pc = "opening"
  /\ \E s \in RCalls :
       /\ StreamOf(s) = idx /\ FreeReader(s)
       /\ rcall' = [rcall EXCEPT ![idx] = s]
       /\ rlink' = [rlink EXCEPT ![s] = "asked"]
  /\ pc' = "opened"
  /\ UNCHANGED <<vars, idx, round, ok, outcome, wcall, got, wlink, wire, replies, delivered>>

(* Mutant of OpenWriter: no sleep before the second call. *)
OpenWriterAtOnce ==
  /\ pc = "opened"
  /\ \E c \in WCalls :
       /\ StreamOf(c) = idx /\ FreeWriter(c)
       /\ wcall' = [wcall EXCEPT ![idx] = c]
       /\ wlink' = [wlink EXCEPT ![c] = "asked"]
  /\ IF idx = StreamCount THEN pc' = "write" /\ idx' = 1
                          ELSE pc' = "opening" /\ idx' = idx + 1
  /\ UNCHANGED <<vars, round, ok, outcome, rcall, got, rlink, wire, replies, delivered>>

(* The second call of the stream, after the sleep of one second; the sleep *)
(* before the first message changes nothing once every slot is filled.     *)
OpenWriter ==
  /\ pc = "opened"
  /\ Settled => rlink[rcall[idx]] = "open"
  /\ \E c \in WCalls :
       /\ StreamOf(c) = idx /\ FreeWriter(c)
       /\ wcall' = [wcall EXCEPT ![idx] = c]
       /\ wlink' = [wlink EXCEPT ![c] = "asked"]
  /\ IF idx = StreamCount THEN pc' = "write" /\ idx' = 1
                          ELSE pc' = "opening" /\ idx' = idx + 1
  /\ UNCHANGED <<vars, round, ok, outcome, rcall, got, rlink, wire, replies, delivered>>

(* Mutant of Advance: the index is not set back. *)
AdvanceOnly(phase) ==
  IF idx = StreamCount THEN pc' = phase /\ idx' = idx + 1 ELSE pc' = pc /\ idx' = idx + 1

(* The loop over the streams is at its next stream, or at the next phase. *)
Advance(phase) ==
  IF idx = StreamCount THEN pc' = phase /\ idx' = 1 ELSE pc' = pc /\ idx' = idx + 1

WriteMessage ==
  /\ pc = "write"
  /\ LET c == wcall[idx] IN
       wire' = IF wlink[c] \in {"asked", "open"} THEN [wire EXCEPT ![c] = @ + 1] ELSE wire
  /\ Advance("read")
  /\ UNCHANGED <<vars, round, ok, outcome, rcall, wcall, got, rlink, wlink, replies, delivered>>

(* Mutant of AfterRead: the results of the reads are ignored. *)
AfterReadIgnored(success) ==
  LET last == idx = StreamCount
  IN  /\ ok' = ok
      /\ round' = IF last THEN round + 1 ELSE round
      /\ Advance(IF last /\ round + 1 = WarmUp + Timed THEN "finish" ELSE "write")

(* One read of a round, and what follows the round's last one: the next    *)
(* round, or the end of the test after a failed timed round or the last.   *)
AfterRead(success) ==
  LET good == (ok /\ success) \/ round < WarmUp
      last == idx = StreamCount
      over == last /\ (~good \/ round + 1 = WarmUp + Timed)
  IN  /\ ok' = good
      /\ round' = IF last /\ good THEN round + 1 ELSE round
      /\ Advance(IF over THEN "finish" ELSE "write")

ReadReply ==
  /\ pc = "read"
  /\ LET s == rcall[idx] IN
       \/ /\ replies[s] > 0
          /\ replies' = [replies EXCEPT ![s] = @ - 1]
          /\ got' = [got EXCEPT ![idx] = @ + 1]
          /\ AfterRead(TRUE)
       \/ /\ replies[s] = 0 /\ rlink[s] = "open" /\ ~Running(s)
          /\ UNCHANGED <<replies, got>>
          /\ AfterRead(FALSE)
  /\ UNCHANGED <<vars, outcome, rcall, wcall, rlink, wlink, wire, delivered>>

(* The calls go away: the server may yet start a handler for one it was    *)
(* asked for, and nobody reads the replies.                                *)
HangUp ==
  /\ rlink' = [s \in RCalls |-> CASE rlink[s] = "asked" -> "late"
                                 [] rlink[s] = "open"  -> "none"
                                 [] OTHER -> rlink[s]]
  /\ wlink' = [c \in WCalls |-> CASE wlink[c] = "asked" -> "late"
                                 [] wlink[c] = "open"  -> "ended"
                                 [] OTHER -> wlink[c]]
  /\ replies' = [s \in RCalls |-> 0]
  /\ pc' = "idle"
  /\ UNCHANGED <<vars, idx, round, ok, rcall, wcall, got, wire, delivered>>

FinishTest ==
  /\ pc = "finish"
  /\ outcome' = IF ok THEN "reported" ELSE "discarded"
  /\ HangUp

KillClient ==
  /\ pc # "idle"
  /\ EarlyKill \/ round > 0 \/ pc \in {"opening", "opened"}
  /\ outcome' = "killed"
  /\ HangUp

-----------------------------------------------------------------------------
(* The server, at the other end of the calls *)

ServerHandlerStarts(s) ==
  /\ rlink[s] \in {"asked", "late"}
  /\ RegisterWriter(s, StreamOf(s))
  /\ rlink' = [rlink EXCEPT ![s] = IF @ = "asked" THEN "open" ELSE "none"]
  /\ UNCHANGED <<client, wlink, wire, replies, delivered>>

ClientHandlerStarts(c) ==
  /\ wlink[c] \in {"asked", "late"}
  /\ OpenClientStream(c)
  /\ wlink' = [wlink EXCEPT ![c] = IF @ = "asked" THEN "open" ELSE "ended"]
  /\ UNCHANGED <<client, rlink, wire, replies, delivered>>

(* A call cancelled before its handler starts may never reach it. *)
DropServerCall(s) ==
  /\ rlink[s] = "late"
  /\ rlink' = [rlink EXCEPT ![s] = "none"]
  /\ UNCHANGED <<vars, client, wlink, wire, replies, delivered>>

DropClientCall(c) ==
  /\ wlink[c] = "late"
  /\ wlink' = [wlink EXCEPT ![c] = "none"]
  /\ wire' = [wire EXCEPT ![c] = 0]
  /\ UNCHANGED <<vars, client, rlink, replies, delivered>>

ServerReads(c) ==
  /\ wire[c] > 0
  /\ ReadMessage(c, StreamOf(c))
  /\ wire' = [wire EXCEPT ![c] = @ - 1]
  /\ UNCHANGED <<client, rlink, wlink, replies, delivered>>

StreamEnds(c) ==
  /\ wlink[c] = "ended"
  /\ ReadFails(c)
  /\ wlink' = [wlink EXCEPT ![c] = "none"]
  /\ wire' = [wire EXCEPT ![c] = 0]
  /\ UNCHANGED <<client, rlink, replies, delivered>>

(* The reply reaches the reader before Write returns to the handler. *)
CanReply(c) == cptr[c] # NoWriter /\ Running(cptr[c]) /\ rlink[cptr[c]] = "open"

SendReply(c) ==
  /\ cpc[c] = "writing" /\ ~delivered[c]
  /\ CanReply(c)
  /\ replies' = [replies EXCEPT ![cptr[c]] = @ + 1]
  /\ delivered' = [delivered EXCEPT ![c] = TRUE]
  /\ UNCHANGED <<vars, client, rlink, wlink, wire>>

(* Mutant of HandlerWriteReturns: it may return before the reply is sent. *)
HandlerWriteReturnsEarly(c) ==
  /\ WriteReturns(c)
  /\ delivered' = [delivered EXCEPT ![c] = FALSE]
  /\ UNCHANGED <<client, rlink, wlink, wire, replies>>

HandlerWriteReturns(c) ==
  /\ delivered[c] \/ ~CanReply(c)
  /\ WriteReturns(c)
  /\ delivered' = [delivered EXCEPT ![c] = FALSE]
  /\ UNCHANGED <<client, rlink, wlink, wire, replies>>

(* The server process dies under every call. *)
ServerFault(c) ==
  /\ Fault(c)
  /\ rlink' = [s \in RCalls |-> CASE rlink[s] = "asked" -> "open"
                                 [] rlink[s] = "late"  -> "none"
                                 [] OTHER -> rlink[s]]
  /\ wlink' = [d \in WCalls |-> "none"]
  /\ wire' = [d \in WCalls |-> 0]
  /\ delivered' = [d \in WCalls |-> FALSE]
  /\ UNCHANGED <<client, replies>>

TestStep ==
  StartTest \/ OpenReader \/ OpenWriter \/ WriteMessage \/ ReadReply \/ FinishTest

(* The thread that runs a StreamLatencyTestServer call. *)
PollThread(s) ==
  \/ ServerHandlerStarts(s)
  \/ DropServerCall(s)
  \/ PollReturns(s) /\ UNCHANGED <<client, net>>

(* The thread that runs a StreamLatencyTestClient call. *)
RelayThread(c) ==
  \/ ClientHandlerStarts(c)
  \/ DropClientCall(c)
  \/ ServerReads(c)
  \/ (CheckWriter(c) \/ LoadWriter(c) \/ ClearSlot(c)) /\ UNCHANGED <<client, net>>
  \/ SendReply(c)
  \/ HandlerWriteReturns(c)
  \/ StreamEnds(c)

TestNext ==
  \/ TestStep
  \/ KillClient
  \/ \E s \in RCalls : PollThread(s)
  \/ \E c \in WCalls : RelayThread(c) \/ ServerFault(c)

(* The test's thread runs, and so does every handler's thread: a Write of  *)
(* a one-integer reply is not held up by a reader that reads every round.  *)
TestSpec ==
  /\ TestInit /\ [][TestNext]_allVars
  /\ WF_allVars(TestStep)
  /\ \A s \in RCalls : WF_allVars(PollThread(s))
  /\ \A c \in WCalls : WF_allVars(RelayThread(c))

-----------------------------------------------------------------------------
(* Although two calls of the same stream overlap when one test follows     *)
(* another, a handler only calls Write on the writer of a handler that     *)
(* still polls its slot, and never while another one writes to it.         *)
HarnessNeverFaults ==
  \A c \in WCalls :
    cpc[c] = "writing" =>
      /\ cptr[c] # NoWriter
      /\ serving[cptr[c]] = cslot[c]
      /\ \A d \in WCalls \ {c} : cpc[d] = "writing" => cptr[d] # cptr[c]

(* What the null test before Write is there for. *)
WriteOnlyToAWriter == \A c \in WCalls : cpc[c] = "writing" => cptr[c] # NoWriter

(* Messages the running test has written on a stream. *)
Sent(x) ==
  IF pc = "finish" THEN round
  ELSE IF pc = "read" \/ (pc = "write" /\ x < idx) THEN round + 1 ELSE round

(* A message or its reply is in one place: on the wire, in the handler, on *)
(* its way back or read.  None is lost and none is answered twice, so that *)
(* a reply always belongs to the round that reads it.                      *)
InHandler(c) == IF cpc[c] \in {"checking", "loading", "writing"} /\ ~delivered[c] THEN 1 ELSE 0
EveryMessageIsAnswered ==
  pc \in {"write", "read", "finish"} =>
    \A x \in Streams :
      LET c == wcall[x] IN
      Sent(x) = got[x] + replies[rcall[x]] + wire[c] + InHandler(c)

(* Latencies are reported only when every stream answered every round. *)
ReportIsComplete ==
  outcome = "reported" => \A x \in Streams : got[x] = WarmUp + Timed

(* A test ends: no round waits for a reply that will not come. *)
TestEnds == (pc # "idle") ~> (pc = "idle")

(* Once a client stream's handler has read a message, the polling handler  *)
(* of its stream returns, after a report, a failure or a kill.  (Before    *)
(* its first message a handler does not know its slot: when the client is  *)
(* killed it zeroes any slot, and its own handler polls on.)               *)
ServerHandlerIsReleased ==
  \A s \in RCalls :
    (Running(s) /\ \E c \in WCalls : StreamOf(c) = StreamOf(s) /\ cpc[c] = "checking")
      ~> ~Running(s)
=============================================================================
