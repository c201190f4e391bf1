--------------------------- MODULE StreamTest2Proofs ---------------------------
(***************************************************************************)
(* Theorems about the two-call stream latency test for any number of       *)
(* streams, calls and rounds, with their proofs.  The server half of every *)
(* step is a step of SlotRelay, so its invariant holds here as well.       *)
(***************************************************************************)
EXTENDS StreamTest2, SlotRelayProofs

(* What the proofs use of a call's stream. *)
LEMMA StreamTypes ==
  /\ \A c \in RCalls : StreamOf(c) \in Streams
  /\ \A c \in WCalls : StreamOf(c) \in Streams
  /\ \A x \in Streams : \E c \in RCalls : StreamOf(c) = x
  /\ \A x \in Streams : \E c \in WCalls : StreamOf(c) = x
<1>1. /\ \A c \in RCalls : StreamOf(c) \in Streams
      /\ \A c \in WCalls : StreamOf(c) \in Streams
  BY DEF RCalls, WCalls, StreamOf
<1>2. PICK g \in RGens, h \in WGens : TRUE
  BY SizesAssumption
<1>3. ASSUME NEW x \in Streams
      PROVE  <<g, x>> \in RCalls /\ <<h, x>> \in WCalls /\ <<g, x>>[2] = x /\ <<h, x>>[2] = x
  BY <1>2 DEF RCalls, WCalls
<1> QED
  BY <1>1, <1>3 DEF StreamOf

(* Numbers of streams are compared, and the loops step through them. *)
LEMMA StreamNumbers ==
  /\ \A x \in Streams : x \in Nat /\ 1 <= x /\ x <= StreamCount
  /\ \A x \in Streams : x # StreamCount => x + 1 \in Streams
  /\ 1 \in Streams /\ StreamCount \in Streams
  /\ \A x, y \in Streams :
       /\ x < y \/ x = y \/ (y < x /\ y # StreamCount)
       /\ x <= y <=> x < y \/ x = y
  BY SizesAssumption DEF Streams

-----------------------------------------------------------------------------
(* Every step of the test, of a handler or of the network is a step of the *)
(* table's specification or leaves the table and the handlers alone.       *)
LEMMA TestStepIsRelayStep == [TestNext]_allVars => [Next]_vars
<1> SUFFICES ASSUME [TestNext]_allVars PROVE [Next]_vars
  OBVIOUS
<1>1. CASE TestStep \/ KillClient \/ UNCHANGED allVars
  BY <1>1 DEF TestStep, StartTest, OpenReader, OpenWriter, WriteMessage, ReadReply,
     FinishTest, KillClient, HangUp, allVars
<1>2. ASSUME NEW s \in RCalls, PollThread(s) PROVE [Next]_vars
  <2>1. s \in Servers /\ StreamOf(s) \in Slots
    BY RelayAssumption, StreamTypes
  <2> QED
    BY <1>2, <2>1 DEF PollThread, ServerHandlerStarts, DropServerCall, Next, ServerStep
<1>3. ASSUME NEW c \in WCalls, RelayThread(c) PROVE [Next]_vars
  <2>1. c \in Clients /\ StreamOf(c) \in Slots
    BY RelayAssumption, StreamTypes
  <2> QED
    BY <1>3, <2>1 DEF RelayThread, ClientHandlerStarts, DropClientCall, ServerReads, SendReply,
       HandlerWriteReturns, StreamEnds, Next, ClientStep
<1>4. ASSUME NEW c \in WCalls, ServerFault(c) PROVE [Next]_vars
  BY <1>4, RelayAssumption DEF ServerFault, Next, ClientStep
<1> QED
  BY <1>1, <1>2, <1>3, <1>4 DEF TestNext

LEMMA RelayInvariance == TestSpec => []IInv
<1>1. TestInit => IInv
  BY InitEstablishesIInv DEF TestInit
<1>2. IInv /\ [TestNext]_allVars => IInv'
  BY TestStepIsRelayStep, IInvStep
<1> QED
  BY <1>1, <1>2, PTL DEF TestSpec

(* The reads of the running test that the loop over the streams has done. *)
ReadsDone(x) == IF pc = "read" /\ x < idx THEN round + 1 ELSE round

(* A stream whose handler has returned answers no more. *)
Silent(s) == rlink[s] = "open" /\ ~Running(s) /\ replies[s] = 0

TestTypes ==
  /\ TypeOK
  /\ pc \in {"idle", "opened", "opening", "write", "read", "finish"}
  /\ idx \in Streams /\ round \in 0..(WarmUp + Timed)
  /\ ok \in BOOLEAN /\ outcome \in {"none", "reported", "discarded", "killed"}
  /\ rcall \in [Streams -> RCalls] /\ wcall \in [Streams -> WCalls]
  /\ rlink \in [RCalls -> Links] /\ wlink \in [WCalls -> Links]
  /\ wire \in [WCalls -> Nat] /\ replies \in [RCalls -> Nat]
  /\ delivered \in [WCalls -> BOOLEAN]
  /\ got \in [Streams -> Nat]

(* Where the loops are. *)
RoundsInOrder ==
  /\ pc # "idle" => outcome = "none"
  /\ pc \in {"opening", "opened"} => round = 0 /\ \A x \in Streams : got[x] = 0
  /\ pc \in {"write", "read"} => round < WarmUp + Timed
  /\ pc \in {"opening", "opened", "write"} => ok = TRUE
  /\ round < WarmUp => ok = TRUE
  /\ pc = "finish" /\ ok = TRUE => round = WarmUp + Timed
  /\ pc = "finish" /\ ok = FALSE => round < WarmUp + Timed

(* While no timed read has failed, each read took a reply; and a warm-up   *)
(* read that did not is of a stream that answers no more, so that a timed  *)
(* read of it will fail. *)
ReadsTookReplies ==
  pc # "idle" /\ ok = TRUE =>
    \A x \in Streams :
      got[x] = ReadsDone(x) \/ (Silent(rcall[x]) /\ ReadsDone(x) <= WarmUp)

GotBounded ==
  \A x \in Streams :
   /\ got[x] <= WarmUp + Timed
   /\ pc # "idle" => got[x] <= ReadsDone(x) + (IF pc = "finish" /\ ok = FALSE THEN 1 ELSE 0)

Shape == TestTypes /\ RoundsInOrder
ReportInv == Shape /\ ReadsTookReplies /\ GotBounded /\ ReportIsComplete
-----------------------------------------------------------------------------
(* One lemma for each step: what it does to the test's own variables. *)
LEMMA AdvanceMoves ==
  ASSUME NEW phase, idx \in Streams, Advance(phase)
  PROVE  /\ idx' \in Streams /\ pc' \in {pc, phase}
         /\ idx = StreamCount => pc' = phase /\ idx' = 1
         /\ idx # StreamCount => pc' = pc /\ idx' = idx + 1
BY StreamNumbers DEF Advance

(* What a read does to the rounds. *)
LEMMA AfterReadMoves ==
  ASSUME TestTypes, RoundsInOrder, pc = "read", NEW success \in BOOLEAN, AfterRead(success)
  PROVE  /\ idx' \in Streams /\ ok' \in BOOLEAN
         /\ ok' = TRUE <=> (ok = TRUE /\ success = TRUE) \/ round < WarmUp
         /\ idx # StreamCount => pc' = "read" /\ idx' = idx + 1 /\ round' = round
         /\ idx = StreamCount /\ ok' = FALSE => pc' = "finish" /\ round' = round
         /\ idx = StreamCount /\ ok' = TRUE =>
              /\ round' = round + 1 /\ idx' = 1
              /\ pc' = IF round + 1 = WarmUp + Timed THEN "finish" ELSE "write"
<1> DEFINE good == (ok /\ success) \/ round < WarmUp
           last == idx = StreamCount
           over == last /\ (~good \/ round + 1 = WarmUp + Timed)
<1>1. /\ ok' = good
      /\ round' = IF last /\ good THEN round + 1 ELSE round
      /\ Advance(IF over THEN "finish" ELSE "write")
  BY DEF AfterRead
<1>2. ok' \in BOOLEAN /\ (ok' = TRUE <=> (ok = TRUE /\ success = TRUE) \/ round < WarmUp)
  BY <1>1 DEF TestTypes
<1>3. /\ idx' \in Streams
      /\ last => pc' = (IF over THEN "finish" ELSE "write") /\ idx' = 1
      /\ ~last => pc' = "read" /\ idx' = idx + 1
  BY <1>1, AdvanceMoves DEF TestTypes
<1>4. ok' = TRUE <=> good
  BY <1>1
<1> HIDE DEF good
<1> QED
  BY <1>1, <1>2, <1>3, <1>4

(* The links after a hang-up and after the death of the server. *)
LEMMA HangUpMoves ==
  ASSUME TestTypes, HangUp
  PROVE  /\ rlink' \in [RCalls -> Links] /\ wlink' \in [WCalls -> Links]
         /\ \A s \in RCalls :
              /\ rlink[s] = "asked" => rlink'[s] = "late"
              /\ rlink[s] = "open" => rlink'[s] = "none"
              /\ rlink[s] \notin {"asked", "open"} => rlink'[s] = rlink[s]
         /\ \A c \in WCalls :
              /\ wlink[c] = "asked" => wlink'[c] = "late"
              /\ wlink[c] = "open" => wlink'[c] = "ended"
              /\ wlink[c] \notin {"asked", "open"} => wlink'[c] = wlink[c]
<1>1. ASSUME NEW s \in RCalls
      PROVE  /\ rlink[s] = "asked" => rlink'[s] = "late"
             /\ rlink[s] = "open" => rlink'[s] = "none"
             /\ rlink[s] \notin {"asked", "open"} => rlink'[s] = rlink[s]
  BY DEF HangUp
<1>2. ASSUME NEW c \in WCalls
      PROVE  /\ wlink[c] = "asked" => wlink'[c] = "late"
             /\ wlink[c] = "open" => wlink'[c] = "ended"
             /\ wlink[c] \notin {"asked", "open"} => wlink'[c] = wlink[c]
  BY DEF HangUp
<1>3. rlink' = [s \in RCalls |-> rlink'[s]] /\ wlink' = [c \in WCalls |-> wlink'[c]]
  BY DEF HangUp
<1>4. (\A s \in RCalls : rlink[s] \in Links) /\ (\A c \in WCalls : wlink[c] \in Links)
  BY DEF TestTypes
<1>5. (\A s \in RCalls : rlink'[s] \in Links) /\ (\A c \in WCalls : wlink'[c] \in Links)
  BY <1>1, <1>2, <1>4 DEF Links
<1> QED
  BY <1>1, <1>2, <1>3, <1>5

LEMMA FaultMoves ==
  ASSUME TestTypes, NEW c \in WCalls, ServerFault(c)
  PROVE  /\ rlink' \in [RCalls -> Links] /\ wlink' \in [WCalls -> Links]
         /\ \A s \in RCalls : rlink[s] = "open" => rlink'[s] = "open"
<1>1. ASSUME NEW s \in RCalls
      PROVE  /\ rlink[s] = "asked" => rlink'[s] = "open"
             /\ rlink[s] = "late" => rlink'[s] = "none"
             /\ rlink[s] \notin {"asked", "late"} => rlink'[s] = rlink[s]
  BY DEF ServerFault
<1>2. rlink' = [s \in RCalls |-> rlink'[s]] /\ wlink' = [d \in WCalls |-> "none"]
  BY DEF ServerFault
<1>3. \A s \in RCalls : rlink[s] \in Links
  BY DEF TestTypes
<1>4. \A s \in RCalls : rlink'[s] \in Links
  BY <1>1, <1>3 DEF Links
<1> QED
  BY <1>1, <1>2, <1>4 DEF Links

-----------------------------------------------------------------------------
(* The types and the order of the rounds. *)
LEMMA TestStepKeepsShape ==
  ASSUME Shape, TypeOK', TestStep \/ KillClient
  PROVE  Shape'
<1> USE DEF Shape
<1>n. WarmUp \in Nat /\ Timed \in Nat \ {0} /\ round \in Nat /\ 0 \in 0..(WarmUp + Timed)
  BY SizesAssumption DEF TestTypes
<1>1. CASE StartTest
  BY <1>1, <1>n, StreamNumbers DEF StartTest, TestTypes, RoundsInOrder, net
<1>2. CASE OpenReader
  BY <1>2, <1>n DEF OpenReader, TestTypes, RoundsInOrder, Links
<1>3. CASE OpenWriter
  <2>1. idx' \in Streams /\ pc' \in {"write", "opening"}
    BY <1>3, StreamNumbers DEF OpenWriter, TestTypes
  <2> QED
    BY <1>3, <1>n, <2>1 DEF OpenWriter, TestTypes, RoundsInOrder, Links
<1>4. CASE WriteMessage
  <2>1. idx' \in Streams /\ pc' \in {"write", "read"} /\ pc = "write"
    BY <1>4, AdvanceMoves DEF WriteMessage, TestTypes
  <2>2. wire' \in [WCalls -> Nat]
    BY <1>4 DEF WriteMessage, TestTypes
  <2> QED
    BY <1>4, <1>n, <2>1, <2>2 DEF WriteMessage, TestTypes, RoundsInOrder
<1>5. CASE ReadReply
  <2>1. PICK success \in BOOLEAN :
          /\ pc = "read" /\ AfterRead(success)
          /\ UNCHANGED <<vars, outcome, rcall, wcall, rlink, wlink, wire, delivered>>
          /\ replies' \in [RCalls -> Nat] /\ got' \in [Streams -> Nat]
    <3> DEFINE s == rcall[idx]
    <3>1. s \in RCalls /\ replies[s] \in Nat /\ got[idx] \in Nat
      BY DEF TestTypes
    <3>2. ASSUME replies[s] > 0, replies' = [replies EXCEPT ![s] = @ - 1],
                 got' = [got EXCEPT ![idx] = @ + 1]
          PROVE  replies' \in [RCalls -> Nat] /\ got' \in [Streams -> Nat]
      <4>1. replies[s] - 1 \in Nat /\ got[idx] + 1 \in Nat
        BY <3>1, <3>2
      <4> QED
        BY <3>2, <4>1 DEF TestTypes
    <3>3. replies \in [RCalls -> Nat] /\ got \in [Streams -> Nat]
      BY DEF TestTypes
    <3> QED
      BY <1>5, <3>2, <3>3 DEF ReadReply
  <2>2. /\ idx' \in Streams /\ ok' \in BOOLEAN
        /\ ok' = TRUE <=> (ok = TRUE /\ success = TRUE) \/ round < WarmUp
        /\ idx # StreamCount => pc' = "read" /\ idx' = idx + 1 /\ round' = round
        /\ idx = StreamCount /\ ok' = FALSE => pc' = "finish" /\ round' = round
        /\ idx = StreamCount /\ ok' = TRUE =>
             /\ round' = round + 1 /\ idx' = 1
             /\ pc' = IF round + 1 = WarmUp + Timed THEN "finish" ELSE "write"
    BY <2>1, AfterReadMoves
  <2>3. round < WarmUp + Timed
    BY <2>1 DEF RoundsInOrder
  <2>4. TestTypes'
    BY <2>1, <2>2, <2>3, <1>n DEF TestTypes
  <2>5. RoundsInOrder'
    BY <2>1, <2>2, <2>3, <1>n DEF RoundsInOrder
  <2> QED
    BY <2>4, <2>5
<1>6. CASE FinishTest \/ KillClient
  <2>1. HangUp /\ outcome' \in {"reported", "discarded", "killed"}
    BY <1>6 DEF FinishTest, KillClient
  <2>2. /\ rlink' \in [RCalls -> Links] /\ wlink' \in [WCalls -> Links]
    BY <2>1, HangUpMoves
  <2> QED
    BY <2>1, <2>2, <1>n DEF HangUp, TestTypes, RoundsInOrder
<1> QED
  BY <1>1, <1>2, <1>3, <1>4, <1>5, <1>6 DEF TestStep

LEMMA ServerStepKeepsShape ==
  ASSUME Shape, TypeOK',
         \/ \E s \in RCalls : PollThread(s)
         \/ \E c \in WCalls : RelayThread(c) \/ ServerFault(c)
  PROVE  Shape'
<1> USE DEF Shape
<1>1. ASSUME NEW s \in RCalls, PollThread(s) PROVE Shape'
  BY <1>1 DEF PollThread, ServerHandlerStarts, DropServerCall, client, net, TestTypes,
     RoundsInOrder, Links
<1>2. ASSUME NEW c \in WCalls, RelayThread(c) PROVE Shape'
  <2>1. UNCHANGED client
    BY <1>2 DEF RelayThread, ClientHandlerStarts, DropClientCall, ServerReads, SendReply,
       HandlerWriteReturns, StreamEnds
  <2>2. RoundsInOrder'
    BY <2>1 DEF RoundsInOrder, client
  <2>3. CASE ClientHandlerStarts(c) \/ DropClientCall(c) \/ StreamEnds(c)
    BY <2>1, <2>2, <2>3 DEF ClientHandlerStarts, DropClientCall, StreamEnds, client,
       TestTypes, Links
  <2>4. CASE ServerReads(c)
    BY <2>1, <2>2, <2>4 DEF ServerReads, client, TestTypes
  <2>5. CASE SendReply(c)
    <3>1. cptr[c] \in RCalls
      BY <2>5, RelayAssumption DEF SendReply, CanReply, TestTypes, TypeOK
    <3> QED
      BY <2>1, <2>2, <2>5, <3>1 DEF SendReply, client, TestTypes
  <2>6. CASE HandlerWriteReturns(c)
    BY <2>1, <2>2, <2>6 DEF HandlerWriteReturns, client, TestTypes
  <2>7. CASE UNCHANGED <<client, net>>
    BY <2>2, <2>7 DEF client, net, TestTypes
  <2> QED
    BY <1>2, <2>3, <2>4, <2>5, <2>6, <2>7 DEF RelayThread
<1>3. ASSUME NEW c \in WCalls, ServerFault(c) PROVE Shape'
  <2>1. rlink' \in [RCalls -> Links] /\ wlink' \in [WCalls -> Links]
    BY <1>3, FaultMoves
  <2> QED
    BY <1>3, <2>1 DEF ServerFault, client, TestTypes, RoundsInOrder
<1> QED
  BY <1>1, <1>2, <1>3

LEMMA ShapeStep == Shape /\ [TestNext]_allVars => Shape'
<1> SUFFICES ASSUME Shape, [TestNext]_allVars PROVE Shape'
  OBVIOUS
<1>1. TypeOK'
  BY TestStepIsRelayStep, TypeStep DEF Shape, TestTypes
<1>2. CASE UNCHANGED allVars
  BY <1>1, <1>2 DEF allVars, client, net, Shape, TestTypes, RoundsInOrder
<1> QED
  BY <1>1, <1>2, TestStepKeepsShape, ServerStepKeepsShape DEF TestNext

LEMMA ShapeInit == TestInit => Shape
<1> SUFFICES ASSUME TestInit PROVE Shape
  OBVIOUS
<1>1. TypeOK
  BY InitEstablishesIInv DEF TestInit, IInv
<1>2. rcall \in [Streams -> RCalls] /\ wcall \in [Streams -> WCalls]
  BY StreamTypes DEF TestInit
<1>3. 0 \in 0..(WarmUp + Timed)
  BY SizesAssumption
<1>4. TestTypes
  BY <1>1, <1>2, <1>3, StreamNumbers DEF TestInit, TestTypes, Links
<1>5. RoundsInOrder
  BY DEF TestInit, RoundsInOrder
<1> QED
  BY <1>4, <1>5 DEF Shape

-----------------------------------------------------------------------------
(* A step of the server leaves a silent stream silent. *)
LEMMA ServerKeepsSilence ==
  ASSUME Shape,
         \/ \E s \in RCalls : PollThread(s)
         \/ \E c \in WCalls : RelayThread(c) \/ ServerFault(c),
         NEW r \in RCalls, Silent(r)
  PROVE  Silent(r)'
<1> USE DEF Shape, TestTypes, TypeOK, Silent, Running
<1>r. r \in Servers
  BY RelayAssumption
<1>1. ASSUME NEW s \in RCalls, PollThread(s) PROVE Silent(r)'
  BY <1>1, <1>r, RelayAssumption DEF PollThread, ServerHandlerStarts, DropServerCall, PollReturns, RegisterWriter,
     vars, net
<1>2. ASSUME NEW c \in WCalls, RelayThread(c) PROVE Silent(r)'
  <2>1. UNCHANGED <<rlink, serving>>
    BY <1>2 DEF RelayThread, ClientHandlerStarts, DropClientCall, ServerReads, SendReply,
       HandlerWriteReturns, StreamEnds, OpenClientStream, ReadMessage, CheckWriter, LoadWriter,
       WriteReturns, ReadFails, ClearSlot, vars, net
  <2>2. replies'[r] = replies[r]
    <3>1. CASE SendReply(c)
      BY <3>1 DEF SendReply, CanReply
    <3> QED
      BY <1>2, <3>1 DEF RelayThread, ClientHandlerStarts, DropClientCall, ServerReads,
         HandlerWriteReturns, StreamEnds, net
  <2> QED
    BY <2>1, <2>2
<1>3. ASSUME NEW c \in WCalls, ServerFault(c) PROVE Silent(r)'
  BY <1>3, <1>r, FaultMoves DEF ServerFault, Fault
<1> QED
  BY <1>1, <1>2, <1>3

LEMMA ServerLeavesTest ==
  ASSUME \/ \E s \in RCalls : PollThread(s)
         \/ \E c \in WCalls : RelayThread(c) \/ ServerFault(c)
  PROVE  UNCHANGED client
BY DEF PollThread, ServerHandlerStarts, DropServerCall, RelayThread, ClientHandlerStarts,
   DropClientCall, ServerReads, SendReply, HandlerWriteReturns, StreamEnds, ServerFault

(* A read either takes a reply or finds the stream silent. *)
LEMMA ReadKeepsReport == ASSUME ReportInv, ReadReply PROVE ReportInv'
<1> USE DEF ReportInv
<1> DEFINE r == rcall[idx]
<1>n. /\ WarmUp \in Nat /\ Timed \in Nat \ {0} /\ round \in Nat
      /\ \A x \in Streams : got[x] \in Nat /\ x \in Nat
      /\ idx \in Streams /\ r \in RCalls /\ replies \in [RCalls -> Nat]
      /\ got \in [Streams -> Nat]
  BY SizesAssumption, StreamNumbers DEF Shape, TestTypes
<1>p. /\ pc = "read" /\ round < WarmUp + Timed /\ outcome = "none"
      /\ UNCHANGED <<serving, outcome, rcall, rlink>>
  BY DEF ReadReply, Shape, RoundsInOrder, vars
<1>s. Shape'
  <2>1. TypeOK'
    BY DEF ReadReply, Shape, TestTypes, TypeOK, vars
  <2> QED
    BY <2>1, TestStepKeepsShape DEF TestStep
<1>1. PICK success \in BOOLEAN :
        /\ AfterRead(success)
        /\ success = TRUE =>
             /\ replies[r] > 0 /\ replies' = [replies EXCEPT ![r] = @ - 1]
             /\ got' = [got EXCEPT ![idx] = @ + 1]
        /\ success = FALSE => Silent(r) /\ got' = got /\ replies' = replies
  BY DEF ReadReply, Silent
<1>2. /\ ok' \in BOOLEAN
      /\ ok' = TRUE <=> (ok = TRUE /\ success = TRUE) \/ round < WarmUp
      /\ idx # StreamCount => pc' = "read" /\ idx' = idx + 1 /\ round' = round
      /\ idx = StreamCount /\ ok' = FALSE => pc' = "finish" /\ round' = round
      /\ idx = StreamCount /\ ok' = TRUE =>
           /\ round' = round + 1 /\ idx' = 1
           /\ pc' = IF round + 1 = WarmUp + Timed THEN "finish" ELSE "write"
  BY <1>1, <1>p, AfterReadMoves DEF Shape
<1>3. ASSUME NEW x \in Streams
      PROVE  /\ ok' = TRUE => ReadsDone(x)' = IF x = idx THEN ReadsDone(x) + 1 ELSE ReadsDone(x)
             /\ ok' = FALSE /\ pc' = "read" =>
                  ReadsDone(x)' = IF x = idx THEN ReadsDone(x) + 1 ELSE ReadsDone(x)
             /\ ok' = FALSE /\ pc' = "finish" => ReadsDone(x)' = round
             /\ ReadsDone(x) <= round + 1
             /\ ReadsDone(x) \in Nat /\ ReadsDone(idx) = round
  <2>1. x < idx \/ x = idx \/ (idx < x /\ idx # StreamCount)
    BY <1>n, StreamNumbers
  <2>2. idx # StreamCount => ReadsDone(x)' = IF x < idx + 1 THEN round + 1 ELSE round
    BY <1>2, <1>n DEF ReadsDone
  <2>3. idx = StreamCount /\ ok' = TRUE => ReadsDone(x)' = round + 1
    BY <1>2 DEF ReadsDone
  <2>4. idx = StreamCount /\ ok' = FALSE => ReadsDone(x)' = round
    BY <1>2 DEF ReadsDone
  <2>5. /\ ReadsDone(x) = IF x < idx THEN round + 1 ELSE round
        /\ ReadsDone(idx) = round
    BY <1>p, <1>n DEF ReadsDone
  <2> QED
    BY <1>2, <1>n, <2>1, <2>2, <2>3, <2>4, <2>5
<1>4. ok' = TRUE => ok = TRUE
  BY <1>2 DEF Shape, RoundsInOrder
<1>5. ASSUME NEW s \in RCalls, Silent(s) PROVE Silent(s)'
  BY <1>n, <1>p, <1>1, <1>5 DEF Silent, Running
<1>6. ReadsTookReplies'
  <2> SUFFICES ASSUME ok' = TRUE, NEW x \in Streams
               PROVE  got'[x] = ReadsDone(x)' \/ (Silent(rcall[x])' /\ ReadsDone(x)' <= WarmUp)
    BY <1>p DEF ReadsTookReplies
  <2>1. got[x] = ReadsDone(x) \/ (Silent(rcall[x]) /\ ReadsDone(x) <= WarmUp)
    BY <1>4, <1>p DEF ReadsTookReplies
  <2>r. rcall[x] \in RCalls /\ rcall' = rcall
    BY <1>p DEF Shape, TestTypes
  <2>2. CASE x # idx
    BY <2>1, <2>2, <2>r, <1>1, <1>3, <1>5, <1>n
  <2>3. CASE x = idx /\ success = TRUE
    <3>1. got[x] = ReadsDone(x)
      BY <2>1, <2>3, <1>1, <1>n DEF Silent
    <3>2. got'[x] = got[x] + 1
      BY <2>3, <1>1, <1>n
    <3> QED
      BY <3>1, <3>2, <2>3, <1>3
  <2>4. CASE x = idx /\ success = FALSE
    <3>1. round < WarmUp /\ Silent(r)
      BY <2>4, <1>1, <1>2
    <3> QED
      BY <3>1, <2>4, <2>r, <1>3, <1>5, <1>n
  <2> QED
    BY <2>2, <2>3, <2>4
<1>7. GotBounded'
  <2> SUFFICES ASSUME NEW x \in Streams
               PROVE  /\ got'[x] <= WarmUp + Timed
                      /\ got'[x] <= ReadsDone(x)' + (IF pc' = "finish" /\ ok' = FALSE THEN 1 ELSE 0)
    BY <1>p DEF GotBounded
  <2>0. /\ got[x] \in Nat /\ ReadsDone(x) \in Nat
        /\ x = idx => ReadsDone(x) = round
        /\ WarmUp \in Nat /\ Timed \in Nat /\ round \in Nat /\ round < WarmUp + Timed
    BY <1>n, <1>3, <1>p
  <2>1. got[x] <= ReadsDone(x) /\ got[x] <= WarmUp + Timed
    BY <1>p, <1>n DEF GotBounded, ReadsDone
  <2>2. got'[x] = got[x] \/ (x = idx /\ got'[x] = got[x] + 1)
    BY <1>1, <1>n
  <2>3. got'[x] <= WarmUp + Timed
    BY ONLY <2>0, <2>1, <2>2
  <2>4. ok' = TRUE \/ pc' = "read" \/ (ok' = FALSE /\ pc' = "finish")
    BY <1>2
  <2>5. CASE ok' = TRUE \/ pc' = "read"
    <3>1. ReadsDone(x)' = IF x = idx THEN ReadsDone(x) + 1 ELSE ReadsDone(x)
      BY <2>5, <1>2, <1>3
    <3>2. got'[x] <= ReadsDone(x)'
      BY ONLY <3>1, <2>0, <2>1, <2>2
    <3> QED
      BY <2>0, <2>2, <2>3, <3>1, <3>2
  <2>6. CASE ok' = FALSE /\ pc' = "finish"
    <3>1. ReadsDone(x)' = round /\ ReadsDone(x) <= round + 1
      BY <2>6, <1>3
    <3>2. got'[x] <= round + 1
      BY ONLY <3>1, <2>0, <2>1, <2>2
    <3> QED
      BY <2>3, <2>6, <3>1, <3>2
  <2> QED
    BY <2>4, <2>5, <2>6
<1>8. ReportIsComplete'
  BY <1>p DEF ReportIsComplete
<1> QED
  BY <1>s, <1>6, <1>7, <1>8

LEMMA OtherStepsKeepReport ==
  ASSUME ReportInv, TypeOK',
         \/ StartTest \/ OpenReader \/ OpenWriter \/ WriteMessage \/ FinishTest \/ KillClient
  PROVE  ReportInv'
<1> USE DEF ReportInv
<1>n. /\ WarmUp \in Nat /\ Timed \in Nat \ {0} /\ round \in Nat
      /\ \A x \in Streams : got[x] \in Nat /\ x \in Nat /\ 1 <= x
  BY SizesAssumption, StreamNumbers DEF Shape, TestTypes
<1>s. Shape'
  BY TestStepKeepsShape DEF TestStep
<1>1. CASE StartTest \/ OpenReader \/ OpenWriter
  <2>1. \A x \in Streams : got'[x] = 0
    BY <1>1 DEF StartTest, OpenReader, OpenWriter, Shape, RoundsInOrder
  <2>2. round' = 0 /\ pc' \in {"opening", "opened", "write"} /\ outcome' = "none"
    BY <1>1 DEF StartTest, OpenReader, OpenWriter, Shape, RoundsInOrder
  <2>3. \A x \in Streams : ReadsDone(x)' = 0
    BY <2>2 DEF ReadsDone
  <2> QED
    BY <1>s, <1>n, <2>1, <2>2, <2>3 DEF ReadsTookReplies, GotBounded, ReportIsComplete
<1>2. CASE WriteMessage
  <2>1. /\ pc = "write" /\ ok = TRUE /\ outcome = "none"
        /\ UNCHANGED <<round, ok, outcome, rcall, got, rlink, serving, replies>>
    BY <1>2 DEF WriteMessage, Shape, RoundsInOrder, vars
  <2>2. pc' = "write" \/ (pc' = "read" /\ idx' = 1)
    BY <1>2, AdvanceMoves DEF WriteMessage, Shape, TestTypes
  <2>3. ASSUME NEW x \in Streams PROVE ReadsDone(x) = round /\ ReadsDone(x)' = round
    <3>1. ~(x < 1)
      BY <1>n
    <3> QED
      BY <2>1, <2>2, <3>1 DEF ReadsDone
  <2>4. ReadsTookReplies'
    BY <2>1, <2>3 DEF ReadsTookReplies, Silent, Running
  <2>5. GotBounded'
    BY <2>1, <2>2, <2>3 DEF GotBounded
  <2>6. ReportIsComplete'
    BY <2>1 DEF ReportIsComplete
  <2> QED
    BY <1>s, <2>4, <2>5, <2>6
<1>3. CASE FinishTest \/ KillClient
  <2>1. pc' = "idle" /\ got' = got
    BY <1>3 DEF FinishTest, KillClient, HangUp
  <2>2. outcome' = "reported" => pc = "finish" /\ ok = TRUE
    BY <1>3 DEF FinishTest, KillClient
  <2>3. ASSUME pc = "finish", ok = TRUE, NEW x \in Streams PROVE got[x] = WarmUp + Timed
    <3>1. round = WarmUp + Timed /\ ReadsDone(x) = round
      BY <2>3 DEF Shape, RoundsInOrder, ReadsDone
    <3>2. ~(ReadsDone(x) <= WarmUp)
      BY <3>1, <1>n
    <3> QED
      BY <2>3, <3>1, <3>2 DEF ReadsTookReplies
  <2>4. ReportIsComplete'
    BY <2>1, <2>2, <2>3 DEF ReportIsComplete
  <2>5. ReadsTookReplies' /\ GotBounded'
    BY <2>1 DEF ReadsTookReplies, GotBounded
  <2> QED
    BY <1>s, <2>4, <2>5
<1> QED
  BY <1>1, <1>2, <1>3

LEMMA ServerStepKeepsReport ==
  ASSUME ReportInv, TypeOK',
         \/ \E s \in RCalls : PollThread(s)
         \/ \E c \in WCalls : RelayThread(c) \/ ServerFault(c)
  PROVE  ReportInv'
<1> USE DEF ReportInv
<1>1. Shape'
  BY ServerStepKeepsShape
<1>2. UNCHANGED client
  BY ServerLeavesTest
<1>3. \A x \in Streams : ReadsDone(x)' = ReadsDone(x)
  BY <1>2 DEF client, ReadsDone
<1>4. \A s \in RCalls : Silent(s) => Silent(s)'
  BY ServerKeepsSilence
<1>5. \A x \in Streams : rcall[x] \in RCalls
  BY DEF Shape, TestTypes
<1>6. \A x \in Streams : Silent(rcall[x]) => Silent(rcall[x])'
  BY <1>2, <1>4, <1>5 DEF client
<1>7. ReadsTookReplies'
  BY <1>2, <1>3, <1>6 DEF ReadsTookReplies, client
<1>8. GotBounded' /\ ReportIsComplete'
  BY <1>2, <1>3 DEF GotBounded, ReportIsComplete, client
<1> QED
  BY <1>1, <1>7, <1>8

LEMMA ReportInvStep == ReportInv /\ [TestNext]_allVars => ReportInv'
<1> SUFFICES ASSUME ReportInv, [TestNext]_allVars PROVE ReportInv'
  OBVIOUS
<1>1. TypeOK'
  BY TestStepIsRelayStep, TypeStep DEF ReportInv, Shape, TestTypes
<1>2. CASE UNCHANGED allVars
  <2>1. Shape'
    BY <1>2, ShapeStep DEF ReportInv
  <2> QED
    BY <1>2, <2>1 DEF allVars, client, net, vars, ReportInv, ReadsTookReplies, GotBounded, ReadsDone,
       Silent, Running, ReportIsComplete
<1> QED
  BY <1>1, <1>2, ReadKeepsReport, OtherStepsKeepReport, ServerStepKeepsReport
  DEF TestNext, TestStep

LEMMA ReportInvariance == TestSpec => []ReportInv
<1>1. TestInit => ReportInv
  <2> SUFFICES ASSUME TestInit PROVE ReportInv
    OBVIOUS
  <2>1. Shape
    BY ShapeInit
  <2> QED
    BY <2>1, SizesAssumption DEF TestInit, ReportInv, ReadsTookReplies, GotBounded, ReportIsComplete
<1> QED
  BY <1>1, ReportInvStep, PTL DEF TestSpec

(* For any number of streams, calls and rounds, and whether or not the     *)
(* sleeps are long enough and the server survives: a test that reports its *)
(* latencies has read a reply of every stream in every round, the warm-up  *)
(* rounds included, whose failed reads the code ignores. *)
THEOREM TestReportIsComplete == TestSpec => []ReportIsComplete
<1>1. ReportInv => ReportIsComplete
  BY DEF ReportInv
<1> QED
  BY <1>1, ReportInvariance, PTL

(* The test, the calls and the messages under way have their types. *)
THEOREM TestTypesCorrect == TestSpec => []TestTypeOK
<1>1. ReportInv => TestTypeOK
  <2> SUFFICES ASSUME ReportInv PROVE TestTypeOK
    OBVIOUS
  <2>1. got \in [Streams -> 0..(WarmUp + Timed)]
    BY SizesAssumption DEF ReportInv, Shape, TestTypes, GotBounded
  <2> QED
    BY <2>1 DEF ReportInv, Shape, TestTypes, TestTypeOK
<1> QED
  BY <1>1, ReportInvariance, PTL

-----------------------------------------------------------------------------
Setting == Settled = TRUE /\ EarlyKill = FALSE
InTest == pc \in {"write", "read", "finish"}
Opened(x) == InTest \/ (pc \in {"opening", "opened"} /\ x < idx)

(* A stream has one StreamLatencyTestClient call at a time, in the order of its life. *)
OneWriter == \A c \in WCalls : ~FreeWriter(c) => c = wcall[StreamOf(c)]
WriterLife ==
  \A c \in WCalls :
    /\ wlink[c] \in {"asked", "late"} => cpc[c] = "closed"
    /\ wlink[c] \in {"open", "ended"} => cpc[c] \in {"reading", "checking", "loading", "writing"}
    /\ wlink[c] = "none" => cpc[c] \in {"closed", "clearing"} /\ wire[c] = 0
    /\ cpc[c] \in {"checking", "loading", "writing"} => cslot[c] = StreamOf(c)
    /\ delivered[c] = TRUE => cpc[c] = "writing"

(* A message finds a writer, and the writer stays until it is answered. *)
MessageFindsWriter ==
  \A c \in WCalls :
    /\ (wire[c] > 0 \/ cpc[c] \in {"checking", "loading", "writing"})
         => writers[StreamOf(c)] # NoWriter
    /\ cpc[c] = "writing" => cptr[c] = writers[StreamOf(c)]

(* A reading call waits for its handler only while its stream has no writing call. *)
ReaderComesFirst ==
  \A s \in RCalls : rlink[s] \in {"asked", "late"} =>
    \A c \in WCalls : StreamOf(c) = StreamOf(s) => FreeWriter(c)

(* While the streams are opened, nothing is written. *)
Opening ==
  pc \in {"opening", "opened"} =>
    /\ \A c \in WCalls : wire[c] = 0 /\ cpc[c] \in {"closed", "reading"}
    /\ \A c \in WCalls : StreamOf(c) >= idx => FreeWriter(c)
    /\ \A s \in RCalls : rlink[s] # "none" =>
         StreamOf(s) < idx \/ (StreamOf(s) = idx /\ pc = "opened")
    /\ \A s \in RCalls : replies[s] = 0

(* The calls of the streams already opened, and of a test that is running. *)
Standing ==
  /\ \A x \in Streams : Opened(x) =>
       /\ rlink[rcall[x]] = "open" /\ writers[x] = rcall[x]
       /\ wlink[wcall[x]] \in {"asked", "open"}
  /\ \A x \in Streams : StreamOf(rcall[x]) = x /\ StreamOf(wcall[x]) = x
  /\ pc = "opened" => /\ rlink[rcall[idx]] \in {"asked", "open"}
                      /\ rlink[rcall[idx]] = "open" => writers[idx] = rcall[idx]
  /\ pc # "idle" =>
       /\ \A s \in RCalls :
            /\ rlink[s] \in {"none", "asked", "open"}
            /\ rlink[s] # "none" => s = rcall[StreamOf(s)]
       /\ \A c \in WCalls : wlink[c] \in {"none", "asked", "open"} /\ cpc[c] # "clearing"

(* After the test: nothing is under way, or each stream that is still used is on its slot. *)
Silence == \A c \in WCalls : wire[c] = 0 /\ cpc[c] \in {"closed", "reading", "clearing"}
Owned == \A c \in WCalls : wlink[c] # "late" /\ (cpc[c] # "closed" => cslot[c] = StreamOf(c))
Leaving ==
  pc = "idle" =>
    /\ \A s \in RCalls : rlink[s] \in {"none", "late"}
    /\ \A c \in WCalls : wlink[c] \in {"none", "late", "ended"}
    /\ Silence \/ Owned

(* The messages of a stream: what was sent is read, replied, under way or in the handler. *)
Answered ==
  /\ \A s \in RCalls : rlink[s] # "open" => replies[s] = 0
  /\ InTest =>
    /\ ok = TRUE
    /\ pc = "finish" => round > 0
    /\ \A x \in Streams :
         /\ got[x] = ReadsDone(x)
         /\ got[x] + replies[rcall[x]] > 0 => wlink[wcall[x]] = "open" /\ cslot[wcall[x]] = x
         /\ Sent(x) = got[x] + replies[rcall[x]] + wire[wcall[x]] + InHandler(wcall[x])

HarnessInv ==
  /\ OneWriter /\ WriterLife /\ MessageFindsWriter /\ ReaderComesFirst
  /\ Opening /\ Standing /\ Leaving /\ Answered

Full == Setting /\ Shape /\ RegisteredIsLive /\ HarnessInv

-----------------------------------------------------------------------------
(* What the steps below use of the types. *)
LEMMA Typed ==
  ASSUME Shape
  PROVE  /\ Slots = Streams /\ Servers = RCalls /\ Clients = WCalls
         /\ \A c \in WCalls :
              /\ StreamOf(c) \in Streams /\ cslot[c] \in Streams /\ cpc[c] \in ClientStates
              /\ wire[c] \in Nat /\ wlink[c] \in Links /\ delivered[c] \in BOOLEAN
         /\ \A s \in RCalls :
              StreamOf(s) \in Streams /\ replies[s] \in Nat /\ rlink[s] \in Links
         /\ \A x \in Streams :
              /\ x \in Nat /\ rcall[x] \in RCalls /\ wcall[x] \in WCalls
              /\ writers[x] \in RCalls \cup {NoWriter} /\ got[x] \in Nat
         /\ round \in Nat /\ idx \in Streams /\ NoWriter \notin RCalls /\ NoSlot \notin Streams
  BY RelayAssumption, StreamTypes, StreamNumbers, ServersAssumption, SlotsAssumption, SizesAssumption
  DEF Shape, TestTypes, TypeOK

(* A stream that is opened has a handler that runs. *)
LEMMA OpenedRuns ==
  ASSUME Full, NEW x \in Streams, Opened(x)
  PROVE  Running(rcall[x]) /\ serving[rcall[x]] = x /\ rcall[x] # NoWriter
  BY Typed DEF Full, HarnessInv, Standing, RegisteredIsLive, Running

LEMMA StartTestKeeps == ASSUME Full, StartTest PROVE HarnessInv'
<1> USE DEF Full, HarnessInv
<1>1. Quiet
  BY DEF StartTest, Setting
<1>2. /\ \A s \in RCalls : rlink[s] = "none"
      /\ \A c \in WCalls : wlink[c] = "none" /\ cpc[c] = "closed" /\ wire[c] = 0
  BY <1>1 DEF Quiet, FreeWriter, WriterLife
<1>3. /\ pc' = "opening" /\ idx' = 1 /\ round' = 0
      /\ UNCHANGED <<writers, serving, cpc, cslot, cptr, rcall, wcall, rlink, wlink, wire,
                     replies, delivered>>
  BY DEF StartTest, vars, net
<1>4. OneWriter' /\ WriterLife' /\ MessageFindsWriter' /\ ReaderComesFirst'
  BY <1>3 DEF OneWriter, WriterLife, MessageFindsWriter, ReaderComesFirst, FreeWriter
<1>5. Opening'
  BY <1>2, <1>3 DEF Opening, FreeWriter, Answered
<1>6. Standing'
  <2>1. \A x \in Streams : ~Opened(x)'
    BY <1>3, StreamNumbers DEF Opened, InTest
  <2> QED
    BY <1>2, <1>3, <2>1 DEF Standing
<1>7. Leaving' /\ Answered'
  BY <1>3 DEF Leaving, Answered, InTest
<1> QED
  BY <1>4, <1>5, <1>6, <1>7

LEMMA OpenReaderKeeps == ASSUME Full, OpenReader PROVE HarnessInv'
<1> USE DEF Full, HarnessInv
<1>1. PICK s \in RCalls :
        /\ StreamOf(s) = idx /\ FreeReader(s)
        /\ rcall' = [rcall EXCEPT ![idx] = s]
        /\ rlink' = [rlink EXCEPT ![s] = "asked"]
  BY DEF OpenReader
<1>2. /\ pc = "opening" /\ pc' = "opened" /\ rlink[s] = "none"
      /\ UNCHANGED <<writers, serving, cpc, cslot, cptr, idx, round, wcall, wlink, wire,
                     replies, delivered>>
  BY <1>1 DEF OpenReader, vars, FreeReader
<1>3. /\ \A t \in RCalls : rlink'[t] = IF t = s THEN "asked" ELSE rlink[t]
      /\ \A x \in Streams : rcall'[x] = IF x = idx THEN s ELSE rcall[x]
  BY <1>1 DEF Shape, TestTypes
<1>4. OneWriter' /\ WriterLife' /\ MessageFindsWriter'
  BY <1>2 DEF OneWriter, WriterLife, MessageFindsWriter, FreeWriter
<1>5. ReaderComesFirst'
  <2>1. \A c \in WCalls : StreamOf(c) = idx => FreeWriter(c)
    BY <1>2, Typed DEF Opening
  <2> QED
    BY <1>1, <1>2, <1>3, <2>1 DEF ReaderComesFirst, FreeWriter
<1>6. Opening'
  BY <1>1, <1>2, <1>3 DEF Opening, FreeWriter
<1>7. Standing'
  <2>1. ASSUME NEW x \in Streams, Opened(x)'
        PROVE  /\ rlink'[rcall'[x]] = "open" /\ writers'[x] = rcall'[x]
               /\ wlink'[wcall'[x]] \in {"asked", "open"}
    <3>1. x # idx /\ Opened(x)
      BY <2>1, <1>2, Typed DEF Opened, InTest
    <3> QED
      BY <3>1, <1>2, <1>3, Typed DEF Standing
  <2>2. \A x \in Streams : StreamOf(rcall'[x]) = x /\ StreamOf(wcall'[x]) = x
    BY <1>1, <1>2, <1>3 DEF Standing
  <2>3. rlink'[rcall'[idx]] = "asked"
    BY <1>3, Typed
  <2>4. ASSUME NEW t \in RCalls
        PROVE  /\ rlink'[t] \in {"none", "asked", "open"}
               /\ rlink'[t] # "none" => t = rcall'[StreamOf(t)]
    <3>1. rlink[t] # "none" => StreamOf(t) # idx
      BY <1>2, Typed DEF Opening
    <3> QED
      BY <3>1, <1>1, <1>2, <1>3, Typed DEF Standing
  <2> QED
    BY <1>2, <2>1, <2>2, <2>3, <2>4 DEF Standing
<1>8. Leaving' /\ Answered'
  BY <1>2, <1>3 DEF Leaving, Answered, InTest
<1> QED
  BY <1>4, <1>5, <1>6, <1>7, <1>8

LEMMA OpenWriterKeeps == ASSUME Full, OpenWriter PROVE HarnessInv'
<1> USE DEF Full, HarnessInv
<1>1. PICK c \in WCalls :
        /\ StreamOf(c) = idx /\ FreeWriter(c)
        /\ wcall' = [wcall EXCEPT ![idx] = c]
        /\ wlink' = [wlink EXCEPT ![c] = "asked"]
  BY DEF OpenWriter
<1>2. /\ pc = "opened" /\ rlink[rcall[idx]] = "open"
      /\ UNCHANGED <<writers, serving, cpc, cslot, cptr, round, ok, got, rcall, rlink, wire,
                     replies, delivered>>
  BY DEF OpenWriter, vars, Setting
<1>3. /\ \A d \in WCalls : wlink'[d] = IF d = c THEN "asked" ELSE wlink[d]
      /\ \A x \in Streams : wcall'[x] = IF x = idx THEN c ELSE wcall[x]
  BY <1>1 DEF Shape, TestTypes
<1>4. \/ idx = StreamCount /\ pc' = "write" /\ idx' = 1
      \/ idx # StreamCount /\ pc' = "opening" /\ idx' = idx + 1
  BY DEF OpenWriter
<1>5. ASSUME NEW x \in Streams PROVE Opened(x)' <=> x <= idx
  BY <1>4, Typed, StreamNumbers DEF Opened, InTest
<1>6. OneWriter'
  <2> SUFFICES ASSUME NEW d \in WCalls, ~FreeWriter(d)' PROVE d = wcall'[StreamOf(d)]
    BY DEF OneWriter
  <2>1. CASE d = c
    BY <2>1, <1>1, <1>3, Typed
  <2>2. CASE d # c
    <3>1. ~FreeWriter(d)
      BY <2>2, <1>2, <1>3 DEF FreeWriter
    <3>2. StreamOf(d) # idx
      BY <3>1, <1>2, Typed DEF Opening
    <3> QED
      BY <3>1, <3>2, <1>3, Typed DEF OneWriter
  <2> QED
    BY <2>1, <2>2
<1>7. WriterLife' /\ MessageFindsWriter'
  BY <1>1, <1>2, <1>3 DEF WriterLife, MessageFindsWriter, FreeWriter
<1>8. ReaderComesFirst'
  <2> SUFFICES ASSUME NEW t \in RCalls, rlink[t] \in {"asked", "late"},
                      NEW d \in WCalls, StreamOf(d) = StreamOf(t)
               PROVE  FreeWriter(d)'
    BY <1>2 DEF ReaderComesFirst
  <2>1. StreamOf(t) # idx
    BY <1>2 DEF Standing
  <2> QED
    BY <2>1, <1>1, <1>2, <1>3 DEF ReaderComesFirst, FreeWriter
<1>9. Opening'
  <2> SUFFICES ASSUME pc' = "opening", idx' = idx + 1 PROVE Opening'
    BY <1>4 DEF Opening
  <2>1. \A d \in WCalls : StreamOf(d) >= idx + 1 => FreeWriter(d)'
    BY <1>1, <1>2, <1>3, Typed DEF Opening, FreeWriter
  <2>2. \A s \in RCalls : rlink[s] # "none" => StreamOf(s) < idx + 1
    BY <1>2, Typed DEF Opening
  <2> QED
    BY <1>2, <2>1, <2>2 DEF Opening
<1>10. Standing'
  <2>1. ASSUME NEW x \in Streams, Opened(x)'
        PROVE  /\ rlink'[rcall'[x]] = "open" /\ writers'[x] = rcall'[x]
               /\ wlink'[wcall'[x]] \in {"asked", "open"}
    <3>1. CASE x = idx
      BY <3>1, <1>2, <1>3, Typed DEF Standing
    <3>2. CASE x # idx
      <4>0. x <= idx
        BY <2>1, <1>5
      <4>1. Opened(x)
        BY <4>0, <3>2, <1>2, Typed, StreamNumbers DEF Opened
      <4> QED
        BY <4>1, <3>2, <1>1, <1>2, <1>3, Typed DEF Standing
    <3> QED
      BY <3>1, <3>2
  <2>2. \A x \in Streams : StreamOf(rcall'[x]) = x /\ StreamOf(wcall'[x]) = x
    BY <1>1, <1>2, <1>3 DEF Standing
  <2>3. \A s \in RCalls : /\ rlink'[s] \in {"none", "asked", "open"}
                          /\ rlink'[s] # "none" => s = rcall'[StreamOf(s)]
    BY <1>2 DEF Standing
  <2>4. \A d \in WCalls : wlink'[d] \in {"none", "asked", "open"} /\ cpc'[d] # "clearing"
    BY <1>2, <1>3 DEF Standing
  <2>5. pc' # "opened"
    BY <1>4
  <2> QED
    BY <2>1, <2>2, <2>3, <2>4, <2>5 DEF Standing
<1>11. Leaving'
  BY <1>4 DEF Leaving
<1>12. Answered'
  <2>1. \A s \in RCalls : rlink'[s] # "open" => replies'[s] = 0
    BY <1>2 DEF Answered
  <2>2. ASSUME InTest', NEW x \in Streams
        PROVE  /\ got'[x] = ReadsDone(x)' /\ got'[x] + replies'[rcall'[x]] = 0
               /\ Sent(x)' = got'[x] + replies'[rcall'[x]] + wire'[wcall'[x]] + InHandler(wcall[x])'
    <3>1. pc' = "write" /\ idx' = 1 /\ ~(x < 1)
      BY <2>2, <1>4, StreamNumbers DEF InTest
    <3>2. round' = 0 /\ got'[x] = 0
      BY <1>2 DEF Shape, RoundsInOrder
    <3>3. ReadsDone(x)' = 0 /\ Sent(x)' = 0
      BY <3>1, <3>2 DEF ReadsDone, Sent
    <3>4. replies'[rcall'[x]] = 0
      BY <1>2, Typed DEF Opening
    <3>5. wcall'[x] \in WCalls
      BY <1>3, Typed
    <3>6. wire'[wcall'[x]] = 0 /\ cpc'[wcall'[x]] \in {"closed", "reading"}
      BY <1>2, <3>5 DEF Opening
    <3>7. InHandler(wcall[x])' = 0
      BY <1>2, <3>6 DEF InHandler
    <3> QED
      BY <3>2, <3>3, <3>4, <3>6, <3>7
  <2>3. ok' = TRUE /\ pc' # "finish"
    BY <1>2, <1>4 DEF Shape, RoundsInOrder
  <2> QED
    BY <2>1, <2>2, <2>3 DEF Answered
<1> QED
  BY <1>6, <1>7, <1>8, <1>9, <1>10, <1>11, <1>12

LEMMA WriteMessageKeeps == ASSUME Full, WriteMessage PROVE HarnessInv'
<1> USE DEF Full, HarnessInv
<1> DEFINE c == wcall[idx]
<1>1. /\ pc = "write" /\ InTest
      /\ UNCHANGED <<writers, serving, cpc, cslot, cptr, round, ok, got, rcall, wcall, rlink, wlink,
                     replies, delivered>>
  BY DEF WriteMessage, vars, InTest
<1>2. /\ c \in WCalls /\ StreamOf(c) = idx /\ wlink[c] \in {"asked", "open"}
      /\ writers[idx] = rcall[idx] /\ rcall[idx] # NoWriter
  BY <1>1, Typed DEF Standing, Opened
<1>3. /\ wire' = [wire EXCEPT ![c] = @ + 1]
      /\ \A d \in WCalls : wire'[d] = IF d = c THEN wire[c] + 1 ELSE wire[d]
  BY <1>2 DEF WriteMessage, Shape, TestTypes
<1>4. \/ idx = StreamCount /\ pc' = "read" /\ idx' = 1
      \/ idx # StreamCount /\ pc' = "write" /\ idx' = idx + 1
  BY <1>1 DEF WriteMessage, Advance
<1>5. OneWriter' /\ WriterLife' /\ ReaderComesFirst'
  BY <1>1, <1>2, <1>3 DEF OneWriter, WriterLife, ReaderComesFirst, FreeWriter
<1>6. MessageFindsWriter'
  BY <1>1, <1>2, <1>3 DEF MessageFindsWriter
<1>7. Opening' /\ Leaving'
  BY <1>4 DEF Opening, Leaving
<1>8. Standing'
  <2>1. pc' \notin {"opened", "idle"} /\ \A x \in Streams : Opened(x)
    BY <1>1, <1>4 DEF Opened
  <2> QED
    BY <1>1, <2>1 DEF Standing
<1>9. Answered'
  <2>1. \A s \in RCalls : rlink'[s] # "open" => replies'[s] = 0
    BY <1>1 DEF Answered
  <2>2. ASSUME NEW x \in Streams
        PROVE  /\ got[x] = ReadsDone(x)'
               /\ Sent(x)' = got[x] + replies[rcall[x]] + wire'[wcall[x]] + InHandler(wcall[x])
    <3>0. x < idx \/ x = idx \/ (idx < x /\ idx # StreamCount)
      <4>1. idx \in Streams
        BY Typed
      <4> QED
        BY <4>1, StreamNumbers
    <3>1. Sent(x)' = IF x = idx THEN Sent(x) + 1 ELSE Sent(x)
      <4>1. Sent(x) = IF x < idx THEN round + 1 ELSE round
        BY <1>1 DEF Sent
      <4>2. Sent(x)' = IF x <= idx THEN round + 1 ELSE round
        BY <1>1, <1>4, Typed, StreamNumbers DEF Sent
      <4> QED
        BY <3>0, <4>1, <4>2, Typed
    <3>2. wire'[wcall[x]] = IF x = idx THEN wire[wcall[x]] + 1 ELSE wire[wcall[x]]
      BY <1>2, <1>3, Typed DEF Standing
    <3>3. ReadsDone(x) = round /\ ReadsDone(x)' = round
      BY <1>1, <1>4, Typed, StreamNumbers DEF ReadsDone
    <3>4. /\ got[x] = ReadsDone(x)
          /\ Sent(x) = got[x] + replies[rcall[x]] + wire[wcall[x]] + InHandler(wcall[x])
      BY <1>1 DEF Answered
    <3>5. /\ got[x] \in Nat /\ replies[rcall[x]] \in Nat /\ wire[wcall[x]] \in Nat
          /\ InHandler(wcall[x]) \in Nat /\ Sent(x) \in Nat
      <4>1. InHandler(wcall[x]) \in {0, 1}
        BY DEF InHandler
      <4> QED
        BY <4>1, <3>4, Typed
    <3> QED
      BY ONLY <3>1, <3>2, <3>3, <3>4, <3>5
  <2>3. \A x \in Streams : InHandler(wcall[x])' = InHandler(wcall[x])
    BY <1>1 DEF InHandler
  <2>4. pc' # "finish"
    BY <1>4
  <2> QED
    BY <1>1, <2>1, <2>2, <2>3, <2>4 DEF Answered
<1> QED
  BY <1>5, <1>6, <1>7, <1>8, <1>9

LEMMA ReadReplyKeeps == ASSUME Full, ReadReply PROVE HarnessInv'
<1> USE DEF Full, HarnessInv
<1> DEFINE r == rcall[idx]
<1>1. /\ pc = "read" /\ InTest /\ ok = TRUE
      /\ UNCHANGED <<writers, serving, cpc, cslot, cptr, rcall, wcall, rlink, wlink, wire, delivered>>
  BY DEF ReadReply, vars, InTest, Answered
<1>2. r \in RCalls /\ Running(r) /\ idx \in Streams
  BY <1>1, OpenedRuns, Typed DEF Opened
<1>3. /\ AfterRead(TRUE) /\ replies[r] > 0
      /\ replies' = [replies EXCEPT ![r] = @ - 1]
      /\ got' = [got EXCEPT ![idx] = @ + 1]
  BY <1>2 DEF ReadReply
<1>4. /\ ok' = TRUE
      /\ idx # StreamCount => pc' = "read" /\ idx' = idx + 1 /\ round' = round
      /\ idx = StreamCount =>
           /\ round' = round + 1 /\ idx' = 1
           /\ pc' = IF round + 1 = WarmUp + Timed THEN "finish" ELSE "write"
  <2>1. /\ ok' \in BOOLEAN
        /\ ok' = TRUE <=> (ok = TRUE /\ TRUE = TRUE) \/ round < WarmUp
        /\ idx # StreamCount => pc' = "read" /\ idx' = idx + 1 /\ round' = round
        /\ idx = StreamCount /\ ok' = FALSE => pc' = "finish" /\ round' = round
        /\ idx = StreamCount /\ ok' = TRUE =>
             /\ round' = round + 1 /\ idx' = 1
             /\ pc' = IF round + 1 = WarmUp + Timed THEN "finish" ELSE "write"
    BY <1>1, <1>3, AfterReadMoves DEF Shape
  <2> QED
    BY <1>1, <2>1
<1>5. pc' \in {"read", "write", "finish"}
  BY <1>4
<1>6. OneWriter' /\ WriterLife' /\ MessageFindsWriter' /\ ReaderComesFirst'
  BY <1>1 DEF OneWriter, WriterLife, MessageFindsWriter, ReaderComesFirst, FreeWriter
<1>7. Opening' /\ Leaving'
  BY <1>5 DEF Opening, Leaving
<1>8. Standing'
  <2>1. pc' \notin {"opened", "idle"} /\ \A x \in Streams : Opened(x)
    BY <1>1, <1>5 DEF Opened
  <2> QED
    BY <1>1, <2>1 DEF Standing
<1>9. Answered'
  <2>0. /\ \A s \in RCalls : replies'[s] = IF s = r THEN replies[r] - 1 ELSE replies[s]
        /\ \A x \in Streams : got'[x] = IF x = idx THEN got[idx] + 1 ELSE got[x]
    BY <1>3 DEF Shape, TestTypes
  <2>1. \A s \in RCalls : rlink'[s] # "open" => replies'[s] = 0
    <3>1. rlink[r] = "open"
      BY <1>1, <1>2 DEF Standing, Opened
    <3> QED
      BY <1>1, <2>0, <3>1 DEF Answered
  <2>2. ASSUME NEW x \in Streams
        PROVE  /\ got'[x] = ReadsDone(x)'
               /\ Sent(x)' = got'[x] + replies'[rcall[x]] + wire[wcall[x]] + InHandler(wcall[x])
               /\ got'[x] + replies'[rcall[x]] = got[x] + replies[rcall[x]]
    <3>0. x < idx \/ x = idx \/ (idx < x /\ idx # StreamCount)
      <4>1. idx \in Streams
        BY Typed
      <4> QED
        BY <4>1, StreamNumbers
    <3>1. Sent(x)' = Sent(x)
      <4>1. Sent(x) = round + 1
        BY <1>1 DEF Sent
      <4>2. Sent(x)' = round + 1
        BY <1>4, Typed, StreamNumbers DEF Sent
      <4> QED
        BY <4>1, <4>2
    <3>2. ReadsDone(x)' = IF x = idx THEN ReadsDone(x) + 1 ELSE ReadsDone(x)
      <4>1. ReadsDone(x) = IF x < idx THEN round + 1 ELSE round
        BY <1>1 DEF ReadsDone
      <4>2. ReadsDone(x)' = IF x <= idx THEN round + 1 ELSE round
        BY <1>4, Typed, StreamNumbers DEF ReadsDone
      <4> QED
        BY <3>0, <4>1, <4>2, Typed
    <3>3. rcall[x] = r <=> x = idx
      BY <1>2 DEF Standing
    <3>4. /\ got[x] = ReadsDone(x)
          /\ Sent(x) = got[x] + replies[rcall[x]] + wire[wcall[x]] + InHandler(wcall[x])
      BY <1>1 DEF Answered
    <3>5. /\ got[x] \in Nat /\ replies[rcall[x]] \in Nat /\ wire[wcall[x]] \in Nat
          /\ InHandler(wcall[x]) \in Nat /\ Sent(x) \in Nat
      <4>1. InHandler(wcall[x]) \in {0, 1}
        BY DEF InHandler
      <4> QED
        BY <4>1, <3>4, Typed
    <3>6. /\ replies'[rcall[x]] = IF x = idx THEN replies[rcall[x]] - 1 ELSE replies[rcall[x]]
          /\ got'[x] = IF x = idx THEN got[x] + 1 ELSE got[x]
      BY <2>0, <3>3, Typed
    <3> QED
      BY ONLY <3>1, <3>2, <3>4, <3>5, <3>6
  <2>3. \A x \in Streams : InHandler(wcall[x])' = InHandler(wcall[x])
    BY <1>1 DEF InHandler
  <2>4. pc' = "finish" => round' > 0
    BY <1>4, Typed
  <2>5. \A x \in Streams : got[x] + replies[rcall[x]] > 0 => wlink[wcall[x]] = "open" /\ cslot[wcall[x]] = x
    BY <1>1 DEF Answered
  <2> QED
    BY <1>1, <1>4, <2>1, <2>2, <2>3, <2>4, <2>5 DEF Answered
<1> QED
  BY <1>6, <1>7, <1>8, <1>9

LEMMA HangUpKeeps == ASSUME Full, FinishTest \/ KillClient PROVE HarnessInv'
<1> USE DEF Full, HarnessInv
<1>1. /\ pc # "idle" /\ pc' = "idle" /\ HangUp
      /\ \A s \in RCalls : replies'[s] = 0
      /\ UNCHANGED <<writers, serving, cpc, cslot, cptr, rcall, wcall, wire, delivered>>
  BY DEF FinishTest, KillClient, HangUp, vars
<1>2. /\ \A s \in RCalls :
              /\ rlink[s] = "asked" => rlink'[s] = "late"
              /\ rlink[s] = "open" => rlink'[s] = "none"
              /\ rlink[s] \notin {"asked", "open"} => rlink'[s] = rlink[s]
      /\ \A c \in WCalls :
              /\ wlink[c] = "asked" => wlink'[c] = "late"
              /\ wlink[c] = "open" => wlink'[c] = "ended"
              /\ wlink[c] \notin {"asked", "open"} => wlink'[c] = wlink[c]
  BY <1>1, HangUpMoves DEF Shape
<1>3. \A c \in WCalls : FreeWriter(c)' <=> FreeWriter(c)
  BY <1>1, <1>2 DEF FreeWriter
<1>4. OneWriter'
  BY <1>1, <1>3 DEF OneWriter
<1>5. WriterLife' /\ MessageFindsWriter'
  BY <1>1, <1>2 DEF WriterLife, MessageFindsWriter
<1>6. ReaderComesFirst'
  BY <1>2, <1>3 DEF ReaderComesFirst
<1>7. Opening' /\ Standing'
  BY <1>1 DEF Opening, Standing, Opened, InTest
<1>8. Leaving'
  <2>1. /\ \A s \in RCalls : rlink'[s] \in {"none", "late"}
        /\ \A c \in WCalls : wlink'[c] \in {"none", "late", "ended"}
    BY <1>1, <1>2 DEF Standing
  <2>2. CASE pc \in {"opening", "opened"}
    <3>1. Silence'
      BY <1>1, <2>2 DEF Opening, Silence
    <3> QED
      BY <2>1, <3>1 DEF Leaving
  <2>3. CASE pc \notin {"opening", "opened"}
    <3>1. InTest /\ round > 0
      BY <1>1, <2>3 DEF Shape, TestTypes, InTest, FinishTest, KillClient, Setting, Answered
    <3>2. ASSUME NEW x \in Streams PROVE wlink[wcall[x]] = "open" /\ cslot[wcall[x]] = x
      <4>1. got[x] > 0
        BY <3>1, Typed DEF Answered, ReadsDone
      <4>2. got[x] + replies[rcall[x]] > 0
        BY <4>1, Typed
      <4> QED
        BY <3>1, <4>2 DEF Answered
    <3>3. ASSUME NEW c \in WCalls
          PROVE  wlink'[c] # "late" /\ (cpc[c] # "closed" => cslot[c] = StreamOf(c))
      <4>1. StreamOf(c) \in Streams /\ wlink[c] # "late"
        BY <1>1, Typed DEF Standing
      <4>2. ~FreeWriter(c) => wlink[c] = "open" /\ cslot[c] = StreamOf(c)
        BY <3>2, <4>1 DEF OneWriter
      <4> QED
        BY <1>2, <4>1, <4>2 DEF FreeWriter
    <3>4. Owned'
      BY <1>1, <3>3 DEF Owned
    <3> QED
      BY <2>1, <3>4 DEF Leaving
  <2> QED
    BY <2>2, <2>3
<1>9. Answered'
  BY <1>1 DEF Answered, InTest
<1> QED
  BY <1>4, <1>5, <1>6, <1>7, <1>8, <1>9

-----------------------------------------------------------------------------
(* The steps of the server.  They leave the test's own variables alone. *)

LEMMA ServerHandlerStartsKeeps ==
  ASSUME Full, NEW s \in RCalls, ServerHandlerStarts(s)
  PROVE  HarnessInv'
<1> USE DEF Full, HarnessInv
<1> DEFINE x == StreamOf(s)
<1>1. /\ rlink[s] \in {"asked", "late"} /\ x \in Streams
      /\ rlink' = [rlink EXCEPT ![s] = IF @ = "asked" THEN "open" ELSE "none"]
      /\ writers' = [writers EXCEPT ![x] = s]
      /\ UNCHANGED <<client, cpc, cslot, cptr, wlink, wire, replies, delivered>>
  BY StreamTypes DEF ServerHandlerStarts, RegisterWriter
<1>2. /\ \A y \in Streams : writers'[y] = IF y = x THEN s ELSE writers[y]
      /\ \A t \in RCalls :
           rlink'[t] = IF t = s THEN (IF rlink[s] = "asked" THEN "open" ELSE "none") ELSE rlink[t]
  BY <1>1, RelayAssumption DEF Shape, TestTypes, TypeOK
<1>3. \A c \in WCalls : StreamOf(c) = x => FreeWriter(c) /\ wire[c] = 0
  BY <1>1 DEF ReaderComesFirst, FreeWriter, WriterLife
<1>4. OneWriter' /\ WriterLife'
  BY <1>1 DEF OneWriter, WriterLife, FreeWriter, client
<1>5. MessageFindsWriter'
  BY <1>1, <1>2, <1>3, Typed DEF MessageFindsWriter, FreeWriter
<1>6. ReaderComesFirst'
  BY <1>1, <1>2 DEF ReaderComesFirst, FreeWriter
<1>7. Opening'
  BY <1>1, <1>2 DEF Opening, FreeWriter, client
<1>8. Standing'
  <2>1. ASSUME NEW y \in Streams, Opened(y) PROVE y # x /\ rcall[y] # s
    <3>1. pc # "idle"
      BY <2>1 DEF Opened, InTest
    <3>2. s = rcall[x]
      BY <3>1, <1>1 DEF Standing
    <3> QED
      BY <2>1, <3>2, <1>1 DEF Standing
  <2>2. \A y \in Streams : Opened(y)' <=> Opened(y)
    BY <1>1 DEF Opened, InTest, client
  <2>3. \A y \in Streams : Opened(y)' =>
          /\ rlink'[rcall'[y]] = "open" /\ writers'[y] = rcall'[y]
          /\ wlink'[wcall'[y]] \in {"asked", "open"}
    BY <2>1, <2>2, <1>1, <1>2, Typed DEF Standing, client
  <2>4. pc = "opened" => /\ rlink'[rcall[idx]] \in {"asked", "open"}
                         /\ rlink'[rcall[idx]] = "open" => writers'[idx] = rcall[idx]
    <3> SUFFICES ASSUME pc = "opened"
                 PROVE  /\ rlink'[rcall[idx]] \in {"asked", "open"}
                        /\ rlink'[rcall[idx]] = "open" => writers'[idx] = rcall[idx]
      OBVIOUS
    <3>1. rcall[idx] \in RCalls /\ idx \in Streams
      BY Typed
    <3>2. rlink[s] = "asked" /\ s = rcall[x]
      BY <1>1 DEF Standing
    <3>3. StreamOf(rcall[idx]) = idx
      BY <3>1 DEF Standing
    <3> QED
      BY <3>1, <3>2, <3>3, <1>1, <1>2 DEF Standing
  <2>5. pc # "idle" =>
          /\ \A t \in RCalls :
               /\ rlink'[t] \in {"none", "asked", "open"}
               /\ rlink'[t] # "none" => t = rcall[StreamOf(t)]
          /\ \A c \in WCalls : wlink[c] \in {"none", "asked", "open"} /\ cpc[c] # "clearing"
    BY <1>1, <1>2 DEF Standing
  <2> QED
    BY <2>3, <2>4, <2>5, <1>1 DEF Standing, client
<1>9. Leaving'
  BY <1>1, <1>2 DEF Leaving, Silence, Owned, client
<1>10. Answered'
  <2>1. \A t \in RCalls : rlink'[t] # "open" => replies'[t] = 0
    BY <1>1, <1>2 DEF Answered
  <2>2. /\ InTest' <=> InTest
        /\ \A y \in Streams : /\ ReadsDone(y)' = ReadsDone(y) /\ Sent(y)' = Sent(y)
                              /\ InHandler(wcall[y])' = InHandler(wcall[y])
    BY <1>1 DEF InTest, ReadsDone, Sent, InHandler, client
  <2> QED
    BY <1>1, <2>1, <2>2 DEF Answered, client
<1> QED
  BY <1>4, <1>5, <1>6, <1>7, <1>8, <1>9, <1>10

LEMMA DropServerCallKeeps ==
  ASSUME Full, NEW s \in RCalls, DropServerCall(s)
  PROVE  HarnessInv'
<1> USE DEF Full, HarnessInv
<1>1. /\ rlink[s] = "late" /\ pc = "idle"
      /\ \A t \in RCalls : rlink'[t] = IF t = s THEN "none" ELSE rlink[t]
      /\ UNCHANGED <<client, writers, cpc, cslot, cptr, wlink, wire, replies, delivered>>
  BY DEF DropServerCall, vars, Standing, Shape, TestTypes
<1>2. OneWriter' /\ WriterLife' /\ MessageFindsWriter' /\ ReaderComesFirst'
  BY <1>1 DEF OneWriter, WriterLife, MessageFindsWriter, ReaderComesFirst, FreeWriter, client
<1>3. Opening' /\ Standing' /\ Leaving' /\ Answered'
  BY <1>1 DEF Opening, Standing, Opened, Leaving, Silence, Owned, Answered, InTest, client
<1> QED
  BY <1>2, <1>3

(* Nothing of the invariant looks at the handlers that poll. *)
LEMMA PollKeeps ==
  ASSUME Full,
         UNCHANGED <<client, net, writers, cpc, cslot, cptr>>
  PROVE  HarnessInv'
<1> USE DEF Full, HarnessInv, client, net
<1>1. OneWriter' /\ WriterLife' /\ MessageFindsWriter' /\ ReaderComesFirst' /\ Opening'
  BY DEF OneWriter, WriterLife, MessageFindsWriter, ReaderComesFirst, FreeWriter, Opening
<1>2. Standing'
  BY DEF Standing, Opened, InTest
<1>3. Leaving'
  BY DEF Leaving, Silence, Owned
<1>4. Answered'
  BY DEF Answered, InTest, ReadsDone, Sent, InHandler
<1> QED
  BY <1>1, <1>2, <1>3, <1>4

(* Steps of a StreamLatencyTestClient handler that leave the table, the    *)
(* StreamLatencyTestServer calls and the replies alone: what is left to show *)
(* is about the stream's own call. *)
LEMMA WriterStep ==
  ASSUME Full, NEW c \in WCalls,
         UNCHANGED <<client, writers, rlink>>,
         \A d \in WCalls \ {c} :
           /\ wlink'[d] = wlink[d] /\ cpc'[d] = cpc[d] /\ wire'[d] = wire[d]
           /\ cslot'[d] = cslot[d] /\ cptr'[d] = cptr[d] /\ delivered'[d] = delivered[d],
         ~FreeWriter(c),
         /\ wlink'[c] \in {"asked", "late"} => cpc'[c] = "closed"
         /\ wlink'[c] \in {"open", "ended"} => cpc'[c] \in {"reading", "checking", "loading", "writing"}
         /\ wlink'[c] = "none" => cpc'[c] \in {"closed", "clearing"} /\ wire'[c] = 0
         /\ cpc'[c] \in {"checking", "loading", "writing"} => cslot'[c] = StreamOf(c)
         /\ delivered'[c] = TRUE => cpc'[c] = "writing",
         /\ (wire'[c] > 0 \/ cpc'[c] \in {"checking", "loading", "writing"})
              => writers[StreamOf(c)] # NoWriter
         /\ cpc'[c] = "writing" => cptr'[c] = writers[StreamOf(c)],
         \A s \in RCalls : pc \in {"opening", "opened"} => replies'[s] = 0,
         pc \in {"opening", "opened"} => wire'[c] = 0 /\ cpc'[c] \in {"closed", "reading"},
         pc # "idle" => /\ cpc'[c] # "clearing"
                        /\ wlink'[c] = wlink[c] \/ (wlink[c] = "asked" /\ wlink'[c] = "open"),
         pc = "idle" => wlink'[c] \in {"none", "late", "ended"} /\ (Silence' \/ Owned'),
         Answered'
  PROVE  HarnessInv'
<1> USE DEF Full, HarnessInv, client
<1>1. OneWriter'
  BY DEF OneWriter, FreeWriter
<1>2. WriterLife'
  BY DEF WriterLife
<1>3. MessageFindsWriter'
  BY DEF MessageFindsWriter
<1>4. ReaderComesFirst'
  BY DEF ReaderComesFirst, FreeWriter
<1>5. Opening'
  BY DEF Opening, FreeWriter
<1>6. Standing'
  <2>1. \A x \in Streams : Opened(x)' <=> Opened(x)
    BY DEF Opened, InTest
  <2>2. ASSUME pc # "idle", NEW d \in WCalls
        PROVE  /\ wlink'[d] \in {"none", "asked", "open"} /\ cpc'[d] # "clearing"
               /\ wlink[d] \in {"asked", "open"} => wlink'[d] \in {"asked", "open"}
    BY <2>2 DEF Standing
  <2>3. \A x \in Streams : Opened(x) => pc # "idle"
    BY DEF Opened, InTest
  <2> QED
    BY <2>1, <2>2, <2>3, Typed DEF Standing
<1>7. Leaving'
  BY DEF Leaving
<1> QED
  BY <1>1, <1>2, <1>3, <1>4, <1>5, <1>6, <1>7

(* A step of such a handler that neither takes nor gives a reply keeps the *)
(* account of its stream's messages. *)
LEMMA AnsweredStep ==
  ASSUME Full, NEW c \in WCalls,
         UNCHANGED <<client, rlink, replies>>,
         \A d \in WCalls \ {c} :
           /\ wlink'[d] = wlink[d] /\ cpc'[d] = cpc[d] /\ wire'[d] = wire[d]
           /\ cslot'[d] = cslot[d] /\ delivered'[d] = delivered[d],
         InTest => /\ wire'[c] + InHandler(c)' = wire[c] + InHandler(c)
                   /\ wire'[c] \in Nat
                   /\ wlink[c] = "open" /\ cslot[c] = StreamOf(c) =>
                        wlink'[c] = "open" /\ cslot'[c] = StreamOf(c)
  PROVE  Answered'
<1> USE DEF Full, HarnessInv, client
<1>1. InTest' <=> InTest
  BY DEF InTest
<1>2. \A s \in RCalls : rlink'[s] # "open" => replies'[s] = 0
  BY DEF Answered
<1>3. ASSUME InTest, NEW x \in Streams
      PROVE  /\ got[x] + replies[rcall[x]] > 0 => wlink'[wcall[x]] = "open" /\ cslot'[wcall[x]] = x
             /\ Sent(x)' = got[x] + replies[rcall[x]] + wire'[wcall[x]] + InHandler(wcall[x])'
             /\ got[x] = ReadsDone(x)'
  <2>1. /\ Sent(x)' = Sent(x) /\ ReadsDone(x)' = ReadsDone(x)
    BY DEF Sent, ReadsDone
  <2>2. /\ Sent(x) = got[x] + replies[rcall[x]] + wire[wcall[x]] + InHandler(wcall[x])
        /\ got[x] = ReadsDone(x)
        /\ got[x] + replies[rcall[x]] > 0 => wlink[wcall[x]] = "open" /\ cslot[wcall[x]] = x
    BY <1>3 DEF Answered
  <2>3. wcall[x] \in WCalls /\ StreamOf(wcall[x]) = x
    BY Typed DEF Standing
  <2>4. CASE wcall[x] # c
    <3>1. InHandler(wcall[x])' = InHandler(wcall[x])
      BY <2>3, <2>4 DEF InHandler
    <3> QED
      BY <2>1, <2>2, <2>3, <2>4, <3>1
  <2>5. CASE wcall[x] = c
    <3>1. /\ InHandler(c) \in Nat /\ InHandler(c)' \in Nat /\ wire[c] \in Nat
          /\ got[x] \in Nat /\ replies[rcall[x]] \in Nat
      <4>1. InHandler(c) \in {0, 1} /\ InHandler(c)' \in {0, 1}
        BY DEF InHandler
      <4> QED
        BY <4>1, Typed
    <3>2. InHandler(wcall[x])' = InHandler(c)' /\ InHandler(wcall[x]) = InHandler(c)
      BY <2>5 DEF InHandler
    <3>3. Sent(x) = got[x] + replies[rcall[x]] + wire'[c] + InHandler(c)'
      BY <1>3, <2>2, <2>5, <3>1
    <3> QED
      BY <1>3, <2>1, <2>2, <2>3, <2>5, <3>2, <3>3
  <2> QED
    BY <2>4, <2>5
<1> QED
  BY <1>1, <1>2, <1>3 DEF Answered

LEMMA ClientHandlerStartsKeeps ==
  ASSUME Full, NEW c \in WCalls, ClientHandlerStarts(c)
  PROVE  HarnessInv'
<1> USE DEF Full, HarnessInv
<1>1. /\ wlink[c] \in {"asked", "late"} /\ cpc[c] = "closed"
      /\ cpc' = [cpc EXCEPT ![c] = "reading"]
      /\ wlink' = [wlink EXCEPT ![c] = IF @ = "asked" THEN "open" ELSE "ended"]
      /\ UNCHANGED <<client, writers, cptr, rlink, wire, replies, delivered>>
  BY DEF ClientHandlerStarts, OpenClientStream, Goto
<1>2. PICK g \in Streams : cslot' = [cslot EXCEPT ![c] = g]
  BY RelayAssumption DEF ClientHandlerStarts, OpenClientStream
<1>3. /\ cpc'[c] = "reading" /\ wlink'[c] = (IF wlink[c] = "asked" THEN "open" ELSE "ended")
      /\ \A d \in WCalls \ {c} : cpc'[d] = cpc[d] /\ wlink'[d] = wlink[d] /\ cslot'[d] = cslot[d]
      /\ delivered[c] # TRUE /\ wire[c] \in Nat
  BY <1>1, <1>2, Typed DEF Shape, TestTypes, TypeOK, WriterLife
<1>4. Answered'
  <2>1. InHandler(c) = 0 /\ InHandler(c)' = 0
    BY <1>1, <1>3 DEF InHandler
  <2> QED
    BY <1>1, <1>3, <2>1, AnsweredStep
<1>5. pc = "idle" => Silence' \/ Owned'
  BY <1>1, <1>3 DEF Leaving, Silence, Owned
<1>6. pc # "idle" => wlink[c] = "asked"
  BY <1>1 DEF Standing
<1>7. pc = "idle" => wlink[c] = "late"
  BY <1>1 DEF Leaving
<1>8. /\ pc \in {"opening", "opened"} => wire[c] = 0 /\ \A s \in RCalls : replies[s] = 0
      /\ wire[c] > 0 => writers[StreamOf(c)] # NoWriter
  BY DEF Opening, MessageFindsWriter
<1>9. /\ \A d \in WCalls \ {c} :
           /\ wlink'[d] = wlink[d] /\ cpc'[d] = cpc[d] /\ wire'[d] = wire[d]
           /\ cslot'[d] = cslot[d] /\ cptr'[d] = cptr[d] /\ delivered'[d] = delivered[d]
      /\ ~FreeWriter(c) /\ wlink'[c] \in {"open", "ended"} /\ delivered'[c] # TRUE
      /\ wire'[c] = wire[c]
  BY <1>1, <1>3 DEF FreeWriter
<1> QED
  BY <1>1, <1>3, <1>4, <1>5, <1>6, <1>7, <1>8, <1>9, WriterStep

LEMMA DropClientCallKeeps ==
  ASSUME Full, NEW c \in WCalls, DropClientCall(c)
  PROVE  HarnessInv'
<1> USE DEF Full, HarnessInv
<1>1. /\ wlink[c] = "late" /\ pc = "idle" /\ cpc[c] = "closed"
      /\ \A d \in WCalls : wlink'[d] = IF d = c THEN "none" ELSE wlink[d]
      /\ \A d \in WCalls : wire'[d] = IF d = c THEN 0 ELSE wire[d]
      /\ UNCHANGED <<client, writers, cpc, cslot, cptr, rlink, replies, delivered>>
  BY DEF DropClientCall, vars, Standing, WriterLife, Shape, TestTypes
<1>2. OneWriter' /\ WriterLife' /\ MessageFindsWriter' /\ ReaderComesFirst'
  BY <1>1 DEF OneWriter, WriterLife, MessageFindsWriter, ReaderComesFirst, FreeWriter, client
<1>3. Opening' /\ Standing' /\ Leaving' /\ Answered'
  BY <1>1 DEF Opening, Standing, Opened, Leaving, Silence, Owned, Answered, InTest, client
<1> QED
  BY <1>2, <1>3

LEMMA ServerReadsKeeps ==
  ASSUME Full, NEW c \in WCalls, ServerReads(c)
  PROVE  HarnessInv'
<1> USE DEF Full, HarnessInv
<1> DEFINE x == StreamOf(c)
<1>1. /\ wire[c] > 0 /\ cpc[c] = "reading" /\ x \in Streams
      /\ cpc' = [cpc EXCEPT ![c] = "checking"]
      /\ cslot' = [cslot EXCEPT ![c] = x]
      /\ wire' = [wire EXCEPT ![c] = @ - 1]
      /\ UNCHANGED <<client, writers, cptr, rlink, wlink, replies, delivered>>
  BY StreamTypes DEF ServerReads, ReadMessage, Goto
<1>2. /\ cpc'[c] = "checking" /\ cslot'[c] = x /\ wire'[c] = wire[c] - 1
      /\ \A d \in WCalls \ {c} : cpc'[d] = cpc[d] /\ wire'[d] = wire[d] /\ cslot'[d] = cslot[d]
      /\ delivered[c] # TRUE /\ wire[c] \in Nat /\ wire'[c] \in Nat
  <2>1. /\ cpc \in [WCalls -> ClientStates] /\ cslot \in [WCalls -> Slots]
        /\ wire \in [WCalls -> Nat]
    BY RelayAssumption DEF Shape, TestTypes, TypeOK
  <2>2. delivered[c] # TRUE
    BY <1>1 DEF WriterLife
  <2>3. wire[c] \in Nat /\ wire[c] - 1 \in Nat
    BY <1>1, <2>1
  <2> QED
    BY <1>1, <2>1, <2>2, <2>3
<1>3. /\ wlink[c] \in {"open", "ended"} /\ writers[x] # NoWriter
      /\ pc \notin {"opening", "opened"}
  BY <1>1, Typed DEF WriterLife, Links, MessageFindsWriter, Opening
<1>4. Answered'
  <2>1. InHandler(c) = 0 /\ InHandler(c)' = 1
    BY <1>1, <1>2 DEF InHandler
  <2> QED
    BY <1>1, <1>2, <2>1, AnsweredStep
<1>5. pc = "idle" => Silence' \/ Owned'
  BY <1>1, <1>2 DEF Leaving, Silence, Owned
<1>6. pc = "idle" => wlink[c] = "ended"
  BY <1>3 DEF Leaving
<1> QED
  BY <1>1, <1>2, <1>3, <1>4, <1>5, <1>6, WriterStep DEF FreeWriter

LEMMA LookKeeps ==
  ASSUME Full, NEW c \in WCalls, CheckWriter(c) \/ LoadWriter(c), UNCHANGED <<client, net>>
  PROVE  HarnessInv'
<1> USE DEF Full, HarnessInv
<1> DEFINE x == StreamOf(c)
<1>1. /\ cpc[c] \in {"checking", "loading"} /\ cslot[c] = x /\ writers[x] # NoWriter
      /\ UNCHANGED <<client, writers, cslot, rlink, wlink, wire, replies, delivered>>
  BY DEF CheckWriter, LoadWriter, Goto, WriterLife, MessageFindsWriter, net
<1>2. /\ cpc'[c] \in {"loading", "writing"}
      /\ cpc'[c] = "writing" => cptr'[c] = writers[x]
      /\ \A d \in WCalls \ {c} : cpc'[d] = cpc[d] /\ cptr'[d] = cptr[d]
  <2>1. cpc \in [WCalls -> ClientStates] /\ cptr \in [WCalls -> Servers \cup {NoWriter}]
    BY RelayAssumption DEF Shape, TestTypes, TypeOK
  <2> QED
    BY <1>1, <2>1 DEF CheckWriter, LoadWriter, Goto
<1>3. /\ wlink[c] \in {"open", "ended"} /\ pc \notin {"opening", "opened"}
      /\ delivered[c] # TRUE /\ wire[c] \in Nat
  BY <1>1, Typed DEF WriterLife, Links, Opening
<1>4. Answered'
  <2>1. InHandler(c) = 1 /\ InHandler(c)' = 1
    BY <1>1, <1>2, <1>3 DEF InHandler
  <2> QED
    BY <1>1, <1>2, <1>3, <2>1, AnsweredStep
<1>5. pc = "idle" => Silence' \/ Owned'
  BY <1>1, <1>2 DEF Leaving, Silence, Owned
<1>6. pc = "idle" => wlink[c] = "ended"
  BY <1>3 DEF Leaving
<1> QED
  BY <1>1, <1>2, <1>3, <1>4, <1>5, <1>6, WriterStep DEF FreeWriter

LEMMA ClearSlotKeeps ==
  ASSUME Full, NEW c \in WCalls, ClearSlot(c), UNCHANGED <<client, net>>
  PROVE  HarnessInv'
<1> USE DEF Full, HarnessInv
<1> DEFINE x == StreamOf(c)
<1>1. /\ cpc[c] = "clearing" /\ cslot[c] \in Streams
      /\ cpc' = [cpc EXCEPT ![c] = "closed"]
      /\ writers' = [writers EXCEPT ![cslot[c]] = NoWriter]
      /\ cslot' = [cslot EXCEPT ![c] = Unset]
      /\ UNCHANGED <<client, cptr, rlink, wlink, wire, replies, delivered>>
  BY Typed DEF ClearSlot, Goto, net
<1>2. /\ cpc'[c] = "closed"
      /\ \A d \in WCalls \ {c} : cpc'[d] = cpc[d] /\ cslot'[d] = cslot[d]
      /\ \A y \in Streams : writers'[y] = IF y = cslot[c] THEN NoWriter ELSE writers[y]
  BY <1>1, RelayAssumption DEF Shape, TestTypes, TypeOK
<1>3. pc = "idle" /\ wlink[c] = "none" /\ wire[c] = 0
  BY <1>1, Typed DEF Standing, WriterLife, Links
<1>4. OneWriter' /\ WriterLife' /\ ReaderComesFirst'
  BY <1>1, <1>2, <1>3 DEF OneWriter, WriterLife, ReaderComesFirst, FreeWriter, client
<1>5. MessageFindsWriter'
  <2>1. CASE Silence
    BY <2>1, <1>1, <1>2 DEF Silence, MessageFindsWriter
  <2>2. CASE Owned
    <3>1. cslot[c] = x
      BY <2>2, <1>1 DEF Owned
    <3>2. ASSUME NEW d \in WCalls,
                 wire[d] > 0 \/ cpc'[d] \in {"checking", "loading", "writing"}
          PROVE  StreamOf(d) # x /\ d # c
      <4>1. d # c
        BY <3>2, <1>2, <1>3
      <4>2. ~FreeWriter(d) /\ ~FreeWriter(c)
        BY <3>2, <4>1, <1>1, <1>2 DEF FreeWriter, WriterLife
      <4> QED
        BY <4>1, <4>2 DEF OneWriter
    <3> QED
      BY <3>1, <3>2, <1>1, <1>2, Typed DEF MessageFindsWriter
  <2> QED
    BY <2>1, <2>2, <1>3 DEF Leaving
<1>6. Opening' /\ Standing'
  BY <1>1, <1>3 DEF Opening, Standing, Opened, InTest, client
<1>7. Leaving'
  BY <1>1, <1>2, <1>3 DEF Leaving, Silence, Owned, client
<1>8. Answered'
  BY <1>1, <1>3 DEF Answered, InTest, client
<1> QED
  BY <1>4, <1>5, <1>6, <1>7, <1>8

(* A handler that calls Write in the running test has the writer of the    *)
(* test's own StreamLatencyTestServer call. *)
LEMMA WritesToItsReader ==
  ASSUME Full, NEW c \in WCalls, cpc[c] = "writing"
  PROVE  /\ cslot[c] = StreamOf(c) /\ cptr[c] = writers[StreamOf(c)]
         /\ cptr[c] \in RCalls /\ serving[cptr[c]] = StreamOf(c) /\ Running(cptr[c])
         /\ wlink[c] \in {"open", "ended"} /\ c = wcall[StreamOf(c)]
         /\ pc \notin {"opening", "opened"}
         /\ pc # "idle" =>
              /\ InTest /\ wlink[c] = "open"
              /\ cptr[c] = rcall[StreamOf(c)] /\ rlink[cptr[c]] = "open"
<1> USE DEF Full, HarnessInv
<1> DEFINE x == StreamOf(c)
<1>1. /\ cslot[c] = x /\ cptr[c] = writers[x] /\ writers[x] # NoWriter
      /\ pc \notin {"opening", "opened"} /\ x \in Streams
  BY StreamTypes DEF WriterLife, MessageFindsWriter, Opening
<1>2. cptr[c] \in RCalls /\ serving[cptr[c]] = x /\ Running(cptr[c])
  BY <1>1, Typed DEF RegisteredIsLive, Running
<1>3. wlink[c] \in {"open", "ended"} /\ c = wcall[x]
  BY Typed DEF WriterLife, Links, OneWriter, FreeWriter
<1>4. pc # "idle" => InTest
  BY <1>1 DEF Shape, TestTypes, InTest
<1>5. InTest => /\ wlink[c] = "open" /\ cptr[c] = rcall[x] /\ rlink[cptr[c]] = "open"
  BY <1>1, <1>3 DEF Standing, Opened
<1> QED
  BY <1>1, <1>2, <1>3, <1>4, <1>5

LEMMA SendReplyKeeps ==
  ASSUME Full, NEW c \in WCalls, SendReply(c)
  PROVE  HarnessInv'
<1> USE DEF Full, HarnessInv
<1> DEFINE x == StreamOf(c)
           r == cptr[c]
<1>1. /\ cpc[c] = "writing" /\ delivered[c] # TRUE /\ rlink[r] = "open"
      /\ replies' = [replies EXCEPT ![r] = @ + 1]
      /\ delivered' = [delivered EXCEPT ![c] = TRUE]
      /\ UNCHANGED <<client, writers, cpc, cslot, cptr, rlink, wlink, wire>>
  BY DEF SendReply, CanReply, vars
<1>2. pc # "idle"
  BY <1>1, WritesToItsReader DEF Leaving
<1>3. /\ cslot[c] = x /\ r = writers[x] /\ r \in RCalls /\ c = wcall[x] /\ x \in Streams
      /\ pc \notin {"opening", "opened"} /\ InTest /\ wlink[c] = "open" /\ r = rcall[x]
      /\ r # NoWriter
  BY <1>1, <1>2, WritesToItsReader, Typed
<1>4. /\ \A d \in WCalls : delivered'[d] = IF d = c THEN TRUE ELSE delivered[d]
      /\ \A s \in RCalls : replies'[s] = IF s = r THEN replies[s] + 1 ELSE replies[s]
  BY <1>1, <1>3 DEF Shape, TestTypes
<1>5. Answered'
  <2>1. \A s \in RCalls : rlink'[s] # "open" => replies'[s] = 0
    BY <1>1, <1>4 DEF Answered
  <2>2. InTest' <=> InTest
    BY <1>1 DEF InTest, client
  <2>3. ASSUME NEW y \in Streams
        PROVE  /\ got[y] + replies'[rcall[y]] > 0 => wlink[wcall[y]] = "open" /\ cslot[wcall[y]] = y
               /\ Sent(y)' = got[y] + replies'[rcall[y]] + wire[wcall[y]] + InHandler(wcall[y])'
               /\ got[y] = ReadsDone(y)'
    <3>1. Sent(y)' = Sent(y) /\ ReadsDone(y)' = ReadsDone(y)
      BY <1>1 DEF Sent, ReadsDone, client
    <3>2. /\ Sent(y) = got[y] + replies[rcall[y]] + wire[wcall[y]] + InHandler(wcall[y])
          /\ got[y] = ReadsDone(y)
          /\ got[y] + replies[rcall[y]] > 0 => wlink[wcall[y]] = "open" /\ cslot[wcall[y]] = y
      BY <1>3 DEF Answered
    <3>3. /\ wcall[y] \in WCalls /\ rcall[y] \in RCalls
          /\ StreamOf(wcall[y]) = y /\ StreamOf(rcall[y]) = y
      BY Typed DEF Standing
    <3>4. CASE y # x
      <4>0. StreamOf(r) = x
        BY <1>3 DEF Standing
      <4>1. wcall[y] # c /\ rcall[y] # r
        BY <3>3, <3>4, <4>0
      <4>2. replies'[rcall[y]] = replies[rcall[y]] /\ delivered'[wcall[y]] = delivered[wcall[y]]
        BY <1>4, <3>3, <4>1
      <4>3. InHandler(wcall[y])' = InHandler(wcall[y])
        BY <1>1, <4>2 DEF InHandler, client
      <4> QED
        BY <3>1, <3>2, <4>2, <4>3
    <3>5. CASE y = x
      <4>1. wcall[y] = c /\ rcall[y] = r
        BY <1>3, <3>5
      <4>2. InHandler(wcall[y]) = 1
        BY <1>1, <4>1 DEF InHandler
      <4>3. InHandler(wcall[y])' = 0
        BY <1>1, <1>4, <4>1 DEF InHandler, client
      <4>4. replies'[rcall[y]] = replies[rcall[y]] + 1
        BY <1>3, <1>4, <4>1
      <4>5. got[y] \in Nat /\ replies[rcall[y]] \in Nat /\ wire[wcall[y]] \in Nat
        BY <3>3, Typed
      <4>6. wlink[wcall[y]] = "open" /\ cslot[wcall[y]] = y
        BY <1>3, <3>5, <4>1
      <4> QED
        BY ONLY <3>1, <3>2, <4>2, <4>3, <4>4, <4>5, <4>6
    <3> QED
      BY <3>4, <3>5
  <2>4. pc # "finish" \/ round > 0
    BY <1>3 DEF Answered
  <2>5. ok = TRUE
    BY <1>3 DEF Answered
  <2> QED
    BY <1>1, <2>1, <2>2, <2>3, <2>4, <2>5 DEF Answered, client
<1>6. /\ \A d \in WCalls \ {c} :
           /\ wlink'[d] = wlink[d] /\ cpc'[d] = cpc[d] /\ wire'[d] = wire[d]
           /\ cslot'[d] = cslot[d] /\ cptr'[d] = cptr[d] /\ delivered'[d] = delivered[d]
      /\ ~FreeWriter(c) /\ wlink'[c] = "open" /\ cpc'[c] = "writing" /\ cslot'[c] = x
      /\ cptr'[c] = writers[x] /\ writers[x] # NoWriter
  BY <1>1, <1>3, <1>4 DEF FreeWriter
<1> QED
  BY <1>1, <1>2, <1>3, <1>5, <1>6, WriterStep

LEMMA HandlerWriteReturnsKeeps ==
  ASSUME Full, NEW c \in WCalls, HandlerWriteReturns(c)
  PROVE  HarnessInv'
<1> USE DEF Full, HarnessInv
<1> DEFINE x == StreamOf(c)
<1>1. /\ cpc[c] = "writing" /\ (delivered[c] = TRUE \/ ~CanReply(c))
      /\ cpc' = [cpc EXCEPT ![c] = "reading"]
      /\ cptr' = [cptr EXCEPT ![c] = NoWriter]
      /\ delivered' = [delivered EXCEPT ![c] = FALSE]
      /\ UNCHANGED <<client, writers, cslot, rlink, wlink, wire, replies>>
  BY Typed DEF HandlerWriteReturns, WriteReturns, Goto
<1>2. /\ cslot[c] = x /\ wlink[c] \in {"open", "ended"} /\ pc \notin {"opening", "opened"}
      /\ writers[x] # NoWriter /\ wire[c] \in Nat
      /\ InTest => CanReply(c)
  BY <1>1, WritesToItsReader, Typed DEF CanReply, InTest
<1>3. /\ cpc'[c] = "reading" /\ delivered'[c] = FALSE
      /\ \A d \in WCalls \ {c} :
           cpc'[d] = cpc[d] /\ cptr'[d] = cptr[d] /\ delivered'[d] = delivered[d]
  BY <1>1, RelayAssumption DEF Shape, TestTypes, TypeOK
<1>4. Answered'
  <2>1. InTest => InHandler(c) = 0
    BY <1>1, <1>2 DEF InHandler
  <2>2. InHandler(c)' = 0
    BY <1>3 DEF InHandler
  <2> QED
    BY <1>1, <1>2, <1>3, <2>1, <2>2, AnsweredStep
<1>5. pc = "idle" => Silence' \/ Owned'
  BY <1>1, <1>3 DEF Leaving, Silence, Owned
<1>6. pc = "idle" => wlink[c] = "ended"
  BY <1>2 DEF Leaving
<1>7. /\ \A d \in WCalls \ {c} :
           /\ wlink'[d] = wlink[d] /\ cpc'[d] = cpc[d] /\ wire'[d] = wire[d]
           /\ cslot'[d] = cslot[d] /\ cptr'[d] = cptr[d] /\ delivered'[d] = delivered[d]
      /\ ~FreeWriter(c) /\ wlink'[c] = wlink[c]
  BY <1>1, <1>3 DEF FreeWriter
<1> QED
  BY <1>1, <1>2, <1>3, <1>4, <1>5, <1>6, <1>7, WriterStep

LEMMA StreamEndsKeeps ==
  ASSUME Full, NEW c \in WCalls, StreamEnds(c)
  PROVE  HarnessInv'
<1> USE DEF Full, HarnessInv
<1>1. /\ wlink[c] = "ended" /\ cpc[c] = "reading"
      /\ cpc' = [cpc EXCEPT ![c] = "clearing"]
      /\ wlink' = [wlink EXCEPT ![c] = "none"]
      /\ wire' = [wire EXCEPT ![c] = 0]
      /\ UNCHANGED <<client, writers, cslot, cptr, rlink, replies, delivered>>
  BY DEF StreamEnds, ReadFails, Goto
<1>2. pc = "idle" /\ delivered[c] # TRUE
  BY <1>1 DEF Standing, WriterLife
<1>3. /\ cpc'[c] = "clearing" /\ wlink'[c] = "none" /\ wire'[c] = 0
      /\ \A d \in WCalls \ {c} : cpc'[d] = cpc[d] /\ wlink'[d] = wlink[d] /\ wire'[d] = wire[d]
  BY <1>1, RelayAssumption DEF Shape, TestTypes, TypeOK
<1>4. Answered'
  BY <1>1, <1>2 DEF Answered, InTest, client
<1>5. Silence' \/ Owned'
  BY <1>1, <1>2, <1>3 DEF Leaving, Silence, Owned
<1>6. /\ \A d \in WCalls \ {c} :
           /\ wlink'[d] = wlink[d] /\ cpc'[d] = cpc[d] /\ wire'[d] = wire[d]
           /\ cslot'[d] = cslot[d] /\ cptr'[d] = cptr[d] /\ delivered'[d] = delivered[d]
      /\ ~FreeWriter(c) /\ delivered'[c] # TRUE
  BY <1>1, <1>2, <1>3 DEF FreeWriter
<1>7. /\ ~(wire'[c] > 0) /\ UNCHANGED <<client, writers, rlink>>
      /\ pc \notin {"opening", "opened"} /\ ~(pc # "idle")
  BY <1>1, <1>2, <1>3
<1> QED
  BY <1>3, <1>4, <1>5, <1>6, <1>7, WriterStep

LEMMA NoFault == ASSUME Full, NEW c \in WCalls PROVE ~ServerFault(c)
  BY WritesToItsReader, RelayAssumption DEF ServerFault, Fault

-----------------------------------------------------------------------------
LEMMA HarnessStep ==
  ASSUME Full, [TestNext]_allVars
  PROVE  HarnessInv'
<1>1. CASE TestStep \/ KillClient
  BY <1>1, StartTestKeeps, OpenReaderKeeps, OpenWriterKeeps, WriteMessageKeeps, ReadReplyKeeps,
     HangUpKeeps DEF TestStep
<1>2. ASSUME NEW s \in RCalls, PollThread(s) PROVE HarnessInv'
  <2>1. ASSUME PollReturns(s), UNCHANGED <<client, net>> PROVE HarnessInv'
    BY <2>1, PollKeeps DEF PollReturns
  <2> QED
    BY <1>2, <2>1, ServerHandlerStartsKeeps, DropServerCallKeeps DEF PollThread
<1>3. ASSUME NEW c \in WCalls, RelayThread(c) PROVE HarnessInv'
  BY <1>3, ClientHandlerStartsKeeps, DropClientCallKeeps, ServerReadsKeeps, LookKeeps,
     ClearSlotKeeps, SendReplyKeeps, HandlerWriteReturnsKeeps, StreamEndsKeeps DEF RelayThread
<1>4. CASE UNCHANGED allVars
  BY <1>4, PollKeeps DEF allVars, vars
<1> QED
  BY <1>1, <1>2, <1>3, <1>4, NoFault DEF TestNext

LEMMA HarnessInit == ASSUME TestInit PROVE HarnessInv
<1>1. /\ \A c \in WCalls : cpc[c] = "closed" /\ wlink[c] = "none" /\ wire[c] = 0 /\ delivered[c] = FALSE
      /\ \A s \in RCalls : rlink[s] = "none" /\ replies[s] = 0
      /\ pc = "idle"
  BY RelayAssumption DEF TestInit, Init
<1>2. \A x \in Streams : StreamOf(rcall[x]) = x /\ StreamOf(wcall[x]) = x
  BY StreamTypes DEF TestInit
<1>3. OneWriter /\ WriterLife /\ MessageFindsWriter /\ ReaderComesFirst
  BY <1>1, StreamTypes, StreamNumbers
  DEF OneWriter, WriterLife, MessageFindsWriter, ReaderComesFirst, FreeWriter
<1>4. Opening /\ Standing /\ Leaving /\ Answered
  BY <1>1, <1>2 DEF Opening, Standing, Opened, InTest, Leaving, Silence, Answered
<1> QED
  BY <1>3, <1>4 DEF HarnessInv

LEMMA HarnessInvariance == ASSUME Setting PROVE TestSpec => []Full
<1>1. TestInit => IInv /\ Full
  BY InitEstablishesIInv, ShapeInit, HarnessInit DEF TestInit, Full, IInv
<1>2. IInv /\ Full /\ [TestNext]_allVars => IInv' /\ Full'
  <2> SUFFICES ASSUME IInv, Full, [TestNext]_allVars PROVE IInv' /\ Full'
    OBVIOUS
  <2>1. IInv'
    BY TestStepIsRelayStep, IInvStep
  <2>2. Shape'
    BY ShapeStep DEF Full
  <2>3. HarnessInv'
    BY HarnessStep
  <2>4. Setting'
    BY DEF Setting
  <2> QED
    BY <2>1, <2>2, <2>3, <2>4 DEF Full, IInv
<1> QED
  BY <1>1, <1>2, PTL DEF TestSpec

(* When the sleeps are long enough and the client is not killed between    *)
(* its first write and the end of its first round: for any number of       *)
(* streams and calls, Write is only called on the writer of a handler that *)
(* still polls the stream's slot, one at a time, whatever the end of one   *)
(* test and the start of the next leave running. *)
THEOREM HarnessIsSafe == ASSUME Setting PROVE TestSpec => []HarnessNeverFaults
<1>1. Full => HarnessNeverFaults
  <2> SUFFICES ASSUME Full, NEW c \in WCalls, cpc[c] = "writing"
               PROVE  /\ cptr[c] # NoWriter /\ serving[cptr[c]] = cslot[c]
                      /\ \A d \in WCalls \ {c} : cpc[d] = "writing" => cptr[d] # cptr[c]
    BY DEF HarnessNeverFaults
  <2>1. /\ cptr[c] \in RCalls /\ serving[cptr[c]] = StreamOf(c) /\ cslot[c] = StreamOf(c)
        /\ c = wcall[StreamOf(c)]
    BY WritesToItsReader
  <2>2. ASSUME NEW d \in WCalls \ {c}, cpc[d] = "writing" PROVE cptr[d] # cptr[c]
    <3>1. serving[cptr[d]] = StreamOf(d) /\ d = wcall[StreamOf(d)]
      BY <2>2, WritesToItsReader
    <3> QED
      BY <2>1, <3>1
  <2> QED
    BY <2>1, <2>2, ServersAssumption, RelayAssumption
<1> QED
  BY <1>1, HarnessInvariance, PTL

(* Under the same conditions a message is answered once, and its answer is *)
(* read in the round that sent it. *)
THEOREM MessagesAreAnswered == ASSUME Setting PROVE TestSpec => []EveryMessageIsAnswered
<1>1. Full => EveryMessageIsAnswered
  BY DEF Full, HarnessInv, Answered, InTest, EveryMessageIsAnswered
<1> QED
  BY <1>1, HarnessInvariance, PTL

(* And the server process does not die under the test's calls. *)
THEOREM ServerSurvives ==
  ASSUME Setting PROVE TestSpec => [][\A c \in WCalls : ~ServerFault(c)]_allVars
<1>1. Full => [\A c \in WCalls : ~ServerFault(c)]_allVars
  BY NoFault
<1> QED
  BY <1>1, HarnessInvariance, PTL
=============================================================================
