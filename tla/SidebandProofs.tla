---------------------------- MODULE SidebandProofs ----------------------------
(***************************************************************************)
(* The sideband tests for any number of iterations, rounds and sessions:   *)
(* the block read in an iteration is that iteration's, with each way of    *)
(* passing data, and round trips are reported only if all came back.       *)
(***************************************************************************)
EXTENDS SidebandTests, SequenceTheorems, TLAPS

USE IterationsAssumption, RoundsAssumption, NoSessionAssumption

-----------------------------------------------------------------------------
(* The round-trip test. *)

LEMMA RoundsType == Rounds \in Nat \ {0} /\ WarmUp < Rounds
  BY DEF Rounds

MonikerTypes ==
  /\ echoed \in Nat /\ mround \in Nat
  /\ DOMAIN loop = Sessions /\ DOMAIN socket = Sessions
  /\ down \in [Sessions -> Nat]

InRounds == mpc \in {"write", "read"}
Begun == InRounds \/ mpc \in {"cancel", "close"}

(* Nothing comes any more from a socket or a thread that is over. *)
Over(s) == (socket[s] = "dropped" \/ loop[s] = "closed") /\ down[s] = 0

(* A round whose reply did not come is one of a session that is over, and  *)
(* the timed rounds do not go past it. *)
RoundsEchoed ==
  /\ Begun => session \in Sessions
  /\ InRounds => /\ mround \in 1..Rounds /\ outcome = "none"
                 /\ echoed = mround - 1 \/ Over(session)
  /\ mpc = "cancel" => echoed = Rounds /\ outcome = "none"

MonikerInv == MonikerTypes /\ RoundsEchoed /\ MonikerReportIsComplete

LEMMA MonikerBegins == MonikerInit => MonikerInv
  BY RoundsType DEF MonikerInit, MonikerInv, MonikerTypes, RoundsEchoed, InRounds, Begun,
     MonikerReportIsComplete

LEMMA BeginKeepsMoniker ==
  ASSUME MonikerInv, NEW s \in Sessions, BeginMoniker(s)
  PROVE  MonikerInv'
<1> USE DEF MonikerInv, BeginMoniker, BeginTest, BeginFails, Announce
<1>1. MonikerTypes'
  BY DEF MonikerTypes
<1>2. RoundsEchoed'
  BY RoundsType DEF RoundsEchoed, InRounds, Begun
<1>3. MonikerReportIsComplete'
  BY DEF MonikerReportIsComplete
<1> QED
  BY <1>1, <1>2, <1>3

LEMMA ClientKeepsMoniker ==
  ASSUME MonikerInv, MonikerClientStep
  PROVE  MonikerInv'
<1> USE DEF MonikerInv
<1>1. CASE WriteMessage
  BY <1>1 DEF WriteMessage, MonikerTypes, RoundsEchoed, InRounds, Begun, Over,
     MonikerReportIsComplete
<1>2. CASE ReadReply
  <2> USE <1>2 DEF ReadReply, NextOr
  <2>1. /\ session \in Sessions /\ mround \in 1..Rounds /\ outcome = "none"
        /\ echoed = mround - 1
    BY DEF RoundsEchoed, InRounds, Begun, Over
  <2>2. MonikerTypes'
    BY <2>1 DEF MonikerTypes
  <2>3. RoundsEchoed'
    BY <2>1, RoundsType DEF RoundsEchoed, InRounds, Begun
  <2> QED
    BY <2>1, <2>2, <2>3 DEF MonikerReportIsComplete
<1>3. CASE ReadFails
  <2> USE <1>3 DEF ReadFails
  <2>1. /\ session \in Sessions /\ mround \in 1..Rounds /\ outcome = "none" /\ Over(session)
    BY DEF RoundsEchoed, InRounds, Begun, Over, SocketIsOver
  <2>2. UNCHANGED <<session, echoed, loop, socket, down>>
    OBVIOUS
  <2>3. CASE mround <= WarmUp /\ mround' = mround + 1 /\ NextOr("cancel") /\ UNCHANGED outcome
    <3>1. mpc' = "write" /\ mround' \in 1..Rounds
      BY <2>1, <2>3, RoundsType DEF NextOr
    <3>2. RoundsEchoed'
      BY <2>1, <2>2, <2>3, <3>1 DEF RoundsEchoed, InRounds, Begun, Over
    <3> QED
      BY <2>1, <2>2, <2>3, <3>1, <3>2 DEF MonikerTypes, MonikerReportIsComplete
  <2>4. CASE mround > WarmUp /\ mpc' = "close" /\ outcome' = "discarded" /\ UNCHANGED mround
    BY <2>1, <2>2, <2>4 DEF MonikerTypes, RoundsEchoed, InRounds, Begun, MonikerReportIsComplete
  <2> QED
    BY <2>3, <2>4
<1>4. CASE WriteCancel
  BY <1>4 DEF WriteCancel, MonikerTypes, RoundsEchoed, InRounds, Begun, MonikerReportIsComplete
<1>5. CASE CloseSession
  BY <1>5 DEF CloseSession, MonikerTypes, RoundsEchoed, InRounds, Begun, MonikerReportIsComplete
<1> QED
  BY <1>1, <1>2, <1>3, <1>4, <1>5 DEF MonikerClientStep

(* A session that is over stays so, whatever its socket and thread do.     *)
LEMMA OverIsFinal ==
  ASSUME MonikerInv, UNCHANGED clientState, MonikerTypes',
         \A s \in Sessions : Over(s) => Over(s)'
  PROVE  MonikerInv'
<1>1. RoundsEchoed'
  BY DEF MonikerInv, clientState, RoundsEchoed, InRounds, Begun
<1> QED
  BY <1>1 DEF MonikerInv, clientState, MonikerReportIsComplete

LEMMA PeersKeepMoniker ==
  ASSUME MonikerInv, NEW s \in Sessions, DropSocket(s) \/ LoopStep(s)
  PROVE  MonikerInv'
<1> USE DEF MonikerInv
<1>1. CASE DropSocket(s)
  <2> USE <1>1 DEF DropSocket
  <2>1. PICK k \in 0..down[s] : down' = [down EXCEPT ![s] = k]
    OBVIOUS
  <2>2. UNCHANGED clientState /\ socket' = [socket EXCEPT ![s] = "dropped"] /\ loop' = loop
    OBVIOUS
  <2>3. MonikerTypes'
    BY <2>1, <2>2 DEF MonikerTypes, clientState
  <2>4. \A x \in Sessions : Over(x) => Over(x)'
    BY <2>1, <2>2 DEF Over, MonikerTypes
  <2> QED
    BY <2>2, <2>3, <2>4, OverIsFinal
<1>2. CASE LoopStep(s)
  <2> USE <1>2 DEF LoopStep, LoopReads, LoopReadsNothing, LoopEchoes
  <2>1. UNCHANGED clientState /\ UNCHANGED socket
    OBVIOUS
  <2>2. MonikerTypes'
    BY <2>1 DEF MonikerTypes, clientState
  <2>3. \A x \in Sessions : Over(x) => Over(x)'
    BY <2>1 DEF Over, MonikerTypes
  <2> QED
    BY <2>1, <2>2, <2>3, OverIsFinal
<1> QED
  BY <1>1, <1>2

LEMMA MonikerUntouched == MonikerInv /\ UNCHANGED monikerVars => MonikerInv'
  BY DEF MonikerInv, monikerVars, clientState, MonikerTypes, RoundsEchoed, InRounds, Begun,
     Over, MonikerReportIsComplete

(* For any number of rounds and sessions, round trips are reported only if *)
(* every one came back, the warm-up's too, whose results nobody checks.    *)
THEOREM NoRoundTripMissing == Spec => []MonikerReportIsComplete
<1>1. Init => MonikerInv
  BY MonikerBegins DEF Init
<1>2. MonikerInv /\ [Next]_vars => MonikerInv'
  <2> SUFFICES ASSUME MonikerInv, [Next]_vars PROVE MonikerInv'
    OBVIOUS
  <2>1. CASE NextReadTest \/ (ReadTestStep /\ UNCHANGED monikerVars) \/ UNCHANGED vars
    BY <2>1, MonikerUntouched DEF NextReadTest, vars
  <2>2. CASE NextMonikerTest
    BY <2>2, BeginKeepsMoniker DEF NextMonikerTest
  <2>3. CASE MonikerTestStep
    BY <2>3, ClientKeepsMoniker, PeersKeepMoniker DEF MonikerTestStep
  <2> QED
    BY <2>1, <2>2, <2>3 DEF Next
<1>3. MonikerInv => MonikerReportIsComplete
  BY DEF MonikerInv
<1> QED
  BY <1>1, <1>2, <1>3, PTL DEF Spec

-----------------------------------------------------------------------------
(* The read test.  What the handler has left to do after a request is one  *)
(* of these lists. *)
W == <<"write">>
R == <<"respond">>
WR == <<"write", "respond">>
RW == <<"respond", "write">>
WRW == <<"write", "respond", "write">>
Todos == {<<>>, W, R, WR, RW, WRW}

LEMMA TodoFacts ==
  /\ W # <<>> /\ Head(W) = "write" /\ Tail(W) = <<>>
  /\ R # <<>> /\ Head(R) = "respond" /\ Tail(R) = <<>>
  /\ WR # <<>> /\ Head(WR) = "write" /\ Tail(WR) = R
  /\ RW # <<>> /\ Head(RW) = "respond" /\ Tail(RW) = W
  /\ WRW # <<>> /\ Head(WRW) = "write" /\ Tail(WRW) = RW
<1>1. W # <<>> /\ Head(W) = "write" /\ Tail(W) = <<>>
  BY DEF W
<1>2. R # <<>> /\ Head(R) = "respond" /\ Tail(R) = <<>>
  BY DEF R
<1>3. WR # <<>> /\ Head(WR) = "write" /\ Tail(WR) = R
  BY DEF WR, R
<1>4. RW # <<>> /\ Head(RW) = "respond" /\ Tail(RW) = W
  BY DEF RW, W
<1>5. WRW # <<>> /\ Head(WRW) = "write" /\ Tail(WRW) = RW
  BY DEF WRW, RW
<1> QED
  BY <1>1, <1>2, <1>3, <1>4, <1>5

(* The client is in its loop, over a stream that is whole, with a request  *)
(* that the handler does not refuse. *)
InLoop == pc \in {"request", "response", "data", "copying", "close"}
Sound == InLoop /\ net.call # "broken" /\ test.size = "valid"

Frame ==
  /\ net \in [call : {"open"}, requests : Nat, responses : Nat]
  /\ handler \in [running : {TRUE}, token : BOOLEAN, first : BOOLEAN, todo : Todos]
  /\ medium \in [writing : BOOLEAN, writes : Nat, wire : Seq(Nat),
                 memory : [0..1 -> Nat], closed : SUBSET {"client", "server"}]
  /\ "server" \notin medium.closed
  /\ test \in [strategy : Strategies, size : {"valid"}]
  /\ round \in 1..Iterations + 1
  /\ (pc = "close") <=> (round = Iterations + 1)

Under(requests, responses) == net.requests = requests /\ net.responses = responses
Handling(todo, writing, writes) ==
  handler.todo = todo /\ medium.writing = writing /\ medium.writes = writes

(* Sockets: k blocks were written, and all of them read; or the k-th is on *)
(* its way or is about to be written.                                      *)
AllRead(k) ==
  medium.wire = <<>> /\ (Handling(<<>>, FALSE, k) \/ Handling(W, TRUE, k))
OnItsWay(k) ==
  \/ medium.wire = <<>> /\ Handling(W, FALSE, k - 1)
  \/ medium.wire = <<k>> /\ (Handling(<<>>, FALSE, k) \/ Handling(W, TRUE, k))

SocketsInv ==
  /\ pc \in {"request", "close"} => Under(0, 0) /\ AllRead(round - 1)
  /\ pc = "response" =>
       \/ Under(1, 0) /\ AllRead(round - 1)
       \/ Under(0, 0) /\ Handling(RW, FALSE, round - 1) /\ medium.wire = <<>>
       \/ Under(0, 1) /\ OnItsWay(round)
  /\ pc = "data" => Under(0, 0) /\ OnItsWay(round)
  /\ pc # "copying"

(* One buffer: the handler is at rest whenever the client may look.        *)
Holds(k) == medium.memory[Buffer(k)] = k
SharedInv ==
  /\ pc \in {"request", "close"} => Under(0, 0) /\ Handling(<<>>, FALSE, round - 1)
  /\ pc = "response" =>
       \/ Under(1, 0) /\ Handling(<<>>, FALSE, round - 1)
       \/ Under(0, 0) /\ (Handling(WR, FALSE, round - 1) \/ Handling(WR, TRUE, round))
       \/ Under(0, 0) /\ Handling(R, FALSE, round) /\ Holds(round)
       \/ Under(0, 1) /\ Handling(<<>>, FALSE, round) /\ Holds(round)
  /\ pc \in {"data", "copying"} => Under(0, 0) /\ Handling(<<>>, FALSE, round) /\ Holds(round)
  /\ pc = "copying" => got = round

(* Two buffers: the handler is one block ahead, in the other buffer.       *)
Ahead(k) ==
  /\ handler.first = FALSE
  /\ \/ Handling(W, FALSE, k) \/ Handling(W, TRUE, k + 1)
     \/ Handling(<<>>, FALSE, k + 1) /\ Holds(k + 1)
Ready(k) ==
  IF k = 0 THEN Handling(<<>>, FALSE, 0) /\ handler.first = TRUE ELSE Ahead(k)
DoubleInv ==
  /\ pc \in {"request", "close"} => Under(0, 0) /\ Ready(round - 1)
  /\ pc = "response" =>
       \/ Under(1, 0) /\ Ready(round - 1)
       \/ /\ Under(0, 0) /\ handler.first = FALSE
          /\ \/ round = 1 /\ (Handling(WRW, FALSE, 0) \/ Handling(WRW, TRUE, 1))
             \/ Handling(RW, FALSE, round) /\ Holds(round)
       \/ Under(0, 1) /\ Ahead(round) /\ Holds(round)
  /\ pc \in {"data", "copying"} => Under(0, 0) /\ Ahead(round) /\ Holds(round)
  /\ pc = "copying" => got = round

LastIsGot == pc \in {"request", "close"} /\ round > 1 => got = round - 1

ByStrategy ==
  /\ test.strategy = "SOCKETS" => SocketsInv
  /\ test.strategy = "SHARED_MEMORY" => SharedInv
  /\ test.strategy = "DOUBLE_BUFFERED_SHARED_MEMORY" => DoubleInv

LoopInv == Frame /\ ByStrategy /\ LastIsGot
NetType == net \in [call : {"open", "halfclosed", "broken"}, requests : Nat, responses : Nat]
ReadInv == NetType /\ (Sound => LoopInv)

(* A buffer and the next one. *)
LEMMA BufferFacts ==
  ASSUME NEW k \in Nat
  PROVE  /\ Buffer(k) \in 0..1
         /\ test.strategy = "SHARED_MEMORY" => Buffer(k) = 0
         /\ test.strategy = "DOUBLE_BUFFERED_SHARED_MEMORY" => Buffer(k + 1) # Buffer(k)
<1>1. k % 2 \in 0..1 /\ (k + 1) % 2 # k % 2
  OBVIOUS
<1> QED
  BY <1>1 DEF Buffer

LEMMA BeginKeepsRead ==
  ASSUME NEW strategy \in Strategies, NEW size, BeginRead(strategy, size)
  PROVE  ReadInv'
<1>0. NetType'
  BY DEF BeginRead, FreshNet, NetType
<1> SUFFICES ASSUME Sound' PROVE LoopInv'
  BY <1>0 DEF ReadInv
<1>1. /\ test' = [strategy |-> strategy, size |-> size] /\ pc' = "request" /\ round' = 1
      /\ net' = FreshNet /\ handler' = FreshHandler /\ medium' = FreshMedium
  BY DEF BeginRead
<1>2. size = "valid"
  BY <1>1 DEF Sound
<1>3. Frame'
  BY <1>1, <1>2 DEF Frame, FreshNet, FreshHandler, FreshMedium, Torn, Todos
<1>4. Under(0, 0)' /\ Handling(<<>>, FALSE, 0)' /\ handler'.first = TRUE /\ medium'.wire = <<>>
  BY <1>1 DEF Under, Handling, FreshNet, FreshHandler, FreshMedium
<1>5. pc' = "request" /\ round' = 1
  BY <1>1
<1>6. round' - 1 = 0
  BY <1>5
<1>7. AllRead(0)' /\ Ready(0)'
  BY <1>4 DEF AllRead, Ready
<1>8. SocketsInv' /\ SharedInv' /\ DoubleInv'
  BY <1>4, <1>5, <1>6, <1>7 DEF SocketsInv, SharedInv, DoubleInv
<1>9. ByStrategy'
  BY <1>8 DEF ByStrategy
<1>10. LastIsGot'
  <2>1. ~(round' > 1)
    BY <1>5
  <2> QED
    BY <2>1 DEF LastIsGot
<1> QED
  BY <1>3, <1>9, <1>10 DEF LoopInv

LEMMA RequestKeepsRead ==
  ASSUME LoopInv, Sound, WriteRequest
  PROVE  LoopInv'
<1> USE DEF LoopInv, WriteRequest
<1>1. net' = [net EXCEPT !.requests = @ + 1]
  BY DEF Frame, CallIsOver
<1>2. Frame'
  <2>1. net' \in [call : {"open"}, requests : Nat, responses : Nat]
    BY <1>1 DEF Frame
  <2> QED
    BY <2>1 DEF Frame
<1>3. Under(0, 0) => Under(1, 0)'
  BY <1>1 DEF Frame, Under
<1>4. ByStrategy'
  BY <1>3 DEF ByStrategy, SocketsInv, SharedInv, DoubleInv, AllRead, Ready, Ahead, Holds,
     Handling, Buffer
<1>5. LastIsGot'
  BY DEF LastIsGot
<1> QED
  BY <1>2, <1>4, <1>5

LEMMA ResponseKeepsRead ==
  ASSUME LoopInv, Sound, ReadResponse
  PROVE  LoopInv'
<1> USE DEF LoopInv, ReadResponse
<1>1. net.responses > 0 /\ net' = [net EXCEPT !.responses = @ - 1]
  BY DEF Frame, CallIsOver
<1>2. Frame'
  <2>1. net' \in [call : {"open"}, requests : Nat, responses : Nat]
    BY <1>1 DEF Frame
  <2> QED
    BY <2>1 DEF Frame
<1>3. net.responses # 0 /\ (Under(0, 1) => Under(0, 0)')
  BY <1>1 DEF Frame, Under
<1>4. ByStrategy'
  BY <1>3 DEF ByStrategy, SocketsInv, SharedInv, DoubleInv, OnItsWay, Ahead, Holds,
     Handling, Buffer, Under
<1>5. LastIsGot'
  BY DEF LastIsGot
<1> QED
  BY <1>2, <1>4, <1>5

LEMMA SocketKeepsRead ==
  ASSUME LoopInv, Sound, ReadSocket
  PROVE  LoopInv'
<1> USE DEF LoopInv
<1>1. pc = "data" /\ test.strategy = "SOCKETS" /\ UNCHANGED <<test, net, handler>>
  BY DEF ReadSocket, Shared
<1>2. Under(0, 0) /\ OnItsWay(round)
  BY <1>1 DEF ByStrategy, SocketsInv
<1>3. round \in Nat /\ round <= Iterations /\ round' = round + 1
  BY <1>1 DEF Frame, ReadSocket, NextRound
<1>4. medium.wire # <<>>
  BY DEF ReadSocket, Frame
<1>5. medium.wire = <<round>>
  BY <1>2, <1>4 DEF OnItsWay
<1>6. got' = round /\ medium' = [medium EXCEPT !.wire = <<>>]
  <2>1. Head(<<round>>) = round /\ Tail(<<round>>) = <<>>
    OBVIOUS
  <2> QED
    BY <1>4, <1>5, <2>1 DEF ReadSocket
<1>7. /\ medium'.wire = <<>> /\ medium'.writing = medium.writing
      /\ medium'.writes = medium.writes
  BY <1>6 DEF Frame
<1>8. pc' = IF round = Iterations THEN "close" ELSE "request"
  BY DEF ReadSocket, NextRound
<1>9. Frame'
  <2>1. medium' \in [writing : BOOLEAN, writes : Nat, wire : Seq(Nat),
                     memory : [0..1 -> Nat], closed : SUBSET {"client", "server"}]
        /\ medium'.closed = medium.closed
    <3>1. <<>> \in Seq(Nat)
      OBVIOUS
    <3> QED
      BY <1>6, <3>1 DEF Frame
  <2>2. round' \in 1..Iterations + 1 /\ ((pc' = "close") <=> (round' = Iterations + 1))
    BY <1>3, <1>8
  <2> QED
    BY <1>1, <2>1, <2>2 DEF Frame
<1>10. /\ medium'.wire = <<>> /\ medium'.writes = round
       /\ \/ handler'.todo = <<>> /\ medium'.writing = FALSE
          \/ handler'.todo = W /\ medium'.writing = TRUE
  BY <1>1, <1>2, <1>4, <1>7 DEF OnItsWay, Handling
<1>11. SocketsInv'
  <2>1. round' - 1 = round
    BY <1>3
  <2>2. Under(0, 0)'
    BY <1>1, <1>2 DEF Under
  <2> QED
    BY <1>8, <1>10, <2>1, <2>2 DEF SocketsInv, AllRead, Handling
<1>12. ByStrategy' /\ LastIsGot'
  BY <1>1, <1>3, <1>6, <1>11 DEF ByStrategy, LastIsGot
<1> QED
  BY <1>9, <1>12

(* The copy of a shared buffer: nothing is written to it between its begin *)
(* and its end. *)
LEMMA CopyKeepsRead ==
  ASSUME LoopInv, Sound, BeginCopy \/ EndCopy
  PROVE  LoopInv'
<1> USE DEF LoopInv
<1>1. /\ test.strategy \in {"SHARED_MEMORY", "DOUBLE_BUFFERED_SHARED_MEMORY"}
      /\ pc \in {"data", "copying"} /\ UNCHANGED <<test, net, handler, medium>>
  BY DEF BeginCopy, EndCopy, Shared, Frame, Strategies, ByStrategy, SocketsInv
<1>2. /\ Under(0, 0) /\ Holds(round)
      /\ test.strategy = "SHARED_MEMORY" => Handling(<<>>, FALSE, round)
      /\ test.strategy = "DOUBLE_BUFFERED_SHARED_MEMORY" => Ahead(round)
  BY <1>1 DEF ByStrategy, SharedInv, DoubleInv
<1>3. round \in Nat /\ round <= Iterations /\ round > 0
  BY <1>1 DEF Frame
<1>4. CASE BeginCopy
  <2>1. got' = round /\ pc' = "copying" /\ round' = round
    BY <1>2, <1>4 DEF BeginCopy, Holds
  <2>2. Frame'
    BY <1>1, <1>3, <2>1 DEF Frame
  <2>3. SharedInv' \/ test.strategy # "SHARED_MEMORY"
    BY <1>1, <1>2, <2>1 DEF SharedInv, Under, Handling, Holds, Buffer
  <2>4. DoubleInv' \/ test.strategy # "DOUBLE_BUFFERED_SHARED_MEMORY"
    BY <1>1, <1>2, <2>1 DEF DoubleInv, Under, Ahead, Handling, Holds, Buffer
  <2>5. ByStrategy' /\ LastIsGot'
    BY <1>1, <2>1, <2>3, <2>4 DEF ByStrategy, LastIsGot
  <2> QED
    BY <2>2, <2>5
<1>5. CASE EndCopy
  <2>1. got = round
    BY <1>1, <1>5 DEF EndCopy, ByStrategy, SharedInv, DoubleInv
  <2>2. got' = round /\ round' = round + 1
    BY <1>2, <1>5, <2>1 DEF EndCopy, Holds, NextRound
  <2>3. pc' = IF round = Iterations THEN "close" ELSE "request"
    BY <1>5 DEF EndCopy, NextRound
  <2>4. Frame'
    <3>1. round' \in 1..Iterations + 1 /\ ((pc' = "close") <=> (round' = Iterations + 1))
      BY <1>3, <2>2, <2>3
    <3> QED
      BY <1>1, <3>1 DEF Frame
  <2>5. Under(0, 0)' /\ round' - 1 = round /\ round # 0
    BY <1>1, <1>2, <1>3, <2>2 DEF Under
  <2>6. SharedInv' \/ test.strategy # "SHARED_MEMORY"
    BY <1>1, <1>2, <2>3, <2>5 DEF SharedInv, Handling
  <2>7. DoubleInv' \/ test.strategy # "DOUBLE_BUFFERED_SHARED_MEMORY"
    BY <1>1, <1>2, <2>3, <2>5 DEF DoubleInv, Ready, Ahead, Handling, Holds, Buffer
  <2>8. ByStrategy'
    BY <1>1, <2>6, <2>7 DEF ByStrategy
  <2>9. LastIsGot'
    BY <1>3, <2>2 DEF LastIsGot
  <2> QED
    BY <2>4, <2>8, <2>9
<1> QED
  BY <1>4, <1>5

-----------------------------------------------------------------------------
(* The steps of the handler: it takes a request when it has nothing left   *)
(* to do. *)
LEMMA TakeKeepsRead ==
  ASSUME LoopInv, Sound, ReadRequest
  PROVE  LoopInv'
<1> USE DEF LoopInv
<1>1. /\ handler.todo = <<>> /\ net.requests > 0
      /\ net' = [net EXCEPT !.requests = @ - 1]
      /\ handler' = [handler EXCEPT !.token = TRUE, !.first = FALSE, !.todo = Steps]
      /\ UNCHANGED <<test, pc, round, got, medium>>
  BY DEF ReadRequest, Serving
<1>2. net.requests # 0 /\ ~Under(0, 0) /\ ~Under(0, 1)
  BY <1>1 DEF Frame, Under
<1>3. test.strategy \in Strategies /\ pc \in {"request", "response", "data", "copying", "close"}
  BY DEF Frame, Sound, InLoop
<1>4. pc = "response" /\ Under(1, 0)
  BY <1>2, <1>3 DEF Strategies, ByStrategy, SocketsInv, SharedInv, DoubleInv
<1>5. /\ test.strategy = "SOCKETS" => Steps = RW
      /\ test.strategy = "SHARED_MEMORY" => Steps = WR
      /\ test.strategy = "DOUBLE_BUFFERED_SHARED_MEMORY" /\ handler.first = TRUE => Steps = WRW
      /\ test.strategy = "DOUBLE_BUFFERED_SHARED_MEMORY" /\ handler.first = FALSE => Steps = RW
  BY DEF Steps, RW, WR, WRW
<1>6. handler.first \in BOOLEAN /\ Steps \in Todos
  BY <1>3, <1>5 DEF Frame, Strategies, Todos
<1>7. Under(0, 0)'
  BY <1>1, <1>4 DEF Under, Frame
<1>8. handler'.todo = Steps /\ handler'.first = FALSE
  BY <1>1 DEF Frame
<1>9. Frame'
  <2>1. net' \in [call : {"open"}, requests : Nat, responses : Nat]
    <3>1. net \in [call : {"open"}, requests : Nat, responses : Nat]
      BY DEF Frame
    <3>2. net' = [net EXCEPT !.requests = net.requests - 1] /\ net.requests > 0
      BY <1>1
    <3>3. net.requests - 1 \in Nat
      BY <3>1, <3>2
    <3> QED
      BY ONLY <3>1, <3>2, <3>3
  <2>2. handler' \in [running : {TRUE}, token : BOOLEAN, first : BOOLEAN, todo : Todos]
    BY <1>1, <1>6 DEF Frame
  <2> QED
    BY <1>1, <2>1, <2>2 DEF Frame
<1>10. ByStrategy'
  <2>1. CASE test.strategy = "SOCKETS"
    <3>1. AllRead(round - 1)
      BY <1>2, <1>4, <2>1 DEF ByStrategy, SocketsInv
    <3>2. Handling(<<>>, FALSE, round - 1) /\ medium.wire = <<>>
      BY <1>1, <3>1, TodoFacts DEF AllRead, Handling
    <3> QED
      BY <1>1, <1>4, <1>5, <1>7, <1>8, <2>1, <3>2 DEF ByStrategy, SocketsInv, Handling
  <2>2. CASE test.strategy = "SHARED_MEMORY"
    <3>1. Handling(<<>>, FALSE, round - 1)
      BY <1>2, <1>4, <2>2 DEF ByStrategy, SharedInv
    <3> QED
      BY <1>1, <1>4, <1>5, <1>7, <1>8, <2>2, <3>1 DEF ByStrategy, SharedInv, Handling
  <2>3. CASE test.strategy = "DOUBLE_BUFFERED_SHARED_MEMORY"
    <3>1. Ready(round - 1)
      BY <1>2, <1>4, <2>3 DEF ByStrategy, DoubleInv
    <3>2. round \in Nat /\ (round - 1 = 0 => round = 1) /\ round - 1 + 1 = round
      BY DEF Frame
    <3>3. CASE round - 1 = 0
      <4>1. Handling(<<>>, FALSE, 0) /\ Steps = WRW /\ round = 1
        BY <1>5, <2>3, <3>1, <3>2, <3>3 DEF Ready
      <4>2. Handling(WRW, FALSE, 0)'
        BY <1>1, <1>8, <4>1 DEF Handling
      <4> QED
        BY <1>1, <1>4, <1>7, <1>8, <2>3, <4>1, <4>2 DEF ByStrategy, DoubleInv
    <3>4. CASE round - 1 # 0
      <4>1. Handling(<<>>, FALSE, round) /\ Holds(round) /\ Steps = RW
        BY <1>1, <1>5, <2>3, <3>1, <3>2, <3>4, TodoFacts DEF Ready, Ahead, Handling
      <4>2. Handling(RW, FALSE, round)' /\ Holds(round)'
        BY <1>1, <1>8, <4>1 DEF Handling, Holds, Buffer
      <4> QED
        BY <1>1, <1>4, <1>7, <1>8, <2>3, <4>2 DEF ByStrategy, DoubleInv
    <3> QED
      BY <3>3, <3>4
  <2> QED
    BY <1>3, <2>1, <2>2, <2>3 DEF Strategies
<1>11. LastIsGot'
  BY <1>1, <1>4 DEF LastIsGot
<1> QED
  BY <1>9, <1>10, <1>11

LEMMA RespondKeepsRead ==
  ASSUME LoopInv, Sound, Respond
  PROVE  LoopInv'
<1> USE DEF LoopInv
<1>1. /\ handler.todo # <<>> /\ Head(handler.todo) = "respond"
      /\ handler' = [handler EXCEPT !.todo = Tail(@)]
      /\ net' = [net EXCEPT !.responses = @ + 1]
      /\ UNCHANGED <<test, pc, round, got, medium>>
  BY DEF Respond, About, Frame
<1>2. handler.todo \in {R, RW}
  BY <1>1, TodoFacts DEF Frame, Todos
<1>3. \A writing, writes : /\ ~Handling(<<>>, writing, writes) /\ ~Handling(W, writing, writes)
                           /\ ~Handling(WR, writing, writes) /\ ~Handling(WRW, writing, writes)
  BY <1>1, TodoFacts DEF Handling
<1>4. test.strategy \in Strategies /\ pc \in {"request", "response", "data", "copying", "close"}
  BY DEF Frame, Sound, InLoop
<1>5. /\ handler'.todo = Tail(handler.todo) /\ handler'.first = handler.first
      /\ Under(0, 0) => Under(0, 1)'
  BY <1>1 DEF Frame, Under
<1>6. Frame'
  <2>1. net' \in [call : {"open"}, requests : Nat, responses : Nat]
    <3>1. net \in [call : {"open"}, requests : Nat, responses : Nat]
      BY DEF Frame
    <3>2. net' = [net EXCEPT !.responses = net.responses + 1]
      BY <1>1
    <3> QED
      BY ONLY <3>1, <3>2
  <2>2. Tail(handler.todo) \in Todos
    BY <1>2, TodoFacts DEF Todos
  <2>3. handler' \in [running : {TRUE}, token : BOOLEAN, first : BOOLEAN, todo : Todos]
    BY <1>1, <2>2 DEF Frame
  <2> QED
    BY <1>1, <2>1, <2>3 DEF Frame
<1>7. CASE test.strategy = "SOCKETS"
  <2>1. /\ pc = "response" /\ Under(0, 0)
        /\ Handling(RW, FALSE, round - 1) /\ medium.wire = <<>>
    BY <1>3, <1>4, <1>7 DEF ByStrategy, SocketsInv, AllRead, OnItsWay
  <2>2. Handling(W, FALSE, round - 1)' /\ medium'.wire = <<>>
    BY <1>1, <1>5, <2>1, TodoFacts DEF Handling
  <2>3. OnItsWay(round)'
    BY <1>1, <2>2 DEF OnItsWay
  <2> QED
    BY <1>1, <1>5, <1>6, <1>7, <2>1, <2>3 DEF ByStrategy, SocketsInv, LastIsGot
<1>8. CASE test.strategy = "SHARED_MEMORY"
  <2>1. /\ pc = "response" /\ Under(0, 0) /\ Handling(R, FALSE, round) /\ Holds(round)
    BY <1>3, <1>4, <1>8 DEF ByStrategy, SharedInv
  <2>2. Handling(<<>>, FALSE, round)' /\ Holds(round)'
    BY <1>1, <1>5, <2>1, TodoFacts DEF Handling, Holds, Buffer
  <2> QED
    BY <1>1, <1>5, <1>6, <1>8, <2>1, <2>2 DEF ByStrategy, SharedInv, LastIsGot
<1>9. CASE test.strategy = "DOUBLE_BUFFERED_SHARED_MEMORY"
  <2>1. \A k : ~Ahead(k) /\ ~Ready(k)
    BY <1>3 DEF Ahead, Ready
  <2>2. /\ pc = "response" /\ Under(0, 0) /\ handler.first = FALSE
        /\ Handling(RW, FALSE, round) /\ Holds(round)
    BY <1>3, <1>4, <1>9, <2>1 DEF ByStrategy, DoubleInv
  <2>3. Handling(W, FALSE, round)' /\ Holds(round)' /\ handler'.first = FALSE
    BY <1>1, <1>5, <2>2, TodoFacts DEF Handling, Holds, Buffer
  <2>4. Ahead(round)'
    BY <1>1, <2>3 DEF Ahead
  <2> QED
    BY <1>1, <1>5, <1>6, <1>9, <2>2, <2>3, <2>4 DEF ByStrategy, DoubleInv, LastIsGot
<1> QED
  BY <1>4, <1>7, <1>8, <1>9 DEF Strategies

(* Blocks are numbers from 1, and only a list that begins with "write" is  *)
(* written from. *)
LEMMA WriteStepsOnly ==
  ASSUME Head(handler.todo) = "write" /\ handler.todo # <<>>
  PROVE  \A writing, writes : /\ ~Handling(<<>>, writing, writes)
                              /\ ~Handling(R, writing, writes) /\ ~Handling(RW, writing, writes)
  BY TodoFacts DEF Handling

(* The write of a block begins: it spoils its own buffer only. *)
LEMMA BeginWriteKeepsRead ==
  ASSUME LoopInv, Sound, BeginWrite
  PROVE  LoopInv'
<1> USE DEF LoopInv
<1>0. PICK n, r : n = medium.writes + 1 /\ r = round
  OBVIOUS
<1>1. /\ handler.todo # <<>> /\ Head(handler.todo) = "write" /\ ~medium.writing
      /\ medium' = [medium EXCEPT
                     !.writing = TRUE, !.writes = n,
                     !.wire = IF Shared THEN @ ELSE Append(@, n),
                     !.memory = IF Shared THEN [@ EXCEPT ![Buffer(n)] = Torn] ELSE @]
      /\ UNCHANGED <<test, pc, round, got, net, handler>>
  BY <1>0 DEF BeginWrite, About
<1>2. /\ medium \in [writing : BOOLEAN, writes : Nat, wire : Seq(Nat),
                     memory : [0..1 -> Nat], closed : SUBSET {"client", "server"}]
      /\ medium.writing = FALSE /\ n \in Nat /\ r \in 1..Iterations + 1
  BY <1>0, <1>1 DEF Frame
<1>3. /\ medium'.writing = TRUE /\ medium'.writes = n /\ medium'.closed = medium.closed
      /\ medium'.wire = (IF Shared THEN medium.wire ELSE Append(medium.wire, n))
      /\ medium'.memory = (IF Shared THEN [medium.memory EXCEPT ![Buffer(n)] = Torn]
                                     ELSE medium.memory)
  BY <1>1, <1>2
<1>4. Frame'
  <2>1. medium'.wire \in Seq(Nat)
    <3>1. medium.wire \in Seq(Nat) /\ Append(medium.wire, n) \in Seq(Nat)
      BY <1>2, AppendProperties
    <3> QED
      BY <1>3, <3>1
  <2>2. medium'.memory \in [0..1 -> Nat]
    <3>1. medium.memory \in [0..1 -> Nat] /\ Torn \in Nat
      BY <1>2 DEF Torn
    <3>2. [medium.memory EXCEPT ![Buffer(n)] = Torn] \in [0..1 -> Nat]
      BY ONLY <3>1
    <3> QED
      BY <1>3, <3>1, <3>2
  <2>3. medium' \in [writing : BOOLEAN, writes : Nat, wire : Seq(Nat),
                     memory : [0..1 -> Nat], closed : SUBSET {"client", "server"}]
    BY <1>1, <1>2, <1>3, <2>1, <2>2
  <2> QED
    BY <1>1, <1>3, <2>3 DEF Frame
<1>5. \A writing, writes : /\ ~Handling(<<>>, writing, writes) /\ ~Handling(R, writing, writes)
                           /\ ~Handling(RW, writing, writes)
                           /\ \A todo : ~Handling(todo, TRUE, writes)
  BY <1>1, <1>2, WriteStepsOnly DEF Handling
<1>6. \A todo, k : Handling(todo, FALSE, k) => Handling(todo, TRUE, n)' /\ n = k + 1
  BY <1>0, <1>1, <1>3 DEF Handling
<1>7. \A q, p : Under(q, p)' <=> Under(q, p)
  BY <1>1 DEF Under
<1>8. test.strategy \in Strategies /\ pc \in {"request", "response", "data", "copying", "close"}
  BY DEF Frame, Sound, InLoop
<1>9. round = r /\ round' = r
  BY <1>0, <1>1
<1>10. CASE test.strategy = "SOCKETS"
  <2>1. /\ Handling(W, FALSE, r - 1) /\ medium.wire = <<>>
        /\ \/ pc = "response" /\ Under(0, 1)
           \/ pc = "data" /\ Under(0, 0)
    BY <1>5, <1>8, <1>9, <1>10 DEF ByStrategy, SocketsInv, AllRead, OnItsWay
  <2>2. n = r
    <3>1. n = (r - 1) + 1
      BY ONLY <1>6, <2>1, Zenon
    <3>2. r \in Nat
      BY <1>2
    <3> QED
      BY <3>1, <3>2
  <2>3. medium'.wire = <<r>>
    <3>1. Append(<<>>, r) = <<r>>
      OBVIOUS
    <3> QED
      BY <1>3, <1>10, <2>1, <2>2, <3>1 DEF Shared
  <2>4. OnItsWay(r)'
    BY <1>6, <2>1, <2>2, <2>3 DEF OnItsWay
  <2> QED
    BY <1>1, <1>4, <1>7, <1>9, <1>10, <2>1, <2>4 DEF ByStrategy, SocketsInv, LastIsGot, OnItsWay
<1>11. CASE test.strategy = "SHARED_MEMORY"
  <2>1. pc = "response" /\ Under(0, 0) /\ Handling(WR, FALSE, r - 1)
    BY <1>5, <1>8, <1>9, <1>11 DEF ByStrategy, SharedInv
  <2>2. n = r
    <3>1. n = (r - 1) + 1
      BY ONLY <1>6, <2>1, Zenon
    <3>2. r \in Nat
      BY <1>2
    <3> QED
      BY <3>1, <3>2
  <2>3. Handling(WR, TRUE, r)'
    BY <1>6, <2>1, <2>2
  <2> QED
    BY <1>1, <1>4, <1>7, <1>9, <1>11, <2>1, <2>3 DEF ByStrategy, SharedInv, LastIsGot, Handling
<1>12. CASE test.strategy = "DOUBLE_BUFFERED_SHARED_MEMORY"
  <2>1. \A k \in Nat : Ahead(k) => Ahead(k)' /\ (Holds(k) => Holds(k)')
    <3> SUFFICES ASSUME NEW k \in Nat, Ahead(k) PROVE Ahead(k)' /\ (Holds(k) => Holds(k)')
      OBVIOUS
    <3>1. handler.first = FALSE /\ Handling(W, FALSE, k)
      BY <1>5 DEF Ahead
    <3>2. Handling(W, TRUE, n)' /\ n = k + 1
      BY <1>6, <3>1
    <3>3. Ahead(k)'
      BY <1>1, <3>1, <3>2 DEF Ahead
    <3>4. Buffer(k) \in 0..1 /\ Buffer(n) # Buffer(k) /\ Buffer(k)' = Buffer(k)
      BY <1>1, <1>12, <3>2, BufferFacts DEF Buffer
    <3>5. Holds(k) => Holds(k)'
      <4>1. medium'.memory = [medium.memory EXCEPT ![Buffer(n)] = Torn]
        BY <1>3, <1>12 DEF Shared
      <4>2. medium'.memory[Buffer(k)] = medium.memory[Buffer(k)]
        BY <1>2, <3>4, <4>1
      <4> QED
        BY <3>4, <4>2 DEF Holds
    <3> QED
      BY <3>3, <3>5
  <2>2. r - 1 \in Nat /\ r \in Nat
    BY <1>2
  <2>3. Ready(r - 1) => Ready(r - 1)' /\ r - 1 # 0
    <3>1. ~Handling(<<>>, FALSE, 0)
      BY <1>5
    <3> QED
      BY <1>1, <2>1, <2>2, <3>1 DEF Ready
  <2>4. Handling(WRW, FALSE, 0) => Handling(WRW, TRUE, 1)'
    <3> SUFFICES ASSUME Handling(WRW, FALSE, 0) PROVE Handling(WRW, TRUE, 1)'
      OBVIOUS
    <3>1. Handling(WRW, TRUE, n)'
      BY <1>6, Zenon
    <3>2. n = 0 + 1
      BY <1>6, Zenon
    <3>3. n = 1
      BY <3>2
    <3> QED
      BY <3>1, <3>3
  <2>5. pc' = pc /\ got' = got /\ handler'.first = handler.first
    BY <1>1
  <2>6. DoubleInv
    BY <1>12 DEF ByStrategy
  <2>7. pc \in {"request", "close"} => DoubleInv'
    BY <1>7, <1>9, <2>3, <2>5, <2>6 DEF DoubleInv
  <2>8. pc = "response" => DoubleInv'
    BY <1>5, <1>7, <1>9, <2>1, <2>2, <2>3, <2>4, <2>5, <2>6 DEF DoubleInv
  <2>9. pc \in {"data", "copying"} => DoubleInv'
    BY <1>7, <1>9, <2>1, <2>2, <2>5, <2>6 DEF DoubleInv
  <2>10. DoubleInv'
    BY <1>8, <2>7, <2>8, <2>9
  <2> QED
    BY <1>1, <1>4, <1>12, <2>10 DEF ByStrategy, LastIsGot
<1> QED
  BY <1>4, <1>8, <1>10, <1>11, <1>12 DEF Strategies

(* The write of a block ends: the block is whole in its buffer.            *)
LEMMA EndWriteKeepsRead ==
  ASSUME LoopInv, Sound, EndWrite
  PROVE  LoopInv'
<1> USE DEF LoopInv
<1>0. PICK n, r : n = medium.writes /\ r = round
  OBVIOUS
<1>1. /\ medium.writing
      /\ medium' = [medium EXCEPT
                     !.writing = FALSE,
                     !.memory = IF Shared THEN [@ EXCEPT ![Buffer(n)] = n] ELSE @]
      /\ handler' = [handler EXCEPT !.todo = Tail(@)]
      /\ UNCHANGED <<test, pc, round, got, net>>
  BY <1>0 DEF EndWrite
<1>2. /\ medium \in [writing : BOOLEAN, writes : Nat, wire : Seq(Nat),
                     memory : [0..1 -> Nat], closed : SUBSET {"client", "server"}]
      /\ medium.writing = TRUE /\ n \in Nat /\ r \in 1..Iterations + 1
  BY <1>0, <1>1 DEF Frame
<1>3. /\ medium'.writing = FALSE /\ medium'.writes = n /\ medium'.closed = medium.closed
      /\ medium'.wire = medium.wire
      /\ medium'.memory = (IF Shared THEN [medium.memory EXCEPT ![Buffer(n)] = n]
                                     ELSE medium.memory)
  BY <1>0, <1>1, <1>2
<1>4. handler \in [running : {TRUE}, token : BOOLEAN, first : BOOLEAN, todo : Todos]
  BY DEF Frame
<1>5. handler'.todo = Tail(handler.todo) /\ handler'.first = handler.first
  BY <1>1, <1>4
<1>6. \A todo, writes : ~Handling(todo, FALSE, writes)
  BY <1>2 DEF Handling
<1>7. \A k : /\ Handling(W, TRUE, k) => Handling(<<>>, FALSE, k)' /\ n = k
             /\ Handling(WR, TRUE, k) => Handling(R, FALSE, k)' /\ n = k
             /\ Handling(WRW, TRUE, k) => Handling(RW, FALSE, k)' /\ n = k
  BY <1>0, <1>3, <1>5, TodoFacts DEF Handling
<1>8. \A q, p : Under(q, p)' <=> Under(q, p)
  BY <1>1 DEF Under
<1>9. test.strategy \in Strategies /\ pc \in {"request", "response", "data", "copying", "close"}
  BY DEF Frame, Sound, InLoop
<1>10. Shared => Holds(n)'
  <2>1. Buffer(n) \in 0..1 /\ Buffer(n)' = Buffer(n)
    BY <1>1, <1>2, BufferFacts DEF Buffer
  <2>2. Shared => medium'.memory[Buffer(n)] = n
    BY <1>2, <1>3, <2>1
  <2> QED
    BY <2>1, <2>2 DEF Holds
<1>11. handler.todo \in {W, WR, WRW}
  <2>1. \E k : Handling(W, TRUE, k) \/ Handling(WR, TRUE, k) \/ Handling(WRW, TRUE, k)
    BY <1>6, <1>9 DEF ByStrategy, SocketsInv, SharedInv, DoubleInv, AllRead, OnItsWay, Ready,
       Ahead, Strategies
  <2> QED
    BY <2>1 DEF Handling
<1>12. Frame'
  <2>1. medium'.memory \in [0..1 -> Nat]
    <3>1. medium.memory \in [0..1 -> Nat] /\ n \in Nat
      BY <1>2
    <3>2. [medium.memory EXCEPT ![Buffer(n)] = n] \in [0..1 -> Nat]
      BY ONLY <3>1
    <3> QED
      BY <1>3, <3>1, <3>2
  <2>2. medium' \in [writing : BOOLEAN, writes : Nat, wire : Seq(Nat),
                     memory : [0..1 -> Nat], closed : SUBSET {"client", "server"}]
    BY <1>1, <1>2, <1>3, <2>1
  <2>3. Tail(handler.todo) \in Todos
    BY <1>11, TodoFacts DEF Todos
  <2>4. handler' \in [running : {TRUE}, token : BOOLEAN, first : BOOLEAN, todo : Todos]
    BY <1>1, <1>4, <2>3
  <2> QED
    BY <1>1, <1>3, <2>2, <2>4 DEF Frame
<1>13. round = r /\ round' = r
  BY <1>0, <1>1
<1>14. CASE test.strategy = "SOCKETS"
  <2>1. \A k : AllRead(k) => AllRead(k)'
    BY <1>3, <1>6, <1>7 DEF AllRead
  <2>2. \A k : OnItsWay(k) => OnItsWay(k)'
    BY <1>3, <1>6, <1>7 DEF OnItsWay
  <2>3. \A writes : ~Handling(RW, FALSE, writes)
    BY <1>6
  <2>4. SocketsInv'
    BY <1>1, <1>8, <1>13, <1>14, <2>1, <2>2, <2>3 DEF ByStrategy, SocketsInv
  <2> QED
    BY <1>1, <1>12, <1>14, <2>4 DEF ByStrategy, LastIsGot
<1>15. CASE test.strategy = "SHARED_MEMORY"
  <2>1. pc = "response" /\ Under(0, 0) /\ Handling(WR, TRUE, r)
    BY <1>6, <1>9, <1>13, <1>15 DEF ByStrategy, SharedInv
  <2>2. Handling(R, FALSE, r)' /\ Holds(r)'
    BY <1>7, <1>10, <1>15, <2>1 DEF Shared
  <2>3. SharedInv'
    BY <1>1, <1>8, <1>13, <2>1, <2>2 DEF SharedInv, Handling, Holds, Buffer
  <2> QED
    BY <1>1, <1>12, <1>15, <2>3 DEF ByStrategy, LastIsGot
<1>16. CASE test.strategy = "DOUBLE_BUFFERED_SHARED_MEMORY"
  <2>1. \A k \in Nat : Ahead(k) => Ahead(k)' /\ (Holds(k) => Holds(k)')
    <3> SUFFICES ASSUME NEW k \in Nat, Ahead(k) PROVE Ahead(k)' /\ (Holds(k) => Holds(k)')
      OBVIOUS
    <3>1. handler.first = FALSE /\ Handling(W, TRUE, k + 1)
      BY <1>6 DEF Ahead
    <3>2. Handling(<<>>, FALSE, k + 1)' /\ n = k + 1
      BY <1>7, <3>1
    <3>3. Holds(k + 1)'
      BY <1>10, <1>16, <3>2 DEF Shared
    <3>4. Ahead(k)'
      BY <1>5, <3>1, <3>2, <3>3 DEF Ahead
    <3>5. Buffer(k) \in 0..1 /\ Buffer(n) # Buffer(k) /\ Buffer(k)' = Buffer(k)
      BY <1>1, <1>16, <3>2, BufferFacts DEF Buffer
    <3>6. Holds(k) => Holds(k)'
      <4>1. medium'.memory = [medium.memory EXCEPT ![Buffer(n)] = n]
        BY <1>3, <1>16 DEF Shared
      <4>2. medium'.memory[Buffer(k)] = medium.memory[Buffer(k)]
        BY <1>2, <3>5, <4>1
      <4> QED
        BY <3>5, <4>2 DEF Holds
    <3> QED
      BY <3>4, <3>6
  <2>2. r - 1 \in Nat /\ r \in Nat
    BY <1>2
  <2>3. Ready(r - 1) => Ready(r - 1)' /\ r - 1 # 0
    <3>1. ~Handling(<<>>, FALSE, 0)
      BY <1>6
    <3> QED
      BY <1>1, <2>1, <2>2, <3>1 DEF Ready
  <2>4. Handling(WRW, TRUE, 1) => Handling(RW, FALSE, 1)' /\ Holds(1)'
    BY <1>7, <1>10, <1>16 DEF Shared
  <2>5. pc' = pc /\ got' = got /\ handler'.first = handler.first
    BY <1>1, <1>5
  <2>6. DoubleInv
    BY <1>16 DEF ByStrategy
  <2>7. pc \in {"request", "close"} => DoubleInv'
    BY <1>8, <1>13, <2>3, <2>5, <2>6 DEF DoubleInv
  <2>8. pc = "response" => DoubleInv'
    BY <1>6, <1>8, <1>13, <2>1, <2>2, <2>3, <2>4, <2>5, <2>6 DEF DoubleInv
  <2>9. pc \in {"data", "copying"} => DoubleInv'
    BY <1>8, <1>13, <2>1, <2>2, <2>5, <2>6 DEF DoubleInv
  <2>10. DoubleInv'
    BY <1>9, <2>7, <2>8, <2>9
  <2> QED
    BY <1>1, <1>12, <1>16, <2>10 DEF ByStrategy, LastIsGot
<1> QED
  BY <1>9, <1>12, <1>14, <1>15, <1>16 DEF Strategies

-----------------------------------------------------------------------------
LEMMA NetTyped ==
  ASSUME NetType, ReadTestStep
  PROVE  NetType'
<1>1. CASE ReadClientStep
  BY <1>1 DEF ReadClientStep, NetType, WriteRequest, ReadResponse, ReadSocket, BeginCopy, EndCopy,
     CloseClient, Finish
<1>2. CASE ReadRequest \/ RefuseRequest
  <2>1. net.requests > 0 /\ net' = [net EXCEPT !.requests = net.requests - 1]
    BY <1>2 DEF ReadRequest, RefuseRequest
  <2>2. net.requests - 1 \in Nat
    BY <2>1 DEF NetType
  <2> QED
    BY <2>1, <2>2 DEF NetType
<1>3. CASE Respond \/ BeginWrite \/ ServerEnds \/ EndWrite
  BY <1>3 DEF NetType, Respond, BeginWrite, ServerEnds, EndWrite
<1>4. CASE KillClient \/ BreakStream
  BY <1>4 DEF NetType, KillClient, BreakStream
<1> QED
  BY <1>1, <1>2, <1>3, <1>4 DEF ReadTestStep, ReadHandlerStep

(* The handler of a sound call neither returns nor refuses, and the other  *)
(* steps take the test out of its loop or break its stream. *)
LEMMA ReadStep ==
  ASSUME ReadInv, ReadTestStep
  PROVE  ReadInv'
<1>0. NetType /\ NetType'
  BY NetTyped DEF ReadInv
<1> SUFFICES ASSUME Sound' PROVE LoopInv'
  BY <1>0 DEF ReadInv
<1>1. CASE CloseClient \/ Finish \/ KillClient \/ BreakStream
  BY <1>1 DEF CloseClient, Finish, KillClient, BreakStream, Sound, InLoop
<1>2. ASSUME ~(CloseClient \/ Finish \/ KillClient \/ BreakStream) PROVE Sound
  <2>1. CASE WriteRequest \/ ReadResponse \/ ReadSocket \/ BeginCopy \/ EndCopy
    <3>1. InLoop /\ test' = test
      BY <2>1 DEF WriteRequest, ReadResponse, ReadSocket, BeginCopy, EndCopy, InLoop
    <3>2. net'.call = net.call
      BY <1>0, <2>1 DEF NetType, WriteRequest, ReadResponse, ReadSocket, BeginCopy, EndCopy
    <3> QED
      BY <3>1, <3>2 DEF Sound
  <2>2. CASE ReadHandlerStep \/ EndWrite
    <3>1. pc' = pc /\ test' = test
      BY <2>2 DEF ReadHandlerStep, ReadRequest, Respond, BeginWrite, ServerEnds, RefuseRequest, EndWrite
    <3>2. net'.call = net.call
      BY <1>0, <2>2 DEF NetType, ReadHandlerStep, ReadRequest, Respond, BeginWrite, ServerEnds,
         RefuseRequest, EndWrite
    <3> QED
      BY <3>1, <3>2 DEF Sound, InLoop
  <2> QED
    BY <1>2, <2>1, <2>2 DEF ReadTestStep, ReadClientStep
<1>3. ASSUME Sound PROVE LoopInv /\ ~ServerEnds /\ ~RefuseRequest
  BY <1>3 DEF ReadInv, LoopInv, Frame, ServerEnds, RefuseRequest
<1> QED
  BY <1>1, <1>2, <1>3, RequestKeepsRead, ResponseKeepsRead, SocketKeepsRead, CopyKeepsRead,
     TakeKeepsRead, RespondKeepsRead, BeginWriteKeepsRead, EndWriteKeepsRead
     DEF ReadTestStep, ReadClientStep, ReadHandlerStep

LEMMA ReadUntouched ==
  ASSUME ReadInv, UNCHANGED readVars
  PROVE  ReadInv'
<1> USE DEF readVars
<1>1. NetType' /\ Sound' = Sound
  BY DEF ReadInv, NetType, Sound, InLoop
<1> SUFFICES ASSUME Sound, LoopInv PROVE LoopInv'
  BY <1>1 DEF ReadInv
<1>2. Frame' /\ LastIsGot'
  BY DEF LoopInv, Frame, LastIsGot
<1>3. SocketsInv' = SocketsInv
  BY DEF SocketsInv, Under, Handling, AllRead, OnItsWay
<1>4. SharedInv' = SharedInv
  BY DEF SharedInv, Under, Handling, Holds, Buffer
<1>5. DoubleInv' = DoubleInv
  BY DEF DoubleInv, Under, Handling, Holds, Buffer, Ahead, Ready
<1>6. ByStrategy'
  BY <1>3, <1>4, <1>5 DEF LoopInv, ByStrategy
<1> QED
  BY <1>2, <1>6 DEF LoopInv

(* For any number of iterations and each way of passing data, the block    *)
(* read in an iteration of a sound stream is the one written for it, and   *)
(* whole: with shared memory only the handler's order of responses and     *)
(* writes keeps it from being overwritten during the copy. *)
THEOREM EachRoundReadsItsBlock == Spec => []DataIsOfThisRound
<1>1. Init => ReadInv
  BY DEF Init, ReadInit, ReadInv, NetType, FreshNet, Sound, InLoop
<1>2. ReadInv /\ [Next]_vars => ReadInv'
  <2> SUFFICES ASSUME ReadInv, [Next]_vars PROVE ReadInv'
    OBVIOUS
  <2>1. CASE NextReadTest
    BY <2>1, BeginKeepsRead DEF NextReadTest
  <2>2. CASE ReadTestStep
    BY <2>2, ReadStep
  <2>3. CASE NextMonikerTest \/ (MonikerTestStep /\ UNCHANGED readVars) \/ UNCHANGED vars
    BY <2>3, ReadUntouched DEF NextMonikerTest, vars
  <2> QED
    BY <2>1, <2>2, <2>3 DEF Next
<1>3. ReadInv => DataIsOfThisRound
  BY DEF ReadInv, LoopInv, LastIsGot, Sound, InLoop, DataIsOfThisRound
<1> QED
  BY <1>1, <1>2, <1>3, PTL DEF Spec
=============================================================================
