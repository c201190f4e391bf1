--------------------------- MODULE EchoStreamProofs ---------------------------
(***************************************************************************)
(* The echo tests for any number of warm-up and timed rounds and either    *)
(* kind of handler: their types, that a read never returns the reply of an *)
(* earlier round, and that latencies are reported only when every round    *)
(* was answered.                                                           *)
(***************************************************************************)
EXTENDS ClientSuites, SequenceTheorems, TLAPS

USE RoundsAssumption, HandlerAssumption

Testing == pc \in {"write", "read"}
Open == stream = "open"

(* Nothing under way can reach the client. *)
Quiet == down = <<>> /\ (Open => hand = <<>> /\ up = <<>>)

(* The message of this round, or its reply, is in one place. *)
Replied  == down = <<round>> /\ (Open => hand = <<>> /\ up = <<>>)
InHand   == Open /\ down = <<>> /\ hand = <<round>> /\ up = <<>>
Written  == Open /\ down = <<>> /\ hand = <<>> /\ up = <<round>>

OneUnderWay ==
  /\ pc = "write" => Quiet
  /\ pc = "read" => Quiet \/ Replied \/ InHand \/ Written

(* While the call is open the handler runs, and a round that was not       *)
(* answered is one of a broken call from which no reply comes any more.    *)
Unanswered == stream = "broken" /\ down = <<>>
Progress ==
  Testing =>
    /\ round < Rounds
    /\ stream \in {"open", "broken"}
    /\ Open => handler # "returned"
    /\ outcome = "none"
    /\ answered = round \/ (answered < round /\ Unanswered)

EchoInv == TypeOK /\ OneUnderWay /\ Progress /\ ReportIsComplete

LEMMA RoundsType == Rounds \in Nat \ {0} /\ WarmUp < Rounds
  BY DEF Rounds

LEMMA InitIsEcho == Init => EchoInv
<1> SUFFICES ASSUME Init PROVE EchoInv
  OBVIOUS
<1>1. TypeOK
  BY RoundsType DEF Init, TypeOK
<1> QED
  BY <1>1 DEF Init, EchoInv, OneUnderWay, Progress, Testing, ReportIsComplete

-----------------------------------------------------------------------------
(* The steps of the client. *)

LEMMA OpenKeepsEcho == EchoInv /\ OpenStream => EchoInv'
<1> SUFFICES ASSUME EchoInv, OpenStream PROVE EchoInv'
  OBVIOUS
<1>1. TypeOK'
  BY RoundsType DEF EchoInv, OpenStream, TypeOK
<1>2. OneUnderWay'
  BY DEF OpenStream, OneUnderWay, Quiet
<1>3. Progress'
  BY RoundsType DEF OpenStream, Progress
<1> QED
  BY <1>1, <1>2, <1>3 DEF OpenStream, EchoInv, ReportIsComplete

LEMMA WriteKeepsEcho == EchoInv /\ ClientWrite => EchoInv'
<1> SUFFICES ASSUME EchoInv, ClientWrite PROVE EchoInv'
  OBVIOUS
<1>1. TypeOK'
  <2>1. up \in Seq(0..Rounds) /\ round \in 0..Rounds
    BY DEF EchoInv, TypeOK
  <2>2. Append(up, round) \in Seq(0..Rounds)
    BY <2>1, AppendProperties
  <2>3. up' \in Seq(0..Rounds)
    BY <2>1, <2>2 DEF ClientWrite
  <2> QED
    BY <2>3 DEF EchoInv, ClientWrite, TypeOK
<1>2. OneUnderWay'
  <2>1. Quiet
    BY DEF EchoInv, ClientWrite, OneUnderWay
  <2>2. CASE Open
    <3>1. up' = <<round>> /\ stream' = "open"
      BY <2>1, <2>2 DEF ClientWrite, Open, Quiet
    <3>2. Written'
      BY <2>1, <2>2, <3>1 DEF ClientWrite, Open, Quiet, Written
    <3> QED
      BY <3>2 DEF ClientWrite, OneUnderWay
  <2>3. CASE ~Open
    BY <2>1, <2>3 DEF ClientWrite, OneUnderWay, Quiet, Open
  <2> QED
    BY <2>2, <2>3
<1>3. Progress'
  BY DEF EchoInv, ClientWrite, Progress, Testing, Open, Unanswered
<1> QED
  BY <1>1, <1>2, <1>3 DEF ClientWrite, EchoInv, ReportIsComplete

LEMMA ReadKeepsEcho == EchoInv /\ ReadSucceeds => EchoInv'
<1> SUFFICES ASSUME EchoInv, ReadSucceeds PROVE EchoInv'
  OBVIOUS
<1>1. pc = "read" /\ down # <<>> /\ Testing
  BY DEF ReadSucceeds, Testing
<1>2. Replied
  BY <1>1 DEF EchoInv, OneUnderWay, Quiet, InHand, Written
<1>3. down' = <<>>
  BY <1>2 DEF ReadSucceeds, Replied
<1>4. round < Rounds /\ answered = round /\ outcome = "none"
  BY <1>1 DEF EchoInv, Progress, Unanswered
<1>5. round \in Nat /\ round' = round + 1 /\ answered' = round + 1
  BY <1>4 DEF EchoInv, TypeOK, ReadSucceeds, NextRound
<1>6. /\ round + 1 = Rounds => pc' = "close" /\ outcome' = "reported"
      /\ round + 1 # Rounds => pc' = "write" /\ outcome' = outcome
  BY DEF ReadSucceeds, NextRound
<1>7. TypeOK'
  <2>1. round' \in 0..Rounds /\ answered' \in 0..Rounds
    BY <1>4, <1>5, RoundsType
  <2>2. pc' \in {"idle", "write", "read", "close"} /\ outcome' \in {"none", "reported", "discarded"}
    BY <1>4, <1>6
  <2>3. down' \in Seq(0..Rounds)
    BY <1>3
  <2> QED
    BY <2>1, <2>2, <2>3 DEF EchoInv, TypeOK, ReadSucceeds
<1>8. OneUnderWay'
  BY <1>2, <1>3, <1>6 DEF ReadSucceeds, OneUnderWay, Quiet, Replied, Open
<1>9. Progress'
  BY <1>1, <1>4, <1>5, <1>6, RoundsType DEF EchoInv, ReadSucceeds, Progress, Testing, Open
<1>10. ReportIsComplete'
  BY <1>4, <1>5, <1>6 DEF ReportIsComplete
<1> QED
  BY <1>7, <1>8, <1>9, <1>10 DEF EchoInv

LEMMA FailKeepsEcho == EchoInv /\ ReadFails => EchoInv'
<1> SUFFICES ASSUME EchoInv, ReadFails PROVE EchoInv'
  OBVIOUS
<1>1. pc = "read" /\ down = <<>> /\ Testing
  BY DEF ReadFails, Testing
<1>2. stream = "broken"
  BY <1>1 DEF EchoInv, Progress, Open, ReadFails
<1>3. round < Rounds /\ round \in Nat /\ answered \in Nat /\ answered <= round /\ outcome = "none"
  BY <1>1 DEF EchoInv, Progress, TypeOK
<1>4. UNCHANGED <<answered, stream, up, down, handler, hand>>
  BY DEF ReadFails
<1>5. CASE round < WarmUp /\ NextRound
  <2>1. round + 1 # Rounds /\ round + 1 < Rounds
    BY <1>3, <1>5, RoundsType DEF Rounds
  <2>2. pc' = "write" /\ outcome' = outcome /\ round' = round + 1
    BY <1>5, <2>1 DEF NextRound
  <2>3. TypeOK'
    BY <1>3, <1>4, <2>1, <2>2, RoundsType DEF EchoInv, TypeOK
  <2>4. OneUnderWay'
    BY <1>1, <1>2, <1>4, <2>2 DEF OneUnderWay, Quiet, Open
  <2>5. Progress'
    BY <1>1, <1>2, <1>3, <1>4, <2>1, <2>2 DEF Progress, Open, Unanswered
  <2>6. ReportIsComplete'
    BY <1>3, <2>2 DEF ReportIsComplete
  <2> QED
    BY <2>3, <2>4, <2>5, <2>6 DEF EchoInv
<1>6. CASE round >= WarmUp /\ pc' = "close" /\ outcome' = "discarded" /\ UNCHANGED round
  BY <1>4, <1>6 DEF EchoInv, TypeOK, OneUnderWay, Progress, Testing, ReportIsComplete
<1> QED
  BY <1>5, <1>6 DEF ReadFails

LEMMA CloseKeepsEcho == EchoInv /\ CloseStream => EchoInv'
<1> SUFFICES ASSUME EchoInv, CloseStream PROVE EchoInv'
  OBVIOUS
<1>1. TypeOK'
  BY DEF EchoInv, CloseStream, TypeOK
<1> QED
  BY <1>1 DEF EchoInv, CloseStream, OneUnderWay, Progress, Testing, ReportIsComplete

LEMMA BreakKeepsEcho == EchoInv /\ Break => EchoInv'
<1> SUFFICES ASSUME EchoInv, Break PROVE EchoInv'
  OBVIOUS
<1>1. stream = "open" /\ stream' = "broken" /\ up' = <<>> /\ down' \in {down, <<>>}
      /\ UNCHANGED <<client, handler, hand>>
  BY DEF Break
<1>2. TypeOK'
  <2>1. <<>> \in Seq(0..Rounds)
    BY EmptySeq
  <2>2. up' \in Seq(0..Rounds) /\ down' \in Seq(0..Rounds)
    BY <1>1, <2>1 DEF EchoInv, TypeOK
  <2> QED
    BY <1>1, <2>2 DEF EchoInv, TypeOK, client
<1>3. OneUnderWay'
  BY <1>1 DEF EchoInv, OneUnderWay, Quiet, Replied, InHand, Written, Open, client
<1>4. Progress'
  BY <1>1 DEF EchoInv, Progress, Testing, Open, Unanswered, client
<1> QED
  BY <1>1, <1>2, <1>3, <1>4 DEF EchoInv, ReportIsComplete, client

-----------------------------------------------------------------------------
(* The steps of the handler. *)

LEMMA HandlerReadsKeepsEcho == EchoInv /\ HandlerReads => EchoInv'
<1> SUFFICES ASSUME EchoInv, HandlerReads PROVE EchoInv'
  OBVIOUS
<1>1. /\ up # <<>> /\ hand' = Append(hand, Head(up)) /\ up' = Tail(up)
      /\ UNCHANGED <<client, stream, down>> /\ handler' \in {"answering", "reading"}
  BY DEF HandlerReads
<1>2. up \in Seq(0..Rounds) /\ hand \in Seq(0..Rounds)
  BY DEF EchoInv, TypeOK
<1>3. Head(up) \in 0..Rounds /\ up' \in Seq(0..Rounds) /\ hand' \in Seq(0..Rounds)
  <2>1. Head(up) \in 0..Rounds /\ Tail(up) \in Seq(0..Rounds)
    BY <1>1, <1>2, HeadTailProperties
  <2>2. Append(hand, Head(up)) \in Seq(0..Rounds)
    BY <1>2, <2>1, AppendProperties
  <2> QED
    BY <1>1, <2>1, <2>2
<1>4. TypeOK'
  BY <1>1, <1>3 DEF EchoInv, TypeOK, client
<1>5. OneUnderWay'
  <2>1. CASE Open /\ Testing
    <3>1. Written /\ pc = "read"
      BY <1>1, <2>1 DEF EchoInv, OneUnderWay, Quiet, Replied, InHand, Testing
    <3>2. up' = <<>> /\ hand' = <<round>>
      BY <1>1, <3>1 DEF Written
    <3>3. InHand' /\ pc' = "read"
      BY <1>1, <3>1, <3>2 DEF InHand, Written, Open, client
    <3> QED
      BY <3>3 DEF OneUnderWay
  <2>2. CASE ~(Open /\ Testing)
    BY <1>1, <2>2 DEF EchoInv, OneUnderWay, Quiet, Replied, InHand, Written, Open, Testing, client
  <2> QED
    BY <2>1, <2>2
<1>6. Progress'
  BY <1>1 DEF EchoInv, Progress, Testing, Open, Unanswered, client
<1> QED
  BY <1>1, <1>4, <1>5, <1>6 DEF EchoInv, ReportIsComplete, client

LEMMA HandlerAnswersKeepsEcho == EchoInv /\ HandlerAnswers => EchoInv'
<1> SUFFICES ASSUME EchoInv, HandlerAnswers PROVE EchoInv'
  OBVIOUS
<1>1. /\ hand # <<>> /\ hand' = Tail(hand) /\ handler' = "reading"
      /\ down' = IF stream = "open" THEN Append(down, Head(hand)) ELSE down
      /\ UNCHANGED <<client, stream, up>>
  BY DEF HandlerAnswers
<1>2. hand \in Seq(0..Rounds) /\ down \in Seq(0..Rounds)
  BY DEF EchoInv, TypeOK
<1>3. Head(hand) \in 0..Rounds /\ hand' \in Seq(0..Rounds) /\ down' \in Seq(0..Rounds)
  <2>1. Head(hand) \in 0..Rounds /\ Tail(hand) \in Seq(0..Rounds)
    BY <1>1, <1>2, HeadTailProperties
  <2>2. Append(down, Head(hand)) \in Seq(0..Rounds)
    BY <1>2, <2>1, AppendProperties
  <2> QED
    BY <1>1, <1>2, <2>1, <2>2
<1>4. TypeOK'
  BY <1>1, <1>3 DEF EchoInv, TypeOK, client
<1>5. OneUnderWay'
  <2>1. CASE Open /\ Testing
    <3>1. InHand /\ pc = "read"
      BY <1>1, <2>1 DEF EchoInv, OneUnderWay, Quiet, Replied, Written, Testing
    <3>2. hand' = <<>> /\ down' = <<round>>
      BY <1>1, <2>1, <3>1 DEF InHand, Open
    <3>3. Replied' /\ pc' = "read"
      BY <1>1, <3>1, <3>2 DEF Replied, InHand, Open, client
    <3> QED
      BY <3>3 DEF OneUnderWay
  <2>2. CASE ~(Open /\ Testing)
    BY <1>1, <2>2 DEF EchoInv, OneUnderWay, Quiet, Replied, InHand, Written, Open, Testing, client
  <2> QED
    BY <2>1, <2>2
<1>6. Progress'
  BY <1>1 DEF EchoInv, Progress, Testing, Open, Unanswered, client
<1> QED
  BY <1>1, <1>4, <1>5, <1>6 DEF EchoInv, ReportIsComplete, client

LEMMA HandlerEndsKeepsEcho == EchoInv /\ HandlerEnds => EchoInv'
<1> SUFFICES ASSUME EchoInv, HandlerEnds PROVE EchoInv'
  OBVIOUS
<1>1. stream # "open" /\ handler' = "returned" /\ hand' = <<>> /\ UNCHANGED <<client, stream, up, down>>
  BY DEF HandlerEnds
<1>2. TypeOK'
  BY <1>1 DEF EchoInv, TypeOK, client
<1>3. OneUnderWay'
  BY <1>1 DEF EchoInv, OneUnderWay, Quiet, Replied, InHand, Written, Open, client
<1> QED
  BY <1>1, <1>2, <1>3 DEF EchoInv, Progress, Testing, Open, Unanswered, ReportIsComplete, client

LEMMA StutterKeepsEcho == EchoInv /\ UNCHANGED vars => EchoInv'
  BY DEF vars, client, EchoInv, TypeOK, OneUnderWay, Quiet, Replied, InHand, Written, Open,
         Progress, Testing, Unanswered, ReportIsComplete

-----------------------------------------------------------------------------
LEMMA NextKeepsEcho == EchoInv /\ [Next]_vars => EchoInv'
<1> SUFFICES ASSUME EchoInv, [Next]_vars PROVE EchoInv'
  OBVIOUS
<1>1. CASE OpenStream
  BY <1>1, OpenKeepsEcho
<1>2. CASE ClientStep
  BY <1>2, WriteKeepsEcho, ReadKeepsEcho, FailKeepsEcho, CloseKeepsEcho DEF ClientStep
<1>3. CASE Break
  BY <1>3, BreakKeepsEcho
<1>4. CASE HandlerStep
  BY <1>4, HandlerReadsKeepsEcho, HandlerAnswersKeepsEcho, HandlerEndsKeepsEcho DEF HandlerStep
<1>5. CASE UNCHANGED vars
  BY <1>5, StutterKeepsEcho
<1> QED
  BY <1>1, <1>2, <1>3, <1>4, <1>5 DEF Next

LEMMA SpecKeepsEcho == Spec => []EchoInv
  BY InitIsEcho, NextKeepsEcho, PTL DEF Spec

(* A step of a suite is a step of the echo test, or leaves it alone.       *)
LEMMA SuiteStepIsEchoStep == [SuitesNext]_allVars => [Next]_vars
<1> SUFFICES ASSUME [SuitesNext]_allVars PROVE [Next]_vars
  OBVIOUS
<1>1. CASE NextTest
  <2>1. PICK test : test = Suites[suite][at]
    OBVIOUS
  <2>2. OpenStream \/ UNCHANGED vars
    BY <1>1, <2>1 DEF NextTest
  <2> QED
    BY <2>2 DEF Next
<1>2. CASE EchoClient \/ EchoHandler \/ EchoBreaks
  BY <1>2 DEF EchoClient, EchoHandler, EchoBreaks, Next, ClientStep
<1>3. CASE \/ UnaryClient \/ StreamsMain
           \/ \E i \in Threads : StreamsThread(i) \/ StreamsWriter(i) \/ StreamsBreak(i)
  BY <1>3 DEF UnaryClient, StreamsMain, StreamsThread, StreamsWriter, StreamsBreak, besideStreams
<1>4. CASE UNCHANGED allVars
  BY <1>4 DEF allVars
<1> QED
  BY <1>1, <1>2, <1>3, <1>4 DEF SuitesNext

LEMMA SuitesKeepEcho == SuitesSpec => []EchoInv
<1>1. SuitesInit => EchoInv
  BY InitIsEcho DEF SuitesInit
<1>2. EchoInv /\ [SuitesNext]_allVars => EchoInv'
  BY SuiteStepIsEchoStep, NextKeepsEcho
<1> QED
  BY <1>1, <1>2, PTL DEF SuitesSpec

(* One message at most is under way between client and handler. *)
LEMMA OneReply == EchoInv => ReplyIsOfThisRound
<1> SUFFICES ASSUME EchoInv, Testing
             PROVE  LET underWay == down \o (IF stream = "open" THEN hand \o up ELSE <<>>)
                    IN  /\ Len(underWay) <= 1
                        /\ \A i \in 1..Len(underWay) : underWay[i] = round /\ pc = "read"
  BY DEF ReplyIsOfThisRound, Testing
<1> DEFINE underWay == down \o (IF stream = "open" THEN hand \o up ELSE <<>>)
<1>1. underWay = <<>> \/ (underWay = <<round>> /\ pc = "read")
  <2> DEFINE one == <<round>>
  <2>1. one \in Seq(0..Rounds) /\ <<>> \in Seq(0..Rounds)
    BY EmptySeq DEF EchoInv, TypeOK
  <2> HIDE DEF one
  <2>2. /\ <<>> \o <<>> = <<>> /\ one \o <<>> = one /\ <<>> \o one = one
    BY <2>1, ConcatEmptySeq
  <2>3. CASE Quiet
    BY <2>2, <2>3 DEF Quiet, Open
  <2>4. CASE Replied /\ pc = "read"
    <3>1. down = one
      BY <2>4 DEF Replied, one
    <3>2. underWay = one
      BY <2>2, <2>4, <3>1 DEF Replied, Open
    <3> QED
      BY <2>4, <3>2 DEF one
  <2>5. CASE InHand /\ pc = "read"
    <3>1. hand = one
      BY <2>5 DEF InHand, one
    <3>2. underWay = one
      BY <2>2, <2>5, <3>1 DEF InHand, Open
    <3> QED
      BY <2>5, <3>2 DEF one
  <2>6. CASE Written /\ pc = "read"
    <3>1. up = one
      BY <2>6 DEF Written, one
    <3>2. underWay = one
      BY <2>2, <2>6, <3>1 DEF Written, Open
    <3> QED
      BY <2>6, <3>2 DEF one
  <2> QED
    BY <2>3, <2>4, <2>5, <2>6 DEF EchoInv, OneUnderWay, Testing
<1> HIDE DEF underWay
<1>2. CASE underWay = <<>>
  <2>1. Len(underWay) = 0
    BY <1>2
  <2> QED
    BY <2>1 DEF underWay
<1>3. CASE underWay = <<round>> /\ pc = "read"
  <2>1. Len(underWay) = 1 /\ underWay[1] = round
    BY <1>3
  <2> QED
    BY <1>3, <2>1 DEF underWay
<1> QED
  BY <1>1, <1>2, <1>3

(* The types of the echo test, for any rounds and handler. *)
THEOREM TypeCorrect == Spec => []TypeOK
<1>1. EchoInv => TypeOK
  BY DEF EchoInv
<1> QED
  BY <1>1, SpecKeepsEcho, PTL

(* For any number of rounds, a read of PerformLatencyStreamTest or         *)
(* PerformLatencyPayloadWriteStreamTest never returns an earlier round's   *)
(* reply, although calls break and the replies carry no number: with the   *)
(* test repeated, and in every suite of the client. *)
THEOREM NoStaleReply ==
  /\ Spec => []ReplyIsOfThisRound
  /\ SuitesSpec => []ReplyIsOfThisRound
  BY OneReply, SpecKeepsEcho, SuitesKeepEcho, PTL

(* For any number of rounds, the test reports latencies only if each round *)
(* was answered, the warm-up's too, whose reads nobody checks; again, in   *)
(* every suite. *)
THEOREM NothingReportedUnanswered ==
  /\ Spec => []ReportIsComplete
  /\ SuitesSpec => []ReportIsComplete
<1>1. EchoInv => ReportIsComplete
  BY DEF EchoInv
<1> QED
  BY <1>1, SpecKeepsEcho, SuitesKeepEcho, PTL
=============================================================================
