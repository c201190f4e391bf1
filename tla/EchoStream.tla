----------------------------- MODULE EchoStream -----------------------------
(***************************************************************************)
(* The latency tests over one bidirectional stream: the C++ client's       *)
(* PerformLatencyStreamTest (src/src/performance_tests.cc:978-1025) and    *)
(* PerformLatencyPayloadWriteStreamTest (1076-1112) against a handler of   *)
(* StreamLatencyTest or TestWriteContinuously.                             *)
(*                                                                         *)
(* The client writes a message and reads a reply, round after round, and   *)
(* never closes its side before it has read every reply.  An "interactive" *)
(* handler (C++, Go) answers each message as it comes.  A "collecting"     *)
(* handler (Rust's test_write_continuously) reads messages until the       *)
(* client's side ends and answers them all afterwards.                     *)
(*                                                                         *)
(* A message is known by the round that wrote it, and a reply by the       *)
(* message it answers, although the replies carry no such number.          *)
(***************************************************************************)
EXTENDS Naturals, Sequences

CONSTANTS
  WarmUp,   \* rounds whose reads are ignored (10 and 100 in the code)
  Timed,    \* rounds that are timed (LatencyTestIterations)
  Handler   \* "interactive" or "collecting"

ASSUME RoundsAssumption == WarmUp \in Nat /\ Timed \in Nat \ {0}
ASSUME HandlerAssumption == Handler \in {"interactive", "collecting"}

Rounds == WarmUp + Timed

VARIABLES
  pc,        \* where the test is
  round,     \* the round it is in
  answered,  \* the reads that returned true in this test
  outcome,   \* how the last test ended
  stream,    \* the call, as both sides see it
  up,        \* messages on their way to the handler
  down,      \* replies on their way to the client
  handler,   \* where the handler is
  hand       \* messages the handler has read and not answered

client == <<pc, round, answered, outcome>>
vars == <<client, stream, up, down, handler, hand>>

TypeOK ==
  /\ pc \in {"idle", "write", "read", "close"}
  /\ round \in 0..Rounds
  /\ answered \in 0..Rounds
  /\ outcome \in {"none", "reported", "discarded"}
  /\ stream \in {"open", "broken", "closed"}
  /\ up \in Seq(0..Rounds) /\ down \in Seq(0..Rounds) /\ hand \in Seq(0..Rounds)
  /\ handler \in {"reading", "answering", "returned"}

Init ==
  /\ pc = "idle" /\ round = 0 /\ answered = 0 /\ outcome = "none"
  /\ stream = "closed" /\ up = <<>> /\ down = <<>>
  /\ handler = "returned" /\ hand = <<>>

-----------------------------------------------------------------------------
(* The client.  One call at a time is modelled: a test waits for the last  *)
(* one's handler, which serves a call nobody reads any more.               *)

OpenStream ==
  /\ pc = "idle" /\ handler = "returned"
  /\ pc' = "write" /\ round' = 0 /\ answered' = 0 /\ outcome' = "none"
  /\ stream' = "open" /\ handler' = "reading"
  /\ up' = <<>> /\ down' = <<>> /\ hand' = <<>>

(* The result of Write is ignored. *)
ClientWrite ==
  /\ pc = "write"
  /\ up' = IF stream = "open" THEN Append(up, round) ELSE up
  /\ pc' = "read"
  /\ UNCHANGED <<round, answered, outcome, stream, down, handler, hand>>

(* Mutant of NextRound: the loop runs one round too many. *)
NextRoundLong ==
  /\ round' = round + 1
  /\ IF round = Rounds
       THEN pc' = "close" /\ outcome' = "reported"
       ELSE pc' = "write" /\ UNCHANGED outcome

(* What follows a read that is not a failure: the next round or the end.   *)
NextRound ==
  /\ round' = round + 1
  /\ IF round + 1 = Rounds
       THEN pc' = "close" /\ outcome' = "reported"
       ELSE pc' = "write" /\ UNCHANGED outcome

ReadSucceeds ==
  /\ pc = "read" /\ down # <<>>
  /\ down' = Tail(down)
  /\ answered' = answered + 1
  /\ NextRound
  /\ UNCHANGED <<stream, up, handler, hand>>

(* Mutant of ReadFails: the results are kept. *)
ReadFailsUnnoticed ==
  /\ pc = "read" /\ down = <<>>
  /\ stream # "open" \/ handler = "returned"
  /\ NextRound
  /\ UNCHANGED <<answered, stream, up, down, handler, hand>>

(* Read returns false when the call has ended: this is noticed in a timed  *)
(* round only. *)
ReadFails ==
  /\ pc = "read" /\ down = <<>>
  /\ stream # "open" \/ handler = "returned"
  /\ \/ round < WarmUp /\ NextRound
     \/ round >= WarmUp /\ pc' = "close" /\ outcome' = "discarded" /\ UNCHANGED round
  /\ UNCHANGED <<answered, stream, up, down, handler, hand>>

(* The test returns; its stream and context are destroyed, which cancels   *)
(* the call.  There is no WritesDone.                                      *)
CloseStream ==
  /\ pc = "close"
  /\ pc' = "idle"
  /\ stream' = "closed" /\ up' = <<>> /\ down' = <<>>
  /\ UNCHANGED <<round, answered, outcome, handler, hand>>

-----------------------------------------------------------------------------
(* The call breaks: the server stops, or it refuses a message above its    *)
(* limit of 1 MB.  Replies that have arrived can still be read.            *)
Break ==
  /\ stream = "open"
  /\ stream' = "broken"
  /\ up' = <<>>
  /\ down' \in {down, <<>>}
  /\ UNCHANGED <<client, handler, hand>>

-----------------------------------------------------------------------------
(* The handler *)

(* Mutant of HandlerReads: every handler collects. *)
HandlerCollects ==
  /\ handler = "reading" /\ up # <<>>
  /\ hand' = Append(hand, Head(up))
  /\ up' = Tail(up)
  /\ UNCHANGED <<client, stream, down, handler>>

(* Its next read gives a message: an interactive handler answers it, a     *)
(* collecting one reads on.                                                *)
HandlerReads ==
  /\ handler = "reading" /\ up # <<>>
  /\ hand' = Append(hand, Head(up))
  /\ up' = Tail(up)
  /\ handler' = IF Handler = "interactive" THEN "answering" ELSE "reading"
  /\ UNCHANGED <<client, stream, down>>

(* Mutant of HandlerAnswers: it answers twice. *)
HandlerAnswersTwice ==
  /\ handler = "answering" /\ hand # <<>>
  /\ down' = IF stream = "open" THEN down \o <<Head(hand), Head(hand)>> ELSE down
  /\ hand' = Tail(hand)
  /\ handler' = "reading"
  /\ UNCHANGED <<client, stream, up>>

(* One Write; the interactive handler ignores its result and reads on. *)
HandlerAnswers ==
  /\ handler = "answering" /\ hand # <<>>
  /\ down' = IF stream = "open" THEN Append(down, Head(hand)) ELSE down
  /\ hand' = Tail(hand)
  /\ handler' = "reading"
  /\ UNCHANGED <<client, stream, up>>

(* Mutant of HandlerEnds: the read that fails is tried again. *)
HandlerRetries ==
  /\ handler = "reading" /\ up = <<>> /\ stream # "open"
  /\ UNCHANGED vars

(* The read fails: an interactive handler returns; a collecting one was    *)
(* not half-closed but cut off, and returns the error.                     *)
HandlerEnds ==
  /\ handler = "reading" /\ up = <<>> /\ stream # "open"
  /\ handler' = "returned" /\ hand' = <<>>
  /\ UNCHANGED <<client, stream, up, down>>

ClientStep == ClientWrite \/ ReadSucceeds \/ ReadFails \/ CloseStream
HandlerStep == HandlerReads \/ HandlerAnswers \/ HandlerEnds

Next == OpenStream \/ ClientStep \/ Break \/ HandlerStep

(* Both threads run; the network never has to break. *)
Spec == Init /\ [][Next]_vars /\ WF_vars(ClientStep) /\ WF_vars(HandlerStep)

-----------------------------------------------------------------------------
(* A read of a round never returns the reply of an earlier one: at most    *)
(* one message or reply that can still reach the client is under way, and  *)
(* it is this round's.  The code cannot check this, for the replies carry  *)
(* no number.                                                              *)
ReplyIsOfThisRound ==
  pc \in {"write", "read"} =>
    LET underWay == down \o (IF stream = "open" THEN hand \o up ELSE <<>>) IN
    /\ Len(underWay) <= 1
    /\ \A i \in 1..Len(underWay) : underWay[i] = round /\ pc = "read"

(* Latencies are reported only if every round was answered, the warm-up's  *)
(* too, although its reads are not checked.                                *)
ReportIsComplete == outcome = "reported" => answered = Rounds

(* A test that has begun ends.  (All server implementations are compatible *)
(* with the C++ client, src/README.md:16.)                                 *)
TestEnds == (pc = "write") ~> (pc = "idle")

(* When the client has gone the handler returns. *)
HandlerReturns == (stream = "closed") ~> (handler = "returned")
=============================================================================
