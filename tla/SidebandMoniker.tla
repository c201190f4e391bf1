-------------------------- MODULE SidebandMoniker --------------------------
(***************************************************************************)
(* The sideband round-trip test: BeginSidebandStream announces a sideband  *)
(* and leaves a detached thread that echoes what it reads from it          *)
(* (src/src/perftest_server.cc:282-343); the client writes and reads       *)
(* messages, and ends the thread with a message that says cancel           *)
(* (src/src/performance_tests.cc:830-902).                                 *)
(*                                                                         *)
(* The sideband is a socket of a library that is not part of the           *)
(* repository.  A read from a socket that was dropped or closed gives an   *)
(* empty message, not an error.  Messages differ in being a cancel or not. *)
(***************************************************************************)
EXTENDS Naturals, Sequences

CONSTANTS
  Sessions,  \* identifiers of sidebands, one for each test
  NoSession,
  WarmUp,    \* rounds whose results are ignored (10 in the code)
  Timed      \* rounds that are timed (latency_iterations)

ASSUME NoSessionAssumption == NoSession \notin Sessions
(* Without a timed round there is no report. *)
ASSUME RoundsAssumption == WarmUp \in Nat /\ Timed \in Nat \ {0}

Rounds == WarmUp + Timed
Messages == {"values", "cancel"}

VARIABLES
  mpc,      \* where the client is
  session,  \* its session
  mround,   \* its round
  echoed,   \* rounds of this test whose reply was read
  outcome,  \* how the last test ended
  loop,     \* the thread of each session
  socket,   \* the socket of each session
  up,       \* messages on their way to each thread
  down      \* how many replies are on their way to the client

clientState == <<mpc, session, mround, echoed, outcome>>
monikerVars == <<clientState, loop, socket, up, down>>

MonikerTypeOK ==
  /\ mpc \in {"idle", "write", "read", "cancel", "close"}
  /\ session \in Sessions \cup {NoSession}
  /\ mround \in 1..Rounds + 1 /\ echoed \in 0..Rounds
  /\ outcome \in {"none", "failed", "reported", "discarded"}
  /\ loop \in [Sessions -> {"none", "reading", "echoing", "closed"}]
  /\ socket \in [Sessions -> {"none", "waiting", "open", "dropped", "closed"}]
  /\ up \in [Sessions -> Seq(Messages)]
  /\ down \in [Sessions -> 0..1]

MonikerInit ==
  /\ mpc = "idle" /\ session = NoSession /\ mround = 1 /\ echoed = 0 /\ outcome = "none"
  /\ loop = [s \in Sessions |-> "none"]
  /\ socket = [s \in Sessions |-> "none"]
  /\ up = [s \in Sessions |-> <<>>]
  /\ down = [s \in Sessions |-> 0]

-----------------------------------------------------------------------------
(* BeginSidebandStream announces the sideband and starts the thread. *)
Announce(s) ==
  /\ mpc = "idle" /\ socket[s] = "none"
  /\ loop' = [loop EXCEPT ![s] = "reading"]
  /\ UNCHANGED <<up, down>>

(* The client gets the answer, and connects. *)
BeginTest(s) ==
  /\ Announce(s)
  /\ socket' = [socket EXCEPT ![s] = "open"]
  /\ mpc' = "write" /\ session' = s /\ mround' = 1 /\ echoed' = 0 /\ outcome' = "none"

(* The call fails after its handler ran: the client returns and nobody     *)
(* connects to the sideband. *)
BeginFails(s) ==
  /\ Announce(s)
  /\ socket' = [socket EXCEPT ![s] = "waiting"]
  /\ outcome' = "failed"
  /\ UNCHANGED <<mpc, session, mround, echoed>>

(* The loop of the warm-up and the timed loop, one after the other.  The   *)
(* results of the writes are ignored. *)
NextOr(last) == mpc' = IF mround = Rounds THEN last ELSE "write"

WriteMessage ==
  /\ mpc = "write"
  /\ mpc' = "read"
  /\ up' = [up EXCEPT ![session] = IF socket[session] = "open" THEN Append(@, "values") ELSE @]
  /\ UNCHANGED <<session, mround, echoed, outcome, loop, socket, down>>

ReadReply ==
  /\ mpc = "read" /\ down[session] > 0
  /\ down' = [down EXCEPT ![session] = @ - 1]
  /\ echoed' = echoed + 1
  /\ mround' = mround + 1
  /\ NextOr("cancel")
  /\ UNCHANGED <<session, outcome, loop, socket, up>>

SocketIsOver == socket[session] = "dropped" \/ loop[session] = "closed"

(* Mutant of ReadFails: the empty message is taken for a reply. *)
ReadEmptyMessage ==
  /\ mpc = "read" /\ down[session] = 0 /\ SocketIsOver
  /\ mround' = mround + 1
  /\ NextOr("cancel")
  /\ UNCHANGED <<session, echoed, outcome, loop, socket, up, down>>

(* The read fails or gives an empty message: ignored in the warm-up; the   *)
(* test is abandoned, without a cancel, in a timed round.                  *)
ReadFails ==
  /\ mpc = "read" /\ down[session] = 0 /\ SocketIsOver
  /\ \/ mround <= WarmUp /\ mround' = mround + 1 /\ NextOr("cancel") /\ UNCHANGED outcome
     \/ mround > WarmUp /\ mpc' = "close" /\ outcome' = "discarded" /\ UNCHANGED mround
  /\ UNCHANGED <<session, echoed, loop, socket, up, down>>

(* The cancel, and a second later the end; the results are written. *)
WriteCancel ==
  /\ mpc = "cancel"
  /\ mpc' = "close"
  /\ outcome' = "reported"
  /\ up' = [up EXCEPT ![session] = IF socket[session] = "open" THEN Append(@, "cancel") ELSE @]
  /\ UNCHANGED <<session, mround, echoed, loop, socket, down>>

CloseSession ==
  /\ mpc = "close"
  /\ mpc' = "idle" /\ session' = NoSession
  /\ socket' = [socket EXCEPT ![session] = IF @ = "open" THEN "closed" ELSE @]
  /\ UNCHANGED <<mround, echoed, outcome, loop, up, down>>

(* The connection breaks, or the client is killed. *)
DropSocket(s) ==
  /\ socket[s] = "open"
  /\ socket' = [socket EXCEPT ![s] = "dropped"]
  /\ \E n \in 0..Len(up[s]), k \in 0..down[s] :
       /\ up' = [up EXCEPT ![s] = SubSeq(@, 1, n)]
       /\ down' = [down EXCEPT ![s] = k]
  /\ UNCHANGED <<clientState, loop>>

-----------------------------------------------------------------------------
(* The detached thread: RunSidebandReadWriteLoop *)

LoopReads(s) ==
  /\ loop[s] = "reading" /\ up[s] # <<>>
  /\ up' = [up EXCEPT ![s] = Tail(@)]
  /\ loop' = [loop EXCEPT ![s] = IF Head(up[s]) = "cancel" THEN "closed" ELSE "echoing"]
  /\ UNCHANGED <<clientState, socket, down>>

(* Mutant of LoopReadsNothing: it waits for a cancel, and does not look at *)
(* an empty message. *)
LoopRetries(s) ==
  /\ loop[s] = "reading" /\ up[s] = <<>> /\ socket[s] \in {"dropped", "closed"}
  /\ UNCHANGED monikerVars

(* The read fails or gives an empty message: the thread closes its end. *)
LoopReadsNothing(s) ==
  /\ loop[s] = "reading" /\ up[s] = <<>> /\ socket[s] \in {"dropped", "closed"}
  /\ loop' = [loop EXCEPT ![s] = "closed"]
  /\ UNCHANGED <<clientState, socket, up, down>>

(* The echo, which may fail or be lost on a socket that is over. *)
LoopEchoes(s) ==
  /\ loop[s] = "echoing"
  /\ \/ /\ socket[s] = "open"
        /\ down' = [down EXCEPT ![s] = @ + 1]
        /\ loop' = [loop EXCEPT ![s] = "reading"]
     \/ /\ socket[s] # "open"
        /\ loop' \in {[loop EXCEPT ![s] = "reading"], [loop EXCEPT ![s] = "closed"]}
        /\ UNCHANGED down
  /\ UNCHANGED <<clientState, socket, up>>

-----------------------------------------------------------------------------
MonikerClientStep == WriteMessage \/ ReadReply \/ ReadFails \/ WriteCancel \/ CloseSession
LoopStep(s) == LoopReads(s) \/ LoopReadsNothing(s) \/ LoopEchoes(s)

BeginMoniker(s) == BeginTest(s) \/ BeginFails(s)

MonikerTestStep ==
  \/ MonikerClientStep
  \/ \E s \in Sessions : DropSocket(s) \/ LoopStep(s)

-----------------------------------------------------------------------------
(* Round trips are reported only if every one of them came back, those of  *)
(* the warm-up too, although their results are ignored: a socket does not  *)
(* come back to life. *)
MonikerReportIsComplete == outcome = "reported" => echoed = Rounds

(* A test that has begun ends, and so does its thread, with or without a   *)
(* cancel.  (A thread to whose sideband no client connects waits for ever.)*)
MonikerTestEnds ==
  \A s \in Sessions : (session = s) ~> (session # s /\ loop[s] = "closed")
=============================================================================
