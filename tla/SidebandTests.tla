---------------------------- MODULE SidebandTests ---------------------------
(***************************************************************************)
(* The sideband tests as RunConfiguredTests runs them                      *)
(* (src/src/perftest_client.cc:418-466): the read tests first, then the    *)
(* round-trip tests.  A test begins when the client's side of the last one *)
(* is over; the server's side, a handler or a detached thread, may lag     *)
(* behind.                                                                 *)
(***************************************************************************)
EXTENDS SidebandRead, SidebandMoniker

vars == <<readVars, monikerVars>>

TypeOK == ReadTypeOK /\ MonikerTypeOK

Init == ReadInit /\ MonikerInit

MonikerNotBegun == \A s \in Sessions : socket[s] = "none"

NextReadTest ==
  /\ MonikerNotBegun
  /\ \E strategy \in Strategies, size \in {"valid", "too large"} : BeginRead(strategy, size)
  /\ UNCHANGED monikerVars

NextMonikerTest ==
  /\ pc = "done"
  /\ \E s \in Sessions : BeginMoniker(s)
  /\ UNCHANGED readVars

Next ==
  \/ NextReadTest
  \/ NextMonikerTest
  \/ ReadTestStep /\ UNCHANGED monikerVars
  \/ MonikerTestStep /\ UNCHANGED readVars

(* Both programs run, and the library delivers what was written.  No       *)
(* connection need break and no client need be killed. *)
Fairness ==
  /\ WF_vars(ReadClientStep /\ UNCHANGED monikerVars)
  /\ WF_vars(ReadHandlerStep /\ UNCHANGED monikerVars)
  /\ WF_vars(EndWriteSurely /\ UNCHANGED monikerVars)
  /\ WF_vars(MonikerClientStep /\ UNCHANGED readVars)
  /\ \A s \in Sessions : WF_vars(LoopStep(s) /\ UNCHANGED readVars)

Spec == Init /\ [][Next]_vars /\ Fairness
=============================================================================
