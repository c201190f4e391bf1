------------------------------ MODULE GoServer -----------------------------
(***************************************************************************)
(* The life of the Go server process around its slot map: two listener     *)
(* goroutines that main waits for, and a signal goroutine that stops the   *)
(* server (src/go/cmd/server/main.go:346-477).                             *)
(*                                                                         *)
(* GracefulStop closes the listeners, lets no call begin and returns when  *)
(* every call has; it does not cancel them.  Serve returns after it.  Only *)
(* the calls that use the slot map are modelled: they are the ones that    *)
(* wait for something other than their own peer.                           *)
(***************************************************************************)
EXTENDS GoRelay

CONSTANT Listeners  \* the goroutines of serveTCP and serveUDS

VARIABLES
  proc,      \* what the signal goroutine and main have done
  listener   \* where a listener goroutine is

vars == <<relayVars, proc, listener>>
procVars == <<proc, listener>>

(* The goroutine is over: wg.Done was called. *)
Over == {"failed", "broken", "served"}

TypeOK ==
  /\ RelayTypeOK
  /\ proc \in {"serving", "stopping", "stopped", "exited"}
  /\ listener \in [Listeners -> {"starting", "listening"} \cup Over]

Init ==
  /\ RelayInit
  /\ proc = "serving"
  /\ listener = [l \in Listeners |-> "starting"]

NoCalls ==
  /\ \A s \in Servers : ~Running(s)
  /\ \A c \in Clients : ccall[c] = "closed"

-----------------------------------------------------------------------------
Goes(l, from, to) ==
  /\ listener[l] = from
  /\ listener' = [listener EXCEPT ![l] = to]
  /\ UNCHANGED <<relayVars, proc>>

(* Serve fails at once when the server is being stopped, before the calls  *)
(* are over. *)
Listen(l) ==
  /\ proc # "exited"
  /\ Goes(l, "starting", IF proc = "serving" THEN "listening" ELSE "failed")

(* The address is taken, or the socket file cannot be removed.  The error  *)
(* is logged and the other listener goes on.                               *)
ListenFails(l) == proc # "exited" /\ Goes(l, "starting", "failed")

(* Accept fails for good: Serve gives up.  The connections it accepted     *)
(* live on.                                                                *)
ServeFails(l) == proc = "serving" /\ Goes(l, "listening", "broken")

ServeReturns(l) == proc = "stopped" /\ Goes(l, "listening", "served")

Accepting == proc = "serving" /\ \E l \in Listeners : listener[l] \in {"listening", "broken"}

(* The first SIGINT or SIGTERM; later ones stay in the channel. *)
Signal ==
  /\ proc = "serving"
  /\ proc' = "stopping"
  /\ UNCHANGED <<relayVars, listener>>

(* Mutant of GracefulStopReturns: it waits for client calls only, which    *)
(* are the ones that are answered.                                         *)
GracefulStopForgetsWaiters ==
  /\ proc = "stopping"
  /\ \A c \in Clients : ccall[c] = "closed"
  /\ proc' = "stopped"
  /\ UNCHANGED <<relayVars, listener>>

GracefulStopReturns ==
  /\ proc = "stopping"
  /\ NoCalls
  /\ proc' = "stopped"
  /\ UNCHANGED <<relayVars, listener>>

(* wg.Wait returns when every listener is over, stopped or not. *)
Exit ==
  /\ proc # "exited"
  /\ \A l \in Listeners : listener[l] \in Over
  /\ proc' = "exited"
  /\ UNCHANGED <<relayVars, listener>>

Next ==
  \/ Accepting /\ Opens /\ UNCHANGED procVars
  \/ proc # "exited" /\ Handlers /\ UNCHANGED procVars
  \/ \E l \in Listeners : Listen(l) \/ ListenFails(l) \/ ServeFails(l) \/ ServeReturns(l)
  \/ Signal \/ GracefulStopReturns \/ Exit

-----------------------------------------------------------------------------
Runs(A) == proc # "exited" /\ A /\ UNCHANGED procVars

(* Send on a stream whose call is over fails; on one that is alive it may  *)
(* block for as long as the peer does not read.                            *)
SendFails(c) ==
  /\ \/ cwriter[c] \in done
     \/ cwriter[c] # NoStream /\ ~Running(cwriter[c])
  /\ SendReturns(c)

(* Goroutines run; a peer owes nothing, and no signal need arrive. *)
Fairness ==
  /\ \A s \in Servers : WF_vars(Runs(ServerReturns(s)))
  /\ \A c \in Clients : WF_vars(Runs(SendFails(c) \/ EndOfStream(c) \/ RecvFails(c)))
  /\ \A l \in Listeners : WF_vars(Listen(l) \/ ListenFails(l)) /\ WF_vars(ServeReturns(l))
  /\ WF_vars(GracefulStopReturns) /\ WF_vars(Exit)

Spec == Init /\ [][Next]_vars /\ Fairness

-----------------------------------------------------------------------------
(* A stream leaves the map, or loses its slot, only because another call   *)
(* registers there, because a client stream whose last message named the   *)
(* slot (or that sent none, for slot 0) was half-closed, or because the    *)
(* context of some handler of that slot is done: never because a client    *)
(* stream failed, and never because of the process's shutdown.             *)
RemovalHasACause ==
  [][\A x \in Slots :
       writers[x] # NoStream /\ writers'[x] # writers[x] =>
         \/ writers'[x] # NoStream
         \/ \E c \in Clients : cslot[c] = x /\ peer[c] = "halfclosed"
         \/ \E s \in done : waiting[s] = x]_vars

(* The process exits in the middle of a call only if every listener has    *)
(* failed; otherwise it exits with no call running and an empty map, even  *)
(* when the signal comes while a listener is still being set up.           *)
ExitIsClean ==
  proc = "exited" =>
    \/ NoCalls /\ \A x \in Slots : writers[x] = NoStream
    \/ \A l \in Listeners : listener[l] \in {"failed", "broken"}

(* Every peer has ended its side of its call. *)
PeersAreGone ==
  /\ \A s \in Servers : Running(s) => s \in done
  /\ \A c \in Clients : ccall[c] # "closed" => peer[c] # "open"

(* A signalled process exits once its peers are gone: no handler waits for *)
(* another, and no listener goroutine is forgotten.                        *)
ShutdownEnds == (proc = "stopping" /\ PeersAreGone) ~> (proc = "exited")
=============================================================================
