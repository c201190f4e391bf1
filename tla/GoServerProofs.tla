--------------------------- MODULE GoServerProofs ---------------------------
(***************************************************************************)
(* Theorems about the Go server for any number of slots, calls and         *)
(* listeners, with their proofs.                                           *)
(***************************************************************************)
EXTENDS GoServer, TLAPS

USE ZeroSlotAssumption, NoSlotAssumption, NoStreamAssumption,
    ServerSlotsAssumption, ClientSlotsAssumption

(* What the handlers' steps and the opening of calls keep by themselves. *)
RelayInv == RelayTypeOK /\ MapIsLive /\ ReplyStaysOnSlot

(* A step of a call, or a stutter, keeps the relay's invariant. *)
LEMMA RelayInvStep ==
  ASSUME RelayInv, Opens \/ Handlers \/ UNCHANGED relayVars
  PROVE  RelayInv'
<1> USE DEF RelayInv, RelayTypeOK, MapIsLive, ReplyStaysOnSlot, Running,
            clientVars, serverVars
<1>1. ASSUME NEW s \in Servers, NEW x \in Slots, Register(s, x) PROVE RelayInv'
  <2> USE <1>1 DEF Register
  <2>1. \A y \in Slots : writers[y] # s
    OBVIOUS
  <2>2. \A c \in Clients : cwriter[c] # s
    BY DEF Held
  <2>3. RelayTypeOK' /\ MapIsLive'
    BY <2>1
  <2>4. ReplyStaysOnSlot'
    BY <2>2
  <2> QED BY <2>3, <2>4
<1>2. ASSUME NEW c \in Clients, OpenClientStream(c) PROVE RelayInv'
  BY <1>2 DEF OpenClientStream
<1>3. ASSUME NEW s \in Servers, ContextDone(s) PROVE RelayInv'
  BY <1>3 DEF ContextDone
<1>4. ASSUME NEW s \in Servers, ServerReturns(s) PROVE RelayInv'
  BY <1>4 DEF ServerReturns
<1>5. ASSUME NEW c \in Clients, HalfClose(c) PROVE RelayInv'
  BY <1>5 DEF HalfClose
<1>6. ASSUME NEW c \in Clients, BreakCall(c) PROVE RelayInv'
  BY <1>6 DEF BreakCall
<1>7. ASSUME NEW c \in Clients, NEW x \in Slots, Relay(c, x) PROVE RelayInv'
  <2> USE <1>7 DEF Relay
  <2>1. RelayTypeOK' /\ MapIsLive'
    OBVIOUS
  <2>2. writers[x] # NoStream => waiting[writers[x]] = x
    OBVIOUS
  <2>3. ReplyStaysOnSlot'
    BY <2>2
  <2> QED BY <2>1, <2>3
<1>8. ASSUME NEW c \in Clients, SendReturns(c) PROVE RelayInv'
  BY <1>8 DEF SendReturns
<1>9. ASSUME NEW c \in Clients, EndOfStream(c) PROVE RelayInv'
  BY <1>9 DEF EndOfStream, Close
<1>10. ASSUME NEW c \in Clients, RecvFails(c) PROVE RelayInv'
  BY <1>10 DEF RecvFails, Close
<1>11. CASE UNCHANGED relayVars
  BY <1>11 DEF relayVars
<1> QED
  BY <1>1, <1>2, <1>3, <1>4, <1>5, <1>6, <1>7, <1>8, <1>9, <1>10, <1>11
  DEF Opens, Handlers

(* A listener's Serve returns only after the last call: from then on no    *)
(* call runs. *)
Drained ==
  /\ proc = "stopped" => NoCalls
  /\ \A l \in Listeners :
       listener[l] = "served" => proc \in {"stopped", "exited"} /\ NoCalls
  /\ proc = "exited" => NoCalls \/ \A l \in Listeners : listener[l] \in {"failed", "broken"}

IInv == TypeOK /\ RelayInv /\ Drained

(* A handler's step needs a call that runs. *)
LEMMA NoCallNoStep == NoCalls => ~Handlers
BY DEF NoCalls, Handlers, ContextDone, ServerReturns, HalfClose, BreakCall,
       Relay, SendReturns, EndOfStream, RecvFails, Close

(* A fresh process satisfies the invariant. *)
LEMMA InitEstablishesIInv == Init => IInv
BY DEF Init, RelayInit, IInv, TypeOK, RelayTypeOK, RelayInv, MapIsLive,
       ReplyStaysOnSlot, Running, Drained, Over

(* Every step of the process keeps the invariant. *)
LEMMA IInvStep == IInv /\ [Next]_vars => IInv'
<1> SUFFICES ASSUME IInv, [Next]_vars PROVE IInv'
  OBVIOUS
<1> USE DEF IInv, TypeOK
<1>1. CASE Accepting /\ Opens /\ UNCHANGED procVars
  <2>1. RelayInv'
    BY <1>1, RelayInvStep
  <2>2. Drained'
    BY <1>1 DEF Accepting, procVars, Drained, Over
  <2> QED BY <1>1, <2>1, <2>2 DEF procVars, RelayInv
<1>2. CASE proc # "exited" /\ Handlers /\ UNCHANGED procVars
  <2>1. RelayInv'
    BY <1>2, RelayInvStep
  <2>2. Drained'
    BY <1>2, NoCallNoStep DEF procVars, Drained
  <2> QED BY <1>2, <2>1, <2>2 DEF procVars, RelayInv
<1>3. ASSUME UNCHANGED relayVars,
             listener' \in [Listeners -> {"starting", "listening"} \cup Over],
             proc' \in {"serving", "stopping", "stopped", "exited"},
             (NoCalls' <=> NoCalls) => Drained'
      PROVE  IInv'
  <2>1. RelayInv'
    BY <1>3, RelayInvStep
  <2>2. NoCalls' <=> NoCalls
    BY <1>3 DEF relayVars, NoCalls, Running
  <2> QED BY <1>3, <2>1, <2>2 DEF RelayInv
<1> USE DEF Drained, Over, Goes
<1>4. ASSUME NEW l \in Listeners, Listen(l) PROVE IInv'
  BY <1>3, <1>4 DEF Listen
<1>5. ASSUME NEW l \in Listeners, ListenFails(l) PROVE IInv'
  BY <1>3, <1>5 DEF ListenFails
<1>6. ASSUME NEW l \in Listeners, ServeFails(l) PROVE IInv'
  BY <1>3, <1>6 DEF ServeFails
<1>7. ASSUME NEW l \in Listeners, ServeReturns(l) PROVE IInv'
  BY <1>3, <1>7 DEF ServeReturns
<1>8. CASE Signal
  BY <1>3, <1>8 DEF Signal
<1>9. CASE GracefulStopReturns
  BY <1>3, <1>9 DEF GracefulStopReturns
<1>10. CASE Exit
  BY <1>3, <1>10 DEF Exit
<1>11. CASE UNCHANGED vars
  BY <1>3, <1>11 DEF vars
<1> QED
  BY <1>1, <1>2, <1>4, <1>5, <1>6, <1>7, <1>8, <1>9, <1>10, <1>11 DEF Next

(* The invariant holds of every reachable state. *)
LEMMA Inductive == Spec => []IInv
BY InitEstablishesIInv, IInvStep, PTL DEF Spec

(* The map, the calls and the process have their types. *)
THEOREM TypeCorrect == Spec => []TypeOK
<1>1. IInv => TypeOK
  BY DEF IInv
<1> QED BY <1>1, Inductive, PTL

(* A lookup never returns the stream of a call that has returned. *)
THEOREM NoDeadStreamInMap == Spec => []MapIsLive
<1>1. IInv => MapIsLive
  BY DEF IInv, RelayInv
<1> QED BY <1>1, Inductive, PTL

(* A stream that is used after the lock is released is still one of the    *)
(* slot it was looked up in. *)
THEOREM RepliesStayOnSlot == Spec => []ReplyStaysOnSlot
<1>1. IInv => ReplyStaysOnSlot
  BY DEF IInv, RelayInv
<1> QED BY <1>1, Inductive, PTL

(* Unless every listener has failed, main returns with no call running and *)
(* nothing in the map. *)
THEOREM ShutdownIsClean == Spec => []ExitIsClean
<1>1. IInv => ExitIsClean
  BY DEF IInv, RelayInv, RelayTypeOK, MapIsLive, NoCalls, Running, Drained, ExitIsClean
<1> QED BY <1>1, Inductive, PTL

(* A stream leaves the map only for one of the three reasons. *)
THEOREM NoCauselessRemoval == Spec => RemovalHasACause
<1> DEFINE Caused ==
      \A x \in Slots :
        writers[x] # NoStream /\ writers'[x] # writers[x] =>
          \/ writers'[x] # NoStream
          \/ \E c \in Clients : cslot[c] = x /\ peer[c] = "halfclosed"
          \/ \E s \in done : waiting[s] = x
<1>1. IInv /\ [Next]_vars => [Caused]_vars
  <2> SUFFICES ASSUME IInv, Next, NEW x \in Slots,
                      writers[x] # NoStream, writers'[x] = NoStream
               PROVE  \/ \E c \in Clients : cslot[c] = x /\ peer[c] = "halfclosed"
                      \/ \E s \in done : waiting[s] = x
    OBVIOUS
  <2> USE DEF IInv, RelayInv, RelayTypeOK
  <2>1. ASSUME NEW s \in Servers, NEW y \in Slots, Register(s, y) PROVE FALSE
    BY <2>1 DEF Register
  <2>2. ASSUME NEW s \in Servers, ServerReturns(s) PROVE \E t \in done : waiting[t] = x
    BY <2>2 DEF ServerReturns, Running
  <2>3. ASSUME NEW c \in Clients, EndOfStream(c) PROVE cslot[c] = x /\ peer[c] = "halfclosed"
    BY <2>3 DEF EndOfStream, Close
  <2>4. \/ \E s \in Servers, y \in Slots : Register(s, y)
        \/ \E s \in Servers : ServerReturns(s)
        \/ \E c \in Clients : EndOfStream(c)
    <3> USE DEF serverVars, relayVars, clientVars
    <3>1. ASSUME UNCHANGED writers PROVE FALSE
      BY <3>1
    <3>2. CASE Opens
      BY <3>1, <3>2 DEF Opens, OpenClientStream
    <3>3. CASE Handlers
      BY <3>1, <3>3 DEF Handlers, ContextDone, HalfClose, BreakCall, Relay, SendReturns, RecvFails
    <3> QED
      BY <3>1, <3>2, <3>3
      DEF Next, Listen, ListenFails, ServeFails, ServeReturns, Goes, Signal,
          GracefulStopReturns, Exit
  <2> QED BY <2>1, <2>2, <2>3, <2>4
<1> QED
  BY <1>1, Inductive, PTL DEF Spec, RemovalHasACause
=============================================================================
