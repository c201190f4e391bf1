------------------------------ MODULE GoRelay ------------------------------
(***************************************************************************)
(* The slot map of the Go server and the two handlers that share it        *)
(* (src/go/cmd/server/main.go:57-120).                                     *)
(*                                                                         *)
(* Unlike the C++ table (SlotRelay) the map is only touched under a lock,  *)
(* so a lock section is one step; a stream that was looked up is used      *)
(* after the lock is released.  A StreamLatencyTestServer handler waits    *)
(* for its context and for nothing else, and then removes its slot,        *)
(* whoever is registered there.                                            *)
(*                                                                         *)
(* A server call is known by its stream object.  Objects are collected     *)
(* only when nothing refers to them, so an element of Servers stands for   *)
(* one call after another, and no other call has the object while a        *)
(* handler still holds it.                                                 *)
(***************************************************************************)
EXTENDS Naturals

CONSTANTS
  Slots,        \* the slots that are used
  ZeroSlot,     \* slot 0, the value of a local variable that is not assigned
  Servers,      \* streams of StreamLatencyTestServer calls
  Clients,      \* goroutines that run StreamLatencyTestClient calls
  NoStream,     \* nil
  NoSlot,       \* no call has this stream
  ServerSlots,  \* the slots the request of a server call may name
  ClientSlots   \* the slots the messages of a client call may name

ASSUME ZeroSlotAssumption == ZeroSlot \in Slots
ASSUME NoSlotAssumption == NoSlot \notin Slots
ASSUME NoStreamAssumption == NoStream \notin Servers
ASSUME ServerSlotsAssumption == ServerSlots \in [Servers -> SUBSET Slots]
ASSUME ClientSlotsAssumption == ClientSlots \in [Clients -> SUBSET Slots]

VARIABLES
  writers,  \* the map; a slot without an entry holds NoStream
  waiting,  \* the slot a running server call registered in, or NoSlot
  done,     \* the server calls whose context is done
  ccall,    \* where a client call is
  cslot,    \* its local variable slot
  cwriter,  \* the stream it has looked up and calls Send on
  peer      \* what the client at the other end of a client call has done

relayVars == <<writers, waiting, done, ccall, cslot, cwriter, peer>>

RelayTypeOK ==
  /\ writers \in [Slots -> Servers \cup {NoStream}]
  /\ waiting \in [Servers -> Slots \cup {NoSlot}]
  /\ done \in SUBSET Servers
  /\ ccall \in [Clients -> {"closed", "reading", "sending"}]
  /\ cslot \in [Clients -> Slots]
  /\ cwriter \in [Clients -> Servers \cup {NoStream}]
  /\ peer \in [Clients -> {"open", "halfclosed", "broken"}]

RelayInit ==
  /\ writers = [x \in Slots |-> NoStream]
  /\ waiting = [s \in Servers |-> NoSlot]
  /\ done = {}
  /\ ccall = [c \in Clients |-> "closed"]
  /\ cslot = [c \in Clients |-> ZeroSlot]
  /\ cwriter = [c \in Clients |-> NoStream]
  /\ peer = [c \in Clients |-> "open"]

Running(s) == waiting[s] # NoSlot
Held(s) == \E c \in Clients : cwriter[c] = s
clientVars == <<ccall, cslot, cwriter, peer>>

-----------------------------------------------------------------------------
(* StreamLatencyTestServer *)

(* Mutant of Register: stores the slot number and not the stream. *)
RegisterSlotNumber(s, x) ==
  /\ ~Running(s) /\ ~Held(s)
  /\ x \in ServerSlots[s]
  /\ writers' = [writers EXCEPT ![x] = x]
  /\ waiting' = [waiting EXCEPT ![s] = x]
  /\ UNCHANGED <<done, clientVars>>

Register(s, x) ==
  /\ ~Running(s) /\ ~Held(s)
  /\ x \in ServerSlots[s]
  /\ writers' = [writers EXCEPT ![x] = s]
  /\ waiting' = [waiting EXCEPT ![s] = x]
  /\ UNCHANGED <<done, clientVars>>

(* The peer cancels the call, or its connection breaks. *)
ContextDone(s) ==
  /\ Running(s)
  /\ done' = done \cup {s}
  /\ UNCHANGED <<writers, waiting, clientVars>>

(* Mutants of ServerReturns: waits until it is removed, as the C++ handler *)
(* does; returns without removing its slot.                                *)
ServerReturnsRemoved(s) ==
  /\ Running(s) /\ writers[waiting[s]] # s
  /\ waiting' = [waiting EXCEPT ![s] = NoSlot]
  /\ done' = done \ {s}
  /\ UNCHANGED <<writers, clientVars>>

ServerReturnsOnly(s) ==
  /\ Running(s) /\ s \in done
  /\ waiting' = [waiting EXCEPT ![s] = NoSlot]
  /\ done' = done \ {s}
  /\ UNCHANGED <<writers, clientVars>>

(* The handler wakes up, removes its slot and returns.  The entry may be   *)
(* that of a call that registered later. *)
ServerReturns(s) ==
  /\ Running(s) /\ s \in done
  /\ writers' = [writers EXCEPT ![waiting[s]] = NoStream]
  /\ waiting' = [waiting EXCEPT ![s] = NoSlot]
  /\ done' = done \ {s}
  /\ UNCHANGED clientVars

-----------------------------------------------------------------------------
(* StreamLatencyTestClient *)

serverVars == <<writers, waiting, done>>

OpenClientStream(c) ==
  /\ ccall[c] = "closed"
  /\ ccall' = [ccall EXCEPT ![c] = "reading"]
  /\ UNCHANGED <<serverVars, cslot, cwriter, peer>>

(* Everything the peer sends is read before its half-close. *)
HalfClose(c) ==
  /\ ccall[c] # "closed" /\ peer[c] = "open"
  /\ peer' = [peer EXCEPT ![c] = "halfclosed"]
  /\ UNCHANGED <<serverVars, ccall, cslot, cwriter>>

BreakCall(c) ==
  /\ ccall[c] # "closed" /\ peer[c] # "broken"
  /\ peer' = [peer EXCEPT ![c] = "broken"]
  /\ UNCHANGED <<serverVars, ccall, cslot, cwriter>>

(* Mutant of Relay: looks up the slot of the message before. *)
RelayToPrevious(c, x) ==
  /\ ccall[c] = "reading" /\ peer[c] = "open"
  /\ x \in ClientSlots[c]
  /\ cslot' = [cslot EXCEPT ![c] = x]
  /\ cwriter' = [cwriter EXCEPT ![c] = writers[cslot[c]]]
  /\ ccall' = [ccall EXCEPT ![c] =
                 IF writers[cslot[c]] = NoStream THEN "reading" ELSE "sending"]
  /\ UNCHANGED <<serverVars, peer>>

(* Recv returns a message and the lock section looks its slot up; a        *)
(* message for a slot without an entry is dropped.  *)
Relay(c, x) ==
  /\ ccall[c] = "reading" /\ peer[c] = "open"
  /\ x \in ClientSlots[c]
  /\ cslot' = [cslot EXCEPT ![c] = x]
  /\ cwriter' = [cwriter EXCEPT ![c] = writers[x]]
  /\ ccall' = [ccall EXCEPT ![c] =
                 IF writers[x] = NoStream THEN "reading" ELSE "sending"]
  /\ UNCHANGED <<serverVars, peer>>

(* Send returns; an error is only logged. *)
SendReturns(c) ==
  /\ ccall[c] = "sending"
  /\ ccall' = [ccall EXCEPT ![c] = "reading"]
  /\ cwriter' = [cwriter EXCEPT ![c] = NoStream]
  /\ UNCHANGED <<serverVars, cslot, peer>>

Close(c) ==
  /\ ccall[c] = "reading"
  /\ ccall' = [ccall EXCEPT ![c] = "closed"]
  /\ cslot' = [cslot EXCEPT ![c] = ZeroSlot]
  /\ peer' = [peer EXCEPT ![c] = "open"]
  /\ UNCHANGED cwriter

(* Recv returns io.EOF: the slot of the last message, or slot 0, is        *)
(* removed, whichever stream is in it, and the call is answered.           *)
EndOfStream(c) ==
  /\ peer[c] = "halfclosed"
  /\ Close(c)
  /\ writers' = [writers EXCEPT ![cslot[c]] = NoStream]
  /\ UNCHANGED <<waiting, done>>

(* Mutant of RecvFails: the error breaks the loop as io.EOF does. *)
RecvFailsAndRemoves(c) ==
  /\ peer[c] = "broken"
  /\ Close(c)
  /\ writers' = [writers EXCEPT ![cslot[c]] = NoStream]
  /\ UNCHANGED <<waiting, done>>

(* Any other error of Recv returns at once: nothing is removed. *)
RecvFails(c) ==
  /\ peer[c] = "broken"
  /\ Close(c)
  /\ UNCHANGED serverVars

-----------------------------------------------------------------------------
(* A call opens only while the server accepts calls; see GoServer. *)
Opens ==
  \/ \E s \in Servers, x \in Slots : Register(s, x)
  \/ \E c \in Clients : OpenClientStream(c)

Handlers ==
  \/ \E s \in Servers : ContextDone(s) \/ ServerReturns(s)
  \/ \E c \in Clients :
       \/ HalfClose(c) \/ BreakCall(c)
       \/ \E x \in Slots : Relay(c, x)
       \/ SendReturns(c) \/ EndOfStream(c) \/ RecvFails(c)

-----------------------------------------------------------------------------
(* Every stream in the map belongs to a handler that still waits on that   *)
(* very slot, so a lookup never returns the stream of a call that has      *)
(* returned, although a handler removes whatever is in its slot.           *)
MapIsLive == \A x \in Slots : writers[x] # NoStream => waiting[writers[x]] = x

(* A looked-up stream is used after the lock is released, when its slot    *)
(* may be removed or taken over; it is still a stream of the slot the      *)
(* message names, or one whose call has returned.                          *)
ReplyStaysOnSlot ==
  \A c \in Clients :
    ccall[c] = "sending" =>
      /\ cwriter[c] # NoStream
      /\ Running(cwriter[c]) => waiting[cwriter[c]] = cslot[c]
=============================================================================
