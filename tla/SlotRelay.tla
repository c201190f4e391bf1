----------------------------- MODULE SlotRelay -----------------------------
(***************************************************************************)
(* The static table _writers of the C++ server and the two handlers that   *)
(* share it without a lock (src/src/perftest_server.cc:47-95).             *)
(*                                                                         *)
(* A StreamLatencyTestServer call stores its ServerWriter in the slot its  *)
(* request names and polls until the slot holds something else.  A         *)
(* StreamLatencyTestClient call reads messages; each one names a slot, and *)
(* the handler writes to the ServerWriter it finds there.  When its stream *)
(* ends it zeroes the slot of its last message.  Every handler runs on a   *)
(* thread of its own, and every load and store of the table is a step.     *)
(*                                                                         *)
(* A server call is known by the address of its writer.  The writer lives  *)
(* as long as the handler runs, and a later call may get the same address, *)
(* so an element of Servers stands for one call after another.             *)
(***************************************************************************)
EXTENDS Naturals

CONSTANTS
  Slots,        \* the indices of _writers that are used
  Servers,      \* addresses of the writers of StreamLatencyTestServer calls
  Clients,      \* threads that run StreamLatencyTestClient calls
  NoWriter,     \* nullptr
  NoSlot,       \* no StreamLatencyTestServer call runs at this address
  ServerSlots,  \* the slots the request of a server call may name
  ClientSlots,  \* the slots the messages of a client call may name
  Garbage       \* the values the uninitialised local "slot" may have

ASSUME SlotsAssumption == NoSlot \notin Slots
ASSUME ServersAssumption == NoWriter \notin Servers
ASSUME ServerSlotsAssumption == ServerSlots \in [Servers -> SUBSET Slots]
ASSUME ClientSlotsAssumption == ClientSlots \in [Clients -> SUBSET Slots]
ASSUME GarbageAssumption == Garbage \in SUBSET Slots /\ Garbage # {}

VARIABLES
  writers,  \* the table
  serving,  \* the slot a running server call registered in, or NoSlot
  cpc,      \* where a client call is
  cslot,    \* its local variable slot
  cptr      \* the writer it has loaded and calls Write on

vars == <<writers, serving, cpc, cslot, cptr>>

ClientStates ==
  {"closed", "reading", "checking", "loading", "writing", "clearing"}

TypeOK ==
  /\ writers \in [Slots -> Servers \cup {NoWriter}]
  /\ serving \in [Servers -> Slots \cup {NoSlot}]
  /\ cpc \in [Clients -> ClientStates]
  /\ cslot \in [Clients -> Slots]
  /\ cptr \in [Clients -> Servers \cup {NoWriter}]

(* The value shown for the variable of a handler that does not run. *)
Unset == CHOOSE g \in Garbage : TRUE

(* A fresh process: static storage is zero and no call runs. *)
Init ==
  /\ writers = [x \in Slots |-> NoWriter]
  /\ serving = [s \in Servers |-> NoSlot]
  /\ cpc = [c \in Clients |-> "closed"]
  /\ cslot = [c \in Clients |-> Unset]
  /\ cptr = [c \in Clients |-> NoWriter]

Running(s) == serving[s] # NoSlot

-----------------------------------------------------------------------------
(* StreamLatencyTestServer *)

(* Mutant of RegisterWriter: stores the slot number and not the writer. *)
RegisterSlotNumber(s, x) ==
  /\ ~Running(s)
  /\ x \in ServerSlots[s]
  /\ writers' = [writers EXCEPT ![x] = x]
  /\ serving' = [serving EXCEPT ![s] = x]
  /\ UNCHANGED <<cpc, cslot, cptr>>

RegisterWriter(s, x) ==
  /\ ~Running(s)
  /\ x \in ServerSlots[s]
  /\ writers' = [writers EXCEPT ![x] = s]
  /\ serving' = [serving EXCEPT ![s] = x]
  /\ UNCHANGED <<cpc, cslot, cptr>>

(* Mutants of PollReturns: the loop also ends on cancellation, and leaves  *)
(* its writer in the table, or removes it; a handler that finds its slot   *)
(* empty registers again to keep its stream alive.                         *)
PollReturnsOnCancel(s) ==
  /\ Running(s)
  /\ serving' = [serving EXCEPT ![s] = NoSlot]
  /\ UNCHANGED <<writers, cpc, cslot, cptr>>

PollReturnsAndClears(s) ==
  /\ Running(s)
  /\ writers' = [x \in Slots |-> IF writers[x] = s THEN NoWriter ELSE writers[x]]
  /\ serving' = [serving EXCEPT ![s] = NoSlot]
  /\ UNCHANGED <<cpc, cslot, cptr>>

PollKeepsAlive(s) ==
  /\ Running(s)
  /\ writers[serving[s]] = NoWriter
  /\ writers' = [writers EXCEPT ![serving[s]] = s]
  /\ UNCHANGED <<serving, cpc, cslot, cptr>>

(* One look at the table in the poll loop finds another value: the handler *)
(* returns.  A look that finds its own writer changes nothing.  Nothing    *)
(* else ends the loop, the cancellation of the call included.              *)
PollReturns(s) ==
  /\ Running(s)
  /\ writers[serving[s]] # s
  /\ serving' = [serving EXCEPT ![s] = NoSlot]
  /\ UNCHANGED <<writers, cpc, cslot, cptr>>

-----------------------------------------------------------------------------
(* StreamLatencyTestClient *)

Goto(c, from, to) == cpc[c] = from /\ cpc' = [cpc EXCEPT ![c] = to]

(* The local variable slot is declared without a value. *)
OpenClientStream(c) ==
  /\ Goto(c, "closed", "reading")
  /\ \E g \in Garbage : cslot' = [cslot EXCEPT ![c] = g]
  /\ UNCHANGED <<writers, serving, cptr>>

ReadMessage(c, x) ==
  /\ Goto(c, "reading", "checking")
  /\ x \in ClientSlots[c]
  /\ cslot' = [cslot EXCEPT ![c] = x]
  /\ UNCHANGED <<writers, serving, cptr>>

(* Mutant of CheckWriter: no null test. *)
CheckNothing(c) ==
  /\ Goto(c, "checking", "loading")
  /\ UNCHANGED <<writers, serving, cslot, cptr>>

(* The null test.  The compiler may keep the value it loads for the call   *)
(* of Write, or load the table again for it (LoadWriter).                  *)
CheckWriter(c) ==
  LET w == writers[cslot[c]] IN
  /\ \/ /\ w = NoWriter
        /\ Goto(c, "checking", "reading")
        /\ UNCHANGED cptr
     \/ /\ w # NoWriter
        /\ Goto(c, "checking", "loading")
        /\ UNCHANGED cptr
     \/ /\ w # NoWriter
        /\ Goto(c, "checking", "writing")
        /\ cptr' = [cptr EXCEPT ![c] = w]
  /\ UNCHANGED <<writers, serving, cslot>>

LoadWriter(c) ==
  /\ Goto(c, "loading", "writing")
  /\ cptr' = [cptr EXCEPT ![c] = writers[cslot[c]]]
  /\ UNCHANGED <<writers, serving, cslot>>

(* Write returns; its result is ignored.  On a writer whose call has       *)
(* returned the behaviour is undefined: it may seem to work, or Fault.     *)
WriteReturns(c) ==
  /\ Goto(c, "writing", "reading")
  /\ cptr[c] # NoWriter
  /\ cptr' = [cptr EXCEPT ![c] = NoWriter]
  /\ UNCHANGED <<writers, serving, cslot>>

(* Read returns false: half-close, cancellation or a broken connection. *)
ReadFails(c) ==
  /\ Goto(c, "reading", "clearing")
  /\ UNCHANGED <<writers, serving, cslot, cptr>>

(* Mutants of ClearSlot: the slot is left as it is; the whole table is     *)
(* zeroed. *)
ClearTable(c) ==
  /\ Goto(c, "clearing", "closed")
  /\ writers' = [x \in Slots |-> NoWriter]
  /\ cslot' = [cslot EXCEPT ![c] = Unset]
  /\ UNCHANGED <<serving, cptr>>

KeepSlot(c) ==
  /\ Goto(c, "clearing", "closed")
  /\ cslot' = [cslot EXCEPT ![c] = Unset]
  /\ UNCHANGED <<writers, serving, cptr>>

ClearSlot(c) ==
  /\ Goto(c, "clearing", "closed")
  /\ writers' = [writers EXCEPT ![cslot[c]] = NoWriter]
  /\ cslot' = [cslot EXCEPT ![c] = Unset]
  /\ UNCHANGED <<serving, cptr>>

(* A call through a null or destroyed writer kills the process; a process  *)
(* started after it begins with an empty table and no calls.               *)
Fault(c) ==
  /\ cpc[c] = "writing"
  /\ cptr[c] \notin {s \in Servers : Running(s)}
  /\ writers' = [x \in Slots |-> NoWriter]
  /\ serving' = [s \in Servers |-> NoSlot]
  /\ cpc' = [d \in Clients |-> "closed"]
  /\ cslot' = [d \in Clients |-> Unset]
  /\ cptr' = [d \in Clients |-> NoWriter]

-----------------------------------------------------------------------------
ServerStep(s) ==
  \/ \E x \in Slots : RegisterWriter(s, x)
  \/ PollReturns(s)

ClientStep(c) ==
  \/ OpenClientStream(c)
  \/ \E x \in Slots : ReadMessage(c, x)
  \/ CheckWriter(c)
  \/ LoadWriter(c)
  \/ WriteReturns(c)
  \/ ReadFails(c)
  \/ ClearSlot(c)
  \/ Fault(c)

Next == (\E s \in Servers : ServerStep(s)) \/ (\E c \in Clients : ClientStep(c))

(* The poll loop wakes up every 500 ms, and a handler whose stream ended   *)
(* is not held up before it zeroes its slot.  Nothing is assumed of Write, *)
(* which may block for as long as the peer does not read.                  *)
Fairness ==
  /\ \A s \in Servers : WF_vars(PollReturns(s))
  /\ \A c \in Clients : WF_vars(ClearSlot(c))

Spec == Init /\ [][Next]_vars /\ Fairness

-----------------------------------------------------------------------------
(* Every pointer in the table is the writer of a handler that still polls  *)
(* that very slot: whatever the interleaving of registrations, take-overs  *)
(* and clears, a handler never returns and leaves its writer behind.       *)
RegisteredIsLive ==
  \A x \in Slots : writers[x] # NoWriter => serving[writers[x]] = x

(* Only these calls can store in a slot. *)
Clearers(x) == {c \in Clients : x \in ClientSlots[c] \cup Garbage}
Registrars(x) == {s \in Servers : x \in ServerSlots[s]}

(* The null test and the call of Write are two looks at the table, yet a   *)
(* client stream that no other stream shares its slot with never calls     *)
(* Write on null, however many server calls take the slot from each other. *)
OwnerNeverWritesNull ==
  \A c \in Clients :
    (cpc[c] = "writing" /\ Clearers(cslot[c]) \subseteq {c}) => cptr[c] # NoWriter

(* A slot with one client stream and one server call, whose address is not *)
(* used for another slot. *)
Exclusive(x) ==
  /\ \A c, d \in Clearers(x) : c = d
  /\ \A s, t \in Registrars(x) : s = t
  /\ \A s \in Registrars(x) : ServerSlots[s] = {x}

(* On an exclusive slot the writer a client stream calls Write on belongs  *)
(* to a handler that still runs on this slot (a reply goes neither to a    *)
(* destroyed writer nor to another test's stream), and no other stream is  *)
(* in a Write on it (ServerWriter allows one at a time).                   *)
ExclusiveSlotIsSafe ==
  \A c \in Clients :
    (cpc[c] = "writing" /\ Exclusive(cslot[c])) =>
      /\ cptr[c] # NoWriter
      /\ serving[cptr[c]] = cslot[c]
      /\ \A d \in Clients \ {c} : cpc[d] = "writing" => cptr[d] # cptr[c]

(* A handler that has lost its slot never gets it back: the poll, which    *)
(* looks only every 500 ms, cannot miss that it was replaced.              *)
Lost(s) == Running(s) /\ writers[serving[s]] # s
LostIsFinal == [][\A s \in Servers : Lost(s) => (Lost(s)' \/ ~Running(s)')]_vars

(* The end of a client stream ends the handler registered in its slot,     *)
(* even when other calls use the slot in between.                          *)
ClientEndReleasesServer ==
  \A c \in Clients, s \in Servers :
    (cpc[c] = "clearing" /\ writers[cslot[c]] = s) ~> ~Running(s)
=============================================================================
