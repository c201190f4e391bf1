-------------------------- MODULE SlotRelayProofs --------------------------
(***************************************************************************)
(* Theorems about the writer table for any number of slots, server calls   *)
(* and client streams, with their proofs.                                  *)
(***************************************************************************)
EXTENDS SlotRelay, TLAPS

USE SlotsAssumption, ServersAssumption, ServerSlotsAssumption,
    ClientSlotsAssumption, GarbageAssumption

(* The value shown for an uninitialised variable is a possible one. *)
LEMMA UnsetIsGarbage == Unset \in Garbage
BY DEF Unset

(* Every step keeps the types. *)
LEMMA TypeStep == TypeOK /\ [Next]_vars => TypeOK'
<1> SUFFICES ASSUME TypeOK, [Next]_vars PROVE TypeOK'
  OBVIOUS
<1> USE DEF TypeOK, ClientStates, Goto
<1>1. ASSUME NEW s \in Servers, NEW x \in Slots, RegisterWriter(s, x) PROVE TypeOK'
  BY <1>1 DEF RegisterWriter
<1>2. ASSUME NEW s \in Servers, PollReturns(s) PROVE TypeOK'
  BY <1>2 DEF PollReturns
<1>3. ASSUME NEW c \in Clients, OpenClientStream(c) PROVE TypeOK'
  BY <1>3 DEF OpenClientStream
<1>4. ASSUME NEW c \in Clients, NEW x \in Slots, ReadMessage(c, x) PROVE TypeOK'
  BY <1>4 DEF ReadMessage
<1>5. ASSUME NEW c \in Clients, CheckWriter(c) PROVE TypeOK'
  BY <1>5 DEF CheckWriter
<1>6. ASSUME NEW c \in Clients, LoadWriter(c) PROVE TypeOK'
  BY <1>6 DEF LoadWriter
<1>7. ASSUME NEW c \in Clients, WriteReturns(c) PROVE TypeOK'
  BY <1>7 DEF WriteReturns
<1>8. ASSUME NEW c \in Clients, ReadFails(c) PROVE TypeOK'
  BY <1>8 DEF ReadFails
<1>9. ASSUME NEW c \in Clients, ClearSlot(c) PROVE TypeOK'
  BY <1>9, UnsetIsGarbage DEF ClearSlot
<1>10. ASSUME NEW c \in Clients, Fault(c) PROVE TypeOK'
  BY <1>10, UnsetIsGarbage DEF Fault
<1>11. CASE UNCHANGED vars
  BY <1>11 DEF vars
<1> QED
  BY <1>1, <1>2, <1>3, <1>4, <1>5, <1>6, <1>7, <1>8, <1>9, <1>10, <1>11
  DEF Next, ServerStep, ClientStep

(* The table, the handlers and the local variables have their types. *)
THEOREM TypeCorrect == Spec => []TypeOK
<1>1. Init => TypeOK
  BY UnsetIsGarbage DEF Init, TypeOK, ClientStates
<1> QED
  BY <1>1, TypeStep, PTL DEF Spec

-----------------------------------------------------------------------------
(* The inductive invariant.  RegisteredIsLive is inductive with the types; *)
(* the two properties of the client's pointer need to know which slots the *)
(* calls may name, what the table holds between the two looks at it, and   *)
(* that the writer stays in the table until Write returns.                 *)
CallsNameTheirSlots ==
  /\ \A s \in Servers : Running(s) => serving[s] \in ServerSlots[s]
  /\ \A c \in Clients : cslot[c] \in ClientSlots[c] \cup Garbage

LoadFindsWriter ==
  \A c \in Clients :
    (cpc[c] = "loading" /\ Clearers(cslot[c]) \subseteq {c})
      => writers[cslot[c]] # NoWriter

PointerCameFromSlot ==
  \A c \in Clients :
    (cpc[c] = "writing" /\ cptr[c] # NoWriter) => cslot[c] \in ServerSlots[cptr[c]]

ExclusiveStaysRegistered ==
  \A c \in Clients :
    (cpc[c] = "writing" /\ Exclusive(cslot[c])) => writers[cslot[c]] = cptr[c]

IInv ==
  /\ TypeOK
  /\ RegisteredIsLive
  /\ CallsNameTheirSlots
  /\ LoadFindsWriter
  /\ OwnerNeverWritesNull
  /\ PointerCameFromSlot
  /\ ExclusiveStaysRegistered

(* A fresh process satisfies the invariant. *)
LEMMA InitEstablishesIInv == Init => IInv
BY UnsetIsGarbage DEF Init, IInv, TypeOK, ClientStates, RegisteredIsLive, CallsNameTheirSlots,
       Running, LoadFindsWriter, OwnerNeverWritesNull, PointerCameFromSlot,
       ExclusiveStaysRegistered

(* On an exclusive slot there is one clearer and one registrar, and it is  *)
(* an exclusive slot of a single client. *)
LEMMA ExclusiveSingles ==
  ASSUME NEW x \in Slots, Exclusive(x)
  PROVE  /\ \A c \in Clients : c \in Clearers(x) => Clearers(x) \subseteq {c}
         /\ \A s, t \in Servers : x \in ServerSlots[s] /\ x \in ServerSlots[t] => s = t
         /\ \A s \in Servers : x \in ServerSlots[s] => ServerSlots[s] = {x}
BY DEF Exclusive, Clearers, Registrars

(* Every step of a handler keeps the invariant. *)
LEMMA IInvStep == IInv /\ [Next]_vars => IInv'
<1> SUFFICES ASSUME IInv, [Next]_vars PROVE IInv'
  OBVIOUS
<1>t. TypeOK'
  BY TypeStep DEF IInv
<1> USE DEF IInv, TypeOK, ClientStates, Goto, Running, RegisteredIsLive,
            CallsNameTheirSlots, LoadFindsWriter, OwnerNeverWritesNull,
            PointerCameFromSlot, ExclusiveStaysRegistered
<1>1. ASSUME NEW s \in Servers, NEW x \in Slots, RegisterWriter(s, x) PROVE IInv'
  <2> USE <1>1 DEF RegisterWriter
  <2>1. \A y \in Slots : writers[y] # s
    OBVIOUS
  <2>2. RegisteredIsLive'
    BY <2>1
  <2>3. CallsNameTheirSlots'
    OBVIOUS
  <2>4. LoadFindsWriter' /\ OwnerNeverWritesNull' /\ PointerCameFromSlot'
    OBVIOUS
  <2>5. ExclusiveStaysRegistered'
    <3> SUFFICES ASSUME NEW c \in Clients, cpc[c] = "writing", Exclusive(cslot[c])
                 PROVE  cslot[c] # x
      OBVIOUS
    <3>1. c \in Clearers(cslot[c])
      BY DEF Clearers
    <3>2. cptr[c] \in Servers /\ cslot[c] \in ServerSlots[cptr[c]]
      BY <3>1, ExclusiveSingles
    <3> QED
      BY <3>2, <2>1, ExclusiveSingles
  <2> QED
    BY <1>t, <2>2, <2>3, <2>4, <2>5
<1>2. ASSUME NEW s \in Servers, PollReturns(s) PROVE IInv'
  BY <1>2, <1>t DEF PollReturns
<1>3. ASSUME NEW c \in Clients, OpenClientStream(c) PROVE IInv'
  BY <1>3, <1>t DEF OpenClientStream
<1>4. ASSUME NEW c \in Clients, NEW x \in Slots, ReadMessage(c, x) PROVE IInv'
  BY <1>4, <1>t DEF ReadMessage
<1>5. ASSUME NEW c \in Clients, CheckWriter(c) PROVE IInv'
  BY <1>5, <1>t DEF CheckWriter
<1>6. ASSUME NEW c \in Clients, LoadWriter(c) PROVE IInv'
  <2> USE <1>6 DEF LoadWriter
  <2>1. OwnerNeverWritesNull'
    OBVIOUS
  <2>2. PointerCameFromSlot'
    OBVIOUS
  <2>3. ExclusiveStaysRegistered'
    OBVIOUS
  <2> QED
    BY <1>t, <2>1, <2>2, <2>3
<1>7. ASSUME NEW c \in Clients, WriteReturns(c) PROVE IInv'
  BY <1>7, <1>t DEF WriteReturns
<1>8. ASSUME NEW c \in Clients, ReadFails(c) PROVE IInv'
  BY <1>8, <1>t DEF ReadFails
<1>9. ASSUME NEW c \in Clients, ClearSlot(c) PROVE IInv'
  <2> USE <1>9, UnsetIsGarbage DEF ClearSlot
  <2>1. c \in Clearers(cslot[c])
    BY DEF Clearers
  <2>2. LoadFindsWriter'
    BY <2>1
  <2>3. ExclusiveStaysRegistered'
    <3> SUFFICES ASSUME NEW d \in Clients, cpc[d] = "writing", Exclusive(cslot[d])
                 PROVE  cslot[d] # cslot[c]
      OBVIOUS
    <3>1. d \in Clearers(cslot[d])
      BY DEF Clearers
    <3> QED
      BY <2>1, <3>1, ExclusiveSingles
  <2> QED
    BY <1>t, <2>2, <2>3
<1>10. ASSUME NEW c \in Clients, Fault(c) PROVE IInv'
  BY <1>10, <1>t, UnsetIsGarbage DEF Fault
<1>11. CASE UNCHANGED vars
  BY <1>11, <1>t DEF vars
<1> QED
  BY <1>1, <1>2, <1>3, <1>4, <1>5, <1>6, <1>7, <1>8, <1>9, <1>10, <1>11
  DEF Next, ServerStep, ClientStep

(* The invariant holds in every behaviour. *)
LEMMA Invariance == Spec => []IInv
BY InitEstablishesIInv, IInvStep, PTL DEF Spec

(* No handler returns and leaves a pointer to its writer in the table. *)
THEOREM TableIsLive == Spec => []RegisteredIsLive
<1>1. IInv => RegisteredIsLive
  BY DEF IInv
<1> QED
  BY <1>1, Invariance, PTL

(* A client stream alone on its slot never calls Write on null, whatever   *)
(* the server calls that share the slot do. *)
THEOREM OwnerIsSafe == Spec => []OwnerNeverWritesNull
<1>1. IInv => OwnerNeverWritesNull
  BY DEF IInv
<1> QED
  BY <1>1, Invariance, PTL

(* On an exclusive slot every Write goes to the running handler of that    *)
(* slot, one at a time. *)
THEOREM ExclusiveIsSafe == Spec => []ExclusiveSlotIsSafe
<1>1. IInv => ExclusiveSlotIsSafe
  <2> SUFFICES ASSUME IInv, NEW c \in Clients, cpc[c] = "writing", Exclusive(cslot[c])
               PROVE  /\ cptr[c] # NoWriter
                      /\ serving[cptr[c]] = cslot[c]
                      /\ \A d \in Clients \ {c} : cpc[d] = "writing" => cptr[d] # cptr[c]
    BY DEF ExclusiveSlotIsSafe
  <2>1. cslot[c] \in Slots /\ c \in Clearers(cslot[c])
    BY DEF IInv, TypeOK, CallsNameTheirSlots, Clearers
  <2>2. Clearers(cslot[c]) \subseteq {c}
    BY <2>1, ExclusiveSingles
  <2>3. cptr[c] \in Servers
    BY <2>2 DEF IInv, TypeOK, OwnerNeverWritesNull
  <2>4. writers[cslot[c]] = cptr[c]
    BY DEF IInv, ExclusiveStaysRegistered
  <2>5. serving[cptr[c]] = cslot[c]
    BY <2>1, <2>3, <2>4 DEF IInv, RegisteredIsLive
  <2>6. ASSUME NEW d \in Clients \ {c}, cpc[d] = "writing", cptr[d] = cptr[c]
        PROVE  FALSE
    <3>1. cslot[d] \in ServerSlots[cptr[c]] /\ cslot[c] \in ServerSlots[cptr[c]]
      BY <2>3, <2>6 DEF IInv, PointerCameFromSlot
    <3>2. cslot[d] = cslot[c]
      BY <2>1, <2>3, <3>1, ExclusiveSingles
    <3>3. d \in Clearers(cslot[c])
      BY <3>2 DEF IInv, CallsNameTheirSlots, Clearers, TypeOK
    <3> QED
      BY <2>2, <3>3
  <2> QED
    BY <2>3, <2>5, <2>6
<1> QED
  BY <1>1, Invariance, PTL

(* A handler whose writer was replaced or cleared never sees it in its     *)
(* slot again, so that its poll ends however late it looks. *)
THEOREM LossIsFinal == Spec => LostIsFinal
<1>1. ASSUME TypeOK, TypeOK', [Next]_vars
      PROVE  [\A s \in Servers : Lost(s) => (Lost(s)' \/ ~Running(s)')]_vars
  <2> SUFFICES ASSUME Next, NEW s \in Servers, Lost(s), Running(s)' PROVE Lost(s)'
    BY <1>1
  <2> USE <1>1 DEF TypeOK, Lost, Running, Goto
  <2>1. ASSUME NEW t \in Servers, NEW x \in Slots, RegisterWriter(t, x) PROVE Lost(s)'
    BY <2>1 DEF RegisterWriter
  <2>2. ASSUME NEW t \in Servers, PollReturns(t) PROVE Lost(s)'
    BY <2>2 DEF PollReturns
  <2>3. ASSUME NEW c \in Clients, ClearSlot(c) PROVE Lost(s)'
    BY <2>3 DEF ClearSlot
  <2>4. ASSUME NEW c \in Clients, Fault(c) PROVE Lost(s)'
    BY <2>4 DEF Fault
  <2>5. CASE UNCHANGED <<writers, serving>>
    BY <2>5
  <2> QED
    BY <2>1, <2>2, <2>3, <2>4, <2>5
    DEF Next, ServerStep, ClientStep, OpenClientStream, ReadMessage, CheckWriter,
        LoadWriter, WriteReturns, ReadFails
<1> QED
  BY <1>1, TypeCorrect, PTL DEF Spec, LostIsFinal
=============================================================================
