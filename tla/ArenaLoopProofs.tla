-------------------------- MODULE ArenaLoopProofs --------------------------
(***************************************************************************)
(* Theorems about the completion-queue loop for any number of RPCs and     *)
(* addresses, with their proofs.                                           *)
(***************************************************************************)
EXTENDS ArenaLoop, FiniteSetTheorems, TLAPS

USE WantAssumption, ObjectsAssumption

-----------------------------------------------------------------------------
(* The inductive invariant.  Which event a tag stands for is read off      *)
(* _complete, so the flag must agree with the place the object is in; and  *)
(* an RPC belongs to one object at a time although addresses are reused.   *)

CallInHand == (pc = "next") <=> (call = NoObject)

FlagMatchesPlace ==
  /\ \A o \in posted : ~complete[o]
  /\ \A o \in finishing : complete[o]

RequestsAreSingle ==
  /\ \A o \in Objects : \A r, q \in request[o] : r = q
  /\ \A o, p \in Objects : o # p => request[o] \cap request[p] = {}

RequestsArePaired ==
  /\ \A o \in posted : request[o] = {}
  /\ \A o \in Objects \ live : request[o] = {}
  /\ \A o \in Objects : \A r \in request[o] : rpc[r] \in {"accepted", "replied", "cancelled"}
  /\ \A o \in cq \cup InHand :
       complete[o] => \A r \in request[o] : rpc[r] # "accepted"

AcceptedHasHolder ==
  \A r \in Rpcs : rpc[r] = "accepted" => \E o \in Objects : o \in Holders(r)

IInv ==
  /\ TypeOK
  /\ TagsPartitionLive
  /\ CallInHand
  /\ FlagMatchesPlace
  /\ AlwaysListening
  /\ RequestsAreSingle
  /\ RequestsArePaired
  /\ AcceptedHasHolder

(* The loop starts with one posted object and no RPC. *)
LEMMA InitEstablishesIInv == Init => IInv
<1> SUFFICES ASSUME Init PROVE IInv
  OBVIOUS
<1> USE DEF Init
<1>1. TypeOK
  BY DEF TypeOK, RpcStates
<1>2. TagsPartitionLive /\ CallInHand /\ FlagMatchesPlace /\ AlwaysListening
  BY DEF TagsPartitionLive, InHand, CallInHand, FlagMatchesPlace, AlwaysListening
<1>3. RequestsAreSingle /\ RequestsArePaired /\ AcceptedHasHolder
  BY DEF RequestsAreSingle, RequestsArePaired, AcceptedHasHolder, InHand
<1> QED
  BY <1>1, <1>2, <1>3 DEF IInv

(* Every step keeps the types. *)
LEMMA TypeStep == TypeOK /\ CallInHand /\ [Next]_vars => TypeOK'
<1> SUFFICES ASSUME TypeOK, CallInHand, [Next]_vars PROVE TypeOK'
  OBVIOUS
<1> USE DEF TypeOK, RpcStates
<1>1. ASSUME NEW r \in Rpcs, Send(r) PROVE TypeOK'
  BY <1>1 DEF Send
<1>2. ASSUME NEW r \in Rpcs, GiveUp(r) PROVE TypeOK'
  BY <1>2 DEF GiveUp
<1>3. ASSUME NEW o \in Objects, NEW r \in Rpcs, Accept(o, r) PROVE TypeOK'
  BY <1>3 DEF Accept
<1>4. ASSUME NEW o \in Objects, FinishEnds(o) PROVE TypeOK'
  BY <1>4 DEF FinishEnds
<1>5. ASSUME NEW o \in Objects, Take(o) PROVE TypeOK'
  BY <1>5 DEF Take
<1>6. ASSUME NEW o \in Objects, PostNew(o) PROVE TypeOK'
  BY <1>6 DEF PostNew
<1>7. ASSUME HandleArrival PROVE TypeOK'
  BY <1>7 DEF HandleArrival, CallInHand
<1>8. ASSUME HandleFinished PROVE TypeOK'
  BY <1>8 DEF HandleFinished, CallInHand
<1>9. CASE UNCHANGED vars
  BY <1>9 DEF vars
<1> QED
  BY <1>1, <1>2, <1>3, <1>4, <1>5, <1>6, <1>7, <1>8, <1>9 DEF Next, Loop

(* Every step keeps the invariant. *)
LEMMA IInvStep == IInv /\ [Next]_vars => IInv'
<1> SUFFICES ASSUME IInv, [Next]_vars PROVE IInv'
  OBVIOUS
<1>t. TypeOK'
  BY TypeStep DEF IInv
<1> USE DEF IInv, TypeOK, InHand
<1>1. ASSUME NEW r \in Rpcs, Send(r) PROVE IInv'
  BY <1>1, <1>t DEF Send, TagsPartitionLive, CallInHand, FlagMatchesPlace, AlwaysListening,
     RequestsAreSingle, RequestsArePaired, AcceptedHasHolder, Holders
<1>2. ASSUME NEW r \in Rpcs, GiveUp(r) PROVE IInv'
  BY <1>2, <1>t DEF GiveUp, TagsPartitionLive, CallInHand, FlagMatchesPlace, AlwaysListening,
     RequestsAreSingle, RequestsArePaired, AcceptedHasHolder, Holders
<1>3. ASSUME NEW o \in Objects, NEW r \in Rpcs, Accept(o, r) PROVE IInv'
  <2> USE <1>3 DEF Accept
  <2>1. TagsPartitionLive'
    BY DEF TagsPartitionLive, CallInHand
  <2>2. CallInHand'
    BY DEF CallInHand
  <2>3. FlagMatchesPlace'
    BY DEF FlagMatchesPlace, TagsPartitionLive, CallInHand
  <2>4. AlwaysListening'
    BY DEF AlwaysListening, TagsPartitionLive, CallInHand, FlagMatchesPlace
  <2>5. RequestsAreSingle'
    BY DEF RequestsAreSingle, RequestsArePaired, TagsPartitionLive, CallInHand
  <2>6. RequestsArePaired'
    BY DEF RequestsArePaired, RequestsAreSingle, TagsPartitionLive, CallInHand, FlagMatchesPlace
  <2>7. AcceptedHasHolder'
    BY DEF AcceptedHasHolder, Holders, RequestsArePaired, TagsPartitionLive, CallInHand, FlagMatchesPlace
  <2> QED
    BY <1>t, <2>1, <2>2, <2>3, <2>4, <2>5, <2>6, <2>7
<1>4. ASSUME NEW o \in Objects, FinishEnds(o) PROVE IInv'
  <2> USE <1>4 DEF FinishEnds
  <2>1. TagsPartitionLive'
    BY DEF TagsPartitionLive, CallInHand
  <2>2. CallInHand'
    BY DEF CallInHand
  <2>3. FlagMatchesPlace'
    BY DEF FlagMatchesPlace, TagsPartitionLive, CallInHand
  <2>4. AlwaysListening'
    BY DEF AlwaysListening, TagsPartitionLive, CallInHand, FlagMatchesPlace
  <2>5. RequestsAreSingle'
    BY DEF RequestsAreSingle, RequestsArePaired, TagsPartitionLive, CallInHand
  <2>6. RequestsArePaired'
    BY DEF RequestsArePaired, RequestsAreSingle, TagsPartitionLive, CallInHand, FlagMatchesPlace
  <2>7. AcceptedHasHolder'
    BY DEF AcceptedHasHolder, Holders, RequestsArePaired, TagsPartitionLive, CallInHand, FlagMatchesPlace
  <2> QED
    BY <1>t, <2>1, <2>2, <2>3, <2>4, <2>5, <2>6, <2>7
<1>5. ASSUME NEW o \in Objects, Take(o) PROVE IInv'
  <2> USE <1>5 DEF Take
  <2>1. TagsPartitionLive'
    BY DEF TagsPartitionLive, CallInHand
  <2>2. CallInHand'
    BY DEF CallInHand
  <2>3. FlagMatchesPlace'
    BY DEF FlagMatchesPlace, TagsPartitionLive, CallInHand
  <2>4. AlwaysListening'
    BY DEF AlwaysListening, TagsPartitionLive, CallInHand, FlagMatchesPlace
  <2>5. RequestsAreSingle'
    BY DEF RequestsAreSingle, RequestsArePaired, TagsPartitionLive, CallInHand
  <2>6. RequestsArePaired'
    BY DEF RequestsArePaired, RequestsAreSingle, TagsPartitionLive, CallInHand, FlagMatchesPlace
  <2>7. AcceptedHasHolder'
    BY DEF AcceptedHasHolder, Holders, RequestsArePaired, TagsPartitionLive, CallInHand, FlagMatchesPlace
  <2> QED
    BY <1>t, <2>1, <2>2, <2>3, <2>4, <2>5, <2>6, <2>7
<1>6. ASSUME NEW o \in Objects, PostNew(o) PROVE IInv'
  <2> USE <1>6 DEF PostNew
  <2>1. TagsPartitionLive'
    BY DEF TagsPartitionLive, CallInHand
  <2>2. CallInHand'
    BY DEF CallInHand
  <2>3. FlagMatchesPlace'
    BY DEF FlagMatchesPlace, TagsPartitionLive, CallInHand
  <2>4. AlwaysListening'
    BY DEF AlwaysListening, TagsPartitionLive, CallInHand, FlagMatchesPlace
  <2>5. RequestsAreSingle'
    BY DEF RequestsAreSingle, RequestsArePaired, TagsPartitionLive, CallInHand
  <2>6. RequestsArePaired'
    BY DEF RequestsArePaired, RequestsAreSingle, TagsPartitionLive, CallInHand, FlagMatchesPlace
  <2>7. AcceptedHasHolder'
    BY DEF AcceptedHasHolder, Holders, RequestsArePaired, TagsPartitionLive, CallInHand, FlagMatchesPlace
  <2> QED
    BY <1>t, <2>1, <2>2, <2>3, <2>4, <2>5, <2>6, <2>7
<1>7. ASSUME HandleArrival PROVE IInv'
  <2> USE <1>7 DEF HandleArrival
  <2>1. TagsPartitionLive'
    BY DEF TagsPartitionLive, CallInHand
  <2>2. CallInHand'
    BY DEF CallInHand
  <2>3. FlagMatchesPlace'
    BY DEF FlagMatchesPlace, TagsPartitionLive, CallInHand
  <2>4. AlwaysListening'
    BY DEF AlwaysListening, TagsPartitionLive, CallInHand, FlagMatchesPlace
  <2>5. RequestsAreSingle'
    BY DEF RequestsAreSingle, RequestsArePaired, TagsPartitionLive, CallInHand
  <2>6. RequestsArePaired'
    BY DEF RequestsArePaired, RequestsAreSingle, TagsPartitionLive, CallInHand, FlagMatchesPlace
  <2>7. AcceptedHasHolder'
    BY DEF AcceptedHasHolder, Holders, RequestsArePaired, TagsPartitionLive, CallInHand, FlagMatchesPlace
  <2> QED
    BY <1>t, <2>1, <2>2, <2>3, <2>4, <2>5, <2>6, <2>7
<1>8. ASSUME HandleFinished PROVE IInv'
  <2> USE <1>8 DEF HandleFinished
  <2>1. TagsPartitionLive'
    BY DEF TagsPartitionLive, CallInHand
  <2>2. CallInHand'
    BY DEF CallInHand
  <2>3. FlagMatchesPlace'
    BY DEF FlagMatchesPlace, TagsPartitionLive, CallInHand
  <2>4. AlwaysListening'
    BY DEF AlwaysListening, TagsPartitionLive, CallInHand, FlagMatchesPlace
  <2>5. RequestsAreSingle'
    BY DEF RequestsAreSingle, RequestsArePaired, TagsPartitionLive, CallInHand
  <2>6. RequestsArePaired'
    BY DEF RequestsArePaired, RequestsAreSingle, TagsPartitionLive, CallInHand, FlagMatchesPlace
  <2>7. AcceptedHasHolder'
    BY DEF AcceptedHasHolder, Holders, RequestsArePaired, TagsPartitionLive, CallInHand, FlagMatchesPlace
  <2> QED
    BY <1>t, <2>1, <2>2, <2>3, <2>4, <2>5, <2>6, <2>7
<1>9. CASE UNCHANGED vars
  BY <1>9, <1>t DEF vars, TagsPartitionLive, CallInHand, FlagMatchesPlace, AlwaysListening,
     RequestsAreSingle, RequestsArePaired, AcceptedHasHolder, Holders
<1> QED
  BY <1>1, <1>2, <1>3, <1>4, <1>5, <1>6, <1>7, <1>8, <1>9 DEF Next, Loop

(* The invariant holds in every behaviour. *)
LEMMA Invariance == Spec => []IInv
BY InitEstablishesIInv, IInvStep, PTL DEF Spec

-----------------------------------------------------------------------------
(* Every variable of the loop has its type. *)
THEOREM TypeCorrect == Spec => []TypeOK
<1>1. IInv => TypeOK
  BY DEF IInv
<1> QED
  BY <1>1, Invariance, PTL

(* Every allocated object is in exactly one place: no event names a        *)
(* deleted object, and no object is deleted twice or lost.                 *)
THEOREM NoUseAfterDelete == Spec => []TagsPartitionLive
<1>1. IInv => TagsPartitionLive
  BY DEF IInv
<1> QED
  BY <1>1, Invariance, PTL

(* The loop never waits without a request posted or an arrival queued. *)
THEOREM NeverDeaf == Spec => []AlwaysListening
<1>1. IInv => AlwaysListening
  BY DEF IInv
<1> QED
  BY <1>1, Invariance, PTL

(* An accepted RPC is in the hands of exactly one object. *)
THEOREM NoRpcForgotten == Spec => []AcceptedIsHeld
<1>1. IInv => AcceptedIsHeld
  <2> SUFFICES ASSUME IInv, NEW r \in Rpcs, rpc[r] = "accepted"
               PROVE  \E o \in Objects : Holders(r) = {o}
    BY DEF AcceptedIsHeld
  <2>1. PICK o \in Objects : o \in Holders(r)
    BY DEF IInv, AcceptedHasHolder
  <2>2. \A p \in Holders(r) : p = o
    BY <2>1 DEF IInv, RequestsAreSingle, Holders
  <2> QED
    BY <2>1, <2>2
<1> QED
  BY <1>1, Invariance, PTL

-----------------------------------------------------------------------------
(* The safety part of ImplementsService: the loop starts as the service    *)
(* does, and each of its steps is a step of the service or changes nothing *)
(* the service shows.                                                      *)
ServiceVars == <<rpcBar, answer>>

(* The end of a Finish answers the one RPC the object holds, or none. *)
LEMMA FinishIsReply ==
  ASSUME IInv, NEW o \in Objects, FinishEnds(o)
  PROVE  (\E r \in Rpcs : Service!Reply(r)) \/ UNCHANGED ServiceVars
<1> USE DEF IInv, TypeOK, RpcStates, FinishEnds
<1>1. CASE \E r \in request[o] : rpc[r] = "accepted"
  <2>1. PICK r \in request[o] : rpc[r] = "accepted"
    BY <1>1
  <2>2. r \in Rpcs /\ \A q \in request[o] : q = r
    BY <2>1 DEF RequestsAreSingle
  <2>3. rpc' = [rpc EXCEPT ![r] = "replied"] /\ answer' = [answer EXCEPT ![r] = Want[r]]
    BY <2>1, <2>2
  <2>4. rpcBar[r] = "waiting"
    <3>1. rpc[r] = "accepted" /\ r \in Rpcs
      BY <2>1, <2>2
    <3> HIDE DEF IInv, TypeOK, RpcStates, FinishEnds
    <3> QED
      BY ONLY <3>1 DEF rpcBar
  <2>5. rpcBar' = [rpcBar EXCEPT ![r] = "replied"]
    BY <2>1, <2>2, <2>3 DEF rpcBar
  <2> QED
    BY <2>2, <2>3, <2>4, <2>5 DEF Service!Reply
<1>2. CASE ~\E r \in request[o] : rpc[r] = "accepted"
  <2>1. rpc' = rpc /\ answer' = answer
    BY <1>2
  <2> QED
    BY <2>1 DEF ServiceVars, rpcBar
<1> QED
  BY <1>1, <1>2

(* The loop implements the unary method's promise, liveness apart. *)
THEOREM ImplementsServiceSafety == Spec => Service!Init /\ [][Service!Next]_ServiceVars
<1>1. Init => Service!Init
  BY DEF Init, Service!Init, rpcBar
<1>2. ASSUME IInv, [Next]_vars PROVE [Service!Next]_ServiceVars
  <2> USE <1>2 DEF IInv, TypeOK, RpcStates
  <2>1. ASSUME NEW r \in Rpcs, Send(r) PROVE Service!Send(r)
    BY <2>1 DEF Send, Service!Send, rpcBar
  <2>2. ASSUME NEW r \in Rpcs, GiveUp(r) PROVE Service!Abandon(r)
    BY <2>2 DEF GiveUp, Service!Abandon, rpcBar
  <2>3. ASSUME NEW o \in Objects, NEW r \in Rpcs, Accept(o, r) PROVE UNCHANGED ServiceVars
    BY <2>3 DEF Accept, ServiceVars, rpcBar
  <2>4. ASSUME NEW o \in Objects, FinishEnds(o)
        PROVE  (\E r \in Rpcs : Service!Reply(r)) \/ UNCHANGED ServiceVars
    BY <2>4, FinishIsReply
  <2>5. CASE Loop \/ UNCHANGED vars
    BY <2>5 DEF Loop, Take, PostNew, HandleArrival, HandleFinished, vars, ServiceVars, rpcBar
  <2> QED
    BY <2>1, <2>2, <2>3, <2>4, <2>5 DEF Next, Service!Next
<1> QED
  BY <1>1, <1>2, Invariance, PTL DEF Spec

-----------------------------------------------------------------------------
(* How the loop's memory grows.  Between two events the books of the       *)
(* requests do not balance: Pending is what the event in hand still owes.  *)
Arrivals == {o \in cq : ~complete[o]}
Ends == {o \in cq : complete[o]}
Pending ==
  CASE pc = "next"   -> 0
    [] pc = "post"   -> IF complete[call] THEN 1 ELSE 2
    [] pc = "handle" -> IF complete[call] THEN 0 ELSE 1

FiniteBooks ==
  /\ IsFiniteSet(posted) /\ IsFiniteSet(Arrivals) /\ IsFiniteSet(finishing)
  /\ IsFiniteSet(Ends) /\ IsFiniteSet(Accepted)

Balance ==
  Cardinality(posted) + 2 * Cardinality(Arrivals) + Cardinality(finishing)
    + Cardinality(Ends) + Pending = 1 + Cardinality(Accepted)

Books == FiniteBooks /\ Balance

BookSizes == /\ Cardinality(posted) \in Nat /\ Cardinality(Arrivals) \in Nat
             /\ Cardinality(finishing) \in Nat /\ Cardinality(Ends) \in Nat
             /\ Cardinality(Accepted) \in Nat

LEMMA SizesAreNumbers == FiniteBooks => BookSizes
  BY FS_CardinalityType DEF FiniteBooks, BookSizes

(* One element more, or one less. *)
LEMMA OneMore ==
  ASSUME NEW S, NEW T, NEW x, IsFiniteSet(S), x \notin S, T = S \cup {x}
  PROVE  IsFiniteSet(T) /\ Cardinality(T) = Cardinality(S) + 1
  BY FS_AddElement

LEMMA OneLess ==
  ASSUME NEW S, NEW T, NEW x, IsFiniteSet(S), x \in S, T = S \ {x}
  PROVE  IsFiniteSet(T) /\ Cardinality(T) = Cardinality(S) - 1
  BY FS_RemoveElement

LEMMA BooksBegin == Init => Books
<1> SUFFICES ASSUME Init PROVE Books
  OBVIOUS
<1>1. \E o \in Objects : posted = {o}
  BY DEF Init
<1>2. Arrivals = {} /\ Ends = {} /\ finishing = {} /\ Accepted = {} /\ Pending = 0
  BY DEF Init, Arrivals, Ends, Accepted, Pending
<1>3. IsFiniteSet(posted) /\ Cardinality(posted) = 1
  BY <1>1, FS_Singleton
<1> QED
  BY <1>2, <1>3, FS_EmptySet DEF Books, FiniteBooks, Balance

(* Steps that do not touch the books. *)
LEMMA BooksUntouched ==
  ASSUME Books, UNCHANGED <<posted, Arrivals, finishing, Ends, Accepted, Pending>>
  PROVE  Books'
  BY DEF Books, FiniteBooks, Balance

LEMMA BooksOnAccept ==
  ASSUME IInv, Books, NEW o \in Objects, NEW r \in Rpcs, Accept(o, r)
  PROVE  Books'
<1> USE DEF IInv, TypeOK
<1>1. o \in posted /\ o \notin cq /\ ~complete[o]
  BY DEF Accept, TagsPartitionLive, FlagMatchesPlace
<1>2. Arrivals' = Arrivals \cup {o} /\ o \notin Arrivals /\ Ends' = Ends
  BY <1>1 DEF Accept, Arrivals, Ends
<1>3. Accepted' = Accepted \cup {r} /\ r \notin Accepted
  BY DEF Accept, Accepted
<1>4. posted' = posted \ {o} /\ finishing' = finishing /\ Pending' = Pending
  BY DEF Accept, Pending
<1>5. FiniteBooks /\ BookSizes
  BY SizesAreNumbers DEF Books
<1>6. IsFiniteSet(posted') /\ Cardinality(posted') = Cardinality(posted) - 1
  BY <1>1, <1>4, <1>5, OneLess DEF FiniteBooks
<1>7. IsFiniteSet(Arrivals') /\ Cardinality(Arrivals') = Cardinality(Arrivals) + 1
  BY <1>2, <1>5, OneMore DEF FiniteBooks
<1>8. IsFiniteSet(Accepted') /\ Cardinality(Accepted') = Cardinality(Accepted) + 1
  BY <1>3, <1>5, OneMore DEF FiniteBooks
<1>9. Pending \in Nat
  BY DEF Pending
<1>10. FiniteBooks'
  BY <1>2, <1>4, <1>5, <1>6, <1>7, <1>8 DEF FiniteBooks
<1>11. Balance'
  BY <1>2, <1>4, <1>5, <1>6, <1>7, <1>8, <1>9 DEF Books, Balance, BookSizes
<1> QED
  BY <1>10, <1>11 DEF Books

LEMMA BooksOnFinishEnds ==
  ASSUME IInv, Books, NEW o \in Objects, FinishEnds(o)
  PROVE  Books'
<1> USE DEF IInv, TypeOK
<1>1. o \in finishing /\ o \notin cq /\ complete[o]
  BY DEF FinishEnds, TagsPartitionLive, FlagMatchesPlace
<1>2. Ends' = Ends \cup {o} /\ o \notin Ends /\ Arrivals' = Arrivals
  BY <1>1 DEF FinishEnds, Arrivals, Ends
<1>3. Accepted' = Accepted
  BY DEF FinishEnds, Accepted
<1>4. finishing' = finishing \ {o} /\ posted' = posted /\ Pending' = Pending
  BY DEF FinishEnds, Pending
<1>5. FiniteBooks /\ BookSizes
  BY SizesAreNumbers DEF Books
<1>6. IsFiniteSet(finishing') /\ Cardinality(finishing') = Cardinality(finishing) - 1
  BY <1>1, <1>4, <1>5, OneLess DEF FiniteBooks
<1>7. IsFiniteSet(Ends') /\ Cardinality(Ends') = Cardinality(Ends) + 1
  BY <1>2, <1>5, OneMore DEF FiniteBooks
<1>8. Pending \in Nat
  BY DEF Pending
<1>9. FiniteBooks'
  BY <1>2, <1>3, <1>4, <1>5, <1>6, <1>7 DEF FiniteBooks
<1>10. Balance'
  BY <1>2, <1>3, <1>4, <1>5, <1>6, <1>7, <1>8 DEF Books, Balance, BookSizes
<1> QED
  BY <1>9, <1>10 DEF Books

LEMMA BooksOnTake ==
  ASSUME IInv, Books, NEW o \in Objects, Take(o)
  PROVE  Books'
<1> USE DEF IInv, TypeOK
<1>1. o \in cq /\ UNCHANGED <<posted, finishing, Accepted>> /\ Pending = 0
  BY DEF Take, Accepted, Pending
<1>2. FiniteBooks /\ BookSizes
  BY SizesAreNumbers DEF Books
<1>3. CASE complete[o]
  <2>1. Ends' = Ends \ {o} /\ o \in Ends /\ Arrivals' = Arrivals /\ Pending' = 1
    BY <1>1, <1>3 DEF Take, Arrivals, Ends, Pending
  <2>2. IsFiniteSet(Ends') /\ Cardinality(Ends') = Cardinality(Ends) - 1
    BY <1>2, <2>1, OneLess DEF FiniteBooks
  <2> QED
    BY <1>1, <1>2, <2>1, <2>2 DEF Books, FiniteBooks, Balance, BookSizes
<1>4. CASE ~complete[o]
  <2>1. Arrivals' = Arrivals \ {o} /\ o \in Arrivals /\ Ends' = Ends /\ Pending' = 2
    BY <1>1, <1>4 DEF Take, Arrivals, Ends, Pending
  <2>2. IsFiniteSet(Arrivals') /\ Cardinality(Arrivals') = Cardinality(Arrivals) - 1
    BY <1>2, <2>1, OneLess DEF FiniteBooks
  <2> QED
    BY <1>1, <1>2, <2>1, <2>2 DEF Books, FiniteBooks, Balance, BookSizes
<1> QED
  BY <1>3, <1>4

LEMMA BooksOnPostNew ==
  ASSUME IInv, Books, NEW o \in Objects, PostNew(o)
  PROVE  Books'
<1> USE DEF IInv, TypeOK
<1>1. call \in Objects /\ call # o /\ o \notin cq /\ o \notin posted
  BY DEF PostNew, TagsPartitionLive, InHand, CallInHand
<1>2. posted' = posted \cup {o} /\ UNCHANGED <<finishing, Accepted>>
  BY DEF PostNew, Accepted
<1>3. Arrivals' = Arrivals /\ Ends' = Ends
  BY <1>1 DEF PostNew, Arrivals, Ends
<1>4. complete'[call] = complete[call] /\ call' = call /\ pc = "post" /\ pc' = "handle"
  BY <1>1 DEF PostNew
<1>5. Pending \in Nat /\ Pending' = Pending - 1
  BY <1>4 DEF Pending
<1>6. FiniteBooks /\ BookSizes
  BY SizesAreNumbers DEF Books
<1>7. IsFiniteSet(posted') /\ Cardinality(posted') = Cardinality(posted) + 1
  BY <1>1, <1>2, <1>6, OneMore DEF FiniteBooks
<1>8. FiniteBooks'
  BY <1>2, <1>3, <1>6, <1>7 DEF FiniteBooks
<1>9. Balance'
  BY <1>2, <1>3, <1>5, <1>6, <1>7 DEF Books, Balance, BookSizes
<1> QED
  BY <1>8, <1>9 DEF Books

LEMMA BooksOnHandle ==
  ASSUME IInv, Books, HandleArrival \/ HandleFinished
  PROVE  Books'
<1> USE DEF IInv, TypeOK
<1>1. call \in Objects /\ call \notin cq /\ call \notin finishing
  BY DEF HandleArrival, HandleFinished, TagsPartitionLive, InHand, CallInHand
<1>2. UNCHANGED <<posted, Accepted>> /\ Arrivals' = Arrivals /\ Ends' = Ends
  BY <1>1 DEF HandleArrival, HandleFinished, Accepted, Arrivals, Ends
<1>3. FiniteBooks /\ BookSizes
  BY SizesAreNumbers DEF Books
<1>4. CASE HandleArrival
  <2>1. finishing' = finishing \cup {call} /\ Pending = 1 /\ Pending' = 0
    BY <1>4 DEF HandleArrival, Pending
  <2>2. IsFiniteSet(finishing') /\ Cardinality(finishing') = Cardinality(finishing) + 1
    BY <1>1, <1>3, <2>1, OneMore DEF FiniteBooks
  <2> QED
    BY <1>2, <1>3, <2>1, <2>2 DEF Books, FiniteBooks, Balance, BookSizes
<1>5. CASE HandleFinished
  <2>1. finishing' = finishing /\ Pending = 0 /\ Pending' = 0
    BY <1>5 DEF HandleFinished, Pending
  <2> QED
    BY <1>2, <2>1, BooksUntouched
<1> QED
  BY <1>4, <1>5

LEMMA BooksStep == IInv /\ Books /\ [Next]_vars => Books'
<1> SUFFICES ASSUME IInv, Books, [Next]_vars PROVE Books'
  OBVIOUS
<1>1. ASSUME NEW r \in Rpcs, Send(r) \/ GiveUp(r) PROVE Books'
  <2>1. Accepted' = Accepted
    BY <1>1 DEF Send, GiveUp, Accepted, IInv, TypeOK
  <2>2. UNCHANGED <<posted, Arrivals, finishing, Ends, Pending>>
    BY <1>1 DEF Send, GiveUp, Arrivals, Ends, Pending
  <2> QED
    BY <2>1, <2>2, BooksUntouched
<1>2. ASSUME NEW o \in Objects, Take(o) \/ PostNew(o) PROVE Books'
  BY <1>2, BooksOnTake, BooksOnPostNew
<1>3. CASE UNCHANGED vars
  <2>1. UNCHANGED <<posted, Arrivals, finishing, Ends, Accepted, Pending>>
    BY <1>3 DEF vars, Arrivals, Ends, Accepted, Pending
  <2> QED
    BY <2>1, BooksUntouched
<1> QED
  BY <1>1, <1>2, <1>3, BooksOnAccept, BooksOnFinishEnds, BooksOnHandle DEF Next, Loop

(* For any number of RPCs and addresses, whenever the loop waits it has    *)
(* left one posted request for every RPC it has served, and one more.      *)
THEOREM OneRequestMoreForEachRpc == Spec => []PostedGrows
<1>1. Books => PostedGrows
  <2> SUFFICES ASSUME Books, pc = "next" PROVE PostedGrows
    BY DEF PostedGrows
  <2>1. Pending = 0 /\ BookSizes
    BY SizesAreNumbers DEF Pending, Books
  <2>2. Cardinality(posted) + 2 * Cardinality(Arrivals) + Cardinality(finishing)
          + Cardinality(Ends) = 1 + Cardinality(Accepted)
    BY <2>1 DEF Books, Balance, BookSizes
  <2> QED
    BY <2>2 DEF PostedGrows, Arrivals, Ends
<1> QED
  BY <1>1, BooksBegin, BooksStep, Invariance, PTL DEF Spec
=============================================================================
