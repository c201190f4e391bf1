----------------------------- MODULE ArenaLoop -----------------------------
(***************************************************************************)
(* The completion-queue loop that serves ReadComplexArena in the C++       *)
(* server (RunServer and ReadComplexAsyncCall, src/src/perftest_server.cc: *)
(* 406-503).                                                               *)
(*                                                                         *)
(* A ReadComplexAsyncCall is allocated, and posted to gRPC as a request    *)
(* for one incoming RPC; its address is the tag of the two events it       *)
(* causes: the RPC's arrival, upon which HandleCall finishes the RPC, and  *)
(* the end of that Finish, upon which HandleCall deletes the object.  The  *)
(* loop posts a new object for every event it takes, whichever it is.      *)
(*                                                                         *)
(* gRPC is modelled by what the loop sees of it: it pairs a waiting RPC    *)
(* with a posted request, and queues one event for each operation it was   *)
(* given, in any order.                                                    *)
(***************************************************************************)
EXTENDS Naturals, FiniteSets

CONSTANTS
  Rpcs,     \* the ReadComplexArena calls clients make
  Want,     \* num_samples of each
  Objects,  \* the addresses an object may be allocated at
  NoObject, \* no tag
  NoAnswer

ASSUME WantAssumption == Want \in [Rpcs -> Nat]
ASSUME ObjectsAssumption == NoObject \notin Objects

VARIABLES
  rpc,        \* the client's side of each RPC
  answer,     \* the samples it was answered with
  live,       \* allocated objects
  complete,   \* their member _complete
  request,    \* the RPC an object was paired with (_context, _request)
  posted,     \* objects waiting in gRPC for an RPC
  finishing,  \* objects whose Finish gRPC is carrying out
  cq,         \* tags in the completion queue
  pc,         \* where the loop is
  call        \* its local variable call

vars == <<rpc, answer, live, complete, request, posted, finishing, cq, pc, call>>

(* A call is "dropped" when its client gives up before the server accepts  *)
(* it, and "cancelled" when it does so later.                              *)
RpcStates == {"unsent", "waiting", "accepted", "replied", "dropped", "cancelled"}

TypeOK ==
  /\ rpc \in [Rpcs -> RpcStates]
  /\ answer \in [Rpcs -> Nat \cup {NoAnswer}]
  /\ live \in SUBSET Objects
  /\ complete \in [Objects -> BOOLEAN]
  /\ request \in [Objects -> SUBSET Rpcs]
  /\ posted \in SUBSET Objects
  /\ finishing \in SUBSET Objects
  /\ cq \in SUBSET Objects
  /\ pc \in {"next", "post", "handle"}
  /\ call \in Objects \cup {NoObject}

(* RunServer has allocated and posted its first object before the loop. *)
Init ==
  /\ rpc = [r \in Rpcs |-> "unsent"]
  /\ answer = [r \in Rpcs |-> NoAnswer]
  /\ \E o \in Objects : live = {o}
  /\ complete = [o \in Objects |-> FALSE]
  /\ request = [o \in Objects |-> {}]
  /\ posted = live
  /\ finishing = {}
  /\ cq = {}
  /\ pc = "next"
  /\ call = NoObject

-----------------------------------------------------------------------------
(* Clients *)

Send(r) ==
  /\ rpc[r] = "unsent"
  /\ rpc' = [rpc EXCEPT ![r] = "waiting"]
  /\ UNCHANGED <<answer, live, complete, request, posted, finishing, cq, pc, call>>

GiveUp(r) ==
  /\ \/ /\ rpc[r] = "waiting"
        /\ rpc' = [rpc EXCEPT ![r] = "dropped"]
     \/ /\ rpc[r] = "accepted"
        /\ rpc' = [rpc EXCEPT ![r] = "cancelled"]
  /\ UNCHANGED <<answer, live, complete, request, posted, finishing, cq, pc, call>>

-----------------------------------------------------------------------------
(* gRPC *)

(* A waiting RPC meets a posted request. *)
Accept(o, r) ==
  /\ o \in posted /\ rpc[r] = "waiting"
  /\ rpc' = [rpc EXCEPT ![r] = "accepted"]
  /\ request' = [request EXCEPT ![o] = {r}]
  /\ posted' = posted \ {o}
  /\ cq' = cq \cup {o}
  /\ UNCHANGED <<answer, live, complete, finishing, pc, call>>

(* The Finish of an object ends; with ok false when the client is gone.    *)
FinishEnds(o) ==
  /\ o \in finishing
  /\ finishing' = finishing \ {o}
  /\ cq' = cq \cup {o}
  /\ LET replied == {r \in request[o] : rpc[r] = "accepted"} IN
       /\ rpc' = [r \in Rpcs |-> IF r \in replied THEN "replied" ELSE rpc[r]]
       /\ answer' = [r \in Rpcs |-> IF r \in replied THEN Want[r] ELSE answer[r]]
  /\ UNCHANGED <<live, complete, request, posted, pc, call>>

-----------------------------------------------------------------------------
(* The loop *)

(* The loop takes an event from the queue. *)
Take(o) ==
  /\ pc = "next" /\ o \in cq
  /\ call' = o
  /\ cq' = cq \ {o}
  /\ pc' = "post"
  /\ UNCHANGED <<rpc, answer, live, complete, request, posted, finishing>>

(* Mutants of PostNew: a new request is posted only after a finished call, *)
(* or only after an arrival. *)
PostAfterFinish(o) ==
  /\ pc = "post" /\ o \notin live
  /\ IF complete[call]
       THEN live' = live \cup {o} /\ posted' = posted \cup {o}
       ELSE UNCHANGED <<live, posted>>
  /\ pc' = "handle"
  /\ UNCHANGED <<rpc, answer, complete, request, finishing, cq, call>>

PostAfterArrival(o) ==
  /\ pc = "post" /\ o \notin live
  /\ IF ~complete[call]
       THEN live' = live \cup {o} /\ posted' = posted \cup {o}
       ELSE UNCHANGED <<live, posted>>
  /\ pc' = "handle"
  /\ UNCHANGED <<rpc, answer, complete, request, finishing, cq, call>>

(* It allocates and posts an object, whichever event it took. *)
PostNew(o) ==
  /\ pc = "post" /\ o \notin live
  /\ live' = live \cup {o}
  /\ complete' = [complete EXCEPT ![o] = FALSE]
  /\ request' = [request EXCEPT ![o] = {}]
  /\ posted' = posted \cup {o}
  /\ pc' = "handle"
  /\ UNCHANGED <<rpc, answer, finishing, cq, call>>

(* Mutants of HandleArrival: the object is deleted when HandleCall returns *)
(* (the loop's commented-out line); the RPC is not finished; Finish is     *)
(* given no tag. *)
HandleAndDelete ==
  /\ pc = "handle" /\ ~complete[call]
  /\ finishing' = finishing \cup {call}
  /\ complete' = [complete EXCEPT ![call] = TRUE]
  /\ live' = live \ {call}
  /\ pc' = "next" /\ call' = NoObject
  /\ UNCHANGED <<rpc, answer, request, posted, cq>>

HandleNothing ==
  /\ pc = "handle" /\ ~complete[call]
  /\ complete' = [complete EXCEPT ![call] = TRUE]
  /\ pc' = "next" /\ call' = NoObject
  /\ UNCHANGED <<rpc, answer, live, request, posted, finishing, cq>>

FinishWithoutTag ==
  /\ pc = "handle" /\ ~complete[call]
  /\ finishing' = finishing \cup {NoObject}
  /\ complete' = [complete EXCEPT ![call] = TRUE]
  /\ pc' = "next" /\ call' = NoObject
  /\ UNCHANGED <<rpc, answer, live, request, posted, cq>>

(* HandleCall, the first time: answer the request. *)
HandleArrival ==
  /\ pc = "handle" /\ ~complete[call]
  /\ finishing' = finishing \cup {call}
  /\ complete' = [complete EXCEPT ![call] = TRUE]
  /\ pc' = "next" /\ call' = NoObject
  /\ UNCHANGED <<rpc, answer, live, request, posted, cq>>

(* HandleCall, the second time: delete this. *)
HandleFinished ==
  /\ pc = "handle" /\ complete[call]
  /\ live' = live \ {call}
  /\ request' = [request EXCEPT ![call] = {}]
  /\ complete' = [complete EXCEPT ![call] = FALSE]
  /\ pc' = "next" /\ call' = NoObject
  /\ UNCHANGED <<rpc, answer, posted, finishing, cq>>

Loop ==
  \/ \E o \in Objects : Take(o) \/ PostNew(o)
  \/ HandleArrival
  \/ HandleFinished

Next ==
  \/ \E r \in Rpcs : Send(r) \/ GiveUp(r)
  \/ \E o \in Objects, r \in Rpcs : Accept(o, r)
  \/ \E o \in Objects : FinishEnds(o)
  \/ Loop

(* The loop's thread runs; gRPC pairs RPCs with requests and ends every    *)
(* operation it was given.                                                 *)
Fairness ==
  /\ WF_vars(Loop)
  /\ \A r \in Rpcs : WF_vars(\E o \in Objects : Accept(o, r))
  /\ \A o \in Objects : WF_vars(FinishEnds(o))

Spec == Init /\ [][Next]_vars /\ Fairness

-----------------------------------------------------------------------------
InHand == {call} \ {NoObject}

(* Every allocated object is in exactly one place: waiting for an RPC,     *)
(* being finished, in the queue or in the loop's hand.  So no event names  *)
(* a deleted object, none is deleted twice, and none is lost.              *)
TagsPartitionLive ==
  /\ live = posted \cup finishing \cup cq \cup InHand
  /\ posted \cap (finishing \cup cq \cup InHand) = {}
  /\ finishing \cap (cq \cup InHand) = {}
  /\ cq \cap InHand = {}

(* The server never stops listening for the method: whenever the loop      *)
(* waits, or handles an event, a request is posted or about to be renewed  *)
(* by an arrival in the queue.                                             *)
AlwaysListening ==
  pc \in {"next", "handle"} => \E o \in Objects : o \in posted \/ (o \in cq /\ ~complete[o])

(* The objects that hold an RPC that is still to be answered. *)
Holders(r) ==
  {o \in Objects : /\ r \in request[o]
                   /\ o \in finishing \/ (o \in cq \cup InHand /\ ~complete[o])}

(* An RPC the server has accepted is held by one object until it is        *)
(* answered, whatever becomes of the other RPCs' objects and addresses.    *)
AcceptedIsHeld ==
  \A r \in Rpcs : rpc[r] = "accepted" => \E o \in Objects : Holders(r) = {o}

(* One more request is posted for every RPC served: the loop posts for two *)
(* events per RPC and gRPC takes one, and no request is ever withdrawn.    *)
Accepted == {r \in Rpcs : rpc[r] \in {"accepted", "replied", "cancelled"}}
PostedGrows ==
  pc = "next" =>
    LET arrivals == {o \in cq : ~complete[o]}
        ends == {o \in cq : complete[o]}
    IN  Cardinality(posted) + 2 * Cardinality(arrivals)
          + Cardinality(finishing) + Cardinality(ends) = 1 + Cardinality(Accepted)

(* The loop implements the unary method. *)
rpcBar ==
  [r \in Rpcs |-> CASE rpc[r] = "accepted" -> "waiting"
                    [] rpc[r] \in {"dropped", "cancelled"} -> "abandoned"
                    [] OTHER -> rpc[r]]

Service == INSTANCE UnaryService WITH rpc <- rpcBar

(* Every step of the loop and of gRPC is a step of the service or none,    *)
(* and a call that is made is answered in the end unless it is given up.   *)
ImplementsService == Service!Spec
=============================================================================
