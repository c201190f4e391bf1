---------------------------- MODULE SidebandRead ----------------------------
(***************************************************************************)
(* The sideband read test: the client asks for data over a gRPC stream and *)
(* reads the data from another medium (PerformSidebandReadTest,            *)
(* src/src/performance_tests.cc:914-955) that the handler of               *)
(* TestSidebandStream writes (src/src/perftest_server.cc:226-278).         *)
(*                                                                         *)
(* The medium belongs to a library that is not part of the repository.     *)
(* SOCKETS stands for the socket and RDMA strategies: a stream of bytes    *)
(* that need not hold a whole block, so that a write may wait for the      *)
(* reader.  The shared-memory strategies are one buffer, or two used in    *)
(* turn, and neither side waits: the gRPC response alone tells the client  *)
(* that its buffer is ready, and its next request that it has been read.   *)
(*                                                                         *)
(* A block of data is known by the number of its write.                    *)
(***************************************************************************)
EXTENDS Naturals, Sequences

CONSTANT Iterations  \* DefaultTestIterations

ASSUME IterationsAssumption == Iterations \in Nat \ {0}

Strategies == {"SOCKETS", "SHARED_MEMORY", "DOUBLE_BUFFERED_SHARED_MEMORY"}
Torn == 0  \* a buffer that was never written, or is being written

VARIABLES
  test,    \* the strategy of the test, and whether its num_samples is valid
  pc,      \* where the client is
  round,   \* its iteration
  got,     \* the block it has read, or begun to copy; Torn for none
  net,     \* the gRPC stream: call, and requests and responses on their way
  handler, \* the handler: running, and its token, firstWrite and work left
  medium   \* the sideband: a write that has begun, the number of writes,
           \* the socket, the buffers, and the ends that have been closed

readVars == <<test, pc, round, got, net, handler, medium>>

ReadTypeOK ==
  /\ test \in [strategy : Strategies, size : {"valid", "too large"}]
  /\ pc \in {"idle", "done", "request", "response", "data", "copying", "close", "finish"}
  /\ round \in 1..Iterations + 1 /\ got \in 0..Iterations + 1
  /\ net \in [call : {"open", "halfclosed", "broken"}, requests : 0..1, responses : 0..1]
  /\ handler.running \in BOOLEAN /\ handler.token \in BOOLEAN /\ handler.first \in BOOLEAN
  /\ handler.todo \in Seq({"write", "respond"})
  /\ medium.writing \in BOOLEAN /\ medium.writes \in 0..Iterations + 1
  /\ medium.wire \in Seq(1..Iterations) /\ Len(medium.wire) <= 1
  /\ medium.memory \in [0..1 -> 0..Iterations + 1]
  /\ medium.closed \in SUBSET {"client", "server"}

FreshNet == [call |-> "open", requests |-> 0, responses |-> 0]
FreshHandler == [running |-> TRUE, token |-> FALSE, first |-> TRUE, todo |-> <<>>]
FreshMedium ==
  [writing |-> FALSE, writes |-> 0, wire |-> <<>>, memory |-> [i \in 0..1 |-> Torn], closed |-> {}]

ReadInit ==
  /\ test = [strategy |-> "SOCKETS", size |-> "valid"]
  /\ pc = "idle" /\ round = 1 /\ got = Torn
  /\ net = FreshNet /\ medium = FreshMedium
  /\ handler = [FreshHandler EXCEPT !.running = FALSE]

Shared == test.strategy # "SOCKETS"
Buffer(n) == IF test.strategy = "SHARED_MEMORY" THEN 0 ELSE n % 2
CallIsOver == net.call = "broken" \/ ~handler.running
Closed(end) == [medium EXCEPT !.closed = @ \cup {end}]

-----------------------------------------------------------------------------
(* The client.  It looks at no result: not of Write and Read, and not of   *)
(* ReadSidebandData. *)

(* BeginTestSidebandStream has prepared the medium, the client is attached *)
(* to it and opens the stream.  A test waits for the last one's handler.   *)
BeginRead(strategy, size) ==
  /\ pc \in {"idle", "done"} /\ ~handler.running
  /\ test' = [strategy |-> strategy, size |-> size]
  /\ pc' = "request" /\ round' = 1 /\ got' = Torn
  /\ net' = FreshNet /\ handler' = FreshHandler /\ medium' = FreshMedium

WriteRequest ==
  /\ pc = "request"
  /\ pc' = "response"
  /\ net' = [net EXCEPT !.requests = IF CallIsOver THEN @ ELSE @ + 1]
  /\ UNCHANGED <<test, round, got, handler, medium>>

ReadResponse ==
  /\ pc = "response"
  /\ \/ net.responses > 0 /\ net' = [net EXCEPT !.responses = @ - 1]
     \/ net.responses = 0 /\ CallIsOver /\ UNCHANGED net
  /\ pc' = "data"
  /\ UNCHANGED <<test, round, got, handler, medium>>

NextRound ==
  /\ round' = round + 1
  /\ pc' = IF round = Iterations THEN "close" ELSE "request"

(* ReadSidebandData waits for a block, or for the server to close. *)
ReadSocket ==
  /\ pc = "data" /\ ~Shared
  /\ \/ /\ medium.wire # <<>>
        /\ got' = Head(medium.wire)
        /\ medium' = [medium EXCEPT !.wire = Tail(@)]
     \/ /\ medium.wire = <<>> /\ "server" \in medium.closed
        /\ got' = Torn
        /\ UNCHANGED medium
  /\ NextRound
  /\ UNCHANGED <<test, net, handler>>

BeginCopy ==
  /\ pc = "data" /\ Shared
  /\ got' = medium.memory[Buffer(round)]
  /\ pc' = "copying"
  /\ UNCHANGED <<test, round, net, handler, medium>>

EndCopy ==
  /\ pc = "copying"
  /\ got' = IF medium.memory[Buffer(round)] = got THEN got ELSE Torn
  /\ NextRound
  /\ UNCHANGED <<test, net, handler, medium>>

(* Mutant of CloseClient: no WritesDone before Finish. *)
CloseWithoutWritesDone ==
  /\ pc = "close"
  /\ pc' = "finish"
  /\ medium' = Closed("client")
  /\ UNCHANGED <<test, round, got, net, handler>>

(* CloseSidebandData and WritesDone. *)
CloseClient ==
  /\ pc = "close"
  /\ pc' = "finish"
  /\ medium' = Closed("client")
  /\ net' = [net EXCEPT !.call = IF @ = "open" THEN "halfclosed" ELSE @]
  /\ UNCHANGED <<test, round, got, handler>>

Finish ==
  /\ pc = "finish" /\ CallIsOver
  /\ pc' = "done"
  /\ UNCHANGED <<test, round, got, net, handler, medium>>

(* The client is killed, and started again; the call breaks for another    *)
(* reason. *)
KillClient ==
  /\ pc \notin {"idle", "done"}
  /\ pc' = "idle"
  /\ net' = [call |-> "broken", requests |-> 0, responses |-> 0]
  /\ medium' = Closed("client")
  /\ UNCHANGED <<test, round, got, handler>>

BreakStream ==
  /\ net.call # "broken"
  /\ \E n \in 0..net.responses : net' = [call |-> "broken", requests |-> 0, responses |-> n]
  /\ UNCHANGED <<test, pc, round, got, handler, medium>>

-----------------------------------------------------------------------------
(* The handler *)

(* Mutants of Steps: no first write into the second buffer; data first,    *)
(* whatever the strategy. *)
StepsWithoutFirst ==
  IF test.strategy = "SHARED_MEMORY" THEN <<"write", "respond">> ELSE <<"respond", "write">>

StepsDataFirst == <<"write", "respond">>

(* Mutant of Steps: the second buffer is filled in every iteration. *)
StepsAlwaysTwice ==
  IF Shared THEN <<"write", "respond", "write">> ELSE <<"respond", "write">>

(* The switch on the strategy. *)
Steps ==
  CASE test.strategy = "SOCKETS" -> <<"respond", "write">>
    [] test.strategy = "SHARED_MEMORY" -> <<"write", "respond">>
    [] test.strategy = "DOUBLE_BUFFERED_SHARED_MEMORY" ->
         IF handler.first THEN <<"write", "respond", "write">> ELSE <<"respond", "write">>

Serving == handler.running /\ handler.todo = <<>>
About(step) == handler.todo # <<>> /\ Head(handler.todo) = step

ReadRequest ==
  /\ Serving /\ net.requests > 0 /\ test.size = "valid"
  /\ net' = [net EXCEPT !.requests = @ - 1]
  /\ handler' = [handler EXCEPT !.token = TRUE, !.first = FALSE, !.todo = Steps]
  /\ UNCHANGED <<test, pc, round, got, medium>>

Respond ==
  /\ About("respond")
  /\ handler' = [handler EXCEPT !.todo = Tail(@)]
  /\ net' = [net EXCEPT !.responses = IF net.call = "broken" THEN @ ELSE @ + 1]
  /\ UNCHANGED <<test, pc, round, got, medium>>

BeginWrite ==
  /\ About("write") /\ ~medium.writing
  /\ LET n == medium.writes + 1 IN
     medium' = [medium EXCEPT
                 !.writing = TRUE, !.writes = n,
                 !.wire = IF Shared THEN @ ELSE Append(@, n),
                 !.memory = IF Shared THEN [@ EXCEPT ![Buffer(n)] = Torn] ELSE @]
  /\ UNCHANGED <<test, pc, round, got, net, handler>>

EndWrite ==
  /\ medium.writing
  /\ medium' = [medium EXCEPT
                 !.writing = FALSE,
                 !.memory = IF Shared THEN [@ EXCEPT ![Buffer(medium.writes)] = medium.writes] ELSE @]
  /\ handler' = [handler EXCEPT !.todo = Tail(@)]
  /\ UNCHANGED <<test, pc, round, got, net>>

(* The sideband is closed only if the handler has its token. *)
Return ==
  /\ handler' = [handler EXCEPT !.running = FALSE]
  /\ medium' = IF handler.token THEN Closed("server") ELSE medium

(* Mutant of ServerEnds: the sideband is left open. *)
ServerEndsOnly ==
  /\ Serving /\ net.requests = 0 /\ net.call # "open"
  /\ handler' = [handler EXCEPT !.running = FALSE]
  /\ UNCHANGED <<test, pc, round, got, net, medium>>

(* Read fails. *)
ServerEnds ==
  /\ Serving /\ net.requests = 0 /\ net.call # "open"
  /\ Return
  /\ UNCHANGED <<test, pc, round, got, net>>

(* A request for more than 16 MB ends the call with INVALID_ARGUMENT. *)
RefuseRequest ==
  /\ Serving /\ net.requests > 0 /\ test.size = "too large"
  /\ net' = [net EXCEPT !.requests = @ - 1]
  /\ Return
  /\ UNCHANGED <<test, pc, round, got>>

-----------------------------------------------------------------------------
ReadClientStep ==
  \/ WriteRequest \/ ReadResponse \/ ReadSocket
  \/ BeginCopy \/ EndCopy \/ CloseClient \/ Finish

ReadHandlerStep == ReadRequest \/ Respond \/ BeginWrite \/ ServerEnds \/ RefuseRequest

ReadTestStep ==
  \/ ReadClientStep \/ ReadHandlerStep \/ EndWrite
  \/ KillClient \/ BreakStream

(* A socket takes a block for certain only when it is read or refused. *)
EndWriteSurely == (Shared \/ medium.wire = <<>> \/ "client" \in medium.closed) /\ EndWrite

-----------------------------------------------------------------------------
(* While the stream is whole, the block that the client reads in an        *)
(* iteration is the one written for it, complete, although in shared       *)
(* memory nothing but the order of the handler's response and its writes   *)
(* keeps the two sides apart, and with two buffers the handler writes one  *)
(* while the client copies the other.                                      *)
DataIsOfThisRound ==
  (net.call # "broken" /\ test.size = "valid" /\ round > 1 /\ pc \in {"request", "close"})
    => got = round - 1

(* Once the handler has served a request, the client's test ends, whatever *)
(* becomes of the stream: neither side waits for ever in the sideband for  *)
(* the other.  (Before that nobody closes the sideband, and the client of  *)
(* a stream that breaks, or of a refused request, reads a socket for ever.)*)
ReadTestEnds == handler.token ~> (pc \in {"idle", "done"})

(* When the client has left the loop the handler returns. *)
HandlerReturns == (pc \in {"finish", "done", "idle"}) ~> ~handler.running
=============================================================================
