---------------------------- MODULE UnaryService ----------------------------
(***************************************************************************)
(* What a unary method promises its callers: a call that is made is        *)
(* answered once, with the number of samples it asked for, unless it is    *)
(* abandoned first.  This is all that NIPerfTestClient::ReadComplexArena   *)
(* (src/src/client_utilities.cc:175-193) relies on.                        *)
(***************************************************************************)
CONSTANTS
  Rpcs,  \* the calls made of the method
  Want,  \* the number of samples each one asks for
  NoAnswer

VARIABLES
  rpc,     \* where each call is
  answer   \* the number of samples it was answered with

Init ==
  /\ rpc = [r \in Rpcs |-> "unsent"]
  /\ answer = [r \in Rpcs |-> NoAnswer]

Send(r) ==
  /\ rpc[r] = "unsent"
  /\ rpc' = [rpc EXCEPT ![r] = "waiting"]
  /\ UNCHANGED answer

Reply(r) ==
  /\ rpc[r] = "waiting"
  /\ rpc' = [rpc EXCEPT ![r] = "replied"]
  /\ answer' = [answer EXCEPT ![r] = Want[r]]

Abandon(r) ==
  /\ rpc[r] = "waiting"
  /\ rpc' = [rpc EXCEPT ![r] = "abandoned"]
  /\ UNCHANGED answer

Next == \E r \in Rpcs : Send(r) \/ Reply(r) \/ Abandon(r)

Spec ==
  /\ Init /\ [][Next]_<<rpc, answer>>
  /\ \A r \in Rpcs : WF_<<rpc, answer>>(Reply(r))
=============================================================================
