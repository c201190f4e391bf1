----------------------------- MODULE Applications -----------------------------
(***************************************************************************)
(* The C++ client's process with the server's: perftest_server starts a    *)
(* thread for each listener, waits two seconds, starts the threads that    *)
(* accept sideband connections, and joins them all                         *)
(* (src/src/perftest_server_app.cc:83-174).  RunServer returns if its      *)
(* listener cannot start and otherwise never                               *)
(* (src/src/perftest_server.cc:441-503).  The process may be killed and    *)
(* started again.                                                          *)
(*                                                                         *)
(* Nothing orders the two processes: the client may come before either     *)
(* listener, or between two lives of the server.                           *)
(***************************************************************************)
EXTENDS ClientMain

VARIABLES
  smain,   \* what the server's main does
  thread,  \* its threads; "accept" stands for those of the sidebands
  hosts    \* the listeners that some life of the server has served on

serverVars == <<smain, thread, hosts>>
appVars == <<vars, serverVars>>

Listeners == {"tcp", "uds"}
ServerThreads == Listeners \cup {"accept"}
NoThreads == [t \in ServerThreads |-> "none"]

AppTypeOK ==
  /\ TypeOK
  /\ smain \in {"down", "sleeping", "joining"}
  /\ thread \in [ServerThreads -> {"none", "building", "running", "returned"}]
  /\ hosts \subseteq Listeners

AppInit == Init /\ smain = "down" /\ thread = NoThreads /\ hosts = {}

-----------------------------------------------------------------------------
(* The server *)

StartServer ==
  /\ smain = "down"
  /\ smain' = "sleeping"
  /\ thread' = [t \in ServerThreads |-> IF t \in Listeners THEN "building" ELSE "none"]
  /\ UNCHANGED hosts

(* RunServer: BuildAndStart gives a server, whose loop never ends, or null *)
(* (an address that is taken, an unreadable certificate).                  *)
RunServer(l) ==
  /\ thread[l] = "building"
  /\ \/ thread' = [thread EXCEPT ![l] = "running"] /\ hosts' = hosts \cup {l}
     \/ thread' = [thread EXCEPT ![l] = "returned"] /\ UNCHANGED hosts
  /\ UNCHANGED smain

StartAccepting ==
  /\ smain = "sleeping"
  /\ smain' = "joining"
  /\ thread' = [thread EXCEPT !["accept"] = "running"]
  /\ UNCHANGED hosts

(* The sideband library returns from accepting when it fails. *)
AcceptEnds ==
  /\ thread["accept"] = "running"
  /\ thread' = [thread EXCEPT !["accept"] = "returned"]
  /\ UNCHANGED <<smain, hosts>>

ServerExits ==
  /\ smain = "joining" /\ \A t \in ServerThreads : thread[t] = "returned"
  /\ smain' = "down" /\ thread' = NoThreads
  /\ UNCHANGED hosts

KillServer ==
  /\ smain # "down"
  /\ smain' = "down" /\ thread' = NoThreads
  /\ UNCHANGED hosts

ServerNext ==
  \/ StartServer \/ StartAccepting \/ AcceptEnds \/ ServerExits \/ KillServer
  \/ \E l \in Listeners : RunServer(l)

-----------------------------------------------------------------------------
(* The client *)

Answers(l) == thread[l] = "running"

(* Mutant of VerifyServer: the client for the Unix socket is taken as it   *)
(* is. *)
VerifyTcpOnly ==
  /\ step = "verifying"
  /\ step' \in (IF Answers("tcp") THEN {"running"} ELSE {}) \cup {"failed"}
  /\ UNCHANGED <<file, at, configVars, uds, ran, asyncVars>>

(* Init(42) over each channel gives 42 only if that listener runs. *)
VerifyServer ==
  /\ Verify
  /\ step' # "failed" => Answers(IF step = "verifying" THEN "tcp" ELSE "uds")

ClientNext ==
  \/ Open \/ LoadSection \/ LoadEnds \/ Connect \/ VerifyServer \/ RunTest \/ Exit
  \/ AsyncStep

AppNext ==
  \/ ClientNext /\ UNCHANGED serverVars
  \/ ServerNext /\ UNCHANGED vars

AppSpec == AppInit /\ [][AppNext]_appVars

-----------------------------------------------------------------------------
(* Tests run only if a server has been there: nothing runs before the TCP  *)
(* listener has started, and no test uses the Unix socket before its own   *)
(* has, although each listener may fail alone and the flag of the          *)
(* configuration that stands for the socket may be indeterminate           *)
(* (src/src/perftest_client.cc:608-642).                                   *)
TestsMeetAServer ==
  /\ ran # {} => "tcp" \in hosts
  /\ "uds_tests" \in ran => "uds" \in hosts
=============================================================================
