----------------------------- MODULE ClientMain -----------------------------
(***************************************************************************)
(* The C++ client from its start to its exit: main loads the configuration *)
(* section by section (src/src/test_config.cc), connects, checks that the  *)
(* server answers, and runs the tests that are enabled one after another   *)
(* (src/src/perftest_client.cc:313-466, 524-654).                          *)
(*                                                                         *)
(* The test of asynchronous calls is modelled with its completion queue    *)
(* (src/src/performance_tests.cc:759-801); the others are atomic here.     *)
(* Tests that are treated alike share a name: "other_suites" stands for    *)
(* the seven suites of test_suites without a rule of their own, and        *)
(* "payload_tests" for the two payload sections.                           *)
(***************************************************************************)
EXTENDS Naturals, Sequences, FiniteSets

CONSTANTS
  Files,     \* the configuration files that may be found
  Commands,  \* calls of one round of the asynchronous test
  Repeats    \* its rounds

(* Sections, in the order of LoadFromFile, and the tests each enables. *)
Sections == <<"test_suites", "async_init_tests", "parallel_stream_tests",
              "payload_tests", "sideband_tests", "packing_tests", "single_latency_stream">>
Suites == {"message_performance", "other_suites", "uds_tests"}
SectionNames == {Sections[i] : i \in 1..Len(Sections)}
Enables(section) == IF section = "test_suites" THEN Suites ELSE {section}

(* Tests, in the order of RunConfiguredTests. *)
Order == <<"message_performance", "other_suites", "uds_tests", "single_latency_stream",
           "async_init_tests", "parallel_stream_tests", "payload_tests",
           "sideband_tests", "packing_tests">>
Tests == {Order[i] : i \in 1..Len(Order)}

(* The tests that run once for each element of a configured list.  The     *)
(* others take nothing from the file: parallel_stream_tests and            *)
(* packing_tests do not look at the counts that are configured.            *)
Listed == {"async_init_tests", "payload_tests", "sideband_tests"}

(* A file: what reading it gives, the sections it has, the tests it sets   *)
(* to true, and the sections with a value of the wrong type.               *)
ASSUME FilesAssumption ==
  Files \subseteq [text : {"missing", "not JSON", "JSON"}, has : SUBSET SectionNames,
                   on : SUBSET Tests, bad : SUBSET SectionNames]
ASSUME CommandsAssumption == Commands \in Nat \ {0} /\ Repeats \in Nat \ {0}

VARIABLES
  file,     \* the file named on the command line
  step,     \* what main does
  at,       \* the section that is loaded, or the test that is run, next
  fellBack, \* LoadFromFile has returned false
  enabled,  \* the member "enabled" of each test, "indeterminate" if not set
  listed,   \* the tests whose list is not empty
  uds,      \* main has made a client for the Unix socket
  ran,      \* the tests that did some work
  calls,    \* the calls of the asynchronous test's round
  repeat,   \* that test's round
  freed     \* the results of the round are deleted

configVars == <<fellBack, enabled, listed>>
asyncVars == <<calls, repeat, freed>>
vars == <<file, step, at, configVars, uds, ran, asyncVars>>

TypeOK ==
  /\ file \in Files
  /\ step \in {"opening", "loading", "connecting", "verifying", "verifying uds",
               "running", "sending", "polling", "deleting", "exited", "failed"}
  /\ at \in 1..Len(Order) + 1
  /\ fellBack \in BOOLEAN /\ uds \in BOOLEAN /\ freed \in BOOLEAN
  /\ enabled \in [Tests -> {"true", "false", "indeterminate"}]
  /\ listed \subseteq Listed /\ ran \subseteq Tests
  /\ calls \in [1..Commands -> {"none", "sent", "done", "taken"}]
  /\ repeat \in 1..Repeats + 1

NoCalls == [x \in 1..Commands |-> "none"]

(* A local TestConfig: no list has elements, and only the member of        *)
(* single_latency_stream has an initialiser. *)
Init ==
  /\ file \in Files
  /\ step = "opening" /\ at = 1 /\ fellBack = FALSE
  /\ enabled = [t \in Tests |-> IF t = "single_latency_stream" THEN "false" ELSE "indeterminate"]
  /\ listed = {} /\ uds = FALSE /\ ran = {}
  /\ calls = NoCalls /\ repeat = 1 /\ freed = FALSE

Bool(b) == IF b THEN "true" ELSE "false"

-----------------------------------------------------------------------------
(* TestConfig *)

DefaultOn == {"message_performance", "single_latency_stream"}
Defaults == [t \in Tests |-> Bool(t \in DefaultOn)]

(* Mutant of SetDefaults: it leaves the packing tests as they are. *)
SetDefaultsButPacking ==
  /\ enabled' = [t \in Tests |-> IF t = "packing_tests" THEN enabled[t] ELSE Defaults[t]]
  /\ listed' = Listed

SetDefaults == enabled' = Defaults /\ listed' = Listed

(* The exception of a parser or of a conversion, or a file that cannot be  *)
(* opened.  main does not look at the result. *)
FallBack ==
  /\ SetDefaults
  /\ fellBack' = TRUE
  /\ step' = "connecting" /\ at' = 1

Open ==
  /\ step = "opening"
  /\ IF file.text = "JSON"
       THEN step' = "loading" /\ UNCHANGED <<at, configVars>>
       ELSE FallBack
  /\ UNCHANGED <<file, uds, ran, asyncVars>>

(* Mutant of Load: a key that is not true is left as it was.             *)
LoadOnlyTrue(section) ==
  /\ enabled' = [t \in Tests |->
       IF t \in Enables(section) /\ t \in file.on THEN "true" ELSE enabled[t]]
  /\ listed' = listed \cup (Enables(section) \cap Listed)

(* A key the section does not have is false; a list it does not have is    *)
(* the default one.                                                        *)
Load(section) ==
  /\ enabled' = [t \in Tests |->
       IF t \in Enables(section) THEN Bool(t \in file.on) ELSE enabled[t]]
  /\ listed' = listed \cup (Enables(section) \cap Listed)

LoadSection ==
  /\ step = "loading" /\ at <= Len(Sections)
  /\ LET section == Sections[at] IN
     \/ section \notin file.has /\ at' = at + 1 /\ UNCHANGED <<step, configVars>>
     \/ /\ section \in file.has \ file.bad
        /\ Load(section) /\ at' = at + 1 /\ UNCHANGED <<step, fellBack>>
     \/ section \in file.has \cap file.bad /\ FallBack
  /\ UNCHANGED <<file, uds, ran, asyncVars>>

LoadEnds ==
  /\ step = "loading" /\ at > Len(Sections)
  /\ step' = "connecting" /\ at' = 1
  /\ UNCHANGED <<file, configVars, uds, ran, asyncVars>>

-----------------------------------------------------------------------------
(* A branch on an indeterminate bool takes either way; the model lets it   *)
(* keep the value it showed.                                               *)
Branch(t, taken) ==
  /\ enabled[t] \in {Bool(taken), "indeterminate"}
  /\ enabled' = [enabled EXCEPT ![t] = Bool(taken)]
  /\ UNCHANGED <<fellBack, listed>>

Connect ==
  /\ step = "connecting"
  /\ step' = "verifying"
  /\ \E taken \in BOOLEAN : Branch("uds_tests", taken) /\ uds' = taken
  /\ UNCHANGED <<file, at, ran, asyncVars>>

(* Init(42) gives 42 if the server answers, and otherwise an empty reply.  *)
Verify ==
  /\ \/ step = "verifying" /\ step' \in {IF uds THEN "verifying uds" ELSE "running", "failed"}
     \/ step = "verifying uds" /\ step' \in {"running", "failed"}
  /\ UNCHANGED <<file, at, configVars, uds, ran, asyncVars>>

(* Whether an enabled test does any work. *)
Works(t) ==
  /\ t \in Listed => t \in listed
  /\ t = "uds_tests" => uds

RunTest ==
  /\ step = "running" /\ at <= Len(Order)
  /\ LET t == Order[at] IN
     \E taken \in BOOLEAN :
       /\ Branch(t, taken)
       /\ ran' = IF taken /\ Works(t) THEN ran \cup {t} ELSE ran
       /\ step' = IF t = "async_init_tests" /\ taken /\ Works(t) THEN "sending" ELSE "running"
  /\ at' = at + 1
  /\ UNCHANGED <<file, uds, asyncVars>>

Exit ==
  /\ step = "running" /\ at > Len(Order)
  /\ step' = "exited"
  /\ UNCHANGED <<file, at, configVars, uds, ran, asyncVars>>

-----------------------------------------------------------------------------
(* PerformAsyncInitTest.  Each call has an element of an array of results  *)
(* that gRPC writes into until the call's event has been taken.            *)

asyncOthers == <<file, at, configVars, uds, ran>>
Count(state) == Cardinality({x \in 1..Commands : calls[x] = state})

SendCall ==
  /\ step = "sending"
  /\ LET x == Commands - Count("none") + 1 IN calls' = [calls EXCEPT ![x] = "sent"]
  /\ step' = IF Count("none") = 1 THEN "polling" ELSE "sending"
  /\ UNCHANGED <<asyncOthers, repeat, freed>>

(* gRPC: a call ends, in any order. *)
CallEnds ==
  /\ \E x \in 1..Commands : calls[x] = "sent" /\ calls' = [calls EXCEPT ![x] = "done"]
  /\ UNCHANGED <<asyncOthers, step, repeat, freed>>

(* Mutant of TakeEvent: the loop ends one event too early. *)
TakeEventButOne ==
  /\ step = "polling"
  /\ \E x \in 1..Commands : calls[x] = "done" /\ calls' = [calls EXCEPT ![x] = "taken"]
  /\ step' = IF Count("taken") + 2 >= Commands THEN "deleting" ELSE "polling"
  /\ UNCHANGED <<asyncOthers, repeat, freed>>

(* A bad reply or a failed call is only reported. *)
TakeEvent ==
  /\ step = "polling"
  /\ \E x \in 1..Commands : calls[x] = "done" /\ calls' = [calls EXCEPT ![x] = "taken"]
  /\ step' = IF Count("taken") + 1 = Commands THEN "deleting" ELSE "polling"
  /\ UNCHANGED <<asyncOthers, repeat, freed>>

(* An event that is not ok ends the test; the results are not deleted. *)
TakeFailedEvent ==
  /\ step = "polling"
  /\ \E x \in 1..Commands : calls[x] = "done" /\ calls' = [calls EXCEPT ![x] = "taken"]
  /\ step' = "running"
  /\ UNCHANGED <<asyncOthers, repeat, freed>>

DeleteResults ==
  /\ step = "deleting" /\ ~freed
  /\ freed' = TRUE
  /\ UNCHANGED <<asyncOthers, step, calls, repeat>>

(* Mutant of NextRepeat: one round too many. *)
NextRepeatInclusive ==
  /\ step = "deleting" /\ freed
  /\ repeat' = repeat + 1
  /\ IF repeat <= Repeats
       THEN step' = "sending" /\ calls' = NoCalls /\ freed' = FALSE
       ELSE step' = "running" /\ UNCHANGED <<calls, freed>>
  /\ UNCHANGED asyncOthers

(* The next round has an array and a queue of its own. *)
NextRepeat ==
  /\ step = "deleting" /\ freed
  /\ repeat' = repeat + 1
  /\ IF repeat < Repeats
       THEN step' = "sending" /\ calls' = NoCalls /\ freed' = FALSE
       ELSE step' = "running" /\ UNCHANGED <<calls, freed>>
  /\ UNCHANGED asyncOthers

AsyncStep ==
  \/ SendCall \/ CallEnds \/ TakeEvent \/ TakeFailedEvent
  \/ DeleteResults \/ NextRepeat

Next ==
  \/ Open \/ LoadSection \/ LoadEnds \/ Connect \/ Verify \/ RunTest \/ Exit
  \/ AsyncStep

Spec == Init /\ [][Next]_vars

-----------------------------------------------------------------------------
(* Wherever loading breaks off, the client goes on with the whole default  *)
(* configuration: nothing of the sections loaded before the error is left. *)
FallbackIsDefault ==
  (fellBack /\ step = "connecting") => enabled = Defaults /\ listed = Listed

(* A file that has every section is obeyed: when the client is done, the   *)
(* tests that did some work are those the file enables.                    *)
RunsWhatTheFileEnables ==
  (step = "exited" /\ ~fellBack /\ file.has = SectionNames) => ran = file.on

(* The results of a round are deleted only when every event that names one *)
(* has been taken. *)
ResultsOutliveCalls == freed => Count("sent") + Count("done") = 0

(* CONFIG_README.md:117 says of the minimal configuration that it "Only    *)
(* runs basic message performance and single latency stream tests".        *)
MinimalRunsTwoTests ==
  (file.text = "JSON" /\ file.has = {"test_suites", "single_latency_stream"}
     /\ file.on = DefaultOn) => ran \subseteq DefaultOn
=============================================================================
