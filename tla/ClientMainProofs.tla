--------------------------- MODULE ClientMainProofs ---------------------------
(***************************************************************************)
(* Theorems about the client's main program, for any configuration files,  *)
(* any number of calls and any number of rounds, alone and beside the      *)
(* server's process.                                                       *)
(***************************************************************************)
EXTENDS Applications, FiniteSetTheorems, TLAPS

AsyncSteps == {"sending", "polling", "deleting"}
BeforeTests == {"opening", "loading", "connecting", "verifying", "verifying uds"}
AsyncIndex == 5  \* the place of the asynchronous test in Order

(* main's place and its counter agree: the counter runs over sections, and *)
(* then over tests, and the asynchronous test is begun once.               *)
StepsInOrder ==
  /\ step = "loading" => at \in 1..Len(Sections) + 1
  /\ step \in {"opening", "connecting", "verifying", "verifying uds"} => at = 1
  /\ step \in BeforeTests => ~freed /\ repeat = 1
  /\ step \in AsyncSteps => at > AsyncIndex /\ repeat <= Repeats
  /\ at <= AsyncIndex => ~freed /\ repeat = 1

(* Results are deleted at the end of a round, when every event was taken.  *)
AllTaken == \A x \in 1..Commands : calls[x] = "taken"
RoundIsOver ==
  /\ step = "deleting" => AllTaken
  /\ freed => AllTaken /\ step \in {"deleting", "running", "exited"}

(* What the fall back leaves; it is not called twice. *)
FallBackIsFinal ==
  fellBack => /\ step \notin {"opening", "loading"}
              /\ step = "connecting" => enabled = Defaults /\ listed = Listed

IInv == TypeOK /\ StepsInOrder /\ RoundIsOver /\ FallBackIsFinal

-----------------------------------------------------------------------------
(* The lists of sections and of tests. *)
LEMMA Lengths ==
  Len(Sections) = 7 /\ Len(Order) = 9 /\ 1 \in 1..Len(Order) + 1
<1>1. Len(Sections) = 7 /\ Len(Order) = 9
  BY DEF Sections, Order
<1> QED BY <1>1

LEMMA Orders ==
  /\ \A i \in 1..9 : Order[i] \in Tests
  /\ \A i \in 1..9 : Order[i] = "async_init_tests" <=> i = AsyncIndex
  /\ "uds_tests" \in Tests
<1>1. \A i \in 1..9 : Order[i] \in Tests
  BY Lengths DEF Tests
<1>2. \A i \in 1..9 : Order[i] = "async_init_tests" <=> i = AsyncIndex
  BY DEF Order, AsyncIndex
<1>3. Order[3] = "uds_tests"
  BY DEF Order
<1> QED BY <1>1, <1>2, <1>3

(* When all but one element of 1..n are in a set, and that one is added,   *)
(* the set is all of 1..n.                                                 *)
LEMMA LastOne ==
  ASSUME NEW n \in Nat, NEW S \in SUBSET (1..n), NEW x \in (1..n) \ S,
         Cardinality(S) + 1 = n
  PROVE  1..n = S \cup {x}
<1>1. IsFiniteSet(1..n) /\ Cardinality(1..n) = n
  BY FS_Interval
<1>2. IsFiniteSet(S)
  BY <1>1, FS_Subset
<1>3. Cardinality(S \cup {x}) = n
  BY <1>2, FS_AddElement
<1>4. S \cup {x} \subseteq 1..n
  OBVIOUS
<1> QED BY <1>1, <1>3, <1>4, FS_Subset

(* Counted one short of the last event, a taken event is the last. *)
LEMMA LastEvent ==
  ASSUME TypeOK, NEW x \in 1..Commands, calls[x] = "done", Count("taken") + 1 = Commands,
         calls' = [calls EXCEPT ![x] = "taken"]
  PROVE  AllTaken'
<1> DEFINE S == {y \in 1..Commands : calls[y] = "taken"}
<1>1. Commands \in Nat /\ S \in SUBSET (1..Commands) /\ x \in (1..Commands) \ S
  BY CommandsAssumption
<1>2. Cardinality(S) + 1 = Commands
  BY DEF Count
<1> HIDE DEF S
<1>3. 1..Commands = S \cup {x}
  BY <1>1, <1>2, LastOne
<1>4. \A y \in S : calls[y] = "taken"
  BY DEF S
<1> QED BY <1>3, <1>4 DEF AllTaken, TypeOK

-----------------------------------------------------------------------------
(* Whatever sets the configuration gives it values of its types. *)
ConfigOK == enabled \in [Tests -> {"true", "false", "indeterminate"}] /\ listed \subseteq Listed

LEMMA BoolType == \A b \in BOOLEAN : Bool(b) \in {"true", "false", "indeterminate"}
BY DEF Bool

LEMMA DefaultTypes == SetDefaults => ConfigOK'
<1>1. \A t \in Tests : Bool(t \in DefaultOn) \in {"true", "false", "indeterminate"}
  BY DEF Bool
<1>2. Defaults \in [Tests -> {"true", "false", "indeterminate"}]
  BY <1>1 DEF Defaults
<1> QED BY <1>2 DEF SetDefaults, ConfigOK

LEMMA LoadTypes == ASSUME ConfigOK, NEW section, Load(section) PROVE ConfigOK'
<1>1. \A t \in Tests : Bool(t \in file.on) \in {"true", "false", "indeterminate"}
  BY DEF Bool
<1> QED BY <1>1 DEF Load, ConfigOK

LEMMA BranchTypes ==
  ASSUME ConfigOK, NEW t \in Tests, NEW taken \in BOOLEAN, Branch(t, taken)
  PROVE  ConfigOK'
BY BoolType DEF Branch, ConfigOK

(* A file that has been chosen, and nothing done yet. *)
LEMMA InitEstablishesIInv == Init => IInv
<1> SUFFICES ASSUME Init PROVE IInv
  OBVIOUS
<1>1. ConfigOK
  BY DEF Init, ConfigOK
<1>2. calls \in [1..Commands -> {"none", "sent", "done", "taken"}]
  BY DEF Init, NoCalls
<1>3. fellBack \in BOOLEAN /\ uds \in BOOLEAN /\ freed \in BOOLEAN
  BY DEF Init
<1>4. at \in 1..Len(Order) + 1 /\ repeat \in 1..Repeats + 1
  BY Lengths, CommandsAssumption DEF Init
<1>5. TypeOK
  BY <1>1, <1>2, <1>3, <1>4 DEF Init, TypeOK, ConfigOK
<1>6. StepsInOrder /\ RoundIsOver /\ FallBackIsFinal
  BY DEF Init, StepsInOrder, RoundIsOver, FallBackIsFinal, BeforeTests, AsyncSteps, AsyncIndex
<1> QED BY <1>5, <1>6 DEF IInv

(* Every step of the client keeps the invariant. *)
LEMMA IInvStep == IInv /\ [Next]_vars => IInv'
<1> SUFFICES ASSUME IInv, [Next]_vars PROVE IInv'
  OBVIOUS
<1> USE DEF IInv, TypeOK, StepsInOrder, RoundIsOver, FallBackIsFinal, BeforeTests,
            AsyncSteps, AsyncIndex
<1> USE CommandsAssumption, Lengths
<1>0. ConfigOK
  BY DEF ConfigOK
<1>1. ASSUME FallBack, step \in {"opening", "loading"},
             UNCHANGED <<file, uds, ran, asyncVars>>
      PROVE  IInv'
  <2>1. ConfigOK'
    BY <1>1, DefaultTypes DEF FallBack
  <2>2. fellBack' = TRUE /\ step' = "connecting" /\ at' = 1 /\ enabled' = Defaults /\ listed' = Listed
    BY <1>1 DEF FallBack, SetDefaults
  <2>3. fellBack' \in BOOLEAN
    BY <2>2
  <2>4. ~freed /\ repeat = 1
    BY <1>1
  <2>5. UNCHANGED <<file, uds, ran, calls, repeat, freed>>
    BY <1>1 DEF asyncVars
  <2>6. at' = 1 /\ step' = "connecting"
    BY <2>2
  <2>7. TypeOK'
    <3>1. uds' \in BOOLEAN /\ freed' \in BOOLEAN
      BY <2>5
    <3>2. at' \in 1..Len(Order) + 1
      BY <2>6
    <3>3. /\ file' \in Files /\ ran' \subseteq Tests /\ repeat' \in 1..Repeats + 1
          /\ calls' \in [1..Commands -> {"none", "sent", "done", "taken"}]
      BY <2>5
    <3> QED BY <2>1, <2>3, <2>6, <3>1, <3>2, <3>3 DEF ConfigOK
  <2>8. StepsInOrder' /\ RoundIsOver'
    BY <2>2, <2>4, <2>5
  <2> QED BY <2>2, <2>7, <2>8
<1>2. CASE Open
  <2>1. CASE step' = "loading" /\ UNCHANGED <<at, configVars>>
    BY <1>2, <2>1 DEF Open, configVars, asyncVars, AllTaken
  <2>2. CASE FallBack
    BY <1>1, <1>2, <2>2 DEF Open
  <2> QED BY <1>2, <2>1, <2>2 DEF Open
<1>3. CASE LoadSection
  <2> DEFINE section == Sections[at]
  <2>1. CASE section \notin file.has /\ at' = at + 1 /\ UNCHANGED <<step, configVars>>
    BY <1>3, <2>1 DEF LoadSection, configVars, asyncVars, AllTaken
  <2>2. CASE Load(section) /\ at' = at + 1 /\ UNCHANGED <<step, fellBack>>
    <3>1. ConfigOK'
      BY <1>0, <2>2, LoadTypes
    <3> QED BY <1>3, <2>2, <3>1 DEF LoadSection, ConfigOK, asyncVars, AllTaken
  <2>3. CASE FallBack
    BY <1>1, <1>3, <2>3 DEF LoadSection
  <2> QED BY <1>3, <2>1, <2>2, <2>3 DEF LoadSection
<1>4. CASE LoadEnds
  BY <1>4 DEF LoadEnds, configVars, asyncVars, AllTaken
<1>6. CASE Connect
  <2>1. ConfigOK' /\ UNCHANGED <<fellBack, listed>> /\ uds' \in BOOLEAN
    BY <1>0, <1>6, Orders, BranchTypes DEF Connect, Branch
  <2> QED BY <1>6, <2>1 DEF Connect, ConfigOK, asyncVars, AllTaken
<1>7. CASE Verify
  BY <1>7 DEF Verify, configVars, asyncVars, AllTaken
<1>8. CASE RunTest
  <2>1. Order[at] \in Tests
    BY <1>8, Orders DEF RunTest
  <2>2. ConfigOK' /\ UNCHANGED <<fellBack, file, uds, asyncVars>> /\ at' = at + 1 /\ ran' \subseteq Tests
    BY <1>0, <1>8, <2>1, BranchTypes DEF RunTest, Branch
  <2>3. step' = "running" \/ (step' = "sending" /\ at = AsyncIndex)
    BY <1>8, Orders DEF RunTest
  <2> QED BY <1>8, <2>2, <2>3 DEF RunTest, ConfigOK, asyncVars, AllTaken
<1>9. CASE Exit
  BY <1>9 DEF Exit, configVars, asyncVars, AllTaken
<1>10. CASE SendCall
  BY <1>10 DEF SendCall, asyncOthers, configVars, AllTaken
<1>11. CASE CallEnds
  BY <1>11 DEF CallEnds, asyncOthers, configVars, AllTaken
<1>12. CASE TakeEvent
  <2>1. PICK x \in 1..Commands : calls[x] = "done" /\ calls' = [calls EXCEPT ![x] = "taken"]
    BY <1>12 DEF TakeEvent
  <2>2. step' = "deleting" => AllTaken'
    BY <1>12, <2>1, LastEvent DEF TakeEvent
  <2> QED BY <1>12, <2>1, <2>2 DEF TakeEvent, asyncOthers, configVars
<1>13. CASE TakeFailedEvent
  BY <1>13 DEF TakeFailedEvent, asyncOthers, configVars, AllTaken
<1>14. CASE DeleteResults
  BY <1>14 DEF DeleteResults, asyncOthers, configVars, AllTaken
<1>15. CASE NextRepeat
  <2>1. CASE repeat < Repeats
    <3>1. calls' \in [1..Commands -> {"none", "sent", "done", "taken"}]
      BY <1>15, <2>1 DEF NextRepeat, NoCalls
    <3>2. freed' \in BOOLEAN /\ ~freed'
      BY <1>15, <2>1 DEF NextRepeat
    <3> QED BY <1>15, <2>1, <3>1, <3>2 DEF NextRepeat, asyncOthers, configVars
  <2>2. CASE ~(repeat < Repeats)
    BY <1>15, <2>2 DEF NextRepeat, asyncOthers, configVars, AllTaken
  <2> QED BY <2>1, <2>2
<1>16. CASE UNCHANGED vars
  BY <1>16 DEF vars, configVars, asyncVars, AllTaken
<1> QED
  BY <1>2, <1>3, <1>4, <1>6, <1>7, <1>8, <1>9, <1>10, <1>11, <1>12, <1>13, <1>14, <1>15, <1>16
  DEF Next, AsyncStep
(* Every reachable state satisfies the invariant. *)
LEMMA Invariance == Spec => []IInv
<1>1. Init => IInv
  BY InitEstablishesIInv
<1>2. IInv /\ [Next]_vars => IInv'
  BY IInvStep
<1> QED BY <1>1, <1>2, PTL DEF Spec

-----------------------------------------------------------------------------
(* main, its configuration and the asynchronous test have their types.     *)
THEOREM TypeCorrect == Spec => []TypeOK
<1>1. IInv => TypeOK
  BY DEF IInv
<1> QED BY <1>1, Invariance, PTL

(* Wherever loading breaks off, main goes on with the whole default        *)
(* configuration. *)
THEOREM FallBackIsWhole == Spec => []FallbackIsDefault
<1>1. IInv => FallbackIsDefault
  BY DEF IInv, FallBackIsFinal, FallbackIsDefault
<1> QED BY <1>1, Invariance, PTL

(* No result is deleted while gRPC may write into it. *)
THEOREM NoResultDeletedEarly == Spec => []ResultsOutliveCalls
<1>1. AllTaken => Count("sent") = 0 /\ Count("done") = 0
  <2> SUFFICES ASSUME AllTaken PROVE Count("sent") = 0 /\ Count("done") = 0
    OBVIOUS
  <2>1. /\ {x \in 1..Commands : calls[x] = "sent"} = {}
        /\ {x \in 1..Commands : calls[x] = "done"} = {}
    BY DEF AllTaken
  <2> QED BY <2>1, FS_EmptySet DEF Count
<1>2. IInv => ResultsOutliveCalls
  BY <1>1 DEF IInv, RoundIsOver, ResultsOutliveCalls
<1> QED BY <1>2, Invariance, PTL

-----------------------------------------------------------------------------
(* A complete file is obeyed from section to section, and from test to     *)
(* test. *)
Complete == ~fellBack /\ file.has = SectionNames
Obeys(t) == enabled[t] = Bool(t \in file.on) /\ (t \in Listed => t \in listed)
Loaded(t) == \E i \in 1..at - 1 : t \in Enables(Sections[i])
RanSoFar == \A i \in 1..9 : Order[i] \in ran <=> i < at /\ Order[i] \in file.on

Verifying == {"verifying", "verifying uds"}
Running == {"running"} \cup AsyncSteps

ObeyInv ==
  Complete =>
    /\ step \in BeforeTests => ran = {}
    /\ step = "loading" => \A t \in Tests : Loaded(t) => Obeys(t)
    /\ step \in {"connecting"} \cup Verifying \cup Running => \A t \in Tests : Obeys(t)
    /\ step \in Verifying \cup Running => (uds <=> "uds_tests" \in file.on)
    /\ step \in Running => RanSoFar
    /\ step = "exited" => at = 10 /\ RanSoFar
(* A test belongs to a section, and has one place in the order. *)
LEMMA EveryTestHasASection == \A t \in Tests : \E i \in 1..7 : t \in Enables(Sections[i])
<1>1. Tests = {"message_performance", "other_suites", "uds_tests", "single_latency_stream",
               "async_init_tests", "parallel_stream_tests", "payload_tests",
               "sideband_tests", "packing_tests"}
  <2>1. Tests = {Order[i] : i \in {1, 2, 3, 4, 5, 6, 7, 8, 9}}
    BY Lengths DEF Tests
  <2> QED BY <2>1 DEF Order
<1> QED BY <1>1 DEF Enables, Suites, Sections

LEMMA OrderIsInjective == \A i, j \in 1..9 : Order[i] = Order[j] => i = j
BY DEF Order

(* What the file says of a test is one of the two values a branch sees.    *)
LEMMA BranchObeys ==
  ASSUME NEW t \in Tests, NEW taken \in BOOLEAN, Obeys(t), Branch(t, taken), ConfigOK,
         UNCHANGED file
  PROVE  (taken <=> t \in file.on) /\ \A u \in Tests : Obeys(u) => Obeys(u)'
<1>1. taken <=> t \in file.on
  BY DEF Obeys, Branch, Bool
<1>2. enabled' = [enabled EXCEPT ![t] = Bool(taken)] /\ listed' = listed
  BY DEF Branch
<1>3. Bool(taken) = Bool(t \in file.on)
  BY <1>1 DEF Bool
<1>4. enabled' = enabled
  BY <1>2, <1>3 DEF Obeys, ConfigOK
<1> QED BY <1>1, <1>2, <1>4 DEF Obeys

(* Loading a section makes its tests obey, and leaves the others alone.    *)
LEMMA LoadObeys ==
  ASSUME NEW section, Load(section), ConfigOK, UNCHANGED file, NEW t \in Tests,
         t \in Enables(section) \/ Obeys(t)
  PROVE  Obeys(t)'
BY DEF Load, Obeys, ConfigOK
(* Every step keeps the client obedient. *)
LEMMA ObeyInvStep == IInv /\ ObeyInv /\ [Next]_vars => ObeyInv'
<1> SUFFICES ASSUME IInv, ObeyInv, [Next]_vars, Complete' PROVE ObeyInv'
  BY DEF ObeyInv
<1> USE DEF BeforeTests, AsyncSteps, Verifying, Running
<1>0. ConfigOK /\ UNCHANGED file
  BY DEF IInv, TypeOK, ConfigOK, Next, vars, Open, LoadSection, LoadEnds, Connect, Verify,
         RunTest, Exit, AsyncStep, SendCall, CallEnds, TakeEvent, TakeFailedEvent,
         DeleteResults, NextRepeat, asyncOthers
<1>1. ~FallBack
  BY DEF FallBack, Complete
<1>2. CASE Open
  <2>1. step' = "loading" /\ at' = 1 /\ step = "opening" /\ UNCHANGED <<ran, fellBack>>
    BY <1>1, <1>2 DEF Open, IInv, StepsInOrder, configVars
  <2>2. \A t \in Tests : ~Loaded(t)'
    BY <2>1 DEF Loaded
  <2> QED BY <1>0, <2>1, <2>2 DEF ObeyInv, Complete
<1>3. CASE LoadSection
  <2> DEFINE section == Sections[at]
  <2>1. /\ at \in 1..7 /\ Load(section) /\ at' = at + 1 /\ step = "loading"
        /\ UNCHANGED <<step, fellBack, ran>>
    <3>1. at \in 1..7
      BY <1>3, Lengths DEF LoadSection, IInv, TypeOK
    <3>2. section \in file.has
      BY <3>1, <1>0, Lengths DEF Complete, SectionNames
    <3> QED BY <1>1, <1>3, <3>1, <3>2 DEF LoadSection
  <2>2. ASSUME NEW t \in Tests, Loaded(t)' PROVE Obeys(t)'
    <3>1. PICK i \in 1..at : t \in Enables(Sections[i])
      BY <2>1, <2>2, Lengths DEF Loaded, IInv, TypeOK
    <3>2. t \in Enables(section) \/ Loaded(t)
      <4>1. i = at \/ i \in 1..at - 1
        BY <2>1
      <4> QED BY <3>1, <4>1 DEF Loaded
    <3>3. t \in Enables(section) \/ Obeys(t)
      BY <1>0, <2>1, <3>2 DEF ObeyInv, Complete
    <3> HIDE DEF section
    <3> QED BY <1>0, <2>1, <3>3, LoadObeys
  <2> QED BY <1>0, <2>1, <2>2 DEF ObeyInv, Complete
<1>4. CASE LoadEnds
  <2>1. /\ step = "loading" /\ step' = "connecting" /\ at > 7
        /\ UNCHANGED <<fellBack, enabled, listed, ran>>
    BY <1>4, Lengths DEF LoadEnds, configVars
  <2>2. \A t \in Tests : Loaded(t)
    <3>1. 1..7 \subseteq 1..at - 1
      BY <2>1, Lengths DEF IInv, TypeOK
    <3> QED BY <3>1, EveryTestHasASection DEF Loaded
  <2>3. \A t \in Tests : Obeys(t)'
    BY <1>0, <2>1, <2>2 DEF ObeyInv, Complete, Obeys
  <2> QED BY <1>0, <2>1, <2>3 DEF ObeyInv, Complete
<1>5. CASE Connect
  <2>1. PICK taken \in BOOLEAN : Branch("uds_tests", taken) /\ uds' = taken
    BY <1>5 DEF Connect
  <2>2. step = "connecting" /\ step' = "verifying" /\ UNCHANGED <<ran, fellBack>>
    BY <1>5, <2>1 DEF Connect, Branch
  <2>3. \A t \in Tests : Obeys(t)
    BY <1>0, <2>2 DEF ObeyInv, Complete
  <2>4. (uds' <=> "uds_tests" \in file.on) /\ \A t \in Tests : Obeys(t)'
    BY <1>0, <2>1, <2>3, Orders, BranchObeys
  <2> QED BY <1>0, <2>2, <2>4 DEF ObeyInv, Complete
<1>6. CASE Verify
  <2>1. /\ step \in Verifying
        /\ step' \in Verifying \cup {"running", "failed"}
        /\ UNCHANGED <<at, fellBack, enabled, listed, uds, ran>>
    BY <1>6 DEF Verify, configVars
  <2>2. RanSoFar'
    <3>1. at' = 1 /\ ran' = {}
      BY <1>0, <2>1 DEF ObeyInv, Complete, IInv, StepsInOrder
    <3> QED BY <3>1 DEF RanSoFar
  <2> QED BY <1>0, <2>1, <2>2 DEF ObeyInv, Complete, Obeys
<1>7. CASE RunTest
  <2> DEFINE t == Order[at]
  <2>1. PICK taken \in BOOLEAN :
          Branch(t, taken) /\ ran' = IF taken /\ Works(t) THEN ran \cup {t} ELSE ran
    BY <1>7 DEF RunTest
  <2>2. /\ step = "running" /\ step' \in {"running", "sending"}
        /\ at \in 1..9 /\ at' = at + 1 /\ UNCHANGED <<uds, fellBack>>
    BY <1>7, <2>1, Lengths DEF RunTest, Branch, IInv, TypeOK
  <2>3. (\A u \in Tests : Obeys(u)) /\ RanSoFar /\ (uds <=> "uds_tests" \in file.on)
    BY <1>0, <2>2 DEF ObeyInv, Complete
  <2>4. t \in Tests
    BY <2>2, Orders
  <2>5. (taken <=> t \in file.on) /\ \A u \in Tests : Obeys(u)'
    BY <1>0, <2>1, <2>3, <2>4, BranchObeys
  <2>6. taken => Works(t)
    BY <2>3, <2>4, <2>5 DEF Works, Obeys
  <2>7. ran' = IF t \in file.on THEN ran \cup {t} ELSE ran
    BY <2>1, <2>5, <2>6
  <2>8. RanSoFar'
    <3>1. \A i \in 1..9 : Order[i] = t <=> i = at
      BY <2>2, OrderIsInjective
    <3>2. \A i \in 1..9 : i < at' <=> i < at \/ i = at
      BY <2>2
    <3> QED BY <1>0, <2>3, <2>7, <3>1, <3>2 DEF RanSoFar
  <2> QED BY <1>0, <2>2, <2>3, <2>5, <2>8 DEF ObeyInv, Complete
<1>8. CASE Exit
  <2>1. /\ step = "running" /\ step' = "exited" /\ at = 10
        /\ UNCHANGED <<at, fellBack, ran>>
    BY <1>8, Lengths DEF Exit, IInv, TypeOK, configVars
  <2> QED BY <1>0, <2>1 DEF ObeyInv, Complete, RanSoFar
<1>9. CASE AsyncStep
  <2>1. step \in Running \/ UNCHANGED step
    BY <1>9 DEF AsyncStep, SendCall, CallEnds, TakeEvent, TakeFailedEvent, DeleteResults, NextRepeat
  <2>2. step' \in Running \/ UNCHANGED step
    BY <1>9 DEF AsyncStep, SendCall, CallEnds, TakeEvent, TakeFailedEvent, DeleteResults, NextRepeat
  <2>3. UNCHANGED <<at, fellBack, enabled, listed, uds, ran>>
    BY <1>9 DEF AsyncStep, SendCall, CallEnds, TakeEvent, TakeFailedEvent, DeleteResults,
                NextRepeat, asyncOthers, configVars
  <2> QED BY <1>0, <2>1, <2>2, <2>3 DEF ObeyInv, Complete, Obeys, RanSoFar, Loaded
<1>10. CASE UNCHANGED vars
  BY <1>0, <1>10 DEF vars, configVars, asyncVars, ObeyInv, Complete, Obeys, RanSoFar, Loaded
<1> QED
  BY <1>2, <1>3, <1>4, <1>5, <1>6, <1>7, <1>8, <1>9, <1>10 DEF Next

(* A complete file is obeyed exactly. *)
THEOREM FileIsObeyed == Spec => []RunsWhatTheFileEnables
<1>1. Init => ObeyInv
  BY DEF Init, ObeyInv, BeforeTests, AsyncSteps, Verifying, Running
<1>2. IInv /\ ObeyInv => RunsWhatTheFileEnables
  <2> SUFFICES ASSUME IInv, ObeyInv, step = "exited", Complete PROVE ran = file.on
    BY DEF RunsWhatTheFileEnables, Complete
  <2>1. at = 10 /\ RanSoFar
    BY DEF ObeyInv
  <2>2. \A i \in 1..9 : Order[i] \in ran <=> Order[i] \in file.on
    BY <2>1 DEF RanSoFar
  <2>3. ran \subseteq Tests /\ file.on \subseteq Tests
    BY FilesAssumption DEF IInv, TypeOK
  <2> QED BY <2>2, <2>3, Lengths DEF Tests
<1> QED BY <1>1, <1>2, ObeyInvStep, Invariance, PTL DEF Spec

-----------------------------------------------------------------------------
(* Beside a server.  Whatever the server does, the client of the two       *)
(* processes is the client above: what is proved of Spec holds of AppSpec. *)
THEOREM ClientBesideServer == AppSpec => Spec
<1>1. AppInit => Init
  BY DEF AppInit
<1>2. [AppNext]_appVars => [Next]_vars
  <2>1. ClientNext => Next
    BY DEF ClientNext, Next, VerifyServer
  <2>2. UNCHANGED appVars => UNCHANGED vars
    BY DEF appVars
  <2> QED BY <2>1, <2>2 DEF AppNext
<1> QED BY <1>1, <1>2, PTL DEF AppSpec, Spec

(* The client has seen each listener that it is going to use.              *)
Steps == BeforeTests \cup AsyncSteps \cup {"running", "exited", "failed"}
Testing == step \in Steps \ (BeforeTests \cup {"failed"})

ListenersMet ==
  /\ step \in Steps
  /\ step = "verifying uds" \/ Testing => "tcp" \in hosts
  /\ Testing /\ uds => "uds" \in hosts
  /\ ~Testing => ran = {}
  /\ "uds_tests" \in ran => "uds" \in hosts

RunningIsHost == \A l \in Listeners : thread[l] = "running" => l \in hosts
ThreadsAreKnown == thread \in [ServerThreads -> {"none", "building", "running", "returned"}]

MetInv == ListenersMet /\ RunningIsHost /\ ThreadsAreKnown

LEMMA InitMeets == AppInit => MetInv
  BY DEF AppInit, Init, MetInv, ListenersMet, Steps, Testing, BeforeTests, AsyncSteps,
         RunningIsHost, ThreadsAreKnown, NoThreads, ServerThreads, Listeners

LEMMA ServerKeepsMet == MetInv /\ ServerNext /\ UNCHANGED vars => MetInv'
<1> SUFFICES ASSUME MetInv, ServerNext, UNCHANGED vars PROVE MetInv'
  OBVIOUS
<1> USE DEF MetInv, RunningIsHost, ThreadsAreKnown, ServerThreads, Listeners
<1>1. hosts \subseteq hosts'
  BY DEF ServerNext, StartServer, StartAccepting, AcceptEnds, ServerExits, KillServer, RunServer
<1>2. ThreadsAreKnown'
  BY DEF ServerNext, StartServer, StartAccepting, AcceptEnds, ServerExits, KillServer,
         RunServer, NoThreads
<1>3. RunningIsHost'
  <2>1. CASE StartServer \/ ServerExits \/ KillServer
    BY <2>1 DEF StartServer, ServerExits, KillServer, NoThreads
  <2>2. CASE StartAccepting \/ AcceptEnds
    BY <2>2 DEF StartAccepting, AcceptEnds
  <2>3. ASSUME NEW l \in Listeners, RunServer(l) PROVE RunningIsHost'
    BY <2>3 DEF RunServer
  <2> QED BY <2>1, <2>2, <2>3 DEF ServerNext
<1>4. ListenersMet'
  BY <1>1 DEF ListenersMet, Testing, vars
<1> QED BY <1>2, <1>3, <1>4

LEMMA ClientKeepsMet == MetInv /\ ClientNext /\ UNCHANGED serverVars => MetInv'
<1> SUFFICES ASSUME MetInv, ClientNext, UNCHANGED serverVars PROVE MetInv'
  OBVIOUS
<1> USE DEF serverVars
<1>1. RunningIsHost' /\ ThreadsAreKnown'
  BY DEF MetInv, RunningIsHost, ThreadsAreKnown
<1>2. ListenersMet'
  <2> USE DEF MetInv, ListenersMet, Steps, Testing, BeforeTests, AsyncSteps
  <2>1. CASE Open \/ LoadSection \/ LoadEnds
    BY <2>1 DEF Open, LoadSection, LoadEnds, FallBack
  <2>2. CASE Connect
    BY <2>2 DEF Connect
  <2>3. CASE VerifyServer
    <3>1. CASE step' = "failed"
      BY <2>3, <3>1 DEF VerifyServer, Verify
    <3>2. CASE step = "verifying" /\ step' # "failed"
      <4>1. "tcp" \in hosts
        BY <2>3, <3>2 DEF VerifyServer, Answers, RunningIsHost, Listeners
      <4> QED BY <2>3, <3>2, <4>1 DEF VerifyServer, Verify
    <3>3. CASE step = "verifying uds" /\ step' # "failed"
      <4>1. "uds" \in hosts
        BY <2>3, <3>3 DEF VerifyServer, Answers, RunningIsHost, Listeners
      <4> QED BY <2>3, <3>3, <4>1 DEF VerifyServer, Verify
    <3> QED BY <2>3, <3>1, <3>2, <3>3 DEF VerifyServer, Verify
  <2>4. CASE RunTest
    BY <2>4 DEF RunTest, Works
  <2>5. CASE Exit
    BY <2>5 DEF Exit
  <2>6. CASE AsyncStep
    <3>1. uds' = uds /\ ran' = ran
      BY <2>6 DEF AsyncStep, asyncOthers, SendCall, CallEnds, TakeEvent, TakeFailedEvent,
                  DeleteResults, NextRepeat
    <3>2. step' = step \/ (step \in AsyncSteps /\ step' \in AsyncSteps \cup {"running"})
      BY <2>6 DEF AsyncStep, SendCall, CallEnds, TakeEvent, TakeFailedEvent,
                  DeleteResults, NextRepeat
    <3> QED BY <3>1, <3>2
  <2> QED BY <2>1, <2>2, <2>3, <2>4, <2>5, <2>6 DEF ClientNext
<1> QED BY <1>1, <1>2 DEF MetInv

(* For any files, calls and lives of the server: no test does work before  *)
(* the listener it uses has run. *)
THEOREM NoTestWithoutAServer == AppSpec => []TestsMeetAServer
<1>1. MetInv /\ [AppNext]_appVars => MetInv'
  <2>1. ASSUME MetInv, UNCHANGED appVars PROVE MetInv'
    <3>1. UNCHANGED <<step, uds, ran, thread, hosts>>
      BY <2>1 DEF appVars, vars, serverVars
    <3>2. ListenersMet'
      BY <2>1, <3>1 DEF MetInv, ListenersMet, Testing
    <3>3. RunningIsHost' /\ ThreadsAreKnown'
      BY <2>1, <3>1 DEF MetInv, RunningIsHost, ThreadsAreKnown
    <3> QED BY <3>2, <3>3 DEF MetInv
  <2> QED BY <2>1, ServerKeepsMet, ClientKeepsMet DEF AppNext
<1>2. MetInv => TestsMeetAServer
  BY DEF MetInv, ListenersMet, TestsMeetAServer
<1> QED BY <1>1, <1>2, InitMeets, PTL DEF AppSpec
=============================================================================
