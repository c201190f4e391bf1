---------------------------- MODULE LatencyReport ----------------------------
(***************************************************************************)
(* What becomes of the times a latency test has taken: WriteLatencyData    *)
(* (src/src/client_utilities.cc:233-281).  It gets the list by value,      *)
(* writes it to the test's file in the order of the measurements, sorts    *)
(* its copy and prints the extremes and the percentiles.                   *)
(*                                                                         *)
(* Sorting is named by its result, so that the theorems can speak of it.   *)
(***************************************************************************)
EXTENDS Integers, Sequences

CONSTANT Latencies   \* the times a call may take

ASSUME LatenciesAssumption == Latencies \subseteq Int

VARIABLES
  times,   \* the test's list
  report   \* what the test has printed and written, or NoReport

reportVars == <<times, report>>

NoReport == [lines |-> <<>>, printed |-> <<>>]

ReportInit == times = <<>> /\ report = NoReport

(* A test starts with a list of its own. *)
StartTimes == times' = <<>> /\ report' = NoReport

Record(t) == times' = Append(times, t) /\ UNCHANGED report

-----------------------------------------------------------------------------
NonDecreasing(s) == \A i, j \in 1..Len(s) : i <= j => s[i] <= s[j]

(* A permutation of positions takes s to its sorted form. *)
Permutes(f, n) == \A i, j \in 1..n : f[i] = f[j] => i = j
SortedForms(s) ==
  {t \in [1..Len(s) -> {s[i] : i \in 1..Len(s)}] :
     /\ NonDecreasing(t)
     /\ \E f \in [1..Len(s) -> 1..Len(s)] :
          Permutes(f, Len(s)) /\ \A i \in 1..Len(s) : t[i] = s[f[i]]}

(* Mutant of Sort: the list is left as it is. *)
SortNothing(s) == s

Sort(s) == CHOOSE t \in SortedForms(s) : TRUE

(* Index from 0 of a percentile given in thousandths.  The code multiplies *)
(* doubles; for every count up to two million the product is cut to the    *)
(* same integer. *)
PercentileIndex(permil, n) ==
  LET k == (permil * n) \div 1000 IN IF k < n - 1 THEN k ELSE n - 1

Percentile(sorted, permil) == sorted[PercentileIndex(permil, Len(sorted)) + 1]

(* Min, median, P90, P99, P99.9 and max of a sorted list. *)
Printed(sorted) ==
  <<sorted[1], Percentile(sorted, 500), Percentile(sorted, 900),
    Percentile(sorted, 990), Percentile(sorted, 999), sorted[Len(sorted)]>>

(* Mutant of WriteLatencyData: the list is sorted before it is written.    *)
WriteSortedData ==
  /\ report' = [lines |-> Sort(times), printed |-> Printed(Sort(times))]
  /\ UNCHANGED times

WriteLatencyData ==
  /\ report' = IF times = <<>> THEN report
               ELSE [lines |-> times, printed |-> Printed(Sort(times))]
  /\ UNCHANGED times
=============================================================================
