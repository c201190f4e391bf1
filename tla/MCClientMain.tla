---------------------------- MODULE MCClientMain ----------------------------
(* Files that cannot be read; complete files that enable one test, two,    *)
(* all or none, or have one wrong value; and the minimal file of           *)
(* CONFIG_README.md:116-137, which has two sections only.                  *)
EXTENDS ClientMain

File(has, on, bad) == [text |-> "JSON", has |-> has, on |-> on, bad |-> bad]

Unreadable == [text : {"missing", "not JSON"}, has : {{}}, on : {{}}, bad : {{}}]
Minimal == File({"test_suites", "single_latency_stream"}, DefaultOn, {})

Enabled == {Tests, {}} \cup {{t, u} : t, u \in Tests}

MCFiles ==
  Unreadable
  \cup {File(SectionNames, on, {}) : on \in Enabled}
  \cup {File(SectionNames, Tests, {section}) : section \in SectionNames}
  \cup {Minimal}

MCMinimalFiles == {Minimal}
=============================================================================
