---------------------------- MODULE MCSlotRelay ----------------------------
(* Three slots: slot a is exclusive to one server call and one client      *)
(* stream; slot b has one client stream but two server calls that replace  *)
(* each other; slot d is open to everyone and is also the value of the     *)
(* uninitialised variable.                                                 *)
EXTENDS SlotRelay, TLC

CONSTANTS a, b, d, s1, s2, s3, c1, c2

MCSlots == {a, b, d}
MCServers == {s1, s2, s3}
MCClients == {c1, c2}
MCServerSlots == (s1 :> {a}) @@ (s2 :> {b, d}) @@ (s3 :> {b, d})
MCClientSlots == (c1 :> {a, b, d}) @@ (c2 :> {d})
MCGarbage == {d}

=============================================================================
