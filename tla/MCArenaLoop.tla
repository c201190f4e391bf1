---------------------------- MODULE MCArenaLoop ----------------------------
(* Three RPCs that ask for different numbers of samples, and as many       *)
(* addresses as objects can be alive at a time, so that addresses of       *)
(* deleted objects are used again.                                         *)
EXTENDS ArenaLoop, TLC

CONSTANTS r1, r2, r3

MCRpcs == {r1, r2, r3}
MCWant == (r1 :> 0) @@ (r2 :> 1) @@ (r3 :> 2)
MCObjects == 1..5
=============================================================================
