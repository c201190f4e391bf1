---------------------------- MODULE MCGoServer -----------------------------
(* Slot z is slot 0.  Two server calls may take slot a from each other;    *)
(* one client stream names both slots, the other ends slot a or slot 0.    *)
EXTENDS GoServer, TLC

CONSTANTS z, a, s1, s2, c1, c2, tcp, uds

MCSlots == {z, a}
MCServers == {s1, s2}
MCClients == {c1, c2}
MCServerSlots == (s1 :> {z, a}) @@ (s2 :> {a})
MCClientSlots == (c1 :> {z, a}) @@ (c2 :> {a})
MCListeners == {tcp, uds}

=============================================================================
