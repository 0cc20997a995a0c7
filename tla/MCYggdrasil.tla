---------------------------- MODULE MCYggdrasil ----------------------------
(* Yggdrasil for TLC: one client and the ticker. *)
EXTENDS Yggdrasil

CONSTANTS c1, l1, i1, s1

MCClients   == {c1}
MCListeners == {l1}
MCIds       == {i1}
MCSecrets   == {s1}

=============================================================================
