------------------------------ MODULE MCInMem ------------------------------
(***************************************************************************)
(* InMem for model checking: two clients of two calls each, two ids, two   *)
(* secrets (a replacement differs from what it replaces), one listener, a  *)
(* TTL of two ticks and a sweeper that is due every tick, so that a        *)
(* subscription is pushed again before, at and after its expiry, with the  *)
(* sweeper early or late.                                                  *)
(***************************************************************************)
EXTENDS InMem

CONSTANTS c1, c2, l1, i1, i2, s1, s2

MCClients   == {c1, c2}
MCListeners == {l1}
MCIds       == {i1, i2}
MCSecrets   == {s1, s2}
=============================================================================
