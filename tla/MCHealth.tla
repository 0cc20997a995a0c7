------------------------------ MODULE MCHealth ------------------------------
(***************************************************************************)
(* Health for model checking: two callers, two listeners, an event channel *)
(* of two slots in place of the code's hundred (two callers fill it, so    *)
(* that a sender waits for room), and two calls per caller (an update and  *)
(* the ServeHTTP that must see it); a Health is made with an interval of   *)
(* a second or with none, the zero value of an interval never set.         *)
(***************************************************************************)
EXTENDS Health

CONSTANTS c1, c2, l1, l2

MCCallers   == {c1, c2}
MCListeners == {l1, l2}
MCIntervals == {0, 1}
=============================================================================
