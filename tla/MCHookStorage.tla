--------------------------- MODULE MCHookStorage ---------------------------
(* HookStorage for TLC: two clients, two ids, two secrets.  MCHookStorage.cfg   *)
(* lets SetListener be given either listener or nil; MCHookStorageFresh.cfg  *)
(* has one listener, which is registered and never taken away.              *)
EXTENDS HookStorage, TLC

CONSTANTS c1, c2, l1, l2, i1, i2, s1, s2

MCClients   == {c1, c2}
MCListeners == {l1, l2}
\* Settable of MCHookStorageFresh.cfg: no client calls SetListener(nil).
MCOneListener == {l1}
MCIds       == {i1, i2}
MCSecrets   == {s1, s2}

Symmetry == Permutations(MCClients) \cup Permutations(MCIds) \cup Permutations(MCSecrets)

=============================================================================
