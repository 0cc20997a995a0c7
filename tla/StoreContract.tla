--------------------------- MODULE StoreContract ---------------------------
(***************************************************************************)
(* What a subscription store promises its listener (spec section 4.7, the  *)
(* contract shared by the in-memory and the remote-backed store): the      *)
(* store is a map from a subscription's id to the subscription, Push       *)
(* inserts or replaces, Remove deletes, and all a listener is ever given   *)
(* is a snapshot: the whole map as it stood at some moment, never a delta  *)
(* and never a mixture of two moments.  Snapshots are computed under the   *)
(* store's lock, with a change or on their own, and delivered outside it,  *)
(* so several may be on their way.  Subscriptions also leave by expiry.    *)
(***************************************************************************)
EXTENDS Functions

CONSTANTS
    Ids,          \* the ids subscriptions are keyed by (webhook.W.ID())
    Secrets,      \* what tells two subscriptions of one id apart
    Listeners,
    NoSnapshot    \* what a listener holds before its first Update

VARIABLES
    hooks,        \* the store: a function from the ids present to their secrets
    inflight,     \* the snapshots computed and not yet delivered
    seen          \* seen[l]: the snapshot the listener l was given last

vars == <<hooks, inflight, seen>>

Snapshots == UNION {[D -> Secrets] : D \in SUBSET Ids}

\* The map m after m[id] = secret, and after delete(m, id).
Stored(m, id, secret) == [i \in DOMAIN m \cup {id} |-> IF i = id THEN secret ELSE m[i]]
Deleted(m, id)        == Restrict(m, DOMAIN m \ {id})

Init ==
    /\ hooks = <<>>
    /\ inflight = {}
    /\ seen = [l \in Listeners |-> NoSnapshot]

\* A change of the map to m; the store may snapshot the new map with it.
Change(m) ==
    /\ hooks' = m
    /\ inflight' \in {inflight, inflight \cup {m}}
    /\ UNCHANGED seen

Push(id, secret) == Change(Stored(hooks, id, secret))

Remove(id) == Change(Deleted(hooks, id))

\* The subscriptions in ids reach their expiry together.
Expire(ids) == Change(Restrict(hooks, DOMAIN hooks \ ids))

Compute == Change(hooks) /\ hooks \in inflight'

\* Two callers may hold equal snapshots: delivering one need not use it up.
Deliver(l, s) ==
    /\ s \in inflight
    /\ seen' = [seen EXCEPT ![l] = s]
    /\ inflight' \in {inflight, inflight \ {s}}
    /\ UNCHANGED hooks

Next ==
    \/ \E id \in Ids : (\E secret \in Secrets : Push(id, secret)) \/ Remove(id)
    \/ \E ids \in SUBSET DOMAIN hooks : Expire(ids)
    \/ Compute
    \/ \E s \in inflight : \E l \in Listeners : Deliver(l, s)

Spec == Init /\ [][Next]_vars

=============================================================================
