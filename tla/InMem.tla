------------------------------- MODULE InMem -------------------------------
(***************************************************************************)
(* InMem, the in-memory subscription store with a time to live (spec       *)
(* section 4.7; CreateInMemStore, which inmemStore_test.go exercises).     *)
(*                                                                         *)
(* An entry is a subscription and its expires-at.  Push, Remove,           *)
(* GetWebhook and the sweeper's pass each hold the store's one mutex for   *)
(* the whole of what they do to the map, so each is one step; a snapshot   *)
(* for the listener is taken in that step, together with the listener      *)
(* pointer, and handed over in a later step, outside the lock.             *)
(*                                                                         *)
(* Time is relative: left is expires-at minus now, due the ticks until the *)
(* sweeper's ticker fires.  Tick moves the clock; nothing obliges the      *)
(* sweeper to run on time.  A subscription is [id, secret], as in          *)
(* HookStorage.                                                            *)
(***************************************************************************)
EXTENDS Integers, Functions

CONSTANTS
    Clients,        \* the goroutines that call the store
    Listeners,
    Ids, Secrets,
    TTL,            \* InMemConfig.TTL, in ticks
    CheckInterval,  \* InMemConfig.CheckInterval, in ticks
    MaxCalls,       \* bound: calls a client makes
    Nil,            \* no listener
    NoSnapshot,     \* what a listener holds before its first Update
    Never           \* history: the id was not pushed, or removed since

ASSUME TTL \in Nat \ {0} /\ CheckInterval \in Nat \ {0} /\ MaxCalls \in Nat

VARIABLES
    entries,      \* the map: id -> [secret, left]
    listener,     \* the registered listener
    stopped,      \* Stop was called
    due,          \* ticks until the sweeper's next pass
    seen,         \* seen[l]: the snapshot l was given last
    pc,           \* pc[a]: "idle", or "notify" with an Update to make
    snap,         \* snap[a]: the snapshot a took under the lock
    to,           \* to[a]: the listener a read under the lock
    got,          \* got[c]: what c's last GetWebhook returned
    calls,        \* calls[c]: the calls c has made
    pushed        \* history: pushed[id] = [secret, age] of the last Push

vars == <<entries, listener, stopped, due, seen, pc, snap, to, got, calls, pushed>>

Sweeper == "sweeper"
Actors  == Clients \cup {Sweeper}
W       == [id : Ids, secret : Secrets]

Notifying == {a \in Actors : pc[a] = "notify"}

\* The live subscriptions of the map m: those not past their expires-at.
Live(m) == [id \in {i \in DOMAIN m : m[i].left >= 0} |-> m[id].secret]

Contract == INSTANCE StoreContract
    WITH hooks <- Live(entries), inflight <- {snap[a] : a \in Notifying}

Init ==
    /\ entries = <<>> /\ listener = Nil
    /\ stopped = FALSE /\ due = CheckInterval
    /\ seen = [l \in Listeners |-> NoSnapshot]
    /\ pc = [a \in Actors |-> "idle"]
    /\ snap = [a \in Actors |-> <<>>]
    /\ to = [a \in Actors |-> Nil]
    /\ got = [c \in Clients |-> <<>>]
    /\ calls = [c \in Clients |-> 0]
    /\ pushed = [id \in Ids |-> Never]

\* c starts a call.
Enters(c) ==
    /\ pc[c] = "idle" /\ calls[c] < MaxCalls
    /\ calls' = [calls EXCEPT ![c] = @ + 1]

\* MUTANT of Subscribed: the callback is made with or without a listener.
SubscribedAlways == TRUE

Subscribed == listener # Nil

\* MUTANT of Copy: the listener is handed what the map held before.
CopyBefore(m) == Live(entries)

\* The snapshot for the listener, of the map m that the change has made.
Copy(m) == Live(m)

\* Under the lock: the map becomes m and, when a listener is registered,
\* the live subscriptions of m are copied for it.
Changes(a, m) ==
    /\ entries' = m
    /\ IF Subscribed
       THEN /\ pc' = [pc EXCEPT ![a] = "notify"]
            /\ snap' = [snap EXCEPT ![a] = Copy(m)]
            /\ to' = [to EXCEPT ![a] = listener]
       ELSE UNCHANGED <<pc, snap, to>>

\* The map m with w inserted or replaced, to expire at now + TTL.
Store(m, w) == Contract!Stored(m, w.id, [secret |-> w.secret, left |-> TTL])

Push(c, w) ==
    /\ Enters(c)
    /\ Changes(c, Store(entries, w))
    /\ pushed' = [pushed EXCEPT ![w.id] = [secret |-> w.secret, age |-> 0]]
    /\ UNCHANGED <<listener, stopped, due, seen, got>>

\* Remove deletes if present, and notifies only when it changed the map.
Remove(c, id) ==
    /\ Enters(c)
    /\ IF id \in DOMAIN entries
       THEN Changes(c, Contract!Deleted(entries, id))
       ELSE UNCHANGED <<entries, pc, snap, to>>
    /\ pushed' = [pushed EXCEPT ![id] = Never]
    /\ UNCHANGED <<listener, stopped, due, seen, got>>

\* MUTANT of GetWebhook: the map as it is, expired entries included.
GetWebhookUnfiltered(c) ==
    /\ Enters(c)
    /\ got' = [got EXCEPT ![c] = [id \in DOMAIN entries |-> entries[id].secret]]
    /\ UNCHANGED <<entries, listener, stopped, due, seen, pc, snap, to, pushed>>

GetWebhook(c) ==
    /\ Enters(c)
    /\ got' = [got EXCEPT ![c] = Live(entries)]
    /\ UNCHANGED <<entries, listener, stopped, due, seen, pc, snap, to, pushed>>

SetListener(c, l) ==
    /\ Enters(c)
    /\ listener' = l
    /\ UNCHANGED <<entries, stopped, due, seen, pc, snap, to, got, pushed>>

\* Stop halts the sweeper; a second Stop changes nothing.
Stop(c) ==
    /\ Enters(c)
    /\ stopped' = TRUE
    /\ UNCHANGED <<entries, listener, due, seen, pc, snap, to, got, pushed>>

\* The entries the sweeper removes: expires-at <= now.
Expired == {id \in DOMAIN entries : entries[id].left <= 0}

\* MUTANT of Sweep: the sweeper waits for the next tick before it notifies.
SweepForgetsToNotify ==
    /\ ~stopped /\ due = 0 /\ pc[Sweeper] = "idle"
    /\ entries' = Restrict(entries, DOMAIN entries \ Expired)
    /\ due' = CheckInterval
    /\ UNCHANGED <<listener, stopped, seen, pc, snap, to, got, calls, pushed>>

\* The sweeper's pass, every CheckInterval until Stop: expired entries are
\* removed, and the listener is told when any was.
Sweep ==
    /\ ~stopped /\ due = 0 /\ pc[Sweeper] = "idle"
    /\ IF Expired # {}
       THEN Changes(Sweeper, Restrict(entries, DOMAIN entries \ Expired))
       ELSE UNCHANGED <<entries, pc, snap, to>>
    /\ due' = CheckInterval
    /\ UNCHANGED <<listener, stopped, seen, got, calls, pushed>>

\* The callback, outside the lock: the listener read under the lock is
\* given the snapshot taken there.
Notify(a) ==
    /\ pc[a] = "notify"
    /\ seen' = [seen EXCEPT ![to[a]] = snap[a]]
    /\ pc' = [pc EXCEPT ![a] = "idle"]
    /\ UNCHANGED <<entries, listener, stopped, due, snap, to, got, calls, pushed>>

Sooner(n, least) == IF n > least THEN n - 1 ELSE least
Later(n, most)   == IF n < most THEN n + 1 ELSE most

\* A tick of the clock.  Past its expiry an entry only waits for the
\* sweeper, and a ticker that has fired stays fired: both stop counting.
Tick ==
    /\ entries' = [id \in DOMAIN entries |-> [entries[id] EXCEPT !.left = Sooner(@, -1)]]
    /\ due' = Sooner(due, 0)
    /\ pushed' = [id \in Ids |->
                    IF pushed[id] = Never THEN Never
                    ELSE [pushed[id] EXCEPT !.age = Later(@, TTL + 1)]]
    /\ UNCHANGED <<listener, stopped, seen, pc, snap, to, got, calls>>

Next ==
    \/ \E c \in Clients :
          \/ \E w \in W : Push(c, w)
          \/ \E id \in Ids : Remove(c, id)
          \/ \E l \in Listeners : SetListener(c, l)
          \/ GetWebhook(c)
          \/ Stop(c)
    \/ \E a \in Actors : Notify(a)
    \/ Sweep
    \/ Tick

(***************************************************************************)
(* The clock moves, the sweeper's goroutine runs when its ticker has       *)
(* fired, and a callback that was begun is made.  Clients owe no calls.    *)
(***************************************************************************)
Fairness ==
    /\ WF_vars(Tick)
    /\ WF_vars(Sweep)
    /\ \A a \in Actors : WF_vars(Notify(a))

Spec == Init /\ [][Next]_vars /\ Fairness

-----------------------------------------------------------------------------
(* Properties *)

Snapshots == Contract!Snapshots

TypeOK ==
    /\ entries \in UNION {[D -> [secret : Secrets, left : -1..TTL]] : D \in SUBSET Ids}
    /\ listener \in Listeners \cup {Nil}
    /\ stopped \in BOOLEAN
    /\ due \in 0..CheckInterval
    /\ seen \in [Listeners -> Snapshots \cup {NoSnapshot}]
    /\ pc \in [Actors -> {"idle", "notify"}]
    /\ snap \in [Actors -> Snapshots]
    /\ to \in [Actors -> Listeners \cup {Nil}]
    /\ got \in [Clients -> Snapshots]
    /\ calls \in [Clients -> 0..MaxCalls]
    /\ pushed \in [Ids -> [secret : Secrets, age : 0..(TTL + 1)] \cup {Never}]
    \* a callback that was begun has a listener to call
    /\ \A a \in Notifying : to[a] # Nil

(***************************************************************************)
(* InMem implements the store's contract with the live subscriptions as    *)
(* the map: a Push, a Remove, the sweeper's pass and the passing of time   *)
(* are its changes, and what the listener is given by any of them is the   *)
(* whole live map as it stood under the lock, after the change, however    *)
(* the calls, the sweeper and the clock interleave.                        *)
(***************************************************************************)
ImplementsContract == Contract!Spec

\* The snapshot s agrees with the history of the Pushes and Removes.
WithinTTL(s) ==
    \A id \in Ids :
       /\ id \in DOMAIN s =>
             pushed[id] # Never /\ pushed[id].age <= TTL /\ s[id] = pushed[id].secret
       /\ pushed[id] # Never /\ pushed[id].age < TTL => id \in DOMAIN s

(***************************************************************************)
(* What GetWebhook returns (spec section 8): no subscription whose last    *)
(* Push is more than TTL ago, whether the sweeper has come by or not;      *)
(* every subscription pushed less than TTL ago and not removed since, a    *)
(* Push of a known id having reset its expiry; and each as it was pushed   *)
(* last.  At exactly TTL the subscription may be there or not.             *)
(***************************************************************************)
ReturnsTheLive ==
    [][\A c \in Clients : GetWebhook(c) => WithinTTL(got'[c])]_vars

(***************************************************************************)
(* Scenario 5 of the spec (the listener receives [w], then []): a          *)
(* subscription that has expired does not stay with the registered         *)
(* listener.  The sweeper removes it and tells the listener, unless the    *)
(* store is stopped or the listener replaced first.                        *)
(***************************************************************************)
ExpiryReachesListener ==
    \A id \in Ids, l \in Listeners :
        (listener = l /\ id \in DOMAIN entries /\ entries[id].left < 0)
            ~> \/ seen[l] = NoSnapshot
               \/ id \notin DOMAIN seen[l]
               \/ stopped \/ listener # l

=============================================================================
