---------------------------- MODULE HookStorage ----------------------------
(***************************************************************************)
(* hookStorage and hookListener (src/webhookStore/inmemStore_test.go): the *)
(* map-backed store that stands behind the in-memory store as its backend, *)
(* and the listener that keeps the last snapshot it was given.             *)
(*                                                                         *)
(* Push and Remove change the map under the lock, release it, and only     *)
(* then look for a listener, take a snapshot (GetWebhook, under the lock   *)
(* again) and hand it to the listener.  Each of these is a step of its     *)
(* own here, so the calls of several clients interleave as the goroutines  *)
(* of the program do.  A critical section is one step: nothing in it       *)
(* blocks.  The listener is read twice, for the check and for the call,    *)
(* and SetListener writes it without the lock: a call of Update on a       *)
(* listener that has become nil panics, which ends the process.            *)
(*                                                                         *)
(* A subscription is [id, secret]: the id is webhook.W.ID(), the secret    *)
(* stands for every other field.                                           *)
(***************************************************************************)
EXTENDS Integers, FiniteSets, Functions

CONSTANTS
    Clients,      \* the goroutines that call the store
    Listeners,    \* the hookListeners that may be registered
    Ids, Secrets,
    MaxCalls,     \* bound: calls a client makes
    Nil,          \* the nil Listener
    NoSnapshot    \* hookListener.hooks before the first Update (a nil slice)

VARIABLES
    hooks,        \* h.hooks
    listener,     \* h.options.listener
    seen,         \* seen[l]: hookListener.hooks of l
    pc,           \* pc[c]: where c is in Push or Remove
    snap,         \* snap[c]: the local `hooks` of c's call
    got,          \* got[c]: what c's last GetWebhook returned
    calls,        \* calls[c]: the calls c has made
    version,      \* history: the number of changes made to h.hooks
    mine,         \* history: mine[c] = version after c's own change
    taken         \* history: taken[c] = version when c took its snapshot

vars == <<hooks, listener, seen, pc, snap, got, calls, version, mine, taken>>

W == [id : Ids, secret : Secrets]

\* The snapshot of a call that panicked is on its way for ever.
Contract == INSTANCE StoreContract
    WITH inflight <- {snap[c] : c \in {d \in Clients : pc[d] \in {"notify", "panicked"}}}

Snapshots == Contract!Snapshots

Init ==
    /\ hooks = <<>> /\ listener = Nil
    /\ seen = [l \in Listeners |-> NoSnapshot]
    /\ pc = [c \in Clients |-> "idle"]
    /\ snap = [c \in Clients |-> <<>>]
    /\ got = [c \in Clients |-> <<>>]
    /\ calls = [c \in Clients |-> 0]
    /\ version = 0
    /\ mine = [c \in Clients |-> 0]
    /\ taken = [c \in Clients |-> 0]

\* The process runs: no goroutine of it has ended it with a panic.
Alive == \A c \in Clients : pc[c] # "panicked"

\* A step of c's call, from at to to.
Goto(c, at, to) == Alive /\ pc[c] = at /\ pc' = [pc EXCEPT ![c] = to]

\* c starts a call.
Enters(c) ==
    /\ Alive /\ pc[c] = "idle" /\ calls[c] < MaxCalls
    /\ calls' = [calls EXCEPT ![c] = @ + 1]

\* h.hooks becomes m, which is c's change.
Changed(c, m) ==
    hooks' = m /\ version' = version + 1 /\ mine' = [mine EXCEPT ![c] = version + 1]

\* The map of c's call is changed to m under the lock; the lock is released.
Changes(c, m) ==
    /\ Enters(c) /\ Changed(c, m) /\ Goto(c, "idle", "check")
    /\ UNCHANGED <<listener, seen, snap, got, taken>>

\* What SetListener may be given: a Listener, or nil.
Settable == Listeners \cup {Nil}

\* SetListener: a plain write, not under the lock.
SetListener(c, l) ==
    /\ Enters(c)
    /\ listener' = l
    /\ UNCHANGED <<hooks, seen, pc, snap, got, version, mine, taken>>

\* MUTANT of Push: the snapshot is taken before the map is changed.
PushSnapshotFirst(c, w) ==
    /\ Enters(c) /\ Changed(c, Contract!Stored(hooks, w.id, w.secret))
    /\ Goto(c, "idle", "notify")
    /\ snap' = [snap EXCEPT ![c] = hooks]
    /\ taken' = [taken EXCEPT ![c] = version]
    /\ UNCHANGED <<listener, seen, got>>

\* MUTANT of Push: the subscription is stored under its secret.
PushKeyedBySecret(c, w) == Changes(c, Contract!Stored(hooks, w.secret, w.id))

Push(c, w) == Changes(c, Contract!Stored(hooks, w.id, w.secret))

Remove(c, id) == Changes(c, Contract!Deleted(hooks, id))

\* MUTANT of HasListener: the snapshot is taken with or without a listener.
HasListenerAlways == TRUE

\* if h.options.listener != nil
HasListener == listener # Nil

\* Without a listener the call returns.
CheckListener(c) ==
    /\ Goto(c, "check", IF HasListener THEN "snapshot" ELSE "idle")
    /\ UNCHANGED <<hooks, listener, seen, snap, got, calls, version, mine, taken>>

\* MUTANT of Read: only what the store holds and c has not seen yet.
ReadDelta(c) ==
    Restrict(hooks, {i \in DOMAIN hooks : i \notin DOMAIN got[c] \/ got[c][i] # hooks[i]})

\* h.GetWebhook(): the whole map, read under the lock.
Read(c) == hooks

\* hooks, _ := h.GetWebhook(), in Push and Remove.
Snapshot(c) ==
    /\ snap' = [snap EXCEPT ![c] = Read(c)]
    /\ taken' = [taken EXCEPT ![c] = version]
    /\ Goto(c, "snapshot", "notify")
    /\ UNCHANGED <<hooks, listener, seen, got, calls, version, mine>>

\* hookListener.Update: the listener keeps the slice it is given.
Update(l, s) == seen' = [seen EXCEPT ![l] = s]

\* h.options.listener.Update(hooks): the listener is read again here, and
\* the call of a method of the nil Listener panics.
Notify(c) ==
    /\ IF listener = Nil
       THEN Goto(c, "notify", "panicked") /\ UNCHANGED seen
       ELSE Goto(c, "notify", "idle") /\ Update(listener, snap[c])
    /\ UNCHANGED <<hooks, listener, snap, got, calls, version, mine, taken>>

\* GetWebhook called by a client.
GetWebhook(c) ==
    /\ Enters(c)
    /\ got' = [got EXCEPT ![c] = Read(c)]
    /\ UNCHANGED <<hooks, listener, seen, pc, snap, version, mine, taken>>

\* Stop has nothing to stop.
Stop(c) == Enters(c) /\ UNCHANGED <<hooks, listener, seen, pc, snap, got, version, mine, taken>>

\* Every client has made its calls, or a panic has ended the process.
Finished ==
    /\ ~Alive \/ \A c \in Clients : pc[c] = "idle" /\ calls[c] = MaxCalls
    /\ UNCHANGED vars

Next ==
    \/ \E c \in Clients :
          \/ \E w \in W : Push(c, w)
          \/ \E id \in Ids : Remove(c, id)
          \/ \E l \in Settable : SetListener(c, l)
          \/ CheckListener(c)
          \/ Snapshot(c)
          \/ Notify(c)
          \/ GetWebhook(c)
          \/ Stop(c)
    \/ Finished

Spec == Init /\ [][Next]_vars

-----------------------------------------------------------------------------
(* Properties *)

Quiet == \A c \in Clients : pc[c] = "idle"

TypeOK ==
    /\ hooks \in Snapshots
    /\ listener \in Listeners \cup {Nil}
    /\ seen \in [Listeners -> Snapshots \cup {NoSnapshot}]
    /\ pc \in [Clients -> {"idle", "check", "snapshot", "notify", "panicked"}]
    /\ snap \in [Clients -> Snapshots]
    /\ got \in [Clients -> Snapshots]
    /\ calls \in [Clients -> 0..MaxCalls]
    /\ version \in 0..(MaxCalls * Cardinality(Clients))
    /\ mine \in [Clients -> 0..version]
    /\ taken \in [Clients -> 0..version]

(***************************************************************************)
(* hookStorage implements the store's contract: h.hooks changes only by a  *)
(* Push or a Remove, and whatever Push and Remove hand to                  *)
(* hookListener.Update is the whole map as GetWebhook read it under the    *)
(* lock, however the calls of the clients interleave.                      *)
(***************************************************************************)
ImplementsContract == Contract!Spec

(***************************************************************************)
(* The snapshot a Push or Remove is about to hand to the listener was read *)
(* after the call's own change to h.hooks (inmemStore_test.go:189-193,     *)
(* 201-204): the listener is never told of a state that precedes the       *)
(* change it is being told about.                                          *)
(***************************************************************************)
SnapshotFollowsChange ==
    \A c \in Clients : pc[c] = "notify" => taken[c] >= mine[c]

(***************************************************************************)
(* Push and Remove call Update on nil, which ends the process, only when   *)
(* the SetListener of another client has taken the listener away between   *)
(* their check of it and their call (inmemStore_test.go:183, 192-194): a   *)
(* client that has the store to itself never panics, with or without a     *)
(* listener.                                                               *)
(***************************************************************************)
PanicOnlyByRace ==
    \A c \in Clients :
        pc[c] = "panicked" => listener = Nil /\ \E d \in Clients \ {c} : calls[d] > 0

(***************************************************************************)
(* Spec section 4.7: the listener is notified "always with a full, fresh   *)
(* snapshot", and TestInMemWithListener compares the listener's hooks with *)
(* GetWebhook after every call.  With no call in progress, a listener that *)
(* has been notified holds what the store holds, as long as no client      *)
(* takes the listener away (the test registers it once, for good).         *)
(***************************************************************************)
FreshWhenQuiet ==
    (Quiet /\ listener # Nil /\ seen[listener] # NoSnapshot) => seen[listener] = hooks

=============================================================================
