------------------------------- MODULE Health -------------------------------
(***************************************************************************)
(* health.Health (src/health/health.go): a monitor goroutine that owns the *)
(* stats and the list of stats listeners, and an event queue (a buffered   *)
(* channel of HealthFunc) through which every other goroutine reaches      *)
(* them.  Callers are the goroutines that call AddStatsListener, SendEvent *)
(* and ServeHTTP; Run and the close of the shutdown channel come from the  *)
(* process that owns the Health.  The monitor's ticker is made from the    *)
(* interval New was given: time.NewTicker panics when that is not          *)
(* positive, and a panic of the monitor's goroutine ends the process.      *)
(*                                                                         *)
(* The stats are abstracted to the set of updates applied to them; a       *)
(* HealthFunc is one of                                                    *)
(*    [kind |-> "listen", l]     the closure of AddStatsListener           *)
(*    [kind |-> "update", id]    a HealthFunc that changes the stats       *)
(*    [kind |-> "serve",  c]     the closure of c's ServeHTTP              *)
(***************************************************************************)
EXTENDS Integers, Sequences, FiniteSets

CONSTANTS
    Callers,     \* the goroutines that use the Health
    Listeners,   \* the StatsListeners they may add
    EventCap,    \* capacity of h.events: 100 in the code
    StatDumpIntervals,  \* the intervals New may be given
    MaxCalls,    \* bound of the model: calls a caller makes
    None         \* no value: an empty output channel, a listener never called

ASSUME /\ EventCap \in Nat \ {0} /\ MaxCalls \in Nat \ {0}
       /\ StatDumpIntervals \subseteq Int

VARIABLES
    statDumpInterval,  \* h.statDumpInterval
    once,            \* h.once has run its function
    chan,            \* h.events: "nil", "open" or "closed"
    queue,           \* the HealthFuncs buffered in h.events
    shutdown,        \* the shutdown channel is closed
    monitor,         \* the goroutine of Run: "none", "starting", "running",
                     \* "stopped", or "panicked" in time.NewTicker
    stats,           \* h.stats: the updates applied
    statsListeners,  \* h.statsListeners
    seen,            \* seen[l]: the stats of the last OnStats call to l
    pc,              \* pc[c]: where caller c is
    pending,         \* pending[c]: the HealthFunc c is sending
    calls,           \* calls[c]: the calls c has made
    output,          \* output[c]: the content of ServeHTTP's output channel
    accepted,        \* history: the updates h.events has accepted
    before           \* history: before[c] = accepted, when c's serve was accepted

vars == <<statDumpInterval, once, chan, queue, shutdown, monitor, stats,
          statsListeners, seen, pc, pending, calls, output, accepted, before>>

callerVars  == <<pc, pending, calls, output, accepted, before>>
monitorVars == <<monitor, stats, statsListeners, seen>>

Updates == Callers \X (1..MaxCalls)

HealthFunc ==
    [kind : {"listen"}, l : Listeners] \cup [kind : {"update"}, id : Updates]
        \cup [kind : {"serve"}, c : Callers]

-----------------------------------------------------------------------------
\* A Health as New makes it (the events channel is nil until Run makes it)
\* or, with ran, as the first Run leaves it.
Made(ran) ==
    /\ statDumpInterval \in StatDumpIntervals
    /\ once = ran /\ shutdown = FALSE
    /\ chan = (IF ran THEN "open" ELSE "nil") /\ queue = <<>>
    /\ monitor = (IF ran THEN "starting" ELSE "none")
    /\ stats = {} /\ statsListeners = <<>>
    /\ seen = [l \in Listeners |-> None]
    /\ pc = [c \in Callers |-> "idle"]
    /\ pending = [c \in Callers |-> None]
    /\ calls = [c \in Callers |-> 0]
    /\ output = [c \in Callers |-> None]
    /\ accepted = {}
    /\ before = [c \in Callers |-> {}]

Init == Made(FALSE)

\* MUTANT of StartMonitor: close(h.events) is deferred in the function of
\* the Once, not in the goroutine, and runs when Run returns.
StartMonitorClosing == chan' = "closed" /\ queue' = <<>> /\ monitor' = "starting"

\* The function of the Once: the channel is made and the goroutine of the
\* monitor started with the go statement.
StartMonitor == chan' = "open" /\ queue' = <<>> /\ monitor' = "starting"

\* The process runs: no goroutine of it has ended it with a panic.
Alive == monitor # "panicked"

\* MUTANT of Run: without the sync.Once.
RunEveryTime ==
    /\ Alive /\ once' = TRUE /\ StartMonitor
    /\ UNCHANGED <<statDumpInterval, shutdown, stats, statsListeners, seen,
                   callerVars>>

\* Run: the first call starts the monitor; any later call does nothing.
Run ==
    /\ Alive
    /\ once' = TRUE
    /\ IF once THEN UNCHANGED <<chan, queue, monitor>> ELSE StartMonitor
    /\ UNCHANGED <<statDumpInterval, shutdown, stats, statsListeners, seen,
                   callerVars>>

\* The owner of the Health closes the shutdown channel.
Shutdown ==
    /\ Alive /\ ~shutdown /\ shutdown' = TRUE
    /\ UNCHANGED <<statDumpInterval, once, chan, queue, monitorVars, callerVars>>

-----------------------------------------------------------------------------
(* The callers *)

Goto(c, to) == pc' = [pc EXCEPT ![c] = to]

\* c enters a call that sends f: the call is counted and c is at h.events <- f.
Call(c, f) ==
    /\ Alive /\ pc[c] = "idle" /\ calls[c] < MaxCalls
    /\ calls' = [calls EXCEPT ![c] = @ + 1]
    /\ pending' = [pending EXCEPT ![c] = f]
    /\ Goto(c, "sending")
    /\ UNCHANGED <<statDumpInterval, once, chan, queue, shutdown, accepted,
                   before, monitorVars>>

AddStatsListener(c, l) ==
    Call(c, [kind |-> "listen", l |-> l]) /\ UNCHANGED output

\* A HealthFunc of the application: here, one that updates the stats.
SendUpdate(c) ==
    Call(c, [kind |-> "update", id |-> <<c, calls[c] + 1>>]) /\ UNCHANGED output

\* MUTANT of ServeHTTP: the handler reads h.stats itself, in its own
\* goroutine, before it sends the closure.
ServeHTTPReadsStats(c) ==
    Call(c, [kind |-> "serve", c |-> c]) /\ output' = [output EXCEPT ![c] = stats]

\* ServeHTTP makes its output channel and sends the closure that fills it.
ServeHTTP(c) ==
    Call(c, [kind |-> "serve", c |-> c]) /\ output' = [output EXCEPT ![c] = None]

\* Where c goes when its HealthFunc is in the queue: ServeHTTP waits for its
\* output, the other calls return.
AfterSend(f) == IF f.kind = "serve" THEN "waiting" ELSE "idle"

\* MUTANT of HasRoom: the channel is made without a bound.
HasRoomAlways == TRUE

\* make(chan HealthFunc, 100): a send waits while the buffer is full.
HasRoom == Len(queue) < EventCap

(***************************************************************************)
(* SendEvent, h.events <- healthFunc.  On the nil channel of a Health that *)
(* was not Run the send blocks for ever; on the open channel it waits for  *)
(* room (the action is not enabled) and then puts the func in the queue;   *)
(* on the channel the monitor closed when it stopped, it panics.           *)
(***************************************************************************)
SendEvent(c) ==
    LET f == pending[c] IN
    /\ Alive /\ pc[c] = "sending"
    /\ \/ chan = "nil" /\ Goto(c, "stuck") /\ UNCHANGED <<queue, accepted, before>>
       \/ chan = "closed" /\ Goto(c, "panicked") /\ UNCHANGED <<queue, accepted,
                                                                before>>
       \/ /\ chan = "open" /\ HasRoom
          /\ queue' = Append(queue, f)
          /\ Goto(c, AfterSend(f))
          /\ accepted' = IF f.kind = "update" THEN accepted \cup {f.id} ELSE accepted
          /\ before' = IF f.kind = "serve" THEN [before EXCEPT ![c] = accepted] ELSE before
    /\ UNCHANGED <<statDumpInterval, once, chan, shutdown, pending, calls,
                   output, monitorVars>>

\* ServeHTTP takes the stats from its output channel and writes the answer.
ServeReturn(c) ==
    /\ Alive /\ pc[c] = "waiting" /\ output[c] # None
    /\ Goto(c, "idle")
    /\ output' = [output EXCEPT ![c] = None]
    /\ UNCHANGED <<statDumpInterval, once, chan, queue, shutdown, pending,
                   calls, accepted, before, monitorVars>>

-----------------------------------------------------------------------------
(* The monitor: one iteration of the select loop per action *)

\* time.NewTicker(d) panics unless d is positive.
NewTicker(d) == IF d <= 0 THEN "panicked" ELSE "running"

\* The goroutine begins: it makes its ticker and defers the close of
\* h.events.  A panic in NewTicker unwinds past the defers not yet made.
MonitorStart ==
    /\ monitor = "starting"
    /\ monitor' = NewTicker(statDumpInterval)
    /\ UNCHANGED <<statDumpInterval, once, chan, queue, shutdown, stats,
                   statsListeners, seen, callerVars>>

\* case <-shutdown: return, and the deferred close(h.events) runs.  What is
\* still in the queue stays there.
MonitorShutdown ==
    /\ monitor = "running" /\ shutdown
    /\ monitor' = "stopped" /\ chan' = "closed"
    /\ UNCHANGED <<statDumpInterval, once, queue, shutdown, stats,
                   statsListeners, seen, callerVars>>

\* MUTANT of Listen: the new listener is assigned instead of appended.
ListenAssigns(l) == <<l>>

\* The closure of AddStatsListener.
Listen(l) == Append(statsListeners, l)

\* What running hf on the stats does.
Apply(hf) ==
    /\ statsListeners' = IF hf.kind = "listen" THEN Listen(hf.l) ELSE statsListeners
    /\ stats' = IF hf.kind = "update" THEN stats \cup {hf.id} ELSE stats
    /\ output' = IF hf.kind = "serve" THEN [output EXCEPT ![hf.c] = stats] ELSE output

\* case hf := <-h.events: hf(h.stats)
MonitorEvent ==
    /\ monitor = "running" /\ queue # <<>>
    /\ queue' = Tail(queue)
    /\ Apply(Head(queue))
    /\ UNCHANGED <<statDumpInterval, once, chan, shutdown, monitor, seen, pc,
                   pending, calls, accepted, before>>

Listening(l) == \E i \in DOMAIN statsListeners : statsListeners[i] = l

\* case <-ticker.C: every listener is called with a clone of the stats.
MonitorTick ==
    /\ monitor = "running"
    /\ seen' = [l \in Listeners |-> IF Listening(l) THEN stats ELSE seen[l]]
    /\ UNCHANGED <<statDumpInterval, once, chan, queue, shutdown, monitor,
                   stats, statsListeners, callerVars>>

\* The panic has ended the process: nothing takes a step any more.
Ended == ~Alive /\ UNCHANGED vars

-----------------------------------------------------------------------------
Next ==
    \/ Run
    \/ Shutdown
    \/ \E c \in Callers :
          \/ \E l \in Listeners : AddStatsListener(c, l)
          \/ SendUpdate(c)
          \/ ServeHTTP(c)
          \/ SendEvent(c)
          \/ ServeReturn(c)
    \/ MonitorStart
    \/ MonitorShutdown
    \/ MonitorEvent
    \/ MonitorTick
    \/ Ended

(***************************************************************************)
(* Fairness: the goroutines are scheduled.  A caller at a send or a        *)
(* receive that can proceed does; the monitor's goroutine begins, its      *)
(* select takes a case that stays ready (Go picks among the ready cases at *)
(* random, so none of them is passed over for ever) and its ticker fires.  *)
(* Nothing obliges anybody to call Run, to close the shutdown channel or   *)
(* to make a call.                                                         *)
(***************************************************************************)
Fairness ==
    /\ \A c \in Callers : WF_vars(SendEvent(c)) /\ WF_vars(ServeReturn(c))
    /\ WF_vars(MonitorStart)
    /\ WF_vars(MonitorShutdown)
    /\ WF_vars(MonitorEvent)
    /\ WF_vars(MonitorTick)

Spec == Init /\ [][Next]_vars /\ Fairness

-----------------------------------------------------------------------------
(* Properties *)

\* The type invariant.
TypeOK ==
    /\ statDumpInterval \in StatDumpIntervals
    /\ once \in BOOLEAN /\ shutdown \in BOOLEAN
    /\ chan \in {"nil", "open", "closed"}
    /\ queue \in Seq(HealthFunc) /\ Len(queue) <= EventCap
    /\ monitor \in {"none", "starting", "running", "stopped", "panicked"}
    /\ stats \subseteq Updates /\ accepted \subseteq Updates
    /\ statsListeners \in Seq(Listeners)
    /\ seen \in [Listeners -> SUBSET Updates \cup {None}]
    /\ pc \in [Callers -> {"idle", "sending", "stuck", "waiting", "panicked"}]
    /\ pending \in [Callers -> HealthFunc \cup {None}]
    /\ calls \in [Callers -> 0..MaxCalls]
    /\ output \in [Callers -> SUBSET Updates \cup {None}]
    /\ before \in [Callers -> SUBSET Updates]

Queued(kind) == {queue[i] : i \in {j \in DOMAIN queue : queue[j].kind = kind}}

(***************************************************************************)
(* Nothing that h.events accepted is lost: an update is applied to the     *)
(* stats or still in the queue, and a ServeHTTP that waits for its output  *)
(* has its closure in the queue or its stats in the output channel.  This  *)
(* is what Run's sync.Once is for: a second Run must not replace the       *)
(* channel under the funcs that wait in it.                                *)
(***************************************************************************)
EventsConserved ==
    /\ accepted = stats \cup {f.id : f \in Queued("update")}
    /\ \A c \in Callers :
         pc[c] = "waiting" =>
            output[c] # None \/ [kind |-> "serve", c |-> c] \in Queued("serve")

(***************************************************************************)
(* The stats ServeHTTP answers with contain every update that h.events     *)
(* accepted before it accepted the ServeHTTP's closure, the caller's own   *)
(* earlier updates in particular: the stats are read by the monitor, in    *)
(* queue order, never by the handler's goroutine.                          *)
(***************************************************************************)
ServedStatsAreCurrent ==
    \A c \in Callers : output[c] # None => before[c] \subseteq output[c]

(***************************************************************************)
(* A Health made with a positive interval serves what h.events accepted,   *)
(* also what it accepted before the monitor's goroutine began              *)
(* (health.go:82-90): a ServeHTTP whose closure was accepted gets its      *)
(* stats, and a listener that was appended to h.statsListeners is called   *)
(* at a later tick and stays in the list.  (When the monitor is shut down  *)
(* first, neither is owed anything.)                                       *)
(***************************************************************************)
AcceptedIsServed ==
    /\ \A c \in Callers :
         (pc[c] = "waiting" /\ statDumpInterval > 0)
            ~> (pc[c] = "idle" \/ monitor = "stopped")
    /\ \A l \in Listeners :
         Listening(l) ~> ((Listening(l) /\ seen[l] # None) \/ monitor = "stopped")

=============================================================================
