------------------------------- MODULE Fanout -------------------------------
(***************************************************************************)
(* The fanout handler that wrphttp.NewFanoutEndpoint builds: every inbound *)
(* request walks the middleware chain (Logging, Busy, Timeout, Concurrent, *)
(* custom), the engine replicates it to every endpoint client, takes the   *)
(* first successful result and cancels the rest, and the chain unwinds.    *)
(*                                                                         *)
(* The options, their defaults and the order of the chain are translated   *)
(* from src/wrp/wrphttp/fanout.go (module FanoutOptions).  A fanout may    *)
(* also be built from a Configuration of xhttp/fanout, whose NewChain      *)
(* makes the chain Timeout, Populate, Busy (module FanoutConfiguration).   *)
(* An application that does so also chooses the request and response      *)
(* functions of its fanout (module RequestResponse).  The bodies of the    *)
(* middleware and of the engine are not part of src/: they follow sections *)
(* 4.4 to 4.6 of the specification.                                        *)
(*                                                                         *)
(* Time is a count of ticks: age[r] since the Timeout middleware armed     *)
(* r's deadline, clientAge[r] since r's replicas were sent.                *)
(***************************************************************************)
EXTENDS FanoutOptions, RequestResponse, FiniteSets, FiniteSetsExt

CONSTANTS
    Requests,     \* the inbound requests that can be in flight together
    OptionSpace,  \* the options a fanout of this model may be built from
    Inbound,      \* what every inbound request carries: [header, vars, body]
    Application,  \* what the application of a Configuration supplies: its
                  \* request functions (before), its response functions
                  \* (after), and response[e], what the downstream e answers
    Expected      \* what requestResponse_test.go expects of these: the
                  \* replica request, and answer[e], the caller's header

C == INSTANCE FanoutConfiguration

ASSUME \A o \in OptionSpace : o = Nil \/ IsFanoutOptions(o) \/ C!IsConfiguration(o)

VARIABLES
    opts,        \* the options the handler was built from
    handler,     \* the handler built from opts
    phase,       \* phase[r]: where r is on its way through the handler
    depth,       \* depth[r]: the middleware frames r holds
    count,       \* count[i]: the counter of the middleware at chain position i
    deadline,    \* deadline[r]: the armed timeout in ticks, 0 when none is armed
    cancelled,   \* cancelled[r]: r's context was cancelled
    age,         \* age[r]: ticks since the deadline was armed
    clientAge,   \* clientAge[r]: ticks since the replicas were sent
    replica,     \* replica[r][e]: the endpoint client's goroutine for e
    outcome      \* outcome[r]: what the handler answers r with

vars == <<opts, handler, phase, depth, count, deadline, cancelled, age,
          clientAge, replica, outcome>>

-----------------------------------------------------------------------------
(* Results of an endpoint client.  "ok" is a response of the success set;  *)
(* "4xx" and "5xx" are responses outside it; "error" is any of the errors  *)
(* (request-build, transport, read-body, timeout, cancellation), which the *)
(* engine does not tell apart.                                             *)
Results   == {"ok", "4xx", "5xx", "error"}
NoResult  == "none"
NoOutcome == [code |-> 0, cause |-> "none", from |-> Nil, header |-> NoHeader]

Chain     == handler.chain
Endpoints == handler.fanoutEndpoints
Positions == DOMAIN Chain

\* The context r's replicas run under is done: cancelled, or past its deadline.
ctxDone(r) == cancelled[r] \/ (deadline[r] > 0 /\ age[r] >= deadline[r])

Delivered(r) == {e \in DOMAIN replica[r] : replica[r][e].st = "delivered"}

\* The endpoints of r whose client has ended, and so emitted its span.
Spans(r) == {e \in DOMAIN replica[r] : replica[r][e].st # "running"}

(***************************************************************************)
(* The status of a fanout all of whose replicas failed (section 4.5): a    *)
(* 4xx with a body before a 5xx, and 503 when there were only errors, or   *)
(* no endpoint at all.                                                     *)
(***************************************************************************)
CompositeStatus(results) ==
    IF "4xx" \in results THEN 404
    ELSE IF "5xx" \in results THEN 500
    ELSE 503

-----------------------------------------------------------------------------
\* The options are a Configuration of xhttp/fanout.
Configured(o) == o # Nil /\ "MaxClients" \notin DOMAIN o

(***************************************************************************)
(* The handler of an application that configures its fanout with a         *)
(* Configuration: the endpoints as they are configured, none when the list *)
(* is unset and the application supplies no other, behind the chain of     *)
(* NewChain.                                                               *)
(***************************************************************************)
NewConfigured(c) ==
    [err             |-> FALSE,
     method          |-> DefaultMethod,
     fanoutEndpoints |-> Range(C!endpoints(c)),
     customHeader    |-> customHeader(c),
     clientTimeout   |-> DefaultClientTimeout,
     maxIdleConns    |-> DefaultMaxIdleConnsPerHost,
     chain           |-> C!NewChain(c)]

New(o) == IF Configured(o) THEN NewConfigured(o) ELSE NewFanoutEndpoint(o)

\* The answer to a fanout that did not succeed: of no downstream.
Failure(code, cause) == [code |-> code, cause |-> cause, from |-> Nil, header |-> NoHeader]

\* The goroutine of the client for e, with the replica request it sends; the
\* request functions are those of an xhttp/fanout handler only.
Running(e) ==
    [st |-> "running", res |-> NoResult,
     req |-> IF Configured(opts) THEN NewReplica(Application.before, Inbound, e) ELSE Nil]

\* The answer to a fanout that e's response won: the response of e, with
\* the header the response functions make of it.
Success(e) ==
    [code |-> 200, cause |-> "success", from |-> e,
     header |-> IF Configured(opts) THEN Outbound(Application.after, Application.response[e])
                ELSE NoHeader]

Init ==
    /\ opts \in OptionSpace
    /\ handler = New(opts)
    /\ phase = [r \in Requests |-> "idle"]
    /\ depth = [r \in Requests |-> 0]
    /\ count = IF handler.err THEN <<>> ELSE [i \in DOMAIN handler.chain |-> 0]
    /\ deadline = [r \in Requests |-> 0] /\ age = [r \in Requests |-> 0]
    /\ clientAge = [r \in Requests |-> 0]
    /\ cancelled = [r \in Requests |-> FALSE]
    /\ replica = [r \in Requests |-> <<>>]
    /\ outcome = [r \in Requests |-> NoOutcome]

built == <<opts, handler>>

Goto(r, to) == phase' = [phase EXCEPT ![r] = to]

\* A request arrives at a handler that was constructed without error.
Arrive(r) ==
    /\ ~handler.err /\ phase[r] = "idle"
    /\ Goto(r, "entering")
    /\ UNCHANGED <<built, depth, count, deadline, cancelled, age, clientAge, replica, outcome>>

\* The handler has its answer to r, and r turns back.
Decide(r, answer) == Goto(r, "leaving") /\ outcome' = [outcome EXCEPT ![r] = answer]

\* r holds the frame of the middleware at i.
Inside(r, i) == depth' = [depth EXCEPT ![r] = i]

\* r is counted in by the limiter at i.
Take(r, i) == count' = [count EXCEPT ![i] = @ + 1] /\ Inside(r, i)

\* Logging, Populate and custom middleware only pass the request on.
EnterPassing(r, i) == Inside(r, i) /\ UNCHANGED <<phase, count, deadline, age, outcome>>

\* MUTANT of EnterBusy: a refused request takes its count back at once and
\* again when its frame unwinds.
EnterBusyDoubleRelease(r, i) ==
    /\ IF count[i] + 1 > Chain[i].arg
       THEN Decide(r, Failure(503, "busy")) /\ Inside(r, i) /\ UNCHANGED count
       ELSE Take(r, i) /\ UNCHANGED <<phase, outcome>>
    /\ UNCHANGED <<deadline, age>>

\* Busy: count the request in, then refuse it when that made too many.  The
\* count is taken back when the frame unwinds, refused or not.
EnterBusy(r, i) ==
    /\ Take(r, i)
    /\ IF count[i] + 1 > Chain[i].arg
       THEN Decide(r, Failure(503, "busy"))
       ELSE UNCHANGED <<phase, outcome>>
    /\ UNCHANGED <<deadline, age>>

\* Timeout: everything inside runs under a deadline of now + d.
EnterTimeout(r, i) ==
    /\ deadline' = [deadline EXCEPT ![r] = Chain[i].arg]
    /\ age' = [age EXCEPT ![r] = 0]
    /\ Inside(r, i)
    /\ UNCHANGED <<phase, count, outcome>>

\* MUTANT of EnterConcurrent: the acquire waits for a slot.
EnterConcurrentBlocking(r, i) ==
    count[i] < Chain[i].arg /\ Take(r, i) /\ UNCHANGED <<phase, outcome, deadline, age>>

\* Concurrent: take a slot without waiting, or refuse with 429.
EnterConcurrent(r, i) ==
    /\ IF count[i] < Chain[i].arg
       THEN Take(r, i) /\ UNCHANGED <<phase, outcome>>
       ELSE Decide(r, Failure(429, "concurrent")) /\ UNCHANGED <<count, depth>>
    /\ UNCHANGED <<deadline, age>>

\* r enters the next middleware of the chain.
Enter(r) ==
    /\ phase[r] = "entering" /\ depth[r] < Len(Chain)
    /\ LET i == depth[r] + 1 IN
         \/ Chain[i].kind \in {"Logging", "Populate", "Custom"} /\ EnterPassing(r, i)
         \/ Chain[i].kind = "Busy"       /\ EnterBusy(r, i)
         \/ Chain[i].kind = "Timeout"    /\ EnterTimeout(r, i)
         \/ Chain[i].kind = "Concurrent" /\ EnterConcurrent(r, i)
    /\ UNCHANGED <<built, cancelled, clientAge, replica>>

\* Inside the whole chain, the engine starts one goroutine per endpoint;
\* with no endpoint it answers 503 and sends nothing.
Dispatch(r) ==
    /\ phase[r] = "entering" /\ depth[r] = Len(Chain)
    /\ IF Endpoints = {}
       THEN Decide(r, Failure(503, "all-failed")) /\ UNCHANGED <<replica, clientAge>>
       ELSE /\ Goto(r, "engine")
            /\ replica' = [replica EXCEPT ![r] = [e \in Endpoints |-> Running(e)]]
            /\ clientAge' = [clientAge EXCEPT ![r] = 0]
            /\ UNCHANGED outcome
    /\ UNCHANGED <<built, depth, count, deadline, cancelled, age>>

\* The client for e has to give up: its own timeout ran out, or the context
\* it runs under is done.
MustAbort(r) == clientAge[r] >= handler.clientTimeout \/ ctxDone(r)

\* The client for e ends with res: it emits its span and offers the result
\* on the engine's unbuffered channel, where it waits to be taken.
Offer(r, e, res) ==
    /\ e \in DOMAIN replica[r] /\ replica[r][e].st = "running"
    /\ replica' = [replica EXCEPT ![r][e].st = "sending", ![r][e].res = res]
    /\ UNCHANGED <<built, phase, depth, count, deadline, cancelled, age, clientAge, outcome>>

\* The downstream answers, or the attempt fails, before the client's timeout.
ReplicaCompletes(r, e, res) == clientAge[r] < handler.clientTimeout /\ Offer(r, e, res)

\* The client times out, or honours the cancellation of its context.
ReplicaAborts(r, e) == MustAbort(r) /\ Offer(r, e, "error")

\* MUTANT of Collecting: the engine's loop goes on taking results after it
\* has decided, so that a late success replaces the answer.
CollectingAfterDecision(r) == phase[r] \in {"engine", "leaving"}

\* The engine's loop over the results of r is running.
Collecting(r) == phase[r] = "engine"

\* The engine takes a result: a success wins and cancels the others; the
\* last of the failures makes the composite error.
Receive(r, e) ==
    LET taken == Delivered(r) \cup {e} IN
    /\ Collecting(r) /\ replica[r][e].st = "sending"
    /\ replica' = [replica EXCEPT ![r][e].st = "delivered"]
    /\ CASE replica[r][e].res = "ok" ->
              Decide(r, Success(e)) /\ cancelled' = [cancelled EXCEPT ![r] = TRUE]
         [] replica[r][e].res # "ok" /\ taken = Endpoints ->
              /\ Decide(r, Failure(CompositeStatus({replica[r][d].res : d \in taken}), "all-failed"))
              /\ UNCHANGED cancelled
         [] OTHER -> UNCHANGED <<outcome, cancelled, phase>>
    /\ UNCHANGED <<built, depth, count, deadline, age, clientAge>>

\* The engine finds the fanout's context expired before any success.
EngineTimeout(r) ==
    /\ phase[r] = "engine" /\ ctxDone(r)
    /\ Decide(r, Failure(504, "timeout"))
    /\ cancelled' = [cancelled EXCEPT ![r] = TRUE]
    /\ UNCHANGED <<built, depth, count, deadline, age, clientAge, replica>>

\* On the way out the innermost frame runs its deferred step: Busy and
\* Concurrent give their count back, Timeout cancels its context.
Unwind(r) ==
    LET kind == Chain[depth[r]].kind IN
    /\ phase[r] = "leaving" /\ depth[r] > 0
    /\ count' = IF kind \in {"Busy", "Concurrent"} THEN [count EXCEPT ![depth[r]] = @ - 1] ELSE count
    /\ cancelled' = IF kind = "Timeout" THEN [cancelled EXCEPT ![r] = TRUE] ELSE cancelled
    /\ depth' = [depth EXCEPT ![r] = @ - 1]
    /\ UNCHANGED <<built, phase, deadline, age, clientAge, replica, outcome>>

\* Outside the chain the outcome is written to the caller.
Return(r) ==
    /\ phase[r] = "leaving" /\ depth[r] = 0
    /\ Goto(r, "done")
    /\ UNCHANGED <<built, depth, count, deadline, cancelled, age, clientAge, replica, outcome>>

\* The model reuses r for a later request once none of its goroutines runs.
Forget(r) ==
    /\ phase[r] = "done"
    /\ \A e \in DOMAIN replica[r] : replica[r][e].st # "running"
    /\ Goto(r, "idle")
    /\ deadline' = [deadline EXCEPT ![r] = 0] /\ age' = [age EXCEPT ![r] = 0]
    /\ clientAge' = [clientAge EXCEPT ![r] = 0]
    /\ cancelled' = [cancelled EXCEPT ![r] = FALSE]
    /\ replica' = [replica EXCEPT ![r] = <<>>]
    /\ outcome' = [outcome EXCEPT ![r] = NoOutcome]
    /\ UNCHANGED <<built, depth, count>>

\* Time passes for every armed deadline and every sent replica; a timer
\* stops counting where it has run out.
Timed(r)  == deadline[r] > 0 /\ age[r] < deadline[r]
Flying(r) == /\ \E e \in DOMAIN replica[r] : replica[r][e].st = "running"
             /\ clientAge[r] < handler.clientTimeout

Tick ==
    /\ \E r \in Requests : Timed(r) \/ Flying(r)
    /\ age' = [r \in Requests |-> IF Timed(r) THEN age[r] + 1 ELSE age[r]]
    /\ clientAge' = [r \in Requests |-> IF Flying(r) THEN clientAge[r] + 1 ELSE clientAge[r]]
    /\ UNCHANGED <<built, phase, depth, count, deadline, cancelled, replica, outcome>>

-----------------------------------------------------------------------------
\* The type invariant.  Of the handler it says what the accessors' defaults
\* are for: a client timeout that is set (a zero http.Client.Timeout would
\* mean no timeout at all).
TypeOK ==
    /\ opts \in OptionSpace
    /\ handler = New(opts)
    /\ phase \in [Requests -> {"idle", "entering", "engine", "leaving", "done"}]
    /\ ~handler.err =>
         /\ \A i \in Positions : Chain[i].arg \in Nat
         /\ handler.clientTimeout \in Nat \ {0}
         /\ depth \in [Requests -> 0..Len(Chain)]
         /\ count \in [Positions -> Nat]
         /\ \A r \in Requests :
              /\ DOMAIN replica[r] \in {{}, Endpoints}
              /\ \A e \in DOMAIN replica[r] :
                   /\ replica[r][e].st \in {"running", "sending", "delivered"}
                   /\ replica[r][e].res \in Results \cup {NoResult}
                   /\ replica[r][e].st = "running" <=> replica[r][e].res = NoResult
    /\ deadline \in [Requests -> Nat]
    /\ cancelled \in [Requests -> BOOLEAN]
    /\ \A r \in Requests : age[r] \in 0..deadline[r]
    /\ clientAge \in [Requests -> Nat]
    /\ \A r \in Requests :
         /\ outcome[r].code \in {0, 200, 404, 429, 500, 503, 504}
         /\ outcome[r].cause \in {"none", "success", "all-failed", "timeout",
                                  "busy", "concurrent"}
         /\ outcome[r].from = Nil \/ outcome[r].from \in Endpoints
         /\ DOMAIN outcome[r].header \subseteq Range(Canonical)

Step(r) ==
    \/ Enter(r)
    \/ Dispatch(r)
    \/ \E e \in DOMAIN replica[r] : Receive(r, e)
    \/ EngineTimeout(r)
    \/ Unwind(r)
    \/ Return(r)
    \/ Forget(r)

\* The constructor returned an error: there is no handler to run.
NeverStarted == handler.err /\ UNCHANGED vars

Next ==
    \/ NeverStarted
    \/ \E r \in Requests : Arrive(r) \/ Step(r)
    \/ \E r \in Requests : \E e \in DOMAIN replica[r] :
           \/ \E res \in Results : ReplicaCompletes(r, e, res)
           \/ ReplicaAborts(r, e)
    \/ Tick

(***************************************************************************)
(* Fairness: the handler's own goroutines are scheduled (Step), time       *)
(* passes, and a replica whose client timeout ran out or whose context is  *)
(* done ends.  Nothing obliges a request to arrive or a downstream to      *)
(* answer.                                                                 *)
(***************************************************************************)
Fairness ==
    /\ \A r \in Requests : WF_vars(Step(r))
    /\ \A r \in Requests : WF_vars(\E e \in DOMAIN replica[r] : ReplicaAborts(r, e))
    /\ WF_vars(Tick)

Spec == Init /\ [][Next]_vars /\ Fairness

-----------------------------------------------------------------------------
(* Properties *)

Limiters == {i \in Positions : Chain[i].kind \in {"Busy", "Concurrent"}}
Holding(i) == {r \in Requests : depth[r] >= i}
InEngine == {r \in Requests : phase[r] = "engine"}

(***************************************************************************)
(* The counter of Busy and of Concurrent is the number of requests that    *)
(* hold a frame of that middleware: a request counted in on entry is       *)
(* counted out exactly once, whether it was served, refused further in, or *)
(* refused by this very middleware (Busy counts before it checks).  A      *)
(* counter that drifts up refuses requests for ever; one that drifts down  *)
(* admits more than the limit.                                             *)
(***************************************************************************)
CountersBalanced ==
    ~handler.err => \A i \in Limiters : count[i] = Cardinality(Holding(i))

(***************************************************************************)
(* The limits of the options are the limits of the handler: never more     *)
(* fanouts in the engine than FanoutOptions.concurrency() nor than         *)
(* FanoutOptions.maxClients(), and never more than                         *)
(* Configuration.concurrency() for a fanout built with NewChain, whatever  *)
(* the order in which requests arrive, are refused and leave.  The         *)
(* constructors hand each limit to its own middleware.                     *)
(***************************************************************************)
AdmissionBounded ==
    Cardinality(InEngine) <= Min(IF Configured(opts) THEN {C!concurrency(opts)}
                                 ELSE {maxClients(opts), concurrency(opts)})

(***************************************************************************)
(* Every answer is justified by what happened downstream:                  *)
(*  - 200 only when a successful result was taken from a replica;          *)
(*  - 504 only when the options' fanoutTimeout() has really elapsed since  *)
(*    the Timeout middleware armed the deadline, and no success was taken; *)
(*  - 429 and 503 Server Busy without a single replica having been sent;   *)
(*  - the composite failure only when every endpoint's result was taken    *)
(*    and none was a success, with the status of the precedence rule.      *)
(***************************************************************************)
ResponseJustified ==
    \A r \in Requests :
        LET taken == {replica[r][e].res : e \in Delivered(r)} IN
        /\ outcome[r].cause = "success" =>
              outcome[r].code = 200 /\ "ok" \in taken
        /\ outcome[r].cause = "timeout" =>
              /\ outcome[r].code = 504
              /\ age[r] >= IF Configured(opts) THEN C!fanoutTimeout(opts)
                           ELSE fanoutTimeout(opts)
              /\ "ok" \notin taken
        /\ outcome[r].cause \in {"busy", "concurrent"} =>
              /\ outcome[r].code = IF outcome[r].cause = "busy" THEN 503 ELSE 429
              /\ replica[r] = <<>>
        /\ outcome[r].cause = "all-failed" =>
              /\ Delivered(r) = Endpoints
              /\ "ok" \notin taken
              /\ outcome[r].code = CompositeStatus(taken)

(***************************************************************************)
(* Every replica of an xhttp/fanout handler is sent what the application's *)
(* request functions make of the inbound request, applied in their order   *)
(* to the decoder's header (requestResponse_test.go): the Content-Type and *)
(* the headers named, however the names are spelled, under their canonical *)
(* names; nothing for a name that is unknown or has no value; the path     *)
(* variable as a header; and the path of UsePath with no raw path, whatever*)
(* the endpoint's own.                                                     *)
(***************************************************************************)
ReplicasCarryTheRequest ==
    Configured(opts) =>
        \A r \in Requests : \A e \in DOMAIN replica[r] :
            replica[r][e].req = Expected.replica

(***************************************************************************)
(* A success is the response of one replica, one whose result the engine   *)
(* took and that was a success: not that of a downstream that answered     *)
(* later or failed.  The caller of an xhttp/fanout handler is given the    *)
(* headers that the response functions and the encoder take from that      *)
(* response, and none at all when the fanout failed, timed out or was      *)
(* refused.                                                                *)
(***************************************************************************)
AnswerFromTheWinner ==
    \A r \in Requests :
        LET e == outcome[r].from IN
        IF outcome[r].cause = "success"
        THEN /\ e \in Delivered(r) /\ replica[r][e].res = "ok"
             /\ Configured(opts) => outcome[r].header = Expected.answer[e]
        ELSE e = Nil /\ outcome[r].header = NoHeader

(***************************************************************************)
(* At most one result reaches the response: once the handler has decided   *)
(* what to answer a request, no later step changes the answer, neither a   *)
(* success that arrives after the fanout timed out nor a timeout that      *)
(* fires after a success was taken.                                        *)
(***************************************************************************)
AnswerIsFinal ==
    [][\A r \in Requests :
          outcome[r] # NoOutcome => outcome'[r] \in {outcome[r], NoOutcome}]_vars

(***************************************************************************)
(* Every request that enters the handler is answered, and every replica    *)
(* sent for it ends and emits its span, the losers' included: whatever the *)
(* downstreams do, the client timeout or the fanout's cancelled context    *)
(* ends each replica, and no middleware makes a request wait.              *)
(***************************************************************************)
AnsweredAndSpansFlushed ==
    \A r \in Requests :
        phase[r] = "entering" ~> (phase[r] = "done" /\ Spans(r) = DOMAIN replica[r])

=============================================================================
