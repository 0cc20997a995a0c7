------------------------------- MODULE Server -------------------------------
(***************************************************************************)
(* server.WebPA (src/server/webpa.go): Prepare and the Runnable it         *)
(* returns, which starts the health, pprof, primary, alternate and metrics *)
(* servers in that order, each in a goroutine of its own, and runs the     *)
(* health monitor.  The monitor is the module Health; the requests the     *)
(* servers take are its callers:                                           *)
(*   - a request to /health on the health server is Health!ServeHTTP;      *)
(*   - a request to the primary or the alternate server passes the         *)
(*     RequestTracker, which sends a stats update to the monitor;          *)
(*   - the application holds the Monitor that Prepare returned and may add *)
(*     a stats listener at any time.                                       *)
(***************************************************************************)
EXTENDS Integers, Sequences, FiniteSets

CONSTANTS
    Callers, Listeners, EventCap, StatDumpIntervals, MaxCalls, None,
                         \* those of Health
    Configurations,      \* the WebPA values to start from
    Nil

VARIABLES
    statDumpInterval, once, chan, queue, shutdown, monitor, stats,
    statsListeners, seen, pc, pending, calls, output, accepted, before,
                  \* those of Health
    webpa,        \* the WebPA configuration
    at,           \* where the Runnable is
    server,       \* server[s]: Nil, or the http.Server started for s
    tracked,      \* primaryHandler is wrapped in the RequestTracker
    err           \* what the Runnable returned

H == INSTANCE Health

healthVars == <<statDumpInterval, once, chan, queue, shutdown, monitor, stats,
                statsListeners, seen, pc, pending, calls, output, accepted, before>>
serverVars == <<webpa, at, server, tracked, err>>
vars == <<healthVars, serverVars>>

Servers == {"health", "pprof", "primary", "alternate", "metrics"}

ErrorNoPrimaryAddress == "No primary address configured"

(***************************************************************************)
(* A WebPA value, as far as starting goes: the servers that have an        *)
(* Address, those that have both a CertificateFile and a KeyFile, those    *)
(* that name a ClientCACertFile, and those whose file cannot be read; with *)
(* it, the gatherer that Prepare is given, or Nil.                         *)
(***************************************************************************)
IsWebPA(w) ==
    /\ DOMAIN w = {"address", "certificate", "clientCA", "unreadable", "gatherer"}
    /\ \A f \in DOMAIN w \ {"gatherer"} : w[f] \subseteq Servers
    /\ w.gatherer \in {Nil, "gatherer"}
    /\ w.unreadable \subseteq w.clientCA
    /\ "health" \notin w.clientCA          \* server.Health has no such field

ASSUME \A w \in Configurations : IsWebPA(w)

\* Basic.Certificate: TLS is wanted when both files are named.
Certificate(w, s) == s \in w.certificate

\* Health.Certificate: the same of server.Health, which names no client CA.
HealthCertificate(w) == "health" \in w.certificate

\* MUTANT of ClientAuth: asked for whether TLS is on or not.
ClientAuthWithoutTLS(w, s) == s \in w.clientCA \ w.unreadable

\* Client certificates are required when TLS is on, the CA file is named,
\* and the file was read.
ClientAuth(w, s) == Certificate(w, s) /\ s \in w.clientCA \ w.unreadable

\* Basic.New: no server without an address.
New(w, s, handler) ==
    IF s \notin w.address THEN Nil
    ELSE [handler |-> handler, clientAuth |-> ClientAuth(w, s)]

\* Health.New: the monitor and its server, or neither when health has no
\* address.  A Health the caller passed in is used in place of a new one,
\* which NewHealth makes with the LogInterval of the configuration.
HealthNew(w) ==
    IF "health" \notin w.address
    THEN [monitor |-> Nil, server |-> Nil]
    ELSE [monitor |-> "health", server |-> [handler |-> "/health", clientAuth |-> FALSE]]

\* getMetricsHandler: a mux of its own that serves /metrics from the
\* gatherer given, from prometheus' default one when none is.
getMetricsHandler(gatherer) ==
    IF gatherer = Nil THEN "/metrics of DefaultGatherer" ELSE "/metrics of gatherer"

\* ListenAndServe: the server is started in a goroutine, with TLS when it
\* has a certificate; nobody waits for it.
ListenAndServe(s, secure, srv) ==
    server' = [server EXCEPT ![s] = [handler |-> srv.handler, clientAuth |-> srv.clientAuth,
                                     tls |-> secure, state |-> "starting"]]

(***************************************************************************)
(* Prepare.  The Health is a new one, made by NewHealth or by the caller,  *)
(* or one the caller has Run before it gave it to Prepare: then shutdown   *)
(* is the channel of that Run, and the Run of the Runnable does nothing.   *)
(***************************************************************************)
Init ==
    /\ webpa \in Configurations
    /\ \E ran \in BOOLEAN : H!Made(ran) /\ (ran => HealthNew(webpa).monitor # Nil)
    /\ at = "prepared"
    /\ server = [s \in Servers |-> Nil]
    /\ tracked = FALSE
    /\ err = None

-----------------------------------------------------------------------------
(* The Runnable *)

\* A step of the Runnable; a panic of the monitor ends the process, the
\* Runnable and the servers with it.
Goto(next) == H!Alive /\ at' = next

PrimaryHandler == IF tracked THEN "tracked" ELSE "primary"

\* The health server is started, and only then the monitor.
StartHealth ==
    /\ at = "prepared"
    /\ IF HealthNew(webpa).monitor # Nil /\ HealthNew(webpa).server # Nil
       THEN ListenAndServe("health", HealthCertificate(webpa), HealthNew(webpa).server) /\ Goto("run")
       ELSE UNCHANGED server /\ Goto("pprof")
    /\ UNCHANGED <<webpa, tracked, err, healthVars>>

\* MUTANT of RunHealth: the handler is wrapped and the monitor is not run.
RunHealthForgotten ==
    at = "run" /\ tracked' = TRUE /\ Goto("pprof") /\ UNCHANGED <<webpa, server, err, healthVars>>

\* healthHandler.Run, and the primary handler wrapped in the tracker.
RunHealth ==
    at = "run" /\ H!Run /\ tracked' = TRUE /\ Goto("pprof") /\ UNCHANGED <<webpa, server, err>>

\* A server that is started when it has an address and passed over when
\* it has none.
Start(s, handler, next) ==
    /\ IF New(webpa, s, handler) # Nil
       THEN ListenAndServe(s, Certificate(webpa, s), New(webpa, s, handler))
       ELSE UNCHANGED server
    /\ Goto(next)
    /\ UNCHANGED <<webpa, tracked, healthVars>>

StartPprof ==
    at = "pprof" /\ Start("pprof", "DefaultServeMux", "primary") /\ UNCHANGED err

\* MUTANT of StartPrimary: a missing primary address is passed over.
StartPrimaryOptional ==
    at = "primary" /\ Start("primary", PrimaryHandler, "alternate") /\ UNCHANGED err

\* The primary server must have an address: without one the Runnable
\* returns, with what it has started so far left running.
StartPrimary ==
    /\ at = "primary"
    /\ IF New(webpa, "primary", PrimaryHandler) # Nil
       THEN Start("primary", PrimaryHandler, "alternate") /\ UNCHANGED err
       ELSE /\ err' = ErrorNoPrimaryAddress /\ Goto("returned")
            /\ UNCHANGED <<webpa, server, tracked, healthVars>>

StartAlternate ==
    at = "alternate" /\ Start("alternate", PrimaryHandler, "metrics") /\ UNCHANGED err

StartMetrics ==
    at = "metrics" /\ Start("metrics", getMetricsHandler(webpa.gatherer), "returned") /\ err' = Nil

-----------------------------------------------------------------------------
(* The goroutines ListenAndServe starts, and what reaches the servers *)

Listening(s) == server[s] # Nil /\ server[s].state = "listening"

\* e.ListenAndServe() binds and serves, or returns an error that is logged.
Serve(s) ==
    /\ H!Alive /\ server[s] # Nil /\ server[s].state = "starting"
    /\ \E outcome \in {"listening", "failed"} :
          server' = [server EXCEPT ![s].state = outcome]
    /\ UNCHANGED <<webpa, at, tracked, err, healthVars>>

\* GET /health
HealthRequest(c) ==
    /\ Listening("health")
    /\ H!ServeHTTP(c)
    /\ UNCHANGED serverVars

\* A request to the application, through the tracker when there is one.
TrackedRequest(c) ==
    /\ \E s \in {"primary", "alternate"} : Listening(s) /\ server[s].handler = "tracked"
    /\ H!SendUpdate(c)
    /\ UNCHANGED serverVars

\* The application adds a listener to the Monitor Prepare gave it.
AddStatsListener(c, l) ==
    /\ HealthNew(webpa).monitor # Nil
    /\ H!AddStatsListener(c, l)
    /\ UNCHANGED serverVars

\* The steps of the monitor and of the calls that are under way.
HealthStep ==
    /\ \/ H!Shutdown
       \/ \E c \in Callers : H!SendEvent(c) \/ H!ServeReturn(c)
       \/ H!MonitorStart
       \/ H!MonitorShutdown
       \/ H!MonitorEvent
       \/ H!MonitorTick
    /\ UNCHANGED serverVars

Runnable ==
    \/ StartHealth
    \/ RunHealth
    \/ StartPprof
    \/ StartPrimary
    \/ StartAlternate
    \/ StartMetrics

Next ==
    \/ Runnable
    \/ \E s \in Servers : Serve(s)
    \/ \E c \in Callers :
          \/ HealthRequest(c)
          \/ TrackedRequest(c)
          \/ \E l \in Listeners : AddStatsListener(c, l)
    \/ HealthStep

Spec == Init /\ [][Next]_vars

-----------------------------------------------------------------------------
(* Properties *)

Started == {s \in Servers : server[s] # Nil}

TypeOK ==
    /\ H!TypeOK
    /\ webpa \in Configurations
    /\ at \in {"prepared", "run", "pprof", "primary", "alternate", "metrics", "returned"}
    /\ server \in [Servers -> {Nil} \cup
                     [handler : {"/health", "DefaultServeMux", "primary", "tracked",
                                 getMetricsHandler(Nil), getMetricsHandler("gatherer")},
                      clientAuth : BOOLEAN, tls : BOOLEAN,
                      state : {"starting", "listening", "failed"}]]
    /\ tracked \in BOOLEAN
    /\ err \in {None, Nil, ErrorNoPrimaryAddress}
    /\ Started \subseteq webpa.address
    \* client certificates are only ever asked for over TLS
    /\ \A s \in Started : server[s].clientAuth => server[s].tls

(***************************************************************************)
(* A request to the application never blocks in the RequestTracker: the    *)
(* Runnable runs the health monitor (webpa.go:248) before it starts the    *)
(* primary and the alternate server (webpa.go:259-269), so the events      *)
(* channel exists by the time a tracked request sends its update.          *)
(***************************************************************************)
TrackerNeverBlocks ==
    \A c \in Callers :
        (pc[c] = "stuck") => pending[c].kind # "update"

(***************************************************************************)
(* The application is served only by a WebPA that has a primary server:    *)
(* the alternate and the metrics server are not started when the Runnable  *)
(* returns ErrorNoPrimaryAddress (webpa.go:259-264), and a Runnable that   *)
(* returned nil has started every server that has an address.              *)
(***************************************************************************)
PrimaryFirst ==
    /\ Started \cap {"alternate", "metrics"} # {} => "primary" \in webpa.address
    /\ at = "returned" =>
         IF err = Nil
         THEN Started = webpa.address
         ELSE Started = webpa.address \cap {"health", "pprof"}

(***************************************************************************)
(* Closing the shutdown channel stops the monitor and none of the servers  *)
(* (webpa.go:244-277 starts them, nothing stops them), so a request that   *)
(* comes later sends on the events channel the monitor closed and panics   *)
(* (health.go:61, 90).  That is the only way a request panics: never while *)
(* the monitor runs, and never before the shutdown channel was closed.     *)
(***************************************************************************)
PanicOnlyAfterShutdown ==
    \A c \in Callers : pc[c] = "panicked" => shutdown /\ monitor = "stopped"

(***************************************************************************)
(* A request to /health is answered (health.go:114-135) once the health    *)
(* server that Prepare configured is listening (webpa.go:245-248): no      *)
(* request is left waiting on the monitor for ever.                        *)
(***************************************************************************)
HealthRequestNeverBlocks ==
    \A c \in Callers :
        (pc[c] = "stuck") => pending[c].kind # "serve"

=============================================================================
