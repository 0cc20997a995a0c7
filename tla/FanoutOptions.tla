--------------------------- MODULE FanoutOptions ---------------------------
(***************************************************************************)
(* wrphttp.FanoutOptions (src/wrp/wrphttp/fanout.go): the options of a WRP *)
(* fanout, the accessor of each option with its default, and               *)
(* NewFanoutEndpoint, which turns the options into the endpoint clients    *)
(* and the middleware chain that every inbound request walks.              *)
(*                                                                         *)
(* An options value is either Nil (the nil *FanoutOptions) or a record     *)
(*   [Method, Endpoints, Authorization, MaxIdleConnsPerHost,               *)
(*    FanoutTimeout, ClientTimeout, MaxClients, Concurrency, Middleware]   *)
(* Strings are TLA+ strings ("" is Go's zero value), durations and limits  *)
(* are integers (0 is the zero value), Endpoints and Middleware are        *)
(* sequences (<<>> is the nil slice).                                      *)
(***************************************************************************)
EXTENDS Integers, Sequences, Functions

CONSTANTS
    Nil,                         \* the nil *FanoutOptions
    BadURLs,                     \* the endpoint strings url.Parse rejects
    DefaultEndpoint,             \* "http://localhost:7000/api/v2/device/send"
    DefaultMaxIdleConnsPerHost,  \* 20
    DefaultFanoutTimeout,        \* 45s, in ticks of the model's clock
    DefaultClientTimeout,        \* 30s, in ticks of the model's clock
    DefaultMaxClients,           \* 10000 in the code; a small stand-in here
    DefaultConcurrency           \* 1000 in the code; a small stand-in here

DefaultMethod == "POST"

ASSUME /\ DefaultEndpoint \notin BadURLs
       /\ DefaultMaxIdleConnsPerHost \in Nat \ {0}
       /\ DefaultFanoutTimeout \in Nat \ {0}
       /\ DefaultClientTimeout \in Nat \ {0}
       /\ DefaultMaxClients \in Nat \ {0}
       /\ DefaultConcurrency \in Nat \ {0}

\* The struct: what a non-nil options value is made of.
IsFanoutOptions(f) ==
    /\ DOMAIN f = {"Method", "Endpoints", "Authorization", "MaxIdleConnsPerHost",
                   "FanoutTimeout", "ClientTimeout", "MaxClients", "Concurrency",
                   "Middleware"}
    /\ f.MaxIdleConnsPerHost \in Int
    /\ f.FanoutTimeout \in Int /\ f.ClientTimeout \in Int
    /\ f.MaxClients \in Int /\ f.Concurrency \in Int
    /\ DOMAIN f.Endpoints = 1..Len(f.Endpoints)
    /\ DOMAIN f.Middleware = 1..Len(f.Middleware)

-----------------------------------------------------------------------------
(* The accessors: the option when it is set, its default otherwise.        *)

method(f) ==
    IF f # Nil /\ Len(f.Method) > 0 THEN f.Method ELSE DefaultMethod

endpoints(f) ==
    IF f # Nil /\ Len(f.Endpoints) > 0 THEN f.Endpoints ELSE <<DefaultEndpoint>>

authorization(f) ==
    IF f # Nil /\ Len(f.Authorization) > 0 THEN f.Authorization ELSE ""

\* url.Parse on every endpoint, in order: the first failure is the result.
urls(f) ==
    IF \E i \in DOMAIN endpoints(f) : endpoints(f)[i] \in BadURLs
    THEN [err |-> TRUE,  urls |-> <<>>]
    ELSE [err |-> FALSE, urls |-> endpoints(f)]

\* Of the transport only the pool size has a default.
transport(f) ==
    LET configured == IF f # Nil THEN f.MaxIdleConnsPerHost ELSE 0
    IN  IF configured < 1 THEN DefaultMaxIdleConnsPerHost ELSE configured

fanoutTimeout(f) ==
    IF f # Nil /\ f.FanoutTimeout > 0 THEN f.FanoutTimeout ELSE DefaultFanoutTimeout

\* MUTANT of clientTimeout: the option is taken as it is, without the default.
clientTimeoutUnguarded(f) ==
    IF f # Nil THEN f.ClientTimeout ELSE 0

clientTimeout(f) ==
    IF f # Nil /\ f.ClientTimeout > 0 THEN f.ClientTimeout ELSE DefaultClientTimeout

maxClients(f) ==
    IF f # Nil /\ f.MaxClients > 0 THEN f.MaxClients ELSE DefaultMaxClients

concurrency(f) ==
    IF f # Nil /\ f.Concurrency > 0 THEN f.Concurrency ELSE DefaultConcurrency

middleware(f) ==
    IF f # Nil THEN f.Middleware ELSE <<>>

-----------------------------------------------------------------------------
(* A middleware of the chain: its kind and the one argument it is built    *)
(* with (a limit or a duration; 0 where it has none).                      *)
Middleware(kind, arg) == [kind |-> kind, arg |-> arg]

\* The header every replica carries beside the fanout headers.
customHeader(o) ==
    IF Len(authorization(o)) > 0
    THEN [Accept |-> "application/msgpack", Authorization |-> "Basic " \o authorization(o)]
    ELSE [Accept |-> "application/msgpack"]

\* MUTANT of Timeout: the fanout's deadline is the client timeout.
TimeoutOfClient(o) == Middleware("Timeout", clientTimeout(o))

Timeout(o) == Middleware("Timeout", fanoutTimeout(o))

\* MUTANT of Concurrent: the limiter is given maxClients, as Busy is.
ConcurrentOfMaxClients(o) == Middleware("Concurrent", maxClients(o))

Concurrent(o) == Middleware("Concurrent", concurrency(o))

(***************************************************************************)
(* NewFanoutEndpoint: a configuration error when an endpoint does not      *)
(* parse; otherwise one client per distinct url.String() (the clients are  *)
(* a map keyed by it, so an endpoint listed twice yields one client), the  *)
(* shared http.Client's timeout, and the chain Logging, Busy, Timeout,     *)
(* Concurrent followed by the custom middleware, outermost first.          *)
(***************************************************************************)
NewFanoutEndpoint(o) ==
    IF urls(o).err
    THEN [err |-> TRUE]
    ELSE [err             |-> FALSE,
          method          |-> method(o),
          fanoutEndpoints |-> Range(urls(o).urls),
          customHeader    |-> customHeader(o),
          clientTimeout   |-> clientTimeout(o),
          maxIdleConns    |-> transport(o),
          chain           |-> << Middleware("Logging", 0), Middleware("Busy", maxClients(o)),
                                 Timeout(o), Concurrent(o) >> \o middleware(o)]

=============================================================================
