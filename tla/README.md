# webpa-common: TLA+ models

TLA+ models of the stateful and concurrent parts of Comcast/webpa-common, checked
with TLC. `spec.md` describes the request-fanout core and its webhook store; the
source files under `src/` hold the WRP fanout constructor, the health monitor, the
device gate, the server bootstrap, the remote-backed webhook store and the tests of
the in-memory one, the authorization handler with the keyserver that issues its
tokens, and the validator of SNS signatures. Every definition of a module is
translated from the source lines that `PROJECT.json` names under `map`; where the
code of a component is not among the source files, it is modelled from `spec.md`
and marked `spec_modelled`.

## 1. Inventory

| component | source | state | operations | hard behaviour |
|---|---|---|---|---|
| WRP fanout options, `NewFanoutEndpoint` | `wrp/wrphttp/fanout.go` | an immutable options value | nine accessors with defaults, `urls`, `NewFanoutEndpoint` (endpoint clients, chain Logging, Busy, Timeout, Concurrent, custom) | zero and negative values read as unset; duplicate endpoints collapse in a map; a bad URL fails the constructor |
| fanout engine and middleware | not in `src/`; spec 4.4-4.6 | two limiter counters, per request: position in the chain, deadline, replicas, result channel, answer | arrive, enter each middleware, dispatch, replica completes or aborts, receive, engine timeout, unwind, return, clock tick | replicas race each other, the fanout deadline and the client timeout; counters released on every path; first success wins |
| health monitor | `health/health.go` | `sync.Once`, events channel (nil, open, closed), stats, listeners | `New`, `Run`, the monitor's start (`time.NewTicker`), `SendEvent`, `AddStatsListener`, stat updates, `ServeHTTP`, monitor select (shutdown, event, tick) | send on a nil or closed channel; a request queued when shutdown is selected; an interval that is not positive; `Run` twice |
| device gate | `device/devicegate/filter.go`, `filterHandler.go` | filter store (key to set of values) under a RW lock, allowed-filter set | `VisitAll`, `GetFilter`, `SetFilter`, `DeleteFilter`, `GetAllowedFilters`, `AllowConnection`, handler `ServeHTTP` (GET, POST/PUT, DELETE) | handler requests interleave with each other and with connecting devices; the handler leaves the gate between its update and its answer; malformed and nested values; claims versus metadata map |
| webhook store: contract | spec 4.7 | the map, snapshots on their way | push, remove, expire, compute a snapshot, deliver it | what a listener may be told |
| webhook store: `hookStorage` | `webhookStore/inmemStore_test.go` | map under a lock, listener | `Push`, `Remove`, `GetWebhook`, `SetListener`, `Stop`, `hookListener.Update` | the snapshot is taken and delivered outside the lock that guarded the change; the listener is written without the lock and read twice |
| webhook store: `YggdrasilClient` | `webhookStore/yggdrasil.go` | ticker goroutine, stop channel, listener | `CreateYggdrasilStore`, pull on tick, `GetWebhook`, `Push`, `Remove`, `Stop`, `SetListener` | remote calls that fail, are lost, or are applied and then lost; URL construction; `Stop` twice |
| webhook store: `InMem` | not in `src/` (tests only); spec 3, 4.7, 5, 8 | map from id to subscription and expiry under a mutex, listener, sweeper goroutine | `Push`, `Remove`, `GetWebhook`, `SetListener`, `Stop`, the sweeper's tick, `Listener.Update` | expiry racing a push that renews; the instant the TTL ends; callbacks outside the mutex; `Stop` against a sweep |
| server bootstrap | `server/webpa.go` | five servers, the Runnable's position, the monitor | `Basic.New`, `Health.New`, `ListenAndServe`, `Prepare`, the Runnable's six steps | servers start serving while the Runnable is still starting others; partial start; unreadable CA file; a Health the caller has Run already |
| xhttp fanout configuration | `xhttp/fanout/configuration.go` | an immutable configuration value | four accessors with defaults, `NewChain` (chain Timeout, Populate, Busy) | zero and negative values read as unset; no default for the endpoints, so a fanout may have none; the timeout sits outside the limiter, the reverse of the WRP chain |
| authorization handler | `secure/handler/authorizationHandler.go` | the `AuthorizationHandler` value, the copies its handlers captured, the denial counter | `Decorate`, `DefineMeasures`, the handler (`headerName`, `forbiddenStatusCode`, `populateContextValues`, `WriteJsonError`) | a handler works on the copy made by `Decorate`; a verdict with an error; claims of any type |
| keyserver issue handler | `secure/tools/cmd/keyserver/issueHandler.go` | none between requests | `SimpleIssue`, `IssueUsingBody`, `NewIssueRequest`, `NumericDate` and `SigningMethod` parsing, `IssueRequest.SigningMethod`, `AddToHeader`, `AddToClaims`, `issue` | the body is read by `ParseForm` and by `ReadAll`; the order in which body claims and keyserver claims are applied |
| SNS signature validation | `webhook/aws/signature_validation.go` | none between calls; a GET in the middle of each | `Validate`, `base64Decode`, `getPemFile`, `getCerticate`, `generateSignature` | the answer of the GET is anything its host serves at that moment; a body without a PEM block; subject in or out of the signed text |
| request and response functions | tests in `xhttp/fanout`; spec 4.1-4.3 | none | `DefaultDecoder`, `DefaultEncoder`, `ForwardHeaders`, `UsePath`, `ForwardVariableAsHeader`, `ReturnHeaders` | order of the functions; header names in any spelling; headers of the winner only |
| bookkeeping functions | tests in `logging/bookkeeping` | none | pure functions | not modelled (section 8) |

Interactions: `Prepare` owns a health monitor and routes `/health` and tracked
application requests to it (modelled: `Server` instantiates `Health`);
`NewFanoutEndpoint` and `NewChain` configure the engine (modelled: `Fanout`
extends `FanoutOptions` and instantiates `FanoutConfiguration`); the engine
applies the request and response functions (modelled: `Fanout` extends
`RequestResponse`); `hookStorage` and `InMem` promise the store contract
(modelled: `HookStorage` and `InMem` each implement `StoreContract`); the keyserver issues the tokens that
clients present to an `AuthorizationHandler` (modelled: `Secure` instantiates
`IssueHandler` and `AuthorizationHandler`). The webhook store feeds the fanout's
endpoint list in the platform; `NewFanoutEndpoint` takes its endpoints from the
options, so no module composes the two.

## 2. Modules and how they correspond to the code

| module | lines | models |
|---|---|---|
| `FanoutOptions` | 129 | `fanout.go`: each accessor is an operator of the same name; `NewFanoutEndpoint(o)` is the record the constructor builds (error, method, endpoint set, header, client timeout, chain); `Timeout(o)` and `Concurrent(o)` are the two middleware of the chain that take an option of their own |
| `FanoutConfiguration` | 44 | `configuration.go`: the accessors under their names; `NewChain(c)` is the chain as a sequence of `[kind, arg]` |
| `Fanout` | 466 | requests through the chain the constructor built and the engine of spec 4.4-4.6. `Init` evaluates `New` on one value of `OptionSpace`: `NewFanoutEndpoint` for options, the handler behind `NewChain` for a `Configuration`; one action per middleware and per engine step; `Dispatch` answers 503 at once when there is no endpoint; under a `Configuration` a replica carries `NewReplica` of the inbound request and a success carries `Outbound` of the winning response |
| `RequestResponse` | 91 | the functions of spec 4.1-4.3 as operators: a header is a function from canonical names to lists of values, `Canonical` is the conversion of a name as spelled, a request or response function is a record of its kind and arguments, `NewReplica` and `Outbound` fold them in declaration order |
| `Health` | 323 | `health.go`. `Made(ran)` is a Health as `New` made it and, for `ran`, as a first `Run` left it; `statDumpInterval` is the interval given to `New`; `chan` is the state of `h.events`, `queue` its buffer; `SendEvent(c)` is the send with Go's semantics (nil blocks for ever, full blocks, closed panics); `Run` runs `StartMonitor` the first time only; `MonitorStart` is the goroutine's first statement, `NewTicker`, which panics for an interval that is not positive; `HasRoom` is the capacity of the channel; `MonitorShutdown` (with the deferred close of the channel), `MonitorEvent`, `MonitorTick` are the cases of the monitor's select. A panic of the monitor ends the process: every action has the guard `Alive`, and `Ended` is what is left |
| `DeviceGate` | 308 | `filter.go` and `filterHandler.go`. `FilterStore` is the filter map, each `Serve*` action one branch of the handler with its status code; an update is two steps, `ServeSet` or `ServeDelete` and then `Respond`, with `update[c]` the filter the request changed; `Filters` is what `filtersToString` reads with `VisitAll`; `SetFilter` and `DeleteFilter` are the store after the call; `Connect` is `AllowConnection`, `Connected` its caller taking the answer |
| `StoreContract` | 68 | the abstract store: `hooks`, the snapshots `inflight`, what each listener has `seen`; a change may snapshot the map it leaves, and subscriptions may expire |
| `HookStorage` | 225 | `hookStorage` of `inmemStore_test.go`; `Push` and `Remove` are four steps (`Changes` under the lock, `CheckListener`, `Snapshot` under the lock, which copies what `Read` finds, `Notify` outside it), because that is where other goroutines get in between; `SetListener` takes a listener or nil (`Settable`), and `Notify` on a listener that has become nil is the panic that ends the process (`Alive`) |
| `InMem` | 258 | the TTL store of spec 4.7. `entries` maps an id to its secret and the ticks `left` of its TTL; `Push`, `Remove` and `Sweep` are one critical section each (`Changes`: the map, the snapshot and the listener read under the mutex) followed by `Notify` outside it; `due` counts down to the sweeper's next tick; `Tick` is time passing |
| `Yggdrasil` | 173 | `yggdrasil.go`; `Sprint` concatenates as `fmt.Sprint` does, `NewRequest` refuses a URL with an invalid escape as `url.Parse` does, `Fetch` enumerates the outcomes of the HTTP exchange |
| `Server` | 285 | `webpa.go`; `Init` is `Prepare` of one configuration with a Health that is new or that its caller has Run; the Runnable is the sequence `StartHealth`, `RunHealth`, `StartPprof`, `StartPrimary`, `StartAlternate`, `StartMetrics`, tracked by `at`; `Certificate` and `HealthCertificate` say whether a server is started with TLS, `ClientAuth` whether it asks for client certificates; `Serve(s)` is the goroutine of `ListenAndServe`; `getMetricsHandler` names the handler of the metrics server by its gatherer |
| `Credentials` | 33 | the values that travel between client, keyserver and service: bodies, query texts, header values, tokens |
| `IssueHandler` | 193 | `issueHandler.go`. `SimpleIssue(request)` and `IssueUsingBody(request)` are operators from a request to the response `[code, token]`, with every early return of the code an error of 400 or 500; `NumericDate` tells the forms of a date apart (an integer, a duration, a date in one of `supportedNumericDateLayouts`), and `Compute` is defined and, as in the code, called by nobody; `UnmarshalJSON` is the claims made of the body; `ParseForm` says what `request.ParseForm` does to query and body; `Serve(c, request)` answers a request and records the token in `issued` |
| `AuthorizationHandler` | 200 | `authorizationHandler.go`. `a` is the value the application holds, `decorated[i]` the copy the i-th handler captured; `ServeHTTP(h, request, verdict)` is the closure's decision (`Accepts` is its test of the validator's answer, `Subject` the client id `populateContextValues` finds), `Handle` the closure run for one request with its counter, which is that of `measures(h)`; the validator's answer is any `[valid, err]` |
| `Secure` | 81 | the two together: `Handle` takes its requests from a fixed set and from `Presented`, the headers that carry a token of `issued` |
| `SNSValidation` | 182 | `signature_validation.go`. `Validate(v, m)` runs to the GET, `Fetched(v)` takes what the URL serves now and runs `AfterFetch` to the end; `Rotate(u)` is the host changing what it serves; `NotRSA` and `Verdict` are its last two returns; `returned[v]` is `(ok, err)` or the panic |
| `MC*` | | constants and model values for TLC |

Data is abstracted to what the properties tell apart: requests, ids, secrets, keys
and values are model values; durations are ticks of a clock; JSON, logging and
metrics are left out. Conversions that decide control (URL building and parsing,
base64 of the id, the type switch on a claim's value) are modelled by what they do.

## 3. Runs

| run | cfg | result | what it shows |
|---|---|---|---|
| `fanout_safety` | `MCFanout.cfg` | holds | counters of Busy and Concurrent are balanced on every path (`CountersBalanced`), admission never exceeds either limit (`AdmissionBounded`), every answer is justified by what the replicas did or by the rejection that produced it (`ResponseJustified`), an answer never changes (`AnswerIsFinal`); for the chain of `NewFanoutEndpoint` and for the chain of `NewChain`. Under a `Configuration` every replica carries the body, the Content-Type, the forwarded headers and variables and the path of the last `UsePath` (`ReplicasCarryTheRequest`), and a success is the response of a replica that succeeded and whose result the engine took, with the returned headers of that response, or none for any other answer (`AnswerFromTheWinner`) |
| `fanout_liveness` | `MCFanoutLive.cfg` | holds | every request that entered is answered and all its replicas have flushed their span (`AnsweredAndSpansFlushed`) |
| `health` | `MCHealth.cfg` | holds | no event is lost or run twice while the monitor runs (`EventsConserved`), which a second `Run` that made a new channel would break; a served snapshot holds every update accepted before the request (`ServedStatsAreCurrent`); with a positive interval an accepted `/health` request is answered and a listener hears of the stats unless the monitor is shut down (`AcceptedIsServed`). With an interval of zero the monitor panics when it starts, and the safety properties hold up to there |
| `devicegate` | `MCDeviceGate.cfg` | holds | the store holds only what valid requests put there (`StoreWellFormed`); every decision of `AllowConnection` agrees with a reference definition over the filters at that moment (`DecisionMatchesFilters`); the answer to a POST, PUT or DELETE shows the filter as that request left it, unless another client updated the same key in between (`AnswerShowsTheUpdate`) |
| `hookstorage` | `MCHookStorage.cfg` | holds | `HookStorage` implements `StoreContract` under the refinement mapping `inflight <- the snapshots of clients at "notify"` (`ImplementsContract`); a snapshot on its way was taken after its caller's own change (`SnapshotFollowsChange`); `Update` is called on a nil listener only when another client called `SetListener(nil)` between the caller's check and its call (`PanicOnlyByRace`) |
| `hookstorage_fresh` | `MCHookStorageFresh.cfg` | violated | after all calls have returned, the listener can hold a snapshot older than the map, also when the listener is registered once and never taken away (`Settable` is the one listener) |
| `inmem` | `MCInMem.cfg` | holds | `InMem` implements `StoreContract` under the mapping `hooks <- the subscriptions not expired`, `inflight <- the snapshots at "notify"` (`ImplementsContract`); `GetWebhook` returns every subscription pushed less than a TTL ago and none pushed more than a TTL ago, removed or never pushed (`ReturnsTheLive`); the listener of a running store eventually stops seeing an expired subscription (`ExpiryReachesListener`) |
| `yggdrasil_push` | `MCYggdrasil.cfg` | violated | `Push` never sends a request: the URL built with `fmt.Sprint` is refused |
| `server` | `MCServer.cfg` | holds | a tracked request never blocks on a monitor that was not run (`TrackerNeverBlocks`); the servers started agree with what the Runnable returned (`PrimaryFirst`); client certificates are asked for only over TLS (`TypeOK`); a request panics only after the shutdown channel was closed and the monitor has stopped, never while the monitor runs (`PanicOnlyAfterShutdown`); all of it for a Health that is new and for one the caller has Run, with an interval of a second and of zero |
| `server_health_request` | `MCServerHealth.cfg` | violated | the health server listens before the monitor is run; a `/health` request in between blocks for ever |
| `secure` | `MCSecure.cfg` | holds | every token is signed with the key its kid names and carries the keyserver's issuer and time whatever the body says (`IssuedByTheKeyserver`); a token holds no claim that neither the body nor the keyserver names, and every claim of a body that could still be read, with the body's value (`BodyClaimsIssued`; whether `exp` and `nbf` are among the claims is left open, see the finding at `issueHandler.go:146`); the delegate behind a validator sees exactly the requests whose header parsed and whose verdict was true without an error (`DelegateOnlyIfValid`); denials are counted by the handlers decorated after `DefineMeasures` and by no other (`CountedAsDecorated`); the client id given to the delegate is the string subject of the issued token presented, else `N/A` (`ClientIDFromToken`) |
| `sns` | `MCSNSValidation.cfg` | holds | `Validate` answers true only for a signature made with the key of the certificate fetched for this message, over the message as it arrived, subject included (`ValidOnlyIfSigned`); it never answers false without an error (`RefusalHasAReason`) |

Every property of a passing run has a mutant in `PROJECT.json`: a plausible bug in
a mapped definition under which TLC finds the property violated. Where the bug is
in one test or one value of a handler, that test or value is a definition of its
own (`HasRoom`, `Accepts`, `Subject`, `Collecting`, `Concurrent`, `NotRSA`), and
the mutant stands next to it.

### Findings

The violated runs and the divergences met while modelling are listed in
`PROJECT.json` under `findings`. In short:

- `webpa.go:247`: the health server is started before `healthHandler.Run`.
- `webpa.go:244-277`: the shutdown channel stops the monitor and no server, so
  a request that comes after shutdown panics on the closed events channel
  (`PanicOnlyAfterShutdown` states when it cannot).
- `health.go:61`, `health.go:123`: `SendEvent` blocks for ever before `Run` and
  panics after shutdown, so the comment "the listener will eventually receive
  events" holds only for a monitor that runs (`AcceptedIsServed` states what
  does hold); `ServeHTTP` waits for ever when shutdown overtakes it.
- `health.go:87`: `time.NewTicker` panics for an interval that is not positive,
  which is what a `server.Health` without `LogInterval` gives to `health.New`;
  the panic comes in the monitor's goroutine, after `Run` has returned nil.
- `filter.go:110`: the two `MatchResult` locations are swapped (`AllowConnection`
  in `DeviceGate` returns them as the code does; a unit test of one refusal
  shows it, so no run is spent on it); `filter.go:159`: `case interface{}` shadows the list case, and a list-valued
  claim panics as a map key; `filter.go:75`: unhashable filter values panic;
  `filterHandler.go:79`: Content-Type set after `WriteHeader`.
- `inmemStore_test.go:194`: listener updates can arrive out of order; the
  listener is read twice without the lock, and a `SetListener(nil)` in between
  makes `Update` a call on nil (`PanicOnlyByRace` states that it takes a second
  goroutine).
- `InMem` (specification only): the data model removes a subscription when
  `now > expires-at`, the sweeper when `expires-at <= now`, so the instant the
  TTL ends is answered either way; the listener's last snapshot need not be the
  latest; what the store does in front of a backend is not said.
- `yggdrasil.go:114`, `:80`, `:136`: `fmt.Sprint` used as `Sprintf`; the
  response is read from `request.Body`; `Remove` does not encode the id.
- `fanout.go:150`, `:82`, `:199`: zero limits mean default; an empty endpoint
  list means the default endpoint; duplicate endpoints collapse.
- `webpa.go:171`, `:97`, `:285`: `Health.New` drops the caller's health; an
  unreadable CA file disables client authentication silently; the metrics
  server has a mux of its own, where the comment on `Prepare` says it uses
  `http.DefaultServeMux`.
- `signature_validation.go:136`: a body without a PEM block makes `Validate`
  panic on the nil certificate; `:125`: the certificate is taken from the URL
  the message names, unchecked, so a self-signed message is answered true.
- `issueHandler.go:146`: `exp` and `nbf` are parsed and never put into the
  claims; `:123`: `sub` and `aud` are tagged `scheme:` and never decoded; `:226`: a body declared as a form is consumed by `ParseForm`, and the
  token is issued without the claims of the document.
- `authorizationHandler.go:178`: the `[]string` assertion never holds for a
  decoded token, so `PartnerIDs` is never set; `:80`: measures defined after
  `Decorate` count nothing for the handlers that exist.

## 4. Bounds, and why they are enough

| run | bounds | why |
|---|---|---|
| fanout | 2 requests; the inbound request and the six request and two response functions of the tests' tables (a header that is absent, one spelled in three ways, one without values, a variable that is missing, `UsePath` twice); options `Nil`, `Tight` (limits 2 and 1, two endpoints), `Inverted` (maxClients 1, fanout timeout below client timeout, one endpoint twice, a custom middleware), `Unset` (all zero), `Broken` (bad URL); configurations `Single` (one endpoint, concurrency 1, timeout 1 tick) and `Bare` (nothing set but the token: no endpoint, default limit and timeout); default limits 2, default timeouts 3 and 2 ticks | two requests are what it takes to fill a limit of one and to contend for a limit of two; two endpoints give a winner and a loser; the timeouts are ordered both ways; `Single` lets the deadline pass while the other request is refused by Busy, `Bare` is the fanout without endpoints; the defaults keep the order of the code's (45s over 30s, 10000 over 1000) |
| fanout liveness | options `Narrow`, `Inverted`, configuration `Bare`; no symmetry | symmetry is unsound for liveness; one option fills Concurrent, the other Busy; with `Bare` no replica exists whose result could answer the request |
| health | 2 callers, 2 listeners, `EventCap = 2`, `MaxCalls = 2` per caller, intervals 0 and 1 | the buffer fills (four calls, capacity two), overtaking needs two events, `Run` twice needs two callers; `NewTicker` tells a positive interval from any other, and no other use of the interval changes what happens (a tick may come at any time) |
| devicegate | 2 keys, 2 scalars, 2 clients, 3 devices, every updating method with every body shape (no, one and two values, a nested one), GET and PATCH once each, allowed list off and `{k1}` | a device with different values in claims and map under one key, one in the map only, one list-valued; a key inside and outside the allowed list; two clients are what it takes for an update to be overtaken before it is answered; a filter of two values replaced by one of one tells replacing from adding |
| hookstorage | 2 clients, 3 calls each, 2 ids, 2 secrets, 2 listeners and nil | the stale-update race needs two clients and two secrets for one id; a third call lets a listener be replaced, or taken away, in between |
| inmem | 2 clients, `MaxCalls = 2` each, 2 ids, 2 secrets, 1 listener, `TTL = 2` ticks, `CheckInterval = 1` tick | a TTL of two ticks has an instant before, at and after the expiry; two clients let a renewing `Push` and a `Remove` race the sweeper and each other's callbacks; two secrets tell a renewed subscription from the old one; a second listener adds states and no new order of events |
| yggdrasil | 1 client, 1 id, 1 secret, `MaxCalls = 2` | every operation fails before the network; more actors add nothing |
| server | 4 configurations (two with a gatherer, two without), a Health that is new or already Run, intervals 0 and 1, 2 callers, 1 listener, `EventCap = 1`, `MaxCalls = 2` | each configuration takes a different path of the Runnable; two callers fill the one-slot buffer; a Health already Run has its channel before any server listens |
| secure | 1 caller of the keyserver with 14 requests (every error path of both handlers, a body with a string subject, one with a number, one declared as a form; every query with an `nbf` date in RFC 822), a key store with an RSA key and another; 1 request to the service, served by one of up to 2 handlers (`MaxHandlers`), from 3 configurations (default header and code, custom header and 401, no validator), with 5 fixed headers and every issued token under both header names, and all 4 verdicts; `IgnoreUnknownKeys = TRUE` | two handlers are what it takes to have one decorated before and one after `DefineMeasures`; the properties are about one request each, and the keyserver keeps no state between requests; the decoder setting is the one under which a form body still yields a token |
| sns | 2 validators, 2 URLs (Amazon's serves its certificate or fails; the other serves a certificate, one with a key that is not RSA, a block that is no certificate, or a page), 28 messages (subject none or `update`; signed by either key over the subject none, `update` or `alarm`; or not base64) | two validators let a fetch be overtaken by another validation and by a change of what is served; the three signed subjects give a subject added, removed and changed |

`MaxCalls` caps the number of calls a caller makes and `MaxHandlers` the calls of
`Decorate`; they are the only bounds on otherwise unbounded behaviour and are
guards of the calling actions. The fanout's
clock stops at the largest deadline in force. `InMem` keeps time relative: `left`
and `due` count down and stop below zero and at zero, the age of a push stops
above the TTL, so that time passes for ever in a finite state space.

## 5. Fairness

- `Fanout`: weak fairness of each request's own steps, of the clock, and of the
  abort of a replica whose context is done or whose client timeout ran out. The Go
  scheduler runs runnable goroutines and timers fire. No fairness obliges a
  downstream to answer or a request to arrive.
- `Health`: weak fairness of a caller's send and receive, of the start of the
  monitor's goroutine and of the three cases of its select (the scheduler runs
  a goroutine that was started, and Go chooses among ready cases at random, so
  none is passed over for ever). Nothing obliges anyone to call `Run` or to shut down.
- `InMem`: weak fairness of time passing, of the sweeper's tick and of a
  pending callback. The sweeper is a goroutine on a ticker and a callback is
  the next statement of a goroutine that has left the mutex. Clients owe no
  calls, and `Stop` ends the sweeper's obligation.
- `DeviceGate`, `HookStorage`, `Yggdrasil`, `Server`, `Secure`, `SNSValidation`:
  safety only, no fairness.

## 6. Deadlock

Deadlock is checked in every run but the Server's and the Yggdrasil's. A WebPA
without a health address has nothing left to do in the model once its servers are
up or failed, and a Yggdrasil client whose ticker goroutine panicked or was stopped
likewise; both may really stop. `HookStorage` ends in the stuttering action
`Finished` when every client has made its calls or the process has ended in a
panic, and `Health` in `Ended` when its monitor has panicked. The keyserver and the SNS
validators can always take another request, and in `InMem` time always passes.

## 7. Assumptions

- `health.Health.RequestTracker`, `concurrent.Runnable`, the middleware and the
  fanout engine are not among the source files. The engine and the middleware
  follow spec 4.4-4.6. Of the tracker the model assumes only that a tracked request
  sends one stats update to the monitor with `SendEvent`, the only way into the
  monitor's state that `health.go` offers.
- `ListenAndServe` of `net/http` either binds and serves or returns an error; a
  panic in a handler is recovered per request by `net/http`, a panic in a goroutine
  of the library's own ends the process.
- Updates of a listener (`hookListener.Update`, stats listeners) are atomic.
- The unsynchronised write of `h.options.listener` is seen by the other
  goroutines as one write of the whole interface value, at any moment between
  their steps; a torn read of it is not modelled.
- A Health the caller passes to `Prepare` is as `New` made it or as one `Run`
  left it: nothing was sent to it and it was not shut down before `Prepare`.
- `InMem` guards its map, its listener and the taking of a snapshot with one
  mutex and calls the listener after releasing it (spec section 5); `Remove` of
  an id that is not stored changes nothing and notifies nobody.
- The engine gives every replica the decoder's body and header before the
  request functions run, and applies the response functions and then the
  encoder to the one response that won (spec 4.1-4.4).
- `secure.ParseAuthorization` returns an error or a token with a type and a value;
  `secure.DefaultJWSParser.ParseJWS` succeeds exactly on a value that is a JWS;
  a `secure.Validator` may answer any of `(true, nil)`, `(false, nil)`,
  `(true, err)`, `(false, err)`.
- `request.ParseForm` parses the body only when it is declared as a form, reads it
  to its end, and what it finds there are keys no field of `IssueRequest` is
  tagged with; `jws` signs with an RSA key and fails with any other; the key
  store, the issuer and the clock are constants.
- `rsa.VerifyPKCS1v15` succeeds exactly when the signature was made with the
  private key of the public key given, over the text given; `pem.Decode` and
  `x509.ParseCertificate` behave as their documentation says.

## 8. Not modelled

- `InMem` in front of a backend (`WithStorage`, and the store registered as the
  backend's listener): the specification says neither what the store does with
  the backend's `Update` nor whether `Push` and `Remove` are forwarded, and the
  one test of it is sequential. The store on its own is modelled.
- The functions of `logging/bookkeeping`: only their tests are among the source
  files and the specification does not describe them; they are pure functions
  from a request or a response to log key-value pairs.
- `MetricsTool.GetCounter`: a constructor of the metrics library, without state.
- Of the request and response functions: `UsePath`'s refusal of a path that does
  not parse when the function is built; a name forwarded twice (the tables never
  repeat one, and the specification does not say whether values are replaced or
  appended); what the handler answers when the decoder fails.
- The `kid`, `exp`, `nbf` and `jti` fields of `IssueRequest` beyond their parsing
  (the code does not use them either); RSA, SHA1, base64, PEM and JWS encodings,
  which are abstracted to who made a signature over what; endpoints of a
  `Configuration` that do not parse, which the application that builds the
  handler has to refuse. In `getPemFile` a request that cannot be built and a
  GET that fails are one outcome, `TransportError`: both return the error.
- WRP and JSON encoding, logging, Prometheus wiring, TLS handshakes.
- The remote service behind `YggdrasilClient`: every operation fails while
  building its URL, so no request reaches it.
- `CreateYggdrasilStore` with a `PullInterval` that is not positive
  (`yggdrasil.go:44`, where `time.NewTicker` panics): the store is the model's
  initial state, and a store that was never constructed has no behaviour. The
  hazard is listed in `PROJECT.json` without a property.
- `FilterSet.String`, `writeFilters` and the `logger()` accessors: formatting
  and logging. The answer of the filter handler is the store itself.

## 9. Running

    tlc -workers 2 -config MCFanout.cfg MCFanout
    tlc -workers 2 -config MCServer.cfg MCServer

and likewise for each row of section 3; the largest runs (`fanout_safety`, 939 thousand
states, and `server`, 987 thousand) take one to three minutes each.
