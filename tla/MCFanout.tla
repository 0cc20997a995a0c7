------------------------------ MODULE MCFanout ------------------------------
(***************************************************************************)
(* Fanout for model checking: two inbound requests, up to two endpoints,   *)
(* and a handful of options and configurations chosen so that every        *)
(* default, both limits and both timeouts come into play.  Durations are ticks; the default fanout  *)
(* timeout is longer than the default client timeout, as 45s is than 30s.  *)
(* The default limits admit both requests, as 10000 and 1000 would.        *)
(***************************************************************************)
EXTENDS Fanout, TLC

CONSTANTS r1, r2

MCRequests == {r1, r2}
MCBadURLs  == {"%zz"}

Options(eps, fto, cto, mc, c, mw) ==
    [Method |-> "", Endpoints |-> eps, Authorization |-> "", MaxIdleConnsPerHost |-> 0,
     FanoutTimeout |-> fto, ClientTimeout |-> cto, MaxClients |-> mc, Concurrency |-> c,
     Middleware |-> mw]

\* Concurrency below maxClients, as the options' comment asks for; the
\* fanout times out after the client does.
Tight    == Options(<<"a", "b">>, 2, 1, 2, 1, <<>>)
\* maxClients of one, an endpoint listed twice, a custom middleware, and a
\* fanout timeout shorter than the client's.
Inverted == Options(<<"a", "a">>, 1, 2, 1, 2, <<Middleware("Custom", 0)>>)
\* Every field unset.
Unset    == Options(<<>>, 0, 0, 0, 0, <<>>)
\* An endpoint that does not parse.
Broken   == Options(<<"a", "%zz">>, 1, 1, 1, 1, <<>>)

Configuration(eps, fto, c) ==
    [Endpoints |-> eps, Authorization |-> "secret", FanoutTimeout |-> fto, Concurrency |-> c]

\* A Configuration with one endpoint and room for one fanout.
Single == Configuration(<<"a">>, 1, 1)
\* A Configuration with nothing but the token set: no endpoint at all.
Bare   == Configuration(<<>>, 0, 0)

MCOptionSpace == {Nil, Tight, Inverted, Unset, Broken, Single, Bare}

(***************************************************************************)
(* The inbound request and the application's functions, with the headers   *)
(* and the names of requestResponse_test.go: names spelled in three ways,  *)
(* a header without values, a name no request has, a path variable, and a  *)
(* path to override the endpoint's.  The downstream answers with a         *)
(* Content-Type, a header that is returned and one that is not.            *)
(***************************************************************************)
MCCanonical ==
    [n \in {"Content-Type", "X-Something", "X-Test", "X-Does-Not-Exist",
            "X-Test-1", "X-Test-2", "X-Test-3"} |-> n]
    @@ ("x-test-1" :> "X-Test-1") @@ ("x-TesT-2" :> "X-Test-2") @@ ("X-TEST-3" :> "X-Test-3")

MCInbound ==
    [header |-> [n \in {"Content-Type", "X-Something", "X-Test-1", "X-Test-2", "X-Test-3"} |->
                   CASE n = "Content-Type" -> <<"text/plain">>
                     [] n = "X-Test-2" -> <<"foo", "bar">>
                     [] n = "X-Test-3" -> <<>>
                     [] OTHER -> <<"foo">>],
     vars   |-> [test |-> "foobar"],
     body   |-> "here is some lovely content"]

MCApplication ==
    [before   |-> <<ForwardHeaders(<<"X-Does-Not-Exist", "x-test-1">>),
                    UsePath("/foo"),
                    ForwardVariableAsHeader("test", "X-Test"),
                    ForwardVariableAsHeader("missing", "X-Something"),
                    ForwardHeaders(<<"X-TEST-3", "x-TesT-2">>),
                    UsePath("/api/v1/device/foo/bar")>>,
     after    |-> <<ReturnHeaders(<<"X-Does-Not-Exist", "x-test-1">>),
                    ReturnHeaders(<<"X-TEST-3", "x-TesT-2">>)>>,
     response |-> [a |-> [header |-> [n \in {"Content-Type", "X-Something", "X-Test-1"} |->
                                        IF n = "Content-Type" THEN <<"text/plain">> ELSE <<"foo">>]]]]

MCExpected ==
    [replica |-> [header  |-> [n \in {"Content-Type", "X-Test", "X-Test-1", "X-Test-2"} |->
                                 CASE n = "Content-Type" -> <<"text/plain">>
                                   [] n = "X-Test" -> <<"foobar">>
                                   [] n = "X-Test-2" -> <<"foo", "bar">>
                                   [] OTHER -> <<"foo">>],
                  body    |-> "here is some lovely content",
                  path    |-> "/api/v1/device/foo/bar",
                  rawPath |-> ""],
     answer  |-> [a |-> [n \in {"Content-Type", "X-Test-1"} |->
                           IF n = "Content-Type" THEN <<"text/plain">> ELSE <<"foo">>]]]

\* Tight with a single endpoint.
Narrow   == Options(<<"a">>, 2, 1, 2, 1, <<>>)

\* For liveness, where symmetry may not be used: options with one client,
\* one that fills Concurrent and one that fills Busy.
MCLiveOptionSpace == {Narrow, Inverted, Bare}

Symmetry == Permutations(MCRequests)
=============================================================================
