------------------------ MODULE FanoutConfiguration ------------------------
(***************************************************************************)
(* fanout.Configuration (src/xhttp/fanout/configuration.go): the external  *)
(* configuration of a fanout, its accessors, and NewChain, which builds    *)
(* the middleware that decorates the fanout handler.                       *)
(*                                                                         *)
(* A configuration is Nil (the nil *Configuration) or a record             *)
(*   [Endpoints, Authorization, FanoutTimeout, Concurrency]                *)
(* with the conventions of FanoutOptions.                                  *)
(***************************************************************************)
EXTENDS Integers, Sequences

CONSTANTS
    Nil,                    \* the nil *Configuration
    DefaultFanoutTimeout,   \* 45s, in ticks of the model's clock
    DefaultConcurrency      \* 1000 in the code; a small stand-in here

IsConfiguration(c) ==
    /\ DOMAIN c = {"Endpoints", "Authorization", "FanoutTimeout", "Concurrency"}
    /\ DOMAIN c.Endpoints = 1..Len(c.Endpoints)
    /\ c.FanoutTimeout \in Int /\ c.Concurrency \in Int

\* Unlike the other accessors this one has no default: an unset list is
\* returned as it is, for the application to fill.
endpoints(c) ==
    IF c # Nil THEN c.Endpoints ELSE <<>>

authorization(c) ==
    IF c # Nil /\ Len(c.Authorization) > 0 THEN c.Authorization ELSE ""

fanoutTimeout(c) ==
    IF c # Nil /\ c.FanoutTimeout > 0 THEN c.FanoutTimeout ELSE DefaultFanoutTimeout

concurrency(c) ==
    IF c # Nil /\ c.Concurrency > 0 THEN c.Concurrency ELSE DefaultConcurrency

\* NewChain: the timeout outermost, then the request functions put into the
\* context, then the limit on the fanouts in flight.
NewChain(c) ==
    << [kind |-> "Timeout",  arg |-> fanoutTimeout(c)],
       [kind |-> "Populate", arg |-> 0],
       [kind |-> "Busy",     arg |-> concurrency(c)] >>

=============================================================================
