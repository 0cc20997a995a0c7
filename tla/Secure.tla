------------------------------- MODULE Secure -------------------------------
(***************************************************************************)
(* The keyserver and a service behind an AuthorizationHandler: clients ask *)
(* the keyserver for tokens (IssueHandler) and present what it wrote, or   *)
(* anything else, to the handlers Decorate made (AuthorizationHandler).    *)
(* The two share no state; what connects them is the token, which the one  *)
(* writes and the other reads the claims of.                               *)
(***************************************************************************)
EXTENDS Integers, Sequences, FiniteSets, TLC, Credentials

CONSTANTS
    Callers, IssueRequests, KeyStore, Issuer, Now, IgnoreUnknownKeys,   \* the keyserver's
    Requesters, Requests, Configurations, Strings, MaxHandlers,         \* the handler's
    HeaderNames,    \* the header names a client may use
    Nil

VARIABLES
    response, issued,                 \* those of IssueHandler
    a, decorated, counted, outcome    \* those of AuthorizationHandler

K == INSTANCE IssueHandler WITH Requests <- IssueRequests
A == INSTANCE AuthorizationHandler

keyserverVars == <<response, issued>>
handlerVars   == <<a, decorated, counted, outcome>>
vars == <<keyserverVars, handlerVars>>

\* What a client can put into a header once it holds a token.
Presented ==
    { [n \in HeaderNames |-> IF n = name THEN Token("Bearer", t) ELSE Missing] :
        name \in HeaderNames, t \in issued }

Init == K!Init /\ A!Init

Issue(c, request) == K!Serve(c, request) /\ UNCHANGED handlerVars

DefineMeasures == A!DefineMeasures("measures") /\ UNCHANGED keyserverVars

Decorate == A!Decorate /\ UNCHANGED keyserverVars

Handle(r, i, request, verdict) ==
    A!Handle(r, i, request, verdict) /\ UNCHANGED keyserverVars

Next ==
    \/ \E c \in Callers, request \in IssueRequests : Issue(c, request)
    \/ DefineMeasures
    \/ Decorate
    \/ \E r \in Requesters, i \in DOMAIN decorated,
          request \in Requests \cup Presented, verdict \in A!Verdicts :
          Handle(r, i, request, verdict)

Spec == Init /\ [][Next]_vars

-----------------------------------------------------------------------------
TypeOK == K!TypeOK /\ A!TypeOK

IssuedByTheKeyserver == K!IssuedByTheKeyserver
BodyClaimsIssued     == K!BodyClaimsIssued
DelegateOnlyIfValid  == A!DelegateOnlyIfValid
CountedAsDecorated   == A!CountedAsDecorated

(***************************************************************************)
(* The client id the delegate is given is the subject the keyserver wrote  *)
(* into the token presented, and "N/A" for every request that brings no    *)
(* such subject: a token of another type, one that is no JWS, one without  *)
(* a sub claim or with one that is no string                               *)
(* (authorizationHandler.go:156-176, issueHandler.go:183-191).             *)
(***************************************************************************)
ClientIDFromToken ==
    \A r \in A!Answered :
        LET h      == decorated[outcome[r].by]
            token  == A!Get(outcome[r].request, A!headerName(h))
            result == outcome[r].result
            named  == /\ token.type = "Bearer" /\ token.value \in issued
                      /\ "sub" \in DOMAIN token.value.claims
                      /\ token.value.claims["sub"] \in Strings
        IN  (h.Validator # Nil /\ result.delegate) =>
               result.values.SatClientID =
                   IF named THEN token.value.claims["sub"] ELSE "N/A"

=============================================================================
