------------------------ MODULE AuthorizationHandler ------------------------
(***************************************************************************)
(* handler.AuthorizationHandler                                            *)
(* (src/secure/handler/authorizationHandler.go): Decorate wraps a delegate *)
(* in a handler that lets a request through when its authorization header  *)
(* parses and the Validator accepts the token, and answers it with the     *)
(* forbidden status otherwise.                                             *)
(*                                                                         *)
(* Decorate has a value receiver: the handler it returns works on the copy *)
(* of the AuthorizationHandler made when Decorate was called, while        *)
(* DefineMeasures, with a pointer receiver, changes the original.          *)
(*                                                                         *)
(* A request is a function from header names to header values; a header    *)
(* value is Missing, Malformed or a token [type, value].  A token's value  *)
(* is a JWT of the keyserver ([kid, alg, key, claims]) or anything else.   *)
(***************************************************************************)
EXTENDS Integers, Sequences, FiniteSets, Credentials

CONSTANTS
    Requesters,       \* the requests, each served once
    Requests,         \* what a request may carry
    Configurations,   \* the AuthorizationHandler values to start from
    Strings,          \* the claim values that are Go strings
    MaxHandlers,      \* bound of the model: calls of Decorate
    Nil

VARIABLES
    a,           \* the AuthorizationHandler the application holds
    decorated,   \* decorated[i]: the copy the i-th handler works on
    counted,     \* measures.ValidationReason: denials counted, by reason
    outcome      \* outcome[r]: how request r was answered

vars == <<a, decorated, counted, outcome>>

AuthorizationHeader == "Authorization"
StatusForbidden     == 403
Reasons             == {"missing_header", "invalid_header"}

IsAuthorizationHandler(h) ==
    /\ DOMAIN h = {"HeaderName", "ForbiddenStatusCode", "Validator", "measures"}
    /\ h.ForbiddenStatusCode \in Int

ASSUME \A h \in Configurations : IsAuthorizationHandler(h) /\ h.measures = Nil

-----------------------------------------------------------------------------
headerName(h) ==
    IF Len(h.HeaderName) > 0 THEN h.HeaderName ELSE AuthorizationHeader

\* MUTANT of forbiddenStatusCode: the configured code, set or not.
forbiddenStatusCodeAsConfigured(h) == h.ForbiddenStatusCode

forbiddenStatusCode(h) ==
    IF h.ForbiddenStatusCode > 0 THEN h.ForbiddenStatusCode ELSE StatusForbidden

\* request.Header.Get: the empty string for a header the request lacks.
Get(request, name) ==
    IF name \in DOMAIN request THEN request[name] ELSE Missing

\* secure.ParseAuthorization: a token, or an error for what is none.
ParseAuthorization(value) == [err |-> value = Malformed, token |-> value]

\* secure.DefaultJWSParser.ParseJWS: the claims of a token that is a JWS.
ParseJWS(token) ==
    IF "claims" \in DOMAIN token.value
    THEN [err |-> FALSE, claims |-> token.value.claims]
    ELSE [err |-> TRUE, claims |-> <<>>]

\* MUTANT of Subject: the sub claim, whatever it holds.
SubjectUnchecked(claims) == IF "sub" \in DOMAIN claims THEN claims["sub"] ELSE "N/A"

\* The client id: "N/A", unless there is a sub claim that is a string.
Subject(claims) ==
    IF "sub" \in DOMAIN claims /\ claims["sub"] \in Strings THEN claims["sub"] ELSE "N/A"

(***************************************************************************)
(* populateContextValues: the client id is "N/A", unless the token is a    *)
(* Bearer token that parses and whose sub claim is a string.  The partner  *)
(* ids are the allowedPartners of the allowedResources claim when that     *)
(* list is a []string.                                                     *)
(***************************************************************************)
populateContextValues(token) ==
    LET claims    == IF token.type = "Bearer" THEN ParseJWS(token).claims ELSE <<>>
        resources == IF "allowedResources" \in DOMAIN claims
                     THEN claims["allowedResources"] ELSE <<>>
    IN  [SatClientID |-> Subject(claims),
         PartnerIDs  |-> IF /\ "allowedPartners" \in DOMAIN resources
                            /\ resources["allowedPartners"].type = "[]string"
                         THEN resources["allowedPartners"].elems ELSE Nil,
         err         |-> token.type = "Bearer" /\ ParseJWS(token).err]

Denied(h, reason) ==
    [code |-> forbiddenStatusCode(h), reason |-> reason, delegate |-> FALSE, values |-> Nil]
Delegated(values) ==
    [code |-> 200, reason |-> "none", delegate |-> TRUE, values |-> values]

\* MUTANT of Accepts: the validator's word is taken, its error put aside.
AcceptsWithError(verdict) == verdict.valid

\* What Validate must answer for the request to go on.
Accepts(verdict) == ~verdict.err /\ verdict.valid

(***************************************************************************)
(* The handler Decorate returns for the copy h: the delegate itself when   *)
(* there is no validator; otherwise the header must be there, must parse,  *)
(* and the validator must accept the token without an error.  An error of  *)
(* populateContextValues is logged and the request goes on.                *)
(***************************************************************************)
ServeHTTP(h, request, verdict) ==
    LET value == Get(request, headerName(h))
    IN  CASE h.Validator = Nil               -> Delegated(Nil)
          [] value = Missing                 -> Denied(h, "missing_header")
          [] ParseAuthorization(value).err   -> Denied(h, "invalid_header")
          [] Accepts(verdict)                -> Delegated(populateContextValues(value))
          [] OTHER                           -> Denied(h, "denied")

-----------------------------------------------------------------------------
Init ==
    /\ a \in Configurations
    /\ decorated = <<>>
    /\ counted = [reason \in Reasons |-> 0]
    /\ outcome = [r \in Requesters |-> Nil]

DefineMeasures(m) ==
    /\ a' = [a EXCEPT !.measures = m]
    /\ UNCHANGED <<decorated, counted, outcome>>

Decorate ==
    /\ Len(decorated) < MaxHandlers
    /\ decorated' = Append(decorated, a)
    /\ UNCHANGED <<a, counted, outcome>>

\* MUTANT of measures: those the application's AuthorizationHandler has now.
measuresLive(h) == a.measures

\* The measures the handler made of the copy h counts with.
measures(h) == h.measures

\* Request r is served by the i-th handler; a denial for the header is
\* counted when the handler's copy has measures.
Handle(r, i, request, verdict) ==
    LET result == ServeHTTP(decorated[i], request, verdict)
    IN  /\ outcome[r] = Nil
        /\ outcome' = [outcome EXCEPT ![r] = [by |-> i, request |-> request,
                                              verdict |-> verdict, result |-> result]]
        /\ counted' = IF result.reason \in Reasons /\ measures(decorated[i]) # Nil
                      THEN [counted EXCEPT ![result.reason] = @ + 1] ELSE counted
        /\ UNCHANGED <<a, decorated>>

Verdicts == [valid : BOOLEAN, err : BOOLEAN]

Next ==
    \/ DefineMeasures("measures")
    \/ Decorate
    \/ \E r \in Requesters, i \in DOMAIN decorated, request \in Requests, verdict \in Verdicts :
          Handle(r, i, request, verdict)

Spec == Init /\ [][Next]_vars

-----------------------------------------------------------------------------
Answered == {r \in Requesters : outcome[r] # Nil}

TypeOK ==
    /\ IsAuthorizationHandler(a)
    /\ Len(decorated) <= MaxHandlers
    /\ \A i \in DOMAIN decorated : IsAuthorizationHandler(decorated[i])
    /\ counted \in [Reasons -> 0..Cardinality(Requesters)]
    /\ \A r \in Answered :
          /\ outcome[r].by \in DOMAIN decorated
          /\ outcome[r].result.code \in 200..599
          /\ outcome[r].result.delegate <=> outcome[r].result.code = 200

(***************************************************************************)
(* The delegate behind a validator sees a request only when the request    *)
(* carried the handler's header, the header parsed, and the validator      *)
(* answered true and no error (authorizationHandler.go:94-132): neither a  *)
(* verdict that comes with an error nor a failure to populate the context  *)
(* values lets a request through or keeps one out.                         *)
(***************************************************************************)
DelegateOnlyIfValid ==
    \A r \in Answered :
        LET h     == decorated[outcome[r].by]
            value == Get(outcome[r].request, headerName(h))
        IN  h.Validator # Nil =>
              (outcome[r].result.delegate <=>
                 /\ value \notin {Missing, Malformed}
                 /\ outcome[r].verdict = [valid |-> TRUE, err |-> FALSE])

(***************************************************************************)
(* The denials counted are those of the handlers that were decorated after *)
(* DefineMeasures: a handler keeps the measures its AuthorizationHandler   *)
(* had when Decorate copied it (authorizationHandler.go:80, 99, 152), so   *)
(* measures defined later count nothing for it.                            *)
(***************************************************************************)
CountedAsDecorated ==
    \A reason \in Reasons :
        counted[reason] =
            Cardinality({r \in Answered : /\ outcome[r].result.reason = reason
                                          /\ decorated[outcome[r].by].measures # Nil})

=============================================================================
