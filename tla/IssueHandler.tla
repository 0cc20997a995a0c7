---------------------------- MODULE IssueHandler ----------------------------
(***************************************************************************)
(* The keyserver's IssueHandler                                            *)
(* (src/secure/tools/cmd/keyserver/issueHandler.go): SimpleIssue and       *)
(* IssueUsingBody answer a request with a signed JWT or with an error.     *)
(*                                                                         *)
(* A request is a record                                                   *)
(*   [handler, query, formEncoded, body]                                   *)
(* where query is BadQuery or the parameters [kid, alg, exp, nbf] of the   *)
(* URL, formEncoded says that the body is declared as a form, and body is  *)
(* NoBody, Unreadable, Empty, NotJSON or a JSON claims document (a         *)
(* function from claim names to values).  alg is a string; the text of a   *)
(* date is a record [form, value] of the form the parser finds it in and   *)
(* the number it stands for.  A JWT is                                     *)
(*   [kid, alg, key, claims]     key: the private key that signed it       *)
(***************************************************************************)
EXTENDS Integers, FiniteSets, TLC, Credentials

CONSTANTS
    Callers,            \* the clients of the keyserver
    Requests,           \* the requests they send
    KeyStore,           \* handler.keyStore: key id -> "rsa" or another key type
    Issuer,             \* handler.issuer
    Now,                \* time.Now(), in seconds
    IgnoreUnknownKeys,  \* how handler.decoder treats a key no field is tagged with
    Nil

VARIABLES
    response,   \* response[c]: the last request of c and its answer
    issued      \* history: the tokens written so far

vars == <<response, issued>>

supportedSigningMethods == {"RS256", "RS384", "RS512"}
defaultSigningMethod    == "RS256"
supportedNumericDateLayouts == {"RFC3339", "RFC822", "RFC822Z"}

-----------------------------------------------------------------------------
(* The parsers of the request parameters *)

\* NumericDate.UnmarshalText: an integer is an absolute date, a duration is
\* relative to now, a date in one of three layouts is its Unix time.
NumericDate(text) ==
    CASE text.form = "empty"    -> [err |-> FALSE, duration |-> 0, absolute |-> 0]
      [] text.form \in {"int"} \cup supportedNumericDateLayouts
                                -> [err |-> FALSE, duration |-> 0, absolute |-> text.value]
      [] text.form = "duration" -> [err |-> FALSE, duration |-> text.value, absolute |-> 0]
      [] OTHER                  -> [err |-> TRUE]

\* NumericDate.Compute: the date itself, or now and the duration.  Nothing
\* calls it: the exp and nbf of a request are parsed and never issued.
Compute(nd, now) == IF nd.absolute # 0 THEN nd.absolute ELSE now + nd.duration

\* SigningMethod.UnmarshalText: the default for an empty text, a supported
\* method under its name, or an error.
UnmarshalText(text) ==
    CASE text = ""                      -> [err |-> FALSE, alg |-> defaultSigningMethod]
      [] text \in supportedSigningMethods -> [err |-> FALSE, alg |-> text]
      [] OTHER                          -> [err |-> TRUE]

\* IssueRequest.SigningMethod: the method decoded, the default when the
\* request named none.
SigningMethod(issueRequest) ==
    IF issueRequest.Algorithm # Nil THEN issueRequest.Algorithm ELSE defaultSigningMethod

\* IssueRequest.AddToHeader: the protected header names the key.
AddToHeader(issueRequest) == [kid |-> issueRequest.KeyID]

\* request.ParseForm: the query, and the body too when it is declared as a
\* form; the body is then read to its end, and what it held are keys of the
\* form that no field of IssueRequest is tagged with.
ParseForm(request) ==
    LET read == request.formEncoded /\ request.body # NoBody
    IN  [err   |-> request.query = BadQuery \/ (read /\ request.body = Unreadable),
         form  |-> request.query,
         stray |-> read /\ request.body # Empty,
         body  |-> IF read THEN Empty ELSE request.body]

\* NewIssueRequest: what the decoder refuses, then the missing kid.  A
\* parameter the query does not have leaves its field as it is.
NewIssueRequest(parsed) ==
    LET form == parsed.form
    IN  [err       |-> \/ parsed.stray /\ ~IgnoreUnknownKeys
                       \/ UnmarshalText(form.alg).err
                       \/ NumericDate(form.exp).err
                       \/ NumericDate(form.nbf).err
                       \/ form.kid = "",
         KeyID     |-> form.kid,
         Algorithm |-> IF form.alg = "" \/ UnmarshalText(form.alg).err
                       THEN Nil ELSE UnmarshalText(form.alg).alg]

-----------------------------------------------------------------------------
(* The handlers *)

Error(code)   == [code |-> code, token |-> Nil]
Written(token) == [code |-> 200, token |-> token]

\* MUTANT of Claims: a claim of the body is left as the body has it.
ClaimsBodyWins(claims) == claims @@ ("iat" :> Now) @@ ("iss" :> Issuer)

\* AddToClaims and SetIssuer, on the claims the request brought.
Claims(claims) == ("iat" :> Now) @@ ("iss" :> Issuer) @@ claims

\* issue: no such key; a key the method cannot sign with; or the JWT.
issue(issueRequest, claims) ==
    CASE issueRequest.KeyID \notin DOMAIN KeyStore -> Error(400)
      [] KeyStore[issueRequest.KeyID] # "rsa"      -> Error(500)
      [] OTHER -> Written([kid    |-> AddToHeader(issueRequest).kid,
                           alg    |-> SigningMethod(issueRequest),
                           key    |-> issueRequest.KeyID,
                           claims |-> Claims(claims)])

SimpleIssue(request) ==
    LET parsed == ParseForm(request)
    IN  IF parsed.err \/ NewIssueRequest(parsed).err
        THEN Error(400)
        ELSE issue(NewIssueRequest(parsed), <<>>)

\* MUTANT of UnmarshalJSON: the claims of the body are not handed on.
UnmarshalJSONDropped(body) == <<>>

\* The claims IssueUsingBody makes of a body that is there and not empty.
UnmarshalJSON(body) == IF IsDocument(body) THEN body ELSE <<>>

\* IssueUsingBody: the claims are what is left of the body to read.
IssueUsingBody(request) ==
    LET parsed == ParseForm(request)
    IN  IF parsed.err \/ NewIssueRequest(parsed).err \/ parsed.body \in {Unreadable, NotJSON}
        THEN Error(400)
        ELSE issue(NewIssueRequest(parsed), UnmarshalJSON(parsed.body))

-----------------------------------------------------------------------------
Init ==
    /\ response = [c \in Callers |-> Nil]
    /\ issued = {}

\* A caller's request is answered; the handlers share nothing that changes.
Serve(c, request) ==
    LET answer == IF request.handler = "SimpleIssue"
                  THEN SimpleIssue(request) ELSE IssueUsingBody(request)
    IN  /\ response' = [response EXCEPT ![c] = [request |-> request, code |-> answer.code,
                                                token |-> answer.token]]
        /\ issued' = IF answer.token = Nil THEN issued ELSE issued \cup {answer.token}

Next == \E c \in Callers, request \in Requests : Serve(c, request)

Spec == Init /\ [][Next]_vars

-----------------------------------------------------------------------------
TypeOK ==
    /\ \A c \in Callers : response[c] # Nil => response[c].code \in {200, 400, 500}
    /\ \A t \in issued : DOMAIN t = {"kid", "alg", "key", "claims"}

(***************************************************************************)
(* Every token the keyserver writes is signed with the private key that    *)
(* its kid header names, by a method the key store's key can sign with,    *)
(* and says who issued it and when: issue sets the issued-at claim and the *)
(* issuer after the claims of the body are in place                        *)
(* (issueHandler.go:183-189), so a body cannot name another issuer.        *)
(***************************************************************************)
IssuedByTheKeyserver ==
    \A t \in issued :
        /\ t.kid \in DOMAIN KeyStore /\ KeyStore[t.kid] = "rsa" /\ t.key = t.kid
        /\ t.alg \in supportedSigningMethods
        /\ t.claims["iss"] = Issuer /\ t.claims["iat"] = Now

\* The claims the keyserver writes itself: issue sets the issuer, AddToClaims
\* the issued-at, and its comment has it add the exp and nbf of the request.
OfTheKeyserver == {"iat", "iss", "exp", "nbf"}

(***************************************************************************)
(* The claims of the body reach the token, and no others do: a token       *)
(* written by IssueUsingBody for a JSON document that ioutil.ReadAll could *)
(* still read holds every claim of the document, with the document's value *)
(* for all but the two that issue overwrites, and no token holds a claim   *)
(* that neither its request's document nor the keyserver names             *)
(* (issueHandler.go:183-191, 225-255).  Whether the exp and nbf of the     *)
(* request's parameters are among the claims is left open here: the        *)
(* comment on IssueUsingBody says they are, AddToClaims does not set them. *)
(***************************************************************************)
BodyClaimsIssued ==
    \A c \in Callers :
        (response[c] # Nil /\ response[c].token # Nil) =>
            LET request  == response[c].request
                claims   == response[c].token.claims
                document == IF IsDocument(request.body) THEN request.body ELSE <<>>
                readable == request.handler = "IssueUsingBody" /\ ~request.formEncoded
            IN  /\ DOMAIN claims \subseteq DOMAIN document \cup OfTheKeyserver
                /\ readable => /\ DOMAIN document \subseteq DOMAIN claims
                               /\ \A name \in DOMAIN document \ {"iat", "iss"} :
                                     claims[name] = document[name]

=============================================================================
