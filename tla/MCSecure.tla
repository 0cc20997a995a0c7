------------------------------ MODULE MCSecure ------------------------------
(***************************************************************************)
(* The keyserver and two handlers for model checking: a key store with an  *)
(* RSA key and a key no RSA method signs with, requests to both issuing    *)
(* handlers with and without a claims document, and requests to the        *)
(* service with every kind of header under two header names.               *)
(***************************************************************************)
EXTENDS Secure

CONSTANTS alice, Number

MCStrings == {alice}

MCKeyStore == [k \in {"current", "ec"} |-> IF k = "ec" THEN "ecdsa" ELSE "rsa"]

\* Every query names a date the token is not to be used before.
Query(kid, alg, exp) == [kid |-> kid, alg |-> alg, exp |-> exp, nbf |-> Text("RFC822", 50)]

\* A claims document that names a subject and the partners allowed, and
\* tries to name its issuer.
Document(sub) ==
    [sub |-> sub, iss |-> "someone",
     allowedResources |-> [allowedPartners |-> List("[]interface{}", <<"comcast">>)]]

IssueRequest(handler, query, formEncoded, body) ==
    [handler |-> handler, query |-> query, formEncoded |-> formEncoded, body |-> body]

Simple(query) == IssueRequest("SimpleIssue", query, FALSE, NoBody)

UsingBody(formEncoded, body) ==
    IssueRequest("IssueUsingBody", Query("current", "", Text("int", 100)), formEncoded, body)

MCIssueRequests ==
    { Simple(BadQuery),
      Simple(Query("current", "", Absent)),
      Simple(Query("current", "HS256", Absent)),
      Simple(Query("current", "RS512", Text("garbage", 0))),
      Simple(Query("", "", Absent)),
      Simple(Query("unknown", "RS384", Absent)),
      Simple(Query("ec", "", Text("duration", 60))),
      UsingBody(FALSE, NoBody),
      UsingBody(FALSE, Unreadable),
      UsingBody(FALSE, NotJSON),
      UsingBody(FALSE, Document(alice)),
      UsingBody(FALSE, Document(Number)),
      UsingBody(TRUE, Document(alice)),
      UsingBody(TRUE, Unreadable) }

Garbage == [garbage |-> TRUE]

MCHeaderNames == {"Authorization", "X-Auth"}

Header(name, value) == [n \in MCHeaderNames |-> IF n = name THEN value ELSE Missing]

MCRequests ==
    { Header("Authorization", Missing),
      Header("Authorization", Malformed),
      Header("X-Auth", Malformed),
      Header("Authorization", Token("Bearer", Garbage)),
      Header("X-Auth", Token("Digest", Garbage)) }

Handler(name, code, validator) ==
    [HeaderName |-> name, ForbiddenStatusCode |-> code, Validator |-> validator, measures |-> Nil]

MCConfigurations ==
    { Handler("", 0, "validator"),
      Handler("X-Auth", 401, "validator"),
      Handler("", 0, Nil) }

=============================================================================
