SPECIFICATION Spec
CONSTANTS
    Callers = {c1}
    IssueRequests <- MCIssueRequests
    KeyStore <- MCKeyStore
    Issuer = "keyserver"
    Now = 1000
    IgnoreUnknownKeys = TRUE
    Requesters = {r1}
    Requests <- MCRequests
    Configurations <- MCConfigurations
    Strings <- MCStrings
    MaxHandlers = 2
    HeaderNames <- MCHeaderNames
    Nil = Nil
    alice = alice
    Number = Number
INVARIANT TypeOK
INVARIANT IssuedByTheKeyserver
INVARIANT BodyClaimsIssued
INVARIANT DelegateOnlyIfValid
INVARIANT CountedAsDecorated
INVARIANT ClientIDFromToken
