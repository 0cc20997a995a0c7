SPECIFICATION Spec
CONSTANTS
    c1 = c1  c2 = c2  l1 = l1
    i1 = i1  i2 = i2  s1 = s1  s2 = s2
    Nil = Nil
    NoSnapshot = NoSnapshot
    Never = Never
    TTL = 2
    CheckInterval = 1
    MaxCalls = 2
    Clients <- MCClients
    Listeners <- MCListeners
    Ids <- MCIds
    Secrets <- MCSecrets
INVARIANT TypeOK
PROPERTY ImplementsContract
PROPERTY ReturnsTheLive
PROPERTY ExpiryReachesListener
