SPECIFICATION Spec
CONSTANTS
    c1 = c1  l1 = l1  i1 = i1  s1 = s1
    Nil = Nil
    NoSnapshot = NoSnapshot
    Address = "http://yggdrasil:6000"
    Prefix = "webhooks"
    MaxCalls = 2
    Clients <- MCClients
    Listeners <- MCListeners
    Ids <- MCIds
    Secrets <- MCSecrets
INVARIANT PushIssuesRequest
CHECK_DEADLOCK FALSE
