SPECIFICATION Spec
CONSTANTS
    c1 = c1  c2 = c2  l1 = l1  l2 = l2
    i1 = i1  i2 = i2  s1 = s1  s2 = s2
    Nil = Nil
    NoSnapshot = NoSnapshot
    MaxCalls = 3
    Clients <- MCClients
    Listeners <- MCListeners
    Ids <- MCIds
    Secrets <- MCSecrets
SYMMETRY Symmetry
INVARIANT TypeOK
INVARIANT SnapshotFollowsChange
INVARIANT PanicOnlyByRace
PROPERTY ImplementsContract
