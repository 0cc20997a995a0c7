SPECIFICATION Spec
CONSTANTS
    k1 = k1
    k2 = k2
    v1 = v1
    v2 = v2
    c1 = c1
    c2 = c2
    Nil = Nil
    NoKey = NoKey
    Keys <- MCKeys
    Scalars <- MCScalars
    Clients <- MCClients
    Devices <- MCDevices
    Requests <- MCRequests
    AllowedChoices <- MCAllowedChoices
INVARIANT TypeOK
INVARIANT StoreWellFormed
PROPERTY DecisionMatchesFilters
PROPERTY AnswerShowsTheUpdate
