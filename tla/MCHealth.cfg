SPECIFICATION Spec
CONSTANTS
    c1 = c1
    c2 = c2
    l1 = l1
    l2 = l2
    None = None
    Callers <- MCCallers
    Listeners <- MCListeners
    EventCap = 2
    StatDumpIntervals <- MCIntervals
    MaxCalls = 2
INVARIANT TypeOK
INVARIANT EventsConserved
INVARIANT ServedStatsAreCurrent
PROPERTY AcceptedIsServed
