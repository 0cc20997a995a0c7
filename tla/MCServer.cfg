SPECIFICATION Spec
CONSTANTS
    c1 = c1  c2 = c2  l1 = l1
    None = None
    Nil = Nil
    EventCap = 1
    StatDumpIntervals <- MCIntervals
    MaxCalls = 2
    Callers <- MCCallers
    Listeners <- MCListeners
    Configurations <- MCConfigurations
SYMMETRY Symmetry
INVARIANT TypeOK
INVARIANT TrackerNeverBlocks
INVARIANT PrimaryFirst
INVARIANT PanicOnlyAfterShutdown
CHECK_DEADLOCK FALSE
