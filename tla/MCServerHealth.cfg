SPECIFICATION Spec
CONSTANTS
    c1 = c1  c2 = c2  l1 = l1
    None = None
    Nil = Nil
    EventCap = 1
    StatDumpIntervals <- MCIntervals
    MaxCalls = 2
    Callers <- MCCallers
    Listeners <- MCListeners
    Configurations <- MCConfigurations
INVARIANT HealthRequestNeverBlocks
CHECK_DEADLOCK FALSE
