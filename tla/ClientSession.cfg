SPECIFICATION FairSpec
CONSTANTS
    c1 = c1
    c2 = c2
    Nobody = Nobody
    Counters <- MCCounters
    MaxIntervals <- MCIntervals
    NDevices = 1
    MaxTime = 2
INVARIANTS
    IntervalsMatchSets
    IntervalsWithinSets
    RepliesAreComplete
    InStep
    QueriesAnswered
PROPERTIES
    CallsReturn
    ImplementsRecorder
CHECK_DEADLOCK FALSE
