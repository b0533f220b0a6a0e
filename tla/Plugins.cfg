SPECIFICATION Spec
CONSTANTS
    Events <- MCEvents
    Parts <- MCParts
    Device <- MCDevice
    Host <- MCHost
    BadLines = {"badlines"}
    Served = {"d1", "d2"}
    MaxCounters = 2
    MaxTime = 4
    MaxSamples = 3
INVARIANTS
    ReturnsWithNoSessionLeft
PROPERTIES
    StampsWithinMeasurement
    TimelineNeverGoesBack
CHECK_DEADLOCK FALSE
