SPECIFICATION Spec
CONSTANTS
    NLines = 2
    Capacity = 1
    MaxCycles = 3
    Words = {7, 256, 32768}
    Metric <- MCMetric
    MaxFreq = 2
    Ids = {1, 2}
INVARIANTS
    BufferedSamplesWhole
    NonNegativeReadingsExact
PROPERTY
    StreamNeverGoesBack
CHECK_DEADLOCK FALSE
