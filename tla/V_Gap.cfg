CONSTANTS
    Counter = {c1, c2}
    NoCounter = NoCounter
    Fickle = {}
    NumLines = 1
    MaxSamples = 3
    MaxSets = 1
SPECIFICATION Spec
CHECK_DEADLOCK FALSE
INVARIANT SliceCoversInterval
