CONSTANTS
    Counter = {c1, c2}
    NoCounter = NoCounter
    Fickle = {c1}
    NumLines = 1
    MaxSamples = 0
    MaxSets = 1
SPECIFICATION FairSpec
CHECK_DEADLOCK FALSE
PROPERTIES EveryRequestAnswered SessionEndsAfterHangup
