CONSTANTS
    Counter = {c1, c2}
    NoCounter = NoCounter
    Fickle = {c1, c2}
    NumLines = 2
    MaxSamples = 0
    MaxSets = 2
SPECIFICATION Spec
CHECK_DEADLOCK FALSE
SYMMETRY Symmetry
INVARIANTS EnabledCount ActiveCount OpenSetIffActive
