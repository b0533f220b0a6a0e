CONSTANTS
    Counter = {c1, c2}
    NoCounter = NoCounter
    Fickle = {}
    NumLines = 1
    MaxSamples = 2
    MaxSets = 1
SPECIFICATION Spec
CHECK_DEADLOCK FALSE
SYMMETRY Symmetry
INVARIANTS TypeOK SlicesInBuffer RecordingMissesNoSample
PROPERTY HeldDataOnlyGrows
