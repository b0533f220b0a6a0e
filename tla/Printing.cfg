SPECIFICATION Spec
CONSTANTS
    MaxLines = 2
    MaxSets = 2
    Lengths = {0, 1, 4}
    MaxInterval = 2
    Bits = {0, 3, 5}
INVARIANTS
    LinesContributeEqually
    TablesExact
    StatesNameTheirLine
    EnergyOfOneSet
    StreamConsumed
CHECK_DEADLOCK FALSE
