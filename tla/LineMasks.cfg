SPECIFICATION Spec
CONSTANTS
    NBits = 3
    NumLines = 2
    Numbers = {0, 1, 3}
    MaxTokens = 7
INVARIANTS
    MaskIsWhatTheTextNames
    NoOverrun
    SessionRecordsNamedLines
CHECK_DEADLOCK FALSE
