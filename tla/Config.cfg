SPECIFICATION Spec
CONSTANTS
    Files <- MCFiles
    Names <- MCNames
    NumLines <- MCNumLines
    MaxArgs = 2
INVARIANTS
    ServedDevicesHaveAllLines
    ServesUpToFirstMistake
