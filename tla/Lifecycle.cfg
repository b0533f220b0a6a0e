SPECIFICATION FairSpec
CONSTANTS
    NumDevices = 2
    Session = {s1, s2}
    Capacity = 2
    Stalling = {2}
INVARIANTS TypeOK ServesOnlyWorkingDevices NoThreadOutlivesDevice
PROPERTIES ConnectionKeepsDevice StartupDecides ShutdownCompletes
CHECK_DEADLOCK FALSE
