SPECIFICATION ThreadsSpec
CONSTANTS
    Slots = {s1, s2}
    Capacity = 2
    MaxChanges = 3
    DriverFails = TRUE
INVARIANT NewestIsKept
PROPERTIES StreamSpec Settles QuitIsNoticed StopIsHeard QuitLetsGo QuitEnds
CHECK_DEADLOCK FALSE
