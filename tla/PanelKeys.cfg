SPECIFICATION Spec
CONSTANTS
    Keys = {k1}
    EventCap = 1
    Blocks = TRUE
    StrokesFail = TRUE
    AcksExpire = TRUE
    MaxPresses = 1
    MaxGestures = 1
    MaxStarts = 2
INVARIANTS NoKeyStuck IdleMeansTyping
PROPERTY NoDouble
CHECK_DEADLOCK FALSE
