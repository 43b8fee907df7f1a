SPECIFICATION Spec
CONSTANTS
    Keys = {k1}
    EventCap = 1
    Blocks = TRUE
    StrokesFail = FALSE
    AcksExpire = FALSE
    MaxPresses = 2
    MaxGestures = 1
    MaxStarts = 2
PROPERTY FreshStartIsMuted
CHECK_DEADLOCK FALSE
