SPECIFICATION FairSpec
CONSTANTS
    Devices = {k1}
    Pads = 2
    MayDie = TRUE
    MaxOutside = 2
INVARIANT NothingIsLeft
INVARIANT SwitchesAgree
PROPERTY KeepsOrder
PROPERTY LetsGo
CHECK_DEADLOCK FALSE
