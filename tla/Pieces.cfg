SPECIFICATION PiecesSpec
CONSTANTS
    Bytes = {1, 2}
    Values = {0, 1}
    Wrap = 6
    Retries = 2
    Keepalive = 1
    Devices = {"p1", "p2"}
    Keys = {"lctrl", "rctrl", "alt", "del"}
    LeftKey = "lctrl"
    RightKey = "rctrl"
    CtrlKeys = {"lctrl", "rctrl"}
    AltKeys = {"alt"}
    DelKeys = {"del"}
    Threshold = 2
    Boards = {1, 2, 3, 4}
    Model <- MCModel
    Bluetooth = {4}
    Versions = {1}
    MaxEvents = 2
    Pids = {1, 2, 3}
    Launcher = 1
    Grace = 2
    Confirmations = 3
    MaxFailures = 2
    MaxSpawns = 3
    Shapes = {1, 2}
    Patient = FALSE
    MaxWrites = 2
    MaxQueue = 1
    Layouts = {0, 1}
    Empty = 0
    Default = 1
    AtOnce = 1
    Viewers = {1, 2}
    Queue = 2
    KeysPerFrame = 1
    MaxViewers = 2
    MaxDeltas = 3
INVARIANTS SequencesAreDeliberate PanelFollows FileIsWhole LossIsTold
PROPERTIES StopIsOneBoards ClaimTakesOne ReleaseTellsTruth NoFalseEnd AppliedIsLiveMostly NothingIsLost IsRegister
CHECK_DEADLOCK FALSE
