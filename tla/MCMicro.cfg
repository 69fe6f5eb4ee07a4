CONSTANTS
    a = a
    b = b
    Agent = {a, b}
    None = None
    Shows <- Snapshots
    Slots = 2
    MaxShow = 2
    MaxPress = 2
    MaxCrash = 1
    MaxQueue = 1
SPECIFICATION MCSpec
INVARIANTS
    TypeOK
    StoppedHerdrIsMarked
PROPERTIES
    KeysMeanWhatTheyShow
    ControlIsGivenBack
CHECK_DEADLOCK FALSE
