SPECIFICATION MCSpec
CONSTANTS
    c1 = c1
    c2 = c2
    s1 = s1
    s2 = s2
    w1 = w1
    w2 = w2
    w3 = w3
    Client = {c1, c2}
    Leaver = {c1}
    Workload <- MCWorkload
    Session = {s1, s2}
    HerdrSession = {s1, s2}
    Touchable = {s2}
    MaxTouch = 1
    App = {"chatgpt", "claude"}
    Window = {w1, w2, w3}
    AppOf <- MCAppOf
    Main = {w1, w2}
    Floating = {}
    Hinted = {}
    Process = {10, 20, 30, 31, 32}
    PidOf <- MCPidOf
    Parent <- MCParent
    Arguments <- MCArguments
    Environment <- MCEnvironment
    SocketOf <- MCSocketOf
    Default = s1
    Unset = Unset
    NotHerdr = NotHerdr
    NoHistory = NoHistory
    Nothing = Nothing
    Ambiguous = Ambiguous
    OnEdge = {w1, w2}
    Preview = {}
    MaxMove = 2
INVARIANTS
    TypeOK
    OfferedModeIsHerdrs
    EntryHasWaiter
PROPERTIES
    SameWindowAgain
    AnswersAsPromised
    ConnectionEnds


