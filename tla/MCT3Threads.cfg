CONSTANTS
    thread = thread
    HerdrSession = {}
    HerdrAgent = {}
    T3Thread <- Threads
    HomeOf <- NoHome
    T3Session = "t3code"
    NoAgent = NoAgent
    Sources = {"feed", "v2", "v1"}
    None = None
    MaxTime = 5
SPECIFICATION Spec
INVARIANTS
    TypeOK
    RequestsAreShown
    UnseenOutcomeAsks
    SeenOutcomeIsQuiet
