SPECIFICATION MCSpec
CONSTANTS
    HerdrSession = {s1}
    HerdrAgent = {h1, h2}
    T3Thread = {}
    HomeOf <- MCHomeOf
    T3Session = "t3code"
    NoAgent = NoAgent
    Client = {c1}
    Reported = {"working", "done", "idle"}
    Modes = {"none"}
    ConfigBackend = "herdr"
    NoFile = NoFile
    MaxSequence = 4
    MaxChange = 1
    MaxBoot = 0
    s1 = s1
    h1 = h1
    h2 = h2
INVARIANTS
    LatchesAgree
PROPERTIES
    LatchRisesOnNewState
    LatchFallsOnlyWhenSeen
