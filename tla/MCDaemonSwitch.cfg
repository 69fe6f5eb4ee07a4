\* Two clients race opens, orderings and switches against the agent loop, over two
\* Herdr sessions and one T3 Code thread; the daemon may restart once.
SPECIFICATION Spec
CONSTANTS
    s1 = s1
    s2 = s2
    h1 = h1
    HerdrSession = {s1, s2}
    HerdrAgent = {h1}
    T3Thread = {t1}
    HomeOf <- MCHomeOf
    T3Session = "t3code"
    NoAgent = NoAgent
    Client = {c1, c2}
    Reported = {"done"}
    Modes = {"grouped", "priority"}
    ConfigBackend = "herdr"
    NoFile = NoFile
    MaxSequence = 3
    MaxChange = 0
    MaxBoot = 1
INVARIANTS
    TypeOK
    RosterFromCurrentManager
    OffersNeedConnection
    SavedChoiceIsCurrent
PROPERTIES
    SequenceCoversRoster
