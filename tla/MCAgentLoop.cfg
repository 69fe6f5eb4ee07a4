CONSTANTS
    s1 = s1
    s2 = s2
    p1 = p1
    p2 = p2
    Session <- Sessions
    Pane <- Panes
    HomeOf <- Homes
    Capacity = 1
    NoSeq = NoSeq
    MaxEvent = 3
SPECIFICATION FairSpec
INVARIANTS
    TypeOK
    NoLostWakeup
    PollSeesChange
    SwitchIsAnswered
    SubscriptionsEndWithManager
PROPERTIES
    ChangesAreShown
