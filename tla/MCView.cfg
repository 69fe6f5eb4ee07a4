SPECIFICATION Spec
CONSTANTS
    Committer = {loop}
    Roster = {none, some}
    NoCards = none
    Reading = {quiet}
    NoReading = quiet
    Nothing = Nothing
    MaxSequence = 2
    MaxClock = 3
    MaxLine = 1
    MaxSent = 1
    MaxFault = 1
INVARIANTS
    TypeOK
    SequenceNamesRoster
    AcceptedMeansShown
    ReadyMeansThisRun
PROPERTIES
    ViewMovesForward
