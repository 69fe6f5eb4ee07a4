SPECIFICATION FairSpec
CONSTANTS
    Committer = {loop}
    Roster = {none}
    NoCards = none
    Reading = {quiet, busy}
    NoReading = quiet
    Nothing = Nothing
    MaxSequence = 1
    MaxClock = 3
    MaxLine = 1
    MaxSent = 0
    MaxFault = 1
PROPERTIES
    Converges
