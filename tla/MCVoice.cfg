SPECIFICATION Spec
CONSTANTS
    Client = {c1, c2}
    Nobody = Nobody
    NoMarker = NoMarker
    Torn = Torn
    Unread = Unread
    MaxBoot = 2
    MaxUse = 1
INVARIANTS
    TypeOK
    RecordingIsMarked
    OwnerAnswers
    ErrorStaysShown
PROPERTY DictatesAsPromised
