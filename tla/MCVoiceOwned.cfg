SPECIFICATION Spec
CONSTANTS
    Client = {c1}
    Nobody = Nobody
    NoMarker = NoMarker
    Torn = Torn
    Unread = Unread
    MaxBoot = 2
    MaxUse = 1
INVARIANT OwnedIsMarker
