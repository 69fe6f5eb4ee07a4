SPECIFICATION MCSpec
CONSTANTS
    Client = {c1, c2}
    Nobody = Nobody
    NoMarker = NoMarker
    Torn = Torn
    Unread = Unread
    MaxBoot = 1
    MaxUse = 1
PROPERTIES
    DisconnectSettles
