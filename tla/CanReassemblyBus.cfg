CONSTANTS
    x = x  y = y  z = z  r = r
    idX = idX  idY = idY  idZ = idZ  idR = idR
    Aliases = {x, y}
    Senders = {x, y}
    Ids = {idX, idY}
    IdOf <- NodeIdOf
    KnownAliases = {x, y}
    Mtis = {"Datagram", "Addressed"}
    Sizes <- EdgeSizes
    None = None
    MaxMessages = 2
    MaxInternal = 1
    MaxOutages = 0
SPECIFICATION FairSpec
INVARIANTS
    TypeOK
    ReceiverSurvives
PROPERTIES
    ImplementsMessageBus
    EveryMessageArrives
CHECK_DEADLOCK FALSE
