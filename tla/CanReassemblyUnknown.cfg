CONSTANTS
    x = x  y = y  z = z  r = r
    idX = idX  idY = idY  idZ = idZ  idR = idR
    Aliases = {x, y, r}
    Senders = {x, y}
    Ids = {idX, idY, idR}
    IdOf <- NodeIdOf
    KnownAliases = {x, r}
    Mtis = {"Datagram"}
    Sizes <- OneSize
    None = None
    MaxMessages = 2
    MaxInternal = 2
    MaxOutages = 1
SPECIFICATION Spec
INVARIANTS
    WholeMessages
    OneConversation
CHECK_DEADLOCK FALSE
