CONSTANTS
    x = x  y = y  z = z  r = r
    idX = idX  idY = idY  idZ = idZ  idR = idR
    Aliases = {x, y, z, r}
    Senders = {x, y, z}
    Ids = {idX, idY, idZ, idR}
    IdOf <- NodeIdOf
    KnownAliases = {x, r}
    Mtis = {"Datagram"}
    Sizes <- TwoSizes
    None = None
    MaxMessages = 1
    MaxInternal = 3
    MaxOutages = 0
SPECIFICATION Spec
INVARIANTS
    WholeMessages
CHECK_DEADLOCK FALSE
