CONSTANTS
    n1 = n1  n2 = n2
    i1 = i1  i2 = i2
    a = a  b = b  c = c
    Nodes <- BothNodes
    Ids = {i1, i2}
    IdOf <- SameIds
    Aliases = {a, b, c}
    Seeds <- SixSeeds
    FirstSeed <- FirstSeeds
    NextSeed <- SeedCycles
    AliasOf <- SeedAliases
    ZeroAlias = zero
    None = none
    CidFrames = 1
    MaxInternal = 1
    MaxSends = 0
    MaxOutages = 0
    MaxDuplicates = 2
SPECIFICATION Spec
INVARIANTS
    ClashInFlight
CHECK_DEADLOCK FALSE
