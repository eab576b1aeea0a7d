CONSTANTS
    None = None
    Nodes = {p, q}
    Chaining = FALSE
    Keeps = {FALSE}
    MaxSubmits = 3
    MaxOutages = 3
SPECIFICATION FairSpec
INVARIANTS
    TypeOK
    AtMostOneOutstanding
    HandlersReturn
PROPERTIES
    ImplementsPromise
    EveryDatagramAnswered
CHECK_DEADLOCK FALSE
