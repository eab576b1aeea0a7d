CONSTANTS
    None = None
    Nodes = {p, q}
    Chaining = TRUE
    Keeps = {TRUE, FALSE}
    MaxSubmits = 3
    MaxOutages = 2
SPECIFICATION Spec
INVARIANTS
    OutstandingIsHead
    NoDatagramForgotten
CHECK_DEADLOCK FALSE
