CONSTANTS
    None = None
    Nodes = {p, q}
    Operations = {"read", "write", "length"}
    Answers = {"reply", "done", "rejected"}
    Others = {"Short"}
    MayKeep = TRUE
    MaxRequests = 3
    MaxOthers = 1
    MaxOutages = 1
SPECIFICATION Spec
SYMMETRY NodesAlike
INVARIANTS
    ReadAnswersMatch
    ReadsSerialized
    RepliedOnce
    RepliesMatch
CHECK_DEADLOCK FALSE
