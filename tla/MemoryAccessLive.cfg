CONSTANTS
    None = None
    Nodes = {p, q}
    Operations = {"read", "write", "length"}
    Answers = {"reply"}
    Others = {}
    MayKeep = FALSE
    MaxRequests = 3
    MaxOthers = 0
    MaxOutages = 0
SPECIFICATION FairSpec
INVARIANTS
    AnswersMatch
PROPERTIES
    EveryRequestAnswered
CHECK_DEADLOCK FALSE
