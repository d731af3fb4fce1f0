SPECIFICATION Spec
CONSTANTS
    N = 6
    DP = 2
    TP = 2
    MaxLen = 2
    Budget = 3
    GlobalSizes = {2, 6}
    MicroSizes = {1, 2}
    ScoreSizes = {2, 4}
    Algorithms = {"ffd", "shuffle", "dp", "online"}
    Ops = {"logprobs", "topk", "score", "train"}
    Mappings = {TRUE, FALSE}
CHECK_DEADLOCK FALSE
INVARIANTS
    RowsExact
    CallsReturn
