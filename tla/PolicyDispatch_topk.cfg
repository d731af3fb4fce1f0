SPECIFICATION Spec
CONSTANTS
    N = 6
    DP = 2
    TP = 2
    MaxLen = 2
    Budget = 3
    GlobalSizes = {2}
    MicroSizes = {1}
    ScoreSizes = {2}
    Algorithms = {"ffd", "shuffle", "dp", "online"}
    Ops = {"topk"}
    Mappings = {FALSE}
CHECK_DEADLOCK FALSE
INVARIANT TopkRowsOwn
