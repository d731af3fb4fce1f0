SPECIFICATION Spec
CONSTANTS
    Users = {"ann", "bob"}
    Labelled = {"ann", "bob"}
    Batch = {"bob"}
    Specs = {s1, s2}
    Kinds = {"up", "down", "bringup", "attach", "rayjob", "stop"}
    Extras = {}
    MaxCommands = 3
    MaxOverlap = 2
    MaxRuns = 2
    Ids = {1, 2}
    ReuseIds = FALSE
SYMMETRY Symmetry
CHECK_DEADLOCK FALSE
INVARIANTS
    CommandsDeliver
    RunsSound
PROPERTIES
    OwnerRespected
