SPECIFICATION FairSpec
CONSTANTS
    MaxSize = 2
    DataPlane = FALSE
    P = 1
    B = 2
    MaxAge = 1
    CollectorAge = 2
    MaxFailures = 2
    MaxSteps = 3
    ValPeriod = 2
    ValAtStart = FALSE
    ValAtEnd = FALSE
    SavePeriod = 3
    Teachers = TRUE
    MayTimeout = TRUE
    Faults = {"generation", "teacher", "loop", "sync", "train", "validation", "save"}
PROPERTIES
    RefitProceeds
    RunEnds
