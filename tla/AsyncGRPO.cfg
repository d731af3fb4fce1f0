SPECIFICATION FairSpec
CONSTANTS
    MaxSize = 8
    DataPlane = FALSE
    P = 2
    B = 2
    MaxAge = 2
    CollectorAge = 1
    MaxFailures = 2
    MaxSteps = 3
    ValPeriod = 0
    ValAtStart = TRUE
    ValAtEnd = TRUE
    SavePeriod = 2
    Teachers = TRUE
    MayTimeout = FALSE
    Faults = {}
INVARIANTS
    TypeOK
    RefitQuiesced
    LabelledWeights
    NothingLeftBehind
    TargetQuota
    AgeBound
    NeverStale
    NeverFull
PROPERTY
    TrainingCompletes
