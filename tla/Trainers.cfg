SPECIFICATION FairSpec
CONSTANTS
    Kinds = {"sft", "dpo", "rm", "distillation", "grpo"}
    Length = 3
    MaxEpochs = 2
    MaxSteps = 4
    SavePeriods = {0, 2, 3}
    ValPeriod = 3
    NumPrompts = 2
    MaxGenBatches = 1
    Timeout = TRUE
    KeepsOptimizer = FALSE
    BareReference = FALSE
    MaxCrashes = 1
    MaxFlushFails = 1
CHECK_DEADLOCK FALSE
INVARIANTS
    OnPolicy
    EngineSound
    LineageSound
PROPERTIES
    RunEnds
