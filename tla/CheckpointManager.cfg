SPECIFICATION Spec
CONSTANTS
    Steps = {1, 2, 3}
    Metrics = {0, 1}
    KeepTopK = 1
    RankByMetric = TRUE
    HigherIsBetter = FALSE
    MaxSaves = 3
    MaxCrashes = 2
CHECK_DEADLOCK FALSE
INVARIANTS
    Recoverable
    BestKept
    RetentionBounded
PROPERTIES
    LatestAdvances
