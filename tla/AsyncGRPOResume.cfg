SPECIFICATION RSpec
CONSTANTS
    MaxSize = 4
    DataPlane = FALSE
    P = 1
    B = 2
    MaxAge = 2
    CollectorAge = 1
    MaxFailures = 2
    MaxSteps = 3
    ValPeriod = 0
    ValAtStart = FALSE
    ValAtEnd = FALSE
    SavePeriod = 1
    Teachers = FALSE
    MayTimeout = FALSE
    Faults = {"loop"}
    MaxCrashes = 1
INVARIANTS
    LineageExact
    SurplusBounded
    RepeatsBounded
    RestoredUsable
