SPECIFICATION FairSpec
CONSTANTS
    Prompts = {1, 2}
    PromptsPerStep = 2
    PromptsPerBatch = 2
    MaxGenBatches = 1
    Rewards = {0, 1, 2}
    Diversities = {0, 1}
    LeaveOneOut = {TRUE, FALSE}
    Graded = {TRUE, FALSE}
    Floors = {0, 1, 2}
    Exponents = {1}
    Stride = 2
CHECK_DEADLOCK FALSE
INVARIANTS
    SharesSound
    GroupsApart
PROPERTIES
    AllocationEnds
