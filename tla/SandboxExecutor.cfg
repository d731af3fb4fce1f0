SPECIFICATION FairSpec
CONSTANTS
    Sids = {1, 2}
    Tasks = {t1}
    Images = {i1, i2}
    Built = {i2}
    Cap = 1
    MaxJobs = 2
    MaxExecs = 1
    Timeouts = {"pull", "run", "rm"}
CHECK_DEADLOCK FALSE
INVARIANTS
    ImagesExact
    NothingLost
PROPERTIES
    ImplementsService
    SessionsReclaimed
