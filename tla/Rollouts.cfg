SPECIFICATION FairSpec
CONSTANTS
    Samples = {p1, p2}
    Sids = {s1, s2}
    Hosts = {h1}
    MaxRolloutTurns = 2
    Budgets = {2, 3}
CHECK_DEADLOCK FALSE
INVARIANTS
    SessionsSound
    HostsSound
PROPERTIES
    NothingLingers
