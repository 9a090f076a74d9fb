SPECIFICATION FairSpec
CONSTANTS
    None = None
    i1 = i1
    i2 = i2
    alice = alice
    bob = bob
    chat = chat
    Requests = {1, 2, 3}
    Ids = {i1, i2}
    Setups <- MCSetups
    MaxConcurrent = 2
    MaxGen = 2
    MaxSessions = 1
INVARIANTS
    CancelIsHeard
    NothingLeftBehind
PROPERTIES
    AbandonedEnds
CHECK_DEADLOCK FALSE
