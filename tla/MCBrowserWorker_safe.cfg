SPECIFICATION Spec
CONSTANTS
    None = None
    Reaper = Reaper
    Blank = Blank
    r1 = r1
    r2 = r2
    r3 = r3
    r4 = r4
    k1 = k1
    k2 = k2
    t1 = t1
    t2 = t2
    t3 = t3
    t4 = t4
    o1 = o1
    o2 = o2
    Requests = {r1, r2, r3, r4}
    Tasks = {k1, k2}
    Tabs = {t1, t2, t3, t4}
    Owners = {o1, o2}
    Keys <- MCKeys
    Scenarios <- MCScenarios
    MaxConcurrency = 2
    MaxOwnedTabs = 1
    MaxEntries = 1
    MaxFaults = 1
INVARIANTS
    OneAtATime
    LeaseExact
    FinalizesAlone
    NothingAfterEnd
    ConfirmedOnce
    NoTwinRuns
CHECK_DEADLOCK FALSE
