SPECIFICATION FairSpec
CONSTANTS
    k1 = k1  f1 = f1  f2 = f2  f3 = f3  t1 = t1  t2 = t2
    main = main  feature = feature  topic = topic  p1 = p1  p2 = p2
    None = None
    Main = main
    Branches = {main, feature, topic}
    Paths = {p1, p2}
    Targets = {t1, t2}
    Mutations <- MCMutations
    Capabilities <- MCCapabilities
    Writable = TRUE
    AllowedTargets = {t1, t2}
    MaxCommits = 2
    Scenarios <- MCScenarios
    Calls = {1, 2, 3}
    ClientKeys = {k1}
    ConfirmationIds = {f1, f2, f3}
    Trusted = FALSE
INVARIANT CompletedIsReal
INVARIANT OneChangePerConfirmation
PROPERTY TriedOnce
PROPERTY NoHistoryLost
PROPERTY CallsEnd
CHECK_DEADLOCK FALSE
