SPECIFICATION FairSpec
CONSTANTS
    I1 = I1
    I2 = I2
    None = None
    Intents = {I1, I2}
    Scenarios <- SafeScenarios
    MaxAttempts = 3
    MaxConfirmations = 2
    MaxFaults = 1
CHECK_DEADLOCK FALSE
INVARIANTS
    ConfirmedOnce
    RefusalIsClean
PROPERTIES
    RepeatIsHarmless
    EveryToolReachable
