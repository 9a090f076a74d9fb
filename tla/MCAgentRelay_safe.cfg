SPECIFICATION Spec
CONSTANTS
    Reads = {read}
    Shells = {sh1, sh2}
    Edits = {edit}
    ws = ws
    Free = Free
    Calls <- MCCalls
    Retryable = {read}
    ShellCalls = {sh1, sh2}
    Workspaces <- MCWorkspaces
    WorkspaceOf <- MCWorkspaceOf
    MaxGen = 3
    MaxAttempts = 3
    MaxConcurrency = 2
    MaxShells = 1
    Builds = {TRUE, FALSE}
    RespKinds = {"ok", "badResult", "unavailable", "notStarted", "badFrame"}
SYMMETRY ShellSymmetry
CONSTRAINT Explored
INVARIANTS
    NotStartedIsTrue
    NoStrandedWaiter
    OkWasExecuted
    ExecutedAtMost
    ShellLeaseExact
PROPERTIES
    SettledIsFinal
CHECK_DEADLOCK FALSE
