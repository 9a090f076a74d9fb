SPECIFICATION LiveSpec
CONSTANTS
    Reads = {read}
    Shells = {}
    Edits = {}
    ws = ws
    Free = Free
    Calls <- MCCalls
    Retryable = {read}
    ShellCalls = {}
    Workspaces <- MCWorkspaces
    WorkspaceOf <- MCWorkspaceOf
    MaxGen = 2
    MaxAttempts = 2
    MaxConcurrency = 1
    MaxShells = 1
    Builds = {TRUE}
    RespKinds = {"unavailable", "notStarted"}
INVARIANTS
    Inv
PROPERTIES
    CallsSettle
    OperationsEnd
CHECK_DEADLOCK FALSE
