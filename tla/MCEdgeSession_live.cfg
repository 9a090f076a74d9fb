SPECIFICATION FairSpec
CONSTANTS
    A = A
    B = B
    None = None
    Revisions = {A}
    Processes = {1, 2}
    Started <- MCStarted
    RevisionOf <- MCRevisionOf
    Legacy = {1}
    MaxGen = 1
    Requests = {r1, r2}
    ToolCalls = {r1}
    MaxChanges = 0
    MaxRestarts = 1
PROPERTIES
    EveryRequestAnswered
CHECK_DEADLOCK FALSE
