SPECIFICATION Spec
CONSTANTS
    A = A
    B = B
    None = None
    Revisions = {A, B}
    Processes = {1, 2, 3}
    Started <- MCStarted
    RevisionOf <- MCRevisionOf
    Legacy = {}
    MaxGen = 2
    Requests = {r1}
    ToolCalls = {r1}
    MaxChanges = 2
    MaxRestarts = 1
CONSTRAINT Explored
INVARIANTS
    WakeRestores
    CompatibilityFresh
    Inv
    PendingIsLive
    GraceUnlessChanged
PROPERTIES
    ActiveChangeIsServed
CHECK_DEADLOCK FALSE
