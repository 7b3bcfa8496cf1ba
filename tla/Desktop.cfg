\* Two Nodes after each other, one reconnection each.
CONSTANTS
    MaxStarts = 2
    MaxAttempts = 1
    InCap = 1
    OutCap = 1
SPECIFICATION Spec
CHECK_DEADLOCK FALSE
INVARIANTS
    OnlyHeldNodeRuns
    RunningMeansUp
    RestIsDisconnected
PROPERTIES
    RecoveryReplaces
