\* The user waits for an edit to be rolled out; calls and Pods fail.
CONSTANTS
    MaxReplicas = 2
    MaxEdits = 2
    MaxFaults = 1
    MayWait = TRUE
    StaleReads = FALSE
    EditsOverlap = FALSE
SPECIFICATION Spec
INVARIANTS TypeOK PhaseOwnsConditions NothingUntold
PROPERTIES ActionsAfterReady ActionsOnce
CHECK_DEADLOCK FALSE
