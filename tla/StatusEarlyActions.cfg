\* The user stops and starts the deployment without waiting.
CONSTANTS
    MaxReplicas = 1
    MaxEdits = 2
    MaxFaults = 0
    MayWait = TRUE
    StaleReads = FALSE
    EditsOverlap = TRUE
SPECIFICATION Spec
PROPERTIES ActionsAfterReady
CHECK_DEADLOCK FALSE
