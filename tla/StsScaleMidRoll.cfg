\* Safe scaling while a rolling upgrade is under way.
CONSTANTS
    MaxReplicas = 3
    MaxEdits = 2
    MaxFaults = 0
    Policy = "Safe"
    HABeforeUpdate = TRUE
    StaleReads = FALSE
    EditsOverlap = TRUE
    LegacyStatefulSet = FALSE
SPECIFICATION Spec
INVARIANTS NoDataLoss
CHECK_DEADLOCK FALSE
