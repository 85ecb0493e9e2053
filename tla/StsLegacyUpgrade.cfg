\* A StatefulSet made by an operator <= 3.4.3 is scaled down and updated in one edit.
CONSTANTS
    MaxReplicas = 3
    MaxEdits = 1
    MaxFaults = 0
    Policy = "ParallelUpSafeDown"
    HABeforeUpdate = TRUE
    StaleReads = FALSE
    EditsOverlap = FALSE
    LegacyStatefulSet = TRUE
SPECIFICATION FairSpec
PROPERTIES UpgradesNextTime
CHECK_DEADLOCK FALSE
