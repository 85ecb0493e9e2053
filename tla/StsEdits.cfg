\* The user edits at any time; patches fail and the operator restarts.
CONSTANTS
    MaxReplicas = 3
    MaxEdits = 2
    MaxFaults = 1
    Policy = "ParallelUpSafeDown"
    HABeforeUpdate = TRUE
    StaleReads = FALSE
    EditsOverlap = TRUE
    LegacyStatefulSet = FALSE
SPECIFICATION FairSpec
INVARIANTS NothingForgotten NothingHeldBack
PROPERTIES RollsOutInOrder ScalingProtectsMembers EventuallyConverges
CHECK_DEADLOCK FALSE
