\* The default policy; the user waits for an edit to be rolled out, the operator
\* may read from a cache that lags.  The first edit finds a StatefulSet of an
\* operator <= 3.4.3, the others a current one.
CONSTANTS
    MaxReplicas = 4
    MaxEdits = 3
    MaxFaults = 1
    Policy = "ParallelUpSafeDown"
    HABeforeUpdate = TRUE
    StaleReads = TRUE
    EditsOverlap = FALSE
    LegacyStatefulSet = TRUE
SPECIFICATION Spec
INVARIANTS TypeOK NoDataLoss OneMemberLeavesAtATime NothingForgotten
PROPERTIES ScalingProtectsMembers
CHECK_DEADLOCK FALSE
