\* The user edits at any time; one call or Pod fails, or the operator restarts;
\* reconciles may read old copies from the informers.  The start quorum is met.
CONSTANTS
    MaxReplicas = 1
    MaxEdits = 1
    MaxFaults = 1
    MayWait = FALSE
    StaleReads = TRUE
    EditsOverlap = TRUE
SPECIFICATION FairSpec
INVARIANTS NothingUntold
PROPERTIES EventuallyReported
CHECK_DEADLOCK FALSE
