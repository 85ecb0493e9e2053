\* A user who scales to zero, deletes, and changes his mind; one fault.
CONSTANTS
    Members = 2
    MaxEdits = 2
    MaxFaults = 1
SPECIFICATION FairSpec
INVARIANTS TypeOK CleanShutdown NoWishForgotten
PROPERTIES EventuallyAsWished EventuallyServing
CHECK_DEADLOCK FALSE
