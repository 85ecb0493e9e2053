\* One edit of the storage, and one fault.
CONSTANTS
    Names <- MCNames
    Pods <- MCPods
    Owner <- MCOwner
    Node <- MCNode
    Quorum <- MCQuorum
    MaxEdits <- MCMaxEdits
    MaxFaults = 1
SPECIFICATION FairSpec
INVARIANTS TypeOK OneNodeAtATime StartsInOrder NothingForgotten
PROPERTIES Exclusive UpgradeCompletes EventuallyStarted
CHECK_DEADLOCK FALSE
