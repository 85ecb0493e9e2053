\* A patch of the StatefulSet is put off; nothing fails.
CONSTANTS
    Names = {"service"}
    Fields = {"f", "g"}
    MaxEdits = 1
    MaxFaults = 0
SPECIFICATION FairSpec
PROPERTIES EventuallyUpgraded
