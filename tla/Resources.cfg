\* One object and the StatefulSet; edits at any time, one failure or restart.
CONSTANTS
    Names = {"service"}
    Fields = {"f", "g"}
    MaxEdits = 2
    MaxFaults = 1
SPECIFICATION FairSpec
INVARIANTS TypeOK StoreMatchesGeneration HashMeansApplied ObjectsAreExact NothingMissing
PROPERTIES EventuallyPresent
