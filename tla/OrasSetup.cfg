\* One job (jobs share nothing), a release built twice, and one fault.
CONSTANTS
    Versions <- MCVersions
    Targets <- MCTargets
    FirstTable <- MCFirstTable
    Jobs = {j1}
    Inputs <- MCInputs
    Runners <- MCRunners
    MaxRebuilds = 1
    MaxFaults = 1
    None = None
    Garbled = Garbled
    Unreadable = Unreadable
SPECIFICATION FairSpec
INVARIANTS TypeOK OnlyPinnedTools
PROPERTIES EntriesStay EventuallyTracked JobsEnd
CHECK_DEADLOCK FALSE
