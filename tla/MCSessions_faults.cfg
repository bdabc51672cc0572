SPECIFICATION PartsSpec
CONSTANTS
    m1 = m1
    m2 = m2
    Msg <- TwoMessages
    NumSteps = 3
    MakeAt = 2
    MaxSessions = 2
    MaxMessages = 4
    MaxStale = 1
    MaxSweeps = 2
    MaxCrashes = 1
    DocumentCall = {"c1", "c2"}
    Writes = 2
    PerRun = 2
    MaxCalls = 3
    MaxSuggestions = 2
    MaxMishaps = 1
INVARIANTS
    PartsTypeOK
    MadeAsRecorded
    DecidedAsApplied
PROPERTIES
    StaleSessionsEnd
    DecidedChangesNothing
    ProcessingEnds
CHECK_DEADLOCK FALSE
