SPECIFICATION Spec
CONSTANTS
    Call = {c1}
    Writes = 2
    PerRun = 1
    MaxCalls = 3
    MaxSuggestions = 1
    MaxMishaps = 1
INVARIANTS
    RejectedChangedNothing
CHECK_DEADLOCK FALSE
