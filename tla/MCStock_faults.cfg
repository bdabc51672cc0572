SPECIFICATION PartsSpec
CONSTANTS
    c1 = c1
    c2 = c2
    c3 = c3
    none = none
    NumItems = 2
    Call <- ThreeCalls
    NoCall = none
    Plans <- MCPlans
    Opening <- MCOpening
    Threshold <- MCThreshold
    MaxFaults = 2
    Task <- MCTasks
    NoTask = none
    LinesOf <- MCLinesOf
    Completer = {c1, c2}
    MaxReopens = 1
    MaxCompletionFaults = 1
INVARIANTS
    PartsTypeOK
    NoLostUpdate
    AlertsMatchCrossings
    CompletionBooksOnce
PROPERTIES
    CallsEnd
    BooksAtomically
CHECK_DEADLOCK FALSE
