SPECIFICATION PartsSpec
CONSTANTS
    c1 = c1
    c2 = c2
    c3 = c3
    none = none
    NumItems = 2
    Call = {c1}
    NoCall = none
    Plans = {}
    Opening <- MCOpening
    Threshold <- MCThreshold
    MaxFaults = 0
    Task <- MCTasks
    NoTask = none
    LinesOf <- MCLinesOf
    Completer = {c1, c2}
    MaxReopens = 0
    MaxCompletionFaults = 0
INVARIANTS
    BookedOnce
CHECK_DEADLOCK FALSE
