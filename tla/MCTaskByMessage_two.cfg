SPECIFICATION Spec
CONSTANTS
    h1 = h1
    none = none
    Items = 1
    Members = 1
    Hint <- OneHint
    ItemFit <- NameFits
    MemberFit <- NameFits
    NoHint = none
    MaxStock = 2
    MaxMessages = 4
    MaxTasks = 1
    MaxChanges = 0
INVARIANTS
    QuantityIsTaken
CHECK_DEADLOCK FALSE
