SPECIFICATION PartsSpec
CONSTANTS
    owner = owner
    m1 = m1
    m2 = m2
    w1 = w1
    nobody = nobody
    d1 = d1
    d2 = d2
    nodept = nodept
    c1 = c1
    c2 = c2
    Person <- People
    Nobody = nobody
    Dept <- Depts
    NoDept = nodept
    Role <- Roles
    WorksIn <- Attached
    FirstHead <- Heads
    Call <- Calls
    MaxCalls = 2
    MaxHandovers = 1
    a1 = a1
    b1 = b1
    t1 = t1
    Account <- Accounts
    Department <- Depts
    Job <- OneTask
    Owner = owner
    Stranger <- Others
    MaxTeamCalls = 3
    Colleague <- Colleagues
    MaxItems = 2
    MaxMessages = 7
    MaxChanges = 1
    Phrase <- Phrases
    Signals <- SignalsOf
    Text <- Texts
    MaxSteps = 3
INVARIANTS
    PartsTypeOK
    RoutedByTheHead
    TeamHolds
    MadeAsAnswered
PROPERTIES
    RoutedTaskHasItsOwner
    UnderstoodInOrder
SYMMETRY Symmetric
CHECK_DEADLOCK FALSE
