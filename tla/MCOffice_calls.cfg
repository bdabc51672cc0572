SPECIFICATION PartsSpec
CONSTANTS
    c1 = c1
    c2 = c2
    v1 = v1
    v2 = v2
    win1 = win1
    win2 = win2
    none = none
    Call <- TwoCalls
    Vendor <- Vendors
    NoVendor = none
    MaxCalls = 5
    Window <- Windows
    Factory = {"f1", "f2"}
    Employee = {"e1"}
    SkipOtp = FALSE
    MaxVerifyAttempts = 1
    MaxStartCalls = 5
    MaxStartFaults = 1
    File = {"f1", "f2"}
    Sku = {"s1", "s2"}
    Place = {"p1"}
    Contents <- Files
    MaxImportRows = 2
    MaxBatches = 2
    MaxImportMessages = 4
    MaxImportRestarts = 1
    Items = 2
    Members = 2
    Hint = {"a", "b"}
    ItemFit <- ItemFits
    MemberFit <- MemberFits
    MaxStock = 2
    MaxOrderMessages = 4
    MaxTasks = 2
    MaxOrderChanges = 1
    State = {"s1", "s2"}
    MaxGrants = 2
    MaxLinkRows = 2
    MaxLinkCalls = 4
    MaxAging = 1
    MaxLinkRestarts = 1
    AlertEvent = {"low1", "low2", "sync"}
    ItemOf <- AlertItem
    Owners <- OwnerPhones
    Heads <- HeadPhones
    MaxAlertCalls = 2
    MaxAlertMessages = 2
    MaxAlertFaults = 1
    Person = {"owner", "w1", "w2"}
    Worker = {"w1", "w2"}
    MaxIssues = 2
    MaxDayCalls = 3
    Name = {"a", "b"}
    Phone = {"p", "q"}
    FirstRows <- RowsAtFirst
    MaxRegisterRows = 7
    MaxRegisterCalls = 2
INVARIANTS
    PartsTypeOK
    RequestIsAudited
    SetupHolds
    ImportedAsReviewed
    MadeAsConfirmed
    ConnectedAsAsked
    RegistersHold
    AlertsHold
PROPERTIES
    DecisionStands
SYMMETRY Symmetric
CHECK_DEADLOCK FALSE
