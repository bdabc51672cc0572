SPECIFICATION PartsSpec
CONSTANTS
    w1 = w1
    w2 = w2
    MaxEvents = 2
    Worker <- TwoWorkers
    Routed <- FirstRouted
    MaxAttempts = 2
    BatchLimit = 2
    MaxCaught = 3
    MaxCrashes = 1
    MaxDbErrors = 1
    identity = identity
    managers = managers
    t1 = t1
    o = o
    m = m
    wk = wk
    new = new
    old = old
    once = once
    Topic <- Topics
    Repeatable <- PerPerson
    Fields = 2
    MaxEntities = 2
    MaxMessages = 3
    MaxOthers = 1
    Task <- OneTask
    Person <- People
    Nobody = nobody
    Role <- RoleOf
    Name <- NameOf
    Reachable <- People
    MaxCalls = 2
    MaxColumns = 1
    MaxChanges = 3
    MaxFaults = 1
    Server <- Servers
    Job <- OneJob
    Image <- ImageOf
    MaxGateFaults = 1
    MaxByHand = 1
INVARIANTS
    PartsTypeOK
    CompletedWasHandled
    AttemptsNotOvercounted
    AnswersStandWhereAsked
    PeopleAreTold
    ServesOnWholeSchema
PROPERTIES
    EventsSettle
    WhatIsDueHappens
CHECK_DEADLOCK FALSE
