SPECIFICATION PartsSpec
CONSTANTS
    mapped = mapped
    unmapped = unmapped
    h1 = h1
    h2 = h2
    t1 = t1
    t2 = t2
    none = none
    Movement <- TwoMovements
    Mapped <- MappedOnly
    Consumer <- TwoHandlers
    Ticker <- TwoTicks
    NoMovement = none
    MaxAttempts = 3
    MaxInvocations = 2
    MaxDisconnects = 1
    MaxRefreshFailures = 1
    MaxLostAnswers = 1
    MaxShared = 1
    MaxFaults = 1
    i1 = i1
    i2 = i2
    s1 = s1
    s2 = s2
    s3 = s3
    nightly = nightly
    user = user
    Item <- Items
    NoItem = none
    Sku <- Skus
    NoSku = none
    FirstSku <- SkuOf
    LocalSkus <- OwnSkus
    Unusable = {}
    InStock <- Stocked
    Cron <- OneCron
    Manual <- OneUser
    Interval = 1
    MaxRuns = 2
    MaxTime = 1
    MaxRenames = 1
    MaxMishaps = 1
INVARIANTS
    PartsTypeOK
    AdjustedAsRecorded
    PulledOnce
PROPERTIES
    EveryDeliverySettles
    ItemsArrive
CHECK_DEADLOCK FALSE
