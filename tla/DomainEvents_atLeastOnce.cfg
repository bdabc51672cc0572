SPECIFICATION FairSpec
CONSTANTS
    MaxEvents = 1
    Worker = {w1}
    Routed = {1}
    MaxAttempts = 2
    BatchLimit = 1
    MaxCaught = 2
    MaxCrashes = 1
    MaxDbErrors = 0
PROPERTIES
    AtLeastOnceInvocation
CHECK_DEADLOCK FALSE
