CONSTANTS
    BlockStep = 2
    ProviderRange = 5
    maxBackOffCount = 1
    Watches <- MCWatches
    Contents <- MCSparse
    FirstBlocks = 4
    Faults = {}
    MaxBlocks = 6
    MaxFailures = 0
    MaxDisturbances = 0
    MaxDepth = 0
SPECIFICATION Spec
CHECK_DEADLOCK FALSE
INVARIANTS SubscriptionMeetsHistory
