CONSTANTS
    BlockStep = 2
    ProviderRange = 2
    maxBackOffCount = 1
    Watches <- MCWatches
    Contents <- MCContents
    FirstBlocks = 2
    Faults = {"advise", "fail", "cancel", "drop", "reorg"}
    MaxBlocks = 4
    MaxFailures = 2
    MaxDisturbances = 1
    MaxDepth = 2
SPECIFICATION FairSpec
CHECK_DEADLOCK FALSE
INVARIANTS TypeOK HandledOnce ReconcileExact
PROPERTIES RetreatsToReplaced ReconcileEnds CatchesUp ImplementsEventListener ImplementsFeed
