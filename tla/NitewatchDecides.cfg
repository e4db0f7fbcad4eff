CONSTANTS
    alice = alice
    bob = bob
    zeroAddress = zeroAddress
    usdc = usdc
    dai = dai
    neodax = neodax
    Quorums = {0, 2}
    Signers = {neodax}
    Zero = zeroAddress
    NoLimit = NoLimit
    Hour = 1
    Day = 2
    MaxTime = 3
    MaxBoots = 1
    MaxPending = 3
    Faults = {"send", "transfer", "dbread", "answer"}
    Accounts <- MCAccounts
    Tokens <- MCTokens
    Requests <- MCOddRequests
    Funds <- MCFunds
    GlobalLimits <- MCGlobalLimits
    UserOverrides <- MCUserOverrides
SPECIFICATION FairSpec
CHECK_DEADLOCK FALSE
INVARIANTS RecordsArePaid PaidIsGranted RejectedIsRejected
PROPERTIES UpcomingDecided
