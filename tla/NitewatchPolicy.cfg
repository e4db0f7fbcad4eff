CONSTANTS
    alice = alice
    bob = bob
    zeroAddress = zeroAddress
    usdc = usdc
    dai = dai
    neodax = neodax
    Quorums = {0}
    Signers = {}
    Zero = zeroAddress
    NoLimit = NoLimit
    Hour = 1
    Day = 2
    MaxTime = 2
    MaxBoots = 1
    MaxPending = 3
    Faults = {"send", "transfer", "disconnect"}
    Accounts <- MCAccounts
    Tokens <- MCTokens
    Requests <- MCRequests
    Funds <- MCFunds
    GlobalLimits <- MCGlobalLimits
    UserOverrides <- MCUserOverrides
SPECIFICATION Spec
CHECK_DEADLOCK FALSE
INVARIANTS PaidWithinLimits
