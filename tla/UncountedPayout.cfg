CONSTANTS
    alice = alice
    bob = bob
    zeroAddress = zeroAddress
    usdc = usdc
    dai = dai
    neodax = neodax
    Quorums = {0}
    Signers = {}
    Zero = zeroAddress
    NoLimit = NoLimit
    Hour = 1
    Day = 2
    MaxTime = 1
    MaxBoots = 2
    MaxPending = 3
    Faults = {"crash"}
    Accounts <- MCAccounts
    Tokens <- MCTokens
    Requests <- MCTwoRequests
    Funds <- MCFunds
    GlobalLimits <- MCGlobalLimits
    UserOverrides <- MCUserOverrides
SPECIFICATION Spec
CHECK_DEADLOCK FALSE
INVARIANTS PaidWithinLimits
