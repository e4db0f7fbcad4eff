CONSTANTS
    ann = ann
    ben = ben
    cat = cat
    usdc = usdc
    zeroAddress = zeroAddress
    Contracts = {"QuorumCustody", "ThresholdCustody"}
    Zero = zeroAddress
    Accounts <- MCAccounts
    ERC20s <- MCERC20s
    Requests <- MCRequests
    initialSigners <- MCInitialSigners
    initialQuorum = 2
    Changes <- MCChanges
    OPERATION_EXPIRY = 0
    Fees = {0}
    Supply = 1
    MaxTime = 2
    MaxDepth = 1
    MaxChanges = 3
    MaxSignatures = 2
SPECIFICATION Spec
INVARIANTS TypeOK SignersConsistent SignaturesUsedOnce
PROPERTIES PaidByQuorum ImplementsLifecycle
