CONSTANTS
    desk = desk
    watcher = watcher
    usdc = usdc
    zeroAddress = zeroAddress
    Zero = zeroAddress
    Supply = 2
    MaxDepth = 2
    Accounts <- MCAccounts
    ERC20s <- MCERC20s
    admin = desk
    neodax = desk
    nitewatch = watcher
    RoleChanges <- MCRoleChanges
    Requests <- MCRequests
SPECIFICATION Spec
INVARIANTS TypeOK PendingIntact CreditsBacked
PROPERTY ImplementsLifecycle
