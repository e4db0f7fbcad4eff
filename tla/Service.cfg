CONSTANTS
    alice = alice
    usdc = usdc
    dai = dai
    custody = custody
    Empty = Empty
    AddressOf <- MCAddressOf
    SchemeOf <- MCSchemeOf
    AmountOf <- MCAmountOf
    Keys <- MCKeys
    Files <- MCFiles
    Environments <- MCEnvironments
    Faults = {"read", "dial", "database", "chainID", "listen", "drain"}
SPECIFICATION Spec
CHECK_DEADLOCK FALSE
INVARIANTS TypeOK ValidatedParses DatabasePersists EnforcedAsConfigured WorkerServes ExitLeavesNothing
PROPERTIES CancelledExits
