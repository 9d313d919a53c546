\* Spend limits: see MCObiProxy.
SPECIFICATION Spec
CONSTANTS
    U64 = 8
    SecondsPerDay = 1
    SecondsPerMonth = 4
    MaxUint128 = 15
    HomeNetwork = "local"
    Markets = {2}
    Dex <- MCDex
    Denom <- MCDenom
    Names <- MCNames
    Addr <- MCAddr
    Proxy = "proxy"
    RepayWallet = "lender"
    AuthorizedContracts = {"drink"}
    Contracts = {"drink"}
    NativeDenoms <- MCNativeDenoms
    Genesis <- MCGenesis
    Instantiations <- LimitInstantiations
    Calls <- LimitCalls
    StartTime = 0
    MaxTime = 4
    MaxGas = 2
INVARIANTS
    PeriodBudget
    SentWasCharged
    RolloverRate
    SpendingRate
PROPERTY ImplementsAccount
