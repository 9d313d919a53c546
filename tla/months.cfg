\* Monthly limits: see MCObiProxy.
SPECIFICATION Spec
CONSTANTS
    U64 = 16
    SecondsPerDay = 1
    SecondsPerMonth = 2
    MaxUint128 = 15
    HomeNetwork = "local"
    Markets = {2}
    Dex <- MCDex
    Denom <- MCDenom
    Names <- MCNames
    Addr <- MCAddr
    Proxy = "proxy"
    RepayWallet = "lender"
    AuthorizedContracts = {}
    Contracts = {}
    NativeDenoms <- MCNativeDenoms
    Genesis <- MCGenesis
    Instantiations <- MonthInstantiations
    Calls <- MonthCalls
    StartTime = 20
    MaxTime = 30
    MaxGas = 2
INVARIANTS
    PeriodBudget
    RolloverRate
    SpendingRate
