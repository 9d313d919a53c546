\* What CanSpend answers: see MCQueries.
SPECIFICATION QuerySpec
CONSTANTS
    U64 = 16
    SecondsPerDay = 1
    SecondsPerMonth = 2
    MaxUint128 = 15
    HomeNetwork = "local"
    Markets = {2}
    Dex <- MCDex
    Denom <- MCDenom
    Names <- MCNames
    Addr <- MCAddr
    Proxy = "proxy"
    RepayWallet = "lender"
    AuthorizedContracts = {"drink"}
    Contracts = {"drink"}
    NativeDenoms <- MCNativeDenoms
    Genesis <- MCGenesis
    Instantiations <- QueryInstantiations
    Calls <- QueryCalls
    StartTime = 22
    MaxTime = 24
    MaxGas = 1
INVARIANTS
    RefusalIsFinal
    PromiseKept
