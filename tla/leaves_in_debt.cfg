\* Coins that leave in debt: see MCObiProxy.
SPECIFICATION Spec
CONSTANTS
    U64 = 16
    SecondsPerDay = 1
    SecondsPerMonth = 4
    MaxUint128 = 15
    HomeNetwork = "local"
    Markets = {2}
    Dex <- MCDex
    Denom <- MCDenom
    Names <- MCNames
    Addr <- MCAddr
    Proxy = "proxy"
    RepayWallet = "lender"
    AuthorizedContracts = {}
    Contracts = {"drink"}
    NativeDenoms <- MCNativeDenoms
    Genesis <- MCGenesis
    Instantiations <- DebtInstantiations
    Calls <- DebtCalls
    StartTime = 0
    MaxTime = 0
    MaxGas = 2
PROPERTY NothingLeavesInDebt
