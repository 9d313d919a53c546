\* The fee debt: see MCObiProxy.
SPECIFICATION Spec
CONSTANTS
    U64 = 16
    SecondsPerDay = 1
    SecondsPerMonth = 4
    MaxUint128 = 15
    HomeNetwork = "local"
    Markets = {1, 2}
    Dex <- MCDex
    Denom <- MCDenom
    Names <- MCNames
    Addr <- MCAddr
    Proxy = "proxy"
    RepayWallet = "lender"
    AuthorizedContracts = {}
    Contracts = {"drink"}
    NativeDenoms <- MCNativeDenoms
    Genesis <- MCGenesis
    Instantiations <- DebtInstantiations
    Calls <- DebtCalls
    StartTime = 0
    MaxTime = 1
    MaxGas = 4
INVARIANTS
    FeesConserved
    PricesInUsdc
PROPERTIES
    DebtFirst
    NotOverpaid
    OnlyForTheKnown
