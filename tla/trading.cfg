SPECIFICATION TradingSpec
CONSTANTS
    Nil = Nil
    Wallets = {a, b}
    Admins = {a}
    Referrers = {}
    ParamChoices <- NoGrace
    SolansChoices <- Dear
    BuybackAmounts = {}
    UsdcPurse = 1
    SolansPurse = 0
    Names = {n}
    ParentOf <- Flat
    Label <- Plain
    Keys = {}
    Values = {}
    Resolvers = {}
    Hosts = {}
    Mints = {}
    Controllers = {}
    ApproveAmounts = {}
    Year = 1
    RenewalWindow = 0
    MaxRecords = 1
    MaxDepth = 2
    MaxTime = 2
    Prices = {5, 10}
    OfferAmounts = {10}
    Reserves = {}
    Increments = {}
    Bids = {}
    Durations = {1}
    SolPurse = 10
    Extension = 1
    Users = {b}
INVARIANTS FrozenHasSale EscrowsFunded
PROPERTIES OfferAllOrNothing ListedSoldForPay BuyerPaysPriceRead DeclaredWrites AtomicSales
