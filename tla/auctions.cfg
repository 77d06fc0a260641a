SPECIFICATION SaleCommandsSpec
CONSTANTS
    Nil = Nil
    Wallets = {a, b, c}
    Admins = {a}
    Referrers = {}
    ParamChoices <- NoGrace
    SolansChoices <- Dear
    BuybackAmounts = {}
    UsdcPurse = 0
    SolansPurse = 20
    Names = {n}
    ParentOf <- Flat
    Label <- Plain
    Keys = {}
    Values = {}
    Resolvers = {}
    Hosts = {}
    Mints = {}
    Controllers = {}
    ApproveAmounts = {}
    Year = 4
    RenewalWindow = 0
    MaxRecords = 1
    MaxDepth = 2
    MaxTime = 3
    Prices = {}
    OfferAmounts = {}
    Reserves = {0, 20}
    Increments = {0, 10}
    Bids = {0, 10, 20}
    Durations = {1}
    SolPurse = 0
    Extension = 2
    Users = {b}
INVARIANTS EscrowsFunded
PROPERTIES BidsMoveForward DeclaredWrites AtomicSales
