SPECIFICATION Spec
CONSTANTS
    Nil = Nil
    Wallets = {a, b}
    Admins = {a}
    Referrers = {}
    ParamChoices <- NoGrace
    SolansChoices <- Dear
    BuybackAmounts = {}
    UsdcPurse = 1
    SolansPurse = 1
    Names = {n}
    ParentOf <- Flat
    Label <- Plain
    Keys = {}
    Values = {v}
    Resolvers = {}
    Hosts = {h}
    Mints = {m1}
    Controllers = {}
    ApproveAmounts = {}
    Year = 1
    RenewalWindow = 0
    MaxRecords = 1
    MaxDepth = 2
    MaxTime = 2
    Prices = {1}
    OfferAmounts = {1}
    Reserves = {0}
    Increments = {0}
    Bids = {1}
    Durations = {1}
    SolPurse = 1
    Extension = 1
INVARIANTS EscrowsFunded FrozenHasSale
PROPERTIES SaleFreezes AtomicSales
