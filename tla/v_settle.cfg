SPECIFICATION Spec
CONSTANTS
    Nil = Nil
    Wallets = {a, b}
    Admins = {a}
    Referrers = {}
    ParamChoices <- NoGrace
    SolansChoices <- Dear
    BuybackAmounts = {}
    UsdcPurse = 1
    SolansPurse = 10
    Names = {n}
    ParentOf <- Flat
    Label <- Plain
    Keys = {}
    Values = {}
    Resolvers = {}
    Hosts = {}
    Mints = {}
    Controllers = {}
    ApproveAmounts = {}
    Year = 1
    RenewalWindow = 0
    MaxRecords = 1
    MaxDepth = 2
    MaxTime = 3
    Prices = {}
    OfferAmounts = {}
    Reserves = {10}
    Increments = {0}
    Bids = {10}
    Durations = {1}
    SolPurse = 0
    Extension = 1
INVARIANTS BidCanSettle
