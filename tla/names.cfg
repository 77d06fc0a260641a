SPECIFICATION NameCommandsSpec
CONSTANTS
    Nil = Nil
    Wallets = {a, b}
    Admins = {a}
    Referrers = {}
    ParamChoices <- OneGrace
    SolansChoices <- AtPar
    BuybackAmounts = {}
    UsdcPurse = 1
    SolansPurse = 1
    Names <- TwoNames
    ParentOf <- Two
    Label <- Plain
    Keys = {k}
    Values = {v}
    Resolvers = {}
    Hosts = {}
    Mints = {m1}
    Controllers = {a}
    ApproveAmounts = {1}
    Year = 1
    RenewalWindow = 0
    MaxRecords = 1
    MaxDepth = 2
    MaxTime = 3
    Prices = {}
    OfferAmounts = {}
    Reserves = {}
    Increments = {}
    Bids = {}
    Durations = {1}
    SolPurse = 0
    Extension = 1
    Users = {b}
INVARIANTS MarketTypeOK NftBacked ReverseBacked
PROPERTIES HandoverClears DeclaredWrites
