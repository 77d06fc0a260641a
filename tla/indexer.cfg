SPECIFICATION IndexerSpec
CONSTANTS
    Nil = Nil
    Wallets = {a, b}
    Admins = {a}
    Referrers = {}
    ParamChoices <- NoGrace
    SolansChoices <- AtPar
    BuybackAmounts = {}
    UsdcPurse = 1
    SolansPurse = 1
    Names <- TwoNames
    ParentOf <- Two
    Label <- Plain
    Keys = {}
    Values = {}
    Resolvers = {}
    Hosts = {}
    Mints = {}
    Controllers = {}
    ApproveAmounts = {}
    Year = 1
    RenewalWindow = 0
    MaxRecords = 1
    MaxDepth = 2
    MaxTime = 1
    Prices = {10}
    OfferAmounts = {}
    Reserves = {}
    Increments = {}
    Bids = {}
    Durations = {1}
    SolPurse = 10
    Extension = 1
    MaxLog = 4
    MaxExpiry = 3
INVARIANTS ReplayAgrees LabelsTrue
