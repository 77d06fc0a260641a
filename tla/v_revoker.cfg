SPECIFICATION Spec
CONSTANTS
    Nil = Nil
    Wallets = {a, b}
    Admins = {a}
    Referrers = {}
    ParamChoices <- OneGrace
    SolansChoices <- AtPar
    BuybackAmounts = {}
    UsdcPurse = 1
    SolansPurse = 0
    Names <- TreeNames
    ParentOf <- Tree
    Label <- Plain
    Keys = {}
    Values = {}
    Resolvers = {}
    Hosts = {}
    Mints = {m1}
    Controllers = {}
    ApproveAmounts = {}
    Year = 1
    RenewalWindow = 0
    MaxRecords = 1
    MaxDepth = 2
    MaxTime = 4
    Prices = {}
    OfferAmounts = {}
    Reserves = {}
    Increments = {}
    Bids = {}
    Durations = {1}
    SolPurse = 0
    Extension = 1
INVARIANTS RevokerControlsParent
