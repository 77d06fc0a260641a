SPECIFICATION ResolverSpec
CONSTANTS
    Nil = Nil
    Wallets = {a, b}
    Admins = {a}
    Referrers = {}
    ParamChoices <- NoGrace
    SolansChoices <- Dear
    BuybackAmounts = {}
    UsdcPurse = 2
    SolansPurse = 0
    Names <- TreeNames
    ParentOf <- Tree
    Label <- Plain
    Keys = {}
    Values = {}
    Resolvers = {}
    Hosts = {}
    Mints = {}
    Controllers = {}
    ApproveAmounts = {}
    Year = 1
    RenewalWindow = 0
    MaxRecords = 1
    MaxDepth = 2
    MaxTime = 2
    Requests = {q1}
    TTL = 1
    AskedNames = {"x"}
    AskedWallets = {b}
    Registrants = {a}
INVARIANTS TenureOrder
PROPERTIES ClaimCutsSubtree WalkSound CacheSettles
