SPECIFICATION KeeperSpec
CONSTANTS
    Nil = Nil
    Wallets = {a, b}
    Admins = {a}
    Referrers = {}
    ParamChoices <- InQuarters
    SolansChoices <- Dear
    BuybackAmounts = {}
    UsdcPurse = 10
    SolansPurse = 0
    Names = {n}
    ParentOf <- Flat
    Label <- Plain
    Keys = {}
    Values = {}
    Resolvers = {}
    Hosts = {}
    Mints = {}
    Controllers = {}
    ApproveAmounts = {10}
    Year = 1
    RenewalWindow = 0
    MaxRecords = 1
    MaxDepth = 2
    MaxTime = 1
    Watchlist <- Watched
    Sweeps = {s1, s2}
    KeeperYears = 1
PROPERTIES AutoRenewOnce YearsPaidFor DueIsRenewed
