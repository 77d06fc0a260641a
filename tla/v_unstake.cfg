SPECIFICATION StakingSpec
CONSTANTS
    Nil = Nil
    Wallets = {a, b}
    Admins = {a}
    Referrers = {}
    ParamChoices <- HalfToStakers
    SolansChoices = {}
    BuybackAmounts = {}
    UsdcPurse = 4
    SolansPurse = 2
    FeeAmounts = {2}
    AccScale = 1000000
    StakeAmounts = {1}
INVARIANTS StakeWithdrawable
