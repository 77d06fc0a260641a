SPECIFICATION PoolCommandsSpec
CONSTANTS
    Nil = Nil
    Wallets = {a, b}
    Users = {a}
    Admins = {a}
    Referrers = {}
    ParamChoices <- Quarters
    FlagSets <- Flags
    SolansChoices <- TwoForOne
    BuybackAmounts = {1, 2}
    UsdcPurse = 5
    SolansPurse = 2
    FeeAmounts = {5}
    AccScale = 1000000
    StakeAmounts = {1}
INVARIANTS StakingTypeOK PoolBooks PositionsAddUp PayInNeedsBurnPool QuotesAgree
PROPERTIES NewcomerEarnsNothing SettledInFull TreasuryAlwaysPaid BuybackAtPrice PoolWritesDeclared
