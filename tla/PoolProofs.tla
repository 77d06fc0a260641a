----------------------------- MODULE PoolProofs -----------------------------
(***************************************************************************)
(* The theorems about the protocol's money and its staking pool, and about *)
(* the CLI's administration, buyback and staking commands, for every value *)
(* of the constants.  PoolInv is the inductive invariant of the pool: what *)
(* PoolBooks says of one position follows from the sum of all of them.     *)
(* CliInv adds the command in flight: whatever lands later than it was     *)
(* built keeps the protocol's books, and writes what it declares.          *)
(***************************************************************************)
EXTENDS PoolCommands, ProtocolProofs

\* Config from init_config on: an admissible split, the pay-in mint only
\* together with the vault the buyback spends, a discount below the whole.
ConfigOK ==
    config # Nil =>
        /\ ValidParams(config.params)
        /\ config.solans_mint => config.burn_vault = "burn_pool"
        /\ config.solans.discount < BPS_DENOMINATOR

\* The watermark and the principal.
PoolBacked ==
    /\ pool.last_reward_balance <= vault["staking_pool"]
    /\ stakeVault = pool.total_staked

PoolInv == StakingTypeOK /\ ConfigOK /\ PoolBacked /\ PositionsAddUp

\* What a step of the protocol does to the money.
MoneyStep ==
    /\ MoneyTypeOK' /\ ConfigOK'
    /\ vault'["staking_pool"] >= vault["staking_pool"]
    /\ PaysTreasury /\ PaysAtPrice

-----------------------------------------------------------------------------
(* The money. *)

\* What the pool invariant says of the money.
LEMMA PoolLedger ==
    ASSUME MoneyTypeOK, ConfigOK, config # Nil
    PROVE  LedgerOK
  BY DEF ConfigOK, LedgerOK

\* Money that does not move breaks nothing.
LEMMA MoneyStill ==
    ASSUME MoneyTypeOK, UNCHANGED <<usdc, solans, vault>>, config' \in Config \cup {Nil}, ConfigOK'
    PROVE  MoneyStep
  <1>1. usdc \in [Wallets -> Nat] /\ vault \in [Vaults -> Nat]
    BY DEF MoneyTypeOK
  <1>2. MoneyTypeOK'
    BY DEF MoneyTypeOK
  <1>3. \A w \in Wallets : ~(usdc[w] < usdc[w])
    BY <1>1
  <1>4. vault["staking_pool"] \in Nat /\ vault["burn_pool"] \in Nat
    BY <1>1 DEF Vaults
  <1> QED BY <1>2, <1>3, <1>4 DEF MoneyStep, PaysTreasury, PaysAtPrice

\* The admin's instructions and the two pool initialisers move no money; the
\* pay-in mint is recorded only by init_burn_pool, which repoints Config.
LEMMA ConfigStep ==
    ASSUME MoneyTypeOK, ConfigOK, NEW a \in Wallets,
           \/ \E p \in Params(Wallets), v \in FirstStakingVaults, u \in FirstBurnVaults :
                 InitConfig(a, p, v, u)
           \/ \E p \in Params(Wallets) : UpdateConfig(a, p)
           \/ \E s \in [rate: Nat, discount: Nat] : SetSolansParams(a, s)
           \/ \E b \in Wallets : TransferAdmin(a, b)
           \/ InitStakePool(a) \/ InitBurnPool(a)
    PROVE  MoneyStep
  <1> SUFFICES config' \in Config /\ ConfigOK' /\ UNCHANGED <<usdc, solans, vault>>
    BY MoneyStill
  <1>1. config # Nil => config \in Config
    BY DEF MoneyTypeOK
  <1>2. ASSUME NEW p \in Params(Wallets), NEW v \in FirstStakingVaults,
               NEW u \in FirstBurnVaults, InitConfig(a, p, v, u)
        PROVE  config' \in Config /\ ConfigOK' /\ UNCHANGED <<usdc, solans, vault>>
    BY <1>2 DEF InitConfig, NewConfig, Config, ConfigOK, BPS_DENOMINATOR
  <1>3. ASSUME NEW p \in Params(Wallets), UpdateConfig(a, p)
        PROVE  config' \in Config /\ ConfigOK' /\ UNCHANGED <<usdc, solans, vault>>
    BY <1>1, <1>3 DEF UpdateConfig, WithParams, Config, ConfigOK
  <1>4. ASSUME NEW s \in [rate: Nat, discount: Nat], SetSolansParams(a, s)
        PROVE  config' \in Config /\ ConfigOK' /\ UNCHANGED <<usdc, solans, vault>>
    BY <1>1, <1>4 DEF SetSolansParams, WithSolans, Config, ConfigOK, BPS_DENOMINATOR
  <1>5. ASSUME NEW b \in Wallets, TransferAdmin(a, b)
        PROVE  config' \in Config /\ ConfigOK' /\ UNCHANGED <<usdc, solans, vault>>
    BY <1>1, <1>5 DEF TransferAdmin, WithAdmin, Config, ConfigOK
  <1>6. ASSUME InitStakePool(a)
        PROVE  config' \in Config /\ ConfigOK' /\ UNCHANGED <<usdc, solans, vault>>
    BY <1>1, <1>6 DEF InitStakePool, Config, ConfigOK
  <1>7. ASSUME InitBurnPool(a)
        PROVE  config' \in Config /\ ConfigOK' /\ UNCHANGED <<usdc, solans, vault>>
    BY <1>1, <1>7 DEF InitBurnPool, Config, ConfigOK
  <1> QED BY <1>2, <1>3, <1>4, <1>5, <1>6, <1>7

\* A configuration that stays as it is stays admissible.
LEMMA ConfigStill ==
    ASSUME ConfigOK, config' = config
    PROVE  ConfigOK'
  BY DEF ConfigOK

\* buyback_burn pays out of the burn vault alone, and at most the price: the
\* division by the rate rounds down.
LEMMA BuybackMoney ==
    ASSUME MoneyTypeOK, ConfigOK, NEW k \in Wallets, NEW amount \in Nat, BuybackBurn(k, amount)
    PROVE  MoneyStep
  <1> DEFINE out == buyback_usdc(config.solans, amount)
             rate == config.solans.rate
  <1>0. config # Nil /\ LedgerOK
    BY PoolLedger DEF BuybackBurn
  <1>1. rate \in Nat \ {0}
    BY <1>0, LedgerFacts DEF BuybackBurn, solans_enabled
  <1>2. amount * SOLANS_RATE_SCALE \in Nat
    BY TimesNat DEF SOLANS_RATE_SCALE
  <1>3. out \in Nat /\ rate * out <= amount * SOLANS_RATE_SCALE
    BY <1>1, <1>2, DivNat DEF buyback_usdc
  <1>4. out * rate = rate * out
    BY <1>1, <1>3, Z3
  <1>5. /\ vault' = [vault EXCEPT !["burn_pool"] = @ - out]
        /\ usdc' = [usdc EXCEPT ![k] = @ + out]
        /\ solans' = [solans EXCEPT ![k] = @ - amount]
        /\ config' = config
    BY DEF BuybackBurn
  <1>6. MoneyTypeOK'
    BY <1>0, BuybackStep DEF LedgerOK
  <1>7. usdc \in [Wallets -> Nat] /\ solans \in [Wallets -> Nat] /\ vault \in [Vaults -> Nat]
    BY DEF MoneyTypeOK
  <1> HIDE DEF out, rate
  <1>8. \A w \in Wallets : ~(usdc'[w] < usdc[w])
    BY <1>3, <1>5, <1>7
  <1>9. vault["burn_pool"] - vault'["burn_pool"] = out
    BY <1>3, <1>5, <1>7 DEF Vaults
  <1>10. usdc'[k] - usdc[k] = out /\ solans[k] - solans'[k] = amount
    BY <1>3, <1>5, <1>7
  <1>11. PaysAtPrice
    BY <1>3, <1>4, <1>9, <1>10 DEF PaysAtPrice, rate
  <1>12. vault'["staking_pool"] >= vault["staking_pool"]
    BY <1>3, <1>5, <1>7 DEF Vaults
  <1> QED BY <1>5, <1>6, <1>8, <1>11, <1>12, ConfigStill DEF MoneyStep, PaysTreasury

\* distribute_fee only adds to the vaults, and to the treasury whenever the
\* payer is left with less.
LEMMA FeeMoney ==
    ASSUME MoneyTypeOK, ConfigOK, NEW payer \in Wallets, NEW referrer \in Wallets \cup {Nil},
           NEW amount \in Nat, PayFee(payer, referrer, amount)
    PROVE  MoneyStep
  <1> DEFINE s == fee_split(config.params, amount)
             ts == s.staking
             tb == s.burn
             tt == s.treasury
             tr == s.referral
             referral == IF referrer = Nil THEN 0 ELSE tr
             treasury == IF referrer = Nil THEN tt + tr ELSE tt
             paid == ts + tb + referral + treasury
  <1>0. LedgerOK
    BY PoolLedger DEF PayFee
  <1>1. ts \in Nat /\ tb \in Nat /\ tt \in Nat /\ tr \in Nat /\ tt + ts + tr + tb = amount
    BY <1>0, FeeSplitExact, LedgerFacts DEF LedgerOK
  <1>2. amount # 0 => tt > 0
    BY <1>0, <1>1, FeeSplitExact, LedgerFacts DEF LedgerOK
  <1>3. /\ usdc' = [w \in Wallets |->
                      usdc[w] - (IF w = payer THEN paid ELSE 0)
                              + (IF w = referrer THEN referral ELSE 0)]
        /\ vault' = [v \in Vaults |->
                       vault[v] + (IF v = config.staking_vault THEN ts ELSE 0)
                                + (IF v = config.burn_vault THEN tb ELSE 0)
                                + (IF v = "treasury" THEN treasury ELSE 0)]
        /\ config' = config
    BY DEF PayFee, DistributeFee
  <1>4. MoneyTypeOK'
    BY <1>0, DistributeFeeStep DEF PayFee, LedgerOK
  <1>5. usdc \in [Wallets -> Nat] /\ vault \in [Vaults -> Nat]
    BY DEF MoneyTypeOK
  <1> HIDE DEF s, ts, tb, tt, tr
  <1>6. referral \in Nat /\ treasury \in Nat /\ paid = amount
    BY <1>1
  <1>7. amount # 0 => treasury > 0
    BY <1>1, <1>2
  <1> HIDE DEF referral, treasury, paid
  <1>8. vault["treasury"] \in Nat /\ vault["staking_pool"] \in Nat /\ vault["burn_pool"] \in Nat
    BY <1>5 DEF Vaults
  <1>9. vault'["treasury"] >= vault["treasury"] + treasury
    BY <1>1, <1>3, <1>6, <1>8 DEF Vaults
  <1>10. PaysTreasury
    <2> SUFFICES ASSUME NEW w \in Wallets, usdc'[w] < usdc[w]
                 PROVE  vault'["treasury"] > vault["treasury"]
      BY DEF PaysTreasury
    <2>1. paid # 0
      BY <1>3, <1>5, <1>6
    <2>2. vault'["treasury"] \in Nat
      BY <1>4 DEF MoneyTypeOK, Vaults
    <2> QED BY <2>1, <2>2, <1>6, <1>7, <1>8, <1>9
  <1>11. /\ vault'["staking_pool"] >= vault["staking_pool"]
         /\ vault'["burn_pool"] >= vault["burn_pool"]
    BY <1>1, <1>3, <1>6, <1>8 DEF Vaults
  <1>12. PaysAtPrice
    <2>1. vault'["burn_pool"] \in Nat /\ vault["burn_pool"] \in Nat
      BY <1>4, <1>5 DEF MoneyTypeOK, Vaults
    <2> QED BY <2>1, <1>11 DEF PaysAtPrice
  <1> QED BY <1>3, <1>4, <1>10, <1>11, <1>12, ConfigStill DEF MoneyStep

\* Every step of the protocol outside the pool.
LEMMA TreasuryMoney ==
    ASSUME MoneyTypeOK, ConfigOK, TreasuryNext
    PROVE  MoneyStep
  <1>1. Referrers \subseteq Wallets /\ FeeAmounts \subseteq Nat /\ BuybackAmounts \subseteq Nat
    BY MoneyAssumption, FeeAssumption
  <1>0. /\ Admins \subseteq Wallets /\ ParamChoices \subseteq Params(Wallets)
        /\ SolansChoices \subseteq [rate: Nat, discount: Nat]
    BY MoneyAssumption
  <1>2. ASSUME NEW a \in Admins, NEW p \in ParamChoices, NEW v \in FirstStakingVaults,
               NEW u \in FirstBurnVaults, InitConfig(a, p, v, u)
        PROVE  MoneyStep
    BY <1>0, <1>2, ConfigStep
  <1>3. ASSUME NEW a \in Admins, InitStakePool(a) \/ InitBurnPool(a)
        PROVE  MoneyStep
    BY <1>0, <1>3, ConfigStep
  <1>4. ASSUME NEW w \in Wallets, NEW f \in Referrers \cup {Nil}, NEW a \in FeeAmounts,
               PayFee(w, f, a)
        PROVE  MoneyStep
    BY <1>1, <1>4, FeeMoney
  <1>5. ASSUME NEW a \in Admins, NEW p \in ParamChoices, UpdateConfig(a, p)
        PROVE  MoneyStep
    BY <1>0, <1>5, ConfigStep
  <1>6. ASSUME NEW a \in Admins, NEW s \in SolansChoices, SetSolansParams(a, s)
        PROVE  MoneyStep
    BY <1>0, <1>6, ConfigStep
  <1>7. ASSUME NEW a \in Admins, NEW b \in Admins, TransferAdmin(a, b)
        PROVE  MoneyStep
    BY <1>0, <1>7, ConfigStep
  <1>8. ASSUME NEW k \in Wallets, NEW a \in BuybackAmounts, BuybackBurn(k, a)
        PROVE  MoneyStep
    BY <1>1, <1>8, BuybackMoney
  <1> QED BY <1>2, <1>3, <1>4, <1>5, <1>6, <1>7, <1>8 DEF TreasuryNext, Governance

-----------------------------------------------------------------------------
(* The pool. *)

\* Nothing divided, and nothing multiplied, is nothing.
LEMMA Nothing ==
    ASSUME NEW d \in Nat \ {0}, NEW y \in Nat
    PROVE  0 * y = 0 /\ 0 \div d = 0
  BY Z3

\* The reward accrued on a stake is a natural number, and 0 on no stake.
LEMMA AccruedNat ==
    ASSUME NEW p \in StakePool, NEW amount \in Nat
    PROVE  accrued(p, amount) \in Nat /\ (amount = 0 => accrued(p, amount) = 0)
  <1>1. p.acc_reward_per_share \in Nat /\ AccScale \in Nat \ {0}
    BY StakingAssumption DEF StakePool
  <1>2. amount * p.acc_reward_per_share \in Nat
    BY <1>1, TimesNat
  <1>3. accrued(p, amount) \in Nat
    BY <1>1, <1>2, DivNat DEF accrued
  <1>4. ASSUME amount = 0 PROVE accrued(p, amount) = 0
    BY <1>1, <1>4, Nothing DEF accrued
  <1> QED BY <1>3, <1>4

\* What is pending on a stake is a natural number, and 0 on no stake.
LEMMA PendingNat ==
    ASSUME NEW p \in StakePool, NEW s \in StakeAccount \cup {Nil}
    PROVE  pending(p, s) \in Nat /\ (s # Nil /\ s.amount = 0 => pending(p, s) = 0)
  <1>1. CASE s = Nil
    BY <1>1 DEF pending
  <1>2. CASE s # Nil
    <2>1. s.amount \in Nat /\ s.reward_debt \in Nat
      BY <1>2 DEF StakeAccount
    <2>2. /\ accrued(p, s.amount) \in Nat
          /\ s.amount = 0 => accrued(p, s.amount) = 0
      BY <2>1, AccruedNat
    <2>3. pending(p, s) = SatSub(accrued(p, s.amount), s.reward_debt)
      BY <1>2 DEF pending
    <2> QED BY <2>1, <2>2, <2>3 DEF SatSub
  <1> QED BY <1>1, <1>2

\* sync: the total stays, the watermark moves to the balance, and the rewards
\* per share only change by what arrived since.
LEMMA SyncOK ==
    ASSUME NEW p \in StakePool, NEW b \in Nat
    PROVE  /\ sync(p, b) \in StakePool
           /\ sync(p, b).total_staked = p.total_staked
           /\ sync(p, b).last_reward_balance = b
           /\ p.last_reward_balance = b =>
                sync(p, b).acc_reward_per_share = p.acc_reward_per_share
  <1> DEFINE delta == SatSub(b, p.last_reward_balance)
             add == IF p.total_staked > 0 THEN (delta * AccScale) \div p.total_staked ELSE 0
  <1>1. /\ p.last_reward_balance \in Nat /\ p.total_staked \in Nat
        /\ p.acc_reward_per_share \in Nat /\ AccScale \in Nat \ {0}
    BY StakingAssumption DEF StakePool
  <1>2. delta \in Nat /\ (p.last_reward_balance = b => delta = 0)
    BY <1>1 DEF SatSub
  <1> HIDE DEF delta
  <1>3. add \in Nat
    <2>1. delta * AccScale \in Nat
      BY <1>1, <1>2, TimesNat
    <2>2. ASSUME p.total_staked > 0
          PROVE  (delta * AccScale) \div p.total_staked \in Nat
      <3>1. p.total_staked \in Nat \ {0}
        BY <1>1, <2>2
      <3> QED BY <2>1, <3>1, DivNat
    <2> QED BY <2>2
  <1>4. delta = 0 => add = 0
    <2>1. ASSUME delta = 0, p.total_staked > 0
          PROVE  (delta * AccScale) \div p.total_staked = 0
      <3>1. p.total_staked \in Nat \ {0}
        BY <1>1, <2>1
      <3> QED BY <1>1, <2>1, <3>1, Nothing
    <2> QED BY <2>1
  <1>5. sync(p, b) = [p EXCEPT !.acc_reward_per_share = @ + add, !.last_reward_balance = b]
    BY DEF sync, delta
  <1> HIDE DEF add
  <1>6. p.acc_reward_per_share + add \in Nat
    BY <1>1, <1>3
  <1>7. /\ sync(p, b) \in StakePool
        /\ sync(p, b).total_staked = p.total_staked
        /\ sync(p, b).last_reward_balance = b
        /\ sync(p, b).acc_reward_per_share = p.acc_reward_per_share + add
    BY <1>5, <1>6 DEF StakePool
  <1> QED BY <1>1, <1>2, <1>4, <1>7

\* The stakes as a function of the wallets.
Stakes == [w \in Wallets |-> Staked(w)]

\* What the type invariant says of the stakes.
LEMMA StakesNat ==
    ASSUME StakingTypeOK
    PROVE  Stakes \in [Wallets -> Nat]
  <1>1. \A w \in Wallets : position[w] \in StakeAccount \cup {Nil}
    BY DEF StakingTypeOK
  <1>2. \A w \in Wallets : Staked(w) \in Nat
    BY <1>1 DEF Staked, StakeAccount
  <1> QED BY <1>2 DEF Stakes

\* No position exceeds the total, since the positions add up to it.
LEMMA StakedWithinTotal ==
    ASSUME StakingTypeOK, PositionsAddUp, NEW w \in Wallets
    PROVE  Staked(w) \in Nat /\ Staked(w) <= pool.total_staked
  <1>1. Stakes \in [Wallets -> Nat] /\ IsFiniteSet(Wallets)
    BY StakesNat, StakingAssumption
  <1>2. Stakes[w] <= SumFunction(Stakes)
    BY <1>1, SumCovers
  <1>3. SumFunction(Stakes) = pool.total_staked
    BY DEF PositionsAddUp, Stakes
  <1>4. Stakes[w] = Staked(w) /\ Stakes[w] \in Nat
    BY <1>1 DEF Stakes
  <1> QED BY <1>2, <1>3, <1>4

\* One position changes, the total with it: the positions still add up.
LEMMA StillAddUp ==
    ASSUME StakingTypeOK, StakingTypeOK', PositionsAddUp, NEW w \in Wallets,
           \A y \in Wallets \ {w} : position'[y] = position[y],
           pool'.total_staked = pool.total_staked + Staked(w)' - Staked(w)
    PROVE  PositionsAddUp'
  <1>0. Stakes' \in [Wallets -> Nat]
    <2>1. \A y \in Wallets : position'[y] \in StakeAccount \cup {Nil}
      BY DEF StakingTypeOK
    <2>2. \A y \in Wallets : Staked(y)' \in Nat
      BY <2>1 DEF Staked, StakeAccount
    <2> QED BY <2>2 DEF Stakes
  <1>1. Stakes \in [Wallets -> Nat] /\ Stakes' \in [Wallets -> Nat] /\ IsFiniteSet(Wallets)
    BY <1>0, StakesNat, StakingAssumption
  <1>2. \A y \in Wallets \ {w} : Stakes'[y] = Stakes[y]
    BY DEF Stakes, Staked
  <1>3. Stakes \in [Wallets -> Int] /\ Stakes' \in [Wallets -> Int]
    BY <1>1
  <1>4. SumFunction(Stakes') = SumFunction(Stakes) + Stakes'[w] - Stakes[w]
    BY <1>1, <1>2, <1>3, SumMoves
  <1>5. Stakes[w] = Staked(w) /\ Stakes'[w] = Staked(w)'
    BY DEF Stakes
  <1>6. SumFunction(Stakes) = pool.total_staked
    BY DEF PositionsAddUp, Stakes
  <1>7. SumFunction(Stakes') = pool'.total_staked
    BY <1>4, <1>5, <1>6
  <1> QED BY <1>7 DEF PositionsAddUp, Stakes

\* What is due is a natural number, and nothing without a stake.
LEMMA DueNat ==
    ASSUME StakingTypeOK, NEW w \in Wallets
    PROVE  Due(w) \in Nat /\ (Staked(w) = 0 => Due(w) = 0)
  <1>1. /\ pool \in StakePool /\ vault["staking_pool"] \in Nat
        /\ position[w] \in StakeAccount \cup {Nil}
    BY DEF StakingTypeOK, MoneyTypeOK, Vaults
  <1>2. sync(pool, vault["staking_pool"]) \in StakePool
    BY <1>1, SyncOK
  <1>3. CASE position[w] = Nil
    BY <1>3 DEF Due, pending
  <1>4. CASE position[w] # Nil
    BY <1>1, <1>2, <1>4, PendingNat DEF Due, Staked
  <1> QED BY <1>3, <1>4

\* What Settle does, and what it leaves of the invariant: given that the
\* instruction moved the principal with the stake.
LEMMA SettleStep ==
    ASSUME PoolInv, NEW w \in Wallets, NEW amount \in Nat, Settle(w, amount),
           config' = config, solans' \in [Wallets -> Nat],
           stakeVault' = stakeVault + amount - Staked(w)
    PROVE  /\ PoolInv' /\ PaysTreasury /\ PaysAtPrice
           /\ PaysNoNewcomer /\ SettlesInFull
  <1> DEFINE b == vault["staking_pool"]
             p == sync(pool, b)
             due == Due(w)
             left == b - due
             pos == Position(p, w, amount)
  <1>0. StakingTypeOK /\ ConfigOK /\ PoolBacked /\ PositionsAddUp
    BY DEF PoolInv
  <1>1. /\ pool \in StakePool /\ position \in [Wallets -> StakeAccount \cup {Nil}]
        /\ usdc \in [Wallets -> Nat] /\ vault \in [Vaults -> Nat] /\ b \in Nat
        /\ stakeVault \in Nat /\ config \in Config \cup {Nil}
    BY <1>0 DEF StakingTypeOK, MoneyTypeOK, Vaults
  <1>2. p \in StakePool /\ p.total_staked = pool.total_staked
    BY <1>1, SyncOK
  <1>3. due \in Nat /\ (Staked(w) = 0 => due = 0)
    BY <1>0, DueNat
  <1>4. Staked(w) \in Nat /\ Staked(w) <= pool.total_staked
    BY <1>0, StakedWithinTotal
  <1>5. /\ due <= b
        /\ vault' = [vault EXCEPT !["staking_pool"] = left]
        /\ usdc' = [usdc EXCEPT ![w] = @ + due]
        /\ position' = [position EXCEPT ![w] = pos]
        /\ pool' = Rebased(p, w, amount, left)
    BY DEF Settle
  <1>6. pos = [amount |-> amount, reward_debt |-> accrued(p, amount)]
    BY DEF Position
  <1>7. accrued(p, amount) \in Nat
    BY <1>2, AccruedNat
  <1>8. pos \in StakeAccount /\ pos # Nil /\ pos.amount = amount
    <2>1. pos \in StakeAccount /\ pos.amount = amount
      BY <1>6, <1>7 DEF StakeAccount
    <2> QED BY <2>1, PositionAssumption
  <1> HIDE DEF b, p, due, pos
  <1>9. left \in Nat
    BY <1>1, <1>3, <1>5
  <1>10. /\ pool' \in StakePool /\ pool'.last_reward_balance = left
         /\ pool'.total_staked = pool.total_staked + amount - Staked(w)
         /\ pool'.acc_reward_per_share = p.acc_reward_per_share
    <2>1. pool' = [p EXCEPT !.total_staked = @ + amount - Staked(w), !.last_reward_balance = left]
      BY <1>5 DEF Rebased
    <2>2. pool.total_staked + amount - Staked(w) \in Nat
      BY <1>1, <1>4 DEF StakePool
    <2> HIDE DEF left
    <2> QED BY <1>2, <1>9, <2>1, <2>2 DEF StakePool
  <1>11. vault' \in [Vaults -> Nat] /\ vault'["staking_pool"] = left
    BY <1>1, <1>5, <1>9 DEF Vaults
  <1>12. usdc' \in [Wallets -> Nat]
    BY <1>1, <1>3, <1>5
  <1>13. position' \in [Wallets -> StakeAccount \cup {Nil}]
    BY <1>1, <1>5, <1>8
  <1>14. stakeVault' \in Nat /\ stakeVault' = pool'.total_staked
    BY <1>0, <1>1, <1>4, <1>10 DEF PoolBacked, StakePool
  <1>15. StakingTypeOK'
    BY <1>1, <1>10, <1>11, <1>12, <1>13, <1>14 DEF StakingTypeOK, MoneyTypeOK
  <1>16. PoolBacked'
    BY <1>9, <1>10, <1>11, <1>14 DEF PoolBacked
  <1>17. Staked(w)' = amount /\ \A y \in Wallets \ {w} : position'[y] = position[y]
    BY <1>1, <1>5, <1>8 DEF Staked
  <1>18. PositionsAddUp'
    BY <1>0, <1>10, <1>15, <1>17, StillAddUp
  <1>19. PoolInv'
    BY <1>0, <1>15, <1>16, <1>18, ConfigStill DEF PoolInv
  <1>20. PaysTreasury
    <2>1. \A y \in Wallets : ~(usdc'[y] < usdc[y])
      BY <1>1, <1>3, <1>5
    <2> QED BY <2>1 DEF PaysTreasury
  <1>21. PaysAtPrice
    <2>1. vault'["burn_pool"] = vault["burn_pool"] /\ vault["burn_pool"] \in Nat
      BY <1>1, <1>5 DEF Vaults
    <2> QED BY <2>1 DEF PaysAtPrice
  <1>22. PaysNoNewcomer
    <2> SUFFICES ASSUME NEW y \in Wallets, Staked(y) = 0, Staked(y)' > 0
                 PROVE  usdc'[y] <= usdc[y]
      BY DEF PaysNoNewcomer
    <2>1. y = w
      BY <1>17 DEF Staked
    <2> QED BY <1>1, <1>3, <1>5, <2>1
  <1>23. SettlesInFull
    <2> SUFFICES ASSUME NEW y \in Wallets, position'[y] # position[y]
                 PROVE  Due(y)' = 0
      BY DEF SettlesInFull
    <2>1. y = w /\ position'[y] = pos
      BY <1>1, <1>5, <1>17
    <2> DEFINE q == sync(pool', left)
    <2>2. q.acc_reward_per_share = p.acc_reward_per_share
      BY <1>9, <1>10, SyncOK
    <2>3. Due(y)' = pending(q, pos)
      BY <1>11, <2>1 DEF Due
    <2> HIDE DEF q
    <2>4. accrued(q, amount) = accrued(p, amount)
      BY <2>2 DEF accrued
    <2>5. pos.reward_debt = accrued(p, amount)
      BY <1>6
    <2>6. pending(q, pos) = SatSub(accrued(p, amount), accrued(p, amount))
      BY <1>8, <2>4, <2>5 DEF pending
    <2> QED BY <1>7, <2>3, <2>6 DEF SatSub
  <1> QED BY <1>19, <1>20, <1>21, <1>22, <1>23

\* stake: the principal moves into the stake vault with the position.
LEMMA StakeStep ==
    ASSUME PoolInv, NEW w \in Wallets, NEW amount \in Nat, Stake(w, amount)
    PROVE  /\ PoolInv' /\ PaysTreasury /\ PaysAtPrice
           /\ PaysNoNewcomer /\ SettlesInFull
  <1>1. /\ solans \in [Wallets -> Nat] /\ stakeVault \in Nat
        /\ StakingTypeOK /\ PositionsAddUp
    BY DEF PoolInv, StakingTypeOK, MoneyTypeOK
  <1>2. Staked(w) \in Nat
    BY <1>1, StakedWithinTotal
  <1>3. /\ Settle(w, Staked(w) + amount) /\ config' = config
        /\ amount <= solans[w] /\ solans' = [solans EXCEPT ![w] = @ - amount]
        /\ stakeVault' = stakeVault + amount
    BY DEF Stake
  <1>4. /\ Staked(w) + amount \in Nat /\ solans' \in [Wallets -> Nat]
        /\ stakeVault' = stakeVault + (Staked(w) + amount) - Staked(w)
    BY <1>1, <1>2, <1>3
  <1> QED BY <1>3, <1>4, SettleStep

\* unstake: the stake vault pays out no more than the position.
LEMMA UnstakeStep ==
    ASSUME PoolInv, NEW w \in Wallets, NEW amount \in Nat, Unstake(w, amount)
    PROVE  /\ PoolInv' /\ PaysTreasury /\ PaysAtPrice
           /\ PaysNoNewcomer /\ SettlesInFull
  <1>1. /\ solans \in [Wallets -> Nat] /\ stakeVault \in Nat
        /\ StakingTypeOK /\ PositionsAddUp
    BY DEF PoolInv, StakingTypeOK, MoneyTypeOK
  <1>2. Staked(w) \in Nat
    BY <1>1, StakedWithinTotal
  <1>3. /\ Settle(w, Staked(w) - amount) /\ config' = config
        /\ amount <= Staked(w) /\ solans' = [solans EXCEPT ![w] = @ + amount]
        /\ stakeVault' = stakeVault - amount
    BY DEF Unstake
  <1>4. /\ Staked(w) - amount \in Nat /\ solans' \in [Wallets -> Nat]
        /\ stakeVault' = stakeVault + (Staked(w) - amount) - Staked(w)
    BY <1>1, <1>2, <1>3
  <1> QED BY <1>3, <1>4, SettleStep

\* claim_rewards: the principal stays.
LEMMA ClaimStep ==
    ASSUME PoolInv, NEW w \in Wallets, ClaimRewards(w)
    PROVE  /\ PoolInv' /\ PaysTreasury /\ PaysAtPrice
           /\ PaysNoNewcomer /\ SettlesInFull
  <1>1. /\ solans \in [Wallets -> Nat] /\ stakeVault \in Nat
        /\ StakingTypeOK /\ PositionsAddUp
    BY DEF PoolInv, StakingTypeOK, MoneyTypeOK
  <1>2. Staked(w) \in Nat
    BY <1>1, StakedWithinTotal
  <1>3. /\ Settle(w, Staked(w)) /\ config' = config
        /\ solans' = solans /\ stakeVault' = stakeVault
    BY DEF ClaimRewards
  <1>4. solans' \in [Wallets -> Nat] /\ stakeVault' = stakeVault + Staked(w) - Staked(w)
    BY <1>1, <1>2, <1>3
  <1> QED BY <1>2, <1>3, <1>4, SettleStep

\* Money that moves elsewhere leaves the pool's books in order: the reward
\* vault only gains, which the pool notices at its next operation.
LEMMA ElsewhereStep ==
    ASSUME PoolInv, MoneyStep, UNCHANGED stakingVars
    PROVE  /\ PoolInv' /\ PaysTreasury /\ PaysAtPrice
           /\ PaysNoNewcomer /\ SettlesInFull
  <1>1. pool' = pool /\ position' = position /\ stakeVault' = stakeVault
    BY DEF stakingVars
  <1>2. StakingTypeOK'
    BY <1>1 DEF PoolInv, StakingTypeOK, MoneyStep
  <1>3. PoolBacked'
    <2>1. /\ vault["staking_pool"] \in Nat /\ vault'["staking_pool"] \in Nat
          /\ pool.last_reward_balance \in Nat
      BY <1>2 DEF PoolInv, StakingTypeOK, MoneyTypeOK, Vaults, StakePool
    <2> QED BY <1>1, <2>1 DEF PoolInv, PoolBacked, MoneyStep
  <1>4. PositionsAddUp'
    BY <1>1 DEF PoolInv, PositionsAddUp, Staked
  <1>5. \A w \in Wallets : Staked(w)' = Staked(w) /\ Staked(w) \in Nat
    BY <1>1, StakedWithinTotal DEF PoolInv, Staked
  <1>6. PaysNoNewcomer
    BY <1>5 DEF PaysNoNewcomer
  <1>7. SettlesInFull
    BY <1>1 DEF SettlesInFull
  <1> QED BY <1>2, <1>3, <1>4, <1>6, <1>7 DEF PoolInv, MoneyStep

\* Every step of the protocol.
LEMMA StakingStep ==
    ASSUME PoolInv, [StakingNext]_protocolVars
    PROVE  /\ PoolInv' /\ PaysTreasury /\ PaysAtPrice
           /\ PaysNoNewcomer /\ SettlesInFull
  <1> DEFINE Good == /\ PoolInv' /\ PaysTreasury /\ PaysAtPrice
                     /\ PaysNoNewcomer /\ SettlesInFull
  <1>0. MoneyTypeOK /\ ConfigOK
    BY DEF PoolInv, StakingTypeOK
  <1>1. ASSUME TreasuryNext, UNCHANGED stakingVars PROVE Good
    BY <1>0, <1>1, TreasuryMoney, ElsewhereStep
  <1>2. ASSUME NEW w \in Wallets, NEW a \in StakeAmounts, Stake(w, a) \/ Unstake(w, a) PROVE Good
    <2>1. a \in Nat
      BY StakingAssumption
    <2> QED BY <1>2, <2>1, StakeStep, UnstakeStep
  <1>3. ASSUME NEW w \in Wallets, ClaimRewards(w) PROVE Good
    BY <1>3, ClaimStep
  <1>4. ASSUME UNCHANGED protocolVars PROVE Good
    <2>1. UNCHANGED stakingVars /\ UNCHANGED <<usdc, solans, vault>> /\ config' = config
      BY <1>4 DEF protocolVars, moneyVars
    <2>2. config' \in Config \cup {Nil} /\ ConfigOK'
      BY <1>0, <2>1, ConfigStill DEF MoneyTypeOK
    <2> QED BY <1>0, <2>1, <2>2, MoneyStill, ElsewhereStep
  <1> QED BY <1>1, <1>2, <1>3, <1>4 DEF StakingNext

\* The empty ledger satisfies the invariant.
LEMMA StakingStart ==
    ASSUME StakingInit
    PROVE  PoolInv
  <1>1. config = Nil /\ usdc = [w \in Wallets |-> UsdcPurse]
        /\ solans = [w \in Wallets |-> SolansPurse] /\ vault = [v \in Vaults |-> 0]
    BY DEF StakingInit, ProtocolInit, MoneyInit
  <1>2. /\ pool = [total_staked |-> 0, acc_reward_per_share |-> 0, last_reward_balance |-> 0]
        /\ position = [w \in Wallets |-> Nil] /\ stakeVault = 0
    BY DEF StakingInit
  <1>3. MoneyTypeOK
    BY <1>1, MoneyAssumption DEF MoneyTypeOK
  <1>4. StakingTypeOK
    BY <1>2, <1>3 DEF StakingTypeOK, StakePool
  <1>5. ConfigOK
    BY <1>1 DEF ConfigOK
  <1>6. PoolBacked
    BY <1>1, <1>2 DEF PoolBacked, Vaults
  <1>7. PositionsAddUp
    <2>1. Stakes = [w \in Wallets |-> 0] /\ IsFiniteSet(Wallets)
      BY <1>2, StakingAssumption DEF Stakes, Staked
    <2>2. SumFunction(Stakes) = 0
      BY <2>1, SumZero
    <2> QED BY <1>2, <2>2 DEF PositionsAddUp, Stakes
  <1> QED BY <1>4, <1>5, <1>6, <1>7 DEF PoolInv

-----------------------------------------------------------------------------
(* The theorems. *)

\* PoolInv is an invariant of the protocol and its pool, and each step keeps
\* the promises of the split, the buyback and the pool.
THEOREM StakingInvariant ==
    StakingSpec => [](PoolInv) /\ [][PaysTreasury /\ PaysAtPrice
                                      /\ PaysNoNewcomer /\ SettlesInFull]_protocolVars
  <1>1. StakingInit => PoolInv
    BY StakingStart
  <1>2. PoolInv /\ [StakingNext]_protocolVars =>
          PoolInv' /\ [PaysTreasury /\ PaysAtPrice
                        /\ PaysNoNewcomer /\ SettlesInFull]_protocolVars
    BY StakingStep
  <1> QED BY <1>1, <1>2, PTL DEF StakingSpec

\* The ledger, the configuration and the pool stay well typed: no instruction
\* overdraws a wallet, a vault or a stake, and sync, the payout and the rebase
\* never go below 0.
THEOREM StakingTypeCorrect == StakingSpec => []StakingTypeOK
  <1>1. PoolInv => StakingTypeOK
    BY DEF PoolInv
  <1> QED BY <1>1, StakingInvariant, PTL

\* The total of the pool is the sum of the positions (stake, unstake).
THEOREM PoolTotalExact == StakingSpec => []PositionsAddUp
  <1>1. PoolInv => PositionsAddUp
    BY DEF PoolInv
  <1> QED BY <1>1, StakingInvariant, PTL

\* The watermark never passes the reward vault, the stake vault holds the
\* principal, and no position exceeds the total (sync, and the reload after
\* the payout).
THEOREM PoolBooksBalanced == StakingSpec => []PoolBooks
  <1>1. PoolInv => PoolBooks
    BY StakedWithinTotal DEF PoolInv, PoolBacked, PoolBooks
  <1> QED BY <1>1, StakingInvariant, PTL

\* Whenever fees can be paid in $SOLANS, the burn share reaches the vault the
\* buyback spends (init_burn_pool, set_solans_params in any order).
THEOREM PayInBacked == StakingSpec => []PayInNeedsBurnPool
  <1>1. PoolInv => PayInNeedsBurnPool
    BY DEF PoolInv, ConfigOK, PayInNeedsBurnPool, solans_enabled
  <1> QED BY <1>1, StakingInvariant, PTL

\* The treasury has a share in every payment, under every split the admin can
\* set (fee_split, distribute_fee).
THEOREM TreasuryPaid == StakingSpec => TreasuryAlwaysPaid
  <1>1. [PaysTreasury /\ PaysAtPrice /\ PaysNoNewcomer /\ SettlesInFull]_protocolVars
          => [PaysTreasury]_moneyVars
    BY DEF protocolVars
  <1> QED BY <1>1, StakingInvariant, PTL DEF TreasuryAlwaysPaid

\* The buyback never pays more than the price of what it burns (buyback_usdc,
\* buyback_burn).
THEOREM BuybackPriced == StakingSpec => BuybackAtPrice
  <1>1. [PaysTreasury /\ PaysAtPrice /\ PaysNoNewcomer /\ SettlesInFull]_protocolVars
          => [PaysAtPrice]_moneyVars
    BY DEF protocolVars
  <1> QED BY <1>1, StakingInvariant, PTL DEF BuybackAtPrice

\* A first stake pays nothing, whatever reached the vault before it (stake).
THEOREM NewcomerPaidNothing == StakingSpec => NewcomerEarnsNothing
  BY StakingInvariant, PTL DEF NewcomerEarnsNothing

\* After any of the three instructions nothing is pending (the rebase of the
\* debt and the watermark after the payout).
THEOREM SettlesDebts == StakingSpec => SettledInFull
  BY StakingInvariant, PTL DEF SettledInFull

-----------------------------------------------------------------------------
(* Commands that land late. *)

\* The instructions the commands of w build.  What update-config writes was
\* merged from a Config read earlier, so it need not be one of ParamChoices.
Built(w, ix) ==
    \/ \E p \in Params(Wallets), v \in FirstStakingVaults, u \in FirstBurnVaults :
          ix = getInitConfigInstruction(w, VaultAddress("treasury"), VaultAddress(v),
                                        VaultAddress(u), p)
    \/ \E p \in Params(Wallets) : ix = getUpdateConfigInstruction(w, p)
    \/ \E a \in Wallets : ix = getTransferAdminInstruction(w, a)
    \/ \E s \in [rate: Nat, discount: Nat] : ix = getSetSolansParamsInstruction(w, s)
    \/ ix = getInitStakePoolInstruction(w)
    \/ ix = getInitBurnPoolInstruction(w)
    \/ \E v \in Vaults, a \in Nat :
          ix = getBuybackBurnInstruction(w, VaultAddress(v), ataFor(w, PAYMENT_MINT),
                                         ataFor(w, SOLANS_MINT), a)
    \/ \E a \in Nat :
          \/ ix = buildStakeInstructions(w, PoolRead, a)[1]
          \/ ix = buildUnstakeInstructions(w, PoolRead, a)[1]
    \/ ix = buildClaimRewardsInstructions(w, PoolRead)[1]

TxBuilt == tx # Nil => tx.payer \in Wallets /\ Built(tx.payer, tx.ix)

CliInv == PoolInv /\ TxBuilt

\* What every step does.
PoolPromises == PaysTreasury /\ PaysAtPrice /\ PaysNoNewcomer /\ SettlesInFull

-----------------------------------------------------------------------------
(* The accounts of an instruction. *)

\* An account with its flag set is writable.
LEMMA WritableAt ==
    ASSUME NEW ix, NEW i \in DOMAIN ix.accounts, ix.accounts[i].writable
    PROVE  ix.accounts[i].address \in Writable(ix)
  BY DEF Writable, AccountAt

\* The instructions on Config are signed by w and may write Config.
LEMMA ConfigAccounts ==
    ASSUME NEW w, NEW p, NEW a, NEW s, NEW t, NEW v, NEW b, NEW ix,
           \/ ix = getInitConfigInstruction(w, t, v, b, p)
           \/ ix = getUpdateConfigInstruction(w, p)
           \/ ix = getTransferAdminInstruction(w, a)
           \/ ix = getSetSolansParamsInstruction(w, s)
           \/ ix = getInitStakePoolInstruction(w)
           \/ ix = getInitBurnPoolInstruction(w)
    PROVE  AccountAt(ix, 1) = w /\ findConfigPda \in Writable(ix)
  <1>1. /\ 2 \in DOMAIN ix.accounts /\ ix.accounts[1].address = w
        /\ ix.accounts[2].writable = TRUE /\ ix.accounts[2].address = findConfigPda
    <2>1. CASE ix = getInitConfigInstruction(w, t, v, b, p)
      BY <2>1 DEF getInitConfigInstruction, Instruction, WS, W, S, R, Meta
    <2>2. CASE ix = getUpdateConfigInstruction(w, p)
      BY <2>2 DEF getUpdateConfigInstruction, Instruction, WS, W, S, R, Meta
    <2>3. CASE ix = getTransferAdminInstruction(w, a)
      BY <2>3 DEF getTransferAdminInstruction, Instruction, WS, W, S, R, Meta
    <2>4. CASE ix = getSetSolansParamsInstruction(w, s)
      BY <2>4 DEF getSetSolansParamsInstruction, Instruction, WS, W, S, R, Meta
    <2>5. CASE ix = getInitStakePoolInstruction(w)
      BY <2>5 DEF getInitStakePoolInstruction, Instruction, WS, W, S, R, Meta
    <2>6. CASE ix = getInitBurnPoolInstruction(w)
      BY <2>6 DEF getInitBurnPoolInstruction, Instruction, WS, W, S, R, Meta
    <2> QED BY <2>1, <2>2, <2>3, <2>4, <2>5, <2>6
  <1> QED BY <1>1, WritableAt DEF AccountAt

\* buyback_burn may write the vault it names and the accounts of its keeper.
LEMMA BuybackAccounts ==
    ASSUME NEW w, NEW v, NEW a, NEW ix,
           ix = getBuybackBurnInstruction(w, v, ataFor(w, PAYMENT_MINT), ataFor(w, SOLANS_MINT), a)
    PROVE  /\ AccountAt(ix, 1) = w /\ AccountAt(ix, 3) = v
           /\ {v, ataFor(w, PAYMENT_MINT), ataFor(w, SOLANS_MINT)} \subseteq Writable(ix)
  <1> DEFINE x == ataFor(w, PAYMENT_MINT)
             y == ataFor(w, SOLANS_MINT)
  <1> HIDE DEF x, y
  <1>0. ix = getBuybackBurnInstruction(w, v, x, y, a)
    BY DEF x, y
  <1>1. /\ {1, 3, 4, 5} \subseteq DOMAIN ix.accounts /\ ix.accounts[1].address = w
        /\ ix.accounts[3].writable = TRUE /\ ix.accounts[3].address = v
        /\ ix.accounts[4].writable = TRUE /\ ix.accounts[4].address = x
        /\ ix.accounts[5].writable = TRUE /\ ix.accounts[5].address = y
    BY <1>0 DEF getBuybackBurnInstruction, Instruction, WS, W, S, R, Meta
  <1>2. v \in Writable(ix) /\ x \in Writable(ix) /\ y \in Writable(ix)
    BY <1>1, WritableAt
  <1> QED BY <1>1, <1>2 DEF AccountAt, x, y

\* What the pool, a position, the reward vault and a payout are kept in.
PayoutAccounts(w) ==
    {findStakePoolPda, findStakeAccountPda(w), ataFor(w, PAYMENT_MINT),
     ataFor(findStakePoolPda, PAYMENT_MINT)}

\* What principal is moved between.
StakeAccounts(w) == {ataFor(w, SOLANS_MINT), ataFor(findStakePoolPda, SOLANS_MINT)}

\* stake and unstake may write all of these.
LEMMA StakeInstruction ==
    ASSUME NEW w, NEW a, NEW ix,
           \/ ix = buildStakeInstructions(w, PoolRead, a)[1]
           \/ ix = buildUnstakeInstructions(w, PoolRead, a)[1]
    PROVE  /\ AccountAt(ix, 1) = w
           /\ PayoutAccounts(w) \cup StakeAccounts(w) \subseteq Writable(ix)
  <1> DEFINE x == ataFor(w, PAYMENT_MINT)
             y == ataFor(w, SOLANS_MINT)
             z == findStakeAccountPda(w)
             sv == ataFor(findStakePoolPda, SOLANS_MINT)
             rv == ataFor(findStakePoolPda, PAYMENT_MINT)
             Good == /\ {1, 3, 4, 5, 6, 7, 8} \subseteq DOMAIN ix.accounts
                     /\ ix.accounts[1].address = w
                     /\ ix.accounts[3].writable = TRUE /\ ix.accounts[3].address = findStakePoolPda
                     /\ ix.accounts[4].writable = TRUE /\ ix.accounts[4].address = z
                     /\ ix.accounts[5].writable = TRUE /\ ix.accounts[5].address = y
                     /\ ix.accounts[6].writable = TRUE /\ ix.accounts[6].address = x
                     /\ ix.accounts[7].writable = TRUE /\ ix.accounts[7].address = sv
                     /\ ix.accounts[8].writable = TRUE /\ ix.accounts[8].address = rv
  <1>0. PoolRead.stakeVault = sv /\ PoolRead.rewardVault = rv
    BY DEF PoolRead
  <1>1. ASSUME ix = getStakeInstruction(w, y, x, PoolRead, a) PROVE Good
    <2> HIDE DEF x, y, z, sv, rv
    <2> QED BY <1>0, <1>1 DEF getStakeInstruction, Instruction, WS, W, S, R, Meta, z
  <1>2. ASSUME ix = getUnstakeInstruction(w, y, x, PoolRead, a) PROVE Good
    <2> HIDE DEF x, y, z, sv, rv
    <2> QED BY <1>0, <1>2 DEF getUnstakeInstruction, Instruction, WS, W, S, R, Meta, z
  <1>3. Good
    BY <1>1, <1>2 DEF buildStakeInstructions, buildUnstakeInstructions
  <1> HIDE DEF x, y, z, sv, rv
  <1>4. /\ findStakePoolPda \in Writable(ix) /\ z \in Writable(ix) /\ y \in Writable(ix)
        /\ x \in Writable(ix) /\ sv \in Writable(ix) /\ rv \in Writable(ix)
    BY <1>3, WritableAt
  <1> QED BY <1>3, <1>4 DEF AccountAt, PayoutAccounts, StakeAccounts, x, y, z, sv, rv

\* claim_rewards may write what a payout touches.
LEMMA ClaimInstruction ==
    ASSUME NEW w, NEW ix, ix = buildClaimRewardsInstructions(w, PoolRead)[1]
    PROVE  AccountAt(ix, 1) = w /\ PayoutAccounts(w) \subseteq Writable(ix)
  <1> DEFINE x == ataFor(w, PAYMENT_MINT)
             z == findStakeAccountPda(w)
             rv == ataFor(findStakePoolPda, PAYMENT_MINT)
  <1>0. PoolRead.rewardVault = rv
    BY DEF PoolRead
  <1>1. ix = getClaimRewardsInstruction(w, x, PoolRead)
    BY DEF buildClaimRewardsInstructions
  <1> HIDE DEF x, z, rv
  <1>2. /\ {1, 3, 4, 5, 6} \subseteq DOMAIN ix.accounts /\ ix.accounts[1].address = w
        /\ ix.accounts[3].writable = TRUE /\ ix.accounts[3].address = findStakePoolPda
        /\ ix.accounts[4].writable = TRUE /\ ix.accounts[4].address = z
        /\ ix.accounts[5].writable = TRUE /\ ix.accounts[5].address = x
        /\ ix.accounts[6].writable = TRUE /\ ix.accounts[6].address = rv
    BY <1>0, <1>1 DEF getClaimRewardsInstruction, Instruction, WS, W, S, R, Meta, z
  <1>3. /\ findStakePoolPda \in Writable(ix) /\ z \in Writable(ix)
        /\ x \in Writable(ix) /\ rv \in Writable(ix)
    BY <1>2, WritableAt
  <1> QED BY <1>2, <1>3 DEF AccountAt, PayoutAccounts, x, z, rv

-----------------------------------------------------------------------------
(* What a landing transaction changes. *)

\* The changed accounts, one kind at a time.
LEMMA ChangedIn ==
    ASSUME NEW D,
           config' # config => findConfigPda \in D,
           pool' # pool => findStakePoolPda \in D,
           stakeVault' # stakeVault => ataFor(findStakePoolPda, SOLANS_MINT) \in D,
           \A v \in Wallets : position'[v] # position[v] => findStakeAccountPda(v) \in D,
           \A v \in Wallets : usdc'[v] # usdc[v] => ataFor(v, PAYMENT_MINT) \in D,
           \A v \in Wallets : solans'[v] # solans[v] => ataFor(v, SOLANS_MINT) \in D,
           \A v \in Vaults : vault'[v] # vault[v] => VaultAddress(v) \in D
    PROVE  Changed \subseteq D
  <1> SUFFICES ASSUME NEW x \in Changed PROVE x \in D
    OBVIOUS
  <1>1. \/ config' # config /\ x = findConfigPda
        \/ pool' # pool /\ x = findStakePoolPda
        \/ stakeVault' # stakeVault /\ x = ataFor(findStakePoolPda, SOLANS_MINT)
        \/ \E v \in Wallets : position'[v] # position[v] /\ x = findStakeAccountPda(v)
        \/ \E v \in Wallets : usdc'[v] # usdc[v] /\ x = ataFor(v, PAYMENT_MINT)
        \/ \E v \in Wallets : solans'[v] # solans[v] /\ x = ataFor(v, SOLANS_MINT)
        \/ \E v \in Vaults : vault'[v] # vault[v] /\ x = VaultAddress(v)
    BY DEF Changed
  <1> QED BY <1>1

\* A transaction that changes Config and nothing else.
LEMMA ConfigWrites ==
    ASSUME StakingTypeOK, UNCHANGED <<usdc, solans, vault>>, UNCHANGED stakingVars,
           findConfigPda \in Writable(tx.ix)
    PROVE  WritesDeclared
  <1>1. Changed \subseteq Writable(tx.ix)
    BY ChangedIn DEF stakingVars
  <1>2. \A w \in Wallets : usdc[w] \in Nat /\ solans[w] \in Nat
    BY DEF StakingTypeOK, MoneyTypeOK
  <1> QED BY <1>1, <1>2 DEF WritesDeclared, stakingVars

\* The buyback: the vault it was built for is the one the program pays from.
LEMMA BuybackWrites ==
    ASSUME StakingTypeOK, UNCHANGED stakingVars, NEW a \in Nat, tx.payer \in Wallets,
           BuybackBurn(tx.payer, a),
           {VaultAddress("burn_pool"), ataFor(tx.payer, PAYMENT_MINT), ataFor(tx.payer, SOLANS_MINT)}
              \subseteq Writable(tx.ix)
    PROVE  WritesDeclared
  <1> DEFINE w == tx.payer
  <1>1. /\ usdc \in [Wallets -> Nat] /\ solans \in [Wallets -> Nat] /\ vault \in [Vaults -> Nat]
    BY DEF StakingTypeOK, MoneyTypeOK
  <1>2. /\ config' = config
        /\ \A v \in Wallets \ {w} : usdc'[v] = usdc[v] /\ solans'[v] = solans[v]
        /\ \A v \in Vaults \ {"burn_pool"} : vault'[v] = vault[v]
    BY <1>1 DEF BuybackBurn
  <1>3. Changed \subseteq Writable(tx.ix)
    BY <1>2, ChangedIn DEF stakingVars
  <1>4. \A v \in Wallets : usdc[v] \in Nat /\ solans[v] \in Nat
    BY <1>1
  <1> QED BY <1>2, <1>3, <1>4 DEF WritesDeclared, stakingVars

\* A payout.
LEMMA SettleWrites ==
    ASSUME StakingTypeOK, tx.payer \in Wallets, NEW amount, Settle(tx.payer, amount),
           config' = config, PayoutAccounts(tx.payer) \subseteq Writable(tx.ix),
           stakeVault' # stakeVault => StakeAccounts(tx.payer) \subseteq Writable(tx.ix),
           solans'[tx.payer] # solans[tx.payer] => StakeAccounts(tx.payer) \subseteq Writable(tx.ix),
           \A v \in Wallets \ {tx.payer} : solans'[v] = solans[v]
    PROVE  WritesDeclared
  <1> DEFINE w == tx.payer
  <1>1. /\ usdc \in [Wallets -> Nat] /\ solans \in [Wallets -> Nat] /\ vault \in [Vaults -> Nat]
        /\ position \in [Wallets -> StakeAccount \cup {Nil}]
    BY DEF StakingTypeOK, MoneyTypeOK
  <1>2. /\ \A v \in Wallets \ {w} : usdc'[v] = usdc[v] /\ position'[v] = position[v]
        /\ \A v \in Vaults \ {"staking_pool"} : vault'[v] = vault[v]
    BY <1>1 DEF Settle
  <1>3. VaultAddress("staking_pool") = ataFor(findStakePoolPda, PAYMENT_MINT)
    BY DEF VaultAddress
  <1>4. Changed \subseteq Writable(tx.ix)
    BY <1>2, <1>3, ChangedIn DEF PayoutAccounts, StakeAccounts
  <1>5. \A v \in Wallets : usdc[v] \in Nat /\ solans[v] \in Nat
    BY <1>1
  <1> QED BY <1>2, <1>4, <1>5 DEF WritesDeclared

\* What update-config writes is well typed, wherever its fields come from.
LEMMA MergedTyped ==
    ASSUME MoneyTypeOK, config # Nil, NEW flags, NEW p \in Params(Wallets)
    PROVE  Merged(flags, p) \in Params(Wallets)
  <1>1. config.params \in Params(Wallets)
    BY DEF MoneyTypeOK, Config
  <1> QED BY <1>1 DEF Merged, Params

-----------------------------------------------------------------------------
(* What lands. *)

\* What a transaction that lands leaves behind.
Landed == PoolInv' /\ PoolPromises /\ WritesDeclared

\* An instruction of the admin runs for the wallet that signed it.
LEMMA LandConfig ==
    ASSUME CliInv, Land, NEW w \in Wallets, w = tx.payer,
           \/ \E p \in Params(Wallets), v \in FirstStakingVaults, u \in FirstBurnVaults :
                 tx.ix = getInitConfigInstruction(w, VaultAddress("treasury"), VaultAddress(v),
                                                  VaultAddress(u), p)
           \/ \E p \in Params(Wallets) : tx.ix = getUpdateConfigInstruction(w, p)
           \/ \E a \in Wallets : tx.ix = getTransferAdminInstruction(w, a)
           \/ \E s \in [rate: Nat, discount: Nat] : tx.ix = getSetSolansParamsInstruction(w, s)
           \/ tx.ix = getInitStakePoolInstruction(w)
           \/ tx.ix = getInitBurnPoolInstruction(w)
    PROVE  Landed
  <1> DEFINE ix == tx.ix
             Runs == /\ \/ \E p \in Params(Wallets), v \in FirstStakingVaults,
                              u \in FirstBurnVaults : InitConfig(w, p, v, u)
                        \/ \E p \in Params(Wallets) : UpdateConfig(w, p)
                        \/ \E s \in [rate: Nat, discount: Nat] : SetSolansParams(w, s)
                        \/ \E b \in Wallets : TransferAdmin(w, b)
                        \/ InitStakePool(w) \/ InitBurnPool(w)
                     /\ UNCHANGED stakingVars
  <1>1. AccountAt(ix, 1) = w /\ findConfigPda \in Writable(ix)
    BY ConfigAccounts
  <1>2. (RunConfig(ix) /\ UNCHANGED stakingVars) \/ RunStaking(ix)
    BY DEF Land
  <1>3. Runs
    <2>1. ASSUME NEW p \in Params(Wallets), NEW v \in FirstStakingVaults,
                 NEW u \in FirstBurnVaults,
                 ix = getInitConfigInstruction(w, VaultAddress("treasury"), VaultAddress(v),
                                               VaultAddress(u), p)
          PROVE  Runs
      <3>1. ix.name = "init_config" /\ ix.data.params = p
        BY <2>1 DEF getInitConfigInstruction, Instruction
      <3> QED BY <1>1, <1>2, <3>1 DEF RunConfig, RunStaking
    <2>2. ASSUME NEW p \in Params(Wallets), ix = getUpdateConfigInstruction(w, p)
          PROVE  Runs
      <3>1. ix.name = "update_config" /\ ix.data.params = p
        BY <2>2 DEF getUpdateConfigInstruction, Instruction
      <3> QED BY <1>1, <1>2, <3>1 DEF RunConfig, RunStaking
    <2>3. ASSUME NEW a \in Wallets, ix = getTransferAdminInstruction(w, a)
          PROVE  Runs
      <3>1. ix.name = "transfer_admin" /\ ix.data.newAdmin = a
        BY <2>3 DEF getTransferAdminInstruction, Instruction
      <3> QED BY <1>1, <1>2, <3>1 DEF RunConfig, RunStaking
    <2>4. ASSUME NEW s \in [rate: Nat, discount: Nat], ix = getSetSolansParamsInstruction(w, s)
          PROVE  Runs
      <3>1. ix.name = "set_solans_params" /\ ix.data.solans = s
        BY <2>4 DEF getSetSolansParamsInstruction, Instruction
      <3> QED BY <1>1, <1>2, <3>1 DEF RunConfig, RunStaking
    <2>5. ASSUME ix = getInitStakePoolInstruction(w)
          PROVE  Runs
      <3>1. ix.name = "init_stake_pool"
        BY <2>5 DEF getInitStakePoolInstruction, Instruction
      <3> QED BY <1>1, <1>2, <3>1 DEF RunConfig, RunStaking
    <2>6. ASSUME ix = getInitBurnPoolInstruction(w)
          PROVE  Runs
      <3>1. ix.name = "init_burn_pool"
        BY <2>6 DEF getInitBurnPoolInstruction, Instruction
      <3> QED BY <1>1, <1>2, <3>1 DEF RunConfig, RunStaking
    <2> QED BY <2>1, <2>2, <2>3, <2>4, <2>5, <2>6
  <1>4. PoolInv /\ StakingTypeOK /\ MoneyTypeOK /\ ConfigOK
    BY DEF CliInv, PoolInv, StakingTypeOK
  <1>5. MoneyStep
    BY <1>3, <1>4, ConfigStep
  <1>6. UNCHANGED <<usdc, solans, vault>>
    BY <1>3 DEF InitConfig, UpdateConfig, SetSolansParams, TransferAdmin, InitStakePool, InitBurnPool
  <1>7. WritesDeclared
    BY <1>1, <1>3, <1>4, <1>6, ConfigWrites
  <1> QED BY <1>3, <1>4, <1>5, <1>7, ElsewhereStep DEF Landed, PoolPromises

\* A buyback lands only on the burn vault Config names by then.
LEMMA LandBuyback ==
    ASSUME CliInv, Land, NEW w \in Wallets, w = tx.payer, NEW v \in Vaults, NEW a \in Nat,
           tx.ix = getBuybackBurnInstruction(w, VaultAddress(v), ataFor(w, PAYMENT_MINT),
                                             ataFor(w, SOLANS_MINT), a)
    PROVE  Landed
  <1> DEFINE ix == tx.ix
  <1>1. /\ AccountAt(ix, 1) = w /\ AccountAt(ix, 3) = VaultAddress(v)
        /\ {VaultAddress(v), ataFor(w, PAYMENT_MINT), ataFor(w, SOLANS_MINT)} \subseteq Writable(ix)
    BY BuybackAccounts
  <1>2. (RunConfig(ix) /\ UNCHANGED stakingVars) \/ RunStaking(ix)
    BY DEF Land
  <1>3. ix.name = "buyback_burn" /\ ix.data.amount = a
    BY DEF getBuybackBurnInstruction, Instruction
  <1>4. /\ BuybackBurn(w, a) /\ UNCHANGED stakingVars
        /\ AccountAt(ix, 3) = VaultAddress(config.burn_vault)
    BY <1>1, <1>2, <1>3 DEF RunConfig, RunStaking
  <1>5. PoolInv /\ StakingTypeOK /\ MoneyTypeOK /\ ConfigOK
    BY DEF CliInv, PoolInv, StakingTypeOK
  <1>6. VaultAddress(v) = VaultAddress("burn_pool")
    BY <1>1, <1>4 DEF BuybackBurn
  <1>7. WritesDeclared
    BY <1>1, <1>4, <1>5, <1>6, BuybackWrites
  <1>8. MoneyStep
    BY <1>4, <1>5, BuybackMoney
  <1> QED BY <1>4, <1>5, <1>7, <1>8, ElsewhereStep DEF Landed, PoolPromises

\* A staking instruction settles the position of the wallet that signed it.
LEMMA LandStaking ==
    ASSUME CliInv, Land, NEW w \in Wallets, w = tx.payer,
           \/ \E a \in Nat : \/ tx.ix = buildStakeInstructions(w, PoolRead, a)[1]
                             \/ tx.ix = buildUnstakeInstructions(w, PoolRead, a)[1]
           \/ tx.ix = buildClaimRewardsInstructions(w, PoolRead)[1]
    PROVE  Landed
  <1> DEFINE ix == tx.ix
  <1>0. (RunConfig(ix) /\ UNCHANGED stakingVars) \/ RunStaking(ix)
    BY DEF Land
  <1>1. PoolInv /\ StakingTypeOK /\ solans \in [Wallets -> Nat]
    BY DEF CliInv, PoolInv, StakingTypeOK, MoneyTypeOK
  <1>2. ASSUME NEW a \in Nat, ix = buildStakeInstructions(w, PoolRead, a)[1]
        PROVE  Landed
    <2>1. AccountAt(ix, 1) = w /\ PayoutAccounts(w) \cup StakeAccounts(w) \subseteq Writable(ix)
      BY <1>2, StakeInstruction
    <2>2. ix.name = "stake" /\ ix.data.amount = a
      BY <1>2 DEF buildStakeInstructions, getStakeInstruction, Instruction
    <2>3. Stake(w, a)
      BY <1>0, <2>1, <2>2 DEF RunConfig, RunStaking
    <2>4. WritesDeclared
      BY <1>1, <2>1, <2>3, SettleWrites DEF Stake
    <2> QED BY <1>1, <2>3, <2>4, StakeStep DEF Landed, PoolPromises
  <1>3. ASSUME NEW a \in Nat, ix = buildUnstakeInstructions(w, PoolRead, a)[1]
        PROVE  Landed
    <2>1. AccountAt(ix, 1) = w /\ PayoutAccounts(w) \cup StakeAccounts(w) \subseteq Writable(ix)
      BY <1>3, StakeInstruction
    <2>2. ix.name = "unstake" /\ ix.data.amount = a
      BY <1>3 DEF buildUnstakeInstructions, getUnstakeInstruction, Instruction
    <2>3. Unstake(w, a)
      BY <1>0, <2>1, <2>2 DEF RunConfig, RunStaking
    <2>4. WritesDeclared
      BY <1>1, <2>1, <2>3, SettleWrites DEF Unstake
    <2> QED BY <1>1, <2>3, <2>4, UnstakeStep DEF Landed, PoolPromises
  <1>4. ASSUME ix = buildClaimRewardsInstructions(w, PoolRead)[1]
        PROVE  Landed
    <2>1. AccountAt(ix, 1) = w /\ PayoutAccounts(w) \subseteq Writable(ix)
      BY <1>4, ClaimInstruction
    <2>2. ix.name = "claim_rewards"
      BY <1>4 DEF buildClaimRewardsInstructions, getClaimRewardsInstruction, Instruction
    <2>3. ClaimRewards(w)
      BY <1>0, <2>1, <2>2 DEF RunConfig, RunStaking
    <2>4. WritesDeclared
      BY <1>1, <2>1, <2>3, SettleWrites DEF ClaimRewards
    <2> QED BY <1>1, <2>3, <2>4, ClaimStep DEF Landed, PoolPromises
  <1> QED BY <1>2, <1>3, <1>4

\* Whatever is in flight, landing keeps the books and the promises.
LEMMA LandKeeps ==
    ASSUME CliInv, Land
    PROVE  CliInv' /\ PoolPromises /\ WritesDeclared
  <1>1. tx # Nil /\ tx' = Nil
    BY DEF Land
  <1>2. tx.payer \in Wallets /\ Built(tx.payer, tx.ix)
    BY <1>1 DEF CliInv, TxBuilt
  <1>3. Landed
    BY <1>2, LandConfig, LandBuyback, LandStaking DEF Built
  <1> QED BY <1>1, <1>3 DEF Landed, CliInv, TxBuilt

\* A command only builds, from what it reads.
LEMMA CommandKeeps ==
    ASSUME CliInv, PoolCommands
    PROVE  CliInv' /\ UNCHANGED protocolVars /\ tx = Nil
  <1>1. /\ Users \subseteq Wallets /\ ParamChoices \subseteq Params(Wallets)
        /\ Admins \subseteq Wallets /\ SolansChoices \subseteq [rate: Nat, discount: Nat]
        /\ BuybackAmounts \subseteq Nat /\ StakeAmounts \subseteq Nat
    BY UserAssumption, MoneyAssumption, StakingAssumption
  <1>2. MoneyTypeOK
    BY DEF CliInv, PoolInv, StakingTypeOK
  <1>3. PICK w \in Users :
        \/ \E p \in ParamChoices :
             \/ \E s \in FirstStakingVaults, b \in FirstBurnVaults : cli_init_config(w, p, s, b)
             \/ \E f \in FlagSets : cli_update_config(w, f, p)
        \/ \E a \in Admins : cli_transfer_admin(w, a)
        \/ \E s \in SolansChoices : cli_solans_params(w, s)
        \/ cli_stake_init(w) \/ cli_burn_init(w) \/ cli_stake_claim(w)
        \/ \E a \in BuybackAmounts : cli_buyback(w, a)
        \/ \E a \in StakeAmounts : cli_stake(w, a) \/ cli_unstake(w, a)
    BY DEF PoolCommands
  <1>4. w \in Wallets
    BY <1>1
  <1> DEFINE Sends == \E ix : sendInstruction(w, ix) /\ Built(w, ix)
  <1>5. ASSUME NEW p \in ParamChoices, NEW s \in FirstStakingVaults,
               NEW b \in FirstBurnVaults, cli_init_config(w, p, s, b)
        PROVE  Sends
    BY <1>1, <1>5 DEF cli_init_config, Built
  <1>6. ASSUME NEW p \in ParamChoices, NEW f \in FlagSets, cli_update_config(w, f, p) PROVE Sends
    <2>1. Merged(f, p) \in Params(Wallets)
      BY <1>1, <1>2, <1>6, MergedTyped DEF cli_update_config
    <2> QED BY <1>6, <2>1 DEF cli_update_config, Built
  <1>7. ASSUME NEW a \in Admins, cli_transfer_admin(w, a) PROVE Sends
    BY <1>1, <1>7 DEF cli_transfer_admin, Built
  <1>8. ASSUME NEW s \in SolansChoices, cli_solans_params(w, s) PROVE Sends
    BY <1>1, <1>8 DEF cli_solans_params, Built
  <1>9. ASSUME cli_stake_init(w) \/ cli_burn_init(w) \/ cli_stake_claim(w) PROVE Sends
    BY <1>9 DEF cli_stake_init, cli_burn_init, cli_stake_claim, Built
  <1>10. ASSUME NEW a \in BuybackAmounts, cli_buyback(w, a) PROVE Sends
    <2>1. config.burn_vault \in Vaults
      BY <1>2, <1>10 DEF cli_buyback, MoneyTypeOK, Config, Vaults, FirstStakingVaults, FirstBurnVaults
    <2> QED BY <1>1, <1>10, <2>1 DEF cli_buyback, Built
  <1>11. ASSUME NEW a \in StakeAmounts, cli_stake(w, a) \/ cli_unstake(w, a) PROVE Sends
    BY <1>1, <1>11 DEF cli_stake, cli_unstake, Built
  <1>12. Sends
    BY <1>3, <1>5, <1>6, <1>7, <1>8, <1>9, <1>10, <1>11
  <1>13. PICK ix : tx' = [payer |-> w, ix |-> ix] /\ UNCHANGED protocolVars /\ Built(w, ix)
    BY <1>12 DEF sendInstruction
  <1>14. tx'.payer = w /\ tx'.ix = ix
    BY <1>13
  <1>15. TxBuilt'
    BY <1>4, <1>13, <1>14 DEF TxBuilt, Built
  <1>16. PoolInv'
    BY <1>13, StakingStep DEF CliInv
  <1> QED BY <1>13, <1>15, <1>16 DEF CliInv, PoolCommands

CliNext == PoolCommands \/ Land \/ Abort \/ Others

\* Each step keeps the invariant; only a landing writes for the transaction.
LEMMA CliStep ==
    ASSUME CliInv, [CliNext]_poolVars
    PROVE  CliInv' /\ PoolPromises /\ WritesDeclared
  <1>0. PoolInv /\ TxBuilt
    BY DEF CliInv
  <1>1. ASSUME PoolCommands PROVE CliInv' /\ PoolPromises /\ WritesDeclared
    <2>1. CliInv' /\ UNCHANGED protocolVars /\ tx = Nil
      BY <1>1, CommandKeeps
    <2> QED BY <1>0, <2>1, StakingStep DEF PoolPromises, WritesDeclared, Landing
  <1>2. ASSUME Land PROVE CliInv' /\ PoolPromises /\ WritesDeclared
    BY <1>2, LandKeeps
  <1>3. ASSUME Abort PROVE CliInv' /\ PoolPromises /\ WritesDeclared
    <2>1. UNCHANGED protocolVars /\ tx' = Nil
      BY <1>3 DEF Abort
    <2>2. PoolInv' /\ PoolPromises
      BY <1>0, <2>1, StakingStep DEF PoolPromises
    <2>3. Changed \subseteq Writable(tx.ix)
      BY <2>1, ChangedIn DEF protocolVars, moneyVars, stakingVars
    <2>4. \A w \in Wallets : usdc[w] \in Nat /\ solans[w] \in Nat
      BY <1>0 DEF PoolInv, StakingTypeOK, MoneyTypeOK
    <2>5. WritesDeclared
      BY <2>1, <2>3, <2>4 DEF WritesDeclared, protocolVars, moneyVars, stakingVars
    <2> QED BY <2>1, <2>2, <2>5 DEF CliInv, TxBuilt
  <1>4. ASSUME Others \/ UNCHANGED poolVars PROVE CliInv' /\ PoolPromises /\ WritesDeclared
    <2>1. [StakingNext]_protocolVars /\ tx' = tx
      BY <1>4 DEF Others, poolVars
    <2>2. TxBuilt'
      BY <1>0, <2>1 DEF TxBuilt, Built
    <2> QED BY <1>0, <2>1, <2>2, StakingStep DEF CliInv, PoolPromises, WritesDeclared, Landing
  <1> QED BY <1>1, <1>2, <1>3, <1>4 DEF CliNext

\* The reward the SDK shows is the one the program would pay.
LEMMA RewardQuoted ==
    ASSUME StakingTypeOK, NEW w \in Wallets, position[w] # Nil
    PROVE  pendingReward(pool, position[w], vault["staking_pool"], AccScale) = Due(w)
  <1> DEFINE b == vault["staking_pool"]
             s == position[w]
             delta == SatSub(b, pool.last_reward_balance)
             add == IF pool.total_staked > 0 THEN (delta * AccScale) \div pool.total_staked ELSE 0
             shares == pool.acc_reward_per_share + add
  <1>1. pool \in StakePool /\ s \in StakeAccount
    BY DEF StakingTypeOK
  <1>2. sync(pool, b).acc_reward_per_share = shares
    BY <1>1 DEF sync, StakePool
  <1>3. Due(w) = SatSub((s.amount * shares) \div AccScale, s.reward_debt)
    BY <1>2 DEF Due, pending, accrued
  <1>4. s.amount = 0 => Due(w) = 0
    BY DueNat DEF Staked
  <1> QED BY <1>3, <1>4 DEF pendingReward

\* The client's arithmetic is the program's.
LEMMA QuotesHold ==
    ASSUME PoolInv
    PROVE  QuotesAgree
  <1> SUFFICES ASSUME config # Nil PROVE
        /\ \A w \in Wallets : position[w] # Nil =>
              pendingReward(pool, position[w], vault["staking_pool"], AccScale) = Due(w)
        /\ \A l \in Labels : priceForLabel(config.params, l) = price_for_label(config.params, l)
        /\ \A a \in BuybackAmounts :
              /\ quoteBuyback(config.solans, a) = buyback_usdc(config.solans, a)
              /\ quoteSolansFee(config.solans, a) = solans_fee(config.solans, a)
    BY DEF QuotesAgree
  <1>1. /\ StakingTypeOK /\ config \in Config /\ config.solans.discount < BPS_DENOMINATOR
    BY DEF PoolInv, StakingTypeOK, MoneyTypeOK, ConfigOK
  <1>2. config.params \in Params(Wallets) /\ config.solans.discount \in Nat
    BY <1>1 DEF Config
  <1>3. \A w \in Wallets : position[w] # Nil =>
           pendingReward(pool, position[w], vault["staking_pool"], AccScale) = Due(w)
    BY <1>1, RewardQuoted
  <1>4. ASSUME NEW l \in Labels
        PROVE  priceForLabel(config.params, l) = price_for_label(config.params, l)
    <2>1. price_for_len(config.params, l.len) \in Nat
      BY <1>2 DEF price_for_len, Params, Labels
    <2>2. priceForLen(config.params, l.len) = price_for_len(config.params, l.len)
      BY DEF priceForLen, price_for_len
    <2> QED BY <2>1, <2>2 DEF priceForLabel, price_for_label
  <1>5. SatSub(BPS_DENOMINATOR, config.solans.discount) = BPS_DENOMINATOR - config.solans.discount
    BY <1>1, <1>2 DEF SatSub, BPS_DENOMINATOR
  <1>6. \A a \in BuybackAmounts :
           /\ quoteBuyback(config.solans, a) = buyback_usdc(config.solans, a)
           /\ quoteSolansFee(config.solans, a) = solans_fee(config.solans, a)
    BY <1>5 DEF quoteBuyback, buyback_usdc, quoteSolansFee, solans_fee
  <1> QED BY <1>3, <1>4, <1>6

-----------------------------------------------------------------------------
(* The theorems. *)

\* CliInv is an invariant of the commands against the protocol, and each step
\* keeps the promises of the protocol and of the client.
THEOREM CliInvariant ==
    PoolCommandsSpec => []CliInv /\ [][PoolPromises /\ WritesDeclared]_poolVars
  <1>1. PoolInit => CliInv
    BY StakingStart DEF PoolInit, CliInv, TxBuilt
  <1>2. CliInv /\ [CliNext]_poolVars => CliInv' /\ [PoolPromises /\ WritesDeclared]_poolVars
    BY CliStep
  <1> QED BY <1>1, <1>2, PTL DEF PoolCommandsSpec, CliNext

\* In every state the client shows the reward, the buyback and the price that
\* the program would pay or charge (pendingReward, quoteBuyback,
\* quoteSolansFee, priceForLabel).
THEOREM QuotesExact == PoolCommandsSpec => []QuotesAgree
  <1>1. CliInv => QuotesAgree
    BY QuotesHold DEF CliInv
  <1> QED BY <1>1, CliInvariant, PTL

\* A command that lands writes only accounts it declared, and nobody but its
\* signer loses by it, however late it lands (RunConfig, RunStaking).
THEOREM PoolCommandsDeclare == PoolCommandsSpec => PoolWritesDeclared
  <1>1. [PoolPromises /\ WritesDeclared]_poolVars => [WritesDeclared]_poolVars
    OBVIOUS
  <1> QED BY <1>1, CliInvariant, PTL DEF PoolWritesDeclared

\* The pool's books and promises hold as well when instructions are built from
\* stale reads: update-config may write any mixture of two configurations.
THEOREM StaleCommandsKeepBooks ==
    PoolCommandsSpec => /\ []PoolBooks /\ []PositionsAddUp /\ []PayInNeedsBurnPool
                        /\ NewcomerEarnsNothing /\ SettledInFull
                        /\ TreasuryAlwaysPaid /\ BuybackAtPrice
  <1>1. CliInv => PoolBooks /\ PositionsAddUp /\ PayInNeedsBurnPool
    BY StakedWithinTotal
       DEF CliInv, PoolInv, PoolBacked, PoolBooks, ConfigOK, PayInNeedsBurnPool, solans_enabled
  <1>2. [PoolPromises /\ WritesDeclared]_poolVars =>
           /\ [PaysNoNewcomer]_protocolVars /\ [SettlesInFull]_protocolVars
           /\ [PaysTreasury]_moneyVars /\ [PaysAtPrice]_moneyVars
    BY DEF PoolPromises, poolVars, protocolVars
  <1> QED BY <1>1, <1>2, CliInvariant, PTL
          DEF NewcomerEarnsNothing, SettledInFull, TreasuryAlwaysPaid, BuybackAtPrice
=============================================================================
