--------------------------- MODULE ProtocolProofs ---------------------------
(***************************************************************************)
(* Facts about the arithmetic of Config and about the payments: the shares *)
(* of a fee add up to the fee, and every instruction of module Protocol    *)
(* keeps the ledger well typed (no balance is ever overdrawn).  At the     *)
(* end, facts about sums over a finite set, for the proofs about totals.   *)
(***************************************************************************)
EXTENDS Protocol, FiniteSetTheorems, TLAPS

\* Division of a natural number by a positive one is a natural number, rounded down.
LEMMA DivNat ==
    ASSUME NEW x \in Nat, NEW d \in Nat \ {0}
    PROVE  x \div d \in Nat /\ d * (x \div d) <= x
  BY Z3

\* The product of two natural numbers is one.
LEMMA TimesNat ==
    ASSUME NEW x \in Nat, NEW y \in Nat
    PROVE  x * y \in Nat
  BY Z3

\* A share in basis points is a natural number, rounded down (the checked_div of
\* fee_split).
LEMMA ShareNat ==
    ASSUME NEW amount \in Nat, NEW bps \in Nat
    PROVE  /\ Share(amount, bps) \in Nat
           /\ BPS_DENOMINATOR * Share(amount, bps) <= amount * bps
  <1>1. amount * bps \in Nat
    BY TimesNat
  <1>2. BPS_DENOMINATOR \in Nat \ {0}
    BY DEF BPS_DENOMINATOR
  <1> QED BY <1>1, <1>2, DivNat DEF Share

\* A share of at most the whole is at most the whole.
LEMMA ShareBound ==
    ASSUME NEW amount \in Nat, NEW bps \in 0..BPS_DENOMINATOR
    PROVE  Share(amount, bps) \in 0..amount
  <1>0. bps \in Nat
    BY DEF BPS_DENOMINATOR
  <1>1. bps <= 10000
    BY DEF BPS_DENOMINATOR
  <1>2. /\ Share(amount, bps) \in Nat
        /\ BPS_DENOMINATOR * Share(amount, bps) <= amount * bps
    BY <1>0, ShareNat
  <1>3. amount * bps <= amount * 10000
    BY <1>0, <1>1, Z3
  <1>4. amount * bps \in Nat
    BY <1>0, TimesNat
  <1> DEFINE x == Share(amount, bps)
             y == amount * bps
  <1>5. x \in Nat /\ y \in Nat /\ 10000 * x <= y /\ y <= amount * 10000
    BY <1>2, <1>3, <1>4 DEF BPS_DENOMINATOR
  <1> HIDE DEF x, y
  <1>6. x <= amount
    BY <1>5
  <1> QED BY <1>5, <1>6 DEF x

\* Config::fee_split: the four shares of a fee are natural numbers that add
\* up to the fee, whatever the floors of the divisions drop, and the treasury's
\* is positive for every fee above 0, under the bound on the shares that
\* init_config and update_config enforce.
THEOREM FeeSplitExact ==
    ASSUME NEW p \in Params(Wallets), ValidParams(p), NEW amount \in Nat
    PROVE  LET s == fee_split(p, amount) IN
           /\ s.treasury \in Nat /\ s.staking \in Nat
           /\ s.referral \in Nat /\ s.burn \in Nat
           /\ s.treasury + s.staking + s.referral + s.burn = amount
           /\ amount > 0 => s.treasury > 0
  <1> DEFINE b1 == p.staking_fee_bps
             b2 == p.referral_fee_bps
             b3 == p.burn_fee_bps
             s1 == Share(amount, b1)
             s2 == Share(amount, b2)
             s3 == Share(amount, b3)
  <1>0. b1 \in Nat /\ b2 \in Nat /\ b3 \in Nat
    BY DEF Params
  <1>1. b1 + b2 + b3 <= 9999
    BY <1>0 DEF ValidParams, BPS_DENOMINATOR
  <1> HIDE DEF b1, b2, b3
  <1>2. /\ s1 \in Nat /\ BPS_DENOMINATOR * s1 <= amount * b1
        /\ s2 \in Nat /\ BPS_DENOMINATOR * s2 <= amount * b2
        /\ s3 \in Nat /\ BPS_DENOMINATOR * s3 <= amount * b3
    BY <1>0, ShareNat
  <1>3. amount * b1 + amount * b2 + amount * b3 <= amount * 9999
    <2>1. amount * (b1 + b2 + b3) <= amount * 9999
      BY <1>0, <1>1, Z3
    <2>2. amount * (b1 + b2 + b3) = amount * b1 + amount * b2 + amount * b3
      BY <1>0, <1>1, Z3
    <2> QED BY <2>1, <2>2
  <1>4. amount * b1 \in Nat /\ amount * b2 \in Nat /\ amount * b3 \in Nat
    BY <1>0, TimesNat
  <1> HIDE DEF s1, s2, s3
  <1>5. s1 + s2 + s3 <= amount /\ (amount > 0 => s1 + s2 + s3 < amount)
    BY <1>2, <1>3, <1>4 DEF BPS_DENOMINATOR
  <1>6. /\ SatSub(SatSub(SatSub(amount, s1), s2), s3) \in Nat
        /\ SatSub(SatSub(SatSub(amount, s1), s2), s3) + s1 + s2 + s3 = amount
        /\ amount > 0 => SatSub(SatSub(SatSub(amount, s1), s2), s3) > 0
    BY <1>2, <1>5 DEF SatSub
  <1>7. fee_split(p, amount) =
          [treasury |-> SatSub(SatSub(SatSub(amount, s1), s2), s3),
           staking |-> s1, referral |-> s2, burn |-> s3]
    BY DEF fee_split, s1, s2, s3, b1, b2, b3
  <1> QED BY <1>2, <1>6, <1>7

-----------------------------------------------------------------------------

\* Every price tier yields a natural number (price_for_label).
LEMMA PriceNat ==
    ASSUME NEW p \in Params(Wallets), NEW l \in LabelShape
    PROVE  price_for_label(p, l) \in Nat
  <1>1. p.price \in [1..5 -> Nat] /\ p.price_numeric \in Nat /\ l.len \in Nat
    BY DEF Params, LabelShape
  <1>2. price_for_len(p, l.len) \in Nat
    BY <1>1 DEF price_for_len
  <1> QED BY <1>1, <1>2 DEF price_for_label

\* The pay-in conversion yields a natural number (solans_fee).
LEMMA SolansFeeNat ==
    ASSUME NEW s \in [rate: Nat, discount: Nat], NEW fee \in Nat
    PROVE  solans_fee(s, fee) \in Nat
  <1> DEFINE x == (fee * s.rate) \div SOLANS_RATE_SCALE
             d == SatSub(BPS_DENOMINATOR, s.discount)
  <1>1. s.rate \in Nat /\ s.discount \in Nat
    OBVIOUS
  <1>2. fee * s.rate \in Nat
    BY <1>1, TimesNat
  <1>3. SOLANS_RATE_SCALE \in Nat \ {0} /\ BPS_DENOMINATOR \in Nat \ {0}
    BY DEF SOLANS_RATE_SCALE, BPS_DENOMINATOR
  <1>4. x \in Nat
    BY <1>2, <1>3, DivNat
  <1>5. d \in Nat
    BY <1>1, <1>3 DEF SatSub
  <1>6. x * d \in Nat
    BY <1>4, <1>5, TimesNat
  <1>7. (x * d) \div BPS_DENOMINATOR \in Nat
    BY <1>3, <1>6, DivNat
  <1> QED BY <1>7 DEF solans_fee

\* The ledger of a deployed registry.
LedgerOK == MoneyTypeOK /\ config # Nil /\ ValidParams(config.params)

\* What the ledger invariant says of the parts of the configuration.
LEMMA LedgerFacts ==
    ASSUME LedgerOK
    PROVE  /\ config \in Config /\ config.params \in Params(Wallets)
           /\ config.solans \in [rate: Nat, discount: Nat]
           /\ config.staking_vault \in Vaults /\ config.burn_vault \in Vaults
           /\ config.params.sol_treasury \in Wallets
  <1>1. config \in Config
    BY DEF LedgerOK, MoneyTypeOK
  <1>2. /\ config.params \in Params(Wallets)
        /\ config.solans \in [rate: Nat, discount: Nat]
    BY <1>1 DEF Config
  <1>3. config.staking_vault \in Vaults /\ config.burn_vault \in Vaults
    BY <1>1 DEF Config, Vaults, FirstStakingVaults, FirstBurnVaults
  <1>4. config.params.sol_treasury \in Wallets
    BY <1>2 DEF Params
  <1> QED BY <1>1, <1>2, <1>3, <1>4

\* distribute_fee never overdraws the payer, self-referral included.
LEMMA DistributeFeeStep ==
    ASSUME LedgerOK, NEW payer \in Wallets, NEW referrer \in Wallets \cup {Nil},
           NEW amount \in Nat, DistributeFee(payer, referrer, amount)
    PROVE  LedgerOK'
  <1> DEFINE s == fee_split(config.params, amount)
             referral == IF referrer = Nil THEN 0 ELSE s.referral
             treasury == IF referrer = Nil THEN s.treasury + s.referral ELSE s.treasury
  <1>1. /\ s.treasury \in Nat /\ s.staking \in Nat
        /\ s.referral \in Nat /\ s.burn \in Nat
    BY FeeSplitExact, LedgerFacts DEF LedgerOK
  <1>2. /\ s.staking + s.burn + referral <= usdc[payer]
        /\ s.staking + s.burn + referral
             - (IF referrer = payer THEN referral ELSE 0) + treasury <= usdc[payer]
        /\ usdc' = [w \in Wallets |->
                      usdc[w] - (IF w = payer THEN s.staking + s.burn + referral + treasury ELSE 0)
                              + (IF w = referrer THEN referral ELSE 0)]
        /\ vault' = [v \in Vaults |->
                       vault[v] + (IF v = config.staking_vault THEN s.staking ELSE 0)
                                + (IF v = config.burn_vault THEN s.burn ELSE 0)
                                + (IF v = "treasury" THEN treasury ELSE 0)]
        /\ UNCHANGED <<config, solans>>
    BY DEF DistributeFee
  <1> DEFINE ts == s.staking
             tb == s.burn
  <1>3. ts \in Nat /\ tb \in Nat /\ referral \in Nat /\ treasury \in Nat
    BY <1>1
  <1> HIDE DEF s, referral, treasury
  <1>4. usdc' \in [Wallets -> Nat]
    BY <1>2, <1>3 DEF LedgerOK, MoneyTypeOK
  <1>5. vault' \in [Vaults -> Nat]
    BY <1>2, <1>3, LedgerFacts DEF LedgerOK, MoneyTypeOK, Vaults
  <1> QED BY <1>2, <1>4, <1>5 DEF LedgerOK, MoneyTypeOK

\* Burning a fee paid in $SOLANS preserves the ledger invariant (burn_tokens).
LEMMA BurnSolansStep ==
    ASSUME LedgerOK, NEW payer \in Wallets, NEW amount \in Nat, BurnSolans(payer, amount)
    PROVE  LedgerOK'
  BY DEF LedgerOK, MoneyTypeOK, BurnSolans

\* buyback_burn preserves the ledger invariant: the burn vault covers what it pays.
LEMMA BuybackStep ==
    ASSUME LedgerOK, NEW keeper \in Wallets, NEW amount \in Nat, BuybackBurn(keeper, amount)
    PROVE  LedgerOK'
  <1> DEFINE out == buyback_usdc(config.solans, amount)
  <1>1. config.solans.rate \in Nat \ {0}
    BY LedgerFacts DEF BuybackBurn, solans_enabled
  <1>2. amount * SOLANS_RATE_SCALE \in Nat
    BY TimesNat DEF SOLANS_RATE_SCALE
  <1>3. out \in Nat
    BY <1>1, <1>2, DivNat DEF buyback_usdc
  <1>4. /\ out <= vault["burn_pool"] /\ amount <= solans[keeper]
        /\ vault' = [vault EXCEPT !["burn_pool"] = @ - out]
        /\ usdc' = [usdc EXCEPT ![keeper] = @ + out]
        /\ solans' = [solans EXCEPT ![keeper] = @ - amount]
        /\ config' = config
    BY DEF BuybackBurn
  <1> HIDE DEF out
  <1> QED BY <1>3, <1>4 DEF LedgerOK, MoneyTypeOK, Vaults

\* A Config account replaced by a well-formed one, the balances untouched.
LEMMA ConfigReplaced ==
    ASSUME LedgerOK, NEW c \in Config, ValidParams(c.params), config' = c,
           UNCHANGED <<usdc, solans, vault>>
    PROVE  LedgerOK'
  BY ConfigAssumption DEF LedgerOK, MoneyTypeOK

\* The admin instructions preserve the ledger invariant, the admissible split
\* included.
LEMMA GovernanceStep ==
    ASSUME LedgerOK, Governance
    PROVE  LedgerOK'
  <1> USE MoneyAssumption
  <1>0. config \in Config /\ ValidParams(config.params)
    BY LedgerFacts DEF LedgerOK
  <1>1. ASSUME NEW w \in Admins, NEW p \in ParamChoices, UpdateConfig(w, p)
        PROVE  LedgerOK'
    <2>1. p \in Params(Wallets)
      OBVIOUS
    <2>2. WithParams(config, p) \in Config /\ WithParams(config, p).params = p
      BY <1>0, <2>1 DEF WithParams, Config
    <2> QED BY <1>1, <2>2, ConfigReplaced DEF UpdateConfig
  <1>2. ASSUME NEW w \in Admins, NEW s \in SolansChoices, SetSolansParams(w, s)
        PROVE  LedgerOK'
    <2>1. s \in [rate: Nat, discount: Nat]
      OBVIOUS
    <2>2. WithSolans(config, s) \in Config /\ WithSolans(config, s).params = config.params
      BY <1>0, <2>1 DEF WithSolans, Config
    <2> QED BY <1>0, <1>2, <2>2, ConfigReplaced DEF SetSolansParams
  <1>3. ASSUME NEW w \in Admins, NEW a \in Admins, TransferAdmin(w, a)
        PROVE  LedgerOK'
    <2>1. a \in Wallets
      OBVIOUS
    <2>2. WithAdmin(config, a) \in Config /\ WithAdmin(config, a).params = config.params
      BY <1>0, <2>1 DEF WithAdmin, Config
    <2> QED BY <1>0, <1>3, <2>2, ConfigReplaced DEF TransferAdmin
  <1>4. ASSUME NEW k \in Wallets, NEW a \in BuybackAmounts, BuybackBurn(k, a)
        PROVE  LedgerOK'
    BY <1>4, BuybackStep
  <1> QED BY <1>1, <1>2, <1>3, <1>4 DEF Governance

-----------------------------------------------------------------------------
(* Sums.  SumFunction, the sum of the values of a function with a finite     *)
(* domain, is what its name says: it is an integer, 0 for the zero function, *)
(* it moves with each value, and no value of a function into the natural     *)
(* numbers exceeds it.  The library defines it by recursion over subsets.    *)
(* The proofs go by least counterexample: the smallest cardinality, or a     *)
(* minimal subset, for which the claim fails.                                *)


pick(s) == CHOOSE x \in s : TRUE

\* What the recursion makes of the subset s.
Unfold(f, g, s) == IF s = {} THEN 0 ELSE f[pick(s)] + g[s \ {pick(s)}]

\* g adds up f over every subset of its domain.
AddsUp(f, g) == g = [s \in SUBSET DOMAIN f |-> Unfold(f, g, s)]

\* The library's definition in these terms.
LEMMA SumUnfolds ==
    ASSUME NEW f
    PROVE  SumFunction(f) = (CHOOSE g : AddsUp(f, g))[DOMAIN f]
  BY Zenon DEF SumFunction, SumFunctionOnSet, FoldFunctionOnSet, MapThenFoldSet, AddsUp,
               Unfold, pick

\* The element taken out of a set is one of its elements.
LEMMA PickIn ==
    ASSUME NEW s, s # {}
    PROVE  pick(s) \in s
  BY DEF pick

\* A nonempty set of natural numbers has a least element.
LEMMA LeastNumber ==
    ASSUME NEW T \in SUBSET Nat, T # {}
    PROVE  \E m \in T : \A k \in T : m <= k
  <1>1. PICK m \in T : \A k \in T : ~(<<k, m>> \in OpToRel(<, Nat))
    BY NatLessThanWellFounded, WFMin
  <1>2. \A k \in T : ~(k < m)
    BY <1>1 DEF OpToRel
  <1> QED BY <1>2

\* The subsets of S with at most k elements.
UpTo(S, k) == {s \in SUBSET S : Cardinality(s) <= k}

\* g adds up f over the subsets with at most k elements.
AddsUpTo(f, g, k) == g = [s \in UpTo(DOMAIN f, k) |-> Unfold(f, g, s)]

\* Taking out an element leads to a smaller subset.
LEMMA Smaller ==
    ASSUME NEW S, IsFiniteSet(S), NEW s \in SUBSET S, s # {}
    PROVE  /\ pick(s) \in S /\ s \ {pick(s)} \in SUBSET S
           /\ Cardinality(s) \in Nat \ {0}
           /\ Cardinality(s \ {pick(s)}) = Cardinality(s) - 1
  <1>1. IsFiniteSet(s) /\ pick(s) \in s
    BY FS_Subset, PickIn
  <1>2. Cardinality(s) \in Nat /\ Cardinality(s) # 0
    BY <1>1, FS_CardinalityType, FS_EmptySet
  <1>3. Cardinality(s \ {pick(s)}) = Cardinality(s) - 1
    BY <1>1, FS_RemoveElement
  <1> QED BY <1>1, <1>2, <1>3

\* The partial sums over subsets of bounded size exist.
LEMMA PartialSums ==
    ASSUME NEW f, IsFiniteSet(DOMAIN f), NEW k \in Nat
    PROVE  \E g : AddsUpTo(f, g, k)
  <1> DEFINE S == DOMAIN f
             T == {i \in Nat : ~\E g : AddsUpTo(f, g, i)}
  <1>1. SUFFICES ASSUME T # {} PROVE FALSE
    OBVIOUS
  <1>2. PICK m \in T : \A i \in T : m <= i
    <2>1. T \in SUBSET Nat
      OBVIOUS
    <2> HIDE DEF T
    <2> QED BY <1>1, <2>1, LeastNumber
  <1>3. m \in Nat /\ ~\E g : AddsUpTo(f, g, m)
    OBVIOUS
  <1>4. \A s \in SUBSET S : Cardinality(s) \in Nat /\ (Cardinality(s) = 0 <=> s = {})
    BY FS_Subset, FS_CardinalityType, FS_EmptySet
  <1>5. CASE m = 0
    <2> DEFINE g == [s \in UpTo(S, 0) |-> 0]
    <2>1. \A s \in UpTo(S, 0) : s = {}
      BY <1>4 DEF UpTo
    <2>2. \A h : \A s \in UpTo(S, 0) : Unfold(f, h, s) = 0
      BY <2>1 DEF Unfold
    <2>3. AddsUpTo(f, g, 0)
      BY <2>2 DEF AddsUpTo
    <2> QED BY <1>3, <1>5, <2>3
  <1>6. CASE m # 0
    <2>1. m - 1 \in Nat /\ m - 1 \notin T
      BY <1>2, <1>3, <1>6
    <2>2. PICK h : AddsUpTo(f, h, m - 1)
      BY <2>1
    <2> DEFINE g == [s \in UpTo(S, m) |-> Unfold(f, h, s)]
    <2> HIDE DEF T
    <2>3. UpTo(S, m - 1) \subseteq UpTo(S, m)
      BY <1>3, <1>4 DEF UpTo
    <2>4. \A s \in UpTo(S, m - 1) : g[s] = h[s]
      BY <2>2, <2>3 DEF AddsUpTo
    <2>5. ASSUME NEW s \in UpTo(S, m)
          PROVE  Unfold(f, h, s) = Unfold(f, g, s)
      <3>1. CASE s = {}
        BY <3>1 DEF Unfold
      <3>2. CASE s # {}
        <4>1. s \ {pick(s)} \in UpTo(S, m - 1)
          BY <1>3, <1>4, <3>2, Smaller DEF UpTo
        <4> HIDE DEF g
        <4> QED BY <2>4, <4>1 DEF Unfold
      <3> QED BY <3>1, <3>2
    <2>6. AddsUpTo(f, g, m)
      BY <2>5 DEF AddsUpTo
    <2> QED BY <1>3, <2>6
  <1> QED BY <1>5, <1>6

\* The recursion that defines the sum of a function with a finite domain has
\* a solution, and the sum is its value at the whole domain.
LEMMA SumExists ==
    ASSUME NEW f, IsFiniteSet(DOMAIN f)
    PROVE  \E g : AddsUp(f, g) /\ SumFunction(f) = g[DOMAIN f]
  <1> DEFINE n == Cardinality(DOMAIN f)
  <1>1. n \in Nat
    BY FS_CardinalityType
  <1>2. UpTo(DOMAIN f, n) = SUBSET DOMAIN f
    BY FS_Subset DEF UpTo
  <1>3. PICK g : AddsUpTo(f, g, n)
    BY <1>1, PartialSums
  <1>4. AddsUp(f, g)
    BY <1>2, <1>3 DEF AddsUpTo, AddsUp
  <1>5. AddsUp(f, CHOOSE h : AddsUp(f, h))
    BY <1>4
  <1> QED BY <1>5, SumUnfolds

\* A property of subsets that fails nowhere first holds everywhere.
LEMMA MinimalSubset ==
    ASSUME NEW S, IsFiniteSet(S), NEW T \in SUBSET SUBSET S, T # {}
    PROVE  \E t \in T : \A u \in T : ~(u \subseteq t /\ u # t)
  <1>1. IsWellFoundedOn(StrictSubsetOrdering(S), SUBSET S)
    BY FS_StrictSubsetOrderingWellFounded, FS_FiniteSubsetsOfFinite
  <1>2. PICK t \in T : \A u \in T : ~(<<u, t>> \in StrictSubsetOrdering(S))
    BY <1>1, WFMin
  <1> QED BY <1>2 DEF StrictSubsetOrdering

\* The sum of a function into a set of numbers closed under addition is in it.
LEMMA SumIn ==
    ASSUME NEW S, IsFiniteSet(S), NEW V, V = Int \/ V = Nat, NEW f \in [S -> V]
    PROVE  SumFunction(f) \in V
  <1>0. DOMAIN f = S
    OBVIOUS
  <1>1. PICK g : AddsUp(f, g) /\ SumFunction(f) = g[S]
    BY <1>0, SumExists
  <1> DEFINE T == {s \in SUBSET S : g[s] \notin V}
  <1>2. SUFFICES T = {}
    BY <1>1
  <1>3. SUFFICES ASSUME T # {} PROVE FALSE
    OBVIOUS
  <1>4. PICK t \in T : \A u \in T : ~(u \subseteq t /\ u # t)
    <2>1. T \in SUBSET SUBSET S
      OBVIOUS
    <2> HIDE DEF T
    <2> QED BY <1>3, <2>1, MinimalSubset
  <1>5. g[t] = Unfold(f, g, t)
    BY <1>0, <1>1 DEF AddsUp
  <1>6. t # {}
    BY <1>5 DEF Unfold
  <1>7. pick(t) \in t /\ pick(t) \in S /\ t \ {pick(t)} \in SUBSET S
    BY <1>6, PickIn
  <1>8. g[t \ {pick(t)}] \in V
    BY <1>4, <1>7
  <1>9. f[pick(t)] + g[t \ {pick(t)}] \in V
    BY <1>7, <1>8
  <1> QED BY <1>5, <1>6, <1>9 DEF Unfold

\* The zero function adds up to 0.
LEMMA SumZero ==
    ASSUME NEW S, IsFiniteSet(S), NEW f, f = [x \in S |-> 0]
    PROVE  SumFunction(f) = 0
  <1>0. DOMAIN f = S
    OBVIOUS
  <1>1. PICK g : AddsUp(f, g) /\ SumFunction(f) = g[S]
    BY <1>0, SumExists
  <1> DEFINE T == {s \in SUBSET S : g[s] # 0}
  <1>2. SUFFICES T = {}
    BY <1>1
  <1>3. SUFFICES ASSUME T # {} PROVE FALSE
    OBVIOUS
  <1>4. PICK t \in T : \A u \in T : ~(u \subseteq t /\ u # t)
    <2>1. T \in SUBSET SUBSET S
      OBVIOUS
    <2> HIDE DEF T
    <2> QED BY <1>3, <2>1, MinimalSubset
  <1>5. g[t] = Unfold(f, g, t)
    BY <1>0, <1>1 DEF AddsUp
  <1>6. t # {}
    BY <1>5 DEF Unfold
  <1>7. pick(t) \in t /\ pick(t) \in S /\ t \ {pick(t)} \in SUBSET S
    BY <1>6, PickIn
  <1>8. g[t \ {pick(t)}] = 0 /\ f[pick(t)] = 0
    BY <1>4, <1>7
  <1> QED BY <1>5, <1>6, <1>8 DEF Unfold

\* Changing one value changes the sum by as much.
LEMMA SumMoves ==
    ASSUME NEW S, IsFiniteSet(S), NEW f \in [S -> Int], NEW h \in [S -> Int], NEW x \in S,
           \A y \in S \ {x} : h[y] = f[y]
    PROVE  SumFunction(h) = SumFunction(f) + h[x] - f[x]
  <1>0. DOMAIN f = S /\ DOMAIN h = S
    OBVIOUS
  <1>1. PICK g : AddsUp(f, g) /\ SumFunction(f) = g[S]
    BY <1>0, SumExists
  <1>2. PICK k : AddsUp(h, k) /\ SumFunction(h) = k[S]
    BY <1>0, SumExists
  <1> DEFINE Moved(s) == IF x \in s THEN h[x] - f[x] ELSE 0
             Fine(s) == g[s] \in Int /\ k[s] = g[s] + Moved(s)
             T == {s \in SUBSET S : ~Fine(s)}
  <1>3. SUFFICES T = {}
    <2>1. ASSUME T = {} PROVE Fine(S)
      BY <2>1
    <2> QED BY <1>1, <1>2, <2>1
  <1>4. SUFFICES ASSUME T # {} PROVE FALSE
    OBVIOUS
  <1>5. PICK t \in T : \A u \in T : ~(u \subseteq t /\ u # t)
    <2>1. T \in SUBSET SUBSET S
      OBVIOUS
    <2> HIDE DEF T
    <2> QED BY <1>4, <2>1, MinimalSubset
  <1>6. g[t] = Unfold(f, g, t) /\ k[t] = Unfold(h, k, t)
    BY <1>0, <1>1, <1>2 DEF AddsUp
  <1>7. t # {}
    BY <1>6 DEF Unfold
  <1> DEFINE p == pick(t)
             u == t \ {p}
  <1>8. p \in t /\ p \in S /\ u \in SUBSET S /\ u # t /\ u \subseteq t
    BY <1>7, PickIn
  <1>9. Fine(u)
    BY <1>5, <1>8
  <1>10. g[t] = f[p] + g[u] /\ k[t] = h[p] + k[u]
    BY <1>6, <1>7 DEF Unfold
  <1>11. f[p] \in Int /\ h[p] \in Int /\ f[x] \in Int /\ h[x] \in Int
    BY <1>8
  <1> HIDE DEF p
  <1>12. CASE p = x
    <2>1. x \notin u /\ x \in t
      BY <1>8, <1>12
    <2> QED BY <1>9, <1>10, <1>11, <1>12, <2>1
  <1>13. CASE p # x
    <2>1. h[p] = f[p] /\ (x \in u <=> x \in t)
      BY <1>8, <1>13
    <2> QED BY <1>9, <1>10, <1>11, <2>1
  <1> QED BY <1>12, <1>13

\* No value of a function into the natural numbers exceeds the sum.
LEMMA SumCovers ==
    ASSUME NEW S, IsFiniteSet(S), NEW f \in [S -> Nat], NEW x \in S
    PROVE  f[x] <= SumFunction(f)
  <1> DEFINE h == [f EXCEPT ![x] = 0]
  <1>1. h \in [S -> Nat] /\ h[x] = 0 /\ \A y \in S \ {x} : h[y] = f[y]
    OBVIOUS
  <1> HIDE DEF h
  <1>2. f \in [S -> Int] /\ h \in [S -> Int]
    BY <1>1
  <1>3. SumFunction(h) = SumFunction(f) + h[x] - f[x]
    BY <1>1, <1>2, SumMoves
  <1>4. SumFunction(f) \in Nat /\ SumFunction(h) \in Nat /\ f[x] \in Nat
    BY <1>1, SumIn
  <1> QED BY <1>1, <1>3, <1>4

\* No two values of a function into the natural numbers exceed the sum together.
LEMMA SumCoversTwo ==
    ASSUME NEW S, IsFiniteSet(S), NEW f \in [S -> Nat], NEW x \in S, NEW y \in S, x # y
    PROVE  f[x] + f[y] <= SumFunction(f)
  <1> DEFINE h == [f EXCEPT ![x] = 0]
  <1>1. h \in [S -> Nat] /\ h[x] = 0 /\ \A z \in S \ {x} : h[z] = f[z]
    OBVIOUS
  <1> HIDE DEF h
  <1>2. f \in [S -> Int] /\ h \in [S -> Int] /\ h[y] = f[y]
    BY <1>1
  <1>3. SumFunction(h) = SumFunction(f) + h[x] - f[x]
    BY <1>1, <1>2, SumMoves
  <1>4. SumFunction(f) \in Nat /\ SumFunction(h) \in Nat /\ f[x] \in Nat /\ f[y] \in Nat
    BY <1>1, SumIn
  <1>5. h[y] <= SumFunction(h)
    BY <1>1, SumCovers
  <1> QED BY <1>1, <1>2, <1>3, <1>4, <1>5
=============================================================================
