------------------------------ MODULE Staking ------------------------------
(***************************************************************************)
(* The $SOLANS staking pool on top of the protocol's money.  The staking   *)
(* share of every fee lands in the pool's reward vault (module Protocol,   *)
(* vault["staking_pool"]); the pool notices it at its next operation by    *)
(* comparing the vault with a watermark, spreads it over the stake, and    *)
(* pays each staker on stake, unstake and claim_rewards.                   *)
(***************************************************************************)
EXTENDS Treasury, FiniteSets, Functions

CONSTANTS AccScale,      \* ACC_SCALE, the fixed point of acc_reward_per_share
          StakeAmounts   \* the arguments of stake and unstake

ASSUME StakingAssumption ==
    /\ AccScale \in Nat \ {0} /\ StakeAmounts \subseteq Nat
    /\ IsFiniteSet(Wallets)

VARIABLES pool,       \* the StakePool account (its fields are 0 until created)
          position,   \* the StakeAccount of each wallet, or Nil
          stakeVault  \* $SOLANS in the pool's stake vault

stakingVars == <<pool, position, stakeVault>>
protocolVars == <<moneyVars, stakingVars>>

StakePool == [total_staked: Nat, acc_reward_per_share: Nat, last_reward_balance: Nat]
StakeAccount == [amount: Nat, reward_debt: Nat]

\* The absent account is not an account.
ASSUME PositionAssumption == Nil \notin StakeAccount

StakingTypeOK ==
    /\ MoneyTypeOK
    /\ pool \in StakePool
    /\ position \in [Wallets -> StakeAccount \cup {Nil}]
    /\ stakeVault \in Nat

StakingInit ==
    /\ ProtocolInit
    /\ pool = [total_staked |-> 0, acc_reward_per_share |-> 0, last_reward_balance |-> 0]
    /\ position = [w \in Wallets |-> Nil]
    /\ stakeVault = 0

PoolExists == config # Nil /\ config.staking_vault = "staking_pool"
Staked(w) == IF position[w] = Nil THEN 0 ELSE position[w].amount

\* Credit what reached the reward vault since the watermark, if anyone is
\* staked to receive it, and move the watermark.
sync(p, balance) ==
    LET delta == SatSub(balance, p.last_reward_balance)
        add == IF p.total_staked > 0 THEN (delta * AccScale) \div p.total_staked ELSE 0
    IN  [p EXCEPT !.acc_reward_per_share = @ + add, !.last_reward_balance = balance]

accrued(p, amount) == (amount * p.acc_reward_per_share) \div AccScale

pending(p, s) == IF s = Nil THEN 0 ELSE SatSub(accrued(p, s.amount), s.reward_debt)

\* What w is due at its next operation.
Due(w) == pending(sync(pool, vault["staking_pool"]), position[w])

\* Mutants: the watermark misses the payout; the old stake is counted twice.
Rebased_before_payout(p, w, amount, left) == [p EXCEPT !.total_staked = @ + amount - Staked(w)]
Rebased_twice(p, w, amount, left) ==
    [p EXCEPT !.total_staked = @ + amount, !.last_reward_balance = left]

\* The pool when w's stake becomes `amount` and `left` remains in the vault.
Rebased(p, w, amount, left) ==
    [p EXCEPT !.total_staked = @ + amount - Staked(w), !.last_reward_balance = left]

\* Mutant: the debt is not rebased.
Position_old_debt(p, w, amount) ==
    [amount |-> amount,
     reward_debt |-> IF position[w] = Nil THEN 0 ELSE position[w].reward_debt]

Position(p, w, amount) == [amount |-> amount, reward_debt |-> accrued(p, amount)]

\* Mutant: the reward is computed on the stake as it will be.
Settle_after_deposit(w, amount) ==
    LET p == sync(pool, vault["staking_pool"])
        due == SatSub(accrued(p, amount), IF position[w] = Nil THEN 0 ELSE position[w].reward_debt)
        left == vault["staking_pool"] - due
    IN  /\ due <= vault["staking_pool"]
        /\ vault' = [vault EXCEPT !["staking_pool"] = left]
        /\ usdc' = [usdc EXCEPT ![w] = @ + due]
        /\ position' = [position EXCEPT ![w] = Position(p, w, amount)]
        /\ pool' = Rebased(p, w, amount, left)

\* Common to the three instructions: sync, pay what is pending on the stake as
\* it was, set the stake to `amount` and rebase its debt, take the watermark
\* from the vault after the payout.
Settle(w, amount) ==
    LET p == sync(pool, vault["staking_pool"])
        left == vault["staking_pool"] - Due(w)
    IN  /\ Due(w) <= vault["staking_pool"]
        /\ vault' = [vault EXCEPT !["staking_pool"] = left]
        /\ usdc' = [usdc EXCEPT ![w] = @ + Due(w)]
        /\ position' = [position EXCEPT ![w] = Position(p, w, amount)]
        /\ pool' = Rebased(p, w, amount, left)

Stake(w, amount) ==
    /\ PoolExists
    /\ amount > 0
    /\ amount <= solans[w]
    /\ Settle(w, Staked(w) + amount)
    /\ solans' = [solans EXCEPT ![w] = @ - amount]
    /\ stakeVault' = stakeVault + amount
    /\ UNCHANGED config

\* Mutant: more than the stake may be withdrawn.
Unstake_more(w, amount) ==
    /\ PoolExists /\ position[w] # Nil
    /\ amount <= stakeVault
    /\ Settle(w, Staked(w) - amount)
    /\ solans' = [solans EXCEPT ![w] = @ + amount]
    /\ stakeVault' = stakeVault - amount
    /\ UNCHANGED config

\* amount may be 0.
Unstake(w, amount) ==
    /\ PoolExists /\ position[w] # Nil
    /\ amount <= Staked(w)
    /\ amount <= stakeVault
    /\ Settle(w, Staked(w) - amount)
    /\ solans' = [solans EXCEPT ![w] = @ + amount]
    /\ stakeVault' = stakeVault - amount
    /\ UNCHANGED config

ClaimRewards(w) ==
    /\ PoolExists /\ position[w] # Nil
    /\ Settle(w, Staked(w))
    /\ UNCHANGED <<config, solans, stakeVault>>

StakingNext ==
    \/ TreasuryNext /\ UNCHANGED stakingVars
    \/ \E w \in Wallets :
         \/ \E a \in StakeAmounts : Stake(w, a) \/ Unstake(w, a)
         \/ ClaimRewards(w)

StakingSpec == StakingInit /\ [][StakingNext]_protocolVars

-----------------------------------------------------------------------------
(* What the pool promises. *)

\* The watermark never runs ahead of the reward vault, so no deposit is ever
\* hidden from the stakers, and the stake vault holds the principal (sync, and
\* the reload after the payout).
PoolBooks ==
    /\ pool.last_reward_balance <= vault["staking_pool"]
    /\ stakeVault = pool.total_staked
    /\ \A w \in Wallets : Staked(w) <= pool.total_staked

\* The pool's total is the sum of the positions, over any sequence of stakes,
\* partial withdrawals and claims (stake, unstake).
PositionsAddUp == SumFunction([w \in Wallets |-> Staked(w)]) = pool.total_staked

\* A wallet without a stake gets nothing out of what others have earned: its
\* first stake pays it nothing, whatever reached the vault before (stake
\* settles on the stake as it was, against the synced pool).
PaysNoNewcomer ==
    \A w \in Wallets : Staked(w) = 0 /\ Staked(w)' > 0 => usdc'[w] <= usdc[w]

NewcomerEarnsNothing == [][PaysNoNewcomer]_protocolVars

\* Whoever changes its stake or collects a reward has nothing pending right
\* after: the debt is rebased on the new stake and the watermark follows the
\* payout, so nothing is paid twice and no stake is credited with the past.
SettlesInFull ==
    \A w \in Wallets : position'[w] # position[w] => Due(w)' = 0

SettledInFull == [][SettlesInFull]_protocolVars

\* README.md, instruction table: `unstake` is "withdraw `$SOLANS` + pending
\* reward".  A staker can always do that: the vault covers what it is due.
StakeWithdrawable ==
    PoolExists => \A w \in Wallets : Staked(w) > 0 => Due(w) <= vault["staking_pool"]
=============================================================================
