---------------------------- MODULE PoolCommands ----------------------------
(***************************************************************************)
(* The CLI's administration, buyback and staking commands against the      *)
(* protocol's money.  As in module Commands, a command reads what it       *)
(* needs, builds one instruction and sends it; `tx` is in flight until it  *)
(* lands or is given up, and everyone else goes on meanwhile.              *)
(***************************************************************************)
EXTENDS Staking, Sdk

CONSTANTS Users,     \* the wallets whose commands are followed step by step
          FlagSets   \* the sets of options update-config is called with

ASSUME UserAssumption == Users \subseteq Wallets

VARIABLE tx   \* [payer, ix], or Nil when no transaction is in flight

poolVars == <<protocolVars, tx>>

sendInstruction(w, ix) == tx' = [payer |-> w, ix |-> ix] /\ UNCHANGED protocolVars

-----------------------------------------------------------------------------
(* Administration. *)

\* Without --staking-vault or --burn-vault that share goes to the treasury.
cli_init_config(w, p, staking, burn) ==
    sendInstruction(w, getInitConfigInstruction(w, VaultAddress("treasury"),
                           VaultAddress(staking), VaultAddress(burn), p))

\* The options that are given replace what was read, all fields are written.
Merged(flags, p) ==
    [f \in DOMAIN p |-> IF f \in flags THEN p[f] ELSE config.params[f]]

cli_update_config(w, flags, p) ==
    /\ config # Nil
    /\ sendInstruction(w, getUpdateConfigInstruction(w, Merged(flags, p)))

cli_transfer_admin(w, new_admin) ==
    sendInstruction(w, getTransferAdminInstruction(w, new_admin))

cli_solans_params(w, s) == sendInstruction(w, getSetSolansParamsInstruction(w, s))

cli_stake_init(w) == config # Nil /\ sendInstruction(w, getInitStakePoolInstruction(w))

cli_burn_init(w) == config # Nil /\ sendInstruction(w, getInitBurnPoolInstruction(w))

cli_buyback(w, amount) ==
    /\ config # Nil
    /\ sendInstruction(w, getBuybackBurnInstruction(w, VaultAddress(config.burn_vault),
                              ataFor(w, PAYMENT_MINT), ataFor(w, SOLANS_MINT), amount))

-----------------------------------------------------------------------------
(* Staking. *)

\* stakePoolAndConfig gives up when there is no pool; the vaults it reads
\* never change.
PoolRead == [stakeVault  |-> ataFor(findStakePoolPda, SOLANS_MINT),
             rewardVault |-> ataFor(findStakePoolPda, PAYMENT_MINT)]

cli_stake(w, amount) ==
    PoolExists /\ sendInstruction(w, buildStakeInstructions(w, PoolRead, amount)[1])

cli_unstake(w, amount) ==
    PoolExists /\ sendInstruction(w, buildUnstakeInstructions(w, PoolRead, amount)[1])

cli_stake_claim(w) ==
    PoolExists /\ sendInstruction(w, buildClaimRewardsInstructions(w, PoolRead)[1])

-----------------------------------------------------------------------------
(* The program, as seen through the accounts of an instruction. *)

RunConfig(ix) ==
    LET w == AccountAt(ix, 1) d == ix.data IN
    \/ /\ ix.name = "init_config"
       /\ \E s \in FirstStakingVaults, b \in FirstBurnVaults :
             /\ AccountAt(ix, 5) = VaultAddress(s) /\ AccountAt(ix, 6) = VaultAddress(b)
             /\ InitConfig(w, d.params, s, b)
    \/ ix.name = "update_config" /\ UpdateConfig(w, d.params)
    \/ ix.name = "transfer_admin" /\ TransferAdmin(w, d.newAdmin)
    \/ ix.name = "set_solans_params" /\ SetSolansParams(w, d.solans)
    \/ ix.name = "init_stake_pool" /\ InitStakePool(w)
    \/ ix.name = "init_burn_pool" /\ InitBurnPool(w)
    \/ /\ ix.name = "buyback_burn"
       /\ config # Nil /\ AccountAt(ix, 3) = VaultAddress(config.burn_vault)
       /\ BuybackBurn(w, d.amount)

RunStaking(ix) ==
    LET w == AccountAt(ix, 1) IN
    \/ ix.name = "stake" /\ Stake(w, ix.data.amount)
    \/ ix.name = "unstake" /\ Unstake(w, ix.data.amount)
    \/ ix.name = "claim_rewards" /\ ClaimRewards(w)

Land ==
    /\ tx # Nil /\ tx' = Nil
    /\ (RunConfig(tx.ix) /\ UNCHANGED stakingVars) \/ RunStaking(tx.ix)

\* The simulation fails, the transaction fails, or its blockhash expires.
Abort == tx # Nil /\ tx' = Nil /\ UNCHANGED protocolVars

\* Only what is built from something read can be stale when it lands.
BuiltFromReads == {"update_config", "buyback_burn"}

Others ==
    /\ tx # Nil => tx.ix.name \in BuiltFromReads
    /\ StakingNext /\ UNCHANGED tx

PoolCommands ==
    /\ tx = Nil
    /\ \E w \in Users :
        \/ \E p \in ParamChoices :
             \/ \E s \in FirstStakingVaults, b \in FirstBurnVaults : cli_init_config(w, p, s, b)
             \/ \E f \in FlagSets : cli_update_config(w, f, p)
        \/ \E a \in Admins : cli_transfer_admin(w, a)
        \/ \E s \in SolansChoices : cli_solans_params(w, s)
        \/ cli_stake_init(w) \/ cli_burn_init(w) \/ cli_stake_claim(w)
        \/ \E a \in BuybackAmounts : cli_buyback(w, a)
        \/ \E a \in StakeAmounts : cli_stake(w, a) \/ cli_unstake(w, a)

PoolInit == StakingInit /\ tx = Nil

PoolCommandsSpec == PoolInit /\ [][PoolCommands \/ Land \/ Abort \/ Others]_poolVars

-----------------------------------------------------------------------------
(* What the client promises. *)

\* The accounts a step changes.
Changed ==
    UNION {IF config' = config THEN {} ELSE {findConfigPda},
           IF pool' = pool THEN {} ELSE {findStakePoolPda},
           IF stakeVault' = stakeVault THEN {} ELSE {ataFor(findStakePoolPda, SOLANS_MINT)},
           {findStakeAccountPda(w) : w \in {v \in Wallets : position'[v] # position[v]}},
           {ataFor(w, PAYMENT_MINT) : w \in {v \in Wallets : usdc'[v] # usdc[v]}},
           {ataFor(w, SOLANS_MINT) : w \in {v \in Wallets : solans'[v] # solans[v]}},
           {VaultAddress(v) : v \in {u \in Vaults : vault'[u] # vault[u]}}}

Landing == tx # Nil /\ tx' = Nil

\* A command changes only accounts it declares writable, and nobody but its
\* signer loses by it, also when Config was repointed or the admin replaced
\* while it was in flight.
WritesDeclared ==
    Landing =>
        /\ Changed \subseteq Writable(tx.ix)
        /\ \A w \in Wallets \ {tx.payer} :
              /\ usdc'[w] >= usdc[w] /\ solans'[w] >= solans[w]
              /\ position'[w] = position[w]

PoolWritesDeclared == [][WritesDeclared]_poolVars

\* The SDK's quotes are what the program does in the same state: the pending
\* reward it shows is the one the next operation pays, a buyback pays what was
\* quoted, and every label costs what the client computed (pendingReward,
\* quoteBuyback, quoteSolansFee, priceForLabel; client.ts: "Keep byte-identical
\* to the on-chain logic").
Labels == [ascii: BOOLEAN, digits: BOOLEAN, len: 1..6]

QuotesAgree ==
    config # Nil =>
        /\ PoolExists => \A w \in Wallets : position[w] # Nil =>
              pendingReward(pool, position[w], vault["staking_pool"], AccScale) = Due(w)
        /\ \A l \in Labels : priceForLabel(config.params, l) = price_for_label(config.params, l)
        /\ config.solans.rate > 0 => \A a \in BuybackAmounts :
              /\ quoteBuyback(config.solans, a) = buyback_usdc(config.solans, a)
              /\ quoteSolansFee(config.solans, a) = solans_fee(config.solans, a)
=============================================================================
