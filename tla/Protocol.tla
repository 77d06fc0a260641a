------------------------------ MODULE Protocol ------------------------------
(***************************************************************************)
(* The money of the protocol: the Config account with its admin-gated      *)
(* instructions, the wallets' payment-mint ("usdc") and $SOLANS balances,  *)
(* the payment-mint vaults the fee split feeds, and the buyback that burns *)
(* $SOLANS against the burn vault.  The operators at the end are the       *)
(* payments the naming instructions make.                                  *)
(***************************************************************************)
EXTENDS Fees

CONSTANTS Wallets,        \* the keys that sign transactions
          Nil,            \* an absent account or an unset Option
          ParamChoices,   \* the arguments tried with init_config / update_config
          SolansChoices,  \* the arguments tried with set_solans_params
          BuybackAmounts, \* the arguments tried with buyback_burn
          Referrers,      \* wallets named as referrer
          Admins,         \* wallets that are, or are made, the admin
          UsdcPurse,      \* payment-mint balance each wallet starts with
          SolansPurse     \* $SOLANS balance each wallet starts with

ASSUME MoneyAssumption ==
    /\ UsdcPurse \in Nat /\ SolansPurse \in Nat
    /\ ParamChoices \subseteq Params(Wallets)
    /\ SolansChoices \subseteq [rate: Nat, discount: Nat]
    /\ Referrers \subseteq Wallets /\ Admins \subseteq Wallets
    /\ BuybackAmounts \subseteq Nat
    /\ Nil \notin Wallets

VARIABLES config,   \* the Config account, or Nil before init_config
          usdc,     \* payment-mint balance of each wallet
          solans,   \* $SOLANS balance of each wallet
          vault     \* payment-mint balance of the protocol's token accounts

moneyVars == <<config, usdc, solans, vault>>

\* The token accounts fees can reach.  init_config is given a staking and a
\* burn account, each of which may be the treasury itself; init_stake_pool and
\* init_burn_pool repoint Config at the accounts the program itself owns.
Vaults == {"treasury", "staking_initial", "staking_pool", "burn_initial", "burn_pool"}

FirstStakingVaults == {"staking_initial", "treasury"}
FirstBurnVaults == {"burn_initial", "treasury"}

Config ==
    [admin: Wallets, params: Params(Wallets),
     staking_vault: FirstStakingVaults \cup {"staking_pool"},
     burn_vault: FirstBurnVaults \cup {"burn_pool"},
     solans_mint: BOOLEAN,                 \* set or Pubkey::default()
     solans: [rate: Nat, discount: Nat]]

\* The absent account is not an account.
ASSUME ConfigAssumption == Nil \notin Config

MoneyTypeOK ==
    /\ config \in Config \cup {Nil}
    /\ usdc \in [Wallets -> Nat]
    /\ solans \in [Wallets -> Nat]
    /\ vault \in [Vaults -> Nat]

NewConfig(admin, p, staking, burn) ==
    [admin |-> admin, params |-> p, staking_vault |-> staking, burn_vault |-> burn,
     solans_mint |-> FALSE, solans |-> [rate |-> 0, discount |-> 0]]

solans_enabled(c) == c.solans_mint /\ c.solans.rate > 0

\* Nothing deployed yet; every wallet has its purse.
MoneyInit ==
    /\ usdc = [w \in Wallets |-> UsdcPurse]
    /\ solans = [w \in Wallets |-> SolansPurse]
    /\ vault = [v \in Vaults |-> 0]

ProtocolInit == config = Nil /\ MoneyInit

-----------------------------------------------------------------------------
(* The instructions on Config. *)

InitConfig(admin, p, staking, burn) ==
    /\ config = Nil
    /\ ValidParams(p)
    /\ config' = NewConfig(admin, p, staking, burn)
    /\ UNCHANGED <<usdc, solans, vault>>

WithParams(c, p) == [c EXCEPT !.params = p]
WithAdmin(c, a) == [c EXCEPT !.admin = a]
WithSolans(c, s) == [c EXCEPT !.solans = s]

UpdateConfig(signer, p) ==
    /\ config # Nil
    /\ signer = config.admin
    /\ ValidParams(p)
    /\ config' = WithParams(config, p)
    /\ UNCHANGED <<usdc, solans, vault>>

TransferAdmin(signer, new_admin) ==
    /\ config # Nil
    /\ signer = config.admin
    /\ config' = WithAdmin(config, new_admin)
    /\ UNCHANGED <<usdc, solans, vault>>

SetSolansParams(signer, s) ==
    /\ config # Nil
    /\ signer = config.admin
    /\ s.discount < BPS_DENOMINATOR
    /\ config' = WithSolans(config, s)
    /\ UNCHANGED <<usdc, solans, vault>>

\* The pool PDA and its reward vault are `init`: the second call fails.
InitStakePool(signer) ==
    /\ config # Nil
    /\ signer = config.admin
    /\ config.staking_vault # "staking_pool"
    /\ config' = [config EXCEPT !.staking_vault = "staking_pool"]
    /\ UNCHANGED <<usdc, solans, vault>>

\* Mutant: the pay-in mint is recorded but Config keeps its old burn vault.
InitBurnPool_not_repointed(signer) ==
    /\ config # Nil
    /\ signer = config.admin
    /\ config.burn_vault # "burn_pool"
    /\ config' = [config EXCEPT !.solans_mint = TRUE]
    /\ UNCHANGED <<usdc, solans, vault>>

InitBurnPool(signer) ==
    /\ config # Nil
    /\ signer = config.admin
    /\ config.burn_vault # "burn_pool"
    /\ config' = [config EXCEPT !.burn_vault = "burn_pool", !.solans_mint = TRUE]
    /\ UNCHANGED <<usdc, solans, vault>>

\* Reimburse the keeper out of the burn vault, then burn its $SOLANS.  The
\* vault must be owned by the Config PDA, which the initial one is not.
BuybackBurn(keeper, amount) ==
    /\ config # Nil
    /\ solans_enabled(config)
    /\ config.burn_vault = "burn_pool"
    /\ amount > 0
    /\ LET out == buyback_usdc(config.solans, amount) IN
         /\ out > 0
         /\ out <= vault["burn_pool"]
         /\ amount <= solans[keeper]
         /\ vault' = [vault EXCEPT !["burn_pool"] = @ - out]
         /\ usdc' = [usdc EXCEPT ![keeper] = @ + out]
         /\ solans' = [solans EXCEPT ![keeper] = @ - amount]
    /\ UNCHANGED config

-----------------------------------------------------------------------------
(* The payments of the naming instructions. *)

\* distribute_fee: the payer signs; staking, burn, referral and treasury are
\* paid in that order, and the referral share goes to the treasury when no
\* referrer is given.  A payer who is its own referrer pays that share to
\* itself, so it needs to hold it but does not lose it.
DistributeFee(payer, referrer, amount) ==
    LET s == fee_split(config.params, amount)
        referral == IF referrer = Nil THEN 0 ELSE s.referral
        treasury == IF referrer = Nil THEN s.treasury + s.referral ELSE s.treasury
        kept == IF referrer = payer THEN referral ELSE 0
    IN  /\ s.staking + s.burn + referral <= usdc[payer]
        /\ s.staking + s.burn + referral - kept + treasury <= usdc[payer]
        /\ usdc' = [w \in Wallets |->
                      usdc[w] - (IF w = payer THEN s.staking + s.burn + referral + treasury ELSE 0)
                              + (IF w = referrer THEN referral ELSE 0)]
        /\ vault' = [v \in Vaults |->
                       vault[v] + (IF v = config.staking_vault THEN s.staking ELSE 0)
                                + (IF v = config.burn_vault THEN s.burn ELSE 0)
                                + (IF v = "treasury" THEN treasury ELSE 0)]
        /\ UNCHANGED <<config, solans>>

\* Mutant: the balance is not checked.
BurnSolans_unchecked(payer, amount) ==
    /\ solans' = [solans EXCEPT ![payer] = @ - amount]
    /\ UNCHANGED <<config, usdc, vault>>

\* burn_tokens, for the pay-in-$SOLANS paths.
BurnSolans(payer, amount) ==
    /\ amount <= solans[payer]
    /\ solans' = [solans EXCEPT ![payer] = @ - amount]
    /\ UNCHANGED <<config, usdc, vault>>

\* The Config instructions, and the permissionless buyback.
Governance ==
    \/ \E signer \in Admins :
         \/ \E p \in ParamChoices : UpdateConfig(signer, p)
         \/ \E s \in SolansChoices : SetSolansParams(signer, s)
         \/ \E a \in Admins : TransferAdmin(signer, a)
    \/ \E k \in Wallets, a \in BuybackAmounts : BuybackBurn(k, a)
=============================================================================
