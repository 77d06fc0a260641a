------------------------------ MODULE Treasury ------------------------------
(***************************************************************************)
(* The life of the protocol's money from an empty ledger: init_config, the *)
(* two pool initialisers, governance and buyback, with the naming          *)
(* instructions seen only through the fee they pay.                        *)
(***************************************************************************)
EXTENDS Protocol

CONSTANT FeeAmounts   \* the fees a naming instruction may come to

ASSUME FeeAssumption == FeeAmounts \subseteq Nat

PayFee(payer, referrer, amount) ==
    /\ config # Nil
    /\ DistributeFee(payer, referrer, amount)

TreasuryNext ==
    \/ \E a \in Admins, p \in ParamChoices, s \in FirstStakingVaults, b \in FirstBurnVaults :
          InitConfig(a, p, s, b)
    \/ \E a \in Admins : InitStakePool(a) \/ InitBurnPool(a)
    \/ \E w \in Wallets, f \in Referrers \cup {Nil}, a \in FeeAmounts : PayFee(w, f, a)
    \/ Governance

-----------------------------------------------------------------------------
(* What the fee split and the buyback promise. *)

\* The treasury has a share in every payment, however small, under every split
\* the admin can set: the other shares round down and stay below the whole
\* (fee_split, and the bound on the bps in init_config and update_config).
PaysTreasury ==
    (\E w \in Wallets : usdc'[w] < usdc[w]) => vault'["treasury"] > vault["treasury"]

TreasuryAlwaysPaid == [][PaysTreasury]_moneyVars

\* Burning $SOLANS pays at most its price, at the rate of that moment and in
\* any portions, and the burn vault is never overdrawn (buyback_burn,
\* buyback_usdc).
PaysAtPrice ==
    vault'["burn_pool"] < vault["burn_pool"] =>
        \E k \in Wallets :
            /\ usdc'[k] - usdc[k] = vault["burn_pool"] - vault'["burn_pool"]
            /\ (usdc'[k] - usdc[k]) * config.solans.rate
                 <= (solans[k] - solans'[k]) * SOLANS_RATE_SCALE

BuybackAtPrice == [][PaysAtPrice]_moneyVars

\* While fees can be paid in $SOLANS, the burn share goes to the vault the
\* buyback can spend: init_burn_pool is the only way to both
\* (set_solans_params may come before or after it).
PayInNeedsBurnPool ==
    config # Nil /\ solans_enabled(config) => config.burn_vault = "burn_pool"
=============================================================================
