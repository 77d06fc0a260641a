----------------------------- MODULE MCStaking -----------------------------
(* Small instances of the protocol's money with its staking pool. *)
EXTENDS Staking

\* A fee split between stakers, referrer, burn vault and, with the rest, the
\* treasury.
Shares(staking, referral, burn) ==
    [price |-> [i \in 1..5 |-> 1], price_numeric |-> 1,
     grace_period |-> 0, min_years |-> 1, max_years |-> 1,
     sol_treasury |-> CHOOSE w \in Admins : TRUE, marketplace_fee_bps |-> 1000,
     staking_fee_bps |-> staking, referral_fee_bps |-> referral, burn_fee_bps |-> burn]

HalfToStakers == {Shares(5000, 0, 0)}
=============================================================================
