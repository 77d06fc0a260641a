-------------------------------- MODULE Fees --------------------------------
(***************************************************************************)
(* The arithmetic of the on-chain Config account: price tiers, the fee     *)
(* split, the pay-in-$SOLANS conversion and the buyback conversion, with   *)
(* the floors of the integer divisions.  A label is abstracted to what     *)
(* pricing looks at: whether it is ASCII, whether it is all digits, and    *)
(* how many characters it has.                                             *)
(*                                                                         *)
(* The program computes in u128 and rejects a result that does not fit in  *)
(* u64.  A fee that large exceeds every token balance, so the payment of   *)
(* the same instruction fails anyway; the model has only the latter guard. *)
(***************************************************************************)
EXTENDS Integers

BPS_DENOMINATOR == 10000
MAX_FEE_BPS == 1000
SOLANS_RATE_SCALE == 1000000

\* The arguments of init_config and update_config.  price[1..4] are price_1
\* to price_4, price[5] is price_5plus.
Params(W) ==
    [price: [1..5 -> Nat], price_numeric: Nat, grace_period: Int,
     min_years: Nat, max_years: Nat, sol_treasury: W,
     marketplace_fee_bps: Nat,
     staking_fee_bps: Nat, referral_fee_bps: Nat, burn_fee_bps: Nat]

\* Mutant: the shares may use up the whole fee.
ValidParams_whole_split(p) ==
    /\ 1 <= p.min_years /\ p.min_years <= p.max_years
    /\ p.grace_period >= 0
    /\ \A i \in 1..5 : p.price[i] > 0
    /\ p.price_numeric > 0
    /\ p.marketplace_fee_bps <= MAX_FEE_BPS
    /\ p.staking_fee_bps + p.referral_fee_bps + p.burn_fee_bps <= BPS_DENOMINATOR

\* The checks init_config and update_config share.
ValidParams(p) ==
    /\ 1 <= p.min_years /\ p.min_years <= p.max_years
    /\ p.grace_period >= 0
    /\ \A i \in 1..5 : p.price[i] > 0
    /\ p.price_numeric > 0
    /\ p.marketplace_fee_bps <= MAX_FEE_BPS
    /\ p.staking_fee_bps + p.referral_fee_bps + p.burn_fee_bps < BPS_DENOMINATOR

LabelShape == [ascii: BOOLEAN, digits: BOOLEAN, len: Nat \ {0}]

price_for_len(p, len) == IF len \in 1..4 THEN p.price[len] ELSE p.price[5]

price_for_label(p, label) ==
    IF ~label.ascii THEN 2 * price_for_len(p, label.len)
    ELSE IF label.len <= 4 /\ label.digits THEN p.price_numeric
    ELSE price_for_len(p, label.len)

Share(amount, bps) == (amount * bps) \div BPS_DENOMINATOR

\* Saturating subtraction of u64.
SatSub(a, b) == IF a >= b THEN a - b ELSE 0

\* Mutant: the burn share is not taken out of the treasury's.
fee_split_burn_twice(p, amount) ==
    LET staking  == Share(amount, p.staking_fee_bps)
        referral == Share(amount, p.referral_fee_bps)
    IN  [treasury |-> SatSub(SatSub(amount, staking), referral), staking |-> staking,
         referral |-> referral, burn |-> Share(amount, p.burn_fee_bps)]

fee_split(p, amount) ==
    LET staking  == Share(amount, p.staking_fee_bps)
        referral == Share(amount, p.referral_fee_bps)
        burn     == Share(amount, p.burn_fee_bps)
    IN  [treasury |-> SatSub(SatSub(SatSub(amount, staking), referral), burn),
         staking  |-> staking, referral |-> referral, burn |-> burn]

\* s is the pair [rate, discount] that set_solans_params stores.
solans_fee(s, usdc_fee) ==
    (((usdc_fee * s.rate) \div SOLANS_RATE_SCALE)
        * SatSub(BPS_DENOMINATOR, s.discount)) \div BPS_DENOMINATOR

\* Mutant: the reimbursement is rounded up.
buyback_usdc_up(s, amount) == (amount * SOLANS_RATE_SCALE + s.rate - 1) \div s.rate

buyback_usdc(s, amount) == (amount * SOLANS_RATE_SCALE) \div s.rate

\* Mutant: fee and net amount are swapped.
MarketFee_swapped(p, amount) == amount - Share(amount, p.marketplace_fee_bps)

\* What buy_name, accept_offer and settle_auction keep of a sale.
MarketFee(p, amount) == Share(amount, p.marketplace_fee_bps)
=============================================================================
