------------------------------ MODULE MCKeeper ------------------------------
(* Small instances of the keeper against the registry. *)
EXTENDS Keeper, MCNames

\* A malformed entry comes before the name.
Watched == <<"malformed">> \o <<CHOOSE n \in Names : TRUE>>

\* A yearly price of 5 of which every party gets a quarter, rounded down, and
\* the treasury the rest.
InQuarters ==
    {[P(0, 1) EXCEPT !.price = [i \in 1..5 |-> 5], !.staking_fee_bps = 2500,
                     !.referral_fee_bps = 2500, !.burn_fee_bps = 2500]}
=============================================================================
