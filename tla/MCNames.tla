------------------------------ MODULE MCNames -------------------------------
(* Small instances of the registry. *)
EXTENDS Names

\* One price for every tier, terms of 1..max years, a marketplace fee of 10%.
P(grace, max) ==
    [price |-> [i \in 1..5 |-> 1], price_numeric |-> 1,
     grace_period |-> grace, min_years |-> 1, max_years |-> max,
     sol_treasury |-> CHOOSE w \in Admins : TRUE, marketplace_fee_bps |-> 1000,
     staking_fee_bps |-> 2500, referral_fee_bps |-> 1000, burn_fee_bps |-> 500]

NoGrace == {P(0, 1)}
OneGrace == {P(1, 1)}

AtPar == {[rate |-> SOLANS_RATE_SCALE, discount |-> 0]}
\* At a hundred $SOLANS per unit no purse here affords to pay a fee in $SOLANS.
Dear == {[rate |-> 100 * SOLANS_RATE_SCALE, discount |-> 0]}

Plain == [n \in Names |-> [ascii |-> TRUE, digits |-> FALSE, len |-> 5]]
Flat == [n \in Names |-> Nil]

\* alex.sol, pay.alex.sol and x.pay.alex.sol.
TreeNames == {"alex", "pay", "x"}
Tree == [alex |-> Nil, pay |-> "alex", x |-> "pay"]

TwoNames == {"alex", "pay"}
Two == [alex |-> Nil, pay |-> "alex"]
=============================================================================
