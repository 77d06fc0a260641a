------------------------------- MODULE MCPool -------------------------------
(* Small instances of the CLI against the protocol's money. *)
EXTENDS PoolCommands, MCStaking

Flags == {{"burn_fee_bps", "referral_fee_bps"}}
\* A split in quarters, which a fee of 5 rounds, and one that would leave the
\* treasury nothing of it.  What update-config merges of the two sends more to
\* the burn vault.
Quarters == {Shares(2500, 2500, 2500), Shares(6000, 0, 4000)}
\* Two $SOLANS per unit, and a discount that set_solans_params rejects.
TwoForOne == {[rate |-> 2000000, discount |-> 0], [rate |-> 1000000, discount |-> 10000]}
=============================================================================
