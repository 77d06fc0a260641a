-------------------------------- MODULE Sdk --------------------------------
(***************************************************************************)
(* The SDK on top of the generated client: the builders that turn what a   *)
(* caller knows (a signer, a name, what it read of Config or of a sale)    *)
(* into the instructions of one transaction, and the quotes that mirror    *)
(* the program's arithmetic.  The CLI assembles the same instructions.     *)
(*                                                                         *)
(* A name stands for its hash, which nameInfo and nameParts compute.       *)
(***************************************************************************)
EXTENDS Fees, Client

\* The token accounts behind the vault names of module Protocol.
VaultAddress(v) ==
    CASE v = "staking_pool" -> ataFor(findStakePoolPda, PAYMENT_MINT)
      [] v = "burn_pool"    -> ataFor(findConfigPda, PAYMENT_MINT)
      [] OTHER              -> <<"account", v>>

\* The fee accounts a Config account names.
FeeAccountsOf(c) ==
    [treasury |-> VaultAddress("treasury"),
     staking  |-> VaultAddress(c.staking_vault),
     burn     |-> VaultAddress(c.burn_vault)]

-----------------------------------------------------------------------------
(* Registry. *)

\* cfg holds the fee accounts of Config; mint is a fresh key, or Absent with
\* withNft: false.  The NFT is only minted when the owner signs.
buildRegisterInstructions(payer, cfg, n, owner, years, referral, mint) ==
    LET register == getRegisterNameInstruction(payer, owner, cfg, referral, n, years)
    IN  IF mint # Absent /\ owner = payer
        THEN <<register, getTokenizeNameInstruction(payer, findNameRecordPda(n), mint, n)>>
        ELSE <<register>>

buildRenewInstructions(payer, cfg, n, years, referral) ==
    <<getRenewNameInstruction(payer, findNameRecordPda(n), cfg, referral, n, years)>>

\* The signer's token account for the mint, when the name was read tokenized.
NftAccount(authority, mint) == IF mint = Absent THEN Absent ELSE ataFor(authority, Mint(mint))

buildUpdateRecordInstructions(authority, n, mint, key, value) ==
    <<getUpdateRecordInstruction(authority, findNameRecordPda(n),
                                 NftAccount(authority, mint), key, value)>>

buildSetHostingInstructions(authority, n, mint, hostingRef) ==
    <<getSetHostingInstruction(authority, findNameRecordPda(n),
                               NftAccount(authority, mint), hostingRef)>>

buildSetResolverInstructions(authority, n, mint, resolver) ==
    <<getSetResolverInstruction(authority, findNameRecordPda(n),
                                NftAccount(authority, mint), resolver)>>

buildTransferInstructions(owner, n, newOwner) ==
    <<getTransferNameInstruction(owner, findNameRecordPda(n), newOwner)>>

buildSetControllerInstructions(owner, n, controller) ==
    <<getSetControllerInstruction(owner, findNameRecordPda(n), controller)>>

buildLockTransferInstructions(owner, n, lock) ==
    <<getLockTransferInstruction(owner, findNameRecordPda(n), lock)>>

buildSetReverseInstructions(owner, n) ==
    <<getSetReverseInstruction(owner, findNameRecordPda(n), n)>>

buildBurnNameInstructions(owner, n) == <<getBurnNameInstruction(owner, findNameRecordPda(n))>>

buildTokenizeInstructions(owner, n, mint) ==
    <<getTokenizeNameInstruction(owner, findNameRecordPda(n), mint, n)>>

buildRedeemInstructions(redeemer, n, mint) ==
    <<getRedeemNameInstruction(redeemer, findNameRecordPda(n), mint, ataFor(redeemer, Mint(mint)))>>

buildWrapSubdomainInstructions(owner, parent, child, subdomainOwner) ==
    <<getWrapSubdomainInstruction(owner, subdomainOwner, findNameRecordPda(parent), child)>>

buildRevokeSubdomainInstructions(owner, parent, child) ==
    <<getRevokeSubdomainInstruction(owner, findNameRecordPda(parent), findNameRecordPda(child))>>

-----------------------------------------------------------------------------
(* Marketplace. *)

buildListInstructions(owner, n, price, duration) ==
    <<getListNameInstruction(owner, findNameRecordPda(n), findListing(n), price, duration)>>

buildCancelListingInstructions(canceller, n, seller) ==
    <<getCancelListingInstruction(canceller, seller, findNameRecordPda(n), findListing(n))>>

buildBuyInstructions(buyer, n, seller, expectedPrice, solTreasury) ==
    <<getBuyNameInstruction(buyer, seller, solTreasury, findNameRecordPda(n), findListing(n),
                            expectedPrice)>>

buildMakeOfferInstructions(buyer, n, amount, duration) ==
    <<getMakeOfferInstruction(buyer, findNameRecordPda(n), findOffer(n, buyer), amount, duration)>>

buildAcceptOfferInstructions(owner, n, buyer, solTreasury) ==
    <<getAcceptOfferInstruction(owner, buyer, solTreasury, findNameRecordPda(n),
                                findOffer(n, buyer))>>

\* The record is optional to the program; this client always names it.
buildCancelOfferInstructions(canceller, n, buyer) ==
    <<getCancelOfferInstruction(canceller, buyer, findNameRecordPda(n), findOffer(n, buyer))>>

bidVaultOf(n) == ataFor(findAuction(n), SOLANS_MINT)

buildStartAuctionInstructions(owner, n, reserve, increment, duration) ==
    <<getStartAuctionInstruction(owner, findNameRecordPda(n), findAuction(n),
                                 reserve, increment, duration)>>

\* prevBidder is the highest bidder that was read, or Absent.
buildBidInstructions(bidder, n, amount, prevBidder) ==
    <<getBidInstruction(bidder, findAuction(n), ataFor(bidder, SOLANS_MINT),
                        IF prevBidder = Absent THEN Absent ELSE ataFor(prevBidder, SOLANS_MINT),
                        bidVaultOf(n), amount)>>

buildSettleAuctionInstructions(settler, n, seller, winner) ==
    <<getSettleAuctionInstruction(settler, seller,
                                  IF winner = Absent THEN Absent ELSE ataFor(seller, SOLANS_MINT),
                                  findNameRecordPda(n), findAuction(n), bidVaultOf(n))>>

buildCancelAuctionInstructions(seller, n) ==
    <<getCancelAuctionInstruction(seller, findNameRecordPda(n), findAuction(n), bidVaultOf(n))>>

-----------------------------------------------------------------------------
(* Staking. *)

buildStakeInstructions(staker, pool, amount) ==
    <<getStakeInstruction(staker, ataFor(staker, SOLANS_MINT), ataFor(staker, PAYMENT_MINT),
                          pool, amount)>>

buildUnstakeInstructions(staker, pool, amount) ==
    <<getUnstakeInstruction(staker, ataFor(staker, SOLANS_MINT), ataFor(staker, PAYMENT_MINT),
                            pool, amount)>>

buildClaimRewardsInstructions(staker, pool) ==
    <<getClaimRewardsInstruction(staker, ataFor(staker, PAYMENT_MINT), pool)>>

-----------------------------------------------------------------------------
(* Quotes.  p is the Config's parameters, s its pair [rate, discount].       *)

priceForLen(p, len) == IF len \in 1..4 THEN p.price[len] ELSE p.price[5]

priceForLabel(p, label) ==
    IF ~label.ascii THEN priceForLen(p, label.len) * 2
    ELSE IF label.len <= 4 /\ label.digits THEN p.price_numeric
    ELSE priceForLen(p, label.len)

quoteSolansFee(s, fee) ==
    (((fee * s.rate) \div SOLANS_RATE_SCALE) * (BPS_DENOMINATOR - s.discount)) \div BPS_DENOMINATOR

quoteBuyback(s, amount) == (amount * SOLANS_RATE_SCALE) \div s.rate

\* Mutant: deposits since the last sync are left out.
pendingReward_unsynced(p, s, balance, scale) ==
    SatSub((s.amount * p.acc_reward_per_share) \div scale, s.reward_debt)

\* What a staker would be paid now: p and s are the pool and the position as
\* read, balance the reward vault's, scale ACC_SCALE.
pendingReward(p, s, balance, scale) ==
    LET delta == SatSub(balance, p.last_reward_balance)
        perShare == p.acc_reward_per_share
                    + (IF p.total_staked > 0 THEN (delta * scale) \div p.total_staked ELSE 0)
    IN  IF s.amount = 0 THEN 0
        ELSE SatSub((s.amount * perShare) \div scale, s.reward_debt)
=============================================================================
