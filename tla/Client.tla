------------------------------- MODULE Client -------------------------------
(***************************************************************************)
(* The instructions of the SOLANS program as the TypeScript client builds  *)
(* and parses them: for each one the ordered list of accounts, with the    *)
(* signer and writable flags a transaction declares, and the arguments.    *)
(*                                                                         *)
(* An address is a tuple that names the seeds it is derived from; a wallet *)
(* is its own address.  Byte layout of the arguments and the eight-byte    *)
(* discriminators are abstracted to a record and to the instruction's      *)
(* name.                                                                   *)
(***************************************************************************)
EXTENDS Naturals, Sequences

-----------------------------------------------------------------------------
(* Addresses. *)

SOLANS_PROGRAM_ADDRESS == <<"program", "solans">>
TOKEN_PROGRAM == <<"program", "token">>
ATA_PROGRAM == <<"program", "associated_token">>
SYSTEM_PROGRAM == <<"program", "system">>
METADATA_PROGRAM == <<"program", "metadata">>
RENT_SYSVAR == <<"sysvar", "rent">>

Mint(m) == <<"mint", m>>
PAYMENT_MINT == Mint("usdc")
SOLANS_MINT == Mint("solans")

findConfigPda == <<"config">>
findNameRecordPda(n) == <<"name", n>>
findReverseRecordPda(owner) == <<"reverse", owner>>
findStakePoolPda == <<"stake_pool">>
findStakeAccountPda(staker) == <<"stake", staker>>
findMetadataPda(mint) == <<"metadata", mint>>
findMasterEditionPda(mint) == <<"edition", mint>>
findListing(n) == <<"listing", n>>
findOffer(n, buyer) == <<"offer", n, buyer>>
findAuction(n) == <<"auction", n>>

\* The associated token account of an owner, a wallet or a program account.
ataFor(owner, mint) == <<"ata", owner, mint>>

-----------------------------------------------------------------------------
(* Instructions. *)

\* An optional account that was not given, and how it is encoded.
Absent == <<>>
Meta(a, s, w) == [address |-> a, signer |-> s, writable |-> w]
WS(a) == Meta(a, TRUE, TRUE)
S(a) == Meta(a, TRUE, FALSE)
W(a) == Meta(a, FALSE, TRUE)
R(a) == Meta(a, FALSE, FALSE)
OptW(a) == IF a = Absent THEN R(SOLANS_PROGRAM_ADDRESS) ELSE W(a)
OptR(a) == IF a = Absent THEN R(SOLANS_PROGRAM_ADDRESS) ELSE R(a)

Instruction(name, accounts, data) == [name |-> name, accounts |-> accounts, data |-> data]

AccountAt(ix, i) == ix.accounts[i].address
Given(ix, i) == AccountAt(ix, i) # SOLANS_PROGRAM_ADDRESS
Writable(ix) == {AccountAt(ix, i) : i \in {j \in DOMAIN ix.accounts : ix.accounts[j].writable}}

-----------------------------------------------------------------------------
(* Config, staking pool and buyback. *)

getInitConfigInstruction(admin, treasury, staking, burn, params) ==
    Instruction("init_config",
        <<WS(admin), W(findConfigPda), R(PAYMENT_MINT), R(treasury), R(staking), R(burn),
          R(TOKEN_PROGRAM), R(SYSTEM_PROGRAM)>>,
        [params |-> params])

getUpdateConfigInstruction(admin, params) ==
    Instruction("update_config",
        <<S(admin), W(findConfigPda)>>,
        [params |-> params])

getTransferAdminInstruction(admin, newAdmin) ==
    Instruction("transfer_admin",
        <<S(admin), W(findConfigPda)>>,
        [newAdmin |-> newAdmin])

getSetSolansParamsInstruction(admin, solans) ==
    Instruction("set_solans_params",
        <<S(admin), W(findConfigPda)>>,
        [solans |-> solans])

getInitStakePoolInstruction(admin) ==
    Instruction("init_stake_pool",
        <<WS(admin), W(findConfigPda), W(findStakePoolPda), R(SOLANS_MINT), R(PAYMENT_MINT),
          W(ataFor(findStakePoolPda, SOLANS_MINT)), W(ataFor(findStakePoolPda, PAYMENT_MINT)),
          R(TOKEN_PROGRAM), R(ATA_PROGRAM), R(SYSTEM_PROGRAM)>>,
        [pool |-> findStakePoolPda])

getInitBurnPoolInstruction(admin) ==
    Instruction("init_burn_pool",
        <<WS(admin), W(findConfigPda), R(SOLANS_MINT), R(PAYMENT_MINT),
          W(ataFor(findConfigPda, PAYMENT_MINT)),
          R(TOKEN_PROGRAM), R(ATA_PROGRAM), R(SYSTEM_PROGRAM)>>,
        [mint |-> SOLANS_MINT])

getBuybackBurnInstruction(keeper, burnVault, paymentAccount, solansAccount, amount) ==
    Instruction("buyback_burn",
        <<S(keeper), R(findConfigPda), W(burnVault), W(paymentAccount), W(solansAccount),
          W(SOLANS_MINT), R(PAYMENT_MINT), R(TOKEN_PROGRAM)>>,
        [amount |-> amount])

getStakeInstruction(staker, tokenAccount, rewardAccount, pool, amount) ==
    Instruction("stake",
        <<WS(staker), R(findConfigPda), W(findStakePoolPda), W(findStakeAccountPda(staker)),
          W(tokenAccount), W(rewardAccount), W(pool.stakeVault), W(pool.rewardVault),
          R(SOLANS_MINT), R(PAYMENT_MINT), R(TOKEN_PROGRAM), R(SYSTEM_PROGRAM)>>,
        [amount |-> amount])

\* Mutant: the reward account is not declared writable.
getUnstakeInstruction_readonly_reward(staker, tokenAccount, rewardAccount, pool, amount) ==
    Instruction("unstake",
        <<S(staker), R(findConfigPda), W(findStakePoolPda), W(findStakeAccountPda(staker)),
          W(tokenAccount), R(rewardAccount), W(pool.stakeVault), W(pool.rewardVault),
          R(SOLANS_MINT), R(PAYMENT_MINT), R(TOKEN_PROGRAM)>>,
        [amount |-> amount])

getUnstakeInstruction(staker, tokenAccount, rewardAccount, pool, amount) ==
    Instruction("unstake",
        <<S(staker), R(findConfigPda), W(findStakePoolPda), W(findStakeAccountPda(staker)),
          W(tokenAccount), W(rewardAccount), W(pool.stakeVault), W(pool.rewardVault),
          R(SOLANS_MINT), R(PAYMENT_MINT), R(TOKEN_PROGRAM)>>,
        [amount |-> amount])

getClaimRewardsInstruction(staker, rewardAccount, pool) ==
    Instruction("claim_rewards",
        <<S(staker), R(findConfigPda), W(findStakePoolPda), W(findStakeAccountPda(staker)),
          W(rewardAccount), W(pool.rewardVault), R(PAYMENT_MINT), R(TOKEN_PROGRAM)>>,
        [staker |-> staker])

-----------------------------------------------------------------------------
(* Registration, renewal, expiry.  cfg holds the fee accounts read off Config. *)

getRegisterNameInstruction(payer, owner, cfg, referral, n, years) ==
    Instruction("register_name",
        <<WS(payer), R(owner), R(findConfigPda), W(findNameRecordPda(n)),
          W(ataFor(payer, PAYMENT_MINT)), W(cfg.treasury), W(cfg.staking), W(cfg.burn),
          OptW(referral),
          R(PAYMENT_MINT), R(TOKEN_PROGRAM), R(SYSTEM_PROGRAM)>>,
        [name |-> n, years |-> years])

getRegisterWithSolansInstruction(payer, owner, n, years) ==
    Instruction("register_with_solans",
        <<WS(payer), R(owner), R(findConfigPda), W(findNameRecordPda(n)),
          W(ataFor(payer, SOLANS_MINT)), W(SOLANS_MINT), R(TOKEN_PROGRAM), R(SYSTEM_PROGRAM)>>,
        [name |-> n, years |-> years])

getRenewNameInstruction(payer, nameRecord, cfg, referral, n, years) ==
    Instruction("renew_name",
        <<WS(payer), R(findConfigPda), W(nameRecord), W(ataFor(payer, PAYMENT_MINT)),
          W(cfg.treasury), W(cfg.staking), W(cfg.burn), OptW(referral),
          R(PAYMENT_MINT), R(TOKEN_PROGRAM)>>,
        [name |-> n, years |-> years])

getRenewWithSolansInstruction(payer, nameRecord, n, years) ==
    Instruction("renew_with_solans",
        <<WS(payer), R(findConfigPda), W(nameRecord), W(ataFor(payer, SOLANS_MINT)),
          W(SOLANS_MINT), R(TOKEN_PROGRAM)>>,
        [name |-> n, years |-> years])

getAutoRenewInstruction(keeper, nameRecord, ownerAccount, cfg, n, years) ==
    Instruction("auto_renew",
        <<WS(keeper), R(findConfigPda), W(nameRecord), W(ownerAccount),
          W(cfg.treasury), W(cfg.staking), W(cfg.burn),
          R(PAYMENT_MINT), R(TOKEN_PROGRAM)>>,
        [name |-> n, years |-> years])

getClaimExpiredInstruction(claimer, nameRecord, cfg, referral, n, years) ==
    Instruction("claim_expired",
        <<WS(claimer), R(findConfigPda), W(nameRecord), W(ataFor(claimer, PAYMENT_MINT)),
          W(cfg.treasury), W(cfg.staking), W(cfg.burn), OptW(referral),
          R(PAYMENT_MINT), R(TOKEN_PROGRAM)>>,
        [name |-> n, years |-> years])

getBurnNameInstruction(owner, nameRecord) ==
    Instruction("burn_name",
        <<WS(owner), W(nameRecord)>>,
        [owner |-> owner])

-----------------------------------------------------------------------------
(* Ownership, records, name NFTs, subdomains. *)

getTransferNameInstruction(owner, nameRecord, newOwner) ==
    Instruction("transfer_name",
        <<S(owner), W(nameRecord)>>,
        [newOwner |-> newOwner])

getLockTransferInstruction(owner, nameRecord, lock) ==
    Instruction("lock_transfer",
        <<S(owner), W(nameRecord)>>,
        [lock |-> lock])

getSetControllerInstruction(owner, nameRecord, controller) ==
    Instruction("set_controller",
        <<S(owner), W(nameRecord)>>,
        [controller |-> controller])

getSetResolverInstruction(authority, nameRecord, nftAccount, resolver) ==
    Instruction("set_resolver",
        <<S(authority), W(nameRecord), OptR(nftAccount)>>,
        [resolver |-> resolver])

getSetHostingInstruction(authority, nameRecord, nftAccount, hostingRef) ==
    Instruction("set_hosting",
        <<S(authority), W(nameRecord), OptR(nftAccount)>>,
        [hostingRef |-> hostingRef])

getUpdateRecordInstruction(authority, nameRecord, nftAccount, key, value) ==
    Instruction("update_record",
        <<S(authority), W(nameRecord), OptR(nftAccount)>>,
        [key |-> key, value |-> value])

getSetReverseInstruction(owner, nameRecord, n) ==
    Instruction("set_reverse",
        <<WS(owner), W(nameRecord), W(findReverseRecordPda(owner)), R(SYSTEM_PROGRAM)>>,
        [name |-> n])

getTokenizeNameInstruction(owner, nameRecord, mint, n) ==
    Instruction("tokenize_name",
        <<WS(owner), W(nameRecord), WS(Mint(mint)), W(ataFor(owner, Mint(mint))),
          W(findMetadataPda(mint)), W(findMasterEditionPda(mint)),
          R(TOKEN_PROGRAM), R(ATA_PROGRAM), R(METADATA_PROGRAM),
          R(SYSTEM_PROGRAM), R(RENT_SYSVAR)>>,
        [name |-> n, mint |-> mint])

\* Mutant: the mint, whose token is burned, is not declared writable.
getRedeemNameInstruction_readonly_mint(redeemer, nameRecord, mint, tokenAccount) ==
    Instruction("redeem_name",
        <<WS(redeemer), W(nameRecord), R(Mint(mint)), W(tokenAccount),
          W(findMetadataPda(mint)), W(findMasterEditionPda(mint)),
          R(TOKEN_PROGRAM), R(METADATA_PROGRAM)>>,
        [mint |-> mint])

getRedeemNameInstruction(redeemer, nameRecord, mint, tokenAccount) ==
    Instruction("redeem_name",
        <<WS(redeemer), W(nameRecord), W(Mint(mint)), W(tokenAccount),
          W(findMetadataPda(mint)), W(findMasterEditionPda(mint)),
          R(TOKEN_PROGRAM), R(METADATA_PROGRAM)>>,
        [mint |-> mint])

getWrapSubdomainInstruction(owner, subdomainOwner, parentName, child) ==
    Instruction("wrap_subdomain",
        <<WS(owner), R(subdomainOwner), R(parentName), W(findNameRecordPda(child)),
          R(SYSTEM_PROGRAM)>>,
        [name |-> child])

getRevokeSubdomainInstruction(owner, parentName, nameRecord) ==
    Instruction("revoke_subdomain",
        <<WS(owner), R(parentName), W(nameRecord)>>,
        [parent |-> parentName])

-----------------------------------------------------------------------------
(* Marketplace. *)

getListNameInstruction(owner, nameRecord, listing, price, duration) ==
    Instruction("list_name",
        <<WS(owner), W(nameRecord), W(listing), R(SYSTEM_PROGRAM)>>,
        [price |-> price, duration |-> duration])

getUpdateListingInstruction(seller, listing, price, duration) ==
    Instruction("update_listing",
        <<S(seller), W(listing)>>,
        [price |-> price, duration |-> duration])

getCancelListingInstruction(canceller, seller, nameRecord, listing) ==
    Instruction("cancel_listing",
        <<S(canceller), W(seller), W(nameRecord), W(listing)>>,
        [seller |-> seller])

\* Mutant: the listing, which the purchase closes, is not declared writable.
getBuyNameInstruction_readonly_listing(buyer, seller, solTreasury, nameRecord, listing, price) ==
    Instruction("buy_name",
        <<WS(buyer), W(seller), W(solTreasury), R(findConfigPda), W(nameRecord), R(listing),
          R(SYSTEM_PROGRAM)>>,
        [expectedPrice |-> price])

getBuyNameInstruction(buyer, seller, solTreasury, nameRecord, listing, price) ==
    Instruction("buy_name",
        <<WS(buyer), W(seller), W(solTreasury), R(findConfigPda), W(nameRecord), W(listing),
          R(SYSTEM_PROGRAM)>>,
        [expectedPrice |-> price])

getMakeOfferInstruction(buyer, nameRecord, offer, amount, duration) ==
    Instruction("make_offer",
        <<WS(buyer), R(nameRecord), W(offer), R(SYSTEM_PROGRAM)>>,
        [amount |-> amount, duration |-> duration])

getCancelOfferInstruction(canceller, buyer, nameRecord, offer) ==
    Instruction("cancel_offer",
        <<S(canceller), W(buyer), OptR(nameRecord), W(offer)>>,
        [buyer |-> buyer])

\* The owner is paid but not declared writable: the fee payer always is.
getAcceptOfferInstruction(owner, buyer, solTreasury, nameRecord, offer) ==
    Instruction("accept_offer",
        <<S(owner), W(buyer), W(solTreasury), R(findConfigPda), W(nameRecord), W(offer)>>,
        [buyer |-> buyer])

getStartAuctionInstruction(owner, nameRecord, auction, reserve, increment, duration) ==
    Instruction("start_auction",
        <<WS(owner), R(findConfigPda), W(nameRecord), W(auction), R(SOLANS_MINT),
          W(ataFor(auction, SOLANS_MINT)), R(TOKEN_PROGRAM), R(ATA_PROGRAM), R(SYSTEM_PROGRAM)>>,
        [reserve |-> reserve, increment |-> increment, duration |-> duration])

getBidInstruction(bidder, auction, bidderAccount, prevAccount, bidVault, amount) ==
    Instruction("bid",
        <<WS(bidder), W(auction), W(bidderAccount), OptW(prevAccount), W(bidVault),
          R(SOLANS_MINT), R(TOKEN_PROGRAM)>>,
        [amount |-> amount])

getSettleAuctionInstruction(settler, seller, sellerAccount, nameRecord, auction, bidVault) ==
    Instruction("settle_auction",
        <<S(settler), R(findConfigPda), W(seller), OptW(sellerAccount), W(nameRecord), W(auction),
          W(bidVault), W(SOLANS_MINT), R(TOKEN_PROGRAM)>>,
        [seller |-> seller])

getCancelAuctionInstruction(seller, nameRecord, auction, bidVault) ==
    Instruction("cancel_auction",
        <<WS(seller), W(nameRecord), W(auction), W(bidVault), R(TOKEN_PROGRAM)>>,
        [seller |-> seller])

-----------------------------------------------------------------------------
(* Reading instructions back.  A parser names the accounts by their position. *)

SolansInstruction ==
    {"accept_offer", "auto_renew", "bid", "burn_name", "buy_name",
     "buyback_burn", "cancel_auction", "cancel_listing", "cancel_offer",
     "claim_expired", "claim_rewards", "init_burn_pool", "init_config",
     "init_stake_pool", "list_name", "lock_transfer", "make_offer",
     "redeem_name", "register_name", "register_with_solans", "renew_name",
     "renew_with_solans", "resolve", "revoke_subdomain", "set_controller",
     "set_hosting", "set_resolver", "set_reverse", "set_solans_params",
     "settle_auction", "stake", "start_auction", "tokenize_name",
     "transfer_admin", "transfer_name", "unstake", "update_config",
     "update_listing", "update_record", "wrap_subdomain"}

\* By the discriminator; an unknown one is an error.
identifySolansInstruction(ix) == IF ix.name \in SolansInstruction THEN ix.name ELSE "unknown"

Parsed(ix, roles) ==
    [accounts |-> [r \in {roles[i] : i \in 1..Len(roles)} |->
                     AccountAt(ix, CHOOSE i \in 1..Len(roles) : roles[i] = r)],
     data |-> ix.data]

parseRegisterNameInstruction(ix) ==
    Parsed(ix, <<"payer", "owner", "config", "nameRecord", "payerTokenAccount",
                 "treasuryTokenAccount", "stakingVault", "burnVault", "referralTokenAccount",
                 "paymentMint", "tokenProgram", "systemProgram">>)

parseRegisterWithSolansInstruction(ix) ==
    Parsed(ix, <<"payer", "owner", "config", "nameRecord", "payerSolansAccount",
                 "solansMint", "tokenProgram", "systemProgram">>)

parseRenewNameInstruction(ix) ==
    Parsed(ix, <<"payer", "config", "nameRecord", "payerTokenAccount", "treasuryTokenAccount",
                 "stakingVault", "burnVault", "referralTokenAccount", "paymentMint",
                 "tokenProgram">>)

parseRenewWithSolansInstruction(ix) ==
    Parsed(ix, <<"payer", "config", "nameRecord", "payerSolansAccount", "solansMint",
                 "tokenProgram">>)

parseWrapSubdomainInstruction(ix) ==
    Parsed(ix, <<"owner", "subdomainOwner", "parentName", "nameRecord", "systemProgram">>)

parseTransferNameInstruction(ix) == Parsed(ix, <<"owner", "nameRecord">>)

parseBurnNameInstruction(ix) == Parsed(ix, <<"owner", "nameRecord">>)

parseListNameInstruction(ix) == Parsed(ix, <<"owner", "nameRecord", "listing", "systemProgram">>)

parseCancelListingInstruction(ix) ==
    Parsed(ix, <<"canceller", "seller", "nameRecord", "listing">>)

parseBuyNameInstruction(ix) ==
    Parsed(ix, <<"buyer", "seller", "solTreasury", "config", "nameRecord", "listing",
                 "systemProgram">>)
=============================================================================
