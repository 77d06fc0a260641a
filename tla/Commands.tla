------------------------------ MODULE Commands ------------------------------
(***************************************************************************)
(* The CLI's transactions against the registry and the marketplace.  A     *)
(* command reads what it needs (Config, a listing, an auction, whether a   *)
(* name is tokenized), builds the instructions with the signer as fee      *)
(* payer, simulates and sends them.  Until the transaction lands or fails  *)
(* everyone else goes on, so the accounts it names may be stale.           *)
(*                                                                         *)
(* `tx` is the one transaction in flight; all other signers are Market's   *)
(* Next.  A landing transaction is decoded account by account, with the    *)
(* account constraints of the program.  The simulation only ever gives up, *)
(* and it may see the very state the transaction lands in, so it is part   *)
(* of Abort.  Each value a command reads is checked on its own when the    *)
(* transaction lands, so one step stands for all reads of a command.       *)
(***************************************************************************)
EXTENDS Market, Sdk

CONSTANT Users   \* the wallets whose commands are followed step by step

ASSUME UserAssumption == Users \subseteq Wallets

VARIABLE tx   \* [payer, ixs], or Nil when no transaction is in flight

cmdVars == <<vars, tx>>

Opt(x) == IF x = Nil THEN Absent ELSE x

\* getConfig, as far as the fee accounts go.
FeeAccounts == FeeAccountsOf(config)

\* nftTokenAccountIfTokenized: the mint of a name that resolves.  Subdomains
\* are never tokenized, so their parent chain does not matter here.
TokenizedAs(n) == IF Exists(n) THEN Opt(rec[n].nft_mint) ELSE Absent

ReferralAccount(referrer) == IF referrer = Nil THEN Absent ELSE ataFor(referrer, PAYMENT_MINT)

sendInstructions(w, ixs) ==
    tx' = [payer |-> w, ixs |-> ixs] /\ UNCHANGED vars

-----------------------------------------------------------------------------
(* Commands on names.  nameParts rejects a subdomain path. *)

\* By default the NFT is minted in the same transaction, if the signer is the
\* owner; mint = Absent stands for --no-nft.
cli_register(w, n, owner, years, referrer, mint) ==
    /\ TopLevel(n)
    /\ sendInstructions(w, buildRegisterInstructions(w, FeeAccounts, n, owner, years,
                                                     ReferralAccount(referrer), mint))

cli_register_pay_solans(w, n, owner, years, mint) ==
    LET register == getRegisterWithSolansInstruction(w, owner, n, years)
    IN  /\ TopLevel(n)
        /\ sendInstructions(w,
               IF mint # Absent /\ owner = w
               THEN <<register, getTokenizeNameInstruction(w, findNameRecordPda(n), mint, n)>>
               ELSE <<register>>)

cli_renew(w, n, years, referrer) ==
    /\ TopLevel(n)
    /\ sendInstructions(w, buildRenewInstructions(w, FeeAccounts, n, years,
                                                  ReferralAccount(referrer)))

cli_renew_pay_solans(w, n, years) ==
    /\ TopLevel(n)
    /\ sendInstructions(w, <<getRenewWithSolansInstruction(w, findNameRecordPda(n), n, years)>>)

\* The owner read here is the one whose account is to be charged.
cli_auto_renew(w, n) ==
    /\ TopLevel(n) /\ Exists(n)
    /\ sendInstructions(w, <<getAutoRenewInstruction(w, findNameRecordPda(n),
                                 ataFor(rec[n].owner, PAYMENT_MINT), FeeAccounts, n, 1)>>)

cli_claim(w, n, years, referrer) ==
    /\ TopLevel(n)
    /\ sendInstructions(w, <<getClaimExpiredInstruction(w, findNameRecordPda(n), FeeAccounts,
                                                        ReferralAccount(referrer), n, years)>>)

\* record set, and record delete with the value Nil.
cli_record(w, n, key, value) ==
    sendInstructions(w, buildUpdateRecordInstructions(w, n, TokenizedAs(n), key, value))

cli_set_controller(w, n, c) == sendInstructions(w, buildSetControllerInstructions(w, n, c))

cli_set_resolver(w, n, r) ==
    sendInstructions(w, buildSetResolverInstructions(w, n, TokenizedAs(n), r))

\* set-hosting, and host-upload after the file is pinned.
cli_set_hosting(w, n, h) ==
    sendInstructions(w, buildSetHostingInstructions(w, n, TokenizedAs(n), h))

cli_transfer(w, n, new_owner) == sendInstructions(w, buildTransferInstructions(w, n, new_owner))
cli_lock(w, n, lock) == sendInstructions(w, buildLockTransferInstructions(w, n, lock))
cli_set_reverse(w, n) == sendInstructions(w, buildSetReverseInstructions(w, n))
cli_burn(w, n) == sendInstructions(w, buildBurnNameInstructions(w, n))

cli_tokenize(w, n, mint) ==
    TopLevel(n) /\ sendInstructions(w, buildTokenizeInstructions(w, n, mint))

cli_redeem(w, n) ==
    /\ TokenizedAs(n) # Absent
    /\ sendInstructions(w, buildRedeemInstructions(w, n, rec[n].nft_mint))

cli_subdomain_create(w, n, child, owner) ==
    /\ ParentOf[child] = n
    /\ sendInstructions(w, buildWrapSubdomainInstructions(w, n, child, owner))

cli_subdomain_revoke(w, n, child) ==
    /\ ParentOf[child] = n
    /\ sendInstructions(w, buildRevokeSubdomainInstructions(w, n, child))

-----------------------------------------------------------------------------
(* Commands on sales. *)

cli_list(w, n, price, days) == sendInstructions(w, buildListInstructions(w, n, price, days))

cli_unlist(w, n) ==
    /\ listing[n] # Nil
    /\ sendInstructions(w, buildCancelListingInstructions(w, n, listing[n].seller))

cli_update_listing(w, n, price, days) ==
    sendInstructions(w, <<getUpdateListingInstruction(w, findListing(n), price, days)>>)

cli_buy(w, n) ==
    /\ listing[n] # Nil
    /\ sendInstructions(w, buildBuyInstructions(w, n, listing[n].seller, listing[n].price,
                                                config.params.sol_treasury))

cli_offer(w, n, amount, days) == sendInstructions(w, buildMakeOfferInstructions(w, n, amount, days))

cli_accept_offer(w, n, buyer) ==
    sendInstructions(w, buildAcceptOfferInstructions(w, n, buyer, config.params.sol_treasury))

cli_cancel_offer(w, n, buyer) == sendInstructions(w, buildCancelOfferInstructions(w, n, buyer))

cli_auction_start(w, n, reserve, increment, days) ==
    sendInstructions(w, buildStartAuctionInstructions(w, n, reserve, increment, days))

cli_bid(w, n, amount) ==
    /\ auction[n] # Nil
    /\ sendInstructions(w, buildBidInstructions(w, n, amount, Opt(auction[n].highest_bidder)))

cli_auction_settle(w, n) ==
    /\ auction[n] # Nil
    /\ sendInstructions(w, buildSettleAuctionInstructions(w, n, auction[n].seller,
                                                          Opt(auction[n].highest_bidder)))

cli_auction_cancel(w, n) == sendInstructions(w, buildCancelAuctionInstructions(w, n))

\* auto-renew-enable and auto-renew-disable: spl-token approve and revoke.
getApproveInstruction(owner, amount) ==
    Instruction("approve", <<W(ataFor(owner, PAYMENT_MINT)), R(findConfigPda), S(owner)>>,
                [amount |-> amount])

cli_auto_renew_enable(w, amount) == sendInstructions(w, <<getApproveInstruction(w, amount)>>)

-----------------------------------------------------------------------------
(* The program, as seen through the accounts of an instruction. *)

NameAt(ix, i) == AccountAt(ix, i)[2]
OwnerAt(ix, i) == AccountAt(ix, i)[2]   \* of an associated token account

\* address = config.treasury_token_account, .staking_vault and .burn_vault.
FeeAccountsMatch(ix, i) ==
    /\ AccountAt(ix, i) = FeeAccounts.treasury
    /\ AccountAt(ix, i + 1) = FeeAccounts.staking
    /\ AccountAt(ix, i + 2) = FeeAccounts.burn

ReferrerAt(ix, i) == IF Given(ix, i) THEN OwnerAt(ix, i) ELSE Nil

RunLifecycle(ix) ==
    LET w == AccountAt(ix, 1) d == ix.data IN
    \/ /\ ix.name = "register_name" /\ FeeAccountsMatch(ix, 6)
       /\ RegisterName(w, AccountAt(ix, 2), d.name, d.years, ReferrerAt(ix, 9))
    \/ /\ ix.name = "register_with_solans"
       /\ RegisterWithSolans(w, AccountAt(ix, 2), d.name, d.years)
    \/ /\ ix.name = "renew_name" /\ FeeAccountsMatch(ix, 5)
       /\ RenewName(w, d.name, d.years, ReferrerAt(ix, 8))
    \/ /\ ix.name = "renew_with_solans"
       /\ RenewWithSolans(w, d.name, d.years)
    \/ /\ ix.name = "auto_renew" /\ FeeAccountsMatch(ix, 5)
       /\ Exists(d.name) /\ OwnerAt(ix, 4) = rec[d.name].owner
       /\ AutoRenew(d.name)
    \/ /\ ix.name = "claim_expired" /\ FeeAccountsMatch(ix, 5)
       /\ ClaimExpired(w, d.name, d.years, ReferrerAt(ix, 8))
    \/ ix.name = "burn_name" /\ BurnName(w, NameAt(ix, 2))

\* The optional proof of holding the NFT: an account that is given must exist,
\* and it must be of the record's mint, unless the delegate signs.
NftProof(ix) ==
    LET w == AccountAt(ix, 1) n == NameAt(ix, 2) IN
    /\ Given(ix, 3) => holder[AccountAt(ix, 3)[3][2]] # Nil
    /\ Exists(n) /\ rec[n].nft_mint # Nil =>
          \/ AccountAt(ix, 3) = ataFor(w, Mint(rec[n].nft_mint))
          \/ rec[n].controller = w

RunManagement(ix) ==
    LET w == AccountAt(ix, 1) n == NameAt(ix, 2) d == ix.data IN
    \/ ix.name = "transfer_name" /\ TransferName(w, n, d.newOwner)
    \/ ix.name = "lock_transfer" /\ LockTransfer(w, n, d.lock)
    \/ ix.name = "set_controller" /\ SetController(w, n, d.controller)
    \/ ix.name = "set_resolver" /\ NftProof(ix) /\ SetResolver(w, n, d.resolver)
    \/ ix.name = "set_hosting" /\ NftProof(ix) /\ SetHosting(w, n, d.hostingRef)
    \/ ix.name = "update_record" /\ NftProof(ix) /\ UpdateRecord(w, n, d.key, d.value)
    \/ ix.name = "set_reverse" /\ SetReverse(w, n)
    \/ ix.name = "tokenize_name" /\ TokenizeName(w, n, d.mint)
    \/ /\ ix.name = "redeem_name"
       /\ Exists(n) /\ rec[n].nft_mint = d.mint
       /\ RedeemName(w, n)

RunSubdomain(ix) ==
    LET w == AccountAt(ix, 1) IN
    \/ /\ ix.name = "wrap_subdomain"
       /\ WrapSubdomain(w, NameAt(ix, 3), NameAt(ix, 4), AccountAt(ix, 2))
    \/ /\ ix.name = "revoke_subdomain"
       /\ ParentOf[NameAt(ix, 3)] = NameAt(ix, 2)
       /\ RevokeSubdomain(w, NameAt(ix, 3))

\* seller = listing.seller.
SellerAccountOk(n, account) == listing[n] # Nil /\ listing[n].seller = account

\* The seller's account, and sol_treasury = config.sol_treasury; an account
\* given for the optional record must hold one.
RunSale(ix) ==
    LET w == AccountAt(ix, 1) d == ix.data IN
    \/ ix.name = "list_name" /\ ListName(w, NameAt(ix, 2), d.price, d.duration)
    \/ ix.name = "update_listing" /\ UpdateListing(w, NameAt(ix, 2), d.price, d.duration)
    \/ /\ ix.name = "cancel_listing"
       /\ SellerAccountOk(NameAt(ix, 4), AccountAt(ix, 2))
       /\ CancelListing(w, NameAt(ix, 4))
    \/ /\ ix.name = "buy_name"
       /\ SellerAccountOk(NameAt(ix, 6), AccountAt(ix, 2))
       /\ config.params.sol_treasury = AccountAt(ix, 3)
       /\ BuyName(w, NameAt(ix, 6), d.expectedPrice)
    \/ ix.name = "make_offer" /\ MakeOffer(w, NameAt(ix, 2), d.amount, d.duration)
    \/ /\ ix.name = "cancel_offer"
       /\ Given(ix, 3) => Exists(NameAt(ix, 3))
       /\ CancelOffer(w, NameAt(ix, 4), AccountAt(ix, 2))
    \/ /\ ix.name = "accept_offer"
       /\ config.params.sol_treasury = AccountAt(ix, 3)
       /\ AcceptOffer(w, NameAt(ix, 5), AccountAt(ix, 2))

\* Mutant: any account may be named for the refund.
RefundAccountOk_any(ix, a) == Given(ix, 4) <=> a.highest_bidder # Nil

\* The refund account must belong to the highest bidder, and be there when
\* there is one.
RefundAccountOk(ix, a) ==
    IF Given(ix, 4) THEN a.highest_bidder = OwnerAt(ix, 4) ELSE a.highest_bidder = Nil

\* The payout account is the seller's, and needed when there is a winner.
PayoutAccountOk(ix, a) ==
    /\ a.seller = AccountAt(ix, 3)
    /\ Given(ix, 4) => OwnerAt(ix, 4) = a.seller
    /\ a.highest_bidder # Nil => Given(ix, 4)

RunAuction(ix) ==
    LET w == AccountAt(ix, 1) d == ix.data IN
    \/ /\ ix.name = "start_auction"
       /\ StartAuction(w, NameAt(ix, 3), d.reserve, d.increment, d.duration)
    \/ /\ ix.name = "bid"
       /\ auction[NameAt(ix, 2)] # Nil /\ RefundAccountOk(ix, auction[NameAt(ix, 2)])
       /\ Bid(w, NameAt(ix, 2), d.amount)
    \/ /\ ix.name = "settle_auction"
       /\ auction[NameAt(ix, 6)] # Nil /\ PayoutAccountOk(ix, auction[NameAt(ix, 6)])
       /\ SettleAuction(NameAt(ix, 6))
    \/ ix.name = "cancel_auction" /\ CancelAuction(w, NameAt(ix, 3))

RunNames(ix) ==
    \/ RunLifecycle(ix) \/ RunManagement(ix) \/ RunSubdomain(ix)
    \/ ix.name = "approve" /\ Approve(AccountAt(ix, 3), ix.data.amount)

Run(ix) == (RunNames(ix) /\ UNCHANGED marketVars) \/ RunSale(ix) \/ RunAuction(ix)

\* register_name or register_with_solans followed by tokenize_name in one
\* transaction: both take effect or neither does.
RunRegisterAndTokenize(ix, mint) ==
    LET w == AccountAt(ix, 1) n == ix.data.name years == ix.data.years IN
    /\ AccountAt(ix, 2) = w
    /\ TopLevel(n) /\ ~Exists(n) /\ ValidYears(years)
    /\ \/ /\ ix.name = "register_name" /\ FeeAccountsMatch(ix, 6)
          /\ DistributeFee(w, ReferrerAt(ix, 9), YearlyPrice(n) * years)
       \/ /\ ix.name = "register_with_solans" /\ solans_enabled(config)
          /\ BurnSolans(w, solans_fee(config.solans, YearlyPrice(n) * years))
    /\ holder[mint] = Nil
    /\ holder' = [holder EXCEPT ![mint] = w]
    /\ Put(n, WithMint(init_top_level_record(w, now + years * Year), mint))
    /\ UNCHANGED <<now, reverse, allowance, marketVars>>

Land ==
    /\ tx # Nil /\ tx' = Nil
    /\ IF Len(tx.ixs) = 1 THEN Run(tx.ixs[1])
       ELSE RunRegisterAndTokenize(tx.ixs[1], tx.ixs[2].data.mint)

\* The simulation fails, the transaction fails, or its blockhash expires.
Abort == tx # Nil /\ tx' = Nil /\ UNCHANGED vars

\* The instructions built from something a command read.  Any other
\* transaction cannot be stale: what happens before it lands might as well
\* happen before it is built.
BuiltFromReads == {"auto_renew", "set_resolver", "set_hosting", "update_record", "redeem_name",
                   "cancel_listing", "buy_name", "accept_offer", "bid", "settle_auction"}

Others ==
    /\ tx # Nil => tx.ixs[1].name \in BuiltFromReads
    /\ Next /\ UNCHANGED tx

-----------------------------------------------------------------------------

NameCommands ==
    /\ tx = Nil
    /\ \E w \in Users, n \in Names :
        \/ \E o \in Wallets, y \in Terms, m \in Mints \cup {Absent} :
             \/ \E f \in Referrers \cup {Nil} : cli_register(w, n, o, y, f, m)
             \/ cli_register_pay_solans(w, n, o, y, m)
        \/ \E y \in Terms :
             \/ \E f \in Referrers \cup {Nil} : cli_renew(w, n, y, f) \/ cli_claim(w, n, y, f)
             \/ cli_renew_pay_solans(w, n, y)
        \/ cli_auto_renew(w, n)
        \/ \E k \in Keys, v \in Values \cup {Nil} : cli_record(w, n, k, v)
        \/ \E c \in Controllers \cup {Nil} : cli_set_controller(w, n, c)
        \/ \E r \in Resolvers \cup {Nil} : cli_set_resolver(w, n, r)
        \/ \E h \in Hosts \cup {Nil} : cli_set_hosting(w, n, h)
        \/ \E v \in Wallets : cli_transfer(w, n, v)
        \/ \E l \in BOOLEAN : cli_lock(w, n, l)
        \/ cli_set_reverse(w, n) \/ cli_burn(w, n) \/ cli_redeem(w, n)
        \/ \E m \in Mints : cli_tokenize(w, n, m)
        \/ \E c \in Names :
             \/ \E o \in Wallets : cli_subdomain_create(w, n, c, o)
             \/ cli_subdomain_revoke(w, n, c)

SaleCommands ==
    /\ tx = Nil
    /\ \E w \in Users, n \in Names :
        \/ \E p \in Prices, d \in Durations : cli_list(w, n, p, d) \/ cli_update_listing(w, n, p, d)
        \/ cli_unlist(w, n) \/ cli_buy(w, n)
        \/ \E x \in OfferAmounts, d \in Durations : cli_offer(w, n, x, d)
        \/ \E v \in Wallets : cli_accept_offer(w, n, v) \/ cli_cancel_offer(w, n, v)
        \/ \E r \in Reserves, i \in Increments, d \in Durations : cli_auction_start(w, n, r, i, d)
        \/ \E x \in Bids : cli_bid(w, n, x)
        \/ cli_auction_settle(w, n) \/ cli_auction_cancel(w, n)

DelegationCommands ==
    /\ tx = Nil
    /\ \E w \in Users, x \in ApproveAmounts \cup {0} : cli_auto_renew_enable(w, x)

\* Two users of the client: one manages names, one trades.  Whatever a command
\* of the other kind does, Others does too.
Outcome == Land \/ Abort \/ Others

\* No reverse record, NFT, delegation, listing, offer or auction yet.
NothingElse ==
    /\ reverse = [w \in Wallets |-> Nil]
    /\ holder = [m \in Mints |-> Nil]
    /\ allowance = [w \in Wallets |-> 0]
    /\ listing = [n \in Names |-> Nil]
    /\ offer = [n \in Names |-> [w \in Wallets |-> Nil]]
    /\ escrow = [n \in Names |-> [w \in Wallets |-> 0]]
    /\ auction = [n \in Names |-> Nil]
    /\ bidVault = [n \in Names |-> 0]
    /\ sol = [w \in Wallets |-> SolPurse]

\* The session starts long after the registry: a top-level name is free, or
\* was registered for a year at the beginning, and may have lapsed.  The user
\* has the money.
SessionInit ==
    /\ Deployed
    /\ usdc = [w \in Wallets |-> IF w \in Users THEN UsdcPurse ELSE 0]
    /\ solans = [w \in Wallets |-> IF w \in Users THEN SolansPurse ELSE 0]
    /\ vault = [v \in Vaults |-> 0]
    /\ now = MaxTime
    /\ \E w \in Wallets, taken \in SUBSET {n \in Names : TopLevel(n)} :
          rec = [n \in Names |->
                   IF n \in taken THEN [init_top_level_record(w, Year) EXCEPT !.registered_at = 0]
                   ELSE Nil]
    /\ NothingElse /\ tx = Nil

\* Others register, claim, transfer, tokenize, trade and redeem the names
\* meanwhile: what a command reads off a record is its owner and its mint.
NameOthers ==
    /\ tx # Nil => tx.ixs[1].name \in BuiltFromReads
    /\ \/ Lifecycle
       \/ \E w \in Wallets, m \in Mints : TradeNft(m, w)
       \/ \E w \in Wallets, n \in Names :
             \/ \E v \in Wallets : TransferName(w, n, v)
             \/ \E m \in Mints : TokenizeName(w, n, m)
             \/ RedeemName(w, n)
    /\ UNCHANGED <<marketVars, tx>>

NameCommandsSpec ==
    /\ SessionInit
    /\ [][NameCommands \/ DelegationCommands \/ Land \/ Abort \/ NameOthers]_cmdVars

\* Trading starts when the top-level names are registered, for a year.
SaleInit ==
    /\ Deployed /\ MoneyInit
    /\ now = 0
    /\ \E w \in Wallets :
          rec = [n \in Names |-> IF TopLevel(n) THEN init_top_level_record(w, Year) ELSE Nil]
    /\ NothingElse /\ tx = Nil

\* The names meanwhile expire, are claimed, burned and sold, but not edited.
TradingOthers ==
    /\ tx # Nil => tx.ixs[1].name \in BuiltFromReads
    /\ ((Lifecycle \/ Environment) /\ UNCHANGED marketVars) \/ Trading
    /\ UNCHANGED tx

TradingSpec ==
    SaleInit /\ [][SaleCommands \/ Land \/ Abort \/ TradingOthers]_cmdVars

SaleCommandsSpec == SaleInit /\ [][SaleCommands \/ Outcome]_cmdVars

-----------------------------------------------------------------------------
(* What the client promises. *)

\* The accounts a step changes.
Changed ==
    UNION {{findNameRecordPda(n) : n \in {m \in Names : rec'[m] # rec[m]}},
           {findListing(n) : n \in {m \in Names : listing'[m] # listing[m]}},
           {findAuction(n) : n \in {m \in Names : auction'[m] # auction[m]}},
           {bidVaultOf(n) : n \in {m \in Names : bidVault'[m] # bidVault[m]}},
           {findOffer(p[1], p[2]) : p \in {q \in Names \X Wallets :
                offer'[q[1]][q[2]] # offer[q[1]][q[2]]
                \/ escrow'[q[1]][q[2]] # escrow[q[1]][q[2]]}},
           {w \in Wallets : sol'[w] # sol[w]},
           {ataFor(w, PAYMENT_MINT) : w \in {v \in Wallets : usdc'[v] # usdc[v]
                                                             \/ allowance'[v] # allowance[v]}},
           {ataFor(w, SOLANS_MINT) : w \in {v \in Wallets : solans'[v] # solans[v]}},
           {VaultAddress(v) : v \in {u \in Vaults : vault'[u] # vault[u]}},
           {findReverseRecordPda(w) : w \in {v \in Wallets : reverse'[v] # reverse[v]}},
           {Mint(m) : m \in {k \in Mints : holder'[k] # holder[k]}},
           IF config' = config THEN {} ELSE {findConfigPda}}

Landing == tx # Nil /\ tx' = Nil

\* A transaction changes only accounts it declares writable, whatever happened
\* between the reads that chose its accounts and its landing; the fee payer is
\* always writable.  The runtime rejects a transaction that breaks this, so a
\* wrong flag in a generated builder, or an account constraint the program
\* forgot, would make the command useless or pay the wrong account.
Declared == {tx.payer} \cup UNION {Writable(tx.ixs[i]) : i \in DOMAIN tx.ixs}

WritesDeclared == Landing => Changed \subseteq Declared

DeclaredWrites == [][WritesDeclared]_cmdVars

\* A purchase costs what the buyer saw: the name it gets was on sale by the
\* seller it read, at the price it read, and the buyer's SOL drops by no more
\* than that, however often the listing was changed or replaced meanwhile
\* (buy_name's expected_price and seller accounts).
PaysPriceRead ==
    Landing /\ tx.ixs[1].name = "buy_name" /\ sol' # sol =>
        LET n == NameAt(tx.ixs[1], 6) IN
        /\ rec'[n].owner = tx.payer /\ ~rec'[n].listed
        /\ sol[tx.payer] - sol'[tx.payer] <= tx.ixs[1].data.expectedPrice
        /\ rec[n].owner = AccountAt(tx.ixs[1], 2)

BuyerPaysPriceRead == [][PaysPriceRead]_cmdVars

-----------------------------------------------------------------------------
(* What a comment in the source says and the clients do not keep.            *)

\* cancel_offer.rs: "`name_record` is optional so a bidder can always reclaim
\* even if the name was burned".  The record that cancel-offer names exists.
OfferReclaimable ==
    \A n \in Names, w \in Wallets :
        offer[n][w] # Nil =>
            LET ix == buildCancelOfferInstructions(w, n, w)[1]
            IN  Given(ix, 3) => Exists(NameAt(ix, 3))
=============================================================================
