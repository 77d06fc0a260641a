------------------------------- MODULE Market -------------------------------
(***************************************************************************)
(* The marketplace on top of the registry: fixed-price listings and        *)
(* escrowed offers in SOL, English auctions in $SOLANS.  Listings and      *)
(* auctions are non-custodial: the seller stays the owner and the `listed` *)
(* flag of the NameRecord freezes the name.  The Listing, Offer and        *)
(* Auction accounts are separate from the record and keep their own life.  *)
(*                                                                         *)
(* Account rent is not modelled: it is paid and returned with the account. *)
(***************************************************************************)
EXTENDS Names

CONSTANTS Prices,        \* arguments of list_name, update_listing, buy_name
          OfferAmounts,  \* arguments of make_offer
          Reserves, Increments,  \* arguments of start_auction
          Bids,          \* arguments of bid
          Durations,     \* arguments duration_seconds
          SolPurse,      \* SOL each wallet starts with
          Extension      \* AUCTION_EXTENSION_SECONDS

ASSUME MarketAssumption ==
    /\ Prices \subseteq Nat /\ OfferAmounts \subseteq Nat /\ Reserves \subseteq Nat
    /\ Increments \subseteq Nat /\ Bids \subseteq Nat /\ Durations \subseteq Nat
    /\ SolPurse \in Nat /\ Extension \in Nat

VARIABLES listing,   \* the Listing account of each name, or Nil
          offer,     \* offer[n][w]: the Offer account of buyer w on name n, or Nil
          escrow,    \* escrow[n][w]: the lamports held by that Offer account
          auction,   \* the Auction account of each name, or Nil
          bidVault,  \* $SOLANS in the auction's token account
          sol        \* SOL of each wallet

marketVars == <<listing, offer, escrow, auction, bidVault, sol>>
vars == <<namesVars, marketVars>>

Listing == [seller: Wallets, price: Nat, expires_at: Nat]
Offer == [amount: Nat, expires_at: Nat]
Auction == [seller: Wallets, highest_bidder: Wallets \cup {Nil}, highest_bid: Nat,
            reserve_price: Nat, min_increment: Nat, end_time: Nat]

ASSUME SaleAssumption == Nil \notin Listing \cup Offer \cup Auction

MarketTypeOK ==
    /\ NamesTypeOK
    /\ listing \in [Names -> Listing \cup {Nil}]
    /\ offer \in [Names -> [Wallets -> Offer \cup {Nil}]]
    /\ escrow \in [Names -> [Wallets -> Nat]]
    /\ auction \in [Names -> Auction \cup {Nil}]
    /\ bidVault \in [Names -> Nat]
    /\ sol \in [Wallets -> Nat]

MarketInit ==
    /\ NamesInit
    /\ listing = [n \in Names |-> Nil]
    /\ offer = [n \in Names |-> [w \in Wallets |-> Nil]]
    /\ escrow = [n \in Names |-> [w \in Wallets |-> 0]]
    /\ auction = [n \in Names |-> Nil]
    /\ bidVault = [n \in Names |-> 0]
    /\ sol = [w \in Wallets |-> SolPurse]

Fee(amount) == MarketFee(config.params, amount)
Listed(r) == [r EXCEPT !.listed = TRUE]
\* Mutant: the freeze outlives the sale.
Unlisted_not(r) == r
Unlisted(r) == [r EXCEPT !.listed = FALSE]

-----------------------------------------------------------------------------
(* Fixed-price listings. *)

ListName(w, n, price, duration) ==
    /\ OwnerGate(w, n) /\ ~rec[n].transfer_locked
    /\ listing[n] = Nil
    /\ duration > 0
    /\ listing' = [listing EXCEPT ![n] =
                     [seller |-> w, price |-> price, expires_at |-> now + duration]]
    /\ Put(n, Listed(rec[n]))
    /\ OnlyRecord
    /\ UNCHANGED <<offer, escrow, auction, bidVault, sol>>

UpdateListing(w, n, price, duration) ==
    /\ listing[n] # Nil /\ listing[n].seller = w
    /\ duration > 0
    /\ listing' = [listing EXCEPT ![n] =
                     [seller |-> w, price |-> price, expires_at |-> now + duration]]
    /\ UNCHANGED <<namesVars, offer, escrow, auction, bidVault, sol>>

CancelListing(w, n) ==
    /\ listing[n] # Nil /\ Exists(n)
    /\ w = listing[n].seller \/ now > listing[n].expires_at
    /\ Put(n, Unlisted(rec[n]))
    /\ listing' = [listing EXCEPT ![n] = Nil]
    /\ OnlyRecord
    /\ UNCHANGED <<offer, escrow, auction, bidVault, sol>>

\* Mutant: the price is whatever the listing says by now.
BuyName_any_price(buyer, n, expected_price) ==
    /\ listing[n] # Nil /\ Exists(n)
    /\ rec[n].listed
    /\ rec[n].owner = listing[n].seller
    /\ buyer # listing[n].seller
    /\ now <= listing[n].expires_at
    /\ listing[n].price <= sol[buyer]
    /\ sol' = [[[sol EXCEPT ![buyer] = @ - listing[n].price]
                       EXCEPT ![listing[n].seller] = @ + (listing[n].price - Fee(listing[n].price))]
                       EXCEPT ![config.params.sol_treasury] = @ + Fee(listing[n].price)]
    /\ Put(n, Unlisted(Handover(rec[n], buyer)))
    /\ listing' = [listing EXCEPT ![n] = Nil]
    /\ OnlyRecord
    /\ UNCHANGED <<offer, escrow, auction, bidVault>>

BuyName(buyer, n, expected_price) ==
    /\ listing[n] # Nil /\ Exists(n)
    /\ rec[n].listed
    /\ rec[n].owner = listing[n].seller
    /\ buyer # listing[n].seller
    /\ now <= listing[n].expires_at
    /\ expected_price = listing[n].price
    /\ expected_price <= sol[buyer]
    /\ sol' = [[[sol EXCEPT ![buyer] = @ - expected_price]
                       EXCEPT ![listing[n].seller] = @ + (expected_price - Fee(expected_price))]
                       EXCEPT ![config.params.sol_treasury] = @ + Fee(expected_price)]
    /\ Put(n, Unlisted(Handover(rec[n], buyer)))
    /\ listing' = [listing EXCEPT ![n] = Nil]
    /\ OnlyRecord
    /\ UNCHANGED <<offer, escrow, auction, bidVault>>

-----------------------------------------------------------------------------
(* Offers. *)

\* Mutant: a second offer overwrites the first.
MakeOffer_again(buyer, n, amount, duration) ==
    /\ Exists(n)
    /\ duration > 0
    /\ amount <= sol[buyer]
    /\ offer' = [offer EXCEPT ![n][buyer] = [amount |-> amount, expires_at |-> now + duration]]
    /\ escrow' = [escrow EXCEPT ![n][buyer] = @ + amount]
    /\ sol' = [sol EXCEPT ![buyer] = @ - amount]
    /\ UNCHANGED <<namesVars, listing, auction, bidVault>>

MakeOffer(buyer, n, amount, duration) ==
    /\ Exists(n) /\ offer[n][buyer] = Nil
    /\ duration > 0
    /\ amount <= sol[buyer]
    /\ offer' = [offer EXCEPT ![n][buyer] = [amount |-> amount, expires_at |-> now + duration]]
    /\ escrow' = [escrow EXCEPT ![n][buyer] = @ + amount]
    /\ sol' = [sol EXCEPT ![buyer] = @ - amount]
    /\ UNCHANGED <<namesVars, listing, auction, bidVault>>

\* Mutant: the escrow goes to whoever cancels.
CancelOffer_to_signer(w, n, buyer) ==
    /\ offer[n][buyer] # Nil
    /\ \/ w = buyer
       \/ Exists(n) /\ rec[n].owner = w
       \/ now > offer[n][buyer].expires_at
    /\ offer' = [offer EXCEPT ![n][buyer] = Nil]
    /\ escrow' = [escrow EXCEPT ![n][buyer] = 0]
    /\ sol' = [sol EXCEPT ![w] = @ + escrow[n][buyer]]
    /\ UNCHANGED <<namesVars, listing, auction, bidVault>>

\* By the bidder, by the owner of the (existing) name, or by anyone once it
\* has expired.  Closing the account sends all its lamports to the bidder.
CancelOffer(w, n, buyer) ==
    /\ offer[n][buyer] # Nil
    /\ \/ w = buyer
       \/ Exists(n) /\ rec[n].owner = w
       \/ now > offer[n][buyer].expires_at
    /\ offer' = [offer EXCEPT ![n][buyer] = Nil]
    /\ escrow' = [escrow EXCEPT ![n][buyer] = 0]
    /\ sol' = [sol EXCEPT ![buyer] = @ + escrow[n][buyer]]
    /\ UNCHANGED <<namesVars, listing, auction, bidVault>>

AcceptOffer(w, n, buyer) ==
    /\ OwnerGate(w, n)
    /\ offer[n][buyer] # Nil
    /\ now <= offer[n][buyer].expires_at
    /\ buyer # w
    /\ LET amount == offer[n][buyer].amount IN
         /\ amount <= escrow[n][buyer]
         /\ sol' = [[[sol EXCEPT ![w] = @ + (amount - Fee(amount))]
                            EXCEPT ![config.params.sol_treasury] = @ + Fee(amount)]
                            EXCEPT ![buyer] = @ + (escrow[n][buyer] - amount)]
    /\ offer' = [offer EXCEPT ![n][buyer] = Nil]
    /\ escrow' = [escrow EXCEPT ![n][buyer] = 0]
    /\ Put(n, Handover(rec[n], buyer))
    /\ OnlyRecord
    /\ UNCHANGED <<listing, auction, bidVault>>

-----------------------------------------------------------------------------
(* Auctions. *)

StartAuction(w, n, reserve, increment, duration) ==
    /\ OwnerGate(w, n) /\ ~rec[n].transfer_locked
    /\ rec[n].parent = Nil
    /\ solans_enabled(config)
    /\ auction[n] = Nil
    /\ duration > 0
    /\ auction' = [auction EXCEPT ![n] =
                     [seller |-> w, highest_bidder |-> Nil, highest_bid |-> 0,
                      reserve_price |-> reserve, min_increment |-> increment,
                      end_time |-> now + duration]]
    /\ Put(n, Listed(rec[n]))
    /\ OnlyRecord
    /\ UNCHANGED <<listing, offer, escrow, bidVault, sol>>

MinRequired(a) ==
    IF a.highest_bidder # Nil THEN a.highest_bid + a.min_increment ELSE a.reserve_price

\* Mutant: the displaced bidder is not refunded.
Refunded_not(a) == solans

\* The $SOLANS balances after the standing bid has been sent back.
Refunded(a) ==
    IF a.highest_bidder = Nil THEN solans
    ELSE [solans EXCEPT ![a.highest_bidder] = @ + a.highest_bid]

\* Mutant: the amount of the new bid is not recorded.
Outbid_old_amount(a, bidder, amount) ==
    [a EXCEPT !.highest_bidder = bidder, !.end_time = Later(@, now + Extension)]

\* Mutant: a bid in the last moments leaves the end as it is.
Outbid_no_extension(a, bidder, amount) ==
    [a EXCEPT !.highest_bidder = bidder, !.highest_bid = amount]

\* The new standing bid, with the anti-snipe extension.
Outbid(a, bidder, amount) ==
    [a EXCEPT !.highest_bidder = bidder, !.highest_bid = amount,
              !.end_time = Later(@, now + Extension)]

Bid(bidder, n, amount) ==
    /\ auction[n] # Nil
    /\ now < auction[n].end_time
    /\ bidder # auction[n].seller
    /\ amount > 0 /\ amount >= MinRequired(auction[n])
    /\ auction[n].highest_bidder # Nil => auction[n].highest_bid <= bidVault[n]
    /\ amount <= Refunded(auction[n])[bidder]
    /\ solans' = [Refunded(auction[n]) EXCEPT ![bidder] = @ - amount]
    /\ bidVault' = [bidVault EXCEPT ![n] =
                      @ - (IF auction[n].highest_bidder = Nil THEN 0
                           ELSE auction[n].highest_bid) + amount]
    /\ auction' = [auction EXCEPT ![n] = Outbid(auction[n], bidder, amount)]
    /\ UNCHANGED <<registryVars, config, usdc, vault, listing, offer, escrow, sol>>

\* Both ways to end an auction close its token account, which must be empty
\* by then, and need the name's record.
CancelAuction(w, n) ==
    /\ auction[n] # Nil /\ Exists(n)
    /\ auction[n].seller = w
    /\ auction[n].highest_bidder = Nil
    /\ bidVault[n] = 0
    /\ Put(n, Unlisted(rec[n]))
    /\ auction' = [auction EXCEPT ![n] = Nil]
    /\ OnlyRecord
    /\ UNCHANGED <<listing, offer, escrow, bidVault, sol>>

\* Mutant: the winner pays, and the record stays with its owner.
SettleWithWinner_keeps_owner(n) ==
    LET a == auction[n] IN
    /\ a.highest_bidder # Nil
    /\ bidVault[n] = a.highest_bid
    /\ solans' = [solans EXCEPT ![a.seller] = @ + (a.highest_bid - Fee(a.highest_bid))]
    /\ bidVault' = [bidVault EXCEPT ![n] = 0]
    /\ Put(n, Unlisted(rec[n]))

SettleWithWinner(n) ==
    LET a == auction[n] IN
    /\ a.highest_bidder # Nil
    /\ bidVault[n] = a.highest_bid
    /\ solans' = [solans EXCEPT ![a.seller] = @ + (a.highest_bid - Fee(a.highest_bid))]
    /\ bidVault' = [bidVault EXCEPT ![n] = 0]
    /\ Put(n, Unlisted(Handover(rec[n], a.highest_bidder)))

SettleWithoutBid(n) ==
    /\ auction[n].highest_bidder = Nil
    /\ bidVault[n] = 0
    /\ Put(n, Unlisted(rec[n]))
    /\ UNCHANGED <<solans, bidVault>>

SettleAuction(n) ==
    /\ auction[n] # Nil /\ Exists(n)
    /\ now >= auction[n].end_time
    /\ SettleWithWinner(n) \/ SettleWithoutBid(n)
    /\ auction' = [auction EXCEPT ![n] = Nil]
    /\ UNCHANGED <<now, reverse, holder, allowance, config, usdc, vault>>
    /\ UNCHANGED <<listing, offer, escrow, sol>>

-----------------------------------------------------------------------------

Trading ==
    \E w \in Wallets, n \in Names :
        \/ \E p \in Prices, d \in Durations : ListName(w, n, p, d) \/ UpdateListing(w, n, p, d)
        \/ CancelListing(w, n)
        \/ \E p \in Prices : BuyName(w, n, p)
        \/ \E x \in OfferAmounts, d \in Durations : MakeOffer(w, n, x, d)
        \/ \E v \in Wallets : CancelOffer(w, n, v) \/ AcceptOffer(w, n, v)

Auctions ==
    \E n \in Names :
        \/ \E w \in Wallets, r \in Reserves, i \in Increments, d \in Durations :
              StartAuction(w, n, r, i, d)
        \/ \E w \in Wallets, x \in Bids : Bid(w, n, x)
        \/ \E w \in Wallets : CancelAuction(w, n)
        \/ SettleAuction(n)

Next == (NamesNext /\ UNCHANGED marketVars) \/ Trading \/ Auctions

Spec == MarketInit /\ [][Next]_vars

-----------------------------------------------------------------------------
(* What the marketplace promises. *)

\* Who may put an end to the freeze: the owner is the seller of record.
OwnersListing(n) == listing[n] # Nil /\ listing[n].seller = rec[n].owner
OwnersAuction(n) == auction[n] # Nil /\ auction[n].seller = rec[n].owner

\* A name is never stuck frozen: while `listed` is set there is a Listing or
\* an Auction account of the current owner through which it can be sold or
\* released, and the name is not tokenized (list_name, start_auction and every
\* instruction that closes a sale or changes the owner).
FrozenHasSale ==
    \A n \in Names : Exists(n) /\ rec[n].listed =>
        /\ rec[n].nft_mint = Nil
        /\ OwnersListing(n) \/ OwnersAuction(n)

\* The escrows hold exactly what is owed: the auction's token account the
\* standing bid, each Offer account its amount, and nothing is left behind in
\* a closed one (bid, settle_auction, cancel_auction, accept_offer,
\* cancel_offer).
EscrowsFunded ==
    \A n \in Names :
        /\ bidVault[n] = (IF auction[n] = Nil THEN 0 ELSE auction[n].highest_bid)
        /\ auction[n] # Nil /\ auction[n].highest_bidder = Nil => auction[n].highest_bid = 0
        /\ \A w \in Wallets :
              escrow[n][w] = (IF offer[n][w] = Nil THEN 0 ELSE offer[n][w].amount)

\* What a buyer looked at cannot change under a sale: while a name stays
\* listed, its owner, delegate, records, resolver, hosting reference, lock and
\* mint stay as they are (the `listed` checks of the managing instructions).
Frozen(r) ==
    <<r.owner, r.controller, r.records, r.resolver, r.hosting_ref,
      r.transfer_locked, r.reverse_set, r.nft_mint, r.registered_at>>

FreezesSale ==
    \A n \in Names :
        Exists(n) /\ Exists(n)' /\ rec[n].listed /\ rec'[n].listed =>
            Frozen(rec'[n]) = Frozen(rec[n])

SaleFreezes == [][FreezesSale]_vars

\* An auction only moves forward: a new standing bid is positive even when the
\* reserve is zero, clears the increment, sends the displaced bidder all of its
\* money back, and leaves everyone at least the extension to answer it.
AnswersBid(a, b) ==
    /\ b.highest_bid > 0 /\ b.highest_bid >= MinRequired(a)
    /\ b.end_time >= now + Extension
    /\ a.highest_bidder \notin {Nil, b.highest_bidder} =>
         solans'[a.highest_bidder] = solans[a.highest_bidder] + a.highest_bid

MovesForward ==
    \A n \in Names :
        auction[n] # Nil /\ auction'[n] # Nil =>
            /\ auction'[n].seller = auction[n].seller
            /\ auction'[n].end_time >= auction[n].end_time
            /\ auction'[n] # auction[n] => AnswersBid(auction[n], auction'[n])

BidsMoveForward == [][MovesForward]_vars

\* An offer ends in one of two ways, and never in between: the bidder gets
\* the whole escrow back, or the bidder gets the name and the owner at that
\* moment gets the amount less at most the capped fee.
AtLeastNet(amount) == amount - Share(amount, MAX_FEE_BPS)

EndsOffer ==
    \A n \in Names, w \in Wallets :
        offer[n][w] # Nil /\ offer'[n][w] = Nil =>
            \/ sol'[w] = sol[w] + offer[n][w].amount
            \/ /\ Exists(n) /\ rec'[n].owner = w
               /\ sol'[rec[n].owner] >= sol[rec[n].owner] + AtLeastNet(offer[n][w].amount)

OfferAllOrNothing == [][EndsOffer]_vars

\* The old owner of n is paid in this step, through its own listing or auction.
OwnerPaid(n) ==
    LET o == rec[n].owner IN
    \/ OwnersListing(n) /\ sol'[o] >= sol[o] + AtLeastNet(listing[n].price)
    \/ /\ OwnersAuction(n) /\ auction[n].highest_bidder # Nil
       /\ solans'[o] >= solans[o] + AtLeastNet(auction[n].highest_bid)

InTerm(n) == now <= rec[n].expires_at + config.params.grace_period

\* A listed name changes hands before it lapses only against payment of its
\* owner, as long as no auction of an earlier owner is left on it
\* (buy_name, settle_auction).
PaysSeller ==
    \A n \in Names :
        /\ Exists(n) /\ rec[n].listed /\ InTerm(n)
        /\ auction[n] # Nil => OwnersAuction(n)
        /\ Exists(n)' /\ rec'[n].owner # rec[n].owner
        => OwnerPaid(n)

ListedSoldForPay == [][PaysSeller]_vars

-----------------------------------------------------------------------------
(* What comments in the source say of sales and the code does not keep.      *)

\* settle_auction.rs: settlement is "permissionless once past `end_time`": a
\* standing bid always has the record that settling it needs.
BidCanSettle ==
    \A n \in Names : auction[n] # Nil /\ auction[n].highest_bidder # Nil => Exists(n)
=============================================================================
