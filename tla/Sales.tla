------------------------------- MODULE Sales --------------------------------
(***************************************************************************)
(* The registry with its marketplace seen as an implementation of module   *)
(* AtomicSale: what each wallet holds, wherever the program keeps it.      *)
(***************************************************************************)
EXTENDS Market, Functions

\* Names have a bounded length.
ASSUME SalesAssumption == IsFiniteSet(Names)

Title == [n \in Names |-> IF Exists(n) THEN rec[n].owner ELSE Nil]
Term == [n \in Names |-> IF Exists(n) THEN rec[n].expires_at ELSE 0]
Consignor == [n \in Names |-> IF auction[n] = Nil THEN Nil ELSE auction[n].seller]

\* The purse of each wallet with what is held for it on the names.
Holdings(purse, held) ==
    [w \in Wallets |-> purse[w] + SumFunction([n \in Names |-> held[n][w]])]

\* The standing bids on the names, per wallet.
BidsHeld(a) ==
    [n \in Names |-> [w \in Wallets |->
        IF a[n] # Nil /\ a[n].highest_bidder = w THEN a[n].highest_bid ELSE 0]]

Wealth == Holdings(sol, escrow)
Tokens == Holdings(solans, BidsHeld(auction))

MostFee(price) == Share(price, MAX_FEE_BPS)

DeliveryVersusPayment ==
    INSTANCE AtomicSale
      WITH title <- Title, term <- Term, consignor <- Consignor,
           wealth <- Wealth, tokens <- Tokens, cash <- usdc,
           MaxFee <- MostFee

\* The marketplace implements delivery versus payment: whichever of buy_name,
\* accept_offer and settle_auction sells a name, in one step the buyer has paid
\* out of its own purse, escrow or bid, the seller is paid, and the name is the
\* buyer's; and nothing else, no cancelled or displaced offer or bid, makes
\* anyone richer or poorer.
AtomicSales == DeliveryVersusPayment!SaleSpec
=============================================================================
