----------------------------- MODULE AtomicSale -----------------------------
(***************************************************************************)
(* What the marketplace promises, without listings, escrows and vaults:    *)
(* delivery versus payment.  A wallet's wealth counts what it has set      *)
(* aside for offers and bids.  SOL changes hands only together with a      *)
(* name, which goes to the wallet that pays while its previous owner is    *)
(* paid; $SOLANS changes hands only when a consigned name is sold, and is  *)
(* otherwise only burned: for a longer term of a name, or against cash.    *)
(* Cash, the payment mint, is only paid for a longer term, by one wallet.  *)
(***************************************************************************)
EXTENDS Integers

CONSTANTS Names, Wallets, Nil,
          MaxFee(_)   \* the most the marketplace keeps of a price

VARIABLES title,      \* the owner of each name, or Nil
          term,       \* the time each name is registered until
          consignor,  \* the wallet that put a name up for auction, or Nil
          wealth,     \* the SOL of each wallet
          tokens,     \* the $SOLANS of each wallet
          cash        \* the payment mint of each wallet

saleVars == <<title, term, consignor, wealth, tokens, cash>>

SaleInit ==
    /\ title \in [Names -> Wallets \cup {Nil}]
    /\ term \in [Names -> Nat]
    /\ consignor = [n \in Names |-> Nil]
    /\ wealth \in [Wallets -> Nat] /\ tokens \in [Wallets -> Nat] /\ cash \in [Wallets -> Nat]

\* The name goes to the buyer and the price, less a fee that goes to a third
\* party, to the owner.
Sell(n, buyer) ==
    /\ title[n] \notin {Nil, buyer}
    /\ title' = [title EXCEPT ![n] = buyer]
    /\ \E price \in 0..wealth[buyer], treasury \in Wallets : \E fee \in 0..MaxFee(price) :
          wealth' = [[[wealth EXCEPT ![buyer] = @ - price]
                                EXCEPT ![title[n]] = @ + (price - fee)]
                                EXCEPT ![treasury] = @ + fee]
    /\ UNCHANGED <<term, consignor, tokens, cash>>

Consign(n) ==
    /\ title[n] # Nil /\ consignor[n] = Nil
    /\ consignor' = [consignor EXCEPT ![n] = title[n]]
    /\ UNCHANGED <<title, term, wealth, tokens, cash>>

Withdraw(n) ==
    /\ consignor' = [consignor EXCEPT ![n] = Nil]
    /\ UNCHANGED <<title, term, wealth, tokens, cash>>

\* The sale of a consigned name; its fee is burned.
Knockdown(n, buyer) ==
    /\ consignor[n] \notin {Nil, buyer} /\ title[n] # Nil
    /\ title' = [title EXCEPT ![n] = buyer]
    /\ consignor' = [consignor EXCEPT ![n] = Nil]
    /\ \E price \in 1..tokens[buyer] : \E fee \in 0..MaxFee(price) :
          tokens' = [[tokens EXCEPT ![buyer] = @ - price]
                               EXCEPT ![consignor[n]] = @ + (price - fee)]
    /\ UNCHANGED <<term, wealth, cash>>

Burn(w) == \E burned \in 0..tokens[w] : tokens' = [tokens EXCEPT ![w] = @ - burned]

\* At most one wallet pays.
PaidBy(payer) == \A w \in Wallets \ {payer} : cash'[w] >= cash[w]

\* Registration, renewal, transfer, claim and burn cost no SOL; only a longer
\* term is paid for, in cash or by burning $SOLANS.
Convey(n) ==
    /\ \E w \in Wallets \cup {Nil} : title' = [title EXCEPT ![n] = w]
    /\ \A k \in Names \ {n} : term'[k] = term[k]
    /\ \/ UNCHANGED <<tokens, cash>>
       \/ /\ term'[n] > term[n]
          /\ \E w \in Wallets : \/ PaidBy(w) /\ UNCHANGED tokens
                                \/ Burn(w) /\ UNCHANGED cash
    /\ UNCHANGED <<consignor, wealth>>

\* $SOLANS burned against cash.
Redeem(w) ==
    /\ Burn(w)
    /\ cash'[w] > cash[w] /\ \A v \in Wallets \ {w} : cash'[v] = cash[v]
    /\ UNCHANGED <<title, term, consignor, wealth>>

SaleNext ==
    \/ \E n \in Names :
          \/ Convey(n) \/ Consign(n) \/ Withdraw(n)
          \/ \E buyer \in Wallets : Sell(n, buyer) \/ Knockdown(n, buyer)
    \/ \E w \in Wallets : Redeem(w)

SaleSpec == SaleInit /\ [][SaleNext]_saleVars
=============================================================================
