----------------------------- MODULE StepProofs -----------------------------
(***************************************************************************)
(* What a single step of the registry with its marketplace may do to one   *)
(* party, for every value of the constants: a delegation is charged one    *)
(* year at a time, an offer ends all or nothing, a listed name is sold for *)
(* pay, every year of a name is paid for.  All rest on MarketInv.          *)
(***************************************************************************)
EXTENDS SaleProofs

-----------------------------------------------------------------------------
(* Delegations: auto_renew. *)

\* A step that leaves the delegations alone, or the payments, charges none.
LEMMA NotCharged ==
    ASSUME NamesTypeOK, allowance' = allowance \/ usdc' = usdc
    PROVE  RenewsOnce
  BY DEF RenewsOnce, NamesTypeOK, MoneyTypeOK

\* auto_renew charges one year of a name that leaves the renewal window.
LEMMA AutoRenewCharges ==
    ASSUME NamesTypeOK, NEW n \in Names, AutoRenew(n)
    PROVE  RenewsOnce
  <1> DEFINE o == rec[n].owner
             price == YearlyPrice(n)
             s == Renewed(rec[n], 1)
  <1>1. /\ Exists(n) /\ rec[n] \in NameRecord /\ o \in Wallets /\ price \in Nat /\ now \in Nat
        /\ allowance \in [Wallets -> Nat] /\ rec \in [Names -> NameRecord \cup {Nil}]
    BY EnvironmentFacts DEF AutoRenew, NameRecord, NamesTypeOK
  <1>2. allowance' = [allowance EXCEPT ![o] = @ - price] /\ rec' = [rec EXCEPT ![n] = s]
        /\ now >= rec[n].expires_at - RenewalWindow
    BY DEF AutoRenew, Put
  <1>3. s.owner = o /\ s.expires_at = Later(rec[n].expires_at, now) + Year
    <2>1. 1 * Year = Year
      BY RegistryAssumption
    <2> QED BY <1>1, <2>1 DEF Renewed, NameRecord
  <1>4. now < s.expires_at - RenewalWindow
    <2>1. rec[n].expires_at \in Nat
      BY <1>1 DEF NameRecord
    <2> HIDE DEF s
    <2> QED BY <1>1, <1>3, <2>1, RegistryAssumption DEF Later
  <1> HIDE DEF s, price, o
  <1>5. ASSUME NEW w \in Wallets, allowance'[w] < allowance[w]
        PROVE  w = o /\ allowance[w] - allowance'[w] = price
    <2>1. w = o
      BY <1>1, <1>2, <1>5
    <2>2. allowance'[w] = allowance[w] - price /\ allowance[w] \in Nat
      BY <1>1, <1>2, <2>1
    <2> QED BY <1>1, <2>1, <2>2
  <1>6. rec'[n] = s
    BY <1>1, <1>2
  <1> QED BY <1>1, <1>2, <1>3, <1>4, <1>5, <1>6 DEF RenewsOnce, price

\* Every other step of the registry leaves the delegations alone, or the
\* payments.
LEMMA NamesCharge ==
    ASSUME NamesTypeOK, NamesNext
    PROVE  RenewsOnce
  <1>1. ASSUME Lifecycle PROVE RenewsOnce
    <2>1. \A p, w, n, y, f :
             (RegisterName(p, w, n, y, f) \/ RenewName(w, n, y, f) \/ ClaimExpired(w, n, y, f))
                => allowance' = allowance
      BY DEF RegisterName, RenewName, ClaimExpired, OnlyRecordAndMoney
    <2>2. \A p, w, n, y :
             (RegisterWithSolans(p, w, n, y) \/ RenewWithSolans(w, n, y) \/ BurnName(w, n))
                => allowance' = allowance
      BY DEF RegisterWithSolans, RenewWithSolans, BurnName, OnlyRecord, OnlyRecordAndMoney
    <2>3. (\E n \in Names : AutoRenew(n)) \/ allowance' = allowance
      BY <1>1, <2>1, <2>2, Zenon DEF Lifecycle
    <2> QED BY <2>3, NotCharged, AutoRenewCharges
  <1>2. ASSUME Management PROVE RenewsOnce
    <2>1. \A w, n, x, y :
             (TransferName(w, n, x) \/ LockTransfer(w, n, x) \/ SetController(w, n, x)
              \/ SetResolver(w, n, x) \/ SetHosting(w, n, x) \/ UpdateRecord(w, n, x, y))
                => allowance' = allowance
      BY DEF TransferName, LockTransfer, SetController, SetResolver, SetHosting, UpdateRecord,
             OnlyRecord
    <2>2. \A w, n, x, y :
             (SetReverse(w, n) \/ TokenizeName(w, n, x) \/ RedeemName(w, n)
              \/ WrapSubdomain(w, n, x, y) \/ RevokeSubdomain(w, n))
                => allowance' = allowance
      BY DEF SetReverse, TokenizeName, RedeemName, WrapSubdomain, RevokeSubdomain, OnlyRecord
    <2>3. allowance' = allowance
      BY <1>2, <2>1, <2>2, Zenon DEF Management
    <2> QED BY <2>3, NotCharged
  <1>3. ASSUME Environment PROVE RenewsOnce
    <2>1. allowance' = allowance \/ usdc' = usdc
      BY <1>3 DEF Environment, Tick, Approve, TradeNft, moneyVars
    <2> QED BY <2>1, NotCharged
  <1>4. ASSUME Govern PROVE RenewsOnce
    BY <1>4, NotCharged DEF Govern, registryVars
  <1> QED BY <1>1, <1>2, <1>3, <1>4 DEF NamesNext

\* So do the instructions of the marketplace.
LEMMA OnlyAutoRenewCharges ==
    ASSUME MarketInv, Next
    PROVE  RenewsOnce
  <1>0. NamesTypeOK
    BY MarketFacts
  <1>1. ASSUME Trading PROVE RenewsOnce
    <2>1. \A w, n, p, d :
             (ListName(w, n, p, d) \/ UpdateListing(w, n, p, d) \/ MakeOffer(w, n, p, d))
                => allowance' = allowance
      BY DEF ListName, UpdateListing, MakeOffer, OnlyRecord, namesVars, registryVars
    <2>2. \A w, n, v :
             (CancelListing(w, n) \/ BuyName(w, n, v) \/ CancelOffer(w, n, v) \/ AcceptOffer(w, n, v))
                => allowance' = allowance
      BY DEF CancelListing, BuyName, CancelOffer, AcceptOffer, OnlyRecord, namesVars, registryVars
    <2>3. allowance' = allowance
      BY <1>1, <2>1, <2>2 DEF Trading
    <2> QED BY <1>0, <2>3, NotCharged
  <1>2. ASSUME Auctions PROVE RenewsOnce
    <2>1. allowance' = allowance
      BY <1>2 DEF Auctions, StartAuction, Bid, CancelAuction, SettleAuction, OnlyRecord,
                  registryVars
    <2> QED BY <1>0, <2>1, NotCharged
  <1> QED BY <1>0, <1>1, <1>2, NamesCharge DEF Next

\* A keeper cannot drain a delegation: each charge is one year's price of a
\* name of the delegating owner that was in its renewal window and has left it
\* (auto_renew).
THEOREM DelegationChargedOnce == Spec => AutoRenewOnce
  <1>1. MarketInv /\ [Next]_vars => [RenewsOnce]_namesVars
    BY OnlyAutoRenewCharges DEF vars
  <1> QED BY <1>1, Invariance, PTL DEF Spec, AutoRenewOnce

-----------------------------------------------------------------------------
(* Offers: cancel_offer and accept_offer. *)

\* A step that leaves the offers alone ends none.
LEMMA NoOfferEnds ==
    ASSUME UNCHANGED offer
    PROVE  EndsOffer
  BY DEF EndsOffer

\* An offer ends alone: what one step must do for the one that ends.
LEMMA OneOfferEnds ==
    ASSUME MarketInv, NEW n \in Names, NEW b \in Wallets, NEW x,
           offer' = [offer EXCEPT ![n][b] = x],
           offer[n][b] # Nil /\ x = Nil =>
             \/ sol'[b] = sol[b] + offer[n][b].amount
             \/ /\ Exists(n) /\ rec'[n].owner = b
                /\ sol'[rec[n].owner] >= sol[rec[n].owner] + AtLeastNet(offer[n][b].amount)
    PROVE  EndsOffer
  <1>1. offer \in [Names -> [Wallets -> Offer \cup {Nil}]]
    BY MarketFacts DEF SaleTypeOK
  <1>2. ASSUME NEW k \in Names, NEW w \in Wallets, offer[k][w] # Nil, offer'[k][w] = Nil
        PROVE  k = n /\ w = b /\ x = Nil
    BY <1>1, <1>2
  <1> QED BY <1>2 DEF EndsOffer

\* cancel_offer pays the whole escrow back to the bidder.
LEMMA CancelOfferEnds ==
    ASSUME MarketInv, NEW w \in Wallets, NEW n \in Names, NEW b \in Wallets, CancelOffer(w, n, b)
    PROVE  EndsOffer
  <1>1. offer' = [offer EXCEPT ![n][b] = Nil] /\ sol' = [sol EXCEPT ![b] = @ + escrow[n][b]]
        /\ offer[n][b] # Nil
    BY DEF CancelOffer
  <1>2. escrow[n][b] = offer[n][b].amount /\ sol \in [Wallets -> Nat]
    BY <1>1, MarketFacts DEF MarketInv, EscrowsFunded, SaleTypeOK
  <1>3. sol'[b] = sol[b] + offer[n][b].amount
    BY <1>1, <1>2
  <1> QED BY <1>1, <1>3, OneOfferEnds

\* accept_offer hands the name over and pays the owner of that moment.
LEMMA AcceptOfferEnds ==
    ASSUME MarketInv, NEW w \in Wallets, NEW n \in Names, NEW b \in Wallets, AcceptOffer(w, n, b)
    PROVE  EndsOffer
  <1> DEFINE o == rec[n].owner
             t == config.params.sol_treasury
             p == offer[n][b].amount
             fee == Fee(p)
             s == Handover(rec[n], b)
             rest == escrow[n][b] - p
  <1>1. /\ Exists(n) /\ rec[n] \in NameRecord /\ o = w /\ b # w /\ t \in Wallets
        /\ offer[n][b] # Nil
    BY MarketFacts, LedgerFacts DEF AcceptOffer, OwnerGate
  <1>2. p \in Nat /\ escrow[n][b] \in Nat /\ sol \in [Wallets -> Int]
    BY <1>1, MarketFacts DEF Offer, SaleTypeOK
  <1>3. fee \in 0..p /\ fee \in 0..Share(p, MAX_FEE_BPS) /\ Share(p, MAX_FEE_BPS) \in 0..p
    BY <1>2, MarketFacts, FeeBound, FeeCapped
  <1>4. /\ sol' = [[[sol EXCEPT ![w] = @ + (p - fee)] EXCEPT ![t] = @ + fee] EXCEPT ![b] = @ + rest]
        /\ offer' = [offer EXCEPT ![n][b] = Nil] /\ rec' = [rec EXCEPT ![n] = s]
    BY DEF AcceptOffer, Put
  <1>5. rec'[n].owner = b
    <2>1. s.owner = b /\ rec'[n] = s
      BY <1>1, <1>4, HandoverFacts, MarketFacts DEF NamesTypeOK
    <2> QED BY <2>1
  <1>6. rest \in Int
    BY <1>2
  <1> DEFINE most == Share(p, MAX_FEE_BPS)
  <1> HIDE DEF p, fee, rest, t, most
  <1>7. sol'[w] = sol[w] + (IF w = w THEN p - fee ELSE 0) + (IF w = t THEN fee ELSE 0)
                         + (IF w = b THEN rest ELSE 0)
    <2>1. p - fee \in Int /\ fee \in Int
      BY <1>2, <1>3
    <2> QED BY <1>1, <1>2, <1>4, <1>6, <2>1, ThreePayments
  <1>8. sol'[w] >= sol[w] + (p - most)
    <2>1. sol[w] \in Int /\ most \in 0..p /\ fee \in 0..most
      BY <1>2, <1>3 DEF most
    <2> QED BY <1>1, <1>2, <1>3, <1>7, <2>1
  <1>9. sol'[o] >= sol[o] + AtLeastNet(p)
    BY <1>1, <1>8 DEF AtLeastNet, most
  <1> QED BY <1>1, <1>4, <1>5, <1>9, OneOfferEnds DEF p

\* No other step ends an offer.
LEMMA OfferEnds ==
    ASSUME MarketInv, Next
    PROVE  EndsOffer
  <1>1. ASSUME Trading PROVE EndsOffer
    <2>1. \A w, n, p, d : (ListName(w, n, p, d) \/ UpdateListing(w, n, p, d)) => offer' = offer
      BY DEF ListName, UpdateListing
    <2>2. \A w, n, p : (CancelListing(w, n) \/ BuyName(w, n, p)) => offer' = offer
      BY DEF CancelListing, BuyName
    <2>3. ASSUME NEW w \in Wallets, NEW n \in Names, NEW x \in OfferAmounts, NEW d \in Durations,
                 MakeOffer(w, n, x, d)
          PROVE  EndsOffer
      <3> DEFINE f == [amount |-> x, expires_at |-> now + d]
      <3>1. x \in Nat /\ now + d \in Nat
        BY MarketAssumption, MarketFacts DEF NamesTypeOK
      <3>2. f # Nil
        BY <3>1, SaleAssumption DEF Offer
      <3>3. offer' = [offer EXCEPT ![n][w] = f]
        BY <2>3 DEF MakeOffer
      <3> HIDE DEF f
      <3> QED BY <3>2, <3>3, OneOfferEnds
    <2> QED BY <1>1, <2>1, <2>2, <2>3, NoOfferEnds, CancelOfferEnds, AcceptOfferEnds DEF Trading
  <1>2. ASSUME Auctions PROVE EndsOffer
    <2>1. offer' = offer
      BY <1>2 DEF Auctions, StartAuction, Bid, CancelAuction, SettleAuction
    <2> QED BY <2>1, NoOfferEnds
  <1> QED BY <1>1, <1>2, NoOfferEnds DEF Next, marketVars

\* An offer ends in one of two ways: the bidder gets the whole escrow back, or
\* the name, while its owner gets the amount less at most the capped fee
\* (cancel_offer, accept_offer).
THEOREM OfferEndsWhole == Spec => OfferAllOrNothing
  <1>1. MarketInv /\ [Next]_vars => [EndsOffer]_vars
    BY OfferEnds
  <1> QED BY <1>1, Invariance, PTL DEF Spec, OfferAllOrNothing

-----------------------------------------------------------------------------
(* Sales: buy_name and settle_auction. *)

\* A listed name in its term keeps its owner.
OwnersKept ==
    \A n \in Names :
        Exists(n) /\ rec[n].listed /\ InTerm(n) /\ Exists(n)' => rec'[n].owner = rec[n].owner

\* Where owners are kept there is nothing to pay for.
LEMMA KeptPaid ==
    ASSUME OwnersKept
    PROVE  PaysSeller
  BY DEF OwnersKept, PaysSeller

\* A step that leaves the records alone keeps the owners.
LEMMA UntouchedOwners ==
    ASSUME UNCHANGED rec
    PROVE  PaysSeller
  BY DEF PaysSeller

\* Writing one record keeps the owners when it closes the record, or the name
\* was free, not for sale or lapsed, or its owner is written back.
LEMMA PutOwnersKept ==
    ASSUME NamesTypeOK, NEW n \in Names, NEW s, Put(n, s),
           s = Nil \/ ~Exists(n) \/ ~rec[n].listed \/ ~InTerm(n) \/ s.owner = rec[n].owner
    PROVE  PaysSeller
  <1>1. OwnersKept
    BY DEF OwnersKept, Put, Exists, NamesTypeOK
  <1> QED BY <1>1, KeptPaid

\* Registration, renewal, claim and burn.
LEMMA LifecycleOwners ==
    ASSUME NamesTypeOK, Lifecycle
    PROVE  PaysSeller
  <1> USE TermsNat
  <1>1. ASSUME NEW n \in Names, NEW y \in Nat, Exists(n), Put(n, Renewed(rec[n], y))
        PROVE  PaysSeller
    <2>1. Renewed(rec[n], y).owner = rec[n].owner
      BY <1>1, EnvironmentFacts, RenewedFacts DEF NamesTypeOK
    <2> QED BY <1>1, <2>1, PutOwnersKept
  <1>2. ASSUME NEW n \in Names, NEW w \in Wallets, NEW y \in Terms, NEW f,
               RenewName(w, n, y, f) \/ RenewWithSolans(w, n, y)
        PROVE  PaysSeller
    BY <1>1, <1>2 DEF RenewName, RenewWithSolans
  <1>3. ASSUME NEW n \in Names, AutoRenew(n) PROVE PaysSeller
    BY <1>1, <1>3 DEF AutoRenew
  <1>4. ASSUME NEW n \in Names, NEW p, NEW w \in Wallets, NEW y \in Terms, NEW f,
               RegisterName(p, w, n, y, f) \/ RegisterWithSolans(p, w, n, y)
        PROVE  PaysSeller
    BY <1>4, PutOwnersKept DEF RegisterName, RegisterWithSolans
  <1>5. ASSUME NEW n \in Names, NEW w \in Wallets, NEW y \in Terms, NEW f,
               ClaimExpired(w, n, y, f)
        PROVE  PaysSeller
    <2>1. ~InTerm(n)
      <3>1. rec[n].expires_at + config.params.grace_period \in Int /\ now \in Int
        BY <1>5, EnvironmentFacts, LedgerFacts DEF ClaimExpired, NameRecord, Params, NamesTypeOK
      <3> QED BY <1>5, <3>1 DEF ClaimExpired, InTerm
    <2> QED BY <1>5, <2>1, PutOwnersKept DEF ClaimExpired
  <1>6. ASSUME NEW n \in Names, NEW w, BurnName(w, n) PROVE PaysSeller
    BY <1>6, PutOwnersKept DEF BurnName
  <1> QED BY <1>2, <1>3, <1>4, <1>5, <1>6, Zenon DEF Lifecycle

\* The managing instructions are refused on a listed name, or write its owner
\* back, or close it.
LEMMA ManagementOwners ==
    ASSUME NamesTypeOK, RegistryInv, Management
    PROVE  PaysSeller
  <1>1. ASSUME NEW n \in Names, NEW s, Put(n, s), ~rec[n].listed PROVE PaysSeller
    BY <1>1, PutOwnersKept
  <1>2. ASSUME NEW w \in Wallets, NEW n \in Names, RedeemName(w, n) PROVE PaysSeller
    <2>1. ~rec[n].listed
      BY <1>2, EnvironmentFacts DEF RedeemName, RegistryInv, SaleUnminted
    <2> QED BY <1>1, <1>2, <2>1 DEF RedeemName
  <1>3. ASSUME NEW w \in Wallets, NEW n \in Names, NEW c \in Names, NEW v \in Wallets,
               WrapSubdomain(w, n, c, v)
        PROVE  PaysSeller
    BY <1>3, PutOwnersKept DEF WrapSubdomain
  <1>4. ASSUME NEW w \in Wallets, NEW n \in Names, RevokeSubdomain(w, n) PROVE PaysSeller
    BY <1>4, PutOwnersKept DEF RevokeSubdomain
  <1>5. ASSUME NEW w \in Wallets, NEW n \in Names,
               \/ \E v \in Wallets : TransferName(w, n, v)
               \/ \E lock \in BOOLEAN : LockTransfer(w, n, lock)
               \/ \E c \in Controllers \cup {Nil} : SetController(w, n, c)
               \/ \E r \in Resolvers \cup {Nil} : SetResolver(w, n, r)
               \/ \E h \in Hosts \cup {Nil} : SetHosting(w, n, h)
               \/ \E k \in Keys, v \in Values \cup {Nil} : UpdateRecord(w, n, k, v)
               \/ SetReverse(w, n)
               \/ \E m \in Mints : TokenizeName(w, n, m)
        PROVE  PaysSeller
    <2>1. ~rec[n].listed /\ \E s : Put(n, s)
      BY <1>5, Zenon
         DEF TransferName, LockTransfer, SetController, SetResolver, SetHosting, UpdateRecord,
             SetReverse, TokenizeName, OwnerGate
    <2> QED BY <1>1, <2>1
  <1> QED BY <1>2, <1>3, <1>4, <1>5, Zenon DEF Management

\* Nothing the registry itself does takes a listed name in its term from its
\* owner.
LEMMA NamesOwners ==
    ASSUME NamesTypeOK, RegistryInv, NamesNext
    PROVE  PaysSeller
  <1>1. ASSUME Environment PROVE PaysSeller
    BY <1>1, UntouchedOwners DEF Environment, Tick, Approve, TradeNft
  <1>2. ASSUME Govern PROVE PaysSeller
    BY <1>2, UntouchedOwners DEF Govern, registryVars
  <1> QED BY <1>1, <1>2, LifecycleOwners, ManagementOwners DEF NamesNext

\* What one step must do for the one name whose record it writes.
LEMMA OneNamePaid ==
    ASSUME NamesTypeOK, NEW n \in Names, NEW s, Put(n, s),
           (auction[n] # Nil => OwnersAuction(n)) => OwnerPaid(n)
    PROVE  PaysSeller
  BY DEF PaysSeller, Put, Exists, NamesTypeOK

\* buy_name pays the owner, who is the seller of the listing.
LEMMA BuyNamePays ==
    ASSUME MarketInv, NEW b \in Wallets, NEW n \in Names, NEW p \in Nat, BuyName(b, n, p)
    PROVE  PaysSeller
  <1> DEFINE o == rec[n].owner
             t == config.params.sol_treasury
             fee == Fee(p)
             most == Share(p, MAX_FEE_BPS)
  <1>1. /\ OwnersListing(n) /\ o \in Wallets /\ b # o /\ t \in Wallets /\ listing[n].price = p
    BY MarketFacts, LedgerFacts DEF BuyName, OwnersListing, NameRecord
  <1>2. fee \in 0..p /\ fee \in 0..most /\ most \in 0..p /\ sol \in [Wallets -> Int]
    BY MarketFacts, FeeBound, FeeCapped DEF SaleTypeOK
  <1>3. sol' = [[[sol EXCEPT ![b] = @ - p] EXCEPT ![o] = @ + (p - fee)] EXCEPT ![t] = @ + fee]
    BY DEF BuyName
  <1> HIDE DEF o, t, fee, most
  <1>4. sol' = [[[sol EXCEPT ![b] = @ + (0 - p)] EXCEPT ![o] = @ + (p - fee)] EXCEPT ![t] = @ + fee]
    <2>1. sol[b] - p = sol[b] + (0 - p)
      BY <1>2
    <2> QED BY <1>3, <2>1
  <1>5. sol'[o] = sol[o] + (IF o = b THEN 0 - p ELSE 0) + (IF o = o THEN p - fee ELSE 0)
                         + (IF o = t THEN fee ELSE 0)
    <2>1. 0 - p \in Int /\ p - fee \in Int /\ fee \in Int
      BY <1>2
    <2> QED BY <1>1, <1>2, <1>4, <2>1, ThreePayments
  <1>6. sol'[o] >= sol[o] + (p - most)
    <2>1. sol[o] \in Int
      BY <1>1, <1>2
    <2> QED BY <1>1, <1>2, <1>5, <2>1
  <1>7. OwnerPaid(n)
    BY <1>1, <1>6 DEF OwnerPaid, AtLeastNet, most, o
  <1> QED BY <1>7, MarketFacts, OneNamePaid DEF BuyName

\* settle_auction with a winner pays the seller, who is the owner.
LEMMA SettlePays ==
    ASSUME MarketInv, NEW n \in Names, auction[n] # Nil, SettleWithWinner(n)
    PROVE  PaysSeller
  <1> DEFINE o == auction[n].seller
             p == auction[n].highest_bid
             fee == Fee(p)
             most == Share(p, MAX_FEE_BPS)
  <1>1. o \in Wallets /\ p \in Nat /\ solans \in [Wallets -> Nat] /\ auction[n].highest_bidder # Nil
    BY MarketFacts DEF Auction, LedgerOK, MoneyTypeOK, SettleWithWinner
  <1>2. fee \in 0..p /\ fee \in 0..most /\ most \in 0..p
    BY <1>1, MarketFacts, FeeBound, FeeCapped
  <1>3. solans' = [solans EXCEPT ![o] = @ + (p - fee)]
    BY DEF SettleWithWinner
  <1> HIDE DEF o, p, fee, most
  <1>4. solans'[o] >= solans[o] + (p - most)
    <2>1. solans'[o] = solans[o] + (p - fee) /\ solans[o] \in Nat
      BY <1>1, <1>3
    <2> QED BY <1>1, <1>2, <2>1
  <1>5. ASSUME OwnersAuction(n) PROVE OwnerPaid(n)
    BY <1>1, <1>4, <1>5 DEF OwnerPaid, OwnersAuction, AtLeastNet, most, o, p
  <1> QED BY <1>5, MarketFacts, OneNamePaid DEF SettleWithWinner

\* The other listing and offer instructions keep the owner of a listed name.
LEMMA TradingPays ==
    ASSUME MarketInv, Trading
    PROVE  PaysSeller
  <1>1. NamesTypeOK /\ Prices \subseteq Nat
    BY MarketFacts, MarketAssumption
  <1>2. ASSUME NEW w \in Wallets, NEW n \in Names, NEW p, NEW d,
               ListName(w, n, p, d) \/ AcceptOffer(w, n, p)
        PROVE  PaysSeller
    <2>1. ~rec[n].listed /\ \E s : Put(n, s)
      BY <1>2 DEF ListName, AcceptOffer, OwnerGate
    <2> QED BY <1>1, <2>1, PutOwnersKept
  <1>3. ASSUME NEW w \in Wallets, NEW n \in Names, CancelListing(w, n) PROVE PaysSeller
    BY <1>1, <1>3, PutOwnersKept, UnlistedFacts, MarketFacts DEF CancelListing
  <1>4. ASSUME NEW w, NEW n, NEW p, NEW d,
               UpdateListing(w, n, p, d) \/ MakeOffer(w, n, p, d) \/ CancelOffer(w, n, p)
        PROVE  PaysSeller
    BY <1>4, UntouchedOwners DEF UpdateListing, MakeOffer, CancelOffer, namesVars, registryVars
  <1>5. ASSUME NEW w \in Wallets, NEW n \in Names, NEW p \in Prices, BuyName(w, n, p)
        PROVE  PaysSeller
    BY <1>1, <1>5, BuyNamePays
  <1> QED BY <1>2, <1>3, <1>4, <1>5 DEF Trading

\* The other auction instructions keep the owner of a listed name.
LEMMA AuctionsPay ==
    ASSUME MarketInv, Auctions
    PROVE  PaysSeller
  <1>1. NamesTypeOK
    BY MarketFacts
  <1>2. ASSUME NEW w, NEW n \in Names, NEW r, NEW i, NEW d, StartAuction(w, n, r, i, d)
        PROVE  PaysSeller
    BY <1>1, <1>2, PutOwnersKept DEF StartAuction, OwnerGate
  <1>3. ASSUME NEW w, NEW n, NEW x, Bid(w, n, x) PROVE PaysSeller
    BY <1>3, UntouchedOwners DEF Bid, registryVars
  <1>4. ASSUME NEW n \in Names, Exists(n), Put(n, Unlisted(rec[n])) PROVE PaysSeller
    BY <1>1, <1>4, PutOwnersKept, UnlistedFacts, MarketFacts
  <1>5. ASSUME NEW w, NEW n \in Names, CancelAuction(w, n) PROVE PaysSeller
    BY <1>4, <1>5 DEF CancelAuction
  <1>6. ASSUME NEW n \in Names, SettleAuction(n) PROVE PaysSeller
    BY <1>4, <1>6, SettlePays DEF SettleAuction, SettleWithoutBid
  <1> QED BY <1>2, <1>3, <1>5, <1>6 DEF Auctions

\* A listed name in its term changes hands only against payment of its owner,
\* as long as no auction of an earlier owner is left on it (buy_name,
\* settle_auction).
THEOREM ListedIsPaidFor == Spec => ListedSoldForPay
  <1>1. MarketInv /\ Next => PaysSeller
    BY NamesOwners, TradingPays, AuctionsPay, MarketFacts DEF Next
  <1>2. MarketInv /\ [Next]_vars => [PaysSeller]_vars
    BY <1>1
  <1> QED BY <1>2, Invariance, PTL DEF Spec, ListedSoldForPay
-----------------------------------------------------------------------------
(* Terms: registration, renewal and claim. *)

\* The vaults are finitely many.
LEMMA VaultsFinite == IsFiniteSet(Vaults)
  <1> DEFINE a == "treasury"
             b == "staking_initial"
             c == "staking_pool"
             d == "burn_initial"
             e == "burn_pool"
  <1>1. IsFiniteSet({a})
    BY FS_Singleton
  <1>2. IsFiniteSet({a} \cup {b})
    BY <1>1, FS_AddElement
  <1>3. IsFiniteSet({a} \cup {b} \cup {c})
    BY <1>2, FS_AddElement
  <1>4. IsFiniteSet({a} \cup {b} \cup {c} \cup {d})
    BY <1>3, FS_AddElement
  <1>5. IsFiniteSet({a} \cup {b} \cup {c} \cup {d} \cup {e})
    BY <1>4, FS_AddElement
  <1>6. Vaults = {a} \cup {b} \cup {c} \cup {d} \cup {e}
    BY DEF Vaults
  <1> QED BY <1>5, <1>6

\* distribute_fee brings the vaults the whole fee, or all but the referral.
LEMMA FeeReachesVaults ==
    ASSUME LedgerOK, NEW payer \in Wallets, NEW referrer \in Wallets \cup {Nil},
           NEW amount \in Nat, DistributeFee(payer, referrer, amount)
    PROVE  PaidInUsdc(amount)
  <1> DEFINE s == fee_split(config.params, amount)
             ts == s.staking
             tb == s.burn
             tr == s.referral
             tt == IF referrer = Nil THEN s.treasury + tr ELSE s.treasury
             sv == config.staking_vault
             bv == config.burn_vault
             gain == [v \in Vaults |-> vault'[v] - vault[v]]
  <1>1. /\ s.treasury \in Nat /\ ts \in Nat /\ tr \in Nat /\ tb \in Nat
        /\ s.treasury + ts + tr + tb = amount
    BY FeeSplitExact, LedgerFacts DEF LedgerOK
  <1>2. vault \in [Vaults -> Nat] /\ sv \in Vaults /\ bv \in Vaults /\ "treasury" \in Vaults
    BY LedgerFacts DEF LedgerOK, MoneyTypeOK, Vaults
  <1> DEFINE z0 == [v \in Vaults |-> 0]
             z1 == [v \in Vaults |-> IF v = sv THEN ts ELSE 0]
             z2 == [v \in Vaults |-> z1[v] + (IF v = bv THEN tb ELSE 0)]
             z3 == [v \in Vaults |-> z2[v] + (IF v = "treasury" THEN tt ELSE 0)]
  <1>3. vault' = [v \in Vaults |->
                    vault[v] + (IF v = sv THEN ts ELSE 0) + (IF v = bv THEN tb ELSE 0)
                             + (IF v = "treasury" THEN tt ELSE 0)]
    BY DEF DistributeFee
  <1>4. tt \in Nat /\ ts + tb + tt \in {amount, amount - tr}
    BY <1>1
  <1> HIDE DEF ts, tb, tr, tt, sv, bv
  <1>5. gain = z3
    <2>1. ASSUME NEW v \in Vaults PROVE vault'[v] - vault[v] = z3[v]
      BY <1>1, <1>2, <1>3, <1>4 DEF ts, tb
    <2> QED BY <2>1
  <1>6. /\ z0 \in [Vaults -> Int] /\ z1 \in [Vaults -> Int] /\ z2 \in [Vaults -> Int]
        /\ z3 \in [Vaults -> Int]
    BY <1>1, <1>4 DEF ts, tb
  <1>7. SumFunction(z0) = 0
    BY VaultsFinite, SumZero
  <1>8. SumFunction(z1) = SumFunction(z0) + z1[sv] - z0[sv]
    BY <1>2, <1>6, VaultsFinite, SumMoves
  <1>9. SumFunction(z2) = SumFunction(z1) + z2[bv] - z1[bv]
    <2>1. \A v \in Vaults \ {bv} : z2[v] = z1[v]
      BY <1>6
    <2> HIDE DEF z1, z2
    <2> QED BY <1>2, <1>6, <2>1, VaultsFinite, SumMoves
  <1>10. SumFunction(z3) = SumFunction(z2) + z3["treasury"] - z2["treasury"]
    <2>1. \A v \in Vaults \ {"treasury"} : z3[v] = z2[v]
      <3> HIDE DEF z2
      <3> QED BY <1>6
    <2> HIDE DEF z2, z3
    <2> QED BY <1>2, <1>6, <2>1, VaultsFinite, SumMoves
  <1>11. /\ z0[sv] = 0 /\ z1[sv] = ts /\ z2[bv] = z1[bv] + tb
         /\ z3["treasury"] = z2["treasury"] + tt
    BY <1>2
  <1>12. SumFunction(z3) = ts + tb + tt
    <2>1. z1[bv] \in Int /\ z2["treasury"] \in Int
      BY <1>2, <1>6
    <2> HIDE DEF z0, z1, z2, z3
    <2> QED BY <1>1, <1>4, <1>7, <1>8, <1>9, <1>10, <1>11, <2>1 DEF ts, tb
  <1>13. VaultsGain = ts + tb + tt
    BY <1>5, <1>12 DEF VaultsGain
  <1> QED BY <1>4, <1>13 DEF PaidInUsdc, tr

\* Whole years divide out.
LEMMA WholeYears ==
    ASSUME NEW y \in Nat, NEW base \in Nat
    PROVE  ((base + y * Year) - base) \div Year = y
  <1>1. Year \in Nat \ {0}
    BY RegistryAssumption
  <1>2. y * Year \in Nat
    BY <1>1, TimesNat
  <1>3. (base + y * Year) - base = y * Year
    BY <1>2
  <1>4. (y * Year) \div Year = y
    BY <1>1, Z3
  <1> QED BY <1>3, <1>4

\* Every label has a price.
LEMMA PricePositive ==
    ASSUME NamesTypeOK, NEW n \in Names
    PROVE  YearlyPrice(n) \in Nat \ {0}
  <1> DEFINE p == config.params
             l == Label[n]
  <1>1. p \in Params(Wallets) /\ l \in LabelShape /\ YearlyPrice(n) \in Nat
    BY EnvironmentFacts, LedgerFacts, RegistryAssumption
  <1>2. (\A i \in 1..5 : p.price[i] > 0) /\ p.price_numeric > 0
    BY DEF NamesTypeOK, ValidParams
  <1>3. p.price \in [1..5 -> Nat] /\ p.price_numeric \in Nat /\ l.len \in Nat
    BY <1>1 DEF Params, LabelShape
  <1>4. price_for_len(p, l.len) \in Nat \ {0}
    BY <1>2, <1>3 DEF price_for_len
  <1> HIDE DEF p, l
  <1>5. price_for_label(p, l) # 0
    BY <1>2, <1>3, <1>4 DEF price_for_label
  <1> QED BY <1>1, <1>5 DEF YearlyPrice, p, l

\* Where terms are kept there is nothing to pay for.
TermsKept ==
    \A n \in Names :
        TopLevel(n) /\ Exists(n)' => Exists(n) /\ rec'[n].expires_at = rec[n].expires_at

\* Such a step owes nothing for years (everything but registration, renewal
\* and claim).
LEMMA KeptFree ==
    ASSUME TermsKept
    PROVE  PaysForYears
  BY DEF TermsKept, PaysForYears

\* Records left alone add no years.
LEMMA UntouchedTerms ==
    ASSUME UNCHANGED rec
    PROVE  PaysForYears
  BY KeptFree DEF TermsKept, Exists

\* Writing a record that is closed, is a subdomain's, or has its expiry written
\* back adds no years.
LEMMA PutTermsKept ==
    ASSUME NamesTypeOK, NEW n \in Names, NEW s, Put(n, s),
           s = Nil \/ ~TopLevel(n) \/ (Exists(n) /\ s.expires_at = rec[n].expires_at)
    PROVE  PaysForYears
  <1>1. TermsKept
    BY DEF TermsKept, Put, Exists, NamesTypeOK
  <1> QED BY <1>1, KeptFree

\* A record written for y more years, and paid for.
LEMMA PutPaidFor ==
    ASSUME NamesTypeOK, NEW n \in Names, NEW s, Put(n, s), NEW y, ValidYears(y),
           s.expires_at = (IF Exists(n) THEN Later(rec[n].expires_at, now) ELSE now) + y * Year,
           PaidInUsdc(YearlyPrice(n) * y) \/ PaidInSolans(YearlyPrice(n) * y)
    PROVE  PaysForYears
  <1> DEFINE base == IF Exists(n) THEN Later(rec[n].expires_at, now) ELSE now
             price == YearlyPrice(n)
  <1>1. base \in Nat
    BY EnvironmentFacts DEF Later, NamesTypeOK, NameRecord
  <1>2. y \in Nat \ {0} /\ price \in Nat \ {0}
    BY EnvironmentFacts, TermPositive, PricePositive
  <1>3. /\ rec'[n] = s /\ \A k \in Names \ {n} : rec'[k] = rec[k]
    BY DEF Put, NamesTypeOK
  <1>4. YearsAdded(n) = y
    BY <1>1, <1>2, <1>3, WholeYears DEF YearsAdded
  <1>5. price * y > 0
    BY <1>2, Z3
  <1>6. ASSUME NEW k \in Names, TopLevel(k), Exists(k)',
               Exists(k) => rec'[k].expires_at # rec[k].expires_at
        PROVE  k = n
    BY <1>3, <1>6 DEF Exists
  <1> QED BY <1>4, <1>5, <1>6 DEF PaysForYears

\* Registration, renewal, claim and burn.
LEMMA LifecyclePaid ==
    ASSUME NamesTypeOK, Lifecycle
    PROVE  PaysForYears
  <1> USE TermsNat, MoneyAssumption
  <1>0. LedgerOK
    BY EnvironmentFacts
  <1>1. ASSUME NEW n \in Names, NEW y \in Nat, NEW p \in Wallets, NEW f \in Wallets \cup {Nil},
               DistributeFee(p, f, YearlyPrice(n) * y)
        PROVE  PaidInUsdc(YearlyPrice(n) * y)
    <2>1. YearlyPrice(n) * y \in Nat
      BY EnvironmentFacts, TimesNat
    <2> QED BY <1>0, <1>1, <2>1, FeeReachesVaults
  <1>2. ASSUME NEW p \in Wallets, NEW fee, solans_enabled(config),
               BurnSolans(p, solans_fee(config.solans, fee))
        PROVE  PaidInSolans(fee)
    BY <1>2 DEF BurnSolans, PaidInSolans
  <1>3. ASSUME NEW n \in Names, NEW w, NEW y,
               Exists(n) => now > rec[n].expires_at + config.params.grace_period
        PROVE  init_top_level_record(w, now + y * Year).expires_at
                 = (IF Exists(n) THEN Later(rec[n].expires_at, now) ELSE now) + y * Year
    <2>1. now \in Nat /\ config.params.grace_period \in Nat
      BY <1>0, LedgerFacts DEF NamesTypeOK, Params, ValidParams
    <2>2. Exists(n) => Later(rec[n].expires_at, now) = now
      BY <1>3, <2>1, EnvironmentFacts DEF NameRecord, Later
    <2> QED BY <2>2 DEF init_top_level_record
  <1>4. ASSUME NEW n \in Names, NEW y, Exists(n)
        PROVE  Renewed(rec[n], y).expires_at
                 = (IF Exists(n) THEN Later(rec[n].expires_at, now) ELSE now) + y * Year
    BY <1>4, EnvironmentFacts DEF Renewed, NameRecord
  <1>5. ASSUME NEW n \in Names, NEW p \in Wallets, NEW w \in Wallets, NEW y \in Terms,
               NEW f \in Referrers \cup {Nil}, RegisterName(p, w, n, y, f)
        PROVE  PaysForYears
    BY <1>1, <1>3, <1>5, PutPaidFor DEF RegisterName
  <1>6. ASSUME NEW n \in Names, NEW w \in Wallets, NEW y \in Terms,
               NEW f \in Referrers \cup {Nil}, RenewName(w, n, y, f)
        PROVE  PaysForYears
    BY <1>1, <1>4, <1>6, PutPaidFor DEF RenewName
  <1>7. ASSUME NEW n \in Names, NEW w \in Wallets, NEW y \in Terms,
               NEW f \in Referrers \cup {Nil}, ClaimExpired(w, n, y, f)
        PROVE  PaysForYears
    <2>1. Put(n, init_top_level_record(w, now + y * Year)) /\ ValidYears(y)
      BY <1>7 DEF ClaimExpired
    <2>2. PaidInUsdc(YearlyPrice(n) * y)
      BY <1>1, <1>7 DEF ClaimExpired
    <2>3. init_top_level_record(w, now + y * Year).expires_at
            = (IF Exists(n) THEN Later(rec[n].expires_at, now) ELSE now) + y * Year
      BY <1>3, <1>7 DEF ClaimExpired
    <2> QED BY <2>1, <2>2, <2>3, PutPaidFor
  <1>8. ASSUME NEW n \in Names, NEW p \in Wallets, NEW w \in Wallets, NEW y \in Terms,
               RegisterWithSolans(p, w, n, y)
        PROVE  PaysForYears
    BY <1>2, <1>3, <1>8, PutPaidFor DEF RegisterWithSolans
  <1>9. ASSUME NEW n \in Names, NEW w \in Wallets, NEW y \in Terms, RenewWithSolans(w, n, y)
        PROVE  PaysForYears
    BY <1>2, <1>4, <1>9, PutPaidFor DEF RenewWithSolans
  <1>10. ASSUME NEW n \in Names, AutoRenew(n)
         PROVE  PaysForYears
    <2>1. rec[n].owner \in Wallets /\ YearlyPrice(n) \in Nat /\ Exists(n)
      BY <1>10, EnvironmentFacts DEF AutoRenew, NameRecord
    <2>2. YearlyPrice(n) * 1 = YearlyPrice(n)
      BY <2>1
    <2>3. PaidInUsdc(YearlyPrice(n) * 1)
      BY <1>1, <1>10, <2>1, <2>2 DEF AutoRenew
    <2> QED BY <1>4, <1>10, <2>1, <2>3, PutPaidFor DEF AutoRenew
  <1>11. ASSUME NEW n \in Names, NEW w \in Wallets, BurnName(w, n)
         PROVE  PaysForYears
    BY <1>11, PutTermsKept DEF BurnName
  <1> QED BY <1>5, <1>6, <1>7, <1>8, <1>9, <1>10, <1>11 DEF Lifecycle

\* The managing instructions write the expiry back, close a record, or create
\* a subdomain.
LEMMA ManagementPaid ==
    ASSUME NamesTypeOK, Management
    PROVE  PaysForYears
  <1>0. \A n \in Names : Exists(n) => rec[n] \in NameRecord
    BY EnvironmentFacts
  <1>1. ASSUME NEW w \in Wallets, NEW n \in Names, NEW v,
               TransferName(w, n, v) \/ RedeemName(w, n)
        PROVE  PaysForYears
    <2>1. rec[n] \in NameRecord /\ Exists(n)
      BY <1>0, <1>1 DEF TransferName, RedeemName, OwnerGate
    <2>2. /\ Handover(rec[n], v).expires_at = rec[n].expires_at
          /\ WithMint(Handover(rec[n], w), Nil).expires_at = rec[n].expires_at
      BY <2>1 DEF Handover, WithMint, NameRecord
    <2> QED BY <1>1, <2>1, <2>2, PutTermsKept DEF TransferName, RedeemName
  <1>2. ASSUME NEW w \in Wallets, NEW n \in Names, NEW x,
               LockTransfer(w, n, x) \/ SetController(w, n, x) \/ SetReverse(w, n)
               \/ TokenizeName(w, n, x)
        PROVE  PaysForYears
    <2>1. rec[n] \in NameRecord /\ Exists(n)
      BY <1>0, <1>2 DEF LockTransfer, SetController, SetReverse, TokenizeName, OwnerGate
    <2>2. /\ WithLock(rec[n], x).expires_at = rec[n].expires_at
          /\ WithController(rec[n], x).expires_at = rec[n].expires_at
          /\ WithReverse(rec[n]).expires_at = rec[n].expires_at
          /\ WithMint(rec[n], x).expires_at = rec[n].expires_at
      BY <2>1 DEF WithLock, WithController, WithReverse, WithMint, NameRecord
    <2> QED BY <1>2, <2>1, <2>2, PutTermsKept
            DEF LockTransfer, SetController, SetReverse, TokenizeName
  <1>3. ASSUME NEW w \in Wallets, NEW n \in Names, NEW x, NEW k,
               SetResolver(w, n, x) \/ SetHosting(w, n, x) \/ UpdateRecord(w, n, k, x)
        PROVE  PaysForYears
    <2>1. rec[n] \in NameRecord /\ Exists(n)
      BY <1>0, <1>3 DEF SetResolver, SetHosting, UpdateRecord
    <2>2. /\ WithResolver(rec[n], x).expires_at = rec[n].expires_at
          /\ WithHosting(rec[n], x).expires_at = rec[n].expires_at
          /\ WithRecord(rec[n], k, x).expires_at = rec[n].expires_at
      BY <2>1 DEF WithResolver, WithHosting, WithRecord, NameRecord
    <2> QED BY <1>3, <2>1, <2>2, PutTermsKept DEF SetResolver, SetHosting, UpdateRecord
  <1>4. ASSUME NEW w \in Wallets, NEW n \in Names, NEW c \in Names, NEW v \in Wallets,
               WrapSubdomain(w, n, c, v)
        PROVE  PaysForYears
    <2>1. ~TopLevel(c) /\ \E s : Put(c, s)
      BY <1>4, RegistryAssumption DEF WrapSubdomain, TopLevel
    <2> QED BY <2>1, PutTermsKept
  <1>5. ASSUME NEW w \in Wallets, NEW n \in Names, RevokeSubdomain(w, n)
        PROVE  PaysForYears
    BY <1>5, PutTermsKept DEF RevokeSubdomain
  <1> QED BY <1>1, <1>2, <1>3, <1>4, <1>5, Zenon DEF Management

\* The clock, spl-token approve, NFT trades and governance.
LEMMA NamesPaid ==
    ASSUME NamesTypeOK, NamesNext
    PROVE  PaysForYears
  <1>1. ASSUME Environment \/ Govern PROVE PaysForYears
    BY <1>1, UntouchedTerms DEF Environment, Tick, Approve, TradeNft, Govern, registryVars
  <1> QED BY <1>1, LifecyclePaid, ManagementPaid DEF NamesNext

\* The marketplace sells names for the rest of their term.
LEMMA MarketPaid ==
    ASSUME MarketInv, Trading \/ Auctions
    PROVE  PaysForYears
  <1>1. NamesTypeOK /\ \A n \in Names : Exists(n) => rec[n] \in NameRecord
    BY MarketFacts
  <1>2. ASSUME NEW n \in Names, Exists(n), NEW v,
               \/ Put(n, Listed(rec[n])) \/ Put(n, Unlisted(rec[n]))
               \/ Put(n, Handover(rec[n], v)) \/ Put(n, Unlisted(Handover(rec[n], v)))
        PROVE  PaysForYears
    <2>1. /\ Listed(rec[n]).expires_at = rec[n].expires_at
          /\ Unlisted(rec[n]).expires_at = rec[n].expires_at
          /\ Handover(rec[n], v).expires_at = rec[n].expires_at
          /\ Unlisted(Handover(rec[n], v)).expires_at = rec[n].expires_at
      BY <1>1, <1>2 DEF Listed, Unlisted, Handover, NameRecord
    <2> QED BY <1>1, <1>2, <2>1, PutTermsKept
  <1>3. ASSUME NEW w \in Wallets, NEW n \in Names, NEW p, NEW d,
               ListName(w, n, p, d) \/ AcceptOffer(w, n, p) \/ CancelListing(w, n)
               \/ BuyName(w, n, p)
        PROVE  PaysForYears
    BY <1>2, <1>3, UntouchedTerms
       DEF ListName, AcceptOffer, CancelListing, BuyName, OwnerGate, namesVars, registryVars
  <1>4. ASSUME NEW w, NEW n, NEW p, NEW d,
               UpdateListing(w, n, p, d) \/ MakeOffer(w, n, p, d) \/ CancelOffer(w, n, p)
        PROVE  PaysForYears
    BY <1>4, UntouchedTerms DEF UpdateListing, MakeOffer, CancelOffer, namesVars, registryVars
  <1>5. ASSUME NEW w, NEW n \in Names, NEW r, NEW i, NEW d,
               StartAuction(w, n, r, i, d) \/ CancelAuction(w, n)
        PROVE  PaysForYears
    BY <1>2, <1>5 DEF StartAuction, CancelAuction, OwnerGate
  <1>6. ASSUME NEW w, NEW n, NEW x, Bid(w, n, x) PROVE PaysForYears
    BY <1>6, UntouchedTerms DEF Bid, registryVars
  <1>7. ASSUME NEW n \in Names, SettleAuction(n) PROVE PaysForYears
    BY <1>2, <1>7 DEF SettleAuction, SettleWithWinner, SettleWithoutBid
  <1> QED BY <1>3, <1>4, <1>5, <1>6, <1>7 DEF Trading, Auctions

\* Every year of every name is paid for, in the payment mint or by burning
\* $SOLANS, on whichever path it is added (register_name, renew_name,
\* auto_renew, claim_expired and the pay-in-$SOLANS pair).
THEOREM YearsArePaidFor == Spec => YearsPaidFor
  <1>1. MarketInv /\ Next => PaysForYears
    BY NamesPaid, MarketPaid, MarketFacts DEF Next
  <1>2. ASSUME UNCHANGED vars PROVE UNCHANGED namesVars
    BY <1>2 DEF vars
  <1>3. MarketInv /\ [Next]_vars => [PaysForYears]_namesVars
    BY <1>1, <1>2
  <1> QED BY <1>3, Invariance, PTL DEF Spec, YearsPaidFor
=============================================================================
