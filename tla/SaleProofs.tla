----------------------------- MODULE SaleProofs -----------------------------
(***************************************************************************)
(* The marketplace implements delivery versus payment (module AtomicSale), *)
(* for every value of the constants: one lemma per instruction says which  *)
(* abstract step, or none, it is.                                          *)
(***************************************************************************)
EXTENDS Sales, MarketProofs

\* What a settlement relies on besides MarketInv: a standing bid is above 0
\* and not the seller's own (the guards of bid).
BidStanding ==
    \A n \in Names : auction[n] # Nil /\ auction[n].highest_bidder # Nil =>
        /\ auction[n].highest_bid > 0
        /\ auction[n].highest_bidder # auction[n].seller

SaleInv == MarketInv /\ BidStanding

\* A step of AtomicSale.
SaleStep == [DeliveryVersusPayment!SaleNext]_(DeliveryVersusPayment!saleVars)

-----------------------------------------------------------------------------
(* What a wallet holds. *)

\* Holdings are natural numbers that cover the purse and what is held on one
\* name.
LEMMA HoldingsNat ==
    ASSUME NEW purse \in [Wallets -> Nat], NEW held \in [Names -> [Wallets -> Nat]]
    PROVE  /\ Holdings(purse, held) \in [Wallets -> Nat]
           /\ \A w \in Wallets, n \in Names :
                 purse[w] + held[n][w] <= Holdings(purse, held)[w]
  <1>1. ASSUME NEW w \in Wallets
        PROVE  /\ Holdings(purse, held)[w] \in Nat
               /\ \A n \in Names : purse[w] + held[n][w] <= Holdings(purse, held)[w]
    <2> DEFINE f == [n \in Names |-> held[n][w]]
    <2>1. f \in [Names -> Nat] /\ purse[w] \in Nat
      OBVIOUS
    <2>2. Holdings(purse, held)[w] = purse[w] + SumFunction(f)
      BY DEF Holdings
    <2>3. \A n \in Names : f[n] = held[n][w]
      OBVIOUS
    <2> HIDE DEF f
    <2>4. SumFunction(f) \in Nat
      BY <2>1, SalesAssumption, SumIn
    <2>5. \A n \in Names : f[n] <= SumFunction(f) /\ f[n] \in Nat
      BY <2>1, SalesAssumption, SumCovers
    <2> QED BY <2>1, <2>2, <2>3, <2>4, <2>5
  <1>2. Holdings(purse, held) = [w \in Wallets |-> Holdings(purse, held)[w]]
    BY DEF Holdings
  <1> QED BY <1>1, <1>2

\* Balances before and after a step, which changes what is held on name n alone.
DifferOn(purse, held, purse2, held2, n) ==
    /\ purse \in [Wallets -> Nat] /\ held \in [Names -> [Wallets -> Nat]]
    /\ purse2 \in [Wallets -> Nat] /\ held2 \in [Names -> [Wallets -> Nat]]
    /\ n \in Names /\ \A k \in Names \ {n} : held2[k] = held[k]

\* Holdings move with the purse and with what is held on the one name a step
\* is about.
LEMMA HoldingsMove ==
    ASSUME NEW purse, NEW held, NEW purse2, NEW held2, NEW n,
           DifferOn(purse, held, purse2, held2, n), NEW w \in Wallets
    PROVE  Holdings(purse2, held2)[w]
             = Holdings(purse, held)[w] + (purse2[w] - purse[w]) + (held2[n][w] - held[n][w])
  <1> USE DEF DifferOn
  <1> DEFINE f == [k \in Names |-> held[k][w]]
             h == [k \in Names |-> held2[k][w]]
  <1>1. f \in [Names -> Int] /\ h \in [Names -> Int] /\ f \in [Names -> Nat]
    OBVIOUS
  <1>2. \A k \in Names \ {n} : h[k] = f[k]
    OBVIOUS
  <1>3. f[n] = held[n][w] /\ h[n] = held2[n][w]
    OBVIOUS
  <1>4. /\ Holdings(purse, held)[w] = purse[w] + SumFunction(f)
        /\ Holdings(purse2, held2)[w] = purse2[w] + SumFunction(h)
    BY DEF Holdings
  <1> HIDE DEF f, h
  <1>5. SumFunction(h) = SumFunction(f) + h[n] - f[n]
    BY <1>1, <1>2, SalesAssumption, SumMoves
  <1>6. SumFunction(f) \in Nat
    BY <1>1, SalesAssumption, SumIn
  <1>7. held[n][w] \in Nat /\ held2[n][w] \in Nat /\ purse[w] \in Nat /\ purse2[w] \in Nat
    OBVIOUS
  <1> QED BY <1>3, <1>4, <1>5, <1>6, <1>7

\* Holdings are a function of the wallets.
LEMMA HoldingsFunction ==
    ASSUME NEW purse, NEW held
    PROVE  Holdings(purse, held) = [w \in Wallets |-> Holdings(purse, held)[w]]
  BY DEF Holdings

\* A step that gives each wallet in its purse what it takes from what is held
\* for it leaves the holdings alone.
LEMMA HoldingsStill ==
    ASSUME NEW purse, NEW held, NEW purse2, NEW held2, NEW n,
           DifferOn(purse, held, purse2, held2, n),
           \A w \in Wallets : purse2[w] + held2[n][w] = purse[w] + held[n][w]
    PROVE  Holdings(purse2, held2) = Holdings(purse, held)
  <1>1. ASSUME NEW w \in Wallets
        PROVE  Holdings(purse2, held2)[w] = Holdings(purse, held)[w]
    <2>1. Holdings(purse2, held2)[w]
             = Holdings(purse, held)[w] + (purse2[w] - purse[w]) + (held2[n][w] - held[n][w])
      BY HoldingsMove
    <2>2. /\ held[n][w] \in Nat /\ held2[n][w] \in Nat /\ purse[w] \in Nat /\ purse2[w] \in Nat
          /\ Holdings(purse, held)[w] \in Nat
      BY HoldingsNat DEF DifferOn
    <2>3. purse2[w] + held2[n][w] = purse[w] + held[n][w]
      OBVIOUS
    <2> DEFINE t == Holdings(purse, held)[w]
               p == purse[w]
               q == purse2[w]
               h == held[n][w]
               k == held2[n][w]
    <2>4. t \in Nat /\ p \in Nat /\ q \in Nat /\ h \in Nat /\ k \in Nat /\ q + k = p + h
      BY <2>2, <2>3
    <2>5. Holdings(purse2, held2)[w] = t + (q - p) + (k - h)
      BY <2>1
    <2> HIDE DEF t, p, q, h, k
    <2>6. t + (q - p) + (k - h) = t
      BY <2>4
    <2> QED BY <2>5, <2>6 DEF t
  <1> QED BY <1>1, HoldingsFunction

-----------------------------------------------------------------------------
(* The steps of the abstract specification, in terms of the mapping. *)

\* A step that leaves the abstract state alone is a stutter.
LEMMA Stutter ==
    ASSUME UNCHANGED <<Title, Term, Consignor, Wealth, Tokens, usdc>>
    PROVE  SaleStep
  BY DEF SaleStep, DeliveryVersusPayment!saleVars

\* Withdrawing a name from auction.
LEMMA Withdrawn ==
    ASSUME NEW n \in Names, Consignor' = [Consignor EXCEPT ![n] = Nil],
           UNCHANGED <<Title, Term, Wealth, Tokens, usdc>>
    PROVE  SaleStep
  BY DEF SaleStep, DeliveryVersusPayment!SaleNext, DeliveryVersusPayment!Withdraw

\* Consigning a name for auction.
LEMMA Consigned ==
    ASSUME NEW n \in Names, Title[n] # Nil, Consignor[n] = Nil,
           Consignor' = [Consignor EXCEPT ![n] = Title[n]],
           UNCHANGED <<Title, Term, Wealth, Tokens, usdc>>
    PROVE  SaleStep
  BY DEF SaleStep, DeliveryVersusPayment!SaleNext, DeliveryVersusPayment!Consign

\* Selling a name for SOL.
LEMMA Sold ==
    ASSUME NEW n \in Names, NEW buyer \in Wallets, NEW treasury \in Wallets,
           NEW price \in 0..Wealth[buyer], NEW fee \in 0..MostFee(price),
           Title[n] \notin {Nil, buyer},
           Title' = [Title EXCEPT ![n] = buyer],
           Wealth' = [[[Wealth EXCEPT ![buyer] = @ - price]
                                 EXCEPT ![Title[n]] = @ + (price - fee)]
                                 EXCEPT ![treasury] = @ + fee],
           UNCHANGED <<Term, Consignor, Tokens, usdc>>
    PROVE  SaleStep
  <1>1. DeliveryVersusPayment!Sell(n, buyer)
    BY Zenon DEF DeliveryVersusPayment!Sell
  <1> QED BY <1>1 DEF SaleStep, DeliveryVersusPayment!SaleNext

\* Selling a consigned name for $SOLANS.
LEMMA KnockedDown ==
    ASSUME NEW n \in Names, NEW buyer \in Wallets,
           NEW price \in 1..Tokens[buyer], NEW fee \in 0..MostFee(price),
           Consignor[n] \notin {Nil, buyer}, Title[n] # Nil,
           Title' = [Title EXCEPT ![n] = buyer],
           Consignor' = [Consignor EXCEPT ![n] = Nil],
           Tokens' = [[Tokens EXCEPT ![buyer] = @ - price]
                                EXCEPT ![Consignor[n]] = @ + (price - fee)],
           UNCHANGED <<Term, Wealth, usdc>>
    PROVE  SaleStep
  <1>1. DeliveryVersusPayment!Knockdown(n, buyer)
    BY DEF DeliveryVersusPayment!Knockdown
  <1> QED BY <1>1 DEF SaleStep, DeliveryVersusPayment!SaleNext

\* Conveying a name, free of charge, against cash or against burned $SOLANS.
LEMMA Conveyed ==
    ASSUME NEW n \in Names, NEW v \in Wallets \cup {Nil},
           Title' = [Title EXCEPT ![n] = v],
           \A k \in Names \ {n} : Term'[k] = Term[k],
           \/ UNCHANGED <<Tokens, usdc>>
           \/ /\ Term'[n] > Term[n]
              /\ \E w \in Wallets :
                    \/ (\A y \in Wallets \ {w} : usdc'[y] >= usdc[y]) /\ UNCHANGED Tokens
                    \/ /\ \E burned \in 0..Tokens[w] :
                             Tokens' = [Tokens EXCEPT ![w] = @ - burned]
                       /\ UNCHANGED usdc,
           UNCHANGED <<Consignor, Wealth>>
    PROVE  SaleStep
  <1>1. DeliveryVersusPayment!Convey(n)
    BY DEF DeliveryVersusPayment!Convey, DeliveryVersusPayment!PaidBy,
           DeliveryVersusPayment!Burn
  <1> QED BY <1>1 DEF SaleStep, DeliveryVersusPayment!SaleNext

\* Burning $SOLANS against cash.
LEMMA Redeemed ==
    ASSUME NEW w \in Wallets, NEW burned \in 0..Tokens[w],
           Tokens' = [Tokens EXCEPT ![w] = @ - burned],
           usdc'[w] > usdc[w], \A v \in Wallets \ {w} : usdc'[v] = usdc[v],
           UNCHANGED <<Title, Term, Consignor, Wealth>>
    PROVE  SaleStep
  <1>1. DeliveryVersusPayment!Redeem(w)
    BY DEF DeliveryVersusPayment!Redeem, DeliveryVersusPayment!Burn
  <1> QED BY <1>1 DEF SaleStep, DeliveryVersusPayment!SaleNext

-----------------------------------------------------------------------------
(* The registry's own steps convey a name, or nothing. *)

\* Writing the record of one name conveys that name alone.
LEMMA OneName ==
    ASSUME NamesTypeOK, NamesTypeOK', NEW n \in Names, NEW s, Put(n, s)
    PROVE  /\ \E v \in Wallets \cup {Nil} : Title' = [Title EXCEPT ![n] = v]
           /\ \A k \in Names \ {n} : Term'[k] = Term[k]
           /\ Term'[n] = (IF s = Nil THEN 0 ELSE s.expires_at)
  <1>1. rec \in [Names -> NameRecord \cup {Nil}] /\ rec' \in [Names -> NameRecord \cup {Nil}]
    BY DEF NamesTypeOK
  <1>2. rec' = [rec EXCEPT ![n] = s]
    BY DEF Put
  <1>3. rec'[n] = s /\ \A k \in Names \ {n} : rec'[k] = rec[k]
    BY <1>1, <1>2
  <1> DEFINE v == IF s = Nil THEN Nil ELSE s.owner
  <1>4. v \in Wallets \cup {Nil}
    <2>1. s \in NameRecord \cup {Nil}
      BY <1>1, <1>3
    <2> QED BY <2>1 DEF NameRecord
  <1>5. Title' = [Title EXCEPT ![n] = v]
    BY <1>3 DEF Title, Exists
  <1> HIDE DEF v
  <1>6. /\ \A k \in Names \ {n} : Term'[k] = Term[k]
        /\ Term'[n] = (IF s = Nil THEN 0 ELSE s.expires_at)
    BY <1>3 DEF Term, Exists
  <1> QED BY <1>4, <1>5, <1>6

\* The sale accounts left alone.
LEMMA MarketStill ==
    ASSUME UNCHANGED marketVars
    PROVE  Consignor' = Consignor /\ Wealth' = Wealth /\ (solans' = solans => Tokens' = Tokens)
  BY DEF marketVars, Consignor, Wealth, Tokens

\* A record written free of charge.
LEMMA FreeConvey ==
    ASSUME NamesTypeOK, NamesTypeOK', NEW n \in Names, NEW s, Put(n, s),
           UNCHANGED <<usdc, solans>>, UNCHANGED marketVars
    PROVE  SaleStep
  <1>1. PICK v \in Wallets \cup {Nil} : Title' = [Title EXCEPT ![n] = v]
    BY OneName
  <1>2. \A k \in Names \ {n} : Term'[k] = Term[k]
    BY OneName
  <1> QED BY <1>1, <1>2, MarketStill, Conveyed

\* A longer term paid for in the payment mint.
LEMMA CashConvey ==
    ASSUME NamesTypeOK, NamesTypeOK', NEW n \in Names, NEW s, Put(n, s),
           s # Nil, s.expires_at > Term[n], NEW payer \in Wallets,
           \A y \in Wallets \ {payer} : usdc'[y] >= usdc[y], solans' = solans,
           UNCHANGED marketVars
    PROVE  SaleStep
  <1>1. PICK v \in Wallets \cup {Nil} : Title' = [Title EXCEPT ![n] = v]
    BY OneName
  <1>2. \A k \in Names \ {n} : Term'[k] = Term[k]
    BY OneName
  <1>3. Term'[n] > Term[n]
    BY OneName
  <1> QED BY <1>1, <1>2, <1>3, MarketStill, Conveyed

\* What the type invariant says of the $SOLANS.
LEMMA TokensType ==
    ASSUME MarketInv
    PROVE  solans \in [Wallets -> Nat] /\ BidsHeld(auction) \in [Names -> [Wallets -> Nat]]
  <1>1. \A n \in Names : auction[n] # Nil => auction[n].highest_bid \in Nat
    BY MarketFacts DEF Auction
  <1> QED BY <1>1, MarketFacts DEF BidsHeld, LedgerOK, MoneyTypeOK

\* Spending from the purse takes it out of the holdings.
LEMMA PurseSpent ==
    ASSUME NEW purse \in [Wallets -> Nat], NEW held \in [Names -> [Wallets -> Nat]],
           NEW w \in Wallets, NEW x \in 0..purse[w]
    PROVE  /\ Holdings([purse EXCEPT ![w] = @ - x], held) = [Holdings(purse, held) EXCEPT ![w] = @ - x]
           /\ x \in 0..Holdings(purse, held)[w]
  <1>1. ASSUME NEW v \in Wallets
        PROVE  /\ SumFunction([n \in Names |-> held[n][v]]) \in Nat
               /\ Holdings(purse, held)[v] = purse[v] + SumFunction([n \in Names |-> held[n][v]])
    <2>1. [n \in Names |-> held[n][v]] \in [Names -> Nat]
      OBVIOUS
    <2> QED BY <2>1, SalesAssumption, SumIn DEF Holdings
  <1>2. x \in 0..Holdings(purse, held)[w]
    <2> DEFINE t == SumFunction([n \in Names |-> held[n][w]])
               h == Holdings(purse, held)[w]
    <2>1. t \in Nat /\ h = purse[w] + t /\ purse[w] \in Nat
      BY <1>1
    <2> HIDE DEF t, h
    <2>2. x \in 0..h
      BY <2>1
    <2> QED BY <2>2 DEF h
  <1> DEFINE q == [purse EXCEPT ![w] = @ - x]
             r == [Holdings(purse, held) EXCEPT ![w] = @ - x]
  <1>3. ASSUME NEW v \in Wallets PROVE Holdings(q, held)[v] = r[v]
    <2>1. Holdings(q, held)[v] = q[v] + SumFunction([n \in Names |-> held[n][v]])
      BY DEF Holdings
    <2>2. r[v] = IF v = w THEN Holdings(purse, held)[v] - x ELSE Holdings(purse, held)[v]
      BY HoldingsFunction
    <2>3. q[v] = IF v = w THEN purse[v] - x ELSE purse[v]
      OBVIOUS
    <2> HIDE DEF q, r
    <2>4. x \in Nat /\ purse[v] \in Nat
      OBVIOUS
    <2> QED BY <1>1, <2>1, <2>2, <2>3, <2>4
  <1>4. r = [v \in Wallets |-> r[v]]
    BY HoldingsFunction
  <1>5. Holdings(q, held) = r
    <2> HIDE DEF q, r
    <2> QED BY <1>3, <1>4, HoldingsFunction
  <1> QED BY <1>2, <1>5

\* Burning $SOLANS from a purse takes them out of what the wallet holds.
LEMMA TokensBurned ==
    ASSUME MarketInv, NEW w \in Wallets, NEW x \in 0..solans[w],
           solans' = [solans EXCEPT ![w] = @ - x], auction' = auction
    PROVE  Tokens' = [Tokens EXCEPT ![w] = @ - x] /\ x \in 0..Tokens[w]
  <1> DEFINE held == BidsHeld(auction)
  <1>1. solans \in [Wallets -> Nat] /\ held \in [Names -> [Wallets -> Nat]]
    BY TokensType
  <1>2. Tokens = Holdings(solans, held) /\ Tokens' = Holdings([solans EXCEPT ![w] = @ - x], held)
    BY DEF Tokens
  <1> HIDE DEF held
  <1>3. /\ Holdings([solans EXCEPT ![w] = @ - x], held)
             = [Holdings(solans, held) EXCEPT ![w] = @ - x]
        /\ x \in 0..Holdings(solans, held)[w]
    BY <1>1, PurseSpent
  <1> QED BY <1>2, <1>3

\* A longer term paid for by burning $SOLANS.
LEMMA BurnConvey ==
    ASSUME MarketInv, NamesTypeOK', NEW n \in Names, NEW s, Put(n, s),
           s # Nil, s.expires_at > Term[n], NEW payer \in Wallets, NEW x \in Nat,
           BurnSolans(payer, x), UNCHANGED marketVars
    PROVE  SaleStep
  <1>0. NamesTypeOK
    BY MarketFacts
  <1>1. PICK v \in Wallets \cup {Nil} : Title' = [Title EXCEPT ![n] = v]
    BY <1>0, OneName
  <1>2. \A k \in Names \ {n} : Term'[k] = Term[k]
    BY <1>0, OneName
  <1>3. Term'[n] > Term[n]
    BY <1>0, OneName
  <1>4. x \in 0..solans[payer] /\ solans' = [solans EXCEPT ![payer] = @ - x] /\ usdc' = usdc
    BY TokensType DEF BurnSolans
  <1>5. x \in 0..Tokens[payer] /\ Tokens' = [Tokens EXCEPT ![payer] = @ - x]
    BY <1>4, TokensBurned DEF marketVars
  <1> QED BY <1>1, <1>2, <1>3, <1>4, <1>5, MarketStill, Conveyed

\* Nobody but the payer of a fee ends up with less.
LEMMA FeePayer ==
    ASSUME LedgerOK, NEW payer \in Wallets, NEW referrer \in Wallets \cup {Nil},
           NEW amount \in Nat, DistributeFee(payer, referrer, amount)
    PROVE  (\A y \in Wallets \ {payer} : usdc'[y] >= usdc[y]) /\ solans' = solans
  <1> DEFINE s == fee_split(config.params, amount)
             referral == IF referrer = Nil THEN 0 ELSE s.referral
             treasury == IF referrer = Nil THEN s.treasury + s.referral ELSE s.treasury
  <1>1. referral \in Nat
    BY FeeSplitExact, LedgerFacts DEF LedgerOK
  <1>2. /\ usdc' = [w \in Wallets |->
                      usdc[w] - (IF w = payer THEN s.staking + s.burn + referral + treasury ELSE 0)
                              + (IF w = referrer THEN referral ELSE 0)]
        /\ solans' = solans
    BY DEF DistributeFee
  <1>3. usdc \in [Wallets -> Nat]
    BY DEF LedgerOK, MoneyTypeOK
  <1> HIDE DEF s, referral, treasury
  <1>4. \A y \in Wallets \ {payer} : usdc'[y] = usdc[y] + (IF y = referrer THEN referral ELSE 0)
    BY <1>1, <1>2, <1>3
  <1> QED BY <1>1, <1>2, <1>3, <1>4

\* A term of at least one year is at least one tick.
LEMMA TermPositive ==
    ASSUME LedgerOK, NEW y, ValidYears(y)
    PROVE  y \in Nat \ {0} /\ y * Year \in Nat \ {0}
  <1>1. /\ config.params.min_years \in Nat /\ config.params.max_years \in Nat
        /\ 1 <= config.params.min_years
    BY LedgerFacts DEF LedgerOK, ValidParams, Params
  <1>2. y \in Nat \ {0}
    BY <1>1 DEF ValidYears
  <1>3. Year \in Nat \ {0}
    BY RegistryAssumption
  <1>4. y * Year \in Nat /\ y * Year # 0
    BY <1>2, <1>3, Z3
  <1> QED BY <1>2, <1>4

\* A fresh top-level record outlasts what it replaces: nothing, or a lapsed one.
LEMMA FreshTerm ==
    ASSUME NamesTypeOK, NEW w \in Wallets, NEW n \in Names, NEW y \in Nat, ValidYears(y),
           Exists(n) => now > rec[n].expires_at + config.params.grace_period
    PROVE  LET s == init_top_level_record(w, now + y * Year) IN
           s # Nil /\ s.expires_at > Term[n]
  <1> DEFINE z == y * Year
             s == init_top_level_record(w, now + z)
  <1>1. z \in Nat \ {0}
    BY TermPositive, EnvironmentFacts
  <1>2. now \in Nat /\ config.params.grace_period \in Nat
    BY EnvironmentFacts, LedgerFacts DEF NamesTypeOK, Params, ValidParams
  <1>3. s # Nil
    BY <1>2, TopLevelFacts, RecordAssumption DEF Fresh
  <1> HIDE DEF z
  <1>4. s.expires_at = now + z
    BY DEF init_top_level_record
  <1>5. Term[n] < now + z
    <2>1. CASE ~Exists(n)
      BY <1>1, <1>2, <2>1 DEF Term
    <2>2. CASE Exists(n)
      <3>1. rec[n].expires_at \in Nat /\ Term[n] = rec[n].expires_at
        BY <2>2, EnvironmentFacts DEF Term, NameRecord
      <3> QED BY <1>1, <1>2, <2>2, <3>1
    <2> QED BY <2>1, <2>2
  <1>6. Term[n] \in Nat
    BY EnvironmentFacts DEF Term, NameRecord
  <1> QED BY <1>1, <1>2, <1>3, <1>4, <1>5, <1>6 DEF z

\* A renewed record lasts longer.
LEMMA RenewedTerm ==
    ASSUME NamesTypeOK, NEW n \in Names, Exists(n), NEW y, ValidYears(y)
    PROVE  Renewed(rec[n], y) # Nil /\ Renewed(rec[n], y).expires_at > Term[n]
  <1> DEFINE z == y * Year
             e == Later(rec[n].expires_at, now) + z
  <1>1. y \in Nat /\ z \in Nat \ {0}
    BY TermPositive, EnvironmentFacts
  <1>2. now \in Nat /\ rec[n] \in NameRecord /\ rec[n].expires_at \in Nat
    BY EnvironmentFacts DEF NamesTypeOK, NameRecord
  <1>3. Renewed(rec[n], y) # Nil
    BY <1>1, <1>2, RenewedFacts, RecordAssumption DEF SameIdentity
  <1>4. Renewed(rec[n], y) = [rec[n] EXCEPT !.expires_at = e]
    BY DEF Renewed
  <1> HIDE DEF z
  <1>5. e > rec[n].expires_at
    BY <1>1, <1>2 DEF Later
  <1> HIDE DEF e
  <1>6. Renewed(rec[n], y).expires_at = e
    BY <1>2, <1>4 DEF NameRecord
  <1> QED BY <1>3, <1>5, <1>6 DEF Term

\* Registration, renewal and claim convey one name for a longer term, paid
\* for by one wallet; burning a name conveys it to nobody.
LEMMA LifecycleSale ==
    ASSUME MarketInv, NamesTypeOK', Lifecycle, UNCHANGED marketVars
    PROVE  SaleStep
  <1>0. NamesTypeOK /\ LedgerOK /\ RegistryInv
    BY MarketFacts
  <1> USE TermsNat, MoneyAssumption
  <1>1. ASSUME NEW n \in Names, NEW y \in Nat, NEW p \in Wallets, NEW f \in Wallets \cup {Nil},
               DistributeFee(p, f, YearlyPrice(n) * y)
        PROVE  (\A v \in Wallets \ {p} : usdc'[v] >= usdc[v]) /\ solans' = solans
    <2>1. YearlyPrice(n) * y \in Nat
      BY <1>0, EnvironmentFacts, TimesNat
    <2> QED BY <1>0, <1>1, <2>1, FeePayer
  <1>2. ASSUME NEW n \in Names, NEW y \in Nat
        PROVE  solans_fee(config.solans, YearlyPrice(n) * y) \in Nat
    <2>1. YearlyPrice(n) * y \in Nat
      BY <1>0, EnvironmentFacts, TimesNat
    <2> QED BY <1>0, <2>1, LedgerFacts, SolansFeeNat
  <1>3. ASSUME NEW n \in Names, NEW p \in Wallets, NEW w \in Wallets, NEW y \in Terms,
               NEW f \in Referrers \cup {Nil}, RegisterName(p, w, n, y, f)
        PROVE  SaleStep
    BY <1>0, <1>1, <1>3, FreshTerm, CashConvey DEF RegisterName
  <1>4. ASSUME NEW n \in Names, NEW w \in Wallets, NEW y \in Terms,
               NEW f \in Referrers \cup {Nil}, RenewName(w, n, y, f)
        PROVE  SaleStep
    BY <1>0, <1>1, <1>4, RenewedTerm, CashConvey DEF RenewName
  <1>5. ASSUME NEW n \in Names, NEW w \in Wallets, NEW y \in Terms,
               NEW f \in Referrers \cup {Nil}, ClaimExpired(w, n, y, f)
        PROVE  SaleStep
    BY <1>0, <1>1, <1>5, FreshTerm, CashConvey DEF ClaimExpired
  <1>6. ASSUME NEW n \in Names, NEW p \in Wallets, NEW w \in Wallets, NEW y \in Terms,
               RegisterWithSolans(p, w, n, y)
        PROVE  SaleStep
    BY <1>0, <1>2, <1>6, FreshTerm, BurnConvey DEF RegisterWithSolans
  <1>7. ASSUME NEW n \in Names, NEW w \in Wallets, NEW y \in Terms, RenewWithSolans(w, n, y)
        PROVE  SaleStep
    BY <1>0, <1>2, <1>7, RenewedTerm, BurnConvey DEF RenewWithSolans
  <1>8. ASSUME NEW n \in Names, AutoRenew(n)
        PROVE  SaleStep
    <2>1. rec[n].owner \in Wallets /\ YearlyPrice(n) \in Nat
      BY <1>0, <1>8, EnvironmentFacts DEF AutoRenew, NameRecord
    <2>2. (\A v \in Wallets \ {rec[n].owner} : usdc'[v] >= usdc[v]) /\ solans' = solans
      BY <1>0, <1>8, <2>1, FeePayer DEF AutoRenew
    <2> QED BY <1>0, <1>8, <2>1, <2>2, RenewedTerm, CashConvey DEF AutoRenew
  <1>9. ASSUME NEW n \in Names, NEW w \in Wallets, BurnName(w, n)
        PROVE  SaleStep
    BY <1>0, <1>9, FreeConvey DEF BurnName, OnlyRecord, moneyVars
  <1> QED BY <1>3, <1>4, <1>5, <1>6, <1>7, <1>8, <1>9 DEF Lifecycle

\* The managing instructions write one record, free of charge.
LEMMA ManagementSale ==
    ASSUME NamesTypeOK, NamesTypeOK', Management, UNCHANGED marketVars
    PROVE  SaleStep
  <1>1. ASSUME NEW n \in Names, NEW s, Put(n, s), UNCHANGED moneyVars
        PROVE  SaleStep
    BY <1>1, FreeConvey DEF moneyVars
  <1>2. PICK w \in Wallets, n \in Names :
          \/ \E v \in Wallets : TransferName(w, n, v)
          \/ \E lock \in BOOLEAN : LockTransfer(w, n, lock)
          \/ \E c \in Controllers \cup {Nil} : SetController(w, n, c)
          \/ \E r \in Resolvers \cup {Nil} : SetResolver(w, n, r)
          \/ \E h \in Hosts \cup {Nil} : SetHosting(w, n, h)
          \/ \E k \in Keys, v \in Values \cup {Nil} : UpdateRecord(w, n, k, v)
          \/ SetReverse(w, n)
          \/ \E m \in Mints : TokenizeName(w, n, m)
          \/ RedeemName(w, n)
          \/ \E child \in Names, v \in Wallets : WrapSubdomain(w, n, child, v)
          \/ RevokeSubdomain(w, n)
    BY DEF Management
  <1>3. \E k \in Names : \E s : Put(k, s) /\ UNCHANGED moneyVars
    BY <1>2, Zenon
       DEF TransferName, LockTransfer, SetController, SetResolver, SetHosting, UpdateRecord,
           SetReverse, TokenizeName, RedeemName, WrapSubdomain, RevokeSubdomain, OnlyRecord
  <1> QED BY <1>1, <1>3

\* Records, money and sale accounts left alone: nothing happens.
LEMMA NothingConveyed ==
    ASSUME UNCHANGED <<rec, usdc, solans>>, UNCHANGED marketVars
    PROVE  SaleStep
  <1>1. Title' = Title /\ Term' = Term
    BY DEF Title, Term, Exists
  <1> QED BY <1>1, MarketStill, Stutter

\* buyback_burn burns the keeper's $SOLANS against cash.
LEMMA BuybackSale ==
    ASSUME MarketInv, NEW k \in Wallets, NEW x \in Nat, BuybackBurn(k, x),
           UNCHANGED registryVars, UNCHANGED marketVars
    PROVE  SaleStep
  <1> DEFINE out == buyback_usdc(config.solans, x)
  <1>1. /\ out > 0 /\ x <= solans[k]
        /\ usdc' = [usdc EXCEPT ![k] = @ + out]
        /\ solans' = [solans EXCEPT ![k] = @ - x]
    BY DEF BuybackBurn
  <1>2. out \in Nat
    <2>1. config.solans.rate \in Nat \ {0}
      BY MarketFacts, LedgerFacts DEF BuybackBurn, solans_enabled
    <2>2. x * SOLANS_RATE_SCALE \in Nat
      BY TimesNat DEF SOLANS_RATE_SCALE
    <2> QED BY <2>1, <2>2, DivNat DEF buyback_usdc
  <1>3. solans \in [Wallets -> Nat] /\ usdc \in [Wallets -> Nat]
    BY MarketFacts DEF LedgerOK, MoneyTypeOK
  <1> HIDE DEF out
  <1>4. x \in 0..solans[k]
    BY <1>1, <1>3
  <1>5. Tokens' = [Tokens EXCEPT ![k] = @ - x] /\ x \in 0..Tokens[k]
    BY <1>1, <1>4, TokensBurned DEF marketVars
  <1>6. usdc'[k] > usdc[k] /\ \A v \in Wallets \ {k} : usdc'[v] = usdc[v]
    BY <1>1, <1>2, <1>3
  <1>7. Title' = Title /\ Term' = Term
    BY DEF Title, Term, Exists, registryVars
  <1> QED BY <1>5, <1>6, <1>7, MarketStill, Redeemed

\* Every step of the registry.
LEMMA NamesSale ==
    ASSUME MarketInv, NamesNext, UNCHANGED marketVars
    PROVE  SaleStep
  <1>1. NamesTypeOK /\ NamesTypeOK'
    BY NamesStep, MarketFacts DEF RegistryStep
  <1>2. ASSUME Environment PROVE SaleStep
    BY <1>2, NothingConveyed DEF Environment, Tick, Approve, TradeNft, moneyVars
  <1>3. ASSUME NEW w \in Admins,
               \/ \E p \in ParamChoices : UpdateConfig(w, p)
               \/ \E s \in SolansChoices : SetSolansParams(w, s)
               \/ \E a \in Admins : TransferAdmin(w, a),
               UNCHANGED registryVars
        PROVE  SaleStep
    BY <1>3, NothingConveyed DEF UpdateConfig, SetSolansParams, TransferAdmin, registryVars
  <1>4. ASSUME NEW k \in Wallets, NEW a \in BuybackAmounts, BuybackBurn(k, a),
               UNCHANGED registryVars
        PROVE  SaleStep
    BY <1>4, BuybackSale, MoneyAssumption
  <1>5. ASSUME Govern PROVE SaleStep
    BY <1>3, <1>4, <1>5 DEF Govern, Governance
  <1> QED BY <1>1, <1>2, <1>5, LifecycleSale, ManagementSale DEF NamesNext

-----------------------------------------------------------------------------
(* Listings and offers. *)

\* Flipping the freeze conveys nothing.
LEMMA FreezeStill ==
    ASSUME NamesTypeOK, NEW n \in Names, Exists(n), NEW s \in NameRecord, Put(n, s),
           s.owner = rec[n].owner, s.expires_at = rec[n].expires_at
    PROVE  Title' = Title /\ Term' = Term
  <1>1. rec \in [Names -> NameRecord \cup {Nil}] /\ s # Nil /\ rec' = [rec EXCEPT ![n] = s]
    BY RecordAssumption DEF NamesTypeOK, Put
  <1>2. rec'[n] = s /\ \A k \in Names \ {n} : rec'[k] = rec[k]
    BY <1>1
  <1> QED BY <1>1, <1>2 DEF Title, Term, Exists

\* The money left alone, wherever it is held.
LEMMA PursesStill ==
    ASSUME UNCHANGED <<sol, escrow>>
    PROVE  Wealth' = Wealth
  BY DEF Wealth

\* The $SOLANS left alone, wherever they are held.
LEMMA TokensStill ==
    ASSUME UNCHANGED <<solans, auction>>
    PROVE  Tokens' = Tokens /\ Consignor' = Consignor
  BY DEF Tokens, Consignor

\* list_name, update_listing and cancel_listing move nothing.
LEMMA ListingSale ==
    ASSUME MarketInv, NEW w \in Wallets, NEW n \in Names,
           \/ \E p \in Prices, d \in Durations : ListName(w, n, p, d) \/ UpdateListing(w, n, p, d)
           \/ CancelListing(w, n)
    PROVE  SaleStep
  <1>1. ASSUME NEW p, NEW d, ListName(w, n, p, d) PROVE SaleStep
    <2>1. NamesTypeOK /\ Exists(n) /\ rec[n] \in NameRecord /\ Put(n, Listed(rec[n]))
      BY <1>1, MarketFacts DEF ListName, OwnerGate
    <2>2. Title' = Title /\ Term' = Term
      BY <2>1, ListedFacts, FreezeStill DEF SameIdentity
    <2> QED BY <1>1, <2>2, PursesStill, TokensStill, Stutter DEF ListName, OnlyRecord, moneyVars
  <1>2. ASSUME NEW p, NEW d, UpdateListing(w, n, p, d) PROVE SaleStep
    <2>1. Title' = Title /\ Term' = Term
      BY <1>2 DEF UpdateListing, namesVars, registryVars, Title, Term, Exists
    <2> QED BY <1>2, <2>1, PursesStill, TokensStill, Stutter
            DEF UpdateListing, namesVars, moneyVars
  <1>3. ASSUME CancelListing(w, n) PROVE SaleStep
    <2>1. NamesTypeOK /\ Exists(n) /\ rec[n] \in NameRecord /\ Put(n, Unlisted(rec[n]))
      BY <1>3, MarketFacts DEF CancelListing
    <2>2. Title' = Title /\ Term' = Term
      BY <2>1, UnlistedFacts, FreezeStill DEF SameIdentity
    <2> QED BY <1>3, <2>2, PursesStill, TokensStill, Stutter
            DEF CancelListing, OnlyRecord, moneyVars
  <1> QED BY <1>1, <1>2, <1>3

\* What the invariant says of the SOL, before and after a step.
LEMMA WealthTypes ==
    ASSUME MarketInv, MarketInv'
    PROVE  /\ sol \in [Wallets -> Nat] /\ escrow \in [Names -> [Wallets -> Nat]]
           /\ sol' \in [Wallets -> Nat] /\ escrow' \in [Names -> [Wallets -> Nat]]
  BY DEF MarketInv, MarketTypeOK

\* make_offer and cancel_offer move SOL between a wallet and its own escrow.
LEMMA OfferSale ==
    ASSUME MarketInv, MarketInv', NEW w \in Wallets, NEW n \in Names, NEW b \in Wallets,
           \/ \E x \in OfferAmounts, d \in Durations : MakeOffer(b, n, x, d)
           \/ CancelOffer(w, n, b)
    PROVE  SaleStep
  <1>1. PICK x \in Int :
          /\ sol' = [sol EXCEPT ![b] = @ - x]
          /\ escrow' = [escrow EXCEPT ![n][b] = @ + x]
          /\ UNCHANGED <<namesVars, auction>>
    <2>1. ASSUME NEW x \in OfferAmounts, NEW d, MakeOffer(b, n, x, d)
          PROVE  /\ x \in Int /\ sol' = [sol EXCEPT ![b] = @ - x]
                 /\ escrow' = [escrow EXCEPT ![n][b] = @ + x]
                 /\ UNCHANGED <<namesVars, auction>>
      BY <2>1, MarketAssumption DEF MakeOffer
    <2>2. ASSUME CancelOffer(w, n, b)
          PROVE  LET x == 0 - escrow[n][b] IN
                 /\ x \in Int /\ sol' = [sol EXCEPT ![b] = @ - x]
                 /\ escrow' = [escrow EXCEPT ![n][b] = @ + x]
                 /\ UNCHANGED <<namesVars, auction>>
      <3> DEFINE e == escrow[n][b]
      <3>1. e \in Nat /\ sol[b] \in Nat
        BY WealthTypes
      <3>2. /\ escrow' = [escrow EXCEPT ![n][b] = 0] /\ sol' = [sol EXCEPT ![b] = @ + e]
            /\ UNCHANGED <<namesVars, auction>>
        BY <2>2 DEF CancelOffer
      <3> HIDE DEF e
      <3>3. 0 - e \in Int /\ sol[b] - (0 - e) = sol[b] + e /\ e + (0 - e) = 0
        BY <3>1
      <3>4. sol' = [sol EXCEPT ![b] = @ - (0 - e)]
        BY <3>2, <3>3
      <3>5. escrow' = [escrow EXCEPT ![n][b] = e + (0 - e)]
        BY <3>2, <3>3
      <3> QED BY <3>2, <3>3, <3>4, <3>5 DEF e
    <2> QED BY <2>1, <2>2
  <1>2. \A v \in Wallets : sol'[v] + escrow'[n][v] = sol[v] + escrow[n][v]
    BY <1>1, WealthTypes
  <1>3. \A k \in Names \ {n} : escrow'[k] = escrow[k]
    BY <1>1, WealthTypes
  <1>4. Wealth' = Wealth
    <2>1. DifferOn(sol, escrow, sol', escrow', n)
      BY <1>3, WealthTypes DEF DifferOn
    <2> QED BY <1>2, <2>1, HoldingsStill DEF Wealth
  <1>5. Title' = Title /\ Term' = Term /\ solans' = solans /\ usdc' = usdc
    BY <1>1 DEF namesVars, registryVars, moneyVars, Title, Term, Exists
  <1> QED BY <1>1, <1>4, <1>5, TokensStill, Stutter

\* From m1 to m2 the buyer b pays the price, the seller o and the treasury t
\* share it.
Shared(m1, m2, b, o, t, price, fee) ==
    \A v \in Wallets :
        m2[v] = m1[v] - (IF v = b THEN price ELSE 0)
                  + (IF v = o THEN price - fee ELSE 0) + (IF v = t THEN fee ELSE 0)

\* m once the buyer has paid the seller and the treasury, one after the other.
Paid(m, b, o, t, price, fee) ==
    [[[m EXCEPT ![b] = @ - price] EXCEPT ![o] = @ + (price - fee)] EXCEPT ![t] = @ + fee]

\* A wallet's purse and what is held for it on name n.
OnHand(purse, held, n) == [v \in Wallets |-> purse[v] + held[n][v]]

\* A sale of name n for a price: the buyer's purse and what is held for it on
\* the name together pay, the seller and the treasury share.
PricedSale(purse, held, purse2, held2, n, b, o, t, price, fee) ==
    /\ DifferOn(purse, held, purse2, held2, n)
    /\ b \in Wallets /\ o \in Wallets /\ t \in Wallets
    /\ price \in Nat /\ fee \in 0..price
    /\ Shared(OnHand(purse, held, n), OnHand(purse2, held2, n), b, o, t, price, fee)

\* Such a sale in terms of holdings.
LEMMA PriceShared ==
    ASSUME NEW purse, NEW held, NEW purse2, NEW held2, NEW n, NEW b, NEW o, NEW t,
           NEW price, NEW fee, PricedSale(purse, held, purse2, held2, n, b, o, t, price, fee)
    PROVE  Holdings(purse2, held2) = Paid(Holdings(purse, held), b, o, t, price, fee)
  <1>a. DifferOn(purse, held, purse2, held2, n)
    BY DEF PricedSale
  <1>b. b \in Wallets /\ o \in Wallets /\ t \in Wallets /\ price \in Nat /\ fee \in 0..price
    BY DEF PricedSale
  <1>c. Shared(OnHand(purse, held, n), OnHand(purse2, held2, n), b, o, t, price, fee)
    BY DEF PricedSale
  <1> DEFINE g == Holdings(purse, held)
             r == Paid(g, b, o, t, price, fee)
  <1>0. g \in [Wallets -> Nat]
    BY <1>a, HoldingsNat DEF DifferOn
  <1>1. ASSUME NEW v \in Wallets PROVE Holdings(purse2, held2)[v] = r[v]
    <2> DEFINE u == g[v]
               p1 == purse[v]
               p2 == purse2[v]
               h1 == held[n][v]
               h2 == held2[n][v]
               c1 == IF v = b THEN price ELSE 0
               c2 == IF v = o THEN price - fee ELSE 0
               c3 == IF v = t THEN fee ELSE 0
    <2>1. Holdings(purse2, held2)[v] = u + (p2 - p1) + (h2 - h1)
      BY <1>a, HoldingsMove
    <2>2. u \in Nat /\ p1 \in Nat /\ p2 \in Nat /\ h1 \in Nat /\ h2 \in Nat
      BY <1>0, <1>a DEF DifferOn
    <2>3. p2 + h2 = p1 + h1 - c1 + c2 + c3
      BY <1>b, <1>c, <2>2 DEF Shared, OnHand
    <2> HIDE DEF g
    <2>4. r[v] = u - c1 + c2 + c3
      BY <1>0, <1>b DEF Paid
    <2>5. c1 \in Int /\ c2 \in Int /\ c3 \in Int
      BY <1>b
    <2> HIDE DEF u, p1, p2, h1, h2, r, c1, c2, c3
    <2> QED BY <2>1, <2>2, <2>3, <2>4, <2>5
  <1> HIDE DEF g
  <1>2. r = [v \in Wallets |-> r[v]]
    BY <1>0, <1>b DEF Paid
  <1> HIDE DEF r
  <1>3. Holdings(purse2, held2) = r
    BY <1>1, <1>2, HoldingsFunction
  <1> QED BY <1>3 DEF r, g

\* The marketplace keeps at most the capped fee (update_config).
LEMMA FeeCapped ==
    ASSUME LedgerOK, NEW amount \in Nat
    PROVE  /\ MostFee(amount) \in 0..amount /\ Fee(amount) \in 0..MostFee(amount)
           /\ MostFee(amount) = Share(amount, MAX_FEE_BPS)
  <1> DEFINE bps == config.params.marketplace_fee_bps
  <1>1. bps \in Nat /\ bps <= MAX_FEE_BPS /\ Fee(amount) = Share(amount, bps)
    BY LedgerFacts DEF Params, LedgerOK, ValidParams, Fee, MarketFee
  <1> HIDE DEF bps
  <1>2. MAX_FEE_BPS \in 0..BPS_DENOMINATOR
    BY DEF MAX_FEE_BPS, BPS_DENOMINATOR
  <1>3. amount * bps \in Nat /\ amount * MAX_FEE_BPS \in Nat
        /\ amount * bps <= amount * MAX_FEE_BPS
    <2>1. \E d \in Nat : MAX_FEE_BPS = bps + d
      <3>1. MAX_FEE_BPS - bps \in Nat /\ MAX_FEE_BPS = bps + (MAX_FEE_BPS - bps)
        BY <1>1 DEF MAX_FEE_BPS
      <3> QED BY <3>1
    <2>2. PICK d \in Nat : MAX_FEE_BPS = bps + d
      BY <2>1
    <2>3. amount * (bps + d) = amount * bps + amount * d /\ amount * bps \in Nat
          /\ amount * d \in Nat
      BY <1>1
    <2> QED BY <2>2, <2>3
  <1>4. Share(amount, bps) <= Share(amount, MAX_FEE_BPS) /\ Share(amount, bps) \in Nat
    BY <1>3 DEF Share, BPS_DENOMINATOR
  <1>5. Share(amount, MAX_FEE_BPS) \in 0..amount
    BY <1>2, ShareBound
  <1> QED BY <1>1, <1>4, <1>5 DEF MostFee

\* What three payments do to a balance.
LEMMA ThreePayments ==
    ASSUME NEW f \in [Wallets -> Int], NEW a \in Wallets, NEW b \in Wallets, NEW c \in Wallets,
           NEW x \in Int, NEW y \in Int, NEW z \in Int, NEW v \in Wallets
    PROVE  [[[f EXCEPT ![a] = @ + x] EXCEPT ![b] = @ + y] EXCEPT ![c] = @ + z][v]
             = f[v] + (IF v = a THEN x ELSE 0) + (IF v = b THEN y ELSE 0) + (IF v = c THEN z ELSE 0)
  <1> DEFINE f1 == [f EXCEPT ![a] = @ + x]
             f2 == [f1 EXCEPT ![b] = @ + y]
             f3 == [f2 EXCEPT ![c] = @ + z]
  <1>1. f1 \in [Wallets -> Int] /\ f1[v] = f[v] + (IF v = a THEN x ELSE 0)
    OBVIOUS
  <1> HIDE DEF f1
  <1>2. f2 \in [Wallets -> Int] /\ f2[v] = f1[v] + (IF v = b THEN y ELSE 0)
    BY <1>1
  <1> HIDE DEF f2
  <1>3. f3[v] = f2[v] + (IF v = c THEN z ELSE 0)
    BY <1>2
  <1>4. f3[v] = f[v] + (IF v = a THEN x ELSE 0) + (IF v = b THEN y ELSE 0) + (IF v = c THEN z ELSE 0)
    BY <1>1, <1>2, <1>3
  <1> QED BY <1>4 DEF f2, f1

\* A name handed to another wallet with its term intact.
LEMMA HandedOver ==
    ASSUME NamesTypeOK, NEW n \in Names, Exists(n), NEW s \in NameRecord, Put(n, s),
           s.expires_at = rec[n].expires_at
    PROVE  /\ Title' = [Title EXCEPT ![n] = s.owner] /\ Term' = Term
           /\ Title[n] = rec[n].owner /\ Title[n] # Nil
  <1>1. rec \in [Names -> NameRecord \cup {Nil}] /\ s # Nil /\ rec' = [rec EXCEPT ![n] = s]
    BY RecordAssumption DEF NamesTypeOK, Put
  <1>2. rec'[n] = s /\ \A k \in Names \ {n} : rec'[k] = rec[k]
    BY <1>1
  <1>3. Title' = [Title EXCEPT ![n] = s.owner]
    BY <1>1, <1>2 DEF Title, Exists
  <1>4. Term' = Term
    BY <1>1, <1>2 DEF Term, Exists
  <1>5. rec[n].owner \in Wallets
    BY <1>1 DEF Exists, NameRecord
  <1> QED BY <1>3, <1>4, <1>5, MoneyAssumption DEF Title

\* A sale for SOL: the buyer pays out of its purse and its escrow on the name.
LEMMA SolSale ==
    ASSUME MarketInv, MarketInv', NEW n \in Names, Exists(n), NEW b \in Wallets,
           b # rec[n].owner, NEW s \in NameRecord, Put(n, s), s.owner = b,
           s.expires_at = rec[n].expires_at,
           NEW price \in Nat, price <= OnHand(sol, escrow, n)[b],
           \A k \in Names \ {n} : escrow'[k] = escrow[k],
           Shared(OnHand(sol, escrow, n), OnHand(sol', escrow', n), b, rec[n].owner,
                  config.params.sol_treasury, price, Fee(price)),
           UNCHANGED <<auction, solans, usdc>>
    PROVE  SaleStep
  <1> DEFINE t == config.params.sol_treasury
             o == rec[n].owner
             fee == Fee(price)
  <1>1. /\ Title' = [Title EXCEPT ![n] = b] /\ Term' = Term /\ Title[n] = o /\ Title[n] # Nil
        /\ Tokens' = Tokens /\ Consignor' = Consignor
    BY HandedOver, TokensStill, MarketFacts
  <1>2. t \in Wallets /\ fee \in 0..price /\ fee \in 0..MostFee(price)
    BY MarketFacts, LedgerFacts, FeeBound, FeeCapped
  <1>3. o \in Wallets
    BY MarketFacts DEF NameRecord
  <1>4. price \in 0..Wealth[b]
    <2> DEFINE h == sol[b] + escrow[n][b]
               g == Wealth[b]
    <2>1. h \in Nat /\ g \in Nat /\ h <= g
      BY WealthTypes, HoldingsNat DEF Wealth
    <2>2. price <= h
      BY DEF OnHand
    <2> HIDE DEF h, g
    <2>3. price \in 0..g
      BY <2>1, <2>2
    <2> QED BY <2>3 DEF g
  <1> HIDE DEF t, o, fee
  <1>5. Shared(OnHand(sol, escrow, n), OnHand(sol', escrow', n), b, o, t, price, fee)
    BY DEF t, o, fee
  <1>6. Holdings(sol', escrow') = Paid(Holdings(sol, escrow), b, o, t, price, fee)
    <2>1. /\ sol \in [Wallets -> Nat] /\ escrow \in [Names -> [Wallets -> Nat]]
          /\ sol' \in [Wallets -> Nat] /\ escrow' \in [Names -> [Wallets -> Nat]]
      BY WealthTypes
    <2>2. PricedSale(sol, escrow, sol', escrow', n, b, o, t, price, fee)
      BY <1>2, <1>3, <1>5, <2>1 DEF PricedSale, DifferOn
    <2> QED BY <2>2, PriceShared
  <1>7. Wealth' = [[[Wealth EXCEPT ![b] = @ - price] EXCEPT ![Title[n]] = @ + (price - fee)]
                                 EXCEPT ![t] = @ + fee]
    BY <1>1, <1>6 DEF Wealth, Paid
  <1>8. Title[n] \notin {Nil, b}
    BY <1>1 DEF o
  <1> QED BY <1>1, <1>2, <1>4, <1>7, <1>8, Sold

\* buy_name is a sale.
LEMMA BuyNameSale ==
    ASSUME MarketInv, MarketInv', NEW b \in Wallets, NEW n \in Names, NEW p \in Nat,
           BuyName(b, n, p)
    PROVE  SaleStep
  <1> DEFINE s == Unlisted(Handover(rec[n], b))
             o == rec[n].owner
             t == config.params.sol_treasury
             fee == Fee(p)
             m1 == OnHand(sol, escrow, n)
             m2 == OnHand(sol', escrow', n)
  <1>1. Exists(n) /\ rec[n] \in NameRecord /\ b # o /\ o \in Wallets /\ t \in Wallets
    BY MarketFacts, LedgerFacts DEF BuyName, NameRecord
  <1>2. s \in NameRecord /\ s.owner = b /\ s.expires_at = rec[n].expires_at /\ Put(n, s)
    <2>1. Handover(rec[n], b) \in NameRecord /\ Handover(rec[n], b).owner = b
          /\ Handover(rec[n], b).expires_at = rec[n].expires_at
      BY <1>1, HandoverFacts DEF SameTerm, SameIdentity
    <2> QED BY <2>1, UnlistedFacts DEF SameIdentity, BuyName
  <1>3. /\ sol' = [[[sol EXCEPT ![b] = @ - p] EXCEPT ![o] = @ + (p - fee)] EXCEPT ![t] = @ + fee]
        /\ p <= sol[b] /\ escrow' = escrow /\ UNCHANGED <<auction, solans, usdc>>
    BY DEF BuyName, OnlyRecord, moneyVars
  <1>4. fee \in 0..p
    BY MarketFacts, FeeBound
  <1> HIDE DEF s, o, t, fee
  <1>5. Shared(m1, m2, b, o, t, p, fee)
    <2> SUFFICES ASSUME NEW v \in Wallets
                 PROVE  m2[v] = m1[v] - (IF v = b THEN p ELSE 0)
                           + (IF v = o THEN p - fee ELSE 0) + (IF v = t THEN fee ELSE 0)
      BY DEF Shared
    <2>1. m1[v] = sol[v] + escrow[n][v] /\ m2[v] = sol'[v] + escrow[n][v]
      BY <1>3 DEF OnHand
    <2>2. sol \in [Wallets -> Nat] /\ escrow[n][v] \in Nat
      BY WealthTypes
    <2>3. sol'[v] = sol[v] - (IF v = b THEN p ELSE 0)
                      + (IF v = o THEN p - fee ELSE 0) + (IF v = t THEN fee ELSE 0)
      <3>1. 0 - p \in Int /\ p - fee \in Int /\ fee \in Int /\ sol \in [Wallets -> Int]
            /\ o \in Wallets
        BY <1>1, <1>4, <2>2
      <3>2. sol' = [[[sol EXCEPT ![b] = @ + (0 - p)] EXCEPT ![o] = @ + (p - fee)] EXCEPT ![t] = @ + fee]
        <4>1. sol[b] - p = sol[b] + (0 - p)
          BY <2>2
        <4> QED BY <1>3, <4>1
      <3>3. sol'[v] = sol[v] + (IF v = b THEN 0 - p ELSE 0)
                      + (IF v = o THEN p - fee ELSE 0) + (IF v = t THEN fee ELSE 0)
        BY <1>1, <3>1, <3>2, ThreePayments
      <3> QED BY <2>2, <3>1, <3>3
    <2>4. sol[v] \in Nat
      BY <2>2
    <2> DEFINE e == escrow[n][v]
               c1 == IF v = b THEN p ELSE 0
               c2 == IF v = o THEN p - fee ELSE 0
               c3 == IF v = t THEN fee ELSE 0
    <2>5. e \in Nat /\ c1 \in Int /\ c2 \in Int /\ c3 \in Int
      BY <1>4, <2>2
    <2>6. sol'[v] = sol[v] - c1 + c2 + c3 /\ m1[v] = sol[v] + e /\ m2[v] = sol'[v] + e
      BY <2>1, <2>3
    <2> HIDE DEF e, c1, c2, c3, m1, m2
    <2>7. m2[v] = m1[v] - c1 + c2 + c3
      BY <2>4, <2>5, <2>6
    <2> QED BY <2>7 DEF c1, c2, c3
  <1>6. p <= OnHand(sol, escrow, n)[b]
    <2>1. sol[b] \in Nat /\ escrow[n][b] \in Nat
      BY WealthTypes
    <2> QED BY <1>3, <2>1 DEF OnHand
  <1>7. \A k \in Names \ {n} : escrow'[k] = escrow[k]
    BY <1>3
  <1>8. Shared(OnHand(sol, escrow, n), OnHand(sol', escrow', n), b, rec[n].owner,
               config.params.sol_treasury, p, Fee(p))
    BY <1>5 DEF o, t, fee
  <1>9. b # rec[n].owner
    BY <1>1 DEF o
  <1> QED BY <1>1, <1>2, <1>3, <1>6, <1>7, <1>8, <1>9, SolSale

\* accept_offer is a sale, paid for by the escrow.
LEMMA AcceptOfferSale ==
    ASSUME MarketInv, MarketInv', NEW w \in Wallets, NEW n \in Names, NEW b \in Wallets,
           AcceptOffer(w, n, b)
    PROVE  SaleStep
  <1> DEFINE s == Handover(rec[n], b)
             o == rec[n].owner
             t == config.params.sol_treasury
             p == offer[n][b].amount
             fee == Fee(p)
             m1 == OnHand(sol, escrow, n)
             m2 == OnHand(sol', escrow', n)
  <1>1. /\ Exists(n) /\ rec[n] \in NameRecord /\ o = w /\ b # o /\ t \in Wallets
        /\ offer[n][b] # Nil
    BY MarketFacts, LedgerFacts DEF AcceptOffer, OwnerGate
  <1>2. s \in NameRecord /\ s.owner = b /\ s.expires_at = rec[n].expires_at /\ Put(n, s)
    BY <1>1, HandoverFacts DEF SameTerm, SameIdentity, AcceptOffer
  <1>3. p \in Nat /\ escrow[n][b] = p
    BY <1>1, MarketFacts DEF Offer, MarketInv, EscrowsFunded
  <1>4. /\ sol' = [[[sol EXCEPT ![w] = @ + (p - fee)] EXCEPT ![t] = @ + fee]
                           EXCEPT ![b] = @ + (escrow[n][b] - p)]
        /\ escrow' = [escrow EXCEPT ![n][b] = 0] /\ UNCHANGED <<auction, solans, usdc>>
    BY DEF AcceptOffer, OnlyRecord, moneyVars
  <1>5. fee \in 0..p
    BY <1>3, MarketFacts, FeeBound
  <1> HIDE DEF s, o, t, fee, p
  <1>6. sol \in [Wallets -> Nat] /\ escrow \in [Names -> [Wallets -> Nat]]
    BY WealthTypes
  <1>7. Shared(m1, m2, b, o, t, p, fee)
    <2> SUFFICES ASSUME NEW v \in Wallets
                 PROVE  m2[v] = m1[v] - (IF v = b THEN p ELSE 0)
                           + (IF v = o THEN p - fee ELSE 0) + (IF v = t THEN fee ELSE 0)
      BY DEF Shared
    <2> DEFINE x == sol[v]
               y == sol'[v]
               e == escrow[n][v]
               f == escrow'[n][v]
               c1 == IF v = b THEN p ELSE 0
               c2 == IF v = o THEN p - fee ELSE 0
               c3 == IF v = t THEN fee ELSE 0
    <2>1. m1[v] = x + e /\ m2[v] = y + f
      BY DEF OnHand
    <2>2. x \in Nat /\ e \in Nat
      BY <1>6
    <2>3. y = x + c2 + c3
      <3>1. /\ p - p = 0 /\ p - p \in Int /\ fee \in Int /\ p - fee \in Int
            /\ sol \in [Wallets -> Int]
        BY <1>3, <1>5, <1>6
      <3>2. y = x + (IF v = w THEN p - fee ELSE 0) + (IF v = t THEN fee ELSE 0)
                  + (IF v = b THEN p - p ELSE 0)
        BY <1>1, <1>3, <1>4, <3>1, ThreePayments
      <3> QED BY <1>1, <2>2, <3>1, <3>2
    <2>4. f = e - c1
      BY <1>3, <1>4, <1>6
    <2>5. c1 \in Int /\ c2 \in Int /\ c3 \in Int
      BY <1>3, <1>5
    <2> HIDE DEF x, y, e, f, c1, c2, c3, m1, m2
    <2>6. m2[v] = m1[v] - c1 + c2 + c3
      BY <2>1, <2>2, <2>3, <2>4, <2>5
    <2> QED BY <2>6 DEF c1, c2, c3
  <1>8. p <= OnHand(sol, escrow, n)[b]
    <2>1. sol[b] \in Nat
      BY <1>6
    <2> QED BY <1>3, <2>1 DEF OnHand
  <1>9. \A k \in Names \ {n} : escrow'[k] = escrow[k]
    BY <1>4, <1>6
  <1>10. Shared(OnHand(sol, escrow, n), OnHand(sol', escrow', n), b, rec[n].owner,
               config.params.sol_treasury, p, Fee(p))
    BY <1>7 DEF o, t, fee
  <1>11. b # rec[n].owner
    BY <1>1 DEF o
  <1> QED BY <1>1, <1>2, <1>3, <1>4, <1>8, <1>9, <1>10, <1>11, SolSale

-----------------------------------------------------------------------------
(* Auctions. *)

\* What the invariant says of the $SOLANS, before and after a step.
LEMMA TokensTypes ==
    ASSUME MarketInv, MarketInv'
    PROVE  /\ solans \in [Wallets -> Nat] /\ BidsHeld(auction) \in [Names -> [Wallets -> Nat]]
           /\ solans' \in [Wallets -> Nat] /\ BidsHeld(auction') \in [Names -> [Wallets -> Nat]]
           /\ Tokens = Holdings(solans, BidsHeld(auction))
           /\ Tokens' = Holdings(solans', BidsHeld(auction'))
  <1>1. /\ auction \in [Names -> Auction \cup {Nil}] /\ auction' \in [Names -> Auction \cup {Nil}]
        /\ solans \in [Wallets -> Nat] /\ solans' \in [Wallets -> Nat]
    BY DEF MarketInv, MarketTypeOK, NamesTypeOK, MoneyTypeOK
  <1>2. ASSUME NEW a \in [Names -> Auction \cup {Nil}]
        PROVE  BidsHeld(a) \in [Names -> [Wallets -> Nat]]
    <2>1. \A n \in Names : a[n] # Nil => a[n].highest_bid \in Nat
      BY DEF Auction
    <2> QED BY <2>1 DEF BidsHeld
  <1> QED BY <1>1, <1>2 DEF Tokens

\* What an Auction account holds for a wallet.
BidOf(a, w) == IF a # Nil /\ a.highest_bidder = w THEN a.highest_bid ELSE 0

\* The step writes the Auction account of name n.
Posted(n, a) == n \in Names /\ auction' = [auction EXCEPT ![n] = a]

\* The account of one auction decides what is held on that name.
LEMMA BidsHeldOn ==
    ASSUME NEW n, NEW a, MarketInv, Posted(n, a)
    PROVE  /\ \A k \in Names \ {n} : BidsHeld(auction')[k] = BidsHeld(auction)[k]
           /\ \A w \in Wallets : /\ BidsHeld(auction)[n][w] = BidOf(auction[n], w)
                                 /\ BidsHeld(auction')[n][w] = BidOf(a, w)
           /\ Consignor' = [Consignor EXCEPT ![n] = IF a = Nil THEN Nil ELSE a.seller]
  <1>1. n \in Names /\ auction'[n] = a /\ \A k \in Names \ {n} : auction'[k] = auction[k]
    BY DEF MarketInv, MarketTypeOK, Posted
  <1>2. Consignor' = [Consignor EXCEPT ![n] = IF a = Nil THEN Nil ELSE a.seller]
    <2> DEFINE v == IF a = Nil THEN Nil ELSE a.seller
    <2>1. /\ Consignor'[n] = v /\ \A k \in Names \ {n} : Consignor'[k] = Consignor[k]
          /\ Consignor = [k \in Names |-> Consignor[k]]
          /\ Consignor' = [k \in Names |-> Consignor'[k]]
      BY <1>1 DEF Consignor
    <2> HIDE DEF v
    <2>2. Consignor' = [Consignor EXCEPT ![n] = v]
      BY <2>1
    <2> QED BY <2>2 DEF v
  <1> QED BY <1>1, <1>2 DEF BidsHeld, BidOf

\* Opening or closing an auction without a bid moves no $SOLANS.
LEMMA UnbidTokens ==
    ASSUME MarketInv, MarketInv', NEW n \in Names, NEW a, Posted(n, a),
           auction[n] = Nil \/ auction[n].highest_bidder = Nil,
           a = Nil \/ a.highest_bidder = Nil, solans' = solans
    PROVE  Tokens' = Tokens
  <1>1. \A w \in Wallets : BidsHeld(auction)[n][w] = 0 /\ BidsHeld(auction')[n][w] = 0
    <2>1. ASSUME NEW w \in Wallets
          PROVE  /\ BidsHeld(auction)[n][w] = BidOf(auction[n], w)
                 /\ BidsHeld(auction')[n][w] = BidOf(a, w)
      BY BidsHeldOn
    <2>2. \A w \in Wallets : BidOf(auction[n], w) = 0 /\ BidOf(a, w) = 0
      BY MoneyAssumption DEF BidOf
    <2> QED BY <2>1, <2>2
  <1>2. \A w \in Wallets :
           solans'[w] + BidsHeld(auction')[n][w] = solans[w] + BidsHeld(auction)[n][w]
    BY <1>1
  <1>3. \A k \in Names \ {n} : BidsHeld(auction')[k] = BidsHeld(auction)[k]
    BY BidsHeldOn
  <1> DEFINE h == BidsHeld(auction)
             k == BidsHeld(auction')
  <1>4. h \in [Names -> [Wallets -> Nat]] /\ k \in [Names -> [Wallets -> Nat]]
        /\ solans \in [Wallets -> Nat] /\ solans' \in [Wallets -> Nat]
        /\ Tokens = Holdings(solans, h) /\ Tokens' = Holdings(solans', k)
    BY TokensTypes
  <1>5. DifferOn(solans, h, solans', k, n)
    BY <1>3, <1>4 DEF DifferOn
  <1>6. \A w \in Wallets : solans'[w] + k[n][w] = solans[w] + h[n][w]
    BY <1>2
  <1> HIDE DEF h, k
  <1> QED BY <1>4, <1>5, <1>6, HoldingsStill

\* start_auction consigns the name.
LEMMA StartAuctionSale ==
    ASSUME MarketInv, MarketInv', NEW w \in Wallets, NEW n \in Names, NEW r \in Nat,
           NEW i \in Nat, NEW d \in Nat, StartAuction(w, n, r, i, d)
    PROVE  SaleStep
  <1> DEFINE a == [seller |-> w, highest_bidder |-> Nil, highest_bid |-> 0,
                   reserve_price |-> r, min_increment |-> i, end_time |-> now + d]
  <1>1. a # Nil /\ a.highest_bidder = Nil /\ a.seller = w
    <2>1. now \in Nat
      BY MarketFacts DEF NamesTypeOK
    <2>2. a \in Auction
      BY <2>1 DEF Auction
    <2> QED BY <2>2, SaleAssumption
  <1>2. /\ auction' = [auction EXCEPT ![n] = a] /\ auction[n] = Nil
        /\ OwnerGate(w, n) /\ Put(n, Listed(rec[n]))
        /\ UNCHANGED <<sol, escrow, solans, usdc>>
    BY DEF StartAuction, OnlyRecord, moneyVars
  <1> HIDE DEF a
  <1>3. NamesTypeOK /\ Exists(n) /\ rec[n] \in NameRecord /\ rec[n].owner = w
    BY <1>2, MarketFacts DEF OwnerGate
  <1>4. Title' = Title /\ Term' = Term
    BY <1>2, <1>3, ListedFacts, FreezeStill DEF SameIdentity
  <1>5. Title[n] = w /\ Title[n] # Nil /\ Consignor[n] = Nil
    BY <1>2, <1>3, MoneyAssumption DEF Title, Consignor
  <1>6. Consignor' = [Consignor EXCEPT ![n] = Title[n]]
    <2>1. Consignor' = [Consignor EXCEPT ![n] = IF a = Nil THEN Nil ELSE a.seller]
      <3>1. Posted(n, a)
        BY <1>2 DEF Posted
      <3> QED BY <3>1, BidsHeldOn
    <2> QED BY <1>1, <1>5, <2>1
  <1>7. Tokens' = Tokens
    BY <1>1, <1>2, UnbidTokens DEF Posted
  <1> QED BY <1>2, <1>4, <1>5, <1>6, <1>7, PursesStill, Consigned

\* A name withdrawn from auction, or left unsold.
LEMMA UnsoldSale ==
    ASSUME MarketInv, MarketInv', NEW n \in Names, auction[n] # Nil,
           auction[n].highest_bidder = Nil, Exists(n), Put(n, Unlisted(rec[n])),
           auction' = [auction EXCEPT ![n] = Nil], UNCHANGED <<sol, escrow, solans, usdc>>
    PROVE  SaleStep
  <1>1. NamesTypeOK /\ rec[n] \in NameRecord
    BY MarketFacts
  <1>2. Title' = Title /\ Term' = Term
    BY <1>1, UnlistedFacts, FreezeStill DEF SameIdentity
  <1>3. Consignor' = [Consignor EXCEPT ![n] = Nil]
    <2>1. Posted(n, Nil)
      BY DEF Posted
    <2> QED BY <2>1, BidsHeldOn
  <1>4. Tokens' = Tokens
    BY UnbidTokens DEF Posted
  <1> QED BY <1>2, <1>3, <1>4, PursesStill, Withdrawn

\* bid sets aside as much as it takes from the new bidder, and gives the
\* displaced bidder back what was set aside.
LEMMA BidSale ==
    ASSUME MarketInv, MarketInv', NEW w \in Wallets, NEW n \in Names, NEW x \in Nat, Bid(w, n, x)
    PROVE  SaleStep
  <1> DEFINE a == auction[n]
             b == Outbid(a, w, x)
             refund == IF a.highest_bidder = Nil THEN 0 ELSE a.highest_bid
             R == Refunded(a)
             h == BidsHeld(auction)
             k == BidsHeld(auction')
  <1>1. a # Nil /\ a \in Auction /\ now \in Nat /\ Extension \in Nat
    BY MarketFacts, MarketAssumption DEF Bid, NamesTypeOK
  <1>2. b # Nil /\ b.seller = a.seller /\ b.highest_bidder = w /\ b.highest_bid = x
    <2>1. Later(a.end_time, now + Extension) \in Nat
      BY <1>1 DEF Later, Auction
    <2>2. b \in Auction /\ b.seller = a.seller /\ b.highest_bidder = w /\ b.highest_bid = x
      BY <1>1, <2>1 DEF Outbid, Auction
    <2> QED BY <2>2, SaleAssumption
  <1>3. /\ auction' = [auction EXCEPT ![n] = b] /\ solans' = [R EXCEPT ![w] = @ - x]
        /\ UNCHANGED <<registryVars, usdc, escrow, sol>>
    BY DEF Bid
  <1>p. Posted(n, b)
    BY <1>3 DEF Posted
  <1>4. /\ h \in [Names -> [Wallets -> Nat]] /\ k \in [Names -> [Wallets -> Nat]]
        /\ solans \in [Wallets -> Nat] /\ solans' \in [Wallets -> Nat]
        /\ Tokens = Holdings(solans, h) /\ Tokens' = Holdings(solans', k)
    BY TokensTypes
  <1>5. ASSUME NEW v \in Wallets
        PROVE  /\ h[n][v] = (IF a.highest_bidder = v THEN a.highest_bid ELSE 0)
               /\ k[n][v] = (IF v = w THEN x ELSE 0)
    <2>1. h[n][v] = BidOf(a, v) /\ k[n][v] = BidOf(b, v)
      <3> HIDE DEF b
      <3> QED BY <1>p, BidsHeldOn
    <2> HIDE DEF a, b, h, k
    <2> QED BY <1>1, <1>2, <2>1 DEF BidOf
  <1>6. \A j \in Names \ {n} : k[j] = h[j]
    <2> HIDE DEF b
    <2> QED BY <1>p, BidsHeldOn
  <1>7. R \in [Wallets -> Nat]
        /\ \A v \in Wallets : R[v] = solans[v] + (IF a.highest_bidder = v THEN a.highest_bid ELSE 0)
    <2>1. a.highest_bid \in Nat /\ a.highest_bidder \in Wallets \cup {Nil}
      BY <1>1 DEF Auction
    <2>2. CASE a.highest_bidder = Nil
      BY <1>4, <2>2, MoneyAssumption DEF Refunded
    <2>3. CASE a.highest_bidder \in Wallets
      BY <1>4, <2>1, <2>3, MoneyAssumption DEF Refunded
    <2> QED BY <2>1, <2>2, <2>3
  <1> HIDE DEF h, k, R
  <1>8. ASSUME NEW v \in Wallets PROVE solans'[v] + k[n][v] = solans[v] + h[n][v]
    <2> DEFINE e == IF a.highest_bidder = v THEN a.highest_bid ELSE 0
               c == IF v = w THEN x ELSE 0
    <2>1. h[n][v] = e /\ k[n][v] = c
      BY <1>5
    <2>2. e \in Nat /\ c \in Nat /\ solans[v] \in Nat
      BY <1>1, <1>4 DEF Auction
    <2>3. solans'[v] = R[v] - c
      BY <1>3, <1>7
    <2>4. R[v] = solans[v] + e
      BY <1>7
    <2> HIDE DEF e, c
    <2> QED BY <2>1, <2>2, <2>3, <2>4
  <1>9. Tokens' = Tokens
    <2>1. DifferOn(solans, h, solans', k, n)
      BY <1>4, <1>6 DEF DifferOn
    <2> QED BY <1>4, <1>8, <2>1, HoldingsStill
  <1>10. Consignor' = Consignor
    <2>1. Consignor' = [Consignor EXCEPT ![n] = IF b = Nil THEN Nil ELSE b.seller]
      <3> HIDE DEF b
      <3> QED BY <1>p, BidsHeldOn
    <2>2. Consignor[n] = a.seller /\ Consignor = [j \in Names |-> Consignor[j]]
      BY <1>1 DEF Consignor
    <2> HIDE DEF a, b
    <2> QED BY <1>2, <2>1, <2>2
  <1>11. Title' = Title /\ Term' = Term
    BY <1>3 DEF registryVars, Title, Term, Exists
  <1> QED BY <1>3, <1>9, <1>10, <1>11, PursesStill, Stutter

\* A settlement: the winner pays what is held for it on the name, the seller
\* gets it less the fee.
WonBid(purse, held, purse2, held2, n, b, o, price, fee) ==
    /\ DifferOn(purse, held, purse2, held2, n)
    /\ b \in Wallets /\ o \in Wallets /\ b # o /\ price \in Nat /\ fee \in 0..price
    /\ purse2 = [purse EXCEPT ![o] = @ + (price - fee)]
    /\ \A v \in Wallets : held[n][v] = (IF v = b THEN price ELSE 0) /\ held2[n][v] = 0

\* A settlement in terms of holdings.
LEMMA BidPaid ==
    ASSUME NEW purse, NEW held, NEW purse2, NEW held2, NEW n, NEW b, NEW o,
           NEW price, NEW fee, WonBid(purse, held, purse2, held2, n, b, o, price, fee)
    PROVE  /\ Holdings(purse2, held2) =
                [[Holdings(purse, held) EXCEPT ![b] = @ - price] EXCEPT ![o] = @ + (price - fee)]
           /\ price \in 0..Holdings(purse, held)[b]
  <1> DEFINE g == Holdings(purse, held)
             r == [[g EXCEPT ![b] = @ - price] EXCEPT ![o] = @ + (price - fee)]
  <1>b. DifferOn(purse, held, purse2, held2, n)
    BY DEF WonBid
  <1>a. /\ b \in Wallets /\ o \in Wallets /\ b # o /\ price \in Nat /\ fee \in 0..price
        /\ purse2 = [purse EXCEPT ![o] = @ + (price - fee)]
    BY DEF WonBid
  <1>0. g \in [Wallets -> Nat] /\ \A v \in Wallets : purse[v] + held[n][v] <= g[v]
    BY <1>b, HoldingsNat DEF DifferOn
  <1>1. ASSUME NEW v \in Wallets PROVE Holdings(purse2, held2)[v] = r[v]
    <2> DEFINE u == g[v]
               p1 == purse[v]
               p2 == purse2[v]
               h1 == held[n][v]
               h2 == held2[n][v]
               c1 == IF v = b THEN price ELSE 0
               c2 == IF v = o THEN price - fee ELSE 0
    <2>1. Holdings(purse2, held2)[v] = u + (p2 - p1) + (h2 - h1)
      BY <1>b, HoldingsMove
    <2> HIDE DEF g
    <2>2. u \in Nat /\ p1 \in Nat
      BY <1>0, <1>b DEF DifferOn
    <2>3. h1 = c1 /\ h2 = 0
      BY DEF WonBid
    <2>4. p2 = p1 + c2
      BY <1>a, <1>b, <2>2 DEF DifferOn
    <2>5. c1 \in Int /\ c2 \in Int
      BY <1>a
    <2>6. r[v] = u - c1 + c2
      BY <1>0, <1>a
    <2> HIDE DEF u, p1, p2, h1, h2, r, c1, c2
    <2> QED BY <2>1, <2>2, <2>3, <2>4, <2>5, <2>6
  <1>2. price \in 0..g[b]
    <2>1. held[n][b] = price
      BY <1>a DEF WonBid
    <2>2. purse[b] \in Nat /\ g[b] \in Nat /\ purse[b] + held[n][b] <= g[b]
      BY <1>0, <1>a, <1>b DEF DifferOn
    <2> HIDE DEF g
    <2> QED BY <1>a, <2>1, <2>2
  <1> HIDE DEF g
  <1>3. r = [v \in Wallets |-> r[v]]
    BY <1>0
  <1> HIDE DEF r
  <1>4. Holdings(purse2, held2) = r
    BY <1>1, <1>3, HoldingsFunction
  <1> QED BY <1>2, <1>4 DEF r, g

\* settle_auction with a standing bid sells the consigned name to the winner.
LEMMA SettledSale ==
    ASSUME MarketInv, MarketInv', BidStanding, NEW n \in Names, SettleAuction(n),
           SettleWithWinner(n)
    PROVE  SaleStep
  <1> DEFINE a == auction[n]
             b == a.highest_bidder
             o == a.seller
             price == a.highest_bid
             fee == Fee(price)
             s == Unlisted(Handover(rec[n], b))
             h == BidsHeld(auction)
             k == BidsHeld(auction')
  <1>1. Exists(n) /\ rec[n] \in NameRecord /\ a # Nil /\ a \in Auction /\ b # Nil
    BY MarketFacts DEF SettleAuction, SettleWithWinner
  <1>2. b \in Wallets /\ o \in Wallets /\ b # o /\ price \in Nat /\ price > 0
    BY <1>1 DEF Auction, BidStanding
  <1>3. fee \in 0..price /\ fee \in 0..MostFee(price)
    BY <1>2, MarketFacts, FeeBound, FeeCapped
  <1>4. /\ auction' = [auction EXCEPT ![n] = Nil] /\ Put(n, s)
        /\ solans' = [solans EXCEPT ![o] = @ + (price - fee)]
        /\ UNCHANGED <<usdc, escrow, sol>>
    BY DEF SettleAuction, SettleWithWinner
  <1>5. s \in NameRecord /\ s.owner = b /\ s.expires_at = rec[n].expires_at
    <2>1. Handover(rec[n], b) \in NameRecord /\ Handover(rec[n], b).owner = b
          /\ Handover(rec[n], b).expires_at = rec[n].expires_at
      BY <1>1, <1>2, HandoverFacts DEF SameTerm, SameIdentity
    <2> QED BY <2>1, UnlistedFacts DEF SameIdentity
  <1>6. Posted(n, Nil)
    BY <1>4 DEF Posted
  <1>7. Consignor' = [Consignor EXCEPT ![n] = Nil] /\ Consignor[n] = o
    BY <1>1, <1>6, BidsHeldOn DEF Consignor
  <1>8. /\ h \in [Names -> [Wallets -> Nat]] /\ k \in [Names -> [Wallets -> Nat]]
        /\ solans \in [Wallets -> Nat] /\ solans' \in [Wallets -> Nat]
        /\ Tokens = Holdings(solans, h) /\ Tokens' = Holdings(solans', k)
    BY TokensTypes
  <1>9. \A j \in Names \ {n} : k[j] = h[j]
    BY <1>6, BidsHeldOn
  <1>10. ASSUME NEW v \in Wallets
         PROVE  h[n][v] = (IF v = b THEN price ELSE 0) /\ k[n][v] = 0
    <2>1. h[n][v] = BidOf(a, v) /\ k[n][v] = BidOf(Nil, v)
      BY <1>6, BidsHeldOn
    <2> HIDE DEF h, k
    <2> QED BY <1>1, <2>1 DEF BidOf
  <1>11. /\ Title' = [Title EXCEPT ![n] = b] /\ Term' = Term /\ Title[n] # Nil
    <2> HIDE DEF s
    <2> QED BY <1>1, <1>4, <1>5, MarketFacts, HandedOver
  <1> HIDE DEF h, k, a, b, o, price, fee, s
  <1>12. WonBid(solans, h, solans', k, n, b, o, price, fee)
    <2>1. DifferOn(solans, h, solans', k, n)
      BY <1>8, <1>9 DEF DifferOn
    <2> QED BY <1>2, <1>3, <1>4, <1>10, <2>1 DEF WonBid
  <1>13. /\ Tokens' = [[Tokens EXCEPT ![b] = @ - price] EXCEPT ![Consignor[n]] = @ + (price - fee)]
         /\ price \in 0..Tokens[b]
    BY <1>7, <1>8, <1>12, BidPaid
  <1>14. price \in 1..Tokens[b]
    <2> DEFINE g == Tokens[b]
    <2>1. g \in Nat
      BY <1>2, <1>8, HoldingsNat
    <2>2. price \in 0..g
      BY <1>13
    <2> HIDE DEF g
    <2>3. price \in 1..g
      BY <1>2, <2>1, <2>2
    <2> QED BY <2>3 DEF g
  <1>15. Consignor[n] \notin {Nil, b}
    BY <1>2, <1>7, MoneyAssumption
  <1> QED BY <1>2, <1>3, <1>4, <1>7, <1>11, <1>13, <1>14, <1>15, PursesStill, KnockedDown

-----------------------------------------------------------------------------
(* The refinement. *)

\* Every listing and offer instruction is a step of AtomicSale.
LEMMA TradingSale ==
    ASSUME MarketInv, MarketInv', Trading
    PROVE  SaleStep
  <1>1. Prices \subseteq Nat
    BY MarketAssumption
  <1>2. PICK w \in Wallets, n \in Names :
        \/ \E p \in Prices, d \in Durations : ListName(w, n, p, d) \/ UpdateListing(w, n, p, d)
        \/ CancelListing(w, n)
        \/ \E p \in Prices : BuyName(w, n, p)
        \/ \E x \in OfferAmounts, d \in Durations : MakeOffer(w, n, x, d)
        \/ \E v \in Wallets : CancelOffer(w, n, v) \/ AcceptOffer(w, n, v)
    BY DEF Trading
  <1>3. CASE \/ \E p \in Prices, d \in Durations : ListName(w, n, p, d) \/ UpdateListing(w, n, p, d)
             \/ CancelListing(w, n)
    BY <1>3, ListingSale
  <1>4. CASE \E p \in Prices : BuyName(w, n, p)
    BY <1>1, <1>4, BuyNameSale
  <1>5. CASE \E x \in OfferAmounts, d \in Durations : MakeOffer(w, n, x, d)
    BY <1>5, OfferSale
  <1>6. CASE \E v \in Wallets : CancelOffer(w, n, v) \/ AcceptOffer(w, n, v)
    BY <1>6, OfferSale, AcceptOfferSale
  <1> QED BY <1>2, <1>3, <1>4, <1>5, <1>6

\* Every auction instruction is a step of AtomicSale.
LEMMA AuctionsSale ==
    ASSUME MarketInv, MarketInv', BidStanding, Auctions
    PROVE  SaleStep
  <1>1. /\ Reserves \subseteq Nat /\ Increments \subseteq Nat /\ Bids \subseteq Nat
        /\ Durations \subseteq Nat
    BY MarketAssumption
  <1>2. ASSUME NEW w \in Wallets, NEW n \in Names, CancelAuction(w, n) PROVE SaleStep
    BY <1>2, UnsoldSale DEF CancelAuction, OnlyRecord, moneyVars
  <1>3. ASSUME NEW n \in Names, SettleAuction(n), SettleWithoutBid(n) PROVE SaleStep
    BY <1>3, UnsoldSale DEF SettleAuction, SettleWithoutBid
  <1>4. ASSUME NEW n \in Names, SettleAuction(n) PROVE SaleStep
    BY <1>3, <1>4, SettledSale DEF SettleAuction
  <1> QED BY <1>1, <1>2, <1>4, StartAuctionSale, BidSale DEF Auctions

\* Every step of the system is a step of AtomicSale.
LEMMA NextSale ==
    ASSUME MarketInv, MarketInv', BidStanding, Next
    PROVE  SaleStep
  BY NamesSale, TradingSale, AuctionsSale DEF Next

\* A standing bid stays above 0 and another wallet's than the seller's.
LEMMA BidStandingKept ==
    ASSUME MarketInv, BidStanding, [Next]_vars
    PROVE  BidStanding'
  <1>1. ASSUME UNCHANGED auction PROVE BidStanding'
    BY <1>1 DEF BidStanding
  <1>2. ASSUME NEW n \in Names, NEW a, auction' = [auction EXCEPT ![n] = a],
               a = Nil \/ a.highest_bidder = Nil
                       \/ (a.highest_bid > 0 /\ a.highest_bidder # a.seller)
        PROVE  BidStanding'
    BY <1>2, MarketFacts DEF BidStanding, SaleTypeOK
  <1>3. ASSUME NamesNext, UNCHANGED marketVars PROVE BidStanding'
    BY <1>1, <1>3 DEF marketVars
  <1>4. ASSUME Trading PROVE BidStanding'
    <2>1. \A w, n, p, d :
             (ListName(w, n, p, d) \/ UpdateListing(w, n, p, d) \/ MakeOffer(w, n, p, d))
                => UNCHANGED auction
      BY DEF ListName, UpdateListing, MakeOffer
    <2>2. \A w, n, v :
             (CancelListing(w, n) \/ BuyName(w, n, v) \/ CancelOffer(w, n, v) \/ AcceptOffer(w, n, v))
                => UNCHANGED auction
      BY DEF CancelListing, BuyName, CancelOffer, AcceptOffer
    <2> QED BY <1>1, <1>4, <2>1, <2>2 DEF Trading
  <1>5. ASSUME NEW n \in Names, NEW w, NEW r, NEW i, NEW d, StartAuction(w, n, r, i, d)
        PROVE  BidStanding'
    BY <1>2, <1>5 DEF StartAuction
  <1>6. ASSUME NEW n \in Names, NEW w, NEW x, Bid(w, n, x) PROVE BidStanding'
    <2> DEFINE b == Outbid(auction[n], w, x)
    <2>1. b.highest_bid = x /\ b.highest_bidder = w /\ b.seller = auction[n].seller
      BY <1>6, MarketFacts DEF Bid, Outbid, Auction
    <2>2. auction' = [auction EXCEPT ![n] = b] /\ x > 0 /\ w # auction[n].seller
      BY <1>6 DEF Bid
    <2> HIDE DEF b
    <2> QED BY <1>2, <2>1, <2>2
  <1>7. ASSUME NEW n \in Names, NEW w, CancelAuction(w, n) PROVE BidStanding'
    BY <1>2, <1>7 DEF CancelAuction
  <1>8. ASSUME NEW n \in Names, SettleAuction(n) PROVE BidStanding'
    BY <1>2, <1>8 DEF SettleAuction
  <1>9. ASSUME UNCHANGED vars PROVE BidStanding'
    BY <1>1, <1>9 DEF vars, marketVars
  <1>10. ASSUME Auctions PROVE BidStanding'
    BY <1>5, <1>6, <1>7, <1>8, <1>10 DEF Auctions
  <1> QED BY <1>3, <1>4, <1>9, <1>10 DEF Next

\* The strengthened invariant is inductive.
THEOREM SaleInvariance == Spec => []SaleInv
  <1>1. MarketInit => SaleInv
    <2>1. MarketInit => BidStanding
      BY DEF MarketInit, BidStanding
    <2> QED BY <2>1, MarketInitial DEF SaleInv
  <1>2. SaleInv /\ [Next]_vars => SaleInv'
    BY InvariantStep, BidStandingKept DEF SaleInv
  <1> QED BY <1>1, <1>2, PTL DEF Spec

\* A registry without auctions is an initial state of AtomicSale.
LEMMA UnsoldInitial ==
    ASSUME MarketInv, \A n \in Names : auction[n] = Nil
    PROVE  DeliveryVersusPayment!SaleInit
  <1>1. rec \in [Names -> NameRecord \cup {Nil}] /\ usdc \in [Wallets -> Nat]
        /\ sol \in [Wallets -> Nat] /\ escrow \in [Names -> [Wallets -> Nat]]
    BY DEF MarketInv, MarketTypeOK, NamesTypeOK, MoneyTypeOK
  <1>2. Title \in [Names -> Wallets \cup {Nil}]
    BY <1>1 DEF Title, Exists, NameRecord
  <1>3. Term \in [Names -> Nat]
    BY <1>1 DEF Term, Exists, NameRecord
  <1>4. Consignor = [n \in Names |-> Nil]
    BY DEF Consignor
  <1>5. Wealth \in [Wallets -> Nat]
    BY <1>1, HoldingsNat DEF Wealth
  <1>6. Tokens \in [Wallets -> Nat]
    BY TokensType, HoldingsNat DEF Tokens
  <1> QED BY <1>1, <1>2, <1>3, <1>4, <1>5, <1>6 DEF DeliveryVersusPayment!SaleInit

\* The deployed registry, with nothing for sale, is one.
LEMMA SaleInitial ==
    ASSUME MarketInit
    PROVE  DeliveryVersusPayment!SaleInit
  <1>1. \A n \in Names : auction[n] = Nil
    BY DEF MarketInit
  <1> QED BY <1>1, MarketInitial, UnsoldInitial

\* The abstract state is a function of the concrete one.
LEMMA VarsStill ==
    ASSUME UNCHANGED vars
    PROVE  SaleStep
  <1>1. Title' = Title /\ Term' = Term
    BY DEF vars, namesVars, registryVars, Title, Term, Exists
  <1> QED BY <1>1, PursesStill, TokensStill, Stutter
          DEF vars, namesVars, marketVars, moneyVars

\* The marketplace implements delivery versus payment (buy_name, accept_offer,
\* settle_auction, and every instruction that must not move money or names).
THEOREM SalesAtomic == Spec => AtomicSales
  <1>1. MarketInit => DeliveryVersusPayment!SaleInit
    BY SaleInitial
  <1>2. SaleInv /\ SaleInv' /\ [Next]_vars
          => [DeliveryVersusPayment!SaleNext]_(DeliveryVersusPayment!saleVars)
    BY NextSale, VarsStill DEF SaleInv, SaleStep
  <1> QED BY <1>1, <1>2, SaleInvariance, PTL
          DEF Spec, AtomicSales, DeliveryVersusPayment!SaleSpec
=============================================================================
