---------------------------- MODULE MarketProofs ----------------------------
(***************************************************************************)
(* The theorems about the registry with its marketplace, for every value   *)
(* of the constants: type correctness, the five safety invariants and the  *)
(* four action properties.  MarketInv is the inductive invariant.          *)
(***************************************************************************)
EXTENDS Market, NamesProofs

MarketInv == MarketTypeOK /\ RegistryInv /\ FrozenHasSale /\ EscrowsFunded

\* What every step does.
MarketStep ==
    /\ MarketInv'
    /\ ClearsOnHandover /\ FreezesSale /\ MovesForward

SaleTypeOK ==
    /\ listing \in [Names -> Listing \cup {Nil}]
    /\ offer \in [Names -> [Wallets -> Offer \cup {Nil}]]
    /\ escrow \in [Names -> [Wallets -> Nat]]
    /\ auction \in [Names -> Auction \cup {Nil}]
    /\ bidVault \in [Names -> Nat]
    /\ sol \in [Wallets -> Nat]

-----------------------------------------------------------------------------
(* The registry's own steps: no sale begins, and a frozen name stays as it *)
(* is.                                                                     *)

\* A name that is listed after the step was listed before it, unchanged in
\* everything that FreezesSale protects.
SaleKept ==
    \A n \in Names :
        Exists(n)' /\ rec'[n].listed =>
            Exists(n) /\ rec[n].listed /\ Frozen(rec'[n]) = Frozen(rec[n])

\* Writing one record respects its sale when it closes the record, starts an
\* unlisted one, or leaves what is frozen alone.
LEMMA PutSaleKept ==
    ASSUME NamesTypeOK, NEW n \in Names, NEW s, Put(n, s),
           \/ s = Nil
           \/ s.listed = FALSE
           \/ Exists(n) /\ s.listed = rec[n].listed /\ Frozen(s) = Frozen(rec[n])
    PROVE  SaleKept
  BY DEF SaleKept, Put, Exists, NamesTypeOK

\* A step that leaves the records alone respects every sale.
LEMMA UntouchedSaleKept ==
    ASSUME UNCHANGED rec
    PROVE  SaleKept
  BY DEF SaleKept, Exists

\* A renewal leaves the freeze and everything frozen alone.
LEMMA RenewedFrozen ==
    ASSUME NEW r \in NameRecord, NEW years \in Nat
    PROVE  Renewed(r, years).listed = r.listed /\ Frozen(Renewed(r, years)) = Frozen(r)
  BY DEF Renewed, NameRecord, Frozen

\* No registration, renewal, claim or burn disturbs a listed name.
LEMMA LifecycleSaleKept ==
    ASSUME NamesTypeOK, RegistryInv, Lifecycle
    PROVE  SaleKept
  <1> USE TermsNat
  <1>1. ASSUME NEW n \in Names, NEW w, NEW e, Put(n, init_top_level_record(w, e))
        PROVE  SaleKept
    <2>1. init_top_level_record(w, e).listed = FALSE
      BY DEF init_top_level_record
    <2> QED BY <1>1, <2>1, PutSaleKept
  <1>2. ASSUME NEW n \in Names, NEW y \in Nat, Exists(n), Put(n, Renewed(rec[n], y))
        PROVE  SaleKept
    BY <1>2, RenewedFrozen, PutSaleKept, EnvironmentFacts
  <1>3. ASSUME NEW n \in Names, Put(n, Nil)
        PROVE  SaleKept
    BY <1>3, PutSaleKept
  <1>4. ASSUME NEW n \in Names, AutoRenew(n)
        PROVE  SaleKept
    BY <1>2, <1>4 DEF AutoRenew
  <1>5. ASSUME NEW n \in Names, NEW w \in Wallets, NEW y \in Terms, NEW f,
               RenewName(w, n, y, f) \/ RenewWithSolans(w, n, y)
        PROVE  SaleKept
    BY <1>2, <1>5 DEF RenewName, RenewWithSolans
  <1>6. ASSUME NEW n \in Names, NEW p, NEW w \in Wallets, NEW y \in Terms, NEW f,
               \/ RegisterName(p, w, n, y, f) \/ RegisterWithSolans(p, w, n, y)
               \/ ClaimExpired(w, n, y, f)
        PROVE  SaleKept
    BY <1>1, <1>6 DEF RegisterName, RegisterWithSolans, ClaimExpired
  <1>7. ASSUME NEW n \in Names, NEW w, BurnName(w, n)
        PROVE  SaleKept
    BY <1>3, <1>7 DEF BurnName
  <1> QED BY <1>4, <1>5, <1>6, <1>7, Zenon DEF Lifecycle

\* No managing instruction disturbs a listed name.
LEMMA ManagementSaleKept ==
    ASSUME NamesTypeOK, RegistryInv, Management
    PROVE  SaleKept
  <1>1. ASSUME NEW n \in Names, NEW s, Exists(n), ~rec[n].listed, Put(n, s),
               s.listed = rec[n].listed
        PROVE  SaleKept
    <2>1. s.listed = FALSE
      BY <1>1, EnvironmentFacts DEF NameRecord
    <2> QED BY <1>1, <2>1, PutSaleKept
  <1>2. ASSUME NEW w \in Wallets, NEW n \in Names, NEW v \in Wallets, TransferName(w, n, v)
        PROVE  SaleKept
    BY <1>1, <1>2, HandoverFacts, EnvironmentFacts DEF TransferName, OwnerGate, SameTerm
  <1>3. ASSUME NEW w \in Wallets, NEW n \in Names, NEW x \in BOOLEAN, LockTransfer(w, n, x)
        PROVE  SaleKept
    BY <1>1, <1>3, LockFacts, EnvironmentFacts DEF LockTransfer, OwnerGate, SameTitle, SameTerm
  <1>4. ASSUME NEW w \in Wallets, NEW n \in Names, NEW x \in Controllers \cup {Nil},
               SetController(w, n, x)
        PROVE  SaleKept
    BY <1>1, <1>4, ControllerFacts, EnvironmentFacts
       DEF SetController, OwnerGate, SameTitle, SameTerm
  <1>5. ASSUME NEW w \in Wallets, NEW n \in Names, NEW x \in Resolvers \cup {Nil},
               SetResolver(w, n, x)
        PROVE  SaleKept
    BY <1>1, <1>5, ResolverFacts, EnvironmentFacts DEF SetResolver, SameTitle, SameTerm
  <1>6. ASSUME NEW w \in Wallets, NEW n \in Names, NEW x \in Hosts \cup {Nil}, SetHosting(w, n, x)
        PROVE  SaleKept
    BY <1>1, <1>6, HostingFacts, EnvironmentFacts DEF SetHosting, SameTitle, SameTerm
  <1>7. ASSUME NEW w \in Wallets, NEW n \in Names, NEW k \in Keys, NEW v \in Values \cup {Nil},
               UpdateRecord(w, n, k, v)
        PROVE  SaleKept
    BY <1>1, <1>7, RecordFacts, EnvironmentFacts DEF UpdateRecord, SameTitle, SameTerm
  <1>8. ASSUME NEW w \in Wallets, NEW n \in Names, SetReverse(w, n)
        PROVE  SaleKept
    BY <1>1, <1>8, ReverseFacts, EnvironmentFacts DEF SetReverse, OwnerGate, SameTerm
  <1>9. ASSUME NEW w \in Wallets, NEW n \in Names, NEW m \in Mints, TokenizeName(w, n, m)
        PROVE  SaleKept
    BY <1>1, <1>9, MintFacts, EnvironmentFacts DEF TokenizeName, OwnerGate, SameTerm
  <1>10. ASSUME NEW w \in Wallets, NEW n \in Names, RedeemName(w, n)
         PROVE  SaleKept
    <2>1. Exists(n) /\ rec[n] \in NameRecord /\ ~rec[n].listed
      BY <1>10, EnvironmentFacts DEF RedeemName, RegistryInv, SaleUnminted
    <2>2. Handover(rec[n], w) \in NameRecord /\ Handover(rec[n], w).listed = rec[n].listed
      BY <2>1, HandoverFacts DEF SameTerm, SameIdentity
    <2>3. WithMint(Handover(rec[n], w), Nil).listed = rec[n].listed
      BY <2>2, MintFacts DEF SameTerm
    <2> QED BY <1>1, <1>10, <2>1, <2>3 DEF RedeemName
  <1>11. ASSUME NEW w \in Wallets, NEW n \in Names, NEW c \in Names, NEW v \in Wallets,
                WrapSubdomain(w, n, c, v)
         PROVE  SaleKept
    <2>1. Subdomain(n, v).listed = FALSE
      BY DEF Subdomain, init_top_level_record
    <2> QED BY <1>11, <2>1, PutSaleKept DEF WrapSubdomain
  <1>12. ASSUME NEW w \in Wallets, NEW n \in Names, RevokeSubdomain(w, n)
         PROVE  SaleKept
    BY <1>12, PutSaleKept DEF RevokeSubdomain, MayRevoke
  <1> QED BY <1>2, <1>3, <1>4, <1>5, <1>6, <1>7, <1>8, <1>9, <1>10, <1>11, <1>12, Zenon
          DEF Management

\* No step of the registry disturbs a listed name.
LEMMA NamesSaleKept ==
    ASSUME NamesTypeOK, RegistryInv, NamesNext
    PROVE  SaleKept
  <1>1. ASSUME Environment PROVE SaleKept
    BY <1>1, UntouchedSaleKept DEF Environment, Tick, Approve, TradeNft
  <1>2. ASSUME Govern PROVE SaleKept
    BY <1>2, UntouchedSaleKept DEF Govern, registryVars
  <1> QED BY <1>1, <1>2, LifecycleSaleKept, ManagementSaleKept DEF NamesNext

\* A step of the registry that respects every sale, with the sale accounts left
\* alone, is a market step.
LEMMA KeptMarketStep ==
    ASSUME MarketInv, RegistryStep, SaleKept, UNCHANGED marketVars
    PROVE  MarketStep
  <1>1. MarketTypeOK'
    BY DEF MarketInv, MarketTypeOK, RegistryStep, marketVars
  <1>2. FrozenHasSale'
    BY DEF MarketInv, FrozenHasSale, SaleKept, Frozen, OwnersListing, OwnersAuction,
           marketVars, Exists
  <1>3. EscrowsFunded'
    BY DEF MarketInv, EscrowsFunded, marketVars
  <1>4. FreezesSale
    BY DEF FreezesSale, SaleKept
  <1>5. MovesForward
    BY DEF MovesForward, MarketInv, MarketTypeOK, marketVars, Auction
  <1> QED BY <1>1, <1>2, <1>3, <1>4, <1>5 DEF MarketInv, MarketStep, RegistryStep

\* The registry's instructions are market steps.
LEMMA RegistryMarketStep ==
    ASSUME MarketInv, NamesNext, UNCHANGED marketVars
    PROVE  MarketStep
  BY NamesStep, NamesSaleKept, KeptMarketStep DEF MarketInv, MarketTypeOK

-----------------------------------------------------------------------------
(* What a sale does to a record. *)

\* Listing and unlisting flip one flag.
LEMMA ListedFacts ==
    ASSUME NEW r \in NameRecord
    PROVE  /\ SameIdentity(r, Listed(r)) /\ Listed(r).expires_at = r.expires_at
           /\ Listed(r).owner = r.owner /\ Listed(r).nft_mint = r.nft_mint
           /\ Listed(r).reverse_set = r.reverse_set /\ Listed(r).listed = TRUE
  BY DEF Listed, NameRecord, SameIdentity

\* Lifting the freeze changes the `listed` flag and nothing else.
LEMMA UnlistedFacts ==
    ASSUME NEW r \in NameRecord
    PROVE  /\ SameIdentity(r, Unlisted(r)) /\ Unlisted(r).expires_at = r.expires_at
           /\ Unlisted(r).owner = r.owner /\ Unlisted(r).nft_mint = r.nft_mint
           /\ Unlisted(r).reverse_set = r.reverse_set /\ Unlisted(r).controller = r.controller
           /\ Unlisted(r).listed = FALSE
  BY DEF Unlisted, NameRecord, SameIdentity

\* s is r released from sale, or released and handed over.
Released(r, s) ==
    /\ SameIdentity(r, s) /\ s.expires_at = r.expires_at
    /\ s.nft_mint = r.nft_mint /\ s.listed = FALSE
    /\ s.reverse_set => r.reverse_set
    /\ s.owner = r.owner \/ (s.controller = Nil /\ ~s.reverse_set)

\* Cancelling a sale releases the name.
LEMMA UnlistedReleased ==
    ASSUME NEW r \in NameRecord
    PROVE  Released(r, Unlisted(r))
  BY UnlistedFacts DEF Released

\* Selling a name releases it to the buyer without delegate and reverse flag.
LEMMA SoldReleased ==
    ASSUME NEW r \in NameRecord, NEW w \in Wallets
    PROVE  Released(r, Unlisted(Handover(r, w)))
  <1> DEFINE h == Handover(r, w)
  <1>1. /\ SameTerm(r, h) /\ h.reverse_set = FALSE /\ h.controller = Nil
        /\ h.nft_mint = r.nft_mint
    BY HandoverFacts
  <1> HIDE DEF h
  <1>2. h \in NameRecord
    BY <1>1 DEF SameTerm, SameIdentity
  <1>3. /\ SameIdentity(h, Unlisted(h)) /\ Unlisted(h).expires_at = h.expires_at
        /\ Unlisted(h).nft_mint = h.nft_mint /\ Unlisted(h).reverse_set = h.reverse_set
        /\ Unlisted(h).controller = h.controller /\ Unlisted(h).listed = FALSE
    BY <1>2, UnlistedFacts
  <1>4. Released(r, Unlisted(h))
    BY <1>1, <1>3 DEF Released, SameTerm, SameIdentity
  <1> QED BY <1>4 DEF h

\* A step that releases one name.
LEMMA ReleaseKeeps ==
    ASSUME NamesTypeOK, RegistryInv, NEW n \in Names, NEW s, Exists(n),
           Released(rec[n], s), Put(n, s), UNCHANGED <<now, reverse, holder, allowance>>, LedgerOK'
    PROVE  RegistryStep /\ SaleKept
  <1>1. EnvironmentTypeOK'
    BY EnvironmentFacts DEF EnvironmentTypeOK
  <1>2. s \in NameRecord /\ rec[n].expires_at \in Nat
    BY EnvironmentFacts DEF Released, SameIdentity, NameRecord
  <1>3. s.expires_at >= rec[n].expires_at
    BY <1>2 DEF Released
  <1>4. RegistryStep
    BY <1>1, <1>2, <1>3, UpdateKeeps DEF Released, Put
  <1>5. SaleKept
    BY PutSaleKept DEF Released
  <1> QED BY <1>4, <1>5

\* A step that freezes one name.
LEMMA ListKeeps ==
    ASSUME NamesTypeOK, RegistryInv, NEW w \in Wallets, NEW n \in Names, OwnerGate(w, n),
           Put(n, Listed(rec[n])), OnlyRecord
    PROVE  RegistryStep /\ FreezesSale
  <1>1. Exists(n) /\ rec[n] \in NameRecord /\ rec[n].expires_at \in Nat /\ rec[n].nft_mint = Nil
    BY EnvironmentFacts DEF OwnerGate, NameRecord
  <1> DEFINE s == Listed(rec[n])
  <1>2. /\ SameIdentity(rec[n], s) /\ s.expires_at = rec[n].expires_at
        /\ s.owner = rec[n].owner /\ s.nft_mint = rec[n].nft_mint
        /\ s.reverse_set = rec[n].reverse_set
    BY <1>1, ListedFacts
  <1>3. rec' = [rec EXCEPT ![n] = s] /\ UNCHANGED <<now, reverse, holder>>
    BY DEF Put, OnlyRecord
  <1>4. EnvironmentTypeOK'
    BY EnvironmentFacts DEF EnvironmentTypeOK, LedgerOK, MoneyTypeOK, OnlyRecord, moneyVars
  <1> HIDE DEF s
  <1>5. s \in NameRecord /\ s.expires_at >= rec[n].expires_at
    BY <1>1, <1>2 DEF SameIdentity
  <1>6. RegistryStep
    BY <1>1, <1>2, <1>3, <1>4, <1>5, UpdateKeeps
  <1>7. FreezesSale
    BY <1>3 DEF FreezesSale, OwnerGate, Exists, NamesTypeOK
  <1> QED BY <1>6, <1>7

\* The marketplace's cut of an amount is at most the amount.
LEMMA FeeBound ==
    ASSUME LedgerOK, NEW amount \in Nat
    PROVE  Fee(amount) \in 0..amount
  <1> DEFINE bps == config.params.marketplace_fee_bps
  <1>1. bps \in Nat
    BY LedgerFacts DEF Params
  <1>2. bps <= MAX_FEE_BPS
    BY DEF LedgerOK, ValidParams
  <1> HIDE DEF bps
  <1>3. bps \in 0..BPS_DENOMINATOR
    BY <1>1, <1>2 DEF MAX_FEE_BPS, BPS_DENOMINATOR
  <1>4. Share(amount, bps) \in 0..amount
    BY <1>3, ShareBound
  <1> QED BY <1>4 DEF Fee, MarketFee, bps

\* The parts of the market invariant that the steps rest on.
LEMMA MarketFacts ==
    ASSUME MarketInv
    PROVE  /\ NamesTypeOK /\ RegistryInv /\ SaleTypeOK /\ LedgerOK
           /\ \A n \in Names : Exists(n) => rec[n] \in NameRecord
           /\ \A n \in Names : listing[n] # Nil => listing[n] \in Listing
           /\ \A n \in Names : auction[n] # Nil => auction[n] \in Auction
           /\ \A n \in Names, w \in Wallets : offer[n][w] # Nil => offer[n][w] \in Offer
  BY EnvironmentFacts DEF MarketInv, MarketTypeOK, SaleTypeOK

\* Steps that leave every auction alone.
LEMMA StillForward ==
    ASSUME MarketInv, UNCHANGED auction
    PROVE  MovesForward
  BY DEF MovesForward, MarketInv, MarketTypeOK, Auction

\* A step that changes only the record leaves the ledger alone.
LEMMA OnlyRecordLedger ==
    ASSUME NamesTypeOK, OnlyRecord
    PROVE  LedgerOK' /\ UNCHANGED <<now, reverse, holder, allowance>>
  BY EnvironmentFacts DEF OnlyRecord, LedgerOK, MoneyTypeOK, moneyVars

\* A step that leaves the registry alone is a registry step that disturbs no sale.
LEMMA RegistryUntouched ==
    ASSUME NamesTypeOK, RegistryInv, UNCHANGED namesVars
    PROVE  RegistryStep /\ SaleKept
  <1>1. EnvironmentTypeOK' /\ UNCHANGED <<now, rec, reverse, holder>>
    BY EnvironmentFacts
       DEF namesVars, registryVars, moneyVars, EnvironmentTypeOK, LedgerOK, MoneyTypeOK
  <1> QED BY <1>1, UntouchedKeeps, UntouchedSaleKept

\* How the parts of a marketplace step come together.
LEMMA Assemble ==
    ASSUME RegistryStep, SaleTypeOK', FrozenHasSale', EscrowsFunded', FreezesSale, MovesForward
    PROVE  MarketStep
  BY DEF RegistryStep, SaleTypeOK, MarketStep, MarketInv, MarketTypeOK

\* A step that respects every sale changes nothing frozen.
LEMMA SaleKeptFreezes ==
    ASSUME SaleKept
    PROVE  FreezesSale
  BY DEF SaleKept, FreezesSale

-----------------------------------------------------------------------------
(* Fixed-price listings. *)

\* list_name preserves the market invariant and makes only the changes
\* the action properties allow.
LEMMA ListNameStep ==
    ASSUME MarketInv, NEW w \in Wallets, NEW n \in Names, NEW p \in Nat, NEW d \in Nat,
           ListName(w, n, p, d)
    PROVE  MarketStep
  <1>1. RegistryStep /\ FreezesSale
    BY MarketFacts, ListKeeps DEF ListName
  <1> DEFINE l == [seller |-> w, price |-> p, expires_at |-> now + d]
  <1>2. l \in Listing /\ l # Nil
    BY SaleAssumption, MarketFacts DEF Listing, NamesTypeOK
  <1>3. /\ listing' = [listing EXCEPT ![n] = l] /\ l.seller = w
        /\ UNCHANGED <<offer, escrow, auction, bidVault, sol>>
    BY DEF ListName
  <1> HIDE DEF l
  <1>4. SaleTypeOK'
    BY <1>2, <1>3, MarketFacts DEF SaleTypeOK
  <1>5. FrozenHasSale'
    <2>1. /\ rec' = [rec EXCEPT ![n] = Listed(rec[n])] /\ rec[n].owner = w
          /\ rec[n].nft_mint = Nil /\ Exists(n) /\ rec[n] \in NameRecord
      BY MarketFacts DEF ListName, Put, OwnerGate
    <2>2. Listed(rec[n]).owner = w /\ Listed(rec[n]).nft_mint = Nil
      BY <2>1, ListedFacts
    <2> QED BY <1>2, <1>3, <2>1, <2>2, MarketFacts
            DEF MarketInv, FrozenHasSale, OwnersListing, OwnersAuction, Exists,
                NamesTypeOK, SaleTypeOK
  <1>6. EscrowsFunded'
    BY <1>3 DEF MarketInv, EscrowsFunded
  <1>7. MovesForward
    BY <1>3, StillForward
  <1> QED BY <1>1, <1>4, <1>5, <1>6, <1>7, Assemble

\* update_listing preserves the market invariant and makes only the changes
\* the action properties allow.
LEMMA UpdateListingStep ==
    ASSUME MarketInv, NEW w \in Wallets, NEW n \in Names, NEW p \in Nat, NEW d \in Nat,
           UpdateListing(w, n, p, d)
    PROVE  MarketStep
  <1>1. RegistryStep /\ SaleKept
    BY MarketFacts, RegistryUntouched DEF UpdateListing
  <1> DEFINE l == [seller |-> w, price |-> p, expires_at |-> now + d]
  <1>2. l \in Listing /\ l # Nil
    BY SaleAssumption, MarketFacts DEF Listing, NamesTypeOK
  <1>3. /\ listing' = [listing EXCEPT ![n] = l] /\ l.seller = w
        /\ listing[n] # Nil /\ listing[n].seller = w
        /\ UNCHANGED <<namesVars, offer, escrow, auction, bidVault, sol>>
    BY DEF UpdateListing
  <1> HIDE DEF l
  <1>4. SaleTypeOK'
    BY <1>2, <1>3, MarketFacts DEF SaleTypeOK
  <1>5. FrozenHasSale'
    BY <1>2, <1>3, MarketFacts
       DEF MarketInv, FrozenHasSale, OwnersListing, OwnersAuction, Exists, SaleTypeOK,
           namesVars, registryVars
  <1>6. EscrowsFunded'
    BY <1>3 DEF MarketInv, EscrowsFunded
  <1> QED BY <1>1, <1>3, <1>4, <1>5, <1>6, StillForward, SaleKeptFreezes, Assemble

\* The sale of n ends: the record is released and n's Listing and Auction
\* accounts are the only ones that may go.
LEMMA ReleaseFrozen ==
    ASSUME MarketInv, NEW n \in Names, NEW s, Exists(n), Released(rec[n], s), Put(n, s),
           \A k \in Names \ {n} : listing'[k] = listing[k] /\ auction'[k] = auction[k]
    PROVE  FrozenHasSale'
  <1>1. s.listed = FALSE /\ rec' = [rec EXCEPT ![n] = s]
        /\ rec \in [Names -> NameRecord \cup {Nil}]
    BY MarketFacts DEF Released, Put, NamesTypeOK
  <1>2. ASSUME NEW k \in Names, rec'[k] # Nil, rec'[k].listed
        PROVE  k # n /\ rec'[k] = rec[k]
    BY <1>1, <1>2
  <1> QED BY <1>2 DEF MarketInv, FrozenHasSale, OwnersListing, OwnersAuction, Exists

\* cancel_listing preserves the market invariant and makes only the changes
\* the action properties allow.
LEMMA CancelListingStep ==
    ASSUME MarketInv, NEW w \in Wallets, NEW n \in Names, CancelListing(w, n)
    PROVE  MarketStep
  <1>1. Exists(n) /\ Released(rec[n], Unlisted(rec[n])) /\ Put(n, Unlisted(rec[n]))
    BY MarketFacts, UnlistedReleased DEF CancelListing
  <1>2. RegistryStep /\ SaleKept
    BY <1>1, MarketFacts, OnlyRecordLedger, ReleaseKeeps DEF CancelListing
  <1>3. /\ listing' = [listing EXCEPT ![n] = Nil]
        /\ UNCHANGED <<offer, escrow, auction, bidVault, sol>>
    BY DEF CancelListing
  <1>4. SaleTypeOK'
    BY <1>3, MarketFacts DEF SaleTypeOK
  <1>5. FrozenHasSale'
    BY <1>1, <1>3, ReleaseFrozen, MarketFacts DEF SaleTypeOK
  <1>6. EscrowsFunded'
    BY <1>3 DEF MarketInv, EscrowsFunded
  <1> QED BY <1>2, <1>3, <1>4, <1>5, <1>6, StillForward, SaleKeptFreezes, Assemble

\* buy_name preserves the market invariant and makes only the changes
\* the action properties allow.
LEMMA BuyNameStep ==
    ASSUME MarketInv, NEW w \in Wallets, NEW n \in Names, NEW p \in Nat, BuyName(w, n, p)
    PROVE  MarketStep
  <1> DEFINE s == Unlisted(Handover(rec[n], w))
  <1>1. Exists(n) /\ Released(rec[n], s) /\ Put(n, s)
    BY MarketFacts, SoldReleased DEF BuyName
  <1> HIDE DEF s
  <1>2. RegistryStep /\ SaleKept
    BY <1>1, MarketFacts, OnlyRecordLedger, ReleaseKeeps DEF BuyName
  <1>3. /\ listing' = [listing EXCEPT ![n] = Nil]
        /\ UNCHANGED <<offer, escrow, auction, bidVault>>
    BY DEF BuyName
  <1>4. sol' \in [Wallets -> Nat]
    <2>1. Fee(p) \in 0..p
      BY FeeBound, MarketFacts
    <2>2. listing[n].seller \in Wallets /\ config.params.sol_treasury \in Wallets
      BY MarketFacts, LedgerFacts DEF BuyName, Listing
    <2>3. /\ sol' = [[[sol EXCEPT ![w] = @ - p] EXCEPT ![listing[n].seller] = @ + (p - Fee(p))]
                             EXCEPT ![config.params.sol_treasury] = @ + Fee(p)]
          /\ p <= sol[w] /\ sol \in [Wallets -> Nat]
      BY MarketFacts DEF BuyName, SaleTypeOK
    <2> QED BY <2>1, <2>2, <2>3
  <1>5. SaleTypeOK'
    BY <1>3, <1>4, MarketFacts DEF SaleTypeOK
  <1>6. FrozenHasSale'
    BY <1>1, <1>3, ReleaseFrozen, MarketFacts DEF SaleTypeOK
  <1>7. EscrowsFunded'
    BY <1>3 DEF MarketInv, EscrowsFunded
  <1> QED BY <1>2, <1>3, <1>5, <1>6, <1>7, StillForward, SaleKeptFreezes, Assemble

-----------------------------------------------------------------------------
(* Offers. *)

\* make_offer preserves the market invariant and makes only the changes
\* the action properties allow.
LEMMA MakeOfferStep ==
    ASSUME MarketInv, NEW w \in Wallets, NEW n \in Names, NEW x \in Nat, NEW d \in Nat,
           MakeOffer(w, n, x, d)
    PROVE  MarketStep
  <1>1. RegistryStep /\ SaleKept
    BY MarketFacts, RegistryUntouched DEF MakeOffer
  <1> DEFINE o == [amount |-> x, expires_at |-> now + d]
  <1>2. o \in Offer /\ o # Nil /\ o.amount = x
    BY SaleAssumption, MarketFacts DEF Offer, NamesTypeOK
  <1>3. /\ offer[n][w] = Nil /\ x <= sol[w]
        /\ offer' = [offer EXCEPT ![n][w] = o]
        /\ escrow' = [escrow EXCEPT ![n][w] = @ + x]
        /\ sol' = [sol EXCEPT ![w] = @ - x]
        /\ UNCHANGED <<namesVars, listing, auction, bidVault>>
    BY DEF MakeOffer
  <1> HIDE DEF o
  <1>4. SaleTypeOK'
    BY <1>2, <1>3, MarketFacts DEF SaleTypeOK
  <1>5. FrozenHasSale'
    BY <1>3 DEF MarketInv, FrozenHasSale, OwnersListing, OwnersAuction, Exists,
                namesVars, registryVars
  <1>6. EscrowsFunded'
    BY <1>2, <1>3, MarketFacts DEF MarketInv, EscrowsFunded, SaleTypeOK
  <1> QED BY <1>1, <1>3, <1>4, <1>5, <1>6, StillForward, SaleKeptFreezes, Assemble

\* cancel_offer preserves the market invariant and makes only the changes
\* the action properties allow.
LEMMA CancelOfferStep ==
    ASSUME MarketInv, NEW v \in Wallets, NEW n \in Names, NEW w \in Wallets,
           CancelOffer(v, n, w)
    PROVE  MarketStep
  <1>1. RegistryStep /\ SaleKept
    BY MarketFacts, RegistryUntouched DEF CancelOffer
  <1>2. /\ offer' = [offer EXCEPT ![n][w] = Nil]
        /\ escrow' = [escrow EXCEPT ![n][w] = 0]
        /\ sol' = [sol EXCEPT ![w] = @ + escrow[n][w]]
        /\ UNCHANGED <<namesVars, listing, auction, bidVault>>
    BY DEF CancelOffer
  <1>3. SaleTypeOK'
    BY <1>2, MarketFacts DEF SaleTypeOK
  <1>4. FrozenHasSale'
    BY <1>2 DEF MarketInv, FrozenHasSale, OwnersListing, OwnersAuction, Exists,
                namesVars, registryVars
  <1>5. EscrowsFunded'
    BY <1>2, MarketFacts DEF MarketInv, EscrowsFunded, SaleTypeOK
  <1> QED BY <1>1, <1>2, <1>3, <1>4, <1>5, StillForward, SaleKeptFreezes, Assemble

\* accept_offer preserves the market invariant and makes only the changes
\* the action properties allow.
LEMMA AcceptOfferStep ==
    ASSUME MarketInv, NEW v \in Wallets, NEW n \in Names, NEW w \in Wallets,
           AcceptOffer(v, n, w)
    PROVE  MarketStep
  <1> DEFINE s == Handover(rec[n], w)
             amount == offer[n][w].amount
  <1>1. Exists(n) /\ rec[n] \in NameRecord /\ ~rec[n].listed /\ offer[n][w] # Nil
    BY MarketFacts DEF AcceptOffer, OwnerGate
  <1>2. Released(rec[n], s) /\ Put(n, s)
    <2>1. rec[n].listed = FALSE
      BY <1>1 DEF NameRecord
    <2> QED BY <1>1, <2>1, HandoverFacts DEF AcceptOffer, Released, SameTerm
  <1> HIDE DEF s
  <1>3. RegistryStep /\ SaleKept
    BY <1>1, <1>2, MarketFacts, OnlyRecordLedger, ReleaseKeeps DEF AcceptOffer
  <1>4. amount \in Nat
    BY <1>1, MarketFacts DEF Offer
  <1>5. /\ amount <= escrow[n][w]
        /\ sol' = [[[sol EXCEPT ![v] = @ + (amount - Fee(amount))]
                           EXCEPT ![config.params.sol_treasury] = @ + Fee(amount)]
                           EXCEPT ![w] = @ + (escrow[n][w] - amount)]
        /\ offer' = [offer EXCEPT ![n][w] = Nil]
        /\ escrow' = [escrow EXCEPT ![n][w] = 0]
        /\ UNCHANGED <<listing, auction, bidVault>>
    BY DEF AcceptOffer
  <1> HIDE DEF amount
  <1>6. sol' \in [Wallets -> Nat]
    <2>1. Fee(amount) \in 0..amount
      BY <1>4, FeeBound, MarketFacts
    <2>2. config.params.sol_treasury \in Wallets /\ escrow[n][w] \in Nat
          /\ sol \in [Wallets -> Nat]
      BY MarketFacts, LedgerFacts DEF SaleTypeOK
    <2> QED BY <1>4, <1>5, <2>1, <2>2
  <1>7. SaleTypeOK'
    BY <1>5, <1>6, MarketFacts DEF SaleTypeOK
  <1>8. FrozenHasSale'
    BY <1>1, <1>2, <1>5, ReleaseFrozen
  <1>9. EscrowsFunded'
    BY <1>5, MarketFacts DEF MarketInv, EscrowsFunded, SaleTypeOK
  <1> QED BY <1>3, <1>5, <1>7, <1>8, <1>9, StillForward, SaleKeptFreezes, Assemble

-----------------------------------------------------------------------------
(* Auctions. *)

\* start_auction preserves the market invariant and makes only the changes
\* the action properties allow.
LEMMA StartAuctionStep ==
    ASSUME MarketInv, NEW w \in Wallets, NEW n \in Names, NEW r \in Nat, NEW i \in Nat,
           NEW d \in Nat, StartAuction(w, n, r, i, d)
    PROVE  MarketStep
  <1>1. RegistryStep /\ FreezesSale
    BY MarketFacts, ListKeeps DEF StartAuction
  <1> DEFINE a == [seller |-> w, highest_bidder |-> Nil, highest_bid |-> 0,
                   reserve_price |-> r, min_increment |-> i, end_time |-> now + d]
  <1>2. a \in Auction /\ a # Nil /\ a.highest_bidder = Nil /\ a.highest_bid = 0
    BY SaleAssumption, MarketFacts DEF Auction, NamesTypeOK
  <1>3. /\ auction' = [auction EXCEPT ![n] = a] /\ a.seller = w /\ auction[n] = Nil
        /\ UNCHANGED <<listing, offer, escrow, bidVault, sol>>
    BY DEF StartAuction
  <1> HIDE DEF a
  <1>4. SaleTypeOK'
    BY <1>2, <1>3, MarketFacts DEF SaleTypeOK
  <1>5. FrozenHasSale'
    <2>1. /\ rec' = [rec EXCEPT ![n] = Listed(rec[n])] /\ rec[n].owner = w
          /\ rec[n].nft_mint = Nil /\ Exists(n) /\ rec[n] \in NameRecord
      BY MarketFacts DEF StartAuction, Put, OwnerGate
    <2>2. Listed(rec[n]).owner = w /\ Listed(rec[n]).nft_mint = Nil
      BY <2>1, ListedFacts
    <2> QED BY <1>2, <1>3, <2>1, <2>2, MarketFacts
            DEF MarketInv, FrozenHasSale, OwnersListing, OwnersAuction, Exists,
                NamesTypeOK, SaleTypeOK
  <1>6. EscrowsFunded'
    BY <1>2, <1>3, MarketFacts DEF MarketInv, EscrowsFunded, SaleTypeOK
  <1>7. MovesForward
    BY <1>3, MarketFacts DEF MovesForward, SaleTypeOK, Auction
  <1> QED BY <1>1, <1>4, <1>5, <1>6, <1>7, Assemble

\* bid preserves the market invariant and makes only the changes
\* the action properties allow.
LEMMA BidStep ==
    ASSUME MarketInv, NEW w \in Wallets, NEW n \in Names, NEW x \in Nat, Bid(w, n, x)
    PROVE  MarketStep
  <1> DEFINE a == auction[n]
             b == Outbid(a, w, x)
             refund == IF a.highest_bidder = Nil THEN 0 ELSE a.highest_bid
             R == Refunded(a)
  <1>1. /\ a # Nil /\ a \in Auction /\ w # Nil /\ now \in Nat /\ Extension \in Nat
        /\ solans \in [Wallets -> Nat]
    BY MarketFacts, MarketAssumption, MoneyAssumption
       DEF Bid, NamesTypeOK, MoneyTypeOK
  <1>2. /\ b \in Auction /\ b.seller = a.seller /\ b.highest_bidder = w /\ b.highest_bid = x
        /\ b.end_time = Later(a.end_time, now + Extension)
    <2>1. Later(a.end_time, now + Extension) \in Nat
      BY <1>1 DEF Later, Auction
    <2> HIDE DEF a
    <2> QED BY <1>1, <2>1 DEF Outbid, Auction
  <1>3. b # Nil
    BY <1>2, SaleAssumption
  <1>4. /\ R \in [Wallets -> Nat]
        /\ \A v \in Wallets : v = a.highest_bidder => R[v] = solans[v] + a.highest_bid
    BY <1>1, MoneyAssumption DEF Refunded, Auction
  <1>5. /\ x > 0 /\ x >= MinRequired(a) /\ x <= R[w]
        /\ solans' = [R EXCEPT ![w] = @ - x]
        /\ bidVault' = [bidVault EXCEPT ![n] = @ - refund + x]
        /\ auction' = [auction EXCEPT ![n] = b]
        /\ UNCHANGED <<registryVars, config, usdc, vault, listing, offer, escrow, sol>>
    BY DEF Bid
  <1>6. bidVault[n] = refund /\ refund \in Nat
    BY <1>1 DEF MarketInv, EscrowsFunded, Auction
  <1> HIDE DEF b, refund, R
  <1>7. solans' \in [Wallets -> Nat]
    BY <1>4, <1>5
  <1>8. RegistryStep /\ SaleKept
    <2>1. EnvironmentTypeOK' /\ UNCHANGED <<now, rec, reverse, holder>>
      BY <1>5, <1>7, MarketFacts, EnvironmentFacts
         DEF registryVars, EnvironmentTypeOK, LedgerOK, MoneyTypeOK
    <2> QED BY <2>1, UntouchedKeeps, UntouchedSaleKept, MarketFacts
  <1>9. SaleTypeOK'
    BY <1>2, <1>5, <1>6, MarketFacts DEF SaleTypeOK
  <1>10. FrozenHasSale'
    BY <1>1, <1>2, <1>3, <1>5, MarketFacts
       DEF MarketInv, FrozenHasSale, OwnersListing, OwnersAuction, Exists, SaleTypeOK, registryVars
  <1>11. EscrowsFunded'
    BY <1>1, <1>2, <1>3, <1>5, <1>6, MarketFacts DEF MarketInv, EscrowsFunded, SaleTypeOK
  <1>12. MovesForward
    <2>1. AnswersBid(a, b) /\ b.end_time >= a.end_time
      <3>1. b.end_time >= now + Extension /\ b.end_time >= a.end_time
        BY <1>1, <1>2 DEF Later, Auction
      <3>2. a.highest_bidder \notin {Nil, w} =>
              solans'[a.highest_bidder] = solans[a.highest_bidder] + a.highest_bid
        BY <1>1, <1>4, <1>5 DEF Auction
      <3> QED BY <1>2, <1>5, <3>1, <3>2 DEF AnswersBid
    <2>2. ASSUME NEW k \in Names, k # n, auction[k] # Nil
          PROVE  auction'[k] = auction[k] /\ auction[k].end_time \in Nat
      BY <1>5, <2>2, MarketFacts DEF SaleTypeOK, Auction
    <2>3. auction'[n] = b
      BY <1>5, MarketFacts DEF SaleTypeOK
    <2> QED BY <1>2, <2>1, <2>2, <2>3 DEF MovesForward
  <1> QED BY <1>8, <1>9, <1>10, <1>11, <1>12, SaleKeptFreezes, Assemble

\* Closing an auction disturbs no other.
LEMMA ClosedForward ==
    ASSUME MarketInv, NEW n \in Names, auction' = [auction EXCEPT ![n] = Nil]
    PROVE  MovesForward
  BY MarketFacts DEF MovesForward, SaleTypeOK, Auction

\* cancel_auction preserves the market invariant and makes only the changes
\* the action properties allow.
LEMMA CancelAuctionStep ==
    ASSUME MarketInv, NEW w \in Wallets, NEW n \in Names, CancelAuction(w, n)
    PROVE  MarketStep
  <1>1. Exists(n) /\ Released(rec[n], Unlisted(rec[n])) /\ Put(n, Unlisted(rec[n]))
    BY MarketFacts, UnlistedReleased DEF CancelAuction
  <1>2. RegistryStep /\ SaleKept
    BY <1>1, MarketFacts, OnlyRecordLedger, ReleaseKeeps DEF CancelAuction
  <1>3. /\ auction' = [auction EXCEPT ![n] = Nil] /\ bidVault[n] = 0
        /\ UNCHANGED <<listing, offer, escrow, bidVault, sol>>
    BY DEF CancelAuction
  <1>4. SaleTypeOK'
    BY <1>3, MarketFacts DEF SaleTypeOK
  <1>5. FrozenHasSale'
    BY <1>1, <1>3, ReleaseFrozen, MarketFacts DEF SaleTypeOK
  <1>6. EscrowsFunded'
    BY <1>3, MarketFacts DEF MarketInv, EscrowsFunded, SaleTypeOK
  <1> QED BY <1>2, <1>3, <1>4, <1>5, <1>6, ClosedForward, SaleKeptFreezes, Assemble

\* settle_auction preserves the market invariant and makes only the changes
\* the action properties allow.
LEMMA SettleAuctionStep ==
    ASSUME MarketInv, NEW n \in Names, SettleAuction(n)
    PROVE  MarketStep
  <1>1. Exists(n) /\ rec[n] \in NameRecord /\ auction[n] # Nil /\ auction[n] \in Auction
    BY MarketFacts DEF SettleAuction
  <1>2. /\ auction' = [auction EXCEPT ![n] = Nil]
        /\ UNCHANGED <<now, reverse, holder, allowance, config, usdc, vault>>
        /\ UNCHANGED <<listing, offer, escrow, sol>>
    BY DEF SettleAuction
  <1>3. /\ solans' \in [Wallets -> Nat] /\ bidVault' = [bidVault EXCEPT ![n] = 0]
        /\ \E s : Released(rec[n], s) /\ Put(n, s)
    <2>1. CASE SettleWithWinner(n)
      <3> DEFINE x == auction[n].highest_bid
                 o == auction[n].seller
      <3>1. x \in Nat /\ o \in Wallets /\ auction[n].highest_bidder \in Wallets
        BY <1>1, <2>1 DEF SettleWithWinner, Auction
      <3>2. Fee(x) \in 0..x /\ solans \in [Wallets -> Nat]
        BY <3>1, FeeBound, MarketFacts DEF LedgerOK, MoneyTypeOK
      <3>3. /\ solans' = [solans EXCEPT ![o] = @ + (x - Fee(x))]
            /\ bidVault' = [bidVault EXCEPT ![n] = 0]
            /\ Put(n, Unlisted(Handover(rec[n], auction[n].highest_bidder)))
        BY <2>1 DEF SettleWithWinner
      <3> HIDE DEF x, o
      <3>4. solans' \in [Wallets -> Nat]
        BY <3>1, <3>2, <3>3
      <3> QED BY <1>1, <3>1, <3>3, <3>4, SoldReleased
    <2>2. CASE SettleWithoutBid(n)
      <3>1. solans' \in [Wallets -> Nat]
        BY <2>2, MarketFacts DEF SettleWithoutBid, LedgerOK, MoneyTypeOK
      <3>2. bidVault' = [bidVault EXCEPT ![n] = 0]
        BY <2>2, MarketFacts DEF SettleWithoutBid, SaleTypeOK
      <3> QED BY <1>1, <2>2, <3>1, <3>2, UnlistedReleased DEF SettleWithoutBid
    <2> QED BY <2>1, <2>2 DEF SettleAuction
  <1>4. PICK s : Released(rec[n], s) /\ Put(n, s)
    BY <1>3
  <1>5. LedgerOK'
    BY <1>2, <1>3, MarketFacts DEF LedgerOK, MoneyTypeOK
  <1>6. RegistryStep /\ SaleKept
    BY <1>1, <1>2, <1>4, <1>5, MarketFacts, ReleaseKeeps
  <1>7. SaleTypeOK'
    BY <1>2, <1>3, MarketFacts DEF SaleTypeOK
  <1>8. FrozenHasSale'
    BY <1>1, <1>2, <1>4, ReleaseFrozen, MarketFacts DEF SaleTypeOK
  <1>9. EscrowsFunded'
    BY <1>2, <1>3, MarketFacts DEF MarketInv, EscrowsFunded, SaleTypeOK
  <1> QED BY <1>2, <1>6, <1>7, <1>8, <1>9, ClosedForward, SaleKeptFreezes, Assemble

-----------------------------------------------------------------------------
(* The theorems. *)

\* The configuration of a deployed registry.
LEMMA DeployedConfig ==
    ASSUME Deployed
    PROVE  config \in Config /\ config # Nil /\ ValidParams(config.params)
  <1> USE MoneyAssumption
  <1>1. PICK admin \in Admins, p \in ParamChoices, s \in SolansChoices :
          /\ ValidParams(p)
          /\ config = [admin |-> admin, params |-> p, solans |-> s, solans_mint |-> TRUE,
                       staking_vault |-> "staking_pool", burn_vault |-> "burn_pool"]
    BY DEF Deployed
  <1>2. admin \in Wallets /\ p \in Params(Wallets) /\ s \in [rate: Nat, discount: Nat]
    OBVIOUS
  <1>3. config \in Config
    BY <1>1, <1>2 DEF Config
  <1> QED BY <1>1, <1>3, ConfigAssumption

\* The deployed registry with no sales satisfies the market invariant.
LEMMA MarketInitial ==
    ASSUME MarketInit
    PROVE  MarketInv
  <1> USE MoneyAssumption, RegistryAssumption, MarketAssumption
  <1>1. config \in Config /\ config # Nil /\ ValidParams(config.params)
    BY DeployedConfig DEF MarketInit, NamesInit
  <1>2. MoneyTypeOK
    BY <1>1 DEF MarketInit, NamesInit, MoneyInit, MoneyTypeOK
  <1>3. NamesTypeOK
    BY <1>1, <1>2 DEF MarketInit, NamesInit, NamesTypeOK
  <1>4. MarketTypeOK
    BY <1>3 DEF MarketInit, MarketTypeOK
  <1>5. \A n \in Names : ~Exists(n)
    BY DEF MarketInit, NamesInit, Exists
  <1>6. RegistryInv /\ FrozenHasSale
    BY <1>5 DEF RegistryInv, NftBacked, ReverseBacked, TenureOrder, SaleUnminted, FrozenHasSale
  <1>7. EscrowsFunded
    BY DEF MarketInit, EscrowsFunded
  <1> QED BY <1>4, <1>6, <1>7 DEF MarketInv

\* Every listing and offer instruction is a market step.
LEMMA TradingStep ==
    ASSUME MarketInv, Trading
    PROVE  MarketStep
  <1>1. Prices \subseteq Nat /\ Durations \subseteq Nat /\ OfferAmounts \subseteq Nat
    BY MarketAssumption
  <1> QED BY <1>1, ListNameStep, UpdateListingStep, CancelListingStep, BuyNameStep,
             MakeOfferStep, CancelOfferStep, AcceptOfferStep DEF Trading

\* Every auction instruction is a market step.
LEMMA AuctionsStep ==
    ASSUME MarketInv, Auctions
    PROVE  MarketStep
  <1>1. /\ Reserves \subseteq Nat /\ Increments \subseteq Nat /\ Bids \subseteq Nat
        /\ Durations \subseteq Nat
    BY MarketAssumption
  <1> QED BY <1>1, StartAuctionStep, BidStep, CancelAuctionStep, SettleAuctionStep DEF Auctions

\* Every step of the system is a market step.
LEMMA NextStep ==
    ASSUME MarketInv, Next
    PROVE  MarketStep
  BY RegistryMarketStep, TradingStep, AuctionsStep DEF Next

\* The market invariant is inductive.
LEMMA InvariantStep == MarketInv /\ [Next]_vars => MarketInv'
  <1>1. ASSUME MarketInv, Next PROVE MarketInv'
    BY <1>1, NextStep DEF MarketStep
  <1>2. ASSUME MarketInv, UNCHANGED vars PROVE MarketInv'
    <2>1. RegistryStep
      BY <1>2, RegistryUntouched, MarketFacts DEF vars
    <2>2. SaleTypeOK' /\ EscrowsFunded' /\ FrozenHasSale'
      BY <1>2, MarketFacts
         DEF vars, marketVars, namesVars, registryVars, SaleTypeOK, MarketInv, EscrowsFunded,
             FrozenHasSale, OwnersListing, OwnersAuction, Exists
    <2> QED BY <2>1, <2>2 DEF RegistryStep, MarketInv, MarketTypeOK, SaleTypeOK
  <1> QED BY <1>1, <1>2

\* The inductive invariant: typing, the four registry invariants and the two
\* marketplace invariants together.
THEOREM Invariance == Spec => []MarketInv
  <1>1. MarketInit => MarketInv
    BY MarketInitial
  <1> QED BY <1>1, InvariantStep, PTL DEF Spec

\* Every account of the program stays well typed: no balance is ever
\* overdrawn, no field leaves its range (all instructions).
THEOREM TypeCorrect == Spec => []MarketTypeOK
  <1>1. MarketInv => MarketTypeOK
    BY DEF MarketInv
  <1> QED BY <1>1, Invariance, PTL

\* A frozen name can always be bought or released by way of an account of its
\* current owner (list_name, start_auction and everything that ends a sale).
THEOREM NeverStuckFrozen == Spec => []FrozenHasSale
  <1>1. MarketInv => FrozenHasSale
    BY DEF MarketInv
  <1> QED BY <1>1, Invariance, PTL

\* The escrows of bids and offers hold exactly what they owe.
THEOREM EscrowSolvent == Spec => []EscrowsFunded
  <1>1. MarketInv => EscrowsFunded
    BY DEF MarketInv
  <1> QED BY <1>1, Invariance, PTL

\* A tokenized name is backed by an NFT of its own (tokenize_name,
\* redeem_name, claim_expired).
THEOREM TokenizedRedeemable == Spec => []NftBacked
  <1>1. MarketInv => NftBacked
    BY DEF MarketInv, RegistryInv
  <1> QED BY <1>1, Invariance, PTL

\* A set reverse flag always belongs to a wallet that has a reverse record
\* (set_reverse and every change of owner).
THEOREM ReverseFlagOwned == Spec => []ReverseBacked
  <1>1. MarketInv => ReverseBacked
    BY DEF MarketInv, RegistryInv
  <1> QED BY <1>1, Invariance, PTL

\* Registration times are ordered along the tree of names (register_name,
\* wrap_subdomain, claim_expired, burn_name).
THEOREM TenureOrdered == Spec => []TenureOrder
  <1>1. MarketInv => TenureOrder
    BY DEF MarketInv, RegistryInv
  <1> QED BY <1>1, Invariance, PTL

\* A claim invalidates every existing subdomain of the claimed name.
THEOREM ClaimInvalidatesSubtree == Spec => ClaimCutsSubtree
  <1>1. MarketInv => CutsSubtree
    BY ClaimCuts DEF MarketInv, MarketTypeOK
  <1> QED BY <1>1, Invariance, PTL DEF ClaimCutsSubtree

\* No previous owner's delegate or reverse flag survives a change of owner.
THEOREM HandoverIsClean == Spec => HandoverClears
  <1>1. MarketInv /\ [Next]_vars => [ClearsOnHandover]_namesVars
    <2>1. ASSUME MarketInv, Next PROVE ClearsOnHandover
      BY <2>1, NextStep DEF MarketStep
    <2> QED BY <2>1 DEF vars
  <1> QED BY <1>1, Invariance, PTL DEF Spec, HandoverClears

\* What a buyer looked at does not change while the name is for sale.
THEOREM SaleIsFrozen == Spec => SaleFreezes
  <1>1. MarketInv /\ [Next]_vars => [FreezesSale]_vars
    <2>1. ASSUME MarketInv, Next PROVE FreezesSale
      BY <2>1, NextStep DEF MarketStep
    <2> QED BY <2>1
  <1> QED BY <1>1, Invariance, PTL DEF Spec, SaleFreezes

\* An auction only moves forward and refunds whoever is outbid in full.
THEOREM AuctionMovesForward == Spec => BidsMoveForward
  <1>1. MarketInv /\ [Next]_vars => [MovesForward]_vars
    <2>1. ASSUME MarketInv, Next PROVE MovesForward
      BY <2>1, NextStep DEF MarketStep
    <2> QED BY <2>1
  <1> QED BY <1>1, Invariance, PTL DEF Spec, BidsMoveForward
=============================================================================
