---------------------------- MODULE NamesProofs ----------------------------
(***************************************************************************)
(* Every instruction of the registry keeps the accounts well typed and     *)
(* keeps NftBacked, ReverseBacked and TenureOrder.  The instructions come  *)
(* in three shapes (update a live record, create or replace one, close     *)
(* one), and each shape has a lemma of its own.                            *)
(***************************************************************************)
EXTENDS Names, ProtocolProofs

\* A name for sale is not tokenized: the part of FrozenHasSale that is about
\* the record alone.
SaleUnminted == \A n \in Names : Exists(n) /\ rec[n].listed => rec[n].nft_mint = Nil

RegistryInv == NftBacked /\ ReverseBacked /\ TenureOrder /\ SaleUnminted

\* What every step of the registry and of the marketplace satisfies.
RegistryStep == NamesTypeOK' /\ RegistryInv' /\ ClearsOnHandover

\* The parts of NamesTypeOK that are not about records.
EnvironmentTypeOK ==
    /\ now \in Nat
    /\ reverse \in [Wallets -> Names \cup {Nil}]
    /\ holder \in [Mints -> Wallets \cup {Nil}]
    /\ allowance \in [Wallets -> Nat]
    /\ LedgerOK

-----------------------------------------------------------------------------
(* What the update operators do to the fields the invariants look at. *)

\* s is r with its identity (when and under what it was registered) intact.
SameIdentity(r, s) ==
    /\ s \in NameRecord
    /\ s.registered_at = r.registered_at
    /\ s.parent = r.parent /\ s.parent_registered_at = r.parent_registered_at

\* ... and with its term and its sale intact.
SameTerm(r, s) ==
    SameIdentity(r, s) /\ s.expires_at = r.expires_at /\ s.listed = r.listed

\* ... and with its ownership intact too: what the annotating updates do.
SameTitle(r, s) ==
    /\ SameTerm(r, s) /\ s.owner = r.owner
    /\ s.reverse_set = r.reverse_set /\ s.nft_mint = r.nft_mint

\* What a change of owner leaves alone and what it clears.
LEMMA HandoverFacts ==
    ASSUME NEW r \in NameRecord, NEW w \in Wallets
    PROVE  /\ SameTerm(r, Handover(r, w)) /\ Handover(r, w).owner = w
           /\ Handover(r, w).reverse_set = FALSE /\ Handover(r, w).controller = Nil
           /\ Handover(r, w).nft_mint = r.nft_mint
  BY DEF Handover, NameRecord, SameTerm, SameIdentity

\* lock_transfer leaves the title of the record alone.
LEMMA LockFacts ==
    ASSUME NEW r \in NameRecord, NEW x \in BOOLEAN
    PROVE  SameTitle(r, WithLock(r, x))
  BY DEF WithLock, NameRecord, SameTitle, SameTerm, SameIdentity

\* set_controller leaves the title of the record alone.
LEMMA ControllerFacts ==
    ASSUME NEW r \in NameRecord, NEW x \in Controllers \cup {Nil}
    PROVE  SameTitle(r, WithController(r, x))
  <1>1. x \in Wallets \cup {Nil}
    BY RegistryAssumption
  <1> QED BY <1>1 DEF WithController, NameRecord, SameTitle, SameTerm, SameIdentity

\* set_resolver leaves the title of the record alone.
LEMMA ResolverFacts ==
    ASSUME NEW r \in NameRecord, NEW x \in Resolvers \cup {Nil}
    PROVE  SameTitle(r, WithResolver(r, x))
  BY DEF WithResolver, NameRecord, SameTitle, SameTerm, SameIdentity

\* set_hosting leaves the title of the record alone.
LEMMA HostingFacts ==
    ASSUME NEW r \in NameRecord, NEW x \in Hosts \cup {Nil}
    PROVE  SameTitle(r, WithHosting(r, x))
  BY DEF WithHosting, NameRecord, SameTitle, SameTerm, SameIdentity

\* Writing or deleting a key leaves the title of the record alone.
LEMMA RecordFacts ==
    ASSUME NEW r \in NameRecord, NEW k \in Keys, NEW v \in Values \cup {Nil}
    PROVE  SameTitle(r, WithRecord(r, k, v))
  BY DEF WithRecord, NameRecord, SameTitle, SameTerm, SameIdentity

\* set_reverse changes the reverse flag and nothing else.
LEMMA ReverseFacts ==
    ASSUME NEW r \in NameRecord
    PROVE  /\ SameTerm(r, WithReverse(r)) /\ WithReverse(r).owner = r.owner
           /\ WithReverse(r).nft_mint = r.nft_mint
  BY DEF WithReverse, NameRecord, SameTerm, SameIdentity

\* Tokenizing and redeeming change the mint and leave owner and term alone.
LEMMA MintFacts ==
    ASSUME NEW r \in NameRecord, NEW m \in Mints \cup {Nil}
    PROVE  /\ SameTerm(r, WithMint(r, m)) /\ WithMint(r, m).owner = r.owner
           /\ WithMint(r, m).reverse_set = r.reverse_set /\ WithMint(r, m).nft_mint = m
  BY DEF WithMint, NameRecord, SameTerm, SameIdentity

\* A renewal moves the expiry forward and leaves the rest alone.
LEMMA RenewedFacts ==
    ASSUME NEW r \in NameRecord, NEW years \in Nat, now \in Nat
    PROVE  /\ SameIdentity(r, Renewed(r, years)) /\ Renewed(r, years).owner = r.owner
           /\ Renewed(r, years).reverse_set = r.reverse_set
           /\ Renewed(r, years).nft_mint = r.nft_mint
           /\ Renewed(r, years).listed = r.listed
           /\ Renewed(r, years).expires_at >= r.expires_at
  <1>1. r.expires_at \in Nat
    BY DEF NameRecord
  <1>2. years * Year \in Nat
    BY RegistryAssumption, TimesNat
  <1> DEFINE e == Later(r.expires_at, now) + years * Year
  <1>3. e \in Nat /\ e >= r.expires_at
    BY <1>1, <1>2 DEF Later
  <1>4. Renewed(r, years) = [r EXCEPT !.expires_at = e]
    BY DEF Renewed
  <1> HIDE DEF e
  <1> QED BY <1>3, <1>4 DEF NameRecord, SameIdentity

\* A record fresh from init_top_level_record.
Fresh(s) ==
    /\ s \in NameRecord /\ s.registered_at = now
    /\ s.reverse_set = FALSE /\ s.nft_mint = Nil /\ s.listed = FALSE

\* A top-level registration or claim yields a fresh record that starts now.
LEMMA TopLevelFacts ==
    ASSUME NEW w \in Wallets, NEW years \in Nat, now \in Nat
    PROVE  LET s == init_top_level_record(w, now + years * Year) IN
           /\ Fresh(s) /\ s.parent = Nil /\ s.parent_registered_at = 0
           /\ s.expires_at >= now
  <1>1. now + years * Year \in Nat /\ now + years * Year >= now
    <2>1. years * Year \in Nat
      BY RegistryAssumption, TimesNat
    <2> QED BY <2>1
  <1> DEFINE e == now + years * Year
  <1>2. e \in Nat /\ e >= now
    BY <1>1
  <1> HIDE DEF e
  <1>3. LET s == init_top_level_record(w, e) IN
           /\ Fresh(s) /\ s.parent = Nil /\ s.parent_registered_at = 0
           /\ s.expires_at >= now
    BY <1>2, RegistryAssumption DEF init_top_level_record, NameRecord, Fresh, NoRecords
  <1> QED BY <1>3 DEF e

\* A new subdomain is a fresh record that captures its parent's registration.
LEMMA SubdomainFacts ==
    ASSUME NEW n \in Names, NEW w \in Wallets, now \in Nat, rec[n] \in NameRecord,
           rec[n].depth + 1 <= MaxDepth, now <= rec[n].expires_at
    PROVE  LET s == Subdomain(n, w) IN
           /\ Fresh(s) /\ s.parent = n
           /\ s.parent_registered_at = rec[n].registered_at
           /\ s.expires_at >= now
  <1>1. /\ rec[n].expires_at \in Nat /\ rec[n].registered_at \in Nat
        /\ rec[n].depth + 1 \in 0..MaxDepth
    BY RegistryAssumption DEF NameRecord
  <1> QED BY <1>1, RegistryAssumption
          DEF Subdomain, init_top_level_record, NameRecord, Fresh, NoRecords

-----------------------------------------------------------------------------
(* The three shapes of instruction. *)

\* An update that keeps a record's identity and never moves its expiry back keeps
\* the registration times in order.
LEMMA TenureKept ==
    ASSUME NamesTypeOK, RegistryInv, NEW n \in Names, Exists(n), NEW s \in NameRecord,
           rec' = [rec EXCEPT ![n] = s], now' = now,
           SameIdentity(rec[n], s), s.expires_at >= rec[n].expires_at
    PROVE  TenureOrder'
  <1>1. rec[n] \in NameRecord /\ rec \in [Names -> NameRecord \cup {Nil}]
    BY DEF NamesTypeOK, Exists
  <1>2. ASSUME NEW k \in Names, rec'[k] # Nil
        PROVE  /\ rec[k] \in NameRecord /\ Exists(k)
               /\ SameIdentity(rec[k], rec'[k])
               /\ rec'[k].expires_at >= rec[k].expires_at
    BY <1>1, <1>2, RecordAssumption DEF Exists, SameIdentity, NameRecord
  <1>3. ASSUME NEW k \in Names, rec'[k] # Nil
        PROVE  Tenured(rec[k])'
    BY <1>2, <1>3 DEF RegistryInv, TenureOrder, Tenured, SameIdentity, NameRecord, NamesTypeOK
  <1>4. ASSUME NEW k \in Names, rec'[k] # Nil
        PROVE  rec'[k].parent = ParentOf[k]
    BY <1>2, <1>4 DEF RegistryInv, TenureOrder, SameIdentity
  <1>5. ASSUME NEW k \in Names, rec'[k] # Nil, ~TopLevel(k), rec'[ParentOf[k]] # Nil
        PROVE  rec'[k].parent_registered_at <= rec'[ParentOf[k]].registered_at
    <2>1. ParentOf[k] \in Names
      BY <1>5, RegistryAssumption DEF TopLevel
    <2> QED BY <1>2, <1>5, <2>1 DEF RegistryInv, TenureOrder, SameIdentity
  <1> QED BY <1>3, <1>4, <1>5 DEF TenureOrder, Exists, TopLevel

\* An update of one record that keeps its identity and title preserves the
\* registry invariant.
LEMMA UpdateKeeps ==
    ASSUME NamesTypeOK, RegistryInv, NEW n \in Names, Exists(n), NEW s \in NameRecord,
           rec' = [rec EXCEPT ![n] = s], UNCHANGED <<now, reverse, holder>>,
           EnvironmentTypeOK',
           SameIdentity(rec[n], s), s.expires_at >= rec[n].expires_at,
           s.nft_mint = rec[n].nft_mint, s.listed => rec[n].listed \/ s.nft_mint = Nil,
           s.reverse_set => rec[n].reverse_set,
           s.owner = rec[n].owner \/ (s.controller = Nil /\ ~s.reverse_set)
    PROVE  RegistryStep
  <1>1. rec[n] \in NameRecord /\ rec \in [Names -> NameRecord \cup {Nil}]
    BY DEF NamesTypeOK, Exists
  <1>2. s # Nil
    BY RecordAssumption
  <1>3. NftBacked'
    BY <1>1, <1>2 DEF RegistryInv, NftBacked, Exists
  <1>4. ReverseBacked'
    BY <1>1, <1>2 DEF RegistryInv, ReverseBacked, Exists
  <1>5. SaleUnminted'
    BY <1>1, <1>2 DEF RegistryInv, SaleUnminted, Exists
  <1>6. TenureOrder'
    BY TenureKept
  <1>7. NamesTypeOK'
    BY <1>1 DEF NamesTypeOK, EnvironmentTypeOK, LedgerOK
  <1>8. ClearsOnHandover
    BY <1>1 DEF ClearsOnHandover, Exists
  <1> QED BY <1>3, <1>4, <1>5, <1>6, <1>7, <1>8 DEF RegistryInv, RegistryStep

\* Putting a fresh record, on a free name or in place of a lapsed one, preserves
\* the registry invariant.
LEMMA CreateKeeps ==
    ASSUME NamesTypeOK, RegistryInv, NEW n \in Names, NEW s \in NameRecord, Fresh(s),
           rec' = [rec EXCEPT ![n] = s], UNCHANGED <<now, reverse, holder>>,
           EnvironmentTypeOK', Exists(n) => s.parent = Nil /\ s.controller = Nil,
           s.expires_at >= now, s.parent = ParentOf[n], s.parent_registered_at <= now,
           s.parent # Nil => s.parent # n,
           s.parent # Nil /\ Exists(s.parent) =>
               s.parent_registered_at <= rec[s.parent].registered_at
    PROVE  RegistryStep
  <1>1. rec \in [Names -> NameRecord \cup {Nil}] /\ now \in Nat
    BY DEF NamesTypeOK
  <1>2. s # Nil
    BY RecordAssumption
  <1>3. NftBacked'
    BY <1>1, <1>2 DEF RegistryInv, NftBacked, Exists, Fresh
  <1>4. ReverseBacked'
    BY <1>1, <1>2 DEF RegistryInv, ReverseBacked, Exists, Fresh
  <1>5. TenureOrder'
    <2>1. ASSUME NEW k \in Names, rec'[k] # Nil
          PROVE  Tenured(rec[k])' /\ rec'[k].parent = ParentOf[k]
      BY <1>1, <2>1 DEF RegistryInv, TenureOrder, Tenured, Fresh, Exists
    <2>2. ASSUME NEW k \in Names, rec'[k] # Nil, ~TopLevel(k), rec'[ParentOf[k]] # Nil
          PROVE  rec'[k].parent_registered_at <= rec'[ParentOf[k]].registered_at
      <3>1. ParentOf[k] \in Names
        BY <2>2, RegistryAssumption DEF TopLevel
      <3>2. CASE k = n
        <4>1. ParentOf[n] # n /\ s.parent # Nil
          BY <2>2, <3>2 DEF TopLevel
        <4> QED BY <1>1, <2>2, <3>1, <3>2, <4>1 DEF Exists
      <3>3. CASE k # n /\ ParentOf[k] = n
        <4>1. rec[k] \in NameRecord /\ Tenured(rec[k]) /\ rec'[k] = rec[k]
          BY <1>1, <2>2, <3>3 DEF RegistryInv, TenureOrder, Exists
        <4>2. rec'[ParentOf[k]].registered_at = now
          BY <1>1, <3>3 DEF Fresh
        <4> QED BY <1>1, <4>1, <4>2 DEF Tenured, NameRecord
      <3>4. CASE k # n /\ ParentOf[k] # n
        BY <1>1, <2>2, <3>1, <3>4 DEF RegistryInv, TenureOrder, Exists
      <3> QED BY <3>2, <3>3, <3>4
    <2> QED BY <2>1, <2>2 DEF TenureOrder, Exists, TopLevel
  <1>6. SaleUnminted'
    BY <1>1, <1>2 DEF RegistryInv, SaleUnminted, Exists, Fresh
  <1>7. NamesTypeOK'
    BY <1>1 DEF NamesTypeOK, EnvironmentTypeOK, LedgerOK
  <1>8. ClearsOnHandover
    BY <1>1 DEF ClearsOnHandover, Exists, Fresh
  <1> QED BY <1>3, <1>4, <1>5, <1>6, <1>7, <1>8 DEF RegistryInv, RegistryStep

\* Closing a record preserves the registry invariant.
LEMMA CloseKeeps ==
    ASSUME NamesTypeOK, RegistryInv, NEW n \in Names,
           rec' = [rec EXCEPT ![n] = Nil], UNCHANGED <<now, reverse, holder>>,
           EnvironmentTypeOK'
    PROVE  RegistryStep
  <1>1. rec \in [Names -> NameRecord \cup {Nil}]
    BY DEF NamesTypeOK
  <1>3. NftBacked'
    BY <1>1 DEF RegistryInv, NftBacked, Exists
  <1>4. ReverseBacked'
    BY <1>1 DEF RegistryInv, ReverseBacked, Exists
  <1>5. TenureOrder'
    <2>1. ASSUME NEW k \in Names, rec'[k] # Nil
          PROVE  Tenured(rec[k])' /\ rec'[k].parent = ParentOf[k]
      BY <1>1, <2>1 DEF RegistryInv, TenureOrder, Tenured, Exists
    <2>2. ASSUME NEW k \in Names, rec'[k] # Nil, ~TopLevel(k), rec'[ParentOf[k]] # Nil
          PROVE  rec'[k].parent_registered_at <= rec'[ParentOf[k]].registered_at
      <3>1. ParentOf[k] \in Names
        BY <2>2, RegistryAssumption DEF TopLevel
      <3> QED BY <1>1, <2>2, <3>1 DEF RegistryInv, TenureOrder, Exists
    <2> QED BY <2>1, <2>2 DEF TenureOrder, Exists, TopLevel
  <1>6. SaleUnminted' /\ ClearsOnHandover
    BY <1>1 DEF RegistryInv, SaleUnminted, ClearsOnHandover, Exists
  <1>7. NamesTypeOK'
    BY <1>1 DEF NamesTypeOK, EnvironmentTypeOK, LedgerOK
  <1> QED BY <1>3, <1>4, <1>5, <1>6, <1>7 DEF RegistryInv, RegistryStep

\* Steps that leave the records and what the invariants relate them to alone.
LEMMA UntouchedKeeps ==
    ASSUME NamesTypeOK, RegistryInv, UNCHANGED <<now, rec, reverse, holder>>, EnvironmentTypeOK'
    PROVE  RegistryStep
  <1>1. RegistryInv'
    BY DEF RegistryInv, NftBacked, ReverseBacked, TenureOrder, Tenured, SaleUnminted,
           Exists, TopLevel
  <1>2. ClearsOnHandover
    BY DEF ClearsOnHandover
  <1>3. NamesTypeOK'
    BY DEF NamesTypeOK, EnvironmentTypeOK, LedgerOK
  <1> QED BY <1>1, <1>2, <1>3 DEF RegistryStep

-----------------------------------------------------------------------------
(* One lemma per instruction. *)

\* The parts of the type invariant that the record updates rest on.
LEMMA EnvironmentFacts ==
    ASSUME NamesTypeOK
    PROVE  /\ EnvironmentTypeOK /\ LedgerOK
           /\ \A n \in Names : Exists(n) => rec[n] \in NameRecord
           /\ \A n \in Names : YearlyPrice(n) \in Nat
           /\ config.params.min_years .. config.params.max_years \subseteq Nat
  <1>1. EnvironmentTypeOK /\ LedgerOK
    BY DEF NamesTypeOK, EnvironmentTypeOK, LedgerOK
  <1>2. config.params \in Params(Wallets)
    BY <1>1, LedgerFacts
  <1>3. config.params.min_years .. config.params.max_years \subseteq Nat
    BY <1>2 DEF Params
  <1>4. ASSUME NEW n \in Names PROVE YearlyPrice(n) \in Nat
    BY <1>2, PriceNat, RegistryAssumption DEF YearlyPrice
  <1>5. ASSUME NEW n \in Names, Exists(n) PROVE rec[n] \in NameRecord
    BY <1>5 DEF NamesTypeOK, Exists
  <1> QED BY <1>1, <1>3, <1>4, <1>5

\* The money half of the paying instructions.
LEMMA FeePaid ==
    ASSUME NamesTypeOK, NEW payer \in Wallets, NEW referrer \in Wallets \cup {Nil},
           NEW n \in Names, NEW years \in Nat,
           DistributeFee(payer, referrer, YearlyPrice(n) * years)
    PROVE  LedgerOK'
  <1>1. YearlyPrice(n) * years \in Nat
    BY EnvironmentFacts, TimesNat
  <1> QED BY <1>1, EnvironmentFacts, DistributeFeeStep

\* Paying a term in $SOLANS preserves the ledger invariant.
LEMMA SolansBurned ==
    ASSUME NamesTypeOK, NEW payer \in Wallets, NEW n \in Names, NEW years \in Nat,
           BurnSolans(payer, solans_fee(config.solans, YearlyPrice(n) * years))
    PROVE  LedgerOK'
  <1>1. YearlyPrice(n) * years \in Nat
    BY EnvironmentFacts, TimesNat
  <1>2. solans_fee(config.solans, YearlyPrice(n) * years) \in Nat
    BY <1>1, EnvironmentFacts, LedgerFacts, SolansFeeNat
  <1> QED BY <1>2, EnvironmentFacts, BurnSolansStep

\* Registration and claim: a fresh top-level record in n's place.
LEMMA FreshKeeps ==
    ASSUME NamesTypeOK, RegistryInv, NEW w \in Wallets, NEW n \in Names, NEW years \in Nat,
           ParentOf[n] = Nil, LedgerOK',
           Put(n, init_top_level_record(w, now + years * Year)), OnlyRecordAndMoney
    PROVE  RegistryStep
  <1> DEFINE s == init_top_level_record(w, now + years * Year)
  <1>1. now \in Nat
    BY DEF NamesTypeOK
  <1>2. /\ Fresh(s) /\ s.parent = Nil /\ s.parent_registered_at = 0 /\ s.expires_at >= now
    BY <1>1, TopLevelFacts
  <1>3. s.controller = Nil
    BY DEF init_top_level_record
  <1>4. rec' = [rec EXCEPT ![n] = s] /\ UNCHANGED <<now, reverse, holder>>
    BY DEF Put, OnlyRecordAndMoney
  <1>5. EnvironmentTypeOK'
    BY EnvironmentFacts DEF EnvironmentTypeOK, OnlyRecordAndMoney
  <1> HIDE DEF s
  <1>6. s \in NameRecord /\ s.parent = ParentOf[n] /\ s.parent_registered_at <= now
    BY <1>1, <1>2 DEF Fresh
  <1> QED BY <1>2, <1>3, <1>4, <1>5, <1>6, CreateKeeps

\* register_name preserves the registry invariant and makes only the changes
\* the action properties allow.
LEMMA RegisterNameStep ==
    ASSUME NamesTypeOK, RegistryInv, NEW payer \in Wallets, NEW w \in Wallets,
           NEW n \in Names, NEW y \in Nat, NEW f \in Wallets \cup {Nil},
           RegisterName(payer, w, n, y, f)
    PROVE  RegistryStep
  <1>1. LedgerOK'
    BY FeePaid DEF RegisterName
  <1> QED BY <1>1, FreshKeeps DEF RegisterName, TopLevel

\* register_with_solans preserves the registry invariant and makes only the changes
\* the action properties allow.
LEMMA RegisterWithSolansStep ==
    ASSUME NamesTypeOK, RegistryInv, NEW payer \in Wallets, NEW w \in Wallets,
           NEW n \in Names, NEW y \in Nat, RegisterWithSolans(payer, w, n, y)
    PROVE  RegistryStep
  <1>1. LedgerOK'
    BY SolansBurned DEF RegisterWithSolans
  <1> QED BY <1>1, FreshKeeps DEF RegisterWithSolans, TopLevel

\* claim_expired preserves the registry invariant and makes only the changes
\* the action properties allow.
LEMMA ClaimExpiredStep ==
    ASSUME NamesTypeOK, RegistryInv, NEW w \in Wallets, NEW n \in Names, NEW y \in Nat,
           NEW f \in Wallets \cup {Nil}, ClaimExpired(w, n, y, f)
    PROVE  RegistryStep
  <1>1. LedgerOK'
    BY FeePaid DEF ClaimExpired
  <1>2. ParentOf[n] = Nil
    BY DEF ClaimExpired, RegistryInv, TenureOrder
  <1> QED BY <1>1, <1>2, FreshKeeps DEF ClaimExpired

\* Renewals: the same record with a later expiry.
LEMMA RenewedKeeps ==
    ASSUME NamesTypeOK, RegistryInv, NEW n \in Names, NEW years \in Nat, Exists(n),
           LedgerOK', Put(n, Renewed(rec[n], years)), UNCHANGED <<now, reverse, holder>>,
           allowance' \in [Wallets -> Nat]
    PROVE  RegistryStep
  <1> DEFINE s == Renewed(rec[n], years)
  <1>1. now \in Nat /\ rec[n] \in NameRecord
    BY EnvironmentFacts DEF NamesTypeOK
  <1>2. /\ SameIdentity(rec[n], s) /\ s.owner = rec[n].owner
        /\ s.reverse_set = rec[n].reverse_set /\ s.nft_mint = rec[n].nft_mint
        /\ s.listed = rec[n].listed /\ s.expires_at >= rec[n].expires_at
    BY <1>1, RenewedFacts
  <1>3. rec' = [rec EXCEPT ![n] = s]
    BY DEF Put
  <1>4. EnvironmentTypeOK'
    BY EnvironmentFacts DEF EnvironmentTypeOK
  <1> HIDE DEF s
  <1>5. s \in NameRecord
    BY <1>2 DEF SameIdentity
  <1> QED BY <1>2, <1>3, <1>4, <1>5, UpdateKeeps

\* renew_name preserves the registry invariant and makes only the changes
\* the action properties allow.
LEMMA RenewNameStep ==
    ASSUME NamesTypeOK, RegistryInv, NEW w \in Wallets, NEW n \in Names, NEW y \in Nat,
           NEW f \in Wallets \cup {Nil}, RenewName(w, n, y, f)
    PROVE  RegistryStep
  <1>1. LedgerOK'
    BY FeePaid DEF RenewName
  <1>2. allowance' \in [Wallets -> Nat]
    BY DEF RenewName, OnlyRecordAndMoney, NamesTypeOK
  <1> QED BY <1>1, <1>2, RenewedKeeps DEF RenewName, OnlyRecordAndMoney

\* renew_with_solans preserves the registry invariant and makes only the changes
\* the action properties allow.
LEMMA RenewWithSolansStep ==
    ASSUME NamesTypeOK, RegistryInv, NEW w \in Wallets, NEW n \in Names, NEW y \in Nat,
           RenewWithSolans(w, n, y)
    PROVE  RegistryStep
  <1>1. LedgerOK'
    BY SolansBurned DEF RenewWithSolans
  <1>2. allowance' \in [Wallets -> Nat]
    BY DEF RenewWithSolans, OnlyRecordAndMoney, NamesTypeOK
  <1> QED BY <1>1, <1>2, RenewedKeeps DEF RenewWithSolans, OnlyRecordAndMoney

\* auto_renew preserves the registry invariant and makes only the changes
\* the action properties allow.
LEMMA AutoRenewStep ==
    ASSUME NamesTypeOK, RegistryInv, NEW n \in Names, AutoRenew(n)
    PROVE  RegistryStep
  <1>1. rec[n].owner \in Wallets /\ YearlyPrice(n) \in Nat
    BY EnvironmentFacts DEF AutoRenew, NameRecord
  <1>2. LedgerOK'
    BY <1>1, EnvironmentFacts, DistributeFeeStep DEF AutoRenew
  <1>3. allowance' \in [Wallets -> Nat]
    BY <1>1 DEF AutoRenew, NamesTypeOK
  <1> QED BY <1>2, <1>3, RenewedKeeps DEF AutoRenew

\* The instructions that annotate a record.
LEMMA AnnotationKeeps ==
    ASSUME NamesTypeOK, RegistryInv, NEW n \in Names, Exists(n), NEW s,
           SameTitle(rec[n], s), Put(n, s), OnlyRecord
    PROVE  RegistryStep
  <1>1. rec' = [rec EXCEPT ![n] = s] /\ UNCHANGED <<now, reverse, holder>>
    BY DEF Put, OnlyRecord
  <1>2. EnvironmentTypeOK'
    BY EnvironmentFacts DEF EnvironmentTypeOK, LedgerOK, MoneyTypeOK, OnlyRecord, moneyVars
  <1>3. s \in NameRecord /\ rec[n].expires_at \in Nat /\ SameIdentity(rec[n], s)
    BY EnvironmentFacts DEF SameTitle, SameTerm, SameIdentity, NameRecord
  <1>4. s.expires_at >= rec[n].expires_at
    BY <1>3 DEF SameTitle, SameTerm
  <1> QED BY <1>1, <1>2, <1>3, <1>4, UpdateKeeps DEF SameTitle, SameTerm

\* lock_transfer preserves the registry invariant and makes only the changes
\* the action properties allow.
LEMMA LockTransferStep ==
    ASSUME NamesTypeOK, RegistryInv, NEW w \in Wallets, NEW n \in Names,
           NEW x \in BOOLEAN, LockTransfer(w, n, x)
    PROVE  RegistryStep
  <1>1. Exists(n) /\ rec[n] \in NameRecord
    BY EnvironmentFacts DEF LockTransfer, OwnerGate
  <1>2. SameTitle(rec[n], WithLock(rec[n], x))
    BY <1>1, LockFacts
  <1> QED BY <1>1, <1>2, AnnotationKeeps DEF LockTransfer

\* set_controller preserves the registry invariant and makes only the changes
\* the action properties allow.
LEMMA SetControllerStep ==
    ASSUME NamesTypeOK, RegistryInv, NEW w \in Wallets, NEW n \in Names,
           NEW x \in Controllers \cup {Nil}, SetController(w, n, x)
    PROVE  RegistryStep
  <1>1. Exists(n) /\ rec[n] \in NameRecord
    BY EnvironmentFacts DEF SetController, OwnerGate
  <1>2. SameTitle(rec[n], WithController(rec[n], x))
    BY <1>1, ControllerFacts
  <1> QED BY <1>1, <1>2, AnnotationKeeps DEF SetController

\* set_resolver preserves the registry invariant and makes only the changes
\* the action properties allow.
LEMMA SetResolverStep ==
    ASSUME NamesTypeOK, RegistryInv, NEW w \in Wallets, NEW n \in Names,
           NEW x \in Resolvers \cup {Nil}, SetResolver(w, n, x)
    PROVE  RegistryStep
  <1>1. Exists(n) /\ rec[n] \in NameRecord
    BY EnvironmentFacts DEF SetResolver
  <1>2. SameTitle(rec[n], WithResolver(rec[n], x))
    BY <1>1, ResolverFacts
  <1> QED BY <1>1, <1>2, AnnotationKeeps DEF SetResolver

\* set_hosting preserves the registry invariant and makes only the changes
\* the action properties allow.
LEMMA SetHostingStep ==
    ASSUME NamesTypeOK, RegistryInv, NEW w \in Wallets, NEW n \in Names,
           NEW x \in Hosts \cup {Nil}, SetHosting(w, n, x)
    PROVE  RegistryStep
  <1>1. Exists(n) /\ rec[n] \in NameRecord
    BY EnvironmentFacts DEF SetHosting
  <1>2. SameTitle(rec[n], WithHosting(rec[n], x))
    BY <1>1, HostingFacts
  <1> QED BY <1>1, <1>2, AnnotationKeeps DEF SetHosting

\* update_record preserves the registry invariant and makes only the changes
\* the action properties allow.
LEMMA UpdateRecordStep ==
    ASSUME NamesTypeOK, RegistryInv, NEW w \in Wallets, NEW n \in Names,
           NEW k \in Keys, NEW v \in Values \cup {Nil}, UpdateRecord(w, n, k, v)
    PROVE  RegistryStep
  <1>1. Exists(n) /\ rec[n] \in NameRecord
    BY EnvironmentFacts DEF UpdateRecord
  <1>2. SameTitle(rec[n], WithRecord(rec[n], k, v))
    BY <1>1, RecordFacts
  <1> QED BY <1>1, <1>2, AnnotationKeeps DEF UpdateRecord

\* burn_name preserves the registry invariant and makes only the changes
\* the action properties allow.
LEMMA BurnNameStep ==
    ASSUME NamesTypeOK, RegistryInv, NEW w \in Wallets, NEW n \in Names, BurnName(w, n)
    PROVE  RegistryStep
  <1>1. EnvironmentTypeOK'
    BY EnvironmentFacts
       DEF BurnName, EnvironmentTypeOK, LedgerOK, MoneyTypeOK, OnlyRecord, moneyVars
  <1> QED BY <1>1, CloseKeeps DEF BurnName, Put, OnlyRecord

\* revoke_subdomain preserves the registry invariant and makes only the changes
\* the action properties allow.
LEMMA RevokeSubdomainStep ==
    ASSUME NamesTypeOK, RegistryInv, NEW w \in Wallets, NEW n \in Names, RevokeSubdomain(w, n)
    PROVE  RegistryStep
  <1>1. EnvironmentTypeOK'
    BY EnvironmentFacts
       DEF RevokeSubdomain, MayRevoke, EnvironmentTypeOK, LedgerOK, MoneyTypeOK, OnlyRecord, moneyVars
  <1> QED BY <1>1, CloseKeeps DEF RevokeSubdomain, MayRevoke, Put, OnlyRecord

\* transfer_name preserves the registry invariant and makes only the changes
\* the action properties allow.
LEMMA TransferNameStep ==
    ASSUME NamesTypeOK, RegistryInv, NEW w \in Wallets, NEW n \in Names, NEW v \in Wallets,
           TransferName(w, n, v)
    PROVE  RegistryStep
  <1> DEFINE s == Handover(rec[n], v)
  <1>1. Exists(n) /\ rec[n] \in NameRecord /\ rec[n].expires_at \in Nat
    BY EnvironmentFacts DEF TransferName, OwnerGate, NameRecord
  <1>2. /\ SameTerm(rec[n], s) /\ s.reverse_set = FALSE /\ s.controller = Nil
        /\ s.nft_mint = rec[n].nft_mint
    BY <1>1, HandoverFacts
  <1>3. rec' = [rec EXCEPT ![n] = s] /\ UNCHANGED <<now, reverse, holder>>
    BY DEF TransferName, Put, OnlyRecord
  <1>4. EnvironmentTypeOK'
    BY EnvironmentFacts
       DEF TransferName, EnvironmentTypeOK, LedgerOK, MoneyTypeOK, OnlyRecord, moneyVars
  <1> HIDE DEF s
  <1>5. s \in NameRecord /\ SameIdentity(rec[n], s) /\ s.expires_at >= rec[n].expires_at
    BY <1>1, <1>2 DEF SameTerm, SameIdentity
  <1> QED BY <1>1, <1>2, <1>3, <1>4, <1>5, UpdateKeeps DEF SameTerm

\* wrap_subdomain preserves the registry invariant and makes only the changes
\* the action properties allow.
LEMMA WrapSubdomainStep ==
    ASSUME NamesTypeOK, RegistryInv, NEW w \in Wallets, NEW n \in Names, NEW c \in Names,
           NEW v \in Wallets, WrapSubdomain(w, n, c, v)
    PROVE  RegistryStep
  <1> DEFINE s == Subdomain(n, v)
  <1>1. now \in Nat /\ rec[n] \in NameRecord /\ Exists(n) /\ ~Exists(c) /\ ParentOf[c] = n
    BY EnvironmentFacts DEF WrapSubdomain, OwnerGate, NamesTypeOK
  <1>2. /\ Fresh(s) /\ s.parent = n /\ s.parent_registered_at = rec[n].registered_at
        /\ s.expires_at >= now
    BY <1>1, SubdomainFacts DEF WrapSubdomain
  <1>3. rec' = [rec EXCEPT ![c] = s] /\ UNCHANGED <<now, reverse, holder>>
    BY DEF WrapSubdomain, Put, OnlyRecord
  <1>4. EnvironmentTypeOK'
    BY EnvironmentFacts
       DEF WrapSubdomain, EnvironmentTypeOK, LedgerOK, MoneyTypeOK, OnlyRecord, moneyVars
  <1> HIDE DEF s
  <1>5. /\ s \in NameRecord /\ s.parent = ParentOf[c] /\ s.parent # c
        /\ s.parent_registered_at <= now
        /\ s.parent_registered_at <= rec[s.parent].registered_at
    BY <1>1, <1>2 DEF Fresh, RegistryInv, TenureOrder, Tenured, NameRecord
  <1> QED BY <1>1, <1>2, <1>3, <1>4, <1>5, CreateKeeps

\* set_reverse preserves the registry invariant and makes only the changes
\* the action properties allow.
LEMMA SetReverseStep ==
    ASSUME NamesTypeOK, RegistryInv, NEW w \in Wallets, NEW n \in Names, SetReverse(w, n)
    PROVE  RegistryStep
  <1> DEFINE s == WithReverse(rec[n])
  <1>1. /\ Exists(n) /\ rec[n] \in NameRecord /\ rec[n].expires_at \in Nat
        /\ rec[n].owner = w /\ ~rec[n].listed
    BY EnvironmentFacts DEF SetReverse, OwnerGate, NameRecord
  <1>2. SameTerm(rec[n], s) /\ s.owner = rec[n].owner /\ s.nft_mint = rec[n].nft_mint
    BY <1>1, ReverseFacts
  <1>3. /\ rec' = [rec EXCEPT ![n] = s] /\ UNCHANGED <<now, holder, allowance, moneyVars>>
        /\ reverse' = [reverse EXCEPT ![w] = n]
    BY DEF SetReverse, Put
  <1>4. EnvironmentTypeOK'
    BY <1>3, EnvironmentFacts DEF EnvironmentTypeOK, LedgerOK, MoneyTypeOK, moneyVars
  <1> HIDE DEF s
  <1>5. /\ s \in NameRecord /\ s # Nil /\ SameIdentity(rec[n], s)
        /\ s.expires_at >= rec[n].expires_at /\ ~s.listed
    BY <1>1, <1>2, RecordAssumption DEF SameTerm, SameIdentity
  <1>6. rec \in [Names -> NameRecord \cup {Nil}] /\ reverse \in [Wallets -> Names \cup {Nil}]
    BY DEF NamesTypeOK
  <1>7. TenureOrder'
    BY <1>1, <1>3, <1>5, TenureKept
  <1>8. NftBacked'
    BY <1>1, <1>2, <1>3, <1>5, <1>6 DEF RegistryInv, NftBacked, Exists
  <1>9. ReverseBacked'
    <2>1. n # Nil
      BY RegistryAssumption
    <2> QED BY <1>1, <1>2, <1>3, <1>5, <1>6, <2>1 DEF RegistryInv, ReverseBacked, Exists, NameRecord
  <1>10. SaleUnminted' /\ ClearsOnHandover
    BY <1>1, <1>2, <1>3, <1>5, <1>6 DEF RegistryInv, SaleUnminted, ClearsOnHandover, Exists
  <1>11. NamesTypeOK'
    BY <1>3, <1>4, <1>5, <1>6 DEF NamesTypeOK, EnvironmentTypeOK, LedgerOK
  <1> QED BY <1>7, <1>8, <1>9, <1>10, <1>11 DEF RegistryInv, RegistryStep

\* tokenize_name preserves the registry invariant and makes only the changes
\* the action properties allow.
LEMMA TokenizeNameStep ==
    ASSUME NamesTypeOK, RegistryInv, NEW w \in Wallets, NEW n \in Names, NEW m \in Mints,
           TokenizeName(w, n, m)
    PROVE  RegistryStep
  <1> DEFINE s == WithMint(rec[n], m)
  <1>1. /\ Exists(n) /\ rec[n] \in NameRecord /\ rec[n].expires_at \in Nat
        /\ ~rec[n].listed /\ holder[m] = Nil
    BY EnvironmentFacts DEF TokenizeName, OwnerGate, NameRecord
  <1>2. /\ SameTerm(rec[n], s) /\ s.owner = rec[n].owner /\ s.nft_mint = m
        /\ s.reverse_set = rec[n].reverse_set
    BY <1>1, MintFacts
  <1>3. /\ rec' = [rec EXCEPT ![n] = s] /\ UNCHANGED <<now, reverse, allowance, moneyVars>>
        /\ holder' = [holder EXCEPT ![m] = w]
    BY DEF TokenizeName, Put
  <1>4. EnvironmentTypeOK'
    BY <1>3, EnvironmentFacts DEF EnvironmentTypeOK, LedgerOK, MoneyTypeOK, moneyVars
  <1> HIDE DEF s
  <1>5. /\ s \in NameRecord /\ s # Nil /\ SameIdentity(rec[n], s)
        /\ s.expires_at >= rec[n].expires_at /\ ~s.listed
    BY <1>1, <1>2, RecordAssumption DEF SameTerm, SameIdentity
  <1>6. /\ rec \in [Names -> NameRecord \cup {Nil}]
        /\ holder \in [Mints -> Wallets \cup {Nil}] /\ w # Nil
    BY MoneyAssumption DEF NamesTypeOK
  <1>7. TenureOrder'
    BY <1>1, <1>3, <1>5, TenureKept
  <1>8. NftBacked'
    BY <1>1, <1>2, <1>3, <1>5, <1>6 DEF RegistryInv, NftBacked, Exists, NameRecord
  <1>9. ReverseBacked'
    BY <1>1, <1>2, <1>3, <1>5, <1>6 DEF RegistryInv, ReverseBacked, Exists
  <1>10. SaleUnminted' /\ ClearsOnHandover
    BY <1>1, <1>2, <1>3, <1>5, <1>6 DEF RegistryInv, SaleUnminted, ClearsOnHandover, Exists
  <1>11. NamesTypeOK'
    BY <1>3, <1>4, <1>5, <1>6 DEF NamesTypeOK, EnvironmentTypeOK, LedgerOK
  <1> QED BY <1>7, <1>8, <1>9, <1>10, <1>11 DEF RegistryInv, RegistryStep

\* redeem_name preserves the registry invariant and makes only the changes
\* the action properties allow.
LEMMA RedeemNameStep ==
    ASSUME NamesTypeOK, RegistryInv, NEW w \in Wallets, NEW n \in Names, RedeemName(w, n)
    PROVE  RegistryStep
  <1> DEFINE h == Handover(rec[n], w)
             s == WithMint(h, Nil)
             m == rec[n].nft_mint
  <1>1. /\ Exists(n) /\ rec[n] \in NameRecord /\ rec[n].expires_at \in Nat
        /\ m \in Mints
    BY EnvironmentFacts DEF RedeemName, NameRecord
  <1>2. /\ h \in NameRecord /\ SameTerm(rec[n], h) /\ h.reverse_set = FALSE /\ h.controller = Nil
    BY <1>1, HandoverFacts DEF SameTerm, SameIdentity
  <1>3. /\ SameTerm(h, s) /\ s.nft_mint = Nil /\ s.reverse_set = h.reverse_set
    BY <1>2, MintFacts
  <1>4. s.controller = Nil
    BY <1>2 DEF WithMint, NameRecord
  <1>5. /\ rec' = [rec EXCEPT ![n] = s] /\ UNCHANGED <<now, reverse, allowance, moneyVars>>
        /\ holder' = [holder EXCEPT ![m] = Nil]
    BY DEF RedeemName, Put
  <1> HIDE DEF s, h, m
  <1>6. EnvironmentTypeOK'
    BY <1>5, EnvironmentFacts DEF EnvironmentTypeOK, LedgerOK, MoneyTypeOK, moneyVars
  <1>7. /\ s \in NameRecord /\ s # Nil /\ SameIdentity(rec[n], s)
        /\ s.expires_at >= rec[n].expires_at /\ s.reverse_set = FALSE
    BY <1>1, <1>2, <1>3, RecordAssumption DEF SameTerm, SameIdentity
  <1>8. /\ rec \in [Names -> NameRecord \cup {Nil}]
        /\ holder \in [Mints -> Wallets \cup {Nil}]
    BY DEF NamesTypeOK
  <1>9. TenureOrder'
    BY <1>1, <1>5, <1>7, TenureKept
  <1>10. NftBacked'
    BY <1>1, <1>3, <1>5, <1>7, <1>8 DEF RegistryInv, NftBacked, Exists, NameRecord, m
  <1>11. ReverseBacked'
    BY <1>5, <1>7, <1>8 DEF RegistryInv, ReverseBacked, Exists
  <1>12. SaleUnminted' /\ ClearsOnHandover
    BY <1>1, <1>3, <1>4, <1>5, <1>7, <1>8 DEF RegistryInv, SaleUnminted, ClearsOnHandover, Exists
  <1>13. NamesTypeOK'
    BY <1>5, <1>6, <1>7, <1>8 DEF NamesTypeOK, EnvironmentTypeOK, LedgerOK
  <1> QED BY <1>9, <1>10, <1>11, <1>12, <1>13 DEF RegistryInv, RegistryStep

\* A trade of the NFT preserves the registry invariant and makes only the changes
\* the action properties allow.
LEMMA TradeNftStep ==
    ASSUME NamesTypeOK, RegistryInv, NEW m \in Mints, NEW w \in Wallets, TradeNft(m, w)
    PROVE  RegistryStep
  <1>1. /\ UNCHANGED <<now, rec, reverse, allowance, moneyVars>>
        /\ holder' = [holder EXCEPT ![m] = w] /\ w # Nil
        /\ holder \in [Mints -> Wallets \cup {Nil}]
        /\ rec \in [Names -> NameRecord \cup {Nil}]
    BY MoneyAssumption DEF TradeNft, NamesTypeOK
  <1>2. NftBacked'
    BY <1>1 DEF RegistryInv, NftBacked, Exists, NameRecord
  <1>3. ReverseBacked' /\ SaleUnminted' /\ TenureOrder'
    BY <1>1 DEF RegistryInv, ReverseBacked, SaleUnminted, TenureOrder, Tenured, Exists, TopLevel
  <1>4. ClearsOnHandover
    BY <1>1 DEF ClearsOnHandover
  <1>5. NamesTypeOK'
    BY <1>1 DEF NamesTypeOK, MoneyTypeOK, moneyVars
  <1> QED BY <1>2, <1>3, <1>4, <1>5 DEF RegistryInv, RegistryStep

\* The passing of time preserves the registry invariant and makes only the changes
\* the action properties allow.
LEMMA TickStep ==
    ASSUME NamesTypeOK, RegistryInv, Tick
    PROVE  RegistryStep
  <1>1. UNCHANGED <<rec, reverse, holder, allowance, moneyVars>> /\ now' = now + 1
    BY DEF Tick
  <1>2. NftBacked' /\ ReverseBacked' /\ SaleUnminted'
    BY <1>1 DEF RegistryInv, NftBacked, ReverseBacked, SaleUnminted, Exists
  <1>3. TenureOrder'
    <2>1. ASSUME NEW n \in Names, Exists(n)
          PROVE  Tenured(rec[n])'
      BY <1>1, <2>1, EnvironmentFacts
         DEF RegistryInv, TenureOrder, Tenured, NamesTypeOK, NameRecord
    <2> QED BY <1>1, <2>1 DEF RegistryInv, TenureOrder, Exists, TopLevel
  <1>4. ClearsOnHandover
    BY <1>1 DEF ClearsOnHandover
  <1>5. NamesTypeOK'
    BY <1>1 DEF NamesTypeOK, MoneyTypeOK, moneyVars
  <1> QED BY <1>2, <1>3, <1>4, <1>5 DEF RegistryInv, RegistryStep

\* A change of a delegation preserves the registry invariant and makes only the changes
\* the action properties allow.
LEMMA ApproveStep ==
    ASSUME NamesTypeOK, RegistryInv, NEW w \in Wallets, NEW a \in ApproveAmounts, Approve(w, a)
    PROVE  RegistryStep
  <1>1. EnvironmentTypeOK'
    BY EnvironmentFacts, RegistryAssumption
       DEF Approve, EnvironmentTypeOK, LedgerOK, MoneyTypeOK, moneyVars
  <1> QED BY <1>1, UntouchedKeeps DEF Approve

\* An admin instruction preserves the registry invariant and makes only the changes
\* the action properties allow.
LEMMA GovernStep ==
    ASSUME NamesTypeOK, RegistryInv, Govern
    PROVE  RegistryStep
  <1>1. LedgerOK'
    BY EnvironmentFacts, GovernanceStep DEF Govern
  <1>2. EnvironmentTypeOK' /\ UNCHANGED <<now, rec, reverse, holder>>
    BY <1>1, EnvironmentFacts DEF Govern, registryVars, EnvironmentTypeOK
  <1> QED BY <1>2, UntouchedKeeps

-----------------------------------------------------------------------------

\* The terms a caller may ask for are natural numbers.
LEMMA TermsNat == Terms \subseteq Nat
  BY MoneyAssumption DEF Terms, Params

\* Every registration, renewal, claim and burn is a registry step.
LEMMA LifecycleStep ==
    ASSUME NamesTypeOK, RegistryInv, Lifecycle
    PROVE  RegistryStep
  <1> USE TermsNat, MoneyAssumption
  <1>1. PICK n \in Names :
        \/ \E w \in Wallets, y \in Terms, f \in Referrers \cup {Nil} :
             \/ \E payer \in Wallets : RegisterName(payer, w, n, y, f)
             \/ RenewName(w, n, y, f)
             \/ ClaimExpired(w, n, y, f)
        \/ \E w \in Wallets, y \in Terms :
             \/ \E payer \in Wallets : RegisterWithSolans(payer, w, n, y)
             \/ RenewWithSolans(w, n, y)
        \/ AutoRenew(n)
        \/ \E w \in Wallets : BurnName(w, n)
    BY DEF Lifecycle
  <1>2. ASSUME NEW w \in Wallets, NEW y \in Terms, NEW f \in Referrers \cup {Nil},
               \/ \E payer \in Wallets : RegisterName(payer, w, n, y, f)
               \/ RenewName(w, n, y, f)
               \/ ClaimExpired(w, n, y, f)
        PROVE  RegistryStep
    <2>1. y \in Nat /\ f \in Wallets \cup {Nil}
      OBVIOUS
    <2> QED BY <1>2, <2>1, RegisterNameStep, RenewNameStep, ClaimExpiredStep
  <1>3. ASSUME NEW w \in Wallets, NEW y \in Terms,
               \/ \E payer \in Wallets : RegisterWithSolans(payer, w, n, y)
               \/ RenewWithSolans(w, n, y)
        PROVE  RegistryStep
    <2>1. y \in Nat
      OBVIOUS
    <2> QED BY <1>3, <2>1, RegisterWithSolansStep, RenewWithSolansStep
  <1> QED BY <1>1, <1>2, <1>3, AutoRenewStep, BurnNameStep

\* Every managing instruction is a registry step.
LEMMA ManagementStep ==
    ASSUME NamesTypeOK, RegistryInv, Management
    PROVE  RegistryStep
  BY TransferNameStep, LockTransferStep, SetControllerStep, SetResolverStep, SetHostingStep,
     UpdateRecordStep, SetReverseStep, TokenizeNameStep, RedeemNameStep, WrapSubdomainStep,
     RevokeSubdomainStep, Zenon DEF Management

\* Every step of the registry preserves its invariant and makes only the changes
\* the action properties allow.
LEMMA NamesStep ==
    ASSUME NamesTypeOK, RegistryInv, NamesNext
    PROVE  RegistryStep
  BY LifecycleStep, ManagementStep, TickStep, ApproveStep, TradeNftStep, GovernStep
     DEF NamesNext, Environment

\* A claim gives the record a registration time that no subdomain has captured:
\* what a subdomain captured is no later than the lapsed registration, which
\* began before it expired.
LEMMA ClaimCuts ==
    ASSUME NamesTypeOK, RegistryInv
    PROVE  CutsSubtree
  <1>1. SUFFICES ASSUME NEW n \in Names, NEW c \in Names, Claims(n),
                        Exists(c), rec[c].parent = n
                 PROVE  ~Linked(c)'
    BY DEF CutsSubtree
  <1>2. PICK w \in Wallets, y \in Terms, f \in Referrers \cup {Nil} : ClaimExpired(w, n, y, f)
    BY <1>1 DEF Claims
  <1>3. /\ rec \in [Names -> NameRecord \cup {Nil}] /\ now \in Nat
        /\ config.params.grace_period \in Nat /\ n # Nil
    <2>1. config.params \in Params(Wallets) /\ ValidParams(config.params)
      BY DEF NamesTypeOK, MoneyTypeOK, Config
    <2> QED BY <2>1, RegistryAssumption DEF NamesTypeOK, Params, ValidParams
  <1>4. /\ Exists(n) /\ rec[n].parent = Nil
        /\ now > rec[n].expires_at + config.params.grace_period
        /\ rec' = [rec EXCEPT ![n] = init_top_level_record(w, now + y * Year)]
    BY <1>2 DEF ClaimExpired, Put
  <1>5. rec[n] \in NameRecord /\ rec[c] \in NameRecord /\ c # n
    BY <1>1, <1>3, <1>4 DEF Exists
  <1>6. /\ rec[n].registered_at <= rec[n].expires_at
        /\ rec[c].parent_registered_at <= rec[n].registered_at
    BY <1>1, <1>3, <1>4 DEF RegistryInv, TenureOrder, Tenured, TopLevel
  <1>7. rec[c].parent_registered_at < now
    BY <1>3, <1>4, <1>5, <1>6 DEF NameRecord
  <1>8. rec'[c] = rec[c] /\ rec'[n].registered_at = now
    BY <1>3, <1>4, <1>5 DEF init_top_level_record
  <1> QED BY <1>1, <1>3, <1>5, <1>7, <1>8 DEF Linked, NameRecord
=============================================================================
