--------------------------- MODULE ServiceProofs ---------------------------
(***************************************************************************)
(* The services beside the registry, for every value of the constants.     *)
(* The keeper charges no delegation it should not, whatever its sweeps     *)
(* read and however late its transactions land.  The resolver's walk up    *)
(* the parent chain, one account at a time while the registry goes on,     *)
(* only vouches for a subdomain that was attached when it was read.  The   *)
(* indexer's labels are right in whatever order events reach it, and the   *)
(* whole history, sent again, repairs its store.                           *)
(***************************************************************************)
EXTENDS Keeper, Resolver, Indexer, StepProofs

-----------------------------------------------------------------------------
(* The keeper. *)

\* What the keeper relies on: the registry underneath is in a state it can be
\* in.
RegistryOK == NamesTypeOK /\ RegistryInv

\* The registry the keeper starts against is in such a state.
LEMMA KeeperInitial ==
    ASSUME KeeperInit
    PROVE  RegistryOK
  <1> USE MoneyAssumption, RegistryAssumption
  <1>1. config \in Config /\ config # Nil /\ ValidParams(config.params)
    BY DeployedConfig DEF KeeperInit
  <1>2. PICK w \in Wallets :
          /\ rec = [n \in Names |-> IF TopLevel(n) THEN init_top_level_record(w, Year) ELSE Nil]
          /\ usdc = [v \in Wallets |-> IF v = w THEN UsdcPurse ELSE UsdcPurse \div 2]
    BY DEF KeeperInit
  <1>3. now = 0
    BY DEF KeeperInit
  <1> DEFINE r == init_top_level_record(w, Year)
  <1>4. /\ r \in NameRecord /\ r.parent = Nil /\ r.nft_mint = Nil /\ ~r.reverse_set
        /\ ~r.listed /\ Tenured(r)
    BY <1>3 DEF init_top_level_record, NameRecord, NoRecords, Tenured
  <1> HIDE DEF r
  <1>5. MoneyTypeOK
    <2>1. usdc \in [Wallets -> Nat]
      BY <1>2
    <2> QED BY <1>1, <2>1 DEF KeeperInit, MoneyTypeOK
  <1>6. rec \in [Names -> NameRecord \cup {Nil}]
    BY <1>2, <1>4 DEF r
  <1>7. NamesTypeOK
    BY <1>1, <1>3, <1>5, <1>6 DEF KeeperInit, NamesTypeOK
  <1>8. \A n \in Names : Exists(n) => rec[n] = r /\ ParentOf[n] = Nil
    BY <1>2 DEF r, Exists, TopLevel
  <1>9. RegistryInv
    BY <1>4, <1>8 DEF RegistryInv, NftBacked, ReverseBacked, TenureOrder, SaleUnminted, TopLevel
  <1> QED BY <1>7, <1>9 DEF RegistryOK

\* What others do around the keeper are steps of the registry.
LEMMA ChainSteps ==
    ASSUME Chain
    PROVE  NamesNext
  <1>1. ASSUME NEW n \in Names, NEW w \in Wallets, NEW y \in Terms,
               RegisterName(w, w, n, y, Nil) \/ RenewName(w, n, y, Nil)
        PROVE  Lifecycle
    BY <1>1, Zenon DEF Lifecycle
  <1>2. ASSUME NEW n \in Names, NEW w \in Wallets, BurnName(w, n) PROVE Lifecycle
    BY <1>2, Zenon DEF Lifecycle
  <1>3. ASSUME NEW n \in Names, NEW w \in Wallets, NEW v \in Wallets, TransferName(w, n, v)
        PROVE  Management
    BY <1>3, Zenon DEF Management
  <1>4. ASSUME Tick \/ \E w \in Wallets, a \in ApproveAmounts : Approve(w, a)
        PROVE  Environment
    BY <1>4 DEF Environment
  <1>5. ASSUME NEW a \in Admins, NEW p \in ParamChoices, UpdateConfig(a, p),
               UNCHANGED registryVars
        PROVE  Govern
    BY <1>5, Zenon DEF Govern, Governance
  <1> QED BY <1>1, <1>2, <1>3, <1>4, <1>5, Zenon DEF Chain, NamesNext

\* The keeper itself only ever moves the registry by an auto_renew.
LEMMA KeeperSteps ==
    ASSUME [KeeperNext]_keeperVars
    PROVE  [NamesNext]_namesVars
  <1>1. ASSUME NEW s \in Sweeps, StartSweep(s) \/ LoseRenewal(s) \/ Confirm(s) \/ CallFails(s)
        PROVE  UNCHANGED namesVars
    BY <1>1 DEF StartSweep, LoseRenewal, Confirm, CallFails
  <1>2. ASSUME NEW s \in Sweeps, NEW n \in Names, Called(s, n)
        PROVE  UNCHANGED namesVars
    BY <1>2 DEF Called, Resolve, Quote, CheckDelegation, SendRenewal
  <1>3. ASSUME NEW s \in Sweeps, NEW n \in Names, LandRenewal(s, n)
        PROVE  NamesNext
    BY <1>3, Zenon DEF LandRenewal, NamesNext, Lifecycle
  <1>4. ASSUME Die \/ Restart PROVE UNCHANGED namesVars
    BY <1>4 DEF Die, Restart
  <1>5. ASSUME UNCHANGED keeperVars PROVE UNCHANGED namesVars
    BY <1>5 DEF keeperVars
  <1> QED BY <1>1, <1>2, <1>3, <1>4, <1>5, ChainSteps, Zenon DEF KeeperNext

\* A registry step keeps the registry's invariant, and so does a stutter.
LEMMA RegistryKept ==
    ASSUME RegistryOK, [NamesNext]_namesVars
    PROVE  RegistryOK'
  <1>1. ASSUME UNCHANGED namesVars PROVE RegistryOK'
    <2>1. UNCHANGED <<now, rec, reverse, holder>> /\ EnvironmentTypeOK'
      BY <1>1, EnvironmentFacts
         DEF RegistryOK, namesVars, registryVars, moneyVars, EnvironmentTypeOK, LedgerOK,
             MoneyTypeOK
    <2> QED BY <2>1, UntouchedKeeps DEF RegistryOK, RegistryStep
  <1>2. ASSUME NamesNext PROVE RegistryOK'
    BY <1>2, NamesStep DEF RegistryOK, RegistryStep
  <1> QED BY <1>1, <1>2

\* Under the keeper the registry keeps its invariant.
LEMMA KeeperInvariance == KeeperSpec => []RegistryOK
  <1>1. RegistryOK /\ [KeeperNext]_keeperVars => RegistryOK'
    BY KeeperSteps, RegistryKept
  <1> QED BY <1>1, KeeperInitial, PTL DEF KeeperSpec

\* However stale what a sweep read is, however many sweeps overlap and however
\* late their transactions land: each charge of a delegation is one year's
\* price of a name of its owner that was in its renewal window and has left it
\* (runOnce, processName, auto_renew).
THEOREM KeeperChargesOnce == KeeperSpec => AutoRenewOnce
  <1>1. RegistryOK /\ [KeeperNext]_keeperVars => [RenewsOnce]_namesVars
    BY KeeperSteps, NamesCharge DEF RegistryOK
  <1> QED BY <1>1, KeeperInvariance, PTL DEF KeeperSpec, AutoRenewOnce

\* Every year the keeper or anyone else around it adds to a name is paid for
\* (renew, auto_renew, register_name, renew_name).
THEOREM KeeperYearsPaidFor == KeeperSpec => YearsPaidFor
  <1>1. RegistryOK /\ [KeeperNext]_keeperVars => [PaysForYears]_namesVars
    BY KeeperSteps, NamesPaid DEF RegistryOK
  <1> QED BY <1>1, KeeperInvariance, PTL DEF KeeperSpec, YearsPaidFor

-----------------------------------------------------------------------------
(* The resolver. *)

\* Attached and ParentOk, of the records rs: the walk would go through from the
\* cursor c if all of them were read at once.
AttachedIn(rs, n) ==
    \E lineage \in SUBSET Names :
        /\ n \in lineage
        /\ \A m \in lineage :
             /\ rs[m] # Nil
             /\ rs[m].parent # Nil =>
                  /\ rs[m].parent \in lineage
                  /\ rs[rs[m].parent].registered_at = rs[m].parent_registered_at

WalkOk(rs, c) ==
    /\ rs[c.parent] # Nil
    /\ rs[c.parent].registered_at = c.parent_registered_at
    /\ AttachedIn(rs, c.parent)

\* What a request on a name knows once its leaf is read.  The cursor is no
\* younger than the leaf, and the leaf no younger than the reading of it.  Unless
\* the leaf was registered in the very second it was read in, a walk that would
\* go through now starts at a leaf that was attached then.
Walk(r) ==
    /\ r.leaf \in NameRecord /\ r.cursor \in NameRecord /\ r.cursor.parent \in Names
    /\ r.read_at \in Nat /\ r.read_at <= now
    /\ r.cursor.parent_registered_at <= r.cursor.registered_at
    /\ r.cursor.registered_at <= r.leaf.registered_at
    /\ r.leaf.registered_at <= r.read_at
    /\ r.leaf.registered_at < r.read_at /\ WalkOk(rec, r.cursor) => r.attached

Walks == \A q \in Requests : Asks(q, "name") /\ req[q].leaf # Nil => Walk(req[q])

\* The requests and the cache, as far as the walk needs them.
Requested ==
    /\ req = [q \in Requests |-> req[q]]
    /\ \A q \in Requests : req[q] # Nil =>
         req[q] = [key |-> req[q].key, leaf |-> req[q].leaf, cursor |-> req[q].cursor,
                   attached |-> req[q].attached, read_at |-> req[q].read_at]
    /\ \A q \in Requests : req[q] # Nil => req[q].key \in Questions
    /\ cache = [k \in Questions |-> cache[k]]

ResolverInv == RegistryOK /\ Requested /\ Walks

\* A record whose parent passes the walk's check is attached if the parent is.
LEMMA AttachedBelow ==
    ASSUME NEW rs, NEW n \in Names, rs[n] # Nil, rs[n].parent # Nil, WalkOk(rs, rs[n])
    PROVE  AttachedIn(rs, n)
  <1>1. PICK lineage \in SUBSET Names :
          /\ rs[n].parent \in lineage
          /\ \A m \in lineage :
               /\ rs[m] # Nil
               /\ rs[m].parent # Nil =>
                    /\ rs[m].parent \in lineage
                    /\ rs[rs[m].parent].registered_at = rs[m].parent_registered_at
    BY DEF WalkOk, AttachedIn
  <1> DEFINE longer == lineage \cup {n}
  <1>2. longer \in SUBSET Names /\ n \in longer
    OBVIOUS
  <1>3. \A m \in longer :
          /\ rs[m] # Nil
          /\ rs[m].parent # Nil =>
               /\ rs[m].parent \in longer
               /\ rs[rs[m].parent].registered_at = rs[m].parent_registered_at
    BY <1>1 DEF WalkOk
  <1> QED BY <1>2, <1>3 DEF AttachedIn

\* A top-level record is attached.
LEMMA AttachedTop ==
    ASSUME NEW rs, NEW n \in Names, rs[n] # Nil, rs[n].parent = Nil
    PROVE  AttachedIn(rs, n)
  <1>1. {n} \in SUBSET Names
    OBVIOUS
  <1> QED BY <1>1 DEF AttachedIn

\* The model's Attached, in a registry that is in a state it can be in.
LEMMA AttachedNow ==
    ASSUME RegistryOK, NEW n \in Names
    PROVE  Attached(n) <=> AttachedIn(rec, n)
  <1>1. ASSUME NEW m \in Names, Exists(m), rec[m].parent # Nil PROVE rec[m].parent \in Names
    BY <1>1, EnvironmentFacts DEF RegistryOK, NameRecord
  <1>2. Attached(n) => AttachedIn(rec, n)
    BY <1>1 DEF Attached, AttachedIn, Linked, Exists
  <1>3. AttachedIn(rec, n) => Attached(n)
    BY <1>1 DEF Attached, AttachedIn, Linked, Exists
  <1> QED BY <1>2, <1>3

\* A record that is older than the step the registry takes was there before it,
\* and is still the same registration.
Outlives ==
    \A m \in Names : rec'[m] # Nil /\ rec'[m].registered_at < now =>
        Exists(m) /\ SameIdentity(rec[m], rec'[m])

\* A step that writes one record, with a new registration, with the same one,
\* or closing it.
LEMMA PutOutlives ==
    ASSUME RegistryOK, NEW n \in Names, NEW s, Put(n, s),
           \/ s = Nil
           \/ s # Nil /\ s.registered_at = now
           \/ Exists(n) /\ SameIdentity(rec[n], s)
    PROVE  Outlives
  <1>1. \A m \in Names : Exists(m) => SameIdentity(rec[m], rec[m])
    BY EnvironmentFacts DEF RegistryOK, SameIdentity
  <1>2. \A m \in Names : rec'[m] = IF m = n THEN s ELSE rec[m]
    BY DEF Put, RegistryOK, NamesTypeOK
  <1>3. now \in Nat
    BY DEF RegistryOK, NamesTypeOK
  <1> QED BY <1>1, <1>2, <1>3 DEF Outlives, Exists

\* So does every step of the registry around the resolver.
LEMMA RegistryOutlives ==
    ASSUME RegistryOK, Registry
    PROVE  Outlives
  <1>0. /\ now \in Nat /\ \A n \in Names : Exists(n) => rec[n] \in NameRecord
        /\ ResolverAssumption
    BY EnvironmentFacts, ResolverAssumption DEF RegistryOK, NamesTypeOK
  <1>1. ASSUME NEW n \in Names, NEW w \in Wallets, NEW y \in Terms,
               RegisterName(w, w, n, y, Nil) \/ ClaimExpired(w, n, y, Nil)
        PROVE  Outlives
    <2>1. y \in Nat
      BY TermsNat
    <2> DEFINE s == init_top_level_record(w, now + y * Year)
    <2>2. s \in NameRecord /\ s.registered_at = now
      BY <1>0, <2>1, TopLevelFacts DEF Fresh
    <2>3. s # Nil
      BY <2>2, RecordAssumption
    <2>4. Put(n, s)
      BY <1>1 DEF RegisterName, ClaimExpired
    <2> HIDE DEF s
    <2> QED BY <2>2, <2>3, <2>4, PutOutlives
  <1>2. ASSUME NEW n \in Names, NEW w \in Wallets, BurnName(w, n) \/ RevokeSubdomain(w, n)
        PROVE  Outlives
    BY <1>2, PutOutlives DEF BurnName, RevokeSubdomain
  <1>3. ASSUME NEW n \in Names, NEW w \in Wallets, SetReverse(w, n)
        PROVE  Outlives
    <2>1. SameIdentity(rec[n], WithReverse(rec[n])) /\ Put(n, WithReverse(rec[n])) /\ Exists(n)
      BY <1>0, <1>3, ReverseFacts DEF SetReverse, OwnerGate, SameTerm
    <2> QED BY <2>1, PutOutlives
  <1>4. ASSUME NEW n \in Names, NEW w \in Wallets, NEW v \in Wallets, TransferName(w, n, v)
        PROVE  Outlives
    <2>1. /\ SameIdentity(rec[n], Handover(rec[n], v)) /\ Put(n, Handover(rec[n], v))
          /\ Exists(n)
      BY <1>0, <1>4, HandoverFacts DEF TransferName, OwnerGate, SameTerm
    <2> QED BY <2>1, PutOutlives
  <1>5. ASSUME NEW n \in Names, NEW w \in Wallets, NEW c \in Names, WrapSubdomain(w, n, c, w)
        PROVE  Outlives
    <2>1. Exists(n) /\ now <= rec[n].expires_at /\ rec[n].depth + 1 <= MaxDepth
          /\ Put(c, Subdomain(n, w))
      BY <1>5 DEF WrapSubdomain, OwnerGate
    <2>2. Subdomain(n, w) \in NameRecord /\ Subdomain(n, w).registered_at = now
      BY <1>0, <2>1, SubdomainFacts DEF Fresh
    <2>3. Subdomain(n, w) # Nil
      BY <2>2, RecordAssumption
    <2> QED BY <2>1, <2>2, <2>3, PutOutlives
  <1>6. ASSUME Tick PROVE Outlives
    BY <1>0, <1>6 DEF Tick, Outlives, SameIdentity, Exists
  <1> QED BY <1>1, <1>2, <1>3, <1>4, <1>5, <1>6, Zenon DEF Registry

\* What the registry does around the resolver are steps of the registry.
LEMMA RegistrySteps ==
    ASSUME Registry
    PROVE  NamesNext
  <1>1. ASSUME NEW n \in Names, NEW w \in Wallets, NEW y \in Terms,
               RegisterName(w, w, n, y, Nil) \/ ClaimExpired(w, n, y, Nil)
        PROVE  Lifecycle
    BY <1>1, Zenon DEF Lifecycle
  <1>2. ASSUME NEW n \in Names, NEW w \in Wallets, BurnName(w, n) PROVE Lifecycle
    BY <1>2, Zenon DEF Lifecycle
  <1>3. ASSUME NEW n \in Names, NEW w \in Wallets, RevokeSubdomain(w, n) \/ SetReverse(w, n)
        PROVE  Management
    BY <1>3, Zenon DEF Management
  <1>4. ASSUME NEW n \in Names, NEW w \in Wallets, NEW v \in Wallets, TransferName(w, n, v)
        PROVE  Management
    BY <1>4, Zenon DEF Management
  <1>5. ASSUME NEW n \in Names, NEW w \in Wallets, NEW c \in Names, WrapSubdomain(w, n, c, w)
        PROVE  Management
    BY <1>5, Zenon DEF Management
  <1>6. Tick => Environment
    BY DEF Environment
  <1> QED BY <1>1, <1>2, <1>3, <1>4, <1>5, <1>6, Zenon DEF Registry, NamesNext

\* The registry cannot make a walk succeed that would have failed before, if the
\* cursor is older than now: the lineage it goes through is all older.
LEMMA WalkBack ==
    ASSUME RegistryOK, Outlives, NEW c \in NameRecord, c.parent \in Names,
           c.parent_registered_at < now, WalkOk(rec', c)
    PROVE  WalkOk(rec, c)
  <1> DEFINE p == c.parent
  <1>1. now \in Nat
    BY DEF RegistryOK, NamesTypeOK
  <1>2. PICK lineage \in SUBSET Names :
          /\ p \in lineage
          /\ \A m \in lineage :
               /\ rec'[m] # Nil
               /\ rec'[m].parent # Nil =>
                    /\ rec'[m].parent \in lineage
                    /\ rec'[rec'[m].parent].registered_at = rec'[m].parent_registered_at
    BY DEF WalkOk, AttachedIn
  <1> DEFINE older == {m \in lineage : rec'[m].registered_at < now}
  <1>3. older \in SUBSET Names
    OBVIOUS
  <1>4. rec'[p].registered_at = c.parent_registered_at /\ p \in older
    BY <1>2 DEF WalkOk
  <1>5. ASSUME NEW m \in older
        PROVE  /\ rec[m] # Nil /\ rec[m].registered_at = rec'[m].registered_at
               /\ rec[m].parent = rec'[m].parent
               /\ rec[m].parent_registered_at = rec'[m].parent_registered_at
               /\ rec[m] \in NameRecord /\ rec[m].parent_registered_at <= rec[m].registered_at
    <2>1. Exists(m) /\ SameIdentity(rec[m], rec'[m])
      BY <1>2 DEF Outlives
    <2>2. rec[m] \in NameRecord
      BY <2>1, EnvironmentFacts DEF RegistryOK
    <2>3. rec[m].parent_registered_at <= rec[m].registered_at
      BY <2>1 DEF RegistryOK, RegistryInv, TenureOrder, Tenured
    <2> QED BY <2>1, <2>2, <2>3 DEF SameIdentity, Exists
  <1>6. ASSUME NEW m \in older, rec[m].parent # Nil
        PROVE  /\ rec[m].parent \in older
               /\ rec[rec[m].parent].registered_at = rec[m].parent_registered_at
    <2>1. /\ rec'[m].parent \in lineage
          /\ rec'[rec'[m].parent].registered_at = rec'[m].parent_registered_at
      BY <1>2, <1>5, <1>6
    <2>2. rec[m].parent_registered_at \in Nat /\ rec[m].registered_at \in Nat
      BY <1>5 DEF NameRecord
    <2>3. rec[m].parent \in older
      BY <1>1, <1>5, <2>1, <2>2
    <2> QED BY <1>5, <2>1, <2>3
  <1>7. AttachedIn(rec, p)
    BY <1>3, <1>4, <1>5, <1>6 DEF AttachedIn
  <1> QED BY <1>4, <1>5, <1>7 DEF WalkOk

\* The subject of a request on a name is a name.
LEMMA SubjectIsName ==
    ASSUME ResolverInv, NEW q \in Requests, Asks(q, "name")
    PROVE  Subject(q) \in Names
  <1>1. req[q].key \in Questions /\ req[q].key[1] = "name"
    BY DEF ResolverInv, Requested, Asks
  <1>2. req[q].key \in {"name"} \X AskedNames
    BY <1>1 DEF Questions
  <1> QED BY <1>2, ResolverAssumption DEF Subject

\* While the registry stands still, requests that do not move keep what they
\* know, and one that ends has nothing to keep.
LEMMA OthersWalk ==
    ASSUME ResolverInv, UNCHANGED namesVars, NEW q \in Requests, NEW r,
           req' = [req EXCEPT ![q] = r],
           r # Nil => /\ r = [key |-> r.key, leaf |-> r.leaf, cursor |-> r.cursor,
                              attached |-> r.attached, read_at |-> r.read_at]
                      /\ r.key \in Questions
                      /\ r.key[1] = "name" /\ r.leaf # Nil => Walk(r),
           cache' = [k \in Questions |-> cache'[k]]
    PROVE  ResolverInv'
  <1>1. now' = now /\ rec' = rec
    BY DEF namesVars, registryVars
  <1>2. \A p \in Requests : req'[p] = IF p = q THEN r ELSE req[p]
    BY DEF ResolverInv, Requested
  <1>3. req' = [p \in Requests |-> req'[p]]
    BY DEF ResolverInv, Requested
  <1>4. RegistryOK'
    BY RegistryKept DEF ResolverInv
  <1>5. Requested'
    BY <1>2, <1>3 DEF ResolverInv, Requested
  <1>6. Walks'
    BY <1>1, <1>2 DEF ResolverInv, Walks, Walk, Asks
  <1> QED BY <1>4, <1>5, <1>6 DEF ResolverInv

\* A request that is answered ends.
LEMMA AnswersKeep ==
    ASSUME ResolverInv, NEW q \in Requests, NEW value, Answers(q, value), req[q] # Nil
    PROVE  /\ ResolverInv'
           /\ \A p \in Requests : req[p] # Nil /\ req'[p] = Nil => p = q
           /\ cache'[req[q].key].value = value
  <1>1. req' = [req EXCEPT ![q] = Nil] /\ UNCHANGED namesVars
        /\ cache' = [cache EXCEPT ![req[q].key] = [value |-> value, ttl |-> TTL]]
    BY DEF Answers
  <1>2. cache' = [k \in Questions |-> cache'[k]]
    BY <1>1 DEF ResolverInv, Requested
  <1>3. ResolverInv'
    BY <1>1, <1>2, OthersWalk
  <1>4. \A p \in Requests : p # q => req'[p] = req[p]
    BY <1>1 DEF ResolverInv, Requested
  <1>5. cache'[req[q].key] = [value |-> value, ttl |-> TTL]
    BY <1>1 DEF ResolverInv, Requested
  <1> QED BY <1>3, <1>4, <1>5

\* Reading the leaf.
LEMMA FetchLeafStep ==
    ASSUME ResolverInv, NEW q \in Requests, FetchLeaf(q)
    PROVE  ResolverInv' /\ AnswersAttached
  <1> DEFINE n == Subject(q)
             r == rec[n]
  <1>1. Asks(q, "name") /\ req[q].leaf = Nil /\ req[q] # Nil /\ n \in Names
    BY SubjectIsName DEF FetchLeaf, Asks
  <1>2. CASE r = Nil \/ r.parent = Nil
    <2>1. Answers(q, r)
      BY <1>2 DEF FetchLeaf
    <2>2. ResolverInv' /\ \A p \in Requests : req[p] # Nil /\ req'[p] = Nil => p = q
      BY <1>1, <2>1, AnswersKeep
    <2> QED BY <1>1, <2>2 DEF AnswersAttached, Asks
  <1>3. CASE ~(r = Nil \/ r.parent = Nil)
    <2> DEFINE s == [key |-> req[q].key, leaf |-> r, cursor |-> r,
                     attached |-> Attached(n), read_at |-> now]
    <2>1. UNCHANGED <<namesVars, cache>>
      BY <1>3 DEF FetchLeaf
    <2>2. req' = [req EXCEPT ![q] = s]
      <3>1. req' = [req EXCEPT ![q].leaf = r, ![q].cursor = r,
                               ![q].attached = Attached(n), ![q].read_at = now]
        BY <1>3 DEF FetchLeaf
      <3> DEFINE e == [req[q] EXCEPT !.leaf = r, !.cursor = r, !.attached = Attached(n),
                                     !.read_at = now]
      <3>2. req' = [req EXCEPT ![q] = e]
        BY <3>1 DEF ResolverInv, Requested
      <3> DEFINE o == req[q]
                 a == Attached(n)
                 t == now
      <3>3. o = [key |-> o.key, leaf |-> o.leaf, cursor |-> o.cursor,
                 attached |-> o.attached, read_at |-> o.read_at]
        BY <1>1 DEF ResolverInv, Requested
      <3>4. [o EXCEPT !.leaf = r, !.cursor = r, !.attached = a, !.read_at = t]
            = [key |-> o.key, leaf |-> r, cursor |-> r, attached |-> a, read_at |-> t]
        <4> HIDE DEF o, a, t, r
        <4> DEFINE o1 == [key |-> o.key, leaf |-> r, cursor |-> o.cursor,
                          attached |-> o.attached, read_at |-> o.read_at]
                   o2 == [key |-> o.key, leaf |-> r, cursor |-> r,
                          attached |-> o.attached, read_at |-> o.read_at]
                   o3 == [key |-> o.key, leaf |-> r, cursor |-> r,
                          attached |-> a, read_at |-> o.read_at]
        <4>1. [o EXCEPT !.leaf = r] = o1
          BY <3>3
        <4>2. [o1 EXCEPT !.cursor = r] = o2
          OBVIOUS
        <4>3. [o2 EXCEPT !.attached = a] = o3
          OBVIOUS
        <4>4. [o3 EXCEPT !.read_at = t]
              = [key |-> o.key, leaf |-> r, cursor |-> r, attached |-> a, read_at |-> t]
          OBVIOUS
        <4> HIDE DEF o1, o2, o3
        <4> QED BY <4>1, <4>2, <4>3, <4>4, Zenon
      <3> QED BY <3>2, <3>4, Zenon
    <2>3. r \in NameRecord /\ r.parent \in Names /\ Tenured(r) /\ now \in Nat
      BY <1>1, <1>3, EnvironmentFacts
         DEF ResolverInv, RegistryOK, RegistryInv, TenureOrder, Exists, NameRecord, NamesTypeOK
    <2>4. WalkOk(rec, r) => Attached(n)
      BY <1>1, <1>3, AttachedBelow, AttachedNow DEF ResolverInv
    <2>5. /\ s.key = req[q].key /\ s.leaf = r /\ s.cursor = r /\ s.read_at = now
          /\ s.attached = Attached(n)
          /\ s = [key |-> s.key, leaf |-> s.leaf, cursor |-> s.cursor,
                  attached |-> s.attached, read_at |-> s.read_at]
      OBVIOUS
    <2> HIDE DEF s
    <2>6. Walk(s)
      <3> HIDE DEF r
      <3> QED BY <2>3, <2>4, <2>5 DEF Walk, Tenured, NameRecord
    <2>7. req[q].key \in Questions /\ cache' = [k \in Questions |-> cache'[k]]
      BY <1>1, <2>1 DEF ResolverInv, Requested
    <2>8. ResolverInv'
      BY <2>1, <2>2, <2>5, <2>6, <2>7, OthersWalk
    <2> QED BY <2>1, <2>8 DEF AnswersAttached
  <1> QED BY <1>2, <1>3

\* Reading the cursor's parent.
LEMMA FetchParentStep ==
    ASSUME ResolverInv, NEW q \in Requests, FetchParent(q)
    PROVE  ResolverInv' /\ AnswersAttached
  <1> DEFINE c == req[q].cursor
             p == c.parent
  <1>1. Asks(q, "name") /\ req[q].leaf # Nil /\ req[q] # Nil
    BY DEF FetchParent, Asks
  <1>2. Walk(req[q])
    BY <1>1 DEF ResolverInv, Walks
  <1>3. /\ c \in NameRecord /\ p \in Names /\ req[q].leaf \in NameRecord /\ req[q].read_at \in Nat
        /\ now \in Nat
    BY <1>2 DEF Walk, ResolverInv, RegistryOK, NamesTypeOK
  <1>4. CASE ~ParentOk(c)
    <2>1. Answers(q, Nil)
      BY <1>4 DEF FetchParent
    <2>2. /\ ResolverInv' /\ \A i \in Requests : req[i] # Nil /\ req'[i] = Nil => i = q
          /\ cache'[req[q].key].value = Nil
      BY <1>1, <2>1, AnswersKeep
    <2> QED BY <2>2 DEF AnswersAttached, Asks
  <1>5. CASE ParentOk(c) /\ rec[p].parent = Nil
    <2>1. Answers(q, req[q].leaf)
      BY <1>5 DEF FetchParent
    <2>2. WalkOk(rec, c)
      BY <1>3, <1>5, AttachedTop DEF WalkOk, ParentOk, Exists
    <2>3. req[q].attached \/ req[q].leaf.registered_at = req[q].read_at
      <3>1. req[q].leaf.registered_at \in Nat
        BY <1>3 DEF NameRecord
      <3> QED BY <1>2, <1>3, <2>2, <3>1 DEF Walk
    <2>4. ResolverInv' /\ \A i \in Requests : req[i] # Nil /\ req'[i] = Nil => i = q
      BY <1>1, <2>1, AnswersKeep
    <2> QED BY <2>3, <2>4 DEF AnswersAttached, Asks
  <1>6. CASE ParentOk(c) /\ rec[p].parent # Nil
    <2> DEFINE s == [key |-> req[q].key, leaf |-> req[q].leaf, cursor |-> rec[p],
                     attached |-> req[q].attached, read_at |-> req[q].read_at]
    <2>1. UNCHANGED <<namesVars, cache>> /\ req' = [req EXCEPT ![q].cursor = rec[p]]
      BY <1>6 DEF FetchParent
    <2>2. req' = [req EXCEPT ![q] = s]
      <3> DEFINE e == [req[q] EXCEPT !.cursor = rec[p]]
      <3>1. req' = [req EXCEPT ![q] = e]
        BY <2>1 DEF ResolverInv, Requested
      <3>2. e = s
        BY <1>1 DEF ResolverInv, Requested
      <3> QED BY <3>1, <3>2
    <2>3. rec[p] \in NameRecord /\ rec[p].parent \in Names /\ Tenured(rec[p]) /\ rec[p] # Nil
          /\ rec[p].registered_at = c.parent_registered_at
      BY <1>3, <1>6, EnvironmentFacts
         DEF ResolverInv, RegistryOK, RegistryInv, TenureOrder, Exists, NameRecord, ParentOk
    <2>4. WalkOk(rec, rec[p]) => WalkOk(rec, c)
      <3>1. WalkOk(rec, rec[p]) => AttachedIn(rec, p)
        BY <1>3, <1>6, <2>3, AttachedBelow
      <3> QED BY <2>3, <3>1 DEF WalkOk
    <2>5. /\ s.key = req[q].key /\ s.leaf = req[q].leaf /\ s.cursor = rec[p]
          /\ s.read_at = req[q].read_at /\ s.attached = req[q].attached
          /\ s = [key |-> s.key, leaf |-> s.leaf, cursor |-> s.cursor,
                  attached |-> s.attached, read_at |-> s.read_at]
      OBVIOUS
    <2> HIDE DEF s
    <2>6. Walk(s)
      <3>1. rec[p].registered_at \in Nat /\ rec[p].parent_registered_at \in Nat
            /\ c.registered_at \in Nat /\ req[q].leaf.registered_at \in Nat
        BY <1>3, <2>3 DEF NameRecord
      <3> QED BY <1>2, <1>3, <2>3, <2>4, <2>5, <3>1 DEF Walk, Tenured
    <2>7. req[q].key \in Questions /\ cache' = [k \in Questions |-> cache'[k]]
      BY <1>1, <2>1 DEF ResolverInv, Requested
    <2>8. ResolverInv'
      BY <2>1, <2>2, <2>5, <2>6, <2>7, OthersWalk
    <2> QED BY <2>1, <2>8 DEF AnswersAttached
  <1> QED BY <1>4, <1>5, <1>6

\* Looking up a reverse record.
LEMMA FetchReverseStep ==
    ASSUME ResolverInv, NEW q \in Requests, FetchReverse(q) \/ FetchForward(q)
    PROVE  ResolverInv' /\ AnswersAttached
  <1>1. Asks(q, "reverse") /\ ~Asks(q, "name") /\ req[q] # Nil
    BY DEF FetchReverse, FetchForward, Asks
  <1>2. ASSUME NEW value, Answers(q, value) PROVE ResolverInv' /\ AnswersAttached
    <2>1. ResolverInv' /\ \A i \in Requests : req[i] # Nil /\ req'[i] = Nil => i = q
      BY <1>1, <1>2, AnswersKeep
    <2> QED BY <1>1, <2>1 DEF AnswersAttached, Asks
  <1>3. ASSUME NEW c, req' = [req EXCEPT ![q].cursor = c], UNCHANGED <<namesVars, cache>>
        PROVE  ResolverInv' /\ AnswersAttached
    <2> DEFINE s == [key |-> req[q].key, leaf |-> req[q].leaf, cursor |-> c,
                     attached |-> req[q].attached, read_at |-> req[q].read_at]
    <2>1. req' = [req EXCEPT ![q] = s]
      <3> DEFINE e == [req[q] EXCEPT !.cursor = c]
      <3>1. req' = [req EXCEPT ![q] = e]
        BY <1>3 DEF ResolverInv, Requested
      <3>2. e = s
        BY <1>1 DEF ResolverInv, Requested
      <3> QED BY <3>1, <3>2
    <2>2. /\ s.key = req[q].key
          /\ s = [key |-> s.key, leaf |-> s.leaf, cursor |-> s.cursor,
                  attached |-> s.attached, read_at |-> s.read_at]
      OBVIOUS
    <2> HIDE DEF s
    <2>3. /\ req[q].key \in Questions /\ cache' = [k \in Questions |-> cache'[k]]
          /\ s.key[1] # "name"
      BY <1>1, <1>3, <2>2 DEF ResolverInv, Requested, Asks
    <2>4. ResolverInv'
      BY <1>3, <2>1, <2>2, <2>3, OthersWalk
    <2> QED BY <1>3, <2>4 DEF AnswersAttached
  <1> QED BY <1>2, <1>3, Zenon DEF FetchReverse, FetchForward

\* A fetch that throws ends its request.
LEMMA FetchFailsStep ==
    ASSUME ResolverInv, NEW q \in Requests, FetchFails(q)
    PROVE  ResolverInv' /\ AnswersAttached
  <1>1. req' = [req EXCEPT ![q] = Nil] /\ UNCHANGED <<namesVars, cache>>
    BY DEF FetchFails
  <1>2. cache' = [k \in Questions |-> cache'[k]]
    BY <1>1 DEF ResolverInv, Requested
  <1> QED BY <1>1, <1>2, OthersWalk DEF AnswersAttached

\* A request that misses the cache has not read anything yet.
LEMMA MissStep ==
    ASSUME ResolverInv, NEW q \in Requests, NEW k \in Questions, Miss(q, k)
    PROVE  ResolverInv' /\ AnswersAttached
  <1> DEFINE s == [key |-> k, leaf |-> Nil, cursor |-> Nil, attached |-> FALSE, read_at |-> now]
  <1>1. req' = [req EXCEPT ![q] = s] /\ UNCHANGED <<namesVars, cache>>
    BY DEF Miss
  <1>2. /\ s.key = k /\ s.leaf = Nil
        /\ s = [key |-> s.key, leaf |-> s.leaf, cursor |-> s.cursor,
                attached |-> s.attached, read_at |-> s.read_at]
    OBVIOUS
  <1> HIDE DEF s
  <1>3. cache' = [i \in Questions |-> cache'[i]]
    BY <1>1 DEF ResolverInv, Requested
  <1>4. ResolverInv'
    BY <1>1, <1>2, <1>3, OthersWalk
  <1> QED BY <1>1, <1>4 DEF AnswersAttached

\* Steps that leave the registry and the requests alone.
LEMMA RestStep ==
    ASSUME ResolverInv, UNCHANGED <<namesVars, req>>, cache' = [k \in Questions |-> cache'[k]]
    PROVE  ResolverInv' /\ AnswersAttached
  <1>1. now' = now /\ rec' = rec /\ req' = req
    BY DEF namesVars, registryVars
  <1>2. RegistryOK'
    BY RegistryKept DEF ResolverInv
  <1>3. Requested' /\ Walks'
    BY <1>1 DEF ResolverInv, Requested, Walks, Walk, Asks
  <1>4. AnswersAttached
    BY <1>1 DEF AnswersAttached, Asks
  <1> QED BY <1>2, <1>3, <1>4 DEF ResolverInv

\* What the registry does meanwhile takes nothing from what a request knows.
LEMMA MeanwhileStep ==
    ASSUME ResolverInv, Registry, UNCHANGED <<req, cache>>
    PROVE  ResolverInv' /\ AnswersAttached
  <1>1. RegistryOK'
    BY RegistrySteps, RegistryKept DEF ResolverInv
  <1>2. Outlives
    BY RegistryOutlives DEF ResolverInv
  <1>3. now \in Nat /\ now' \in Nat /\ now <= now'
    <2>1. now' = now \/ now' = now + 1
      BY Zenon
         DEF Registry, RegisterName, ClaimExpired, BurnName, RevokeSubdomain, SetReverse,
             TransferName, WrapSubdomain, Tick, OnlyRecord, OnlyRecordAndMoney
    <2> QED BY <1>1, <2>1 DEF ResolverInv, RegistryOK, NamesTypeOK
  <1>4. ASSUME NEW q \in Requests, Asks(q, "name"), req[q].leaf # Nil
        PROVE  Walk(req[q])'
    <2> DEFINE r == req[q]
               c == r.cursor
    <2>1. Walk(r) /\ r' = r
      BY <1>4 DEF ResolverInv, Walks
    <2>2. /\ c \in NameRecord /\ c.parent \in Names /\ r.read_at \in Nat
          /\ c.parent_registered_at \in Nat /\ c.registered_at \in Nat
          /\ r.leaf.registered_at \in Nat
      BY <2>1 DEF Walk, NameRecord
    <2>3. r.leaf.registered_at < r.read_at /\ WalkOk(rec', c) => r.attached
      <3> SUFFICES ASSUME r.leaf.registered_at < r.read_at, WalkOk(rec', c) PROVE r.attached
        OBVIOUS
      <3>1. c.parent_registered_at < now
        BY <1>3, <2>1, <2>2 DEF Walk
      <3>2. WalkOk(rec, c)
        BY <1>2, <2>2, <3>1, WalkBack DEF ResolverInv
      <3> QED BY <2>1, <3>2 DEF Walk
    <2>4. r.read_at <= now'
      BY <1>3, <2>1, <2>2 DEF Walk
    <2> QED BY <2>1, <2>3, <2>4 DEF Walk
  <1>5. Requested' /\ Walks'
    BY <1>4 DEF ResolverInv, Requested, Walks, Asks
  <1> QED BY <1>1, <1>5 DEF ResolverInv, AnswersAttached

\* The resolver starts beside a registry that has just been deployed.
LEMMA ResolverInitial ==
    ASSUME ResolverInit
    PROVE  ResolverInv
  <1> USE MoneyAssumption, RegistryAssumption
  <1>1. config \in Config /\ config # Nil /\ ValidParams(config.params)
    BY DeployedConfig DEF ResolverInit, NamesInit
  <1>2. MoneyTypeOK
    BY <1>1 DEF ResolverInit, NamesInit, MoneyInit, MoneyTypeOK
  <1>3. NamesTypeOK
    BY <1>1, <1>2 DEF ResolverInit, NamesInit, NamesTypeOK
  <1>4. \A n \in Names : ~Exists(n)
    BY DEF ResolverInit, NamesInit, Exists
  <1>5. RegistryInv
    BY <1>4 DEF RegistryInv, NftBacked, ReverseBacked, TenureOrder, SaleUnminted
  <1>6. Requested /\ Walks
    BY DEF ResolverInit, Requested, Walks, Asks
  <1> QED BY <1>3, <1>5, <1>6 DEF ResolverInv, RegistryOK

\* Every step of the resolver and of the registry keeps what the requests know,
\* and answers only what is right.
LEMMA ResolverStep ==
    ASSUME ResolverInv, [ResolverNext]_resolverVars
    PROVE  ResolverInv' /\ [AnswersAttached]_resolverVars
  <1>1. ASSUME UNCHANGED resolverVars PROVE ResolverInv'
    <2>1. UNCHANGED <<namesVars, req>> /\ cache' = [k \in Questions |-> cache'[k]]
      BY <1>1 DEF resolverVars, ResolverInv, Requested
    <2> QED BY <2>1, RestStep
  <1>2. ASSUME NEW k \in Questions, Hit(k) PROVE ResolverInv' /\ UNCHANGED resolverVars
    BY <1>1, <1>2 DEF Hit
  <1>3. ASSUME Age PROVE ResolverInv' /\ AnswersAttached
    <2>1. UNCHANGED <<namesVars, req>> /\ cache' = [k \in Questions |-> cache'[k]]
      BY <1>3 DEF Age
    <2> QED BY <2>1, RestStep
  <1>4. ASSUME NEW q \in Requests, Fetch(q) PROVE ResolverInv' /\ AnswersAttached
    BY <1>4, FetchLeafStep, FetchParentStep, FetchReverseStep, FetchFailsStep DEF Fetch
  <1> QED BY <1>1, <1>2, <1>3, <1>4, MissStep, MeanwhileStep DEF ResolverNext

\* The invariant of the resolver beside the registry.
LEMMA ResolverInvariance == ResolverSpec => []ResolverInv
  BY ResolverInitial, ResolverStep, PTL DEF ResolverSpec

\* A subdomain is only answered if it was attached to its ancestors when it was
\* read, although they were read later and one by one and the registry went on,
\* except within the second it was registered in (SolansClient.resolve).
THEOREM ResolverWalkSound == ResolverSpec => WalkSound
  BY ResolverInvariance, ResolverStep, PTL DEF ResolverSpec, WalkSound

\* The registration times the walk compares are ordered along the tree
\* (wrap_subdomain, claim_expired).
THEOREM ResolverTenureOrder == ResolverSpec => []TenureOrder
  <1>1. ResolverInv => TenureOrder
    BY DEF ResolverInv, RegistryOK, RegistryInv
  <1> QED BY <1>1, ResolverInvariance, PTL

\* A claim cuts off the whole subtree of the lapsed registration from the
\* resolver's answers (claim_expired, wrap_subdomain).
THEOREM ResolverClaimCuts == ResolverSpec => ClaimCutsSubtree
  <1>1. ResolverInv => CutsSubtree
    BY ClaimCuts DEF ResolverInv, RegistryOK
  <1> QED BY <1>1, ResolverInvariance, PTL DEF ClaimCutsSubtree

-----------------------------------------------------------------------------
(* The indexer: folds.  A batch is the fold of ingestTx over a sequence.  The *)
(* recursion of the library's fold is over the subsets of the domain; its     *)
(* solutions are shown to exist by the least length for which there is none.  *)

\* What the fold's recursion makes of the positions in s.
FoldStep(i, txs, g, s) ==
    IF s = {} THEN i ELSE ingestTx(g[s \ {Max(s)}], txs[Max(s)])

FoldedBy(i, txs, n, g) == g = [s \in SUBSET (1..n) |-> FoldStep(i, txs, g, s)]

\* The library's definition in these terms.
LEMMA IngestUnfolds ==
    ASSUME NEW i, NEW txs, NEW n, DOMAIN txs = 1..n
    PROVE  ingestHeliusTxs(i, txs) = (CHOOSE g : FoldedBy(i, txs, n, g))[1..n]
  BY Zenon DEF ingestHeliusTxs, FoldLeft, MapThenFoldSet, FoldedBy, FoldStep

\* The last of some positions.
LEMMA LastPosition ==
    ASSUME NEW m \in Nat, NEW s \in SUBSET (1..m), s # {}
    PROVE  /\ Max(s) \in s /\ \A k \in s : k <= Max(s)
           /\ m \in s => Max(s) = m
  <1>1. \E x \in s : \A y \in s : x >= y
    <2> DEFINE T == {d \in 0..m : m - d \in s}
    <2>1. T \in SUBSET Nat
      OBVIOUS
    <2>2. PICK x \in s : TRUE
      OBVIOUS
    <2>3. x \in 1..m
      OBVIOUS
    <2>4. m - x \in 0..m /\ m - (m - x) = x
      BY <2>3
    <2>5. T # {}
      BY <2>4
    <2>6. PICK d \in T : \A k \in T : d <= k
      <3> HIDE DEF T
      <3> QED BY <2>1, <2>5, LeastNumber
    <2>7. ASSUME NEW y \in s PROVE m - d >= y
      <3>1. y \in 1..m /\ m - y \in 0..m /\ m - (m - y) = y
        OBVIOUS
      <3>2. m - y \in T
        BY <3>1
      <3>3. d <= m - y /\ d \in 0..m
        BY <2>6, <3>2
      <3> HIDE DEF T
      <3> QED BY <3>1, <3>3
    <2> QED BY <2>7
  <1>2. Max(s) \in s /\ \A k \in s : Max(s) >= k
    BY <1>1 DEF Max
  <1>3. \A k \in s : k \in Nat /\ k <= m
    OBVIOUS
  <1>4. Max(s) \in Nat /\ Max(s) <= m
    BY <1>2, <1>3
  <1>5. \A k \in s : k <= Max(s)
    BY <1>2, <1>3, <1>4
  <1>6. m \in s => Max(s) = m
    BY <1>4, <1>5
  <1> QED BY <1>2, <1>5, <1>6

\* The recursion has a solution over the subsets of 1..n.
LEMMA FoldExists ==
    ASSUME NEW i, NEW txs, NEW n \in Nat
    PROVE  \E g : FoldedBy(i, txs, n, g)
  <1> DEFINE T == {m \in Nat : ~\E g : FoldedBy(i, txs, m, g)}
  <1>1. SUFFICES ASSUME T # {} PROVE FALSE
    OBVIOUS
  <1>2. PICK m \in T : \A k \in T : m <= k
    <2>1. T \in SUBSET Nat
      OBVIOUS
    <2> HIDE DEF T
    <2> QED BY <1>1, <2>1, LeastNumber
  <1>3. m \in Nat /\ ~\E g : FoldedBy(i, txs, m, g)
    OBVIOUS
  <1>4. CASE m = 0
    <2> DEFINE g == [s \in SUBSET (1..0) |-> i]
    <2>1. \A s \in SUBSET (1..0) : s = {}
      OBVIOUS
    <2>2. \A h : \A s \in SUBSET (1..0) : FoldStep(i, txs, h, s) = i
      BY <2>1 DEF FoldStep
    <2>3. FoldedBy(i, txs, 0, g)
      BY <2>2 DEF FoldedBy
    <2> QED BY <1>3, <1>4, <2>3
  <1>5. CASE m # 0
    <2>1. m - 1 \in Nat /\ m - 1 \notin T
      BY <1>2, <1>3, <1>5
    <2>2. PICK h : FoldedBy(i, txs, m - 1, h)
      BY <2>1
    <2> HIDE DEF T
    <2> DEFINE g == [s \in SUBSET (1..m) |-> FoldStep(i, txs, h, s)]
    <2>3. SUBSET (1..(m - 1)) \subseteq SUBSET (1..m)
      BY <1>3, <2>1
    <2>4. \A s \in SUBSET (1..(m - 1)) : g[s] = h[s]
      <3> SUFFICES ASSUME NEW s \in SUBSET (1..(m - 1)) PROVE g[s] = h[s]
        OBVIOUS
      <3>1. h[s] = FoldStep(i, txs, h, s)
        BY <2>2 DEF FoldedBy
      <3>2. g[s] = FoldStep(i, txs, h, s)
        BY <2>3
      <3> QED BY <3>1, <3>2
    <2>5. ASSUME NEW s \in SUBSET (1..m)
          PROVE  FoldStep(i, txs, h, s) = FoldStep(i, txs, g, s)
      <3>1. CASE s = {}
        BY <3>1 DEF FoldStep
      <3>2. CASE s # {}
        <4>1. s \ {Max(s)} \in SUBSET (1..(m - 1))
          <5>1. /\ Max(s) \in s /\ \A k \in s : k <= Max(s)
                /\ m \in s => Max(s) = m
            BY <1>3, <3>2, LastPosition
          <5>2. \A k \in s : k \in 1..m
            OBVIOUS
          <5>3. ASSUME NEW k \in s \ {Max(s)} PROVE k \in 1..(m - 1)
            <6>1. k # m
              BY <5>1
            <6> QED BY <1>3, <2>1, <5>2, <6>1
          <5> QED BY <5>3
        <4>2. h[s \ {Max(s)}] = g[s \ {Max(s)}]
          BY <2>4, <4>1
        <4> QED BY <3>2, <4>2 DEF FoldStep
      <3> QED BY <3>1, <3>2
    <2>6. FoldedBy(i, txs, m, g)
      BY <2>5 DEF FoldedBy
    <2> QED BY <1>3, <2>6
  <1> QED BY <1>4, <1>5

\* The store before and after each transaction of a batch.
Runs(h, i, txs, n) ==
    /\ h[0] = i
    /\ \A k \in 1..n : h[k] = ingestTx(h[k - 1], txs[k])

\* What a batch does, one transaction after the other.
LEMMA BatchRuns ==
    ASSUME NEW i, NEW txs, NEW n \in Nat, DOMAIN txs = 1..n
    PROVE  \E h : Runs(h, i, txs, n) /\ h[n] = ingestHeliusTxs(i, txs)
  <1> DEFINE g == CHOOSE f : FoldedBy(i, txs, n, f)
             h == [k \in 0..n |-> g[1..k]]
  <1>1. FoldedBy(i, txs, n, g)
    BY FoldExists
  <1>2. ingestHeliusTxs(i, txs) = g[1..n]
    BY IngestUnfolds
  <1> HIDE DEF g
  <1>3. \A s \in SUBSET (1..n) : g[s] = FoldStep(i, txs, g, s)
    BY <1>1 DEF FoldedBy
  <1>4. g[1..0] = i
    <2>1. 1..0 = {} /\ {} \in SUBSET (1..n)
      OBVIOUS
    <2> QED BY <1>3, <2>1 DEF FoldStep
  <1>5. ASSUME NEW k \in 1..n PROVE g[1..k] = ingestTx(g[1..(k - 1)], txs[k])
    <2>1. k \in Nat /\ 1..k \in SUBSET (1..n) /\ 1..k # {} /\ k \in 1..k
      OBVIOUS
    <2>2. Max(1..k) = k
      <3>1. 1..k \in SUBSET (1..k)
        OBVIOUS
      <3> QED BY <2>1, <3>1, LastPosition
    <2>3. (1..k) \ {k} = 1..(k - 1)
      BY <2>1
    <2> QED BY <1>3, <2>1, <2>2, <2>3 DEF FoldStep
  <1>6. Runs(h, i, txs, n)
    <2>1. ASSUME NEW k \in 1..n PROVE h[k] = ingestTx(h[k - 1], txs[k])
      <3>1. k \in 0..n /\ k - 1 \in 0..n
        OBVIOUS
      <3> QED BY <1>5, <3>1
    <2>2. h[0] = i
      BY <1>4
    <2> QED BY <2>1, <2>2 DEF Runs
  <1>7. h[n] = ingestHeliusTxs(i, txs)
    BY <1>2
  <1> QED BY <1>6, <1>7

\* The transactions of a batch determine what it does.
LEMMA RunsAgree ==
    ASSUME NEW i, NEW txs, NEW n \in Nat, NEW h, NEW g,
           Runs(h, i, txs, n), Runs(g, i, txs, n)
    PROVE  \A k \in 0..n : h[k] = g[k]
  <1> DEFINE T == {k \in 0..n : h[k] # g[k]}
  <1>1. SUFFICES ASSUME T # {} PROVE FALSE
    OBVIOUS
  <1>2. PICK m \in T : \A k \in T : m <= k
    <2>1. T \in SUBSET Nat
      OBVIOUS
    <2> HIDE DEF T
    <2> QED BY <1>1, <2>1, LeastNumber
  <1>3. m \in 0..n /\ h[m] # g[m]
    OBVIOUS
  <1>4. m \in 1..n
    BY <1>3 DEF Runs
  <1>5. m - 1 \in 0..n /\ h[m - 1] = g[m - 1]
    BY <1>2, <1>4
  <1> HIDE DEF T
  <1> QED BY <1>3, <1>4, <1>5 DEF Runs

\* An empty batch does nothing.
LEMMA IngestNothing ==
    ASSUME NEW i
    PROVE  ingestHeliusTxs(i, <<>>) = i
  <1>1. DOMAIN <<>> = 1..0
    OBVIOUS
  <1>2. PICK h : Runs(h, i, <<>>, 0) /\ h[0] = ingestHeliusTxs(i, <<>>)
    BY <1>1, BatchRuns
  <1> QED BY <1>2 DEF Runs

\* One more transaction at the end of a batch.
LEMMA IngestAppend ==
    ASSUME NEW i, NEW V, NEW txs \in Seq(V), NEW t \in V
    PROVE  ingestHeliusTxs(i, Append(txs, t)) = ingestTx(ingestHeliusTxs(i, txs), t)
  <1> DEFINE n == Len(txs)
             all == Append(txs, t)
  <1>1. /\ n \in Nat /\ DOMAIN txs = 1..n /\ DOMAIN all = 1..(n + 1)
        /\ all[n + 1] = t /\ \A k \in 1..n : all[k] = txs[k]
    OBVIOUS
  <1>2. PICK h : Runs(h, i, txs, n) /\ h[n] = ingestHeliusTxs(i, txs)
    BY <1>1, BatchRuns
  <1> HIDE DEF n, all
  <1>3. PICK g : Runs(g, i, all, n + 1) /\ g[n + 1] = ingestHeliusTxs(i, all)
    <2>1. n + 1 \in Nat
      BY <1>1
    <2> QED BY <1>1, <2>1, BatchRuns
  <1>4. Runs(g, i, txs, n)
    <2>1. \A k \in 1..n : k \in 1..(n + 1)
      BY <1>1
    <2> QED BY <1>1, <1>3, <2>1 DEF Runs
  <1>5. g[n] = h[n]
    <2>1. n \in 0..n
      BY <1>1
    <2>2. n \in Nat /\ Runs(g, i, txs, n) /\ Runs(h, i, txs, n)
      BY <1>1, <1>2, <1>4
    <2>3. \A k \in 0..n : g[k] = h[k]
      BY <2>2, RunsAgree
    <2> QED BY <2>1, <2>3
  <1>6. g[n + 1] = ingestTx(g[n], t)
    <2>1. n + 1 \in 1..(n + 1) /\ (n + 1) - 1 = n
      BY <1>1
    <2> QED BY <1>1, <1>3, <2>1 DEF Runs
  <1> QED BY <1>2, <1>3, <1>5, <1>6 DEF all

-----------------------------------------------------------------------------
(* One transaction. *)

\* A sequence of one sequence.
LEMMA FlattenOne ==
    ASSUME NEW s
    PROVE  FlattenSeq(<<s>>) = s
  <1> DEFINE Flat(f) == f = [k \in 1..Len(<<s>>) |->
                               IF k = 1 THEN <<s>>[k] ELSE f[k - 1] \o <<s>>[k]]
             g == [k \in 1..1 |-> s]
  <1>1. Len(<<s>>) = 1 /\ <<s>>[1] = s
    OBVIOUS
  <1>2. Flat(g)
    BY <1>1
  <1>3. Flat(CHOOSE f : Flat(f))
    BY <1>2, Zenon
  <1>4. (CHOOSE f : Flat(f))[1] = s
    <2> DEFINE f == CHOOSE f : Flat(f)
    <2>1. f = [k \in 1..Len(<<s>>) |-> IF k = 1 THEN <<s>>[k] ELSE f[k - 1] \o <<s>>[k]]
      BY <1>3
    <2> HIDE DEF f
    <2>2. f[1] = s
      BY <1>1, <2>1
    <2> QED BY <2>2 DEF f
  <1>5. FlattenSeq(<<s>>) = (CHOOSE f : Flat(f))[Len(<<s>>)]
    <2>1. Len(<<s>>) # 0
      BY <1>1
    <2> QED BY <2>1, Zenon DEF FlattenSeq
  <1> QED BY <1>1, <1>4, <1>5

\* The instructions of a transaction with one outer instruction.
LEMMA RawOfOne ==
    ASSUME NEW txn, NEW x, txn.instructions = <<x>>
    PROVE  rawInstructionsOf(txn) = <<x>> \o x.inner
  <1> DEFINE y == <<x>> \o x.inner
  <1>1. [k \in 1..Len(<<x>>) |-> <<<<x>>[k]>> \o <<x>>[k].inner] = <<y>>
    OBVIOUS
  <1> HIDE DEF y
  <1>2. rawInstructionsOf(txn) = FlattenSeq(<<y>>)
    BY <1>1 DEF rawInstructionsOf
  <1>3. FlattenSeq(<<y>>) = y
    BY FlattenOne
  <1> QED BY <1>2, <1>3 DEF y

\* What the fold over the instructions raws of one transaction makes of the
\* positions in s.
RawStep(i, raws, ts, g, s) ==
    IF s = {} THEN i
    ELSE applyEvent(g[s \ {Max(s)}], parseSolansInstruction(raws[Max(s)]), ts)

RawFolded(i, raws, ts, g) ==
    g = [s \in SUBSET DOMAIN raws |-> RawStep(i, raws, ts, g, s)]

\* The library's definition in these terms.
LEMMA TxUnfolds ==
    ASSUME NEW i, NEW txn, NEW raws, raws = rawInstructionsOf(txn)
    PROVE  ingestTx(i, txn)
           = (CHOOSE g : RawFolded(i, raws, txn.timestamp, g))[DOMAIN raws]
  BY Zenon DEF ingestTx, FoldLeft, MapThenFoldSet, RawFolded, RawStep

\* A transaction with one instruction.
LEMMA IngestOne ==
    ASSUME NEW i, NEW txn, NEW x, rawInstructionsOf(txn) = <<x>>
    PROVE  ingestTx(i, txn) = applyEvent(i, parseSolansInstruction(x), txn.timestamp)
  <1> DEFINE raws == <<x>>
             ts == txn.timestamp
             y == applyEvent(i, parseSolansInstruction(x), ts)
             g == [s \in SUBSET {1} |-> IF s = {} THEN i ELSE y]
  <1>1. DOMAIN raws = {1} /\ raws[1] = x
    OBVIOUS
  <1>2. Max({1}) = 1
    BY DEF Max
  <1> HIDE DEF raws, ts
  <1>3. \A h : RawFolded(i, raws, ts, h) => h[{1}] = y
    <2> SUFFICES ASSUME NEW h, RawFolded(i, raws, ts, h) PROVE h[{1}] = y
      OBVIOUS
    <2>1. \A s \in SUBSET {1} : h[s] = RawStep(i, raws, ts, h, s)
      BY <1>1 DEF RawFolded
    <2>2. h[{}] = i
      BY <2>1 DEF RawStep
    <2>3. {1} \ {1} = {} /\ {1} # {}
      OBVIOUS
    <2> QED BY <1>1, <1>2, <2>1, <2>2, <2>3 DEF RawStep
  <1>4. RawFolded(i, raws, ts, g)
    <2>1. ASSUME NEW s \in SUBSET {1} PROVE g[s] = RawStep(i, raws, ts, g, s)
      <3>1. CASE s = {}
        BY <3>1 DEF RawStep
      <3>2. CASE s = {1}
        <4>1. g[s \ {1}] = i /\ g[s] = y
          <5> HIDE DEF y
          <5> QED BY <3>2
        <4> QED BY <1>1, <1>2, <3>2, <4>1 DEF RawStep
      <3> QED BY <3>1, <3>2
    <2>2. g = [s \in SUBSET {1} |-> g[s]]
      OBVIOUS
    <2> HIDE DEF g
    <2> QED BY <1>1, <2>1, <2>2 DEF RawFolded
  <1>5. RawFolded(i, raws, ts, CHOOSE h : RawFolded(i, raws, ts, h))
    BY <1>4
  <1>6. ingestTx(i, txn) = (CHOOSE h : RawFolded(i, raws, ts, h))[DOMAIN raws]
    BY TxUnfolds DEF raws, ts
  <1> QED BY <1>1, <1>3, <1>5, <1>6 DEF ts

\* A transaction with an instruction of another program that invokes one.
LEMMA IngestTwo ==
    ASSUME NEW i, NEW txn, NEW w, NEW x, rawInstructionsOf(txn) = <<w, x>>,
           parseSolansInstruction(w) = NoEvent
    PROVE  ingestTx(i, txn) = applyEvent(i, parseSolansInstruction(x), txn.timestamp)
  <1> DEFINE raws == <<w, x>>
             ts == txn.timestamp
             y == applyEvent(i, parseSolansInstruction(x), ts)
             g == [s \in SUBSET {1, 2} |-> IF 2 \in s THEN y ELSE i]
  <1>1. DOMAIN raws = {1, 2} /\ raws[1] = w /\ raws[2] = x
    OBVIOUS
  <1>2. Max({1}) = 1 /\ Max({2}) = 2 /\ Max({1, 2}) = 2
    BY DEF Max
  <1>3. applyEvent(i, NoEvent, ts) = i
    BY DEF applyEvent, NoEvent
  <1> HIDE DEF raws, ts
  <1>4. \A h : RawFolded(i, raws, ts, h) => h[{1, 2}] = y
    <2> SUFFICES ASSUME NEW h, RawFolded(i, raws, ts, h) PROVE h[{1, 2}] = y
      OBVIOUS
    <2>1. \A s \in SUBSET {1, 2} : h[s] = RawStep(i, raws, ts, h, s)
      BY <1>1 DEF RawFolded
    <2>2. h[{}] = i
      BY <2>1 DEF RawStep
    <2>3. {1} \ {1} = {} /\ {1} # {} /\ {1} \in SUBSET {1, 2}
      OBVIOUS
    <2>4. h[{1}] = i
      BY <1>1, <1>2, <1>3, <2>1, <2>2, <2>3 DEF RawStep
    <2>5. {1, 2} \ {2} = {1} /\ {1, 2} # {} /\ {1, 2} \in SUBSET {1, 2}
      OBVIOUS
    <2> QED BY <1>1, <1>2, <2>1, <2>4, <2>5 DEF RawStep
  <1>5. RawFolded(i, raws, ts, g)
    <2>1. ASSUME NEW s \in SUBSET {1, 2} PROVE g[s] = RawStep(i, raws, ts, g, s)
      <3> HIDE DEF y
      <3>1. CASE s = {}
        BY <3>1 DEF RawStep
      <3>2. CASE s = {1}
        <4>1. g[s \ {1}] = i /\ g[s] = i
          BY <3>2
        <4> QED BY <1>1, <1>2, <1>3, <3>2, <4>1 DEF RawStep
      <3>3. CASE s = {2} \/ s = {1, 2}
        <4>1. g[s \ {2}] = i /\ g[s] = y /\ s # {}
          BY <3>3
        <4>2. Max(s) = 2
          BY <1>2, <3>3
        <4> HIDE DEF g
        <4> QED BY <1>1, <4>1, <4>2 DEF RawStep, y
      <3>4. s = {} \/ s = {1} \/ s = {2} \/ s = {1, 2}
        OBVIOUS
      <3> QED BY <3>1, <3>2, <3>3, <3>4
    <2>2. g = [s \in SUBSET {1, 2} |-> g[s]]
      OBVIOUS
    <2> HIDE DEF g
    <2> QED BY <1>1, <2>1, <2>2 DEF RawFolded
  <1>6. RawFolded(i, raws, ts, CHOOSE h : RawFolded(i, raws, ts, h))
    BY <1>5
  <1>7. ingestTx(i, txn) = (CHOOSE h : RawFolded(i, raws, ts, h))[DOMAIN raws]
    BY TxUnfolds DEF raws, ts
  <1> QED BY <1>1, <1>4, <1>6, <1>7 DEF ts

\* The transaction t makes the store apply the event ev, and nothing else.
Carries(t, ev) == \A i : ingestTx(i, t) = applyEvent(i, ev, t.timestamp)

\* An instruction carries the event it is parsed to, whether a wallet or a
\* multisig has sent it.
LEMMA SentCarries ==
    ASSUME NEW ix, NEW ts, NEW sent1, sent1 = Direct(ix) \/ sent1 = Via(ix),
           NEW t, t = [instructions |-> <<sent1>>, timestamp |-> ts]
    PROVE  Carries(t, parseSolansInstruction(Direct(ix)))
  <1>1. t.instructions = <<sent1>>
    OBVIOUS
  <1>2. CASE sent1 = Direct(ix)
    <2>1. sent1.inner = <<>>
      BY <1>2 DEF Direct
    <2>2. rawInstructionsOf(t) = <<sent1>>
      BY <1>1, <2>1, RawOfOne
    <2> QED BY <1>2, <2>2, IngestOne DEF Carries
  <1>3. CASE sent1 = Via(ix)
    <2>1. sent1.inner = <<Direct(ix)>> /\ sent1.program = <<"program", "multisig">>
      BY <1>3 DEF Via
    <2>2. rawInstructionsOf(t) = <<sent1>> \o sent1.inner
      BY <1>1, RawOfOne
    <2>3. rawInstructionsOf(t) = <<sent1, Direct(ix)>>
      BY <2>1, <2>2
    <2>4. sent1.program # SOLANS_PROGRAM_ADDRESS
      BY <2>1 DEF SOLANS_PROGRAM_ADDRESS
    <2>5. parseSolansInstruction(sent1) = NoEvent
      BY <2>4 DEF parseSolansInstruction
    <2> QED BY <2>3, <2>5, IngestTwo DEF Carries
  <1> QED BY <1>2, <1>3

-----------------------------------------------------------------------------
(* What the instructions of the SDK are parsed to. *)

\* The events of the instructions the indexer tracks.
RegisterOf(n, v, y) ==
    [kind |-> "register", nameRecord |-> <<"name", n>>, owner |-> v, name |-> n, years |-> y]
RenewOf(n, y) == [kind |-> "renew", nameRecord |-> <<"name", n>>, name |-> n, years |-> y]
SubdomainOf(n, p, v) ==
    [kind |-> "subdomain", nameRecord |-> <<"name", n>>, parent |-> <<"name", p>>,
     owner |-> v, label |-> n]
TransferOf(n, v) == [kind |-> "transfer", nameRecord |-> <<"name", n>>, newOwner |-> v]
BurnOf(n) == [kind |-> "burn", nameRecord |-> <<"name", n>>]
ListOf(n, w, p) == [kind |-> "list", nameRecord |-> <<"name", n>>, seller |-> w, price |-> p]
UnlistOf(n) == [kind |-> "unlist", nameRecord |-> <<"name", n>>]
BuyOf(n, v) == [kind |-> "buy", nameRecord |-> <<"name", n>>, newOwner |-> v]

\* A parser finds an account under the role of its position.
LEMMA RoleAt ==
    ASSUME NEW ix, NEW roles, NEW k, NEW role, k \in 1..Len(roles), roles[k] = role,
           \A j \in 1..Len(roles) : roles[j] = role => j = k
    PROVE  /\ Parsed(ix, roles).accounts[role] = ix.accounts[k].address
           /\ Parsed(ix, roles).data = ix.data
  <1>1. role \in {roles[j] : j \in 1..Len(roles)}
    OBVIOUS
  <1>2. (CHOOSE j \in 1..Len(roles) : roles[j] = role) = k
    OBVIOUS
  <1> QED BY <1>1, <1>2 DEF Parsed, AccountAt

\* register_name.
LEMMA ParsesRegisterName ==
    ASSUME NEW w, NEW v, NEW n, NEW y, NEW cfg, NEW ix,
           ix = getRegisterNameInstruction(w, v, cfg, Absent, n, y)
    PROVE  parseSolansInstruction(Direct(ix)) = RegisterOf(n, v, y)
  <1> DEFINE roles == <<"payer", "owner", "config", "nameRecord", "payerTokenAccount",
                        "treasuryTokenAccount", "stakingVault", "burnVault",
                        "referralTokenAccount", "paymentMint", "tokenProgram",
                        "systemProgram">>
             p0 == parseRegisterNameInstruction(ix)
  <1>1. /\ identifySolansInstruction(ix) = "register_name"
        /\ Direct(ix).ix = ix /\ Direct(ix).program = SOLANS_PROGRAM_ADDRESS
    BY DEF getRegisterNameInstruction, Instruction, identifySolansInstruction,
           SolansInstruction, Direct
  <1>2. /\ ix.data.name = n
        /\ ix.data.years = y
        /\ ix.accounts[2].address = v
        /\ ix.accounts[4].address = <<"name", n>>
    BY DEF getRegisterNameInstruction, Instruction, WS, S, R, W, Meta, findNameRecordPda
  <1>3. p0 = Parsed(ix, roles)
    BY DEF parseRegisterNameInstruction
  <1>4. /\ 2 \in 1..Len(roles) /\ roles[2] = "owner"
        /\ \A j \in 1..Len(roles) : roles[j] = "owner" => j = 2
    OBVIOUS
  <1>5. /\ 4 \in 1..Len(roles) /\ roles[4] = "nameRecord"
        /\ \A j \in 1..Len(roles) : roles[j] = "nameRecord" => j = 4
    OBVIOUS
  <1> HIDE DEF roles, p0
  <1>6. p0.accounts["owner"] = ix.accounts[2].address /\ p0.data = ix.data
    BY <1>3, <1>4, RoleAt
  <1>7. p0.accounts["nameRecord"] = ix.accounts[4].address /\ p0.data = ix.data
    BY <1>3, <1>5, RoleAt
  <1> QED BY <1>1, <1>2, <1>6, <1>7
          DEF parseSolansInstruction, RegisterEvent, RegisterOf, p0

\* register_with_solans.
LEMMA ParsesRegisterWithSolans ==
    ASSUME NEW w, NEW v, NEW n, NEW y, NEW ix,
           ix = getRegisterWithSolansInstruction(w, v, n, y)
    PROVE  parseSolansInstruction(Direct(ix)) = RegisterOf(n, v, y)
  <1> DEFINE roles == <<"payer", "owner", "config", "nameRecord", "payerSolansAccount",
                        "solansMint", "tokenProgram", "systemProgram">>
             p0 == parseRegisterWithSolansInstruction(ix)
  <1>1. /\ identifySolansInstruction(ix) = "register_with_solans"
        /\ Direct(ix).ix = ix /\ Direct(ix).program = SOLANS_PROGRAM_ADDRESS
    BY DEF getRegisterWithSolansInstruction, Instruction, identifySolansInstruction,
           SolansInstruction, Direct
  <1>2. /\ ix.data.name = n
        /\ ix.data.years = y
        /\ ix.accounts[2].address = v
        /\ ix.accounts[4].address = <<"name", n>>
    BY DEF getRegisterWithSolansInstruction, Instruction, WS, S, R, W, Meta, findNameRecordPda
  <1>3. p0 = Parsed(ix, roles)
    BY DEF parseRegisterWithSolansInstruction
  <1>4. /\ 2 \in 1..Len(roles) /\ roles[2] = "owner"
        /\ \A j \in 1..Len(roles) : roles[j] = "owner" => j = 2
    OBVIOUS
  <1>5. /\ 4 \in 1..Len(roles) /\ roles[4] = "nameRecord"
        /\ \A j \in 1..Len(roles) : roles[j] = "nameRecord" => j = 4
    OBVIOUS
  <1> HIDE DEF roles, p0
  <1>6. p0.accounts["owner"] = ix.accounts[2].address /\ p0.data = ix.data
    BY <1>3, <1>4, RoleAt
  <1>7. p0.accounts["nameRecord"] = ix.accounts[4].address /\ p0.data = ix.data
    BY <1>3, <1>5, RoleAt
  <1> QED BY <1>1, <1>2, <1>6, <1>7
          DEF parseSolansInstruction, RegisterEvent, RegisterOf, p0

\* renew_name.
LEMMA ParsesRenewName ==
    ASSUME NEW w, NEW n, NEW y, NEW cfg, NEW ix,
           ix = getRenewNameInstruction(w, findNameRecordPda(n), cfg, Absent, n, y)
    PROVE  parseSolansInstruction(Direct(ix)) = RenewOf(n, y)
  <1> DEFINE roles == <<"payer", "config", "nameRecord", "payerTokenAccount",
                        "treasuryTokenAccount", "stakingVault", "burnVault",
                        "referralTokenAccount", "paymentMint", "tokenProgram">>
             p0 == parseRenewNameInstruction(ix)
  <1>1. /\ identifySolansInstruction(ix) = "renew_name"
        /\ Direct(ix).ix = ix /\ Direct(ix).program = SOLANS_PROGRAM_ADDRESS
    BY DEF getRenewNameInstruction, Instruction, identifySolansInstruction,
           SolansInstruction, Direct
  <1>2. /\ ix.data.name = n
        /\ ix.data.years = y
        /\ ix.accounts[3].address = <<"name", n>>
    BY DEF getRenewNameInstruction, Instruction, WS, S, R, W, Meta, findNameRecordPda
  <1>3. p0 = Parsed(ix, roles)
    BY DEF parseRenewNameInstruction
  <1>4. /\ 3 \in 1..Len(roles) /\ roles[3] = "nameRecord"
        /\ \A j \in 1..Len(roles) : roles[j] = "nameRecord" => j = 3
    OBVIOUS
  <1> HIDE DEF roles, p0
  <1>5. p0.accounts["nameRecord"] = ix.accounts[3].address /\ p0.data = ix.data
    BY <1>3, <1>4, RoleAt
  <1> QED BY <1>1, <1>2, <1>5
          DEF parseSolansInstruction, RenewEvent, RenewOf, p0

\* renew_with_solans.
LEMMA ParsesRenewWithSolans ==
    ASSUME NEW w, NEW n, NEW y, NEW ix,
           ix = getRenewWithSolansInstruction(w, findNameRecordPda(n), n, y)
    PROVE  parseSolansInstruction(Direct(ix)) = RenewOf(n, y)
  <1> DEFINE roles == <<"payer", "config", "nameRecord", "payerSolansAccount", "solansMint",
                        "tokenProgram">>
             p0 == parseRenewWithSolansInstruction(ix)
  <1>1. /\ identifySolansInstruction(ix) = "renew_with_solans"
        /\ Direct(ix).ix = ix /\ Direct(ix).program = SOLANS_PROGRAM_ADDRESS
    BY DEF getRenewWithSolansInstruction, Instruction, identifySolansInstruction,
           SolansInstruction, Direct
  <1>2. /\ ix.data.name = n
        /\ ix.data.years = y
        /\ ix.accounts[3].address = <<"name", n>>
    BY DEF getRenewWithSolansInstruction, Instruction, WS, S, R, W, Meta, findNameRecordPda
  <1>3. p0 = Parsed(ix, roles)
    BY DEF parseRenewWithSolansInstruction
  <1>4. /\ 3 \in 1..Len(roles) /\ roles[3] = "nameRecord"
        /\ \A j \in 1..Len(roles) : roles[j] = "nameRecord" => j = 3
    OBVIOUS
  <1> HIDE DEF roles, p0
  <1>5. p0.accounts["nameRecord"] = ix.accounts[3].address /\ p0.data = ix.data
    BY <1>3, <1>4, RoleAt
  <1> QED BY <1>1, <1>2, <1>5
          DEF parseSolansInstruction, RenewEvent, RenewOf, p0

\* wrap_subdomain.
LEMMA ParsesWrapSubdomain ==
    ASSUME NEW w, NEW n, NEW p, NEW v, NEW ix,
           ix = getWrapSubdomainInstruction(w, v, findNameRecordPda(p), n)
    PROVE  parseSolansInstruction(Direct(ix)) = SubdomainOf(n, p, v)
  <1> DEFINE roles == <<"owner", "subdomainOwner", "parentName", "nameRecord",
                        "systemProgram">>
             p0 == parseWrapSubdomainInstruction(ix)
  <1>1. /\ identifySolansInstruction(ix) = "wrap_subdomain"
        /\ Direct(ix).ix = ix /\ Direct(ix).program = SOLANS_PROGRAM_ADDRESS
    BY DEF getWrapSubdomainInstruction, Instruction, identifySolansInstruction,
           SolansInstruction, Direct
  <1>2. /\ ix.data.name = n
        /\ ix.accounts[2].address = v
        /\ ix.accounts[3].address = <<"name", p>>
        /\ ix.accounts[4].address = <<"name", n>>
    BY DEF getWrapSubdomainInstruction, Instruction, WS, S, R, W, Meta, findNameRecordPda
  <1>3. p0 = Parsed(ix, roles)
    BY DEF parseWrapSubdomainInstruction
  <1>4. /\ 2 \in 1..Len(roles) /\ roles[2] = "subdomainOwner"
        /\ \A j \in 1..Len(roles) : roles[j] = "subdomainOwner" => j = 2
    OBVIOUS
  <1>5. /\ 3 \in 1..Len(roles) /\ roles[3] = "parentName"
        /\ \A j \in 1..Len(roles) : roles[j] = "parentName" => j = 3
    OBVIOUS
  <1>6. /\ 4 \in 1..Len(roles) /\ roles[4] = "nameRecord"
        /\ \A j \in 1..Len(roles) : roles[j] = "nameRecord" => j = 4
    OBVIOUS
  <1> HIDE DEF roles, p0
  <1>7. p0.accounts["subdomainOwner"] = ix.accounts[2].address /\ p0.data = ix.data
    BY <1>3, <1>4, RoleAt
  <1>8. p0.accounts["parentName"] = ix.accounts[3].address /\ p0.data = ix.data
    BY <1>3, <1>5, RoleAt
  <1>9. p0.accounts["nameRecord"] = ix.accounts[4].address /\ p0.data = ix.data
    BY <1>3, <1>6, RoleAt
  <1> QED BY <1>1, <1>2, <1>7, <1>8, <1>9
          DEF parseSolansInstruction, SubdomainEvent, SubdomainOf, p0

\* transfer_name.
LEMMA ParsesTransferName ==
    ASSUME NEW w, NEW n, NEW v, NEW ix,
           ix = getTransferNameInstruction(w, findNameRecordPda(n), v)
    PROVE  parseSolansInstruction(Direct(ix)) = TransferOf(n, v)
  <1> DEFINE roles == <<"owner", "nameRecord">>
             p0 == parseTransferNameInstruction(ix)
  <1>1. /\ identifySolansInstruction(ix) = "transfer_name"
        /\ Direct(ix).ix = ix /\ Direct(ix).program = SOLANS_PROGRAM_ADDRESS
    BY DEF getTransferNameInstruction, Instruction, identifySolansInstruction,
           SolansInstruction, Direct
  <1>2. /\ ix.data.newOwner = v
        /\ ix.accounts[2].address = <<"name", n>>
    BY DEF getTransferNameInstruction, Instruction, WS, S, R, W, Meta, findNameRecordPda
  <1>3. p0 = Parsed(ix, roles)
    BY DEF parseTransferNameInstruction
  <1>4. /\ 2 \in 1..Len(roles) /\ roles[2] = "nameRecord"
        /\ \A j \in 1..Len(roles) : roles[j] = "nameRecord" => j = 2
    OBVIOUS
  <1> HIDE DEF roles, p0
  <1>5. p0.accounts["nameRecord"] = ix.accounts[2].address /\ p0.data = ix.data
    BY <1>3, <1>4, RoleAt
  <1> QED BY <1>1, <1>2, <1>5
          DEF parseSolansInstruction, TransferOf, p0

\* burn_name.
LEMMA ParsesBurnName ==
    ASSUME NEW w, NEW n, NEW ix,
           ix = getBurnNameInstruction(w, findNameRecordPda(n))
    PROVE  parseSolansInstruction(Direct(ix)) = BurnOf(n)
  <1> DEFINE roles == <<"owner", "nameRecord">>
             p0 == parseBurnNameInstruction(ix)
  <1>1. /\ identifySolansInstruction(ix) = "burn_name"
        /\ Direct(ix).ix = ix /\ Direct(ix).program = SOLANS_PROGRAM_ADDRESS
    BY DEF getBurnNameInstruction, Instruction, identifySolansInstruction,
           SolansInstruction, Direct
  <1>2. /\ ix.accounts[2].address = <<"name", n>>
    BY DEF getBurnNameInstruction, Instruction, WS, S, R, W, Meta, findNameRecordPda
  <1>3. p0 = Parsed(ix, roles)
    BY DEF parseBurnNameInstruction
  <1>4. /\ 2 \in 1..Len(roles) /\ roles[2] = "nameRecord"
        /\ \A j \in 1..Len(roles) : roles[j] = "nameRecord" => j = 2
    OBVIOUS
  <1> HIDE DEF roles, p0
  <1>5. p0.accounts["nameRecord"] = ix.accounts[2].address /\ p0.data = ix.data
    BY <1>3, <1>4, RoleAt
  <1> QED BY <1>1, <1>2, <1>5
          DEF parseSolansInstruction, BurnOf, p0

\* list_name.
LEMMA ParsesListName ==
    ASSUME NEW w, NEW n, NEW l, NEW p, NEW d, NEW ix,
           ix = getListNameInstruction(w, findNameRecordPda(n), l, p, d)
    PROVE  parseSolansInstruction(Direct(ix)) = ListOf(n, w, p)
  <1> DEFINE roles == <<"owner", "nameRecord", "listing", "systemProgram">>
             p0 == parseListNameInstruction(ix)
  <1>1. /\ identifySolansInstruction(ix) = "list_name"
        /\ Direct(ix).ix = ix /\ Direct(ix).program = SOLANS_PROGRAM_ADDRESS
    BY DEF getListNameInstruction, Instruction, identifySolansInstruction,
           SolansInstruction, Direct
  <1>2. /\ ix.data.price = p
        /\ ix.accounts[1].address = w
        /\ ix.accounts[2].address = <<"name", n>>
    BY DEF getListNameInstruction, Instruction, WS, S, R, W, Meta, findNameRecordPda
  <1>3. p0 = Parsed(ix, roles)
    BY DEF parseListNameInstruction
  <1>4. /\ 1 \in 1..Len(roles) /\ roles[1] = "owner"
        /\ \A j \in 1..Len(roles) : roles[j] = "owner" => j = 1
    OBVIOUS
  <1>5. /\ 2 \in 1..Len(roles) /\ roles[2] = "nameRecord"
        /\ \A j \in 1..Len(roles) : roles[j] = "nameRecord" => j = 2
    OBVIOUS
  <1> HIDE DEF roles, p0
  <1>6. p0.accounts["owner"] = ix.accounts[1].address /\ p0.data = ix.data
    BY <1>3, <1>4, RoleAt
  <1>7. p0.accounts["nameRecord"] = ix.accounts[2].address /\ p0.data = ix.data
    BY <1>3, <1>5, RoleAt
  <1> QED BY <1>1, <1>2, <1>6, <1>7
          DEF parseSolansInstruction, ListOf, p0

\* cancel_listing.
LEMMA ParsesCancelListing ==
    ASSUME NEW w, NEW v, NEW n, NEW l, NEW ix,
           ix = getCancelListingInstruction(w, v, findNameRecordPda(n), l)
    PROVE  parseSolansInstruction(Direct(ix)) = UnlistOf(n)
  <1> DEFINE roles == <<"canceller", "seller", "nameRecord", "listing">>
             p0 == parseCancelListingInstruction(ix)
  <1>1. /\ identifySolansInstruction(ix) = "cancel_listing"
        /\ Direct(ix).ix = ix /\ Direct(ix).program = SOLANS_PROGRAM_ADDRESS
    BY DEF getCancelListingInstruction, Instruction, identifySolansInstruction,
           SolansInstruction, Direct
  <1>2. /\ ix.accounts[3].address = <<"name", n>>
    BY DEF getCancelListingInstruction, Instruction, WS, S, R, W, Meta, findNameRecordPda
  <1>3. p0 = Parsed(ix, roles)
    BY DEF parseCancelListingInstruction
  <1>4. /\ 3 \in 1..Len(roles) /\ roles[3] = "nameRecord"
        /\ \A j \in 1..Len(roles) : roles[j] = "nameRecord" => j = 3
    OBVIOUS
  <1> HIDE DEF roles, p0
  <1>5. p0.accounts["nameRecord"] = ix.accounts[3].address /\ p0.data = ix.data
    BY <1>3, <1>4, RoleAt
  <1> QED BY <1>1, <1>2, <1>5
          DEF parseSolansInstruction, UnlistOf, p0

\* buy_name.
LEMMA ParsesBuyName ==
    ASSUME NEW w, NEW v, NEW n, NEW t, NEW l, NEW p, NEW ix,
           ix = getBuyNameInstruction(w, v, t, findNameRecordPda(n), l, p)
    PROVE  parseSolansInstruction(Direct(ix)) = BuyOf(n, w)
  <1> DEFINE roles == <<"buyer", "seller", "solTreasury", "config", "nameRecord", "listing",
                        "systemProgram">>
             p0 == parseBuyNameInstruction(ix)
  <1>1. /\ identifySolansInstruction(ix) = "buy_name"
        /\ Direct(ix).ix = ix /\ Direct(ix).program = SOLANS_PROGRAM_ADDRESS
    BY DEF getBuyNameInstruction, Instruction, identifySolansInstruction,
           SolansInstruction, Direct
  <1>2. /\ ix.accounts[1].address = w
        /\ ix.accounts[5].address = <<"name", n>>
    BY DEF getBuyNameInstruction, Instruction, WS, S, R, W, Meta, findNameRecordPda
  <1>3. p0 = Parsed(ix, roles)
    BY DEF parseBuyNameInstruction
  <1>4. /\ 1 \in 1..Len(roles) /\ roles[1] = "buyer"
        /\ \A j \in 1..Len(roles) : roles[j] = "buyer" => j = 1
    OBVIOUS
  <1>5. /\ 5 \in 1..Len(roles) /\ roles[5] = "nameRecord"
        /\ \A j \in 1..Len(roles) : roles[j] = "nameRecord" => j = 5
    OBVIOUS
  <1> HIDE DEF roles, p0
  <1>6. p0.accounts["buyer"] = ix.accounts[1].address /\ p0.data = ix.data
    BY <1>3, <1>4, RoleAt
  <1>7. p0.accounts["nameRecord"] = ix.accounts[5].address /\ p0.data = ix.data
    BY <1>3, <1>5, RoleAt
  <1> QED BY <1>1, <1>2, <1>6, <1>7
          DEF parseSolansInstruction, BuyOf, p0

-----------------------------------------------------------------------------
(* What an event does to the store. *)

\* A store whose labels are right, if any: what LabelsTrue says of the index.
IndexOK(i) ==
    /\ i \in [Names -> NameEntry \cup {Nil}]
    /\ \A n \in Names : i[n] # Nil => i[n].fullName = Nil \/ IsPath(i[n].fullName, n)

\* ev is an event on the name n that an instruction of the program can have.
TrueEvent(ev, n) ==
    \/ TopLevel(n) /\ \E v \in Wallets, y \in Nat : ev = RegisterOf(n, v, y)
    \/ TopLevel(n) /\ \E y \in Nat : ev = RenewOf(n, y)
    \/ ~TopLevel(n) /\ \E v \in Wallets : ev = SubdomainOf(n, ParentOf[n], v)
    \/ \E v \in Wallets : ev = TransferOf(n, v) \/ ev = BuyOf(n, v)
    \/ \E w \in Wallets, p \in Nat : ev = ListOf(n, w, p)
    \/ ev = BurnOf(n) \/ ev = UnlistOf(n)

\* The labels of a top-level name are the name.
LEMMA PathTop ==
    ASSUME NEW n \in Names, TopLevel(n)
    PROVE  IsPath(<<n>>, n)
  <1>1. <<n>> \in Seq(Names) /\ <<n>> # <<>> /\ <<n>>[1] = n /\ Len(<<n>>) = 1
    OBVIOUS
  <1>2. 1..(1 - 1) = {}
    OBVIOUS
  <1> QED BY <1>1, <1>2 DEF IsPath

\* The label of a subdomain in front of the labels of its parent.
LEMMA PathBelow ==
    ASSUME NEW n \in Names, NEW path, IsPath(path, ParentOf[n])
    PROVE  IsPath(<<n>> \o path, n)
  <1> DEFINE longer == <<n>> \o path
             l == Len(path)
  <1>1. path \in Seq(Names) /\ path # <<>> /\ path[1] = ParentOf[n] /\ TopLevel(path[l])
        /\ \A k \in 1..(l - 1) : path[k + 1] = ParentOf[path[k]]
    BY DEF IsPath
  <1>2. l \in Nat /\ l >= 1
    BY <1>1
  <1>3. longer \in Seq(Names) /\ Len(longer) = l + 1 /\ longer[1] = n
        /\ \A k \in 1..l : longer[k + 1] = path[k]
    BY <1>1
  <1> HIDE DEF longer, l
  <1>4. longer # <<>> /\ longer[Len(longer)] = path[l]
    BY <1>2, <1>3
  <1>5. ASSUME NEW k \in 1..(Len(longer) - 1) PROVE longer[k + 1] = ParentOf[longer[k]]
    <2>1. CASE k = 1
      BY <1>1, <1>2, <1>3, <2>1
    <2>2. CASE k # 1
      <3>1. k - 1 \in 1..(l - 1) /\ k \in 1..l /\ k - 1 \in 1..l /\ (k - 1) + 1 = k
        BY <1>2, <1>3, <2>2
      <3>2. longer[k + 1] = path[k] /\ longer[k] = path[k - 1]
        BY <1>3, <3>1
      <3>3. path[k] = ParentOf[path[k - 1]]
        BY <1>1, <3>1
      <3> QED BY <3>2, <3>3
    <2> QED BY <2>1, <2>2
  <1> QED BY <1>1, <1>3, <1>4, <1>5 DEF IsPath, longer

\* The events that need no entry: a registration,
LEMMA AppliesRegister ==
    ASSUME NEW i, NEW n, NEW v, NEW y, NEW ts
    PROVE  applyEvent(i, RegisterOf(n, v, y), ts)
           = [i EXCEPT ![n] = Entry(<<n>>, v, Nil, ts, ts + y * Year)]
  BY DEF applyEvent, RegisterOf, Registered

\* a renewal,
LEMMA AppliesRenew ==
    ASSUME NEW i, NEW n, NEW y, NEW ts
    PROVE  applyEvent(i, RenewOf(n, y), ts)
           = [i EXCEPT ![n] = Extended(i[n], RenewOf(n, y), ts)]
  BY DEF applyEvent, RenewOf

\* a subdomain.
LEMMA AppliesSubdomain ==
    ASSUME NEW i, NEW n, NEW v, NEW p, NEW ts
    PROVE  applyEvent(i, SubdomainOf(n, p, v), ts)
           = [i EXCEPT ![n] = Entry(ChildName(i, SubdomainOf(n, p, v)), v, p, ts, Nil)]
  BY DEF applyEvent, SubdomainOf

\* The event ev on n makes e of a known entry, and nothing of an unknown one.
Becomes(i, n, ev, ts, e) ==
    applyEvent(i, ev, ts) = [i EXCEPT ![n] = IF i[n] = Nil THEN Nil ELSE e]

\* The other events leave an unknown name unknown: changes of the owner,
LEMMA AppliesOwner ==
    ASSUME NEW i, NEW n, NEW v, NEW ts
    PROVE  /\ Becomes(i, n, TransferOf(n, v), ts, [i[n] EXCEPT !.owner = v])
           /\ Becomes(i, n, BuyOf(n, v), ts, [i[n] EXCEPT !.owner = v, !.listed = Nil])
  <1>1. Becomes(i, n, TransferOf(n, v), ts, [i[n] EXCEPT !.owner = v])
    BY DEF applyEvent, Changes, TransferOf, Becomes
  <1>2. Becomes(i, n, BuyOf(n, v), ts, [i[n] EXCEPT !.owner = v, !.listed = Nil])
    BY DEF applyEvent, Changes, BuyOf, Becomes
  <1> QED BY <1>1, <1>2

\* a listing,
LEMMA AppliesList ==
    ASSUME NEW i, NEW n, NEW w, NEW p, NEW ts
    PROVE  Becomes(i, n, ListOf(n, w, p), ts,
                   [i[n] EXCEPT !.listed = [price |-> p, seller |-> w]])
  BY DEF applyEvent, Changes, ListOf, Becomes

\* its end, and the end of the name.
LEMMA AppliesEnd ==
    ASSUME NEW i, NEW n, NEW ts
    PROVE  /\ Becomes(i, n, BurnOf(n), ts, [i[n] EXCEPT !.active = FALSE])
           /\ Becomes(i, n, UnlistOf(n), ts, [i[n] EXCEPT !.listed = Nil])
  <1>1. Becomes(i, n, BurnOf(n), ts, [i[n] EXCEPT !.active = FALSE])
    BY DEF applyEvent, Changes, BurnOf, Becomes
  <1>2. Becomes(i, n, UnlistOf(n), ts, [i[n] EXCEPT !.listed = Nil])
    BY DEF applyEvent, Changes, UnlistOf, Becomes
  <1> QED BY <1>1, <1>2

\* f is an entry with the labels of the entry e.
KeepsLabels(e, f) == f \in NameEntry /\ f.fullName = e.fullName

\* The updates of a known entry keep its labels.
LEMMA ChangedOwner ==
    ASSUME NEW e, NEW v, e \in NameEntry, v \in Wallets
    PROVE  /\ KeepsLabels(e, [e EXCEPT !.owner = v])
           /\ KeepsLabels(e, [e EXCEPT !.owner = v, !.listed = Nil])
  BY DEF NameEntry, KeepsLabels

\* So do those of its listing,
LEMMA ChangedListing ==
    ASSUME NEW e, NEW w, NEW p, e \in NameEntry, w \in Wallets, p \in Nat
    PROVE  KeepsLabels(e, [e EXCEPT !.listed = [price |-> p, seller |-> w]])
  BY DEF NameEntry, KeepsLabels

\* its end, and the end of the name.
LEMMA ChangedState ==
    ASSUME NEW e, e \in NameEntry
    PROVE  /\ KeepsLabels(e, [e EXCEPT !.listed = Nil])
           /\ KeepsLabels(e, [e EXCEPT !.active = FALSE])
  BY DEF NameEntry, KeepsLabels

\* What a renewal makes of an entry, known or not.
LEMMA ExtendedEntry ==
    ASSUME NEW e, NEW n, NEW y, NEW ts,
           e \in NameEntry \cup {Nil}, n \in Names, y \in Nat, ts \in Nat
    PROVE  /\ Extended(e, RenewOf(n, y), ts) \in NameEntry
           /\ e = Nil => Extended(e, RenewOf(n, y), ts).fullName = <<n>>
           /\ e # Nil => Extended(e, RenewOf(n, y), ts).fullName = e.fullName
           /\ e # Nil /\ e.expiresAt # Nil =>
                Extended(e, RenewOf(n, y), ts)
                = [e EXCEPT !.expiresAt = e.expiresAt + y * Year]
  <1> DEFINE ev == RenewOf(n, y)
             known == IF e = Nil THEN Entry(<<n>>, Nil, Nil, Nil, Nil) ELSE e
             base == IF known.expiresAt = Nil THEN ts ELSE known.expiresAt
             x == base + y * Year
  <1>1. ev.name = n /\ ev.years = y
    BY DEF RenewOf
  <1>2. Extended(e, ev, ts) = [known EXCEPT !.expiresAt = x]
    BY <1>1 DEF Extended
  <1>3. known \in NameEntry /\ (e = Nil => known.fullName = <<n>>)
    <2>1. /\ <<n>> \in Seq(Names) \cup {Nil} /\ Nil \in Wallets \cup {Nil}
          /\ Nil \in Names \cup {Nil} /\ Nil \in Nat \cup {Nil}
      OBVIOUS
    <2>2. /\ Entry(<<n>>, Nil, Nil, Nil, Nil) \in NameEntry
          /\ Entry(<<n>>, Nil, Nil, Nil, Nil).fullName = <<n>>
      BY <2>1 DEF Entry, NameEntry
    <2> QED BY <2>2
  <1>4. base \in Nat
    BY <1>3 DEF NameEntry
  <1>5. y * Year \in Nat
    BY RegistryAssumption
  <1>6. x \in Nat
    BY <1>4, <1>5
  <1>7. e # Nil /\ e.expiresAt # Nil => x = e.expiresAt + y * Year /\ known = e
    OBVIOUS
  <1>8. e # Nil => known = e
    OBVIOUS
  <1> HIDE DEF ev, known, base, x
  <1>9. [known EXCEPT !.expiresAt = x] \in NameEntry
        /\ [known EXCEPT !.expiresAt = x].fullName = known.fullName
    BY <1>3, <1>6 DEF NameEntry
  <1> QED BY <1>2, <1>3, <1>7, <1>8, <1>9 DEF ev

\* An event that can have happened keeps a store well, and touches one entry.
LEMMA AppliesWell ==
    ASSUME NEW i, NEW n \in Names, NEW ev, NEW ts \in Nat, IndexOK(i), TrueEvent(ev, n)
    PROVE  /\ IndexOK(applyEvent(i, ev, ts))
           /\ \A m \in Names \ {n} : applyEvent(i, ev, ts)[m] = i[m]
  <1> DEFINE Good(e) == e # Nil => e \in NameEntry
                                   /\ (e.fullName = Nil \/ IsPath(e.fullName, n))
  <1>1. /\ i \in [Names -> NameEntry \cup {Nil}]
        /\ \A m \in Names : i[m] # Nil => i[m].fullName = Nil \/ IsPath(i[m].fullName, m)
    BY DEF IndexOK
  <1>2. i[n] \in NameEntry \cup {Nil} /\ Good(i[n])
    BY <1>1
  <1>3. ASSUME NEW e, Good(e), applyEvent(i, ev, ts) = [i EXCEPT ![n] = e]
        PROVE  /\ IndexOK(applyEvent(i, ev, ts))
               /\ \A m \in Names \ {n} : applyEvent(i, ev, ts)[m] = i[m]
    <2>1. e \in NameEntry \cup {Nil}
      BY <1>3
    <2>2. [i EXCEPT ![n] = e] \in [Names -> NameEntry \cup {Nil}]
      BY <1>1, <2>1
    <2>3. /\ [i EXCEPT ![n] = e][n] = e
          /\ \A m \in Names \ {n} : [i EXCEPT ![n] = e][m] = i[m]
      BY <1>1
    <2>4. \A m \in Names : [i EXCEPT ![n] = e][m] # Nil =>
             \/ [i EXCEPT ![n] = e][m].fullName = Nil
             \/ IsPath([i EXCEPT ![n] = e][m].fullName, m)
      BY <1>1, <1>3, <2>3
    <2> QED BY <1>3, <2>2, <2>3, <2>4 DEF IndexOK
  <1> DEFINE Goal == /\ IndexOK(applyEvent(i, ev, ts))
                     /\ \A m \in Names \ {n} : applyEvent(i, ev, ts)[m] = i[m]
  <1>4. TopLevel(n) => IsPath(<<n>>, n) /\ <<n>> \in Seq(Names)
    BY PathTop
  <1> HIDE DEF Goal
  <1>5. ASSUME NEW v \in Wallets, NEW y \in Nat, TopLevel(n), ev = RegisterOf(n, v, y)
        PROVE  Goal
    <2>1. ts + y * Year \in Nat
      BY RegistryAssumption
    <2> DEFINE e == Entry(<<n>>, v, Nil, ts, ts + y * Year)
    <2>2. e \in NameEntry /\ e.fullName = <<n>>
      <3>1. /\ <<n>> \in Seq(Names) \cup {Nil} /\ v \in Wallets \cup {Nil}
            /\ Nil \in Names \cup {Nil} /\ ts \in Nat \cup {Nil}
            /\ ts + y * Year \in Nat \cup {Nil}
        BY <2>1
      <3> QED BY <3>1 DEF Entry, NameEntry
    <2>3. applyEvent(i, ev, ts) = [i EXCEPT ![n] = e]
      BY <1>5, AppliesRegister
    <2> HIDE DEF e
    <2>4. Good(e)
      BY <1>4, <1>5, <2>2
    <2> QED BY <1>3, <2>3, <2>4 DEF Goal
  <1>6. ASSUME NEW y \in Nat, TopLevel(n), ev = RenewOf(n, y)
        PROVE  Goal
    <2> DEFINE e == Extended(i[n], ev, ts)
    <2>1. /\ e \in NameEntry
          /\ i[n] = Nil => e.fullName = <<n>>
          /\ i[n] # Nil => e.fullName = i[n].fullName
      BY <1>2, <1>6, ExtendedEntry
    <2>2. applyEvent(i, ev, ts) = [i EXCEPT ![n] = e]
      BY <1>6, AppliesRenew
    <2> HIDE DEF e
    <2>3. Good(e)
      BY <1>2, <1>4, <1>6, <2>1
    <2> QED BY <1>3, <2>2, <2>3 DEF Goal
  <1>7. ASSUME NEW v \in Wallets, ~TopLevel(n), ev = SubdomainOf(n, ParentOf[n], v)
        PROVE  Goal
    <2> DEFINE p == ParentOf[n]
               f == ChildName(i, ev)
               e == Entry(f, v, p, ts, Nil)
    <2>1. p \in Names
      BY <1>7, RegistryAssumption DEF TopLevel
    <2>2. f = IF i[p] = Nil \/ i[p].fullName = Nil THEN Nil ELSE <<n>> \o i[p].fullName
      BY <1>7 DEF ChildName, SubdomainOf
    <2>3. i[p] # Nil => i[p].fullName = Nil \/ IsPath(i[p].fullName, p)
      BY <1>1, <2>1
    <2>4. applyEvent(i, ev, ts) = [i EXCEPT ![n] = e]
      BY <1>7, AppliesSubdomain
    <2> HIDE DEF f
    <2>5. f = Nil \/ IsPath(f, n)
      BY <2>2, <2>3, PathBelow
    <2>6. f \in Seq(Names) \cup {Nil}
      BY <2>5 DEF IsPath
    <2>7. e \in NameEntry /\ e.fullName = f
      <3>1. /\ v \in Wallets \cup {Nil} /\ p \in Names \cup {Nil} /\ ts \in Nat \cup {Nil}
            /\ Nil \in Nat \cup {Nil}
        BY <2>1
      <3> QED BY <2>6, <3>1 DEF Entry, NameEntry
    <2> HIDE DEF e
    <2>8. Good(e)
      BY <2>5, <2>7
    <2> QED BY <1>3, <2>4, <2>8 DEF Goal
  <1>8. ASSUME NEW e, Becomes(i, n, ev, ts, e),
               i[n] \in NameEntry => KeepsLabels(i[n], e)
        PROVE  Goal
    <2>1. Good(IF i[n] = Nil THEN Nil ELSE e)
      BY <1>2, <1>8 DEF KeepsLabels
    <2> QED BY <1>3, <1>8, <2>1 DEF Goal, Becomes
  <1> HIDE DEF Good
  <1>9. ASSUME NEW v \in Wallets, ev = TransferOf(n, v) PROVE Goal
    BY <1>8, <1>9, AppliesOwner, ChangedOwner
  <1>10. ASSUME NEW v \in Wallets, ev = BuyOf(n, v) PROVE Goal
    BY <1>8, <1>10, AppliesOwner, ChangedOwner
  <1>11. ASSUME NEW w \in Wallets, NEW p \in Nat, ev = ListOf(n, w, p) PROVE Goal
    BY <1>8, <1>11, AppliesList, ChangedListing
  <1>12. ASSUME ev = BurnOf(n) PROVE Goal
    BY <1>8, <1>12, AppliesEnd, ChangedState
  <1>13. ASSUME ev = UnlistOf(n) PROVE Goal
    BY <1>8, <1>13, AppliesEnd, ChangedState
  <1>14. Goal
    BY <1>5, <1>6, <1>7, <1>9, <1>10, <1>11, <1>12, <1>13 DEF TrueEvent
  <1> QED BY <1>14 DEF Goal

-----------------------------------------------------------------------------
(* What a batch of real transactions does to the store. *)

\* The transaction t carries an event on the name n that can have happened.
TrueTx(t, n) ==
    /\ t.timestamp \in Nat
    /\ \E ev : Carries(t, ev) /\ TrueEvent(ev, n)

\* A transaction keeps a store well, and touches one entry.
LEMMA TxWell ==
    ASSUME NEW i, NEW n \in Names, NEW t, IndexOK(i), TrueTx(t, n)
    PROVE  /\ IndexOK(ingestTx(i, t))
           /\ \A m \in Names \ {n} : ingestTx(i, t)[m] = i[m]
  <1>1. PICK ev : Carries(t, ev) /\ TrueEvent(ev, n)
    BY DEF TrueTx
  <1>2. ingestTx(i, t) = applyEvent(i, ev, t.timestamp)
    BY <1>1 DEF Carries
  <1>3. t.timestamp \in Nat
    BY DEF TrueTx
  <1> QED BY <1>1, <1>2, <1>3, AppliesWell

\* So does a batch, and it touches only the entries of its names.
LEMMA BatchWell ==
    ASSUME NEW i, NEW txs, NEW l \in Nat, DOMAIN txs = 1..l, NEW U, IndexOK(i),
           \A k \in 1..l : \E n \in Names \ U : TrueTx(txs[k], n)
    PROVE  /\ IndexOK(ingestHeliusTxs(i, txs))
           /\ \A m \in Names \cap U : ingestHeliusTxs(i, txs)[m] = i[m]
  <1>1. PICK h : Runs(h, i, txs, l) /\ h[l] = ingestHeliusTxs(i, txs)
    BY BatchRuns
  <1> DEFINE Well(x) == IndexOK(x) /\ \A m \in Names \cap U : x[m] = i[m]
             T == {k \in 0..l : ~Well(h[k])}
  <1>2. SUFFICES ASSUME T # {} PROVE FALSE
    <2>1. l \in 0..l
      OBVIOUS
    <2> QED BY <1>1, <2>1
  <1>3. PICK k \in T : \A j \in T : k <= j
    <2>1. T \in SUBSET Nat
      OBVIOUS
    <2> HIDE DEF T
    <2> QED BY <1>2, <2>1, LeastNumber
  <1>4. k \in 0..l /\ ~Well(h[k])
    OBVIOUS
  <1>5. k # 0
    BY <1>1, <1>4 DEF Runs
  <1>6. k \in 1..l /\ k - 1 \in 0..l /\ ~(k <= k - 1)
    BY <1>4, <1>5
  <1>7. Well(h[k - 1])
    BY <1>3, <1>6
  <1> HIDE DEF T
  <1>8. PICK n \in Names \ U : TrueTx(txs[k], n)
    BY <1>6
  <1>9. h[k] = ingestTx(h[k - 1], txs[k])
    BY <1>1, <1>6 DEF Runs
  <1>10. /\ IndexOK(h[k])
         /\ \A m \in Names \ {n} : h[k][m] = h[k - 1][m]
    BY <1>7, <1>8, <1>9, TxWell
  <1>11. \A m \in Names \cap U : m \in Names \ {n}
    BY <1>8
  <1> QED BY <1>4, <1>7, <1>10, <1>11

-----------------------------------------------------------------------------
(* The indexer's invariant: the whole log, applied to any store that is well, *)
(* shows each name as it is.                                                  *)

\* The entry e shows the name n with the record r and the listing l: Agrees,
\* and the expiry is known.
AgreesWith(e, n, r, l) ==
    /\ (r # Nil) <=> (e # Nil /\ e.active)
    /\ r # Nil =>
         /\ e.owner = r.owner /\ e.registeredAt = r.registered_at
         /\ IsPath(e.fullName, n)
         /\ e.listed = (IF l = Nil THEN Nil ELSE [price |-> l.price, seller |-> l.seller])
         /\ TopLevel(n) => e.expiresAt \in Nat /\ e.expiresAt <= r.expires_at

\* The log shows n as r and l, whatever the store was before.
SettledAs(n, lg, r, l) ==
    \A i : IndexOK(i) => AgreesWith(ingestHeliusTxs(i, lg)[n], n, r, l)

\* Nothing has happened to n yet.
UnbornAs(n, lg, r, e) ==
    /\ r = Nil /\ e = Nil
    /\ \A k \in 1..Len(lg) : \E m \in Names \ {n} : TrueTx(lg[k], m)

LogOK(lg) ==
    /\ \E V : lg \in Seq(V)
    /\ \A k \in 1..Len(lg) : \E n \in Names : TrueTx(lg[k], n)

IndexInv ==
    /\ IndexOK(index) /\ LogOK(log)
    /\ \A n \in Names : \/ SettledAs(n, log, rec[n], listing[n])
                        \/ UnbornAs(n, log, rec[n], index[n])

\* Without auctions and claims a listing and the freeze go together.
ListedOK == \A n \in Names : listing[n] # Nil => rec[n] # Nil /\ rec[n].listed

IndexerInv == MarketInv /\ ListedOK /\ IndexInv

\* The store i is well and shows the names that exist.
Mirrors(i) ==
    /\ IndexOK(i)
    /\ \A m \in Names : rec[m] # Nil => AgreesWith(i[m], m, rec[m], listing[m])

\* The log, applied to a store that is well, mirrors the registry.
LEMMA LogMirrors ==
    ASSUME IndexInv, NEW i, IndexOK(i)
    PROVE  Mirrors(ingestHeliusTxs(i, log))
  <1>1. PICK V : log \in Seq(V)
    BY DEF IndexInv, LogOK
  <1>2. Len(log) \in Nat /\ DOMAIN log = 1..Len(log)
    BY <1>1
  <1>3. \A k \in 1..Len(log) : \E n \in Names \ {} : TrueTx(log[k], n)
    BY DEF IndexInv, LogOK
  <1>4. IndexOK(ingestHeliusTxs(i, log))
    BY <1>2, <1>3, BatchWell
  <1>5. ASSUME NEW m \in Names, rec[m] # Nil
        PROVE  AgreesWith(ingestHeliusTxs(i, log)[m], m, rec[m], listing[m])
    BY <1>5 DEF IndexInv, SettledAs, UnbornAs
  <1> QED BY <1>4, <1>5 DEF Mirrors

\* A transaction on n lands: the log goes on to show every name, if the event
\* it carries makes of a store that mirrors the registry what the step makes of
\* the record and the listing.
LEMMA LandsWell ==
    ASSUME IndexInv, NEW n \in Names, NEW t, NEW ev,
           log' = Append(log, t), index' = index,
           t.timestamp \in Nat, Carries(t, ev), TrueEvent(ev, n),
           \A m \in Names \ {n} : rec'[m] = rec[m] /\ listing'[m] = listing[m],
           \A i : Mirrors(i) =>
               AgreesWith(applyEvent(i, ev, t.timestamp)[n], n, rec'[n], listing'[n])
    PROVE  IndexInv'
  <1>1. PICK V : log \in Seq(V)
    BY DEF IndexInv, LogOK
  <1> DEFINE W2 == V \cup {t}
             lg == Append(log, t)
  <1>2. log \in Seq(W2) /\ t \in W2 /\ lg \in Seq(W2)
    BY <1>1
  <1>3. /\ Len(log) \in Nat /\ Len(lg) = Len(log) + 1 /\ lg[Len(log) + 1] = t
        /\ \A k \in 1..Len(log) : lg[k] = log[k]
    BY <1>1
  <1>4. TrueTx(t, n)
    BY DEF TrueTx
  <1>5. ASSUME NEW U, \A k \in 1..Len(log) : \E m \in Names \ U : TrueTx(log[k], m), n \notin U
        PROVE  \A k \in 1..Len(lg) : \E m \in Names \ U : TrueTx(lg[k], m)
    <2> HIDE DEF lg
    <2> SUFFICES ASSUME NEW k \in 1..Len(lg) PROVE \E m \in Names \ U : TrueTx(lg[k], m)
      OBVIOUS
    <2>1. k \in 1..Len(log) \/ k = Len(log) + 1
      BY <1>3
    <2> QED BY <1>3, <1>4, <1>5, <2>1
  <1>6. \A i : ingestHeliusTxs(i, lg) = applyEvent(ingestHeliusTxs(i, log), ev, t.timestamp)
    <2> SUFFICES ASSUME NEW i
                 PROVE  ingestHeliusTxs(i, lg)
                        = applyEvent(ingestHeliusTxs(i, log), ev, t.timestamp)
      OBVIOUS
    <2>1. ingestHeliusTxs(i, lg) = ingestTx(ingestHeliusTxs(i, log), t)
      BY <1>2, IngestAppend
    <2> QED BY <2>1 DEF Carries
  <1>7. log' = lg
    OBVIOUS
  <1> HIDE DEF W2, lg
  <1>8. LogOK(lg)
    <2>1. \A k \in 1..Len(log) : \E m \in Names \ {} : TrueTx(log[k], m)
      BY DEF IndexInv, LogOK
    <2>2. \A k \in 1..Len(lg) : \E m \in Names \ {} : TrueTx(lg[k], m)
      BY <1>5, <2>1
    <2> QED BY <1>2, <2>2 DEF LogOK
  <1>9. SettledAs(n, lg, rec'[n], listing'[n])
    <2> SUFFICES ASSUME NEW i, IndexOK(i)
                 PROVE  AgreesWith(ingestHeliusTxs(i, lg)[n], n, rec'[n], listing'[n])
      BY DEF SettledAs
    <2>1. Mirrors(ingestHeliusTxs(i, log))
      BY LogMirrors
    <2> QED BY <1>6, <2>1
  <1>10. ASSUME NEW m \in Names \ {n}, SettledAs(m, log, rec[m], listing[m])
         PROVE  SettledAs(m, lg, rec'[m], listing'[m])
    <2> SUFFICES ASSUME NEW i, IndexOK(i)
                 PROVE  AgreesWith(ingestHeliusTxs(i, lg)[m], m, rec'[m], listing'[m])
      BY DEF SettledAs
    <2> DEFINE r == ingestHeliusTxs(i, log)
    <2>1. AgreesWith(r[m], m, rec[m], listing[m])
      BY <1>10 DEF SettledAs
    <2>2. IndexOK(r)
      BY LogMirrors DEF Mirrors
    <2> HIDE DEF r
    <2>3. applyEvent(r, ev, t.timestamp)[m] = r[m]
      BY <2>2, AppliesWell
    <2> QED BY <1>6, <2>1, <2>3 DEF r
  <1>11. ASSUME NEW m \in Names \ {n}, UnbornAs(m, log, rec[m], index[m])
         PROVE  UnbornAs(m, lg, rec'[m], index'[m])
    <2>1. \A k \in 1..Len(log) : \E x \in Names \ {m} : TrueTx(log[k], x)
      BY <1>11 DEF UnbornAs
    <2>2. \A k \in 1..Len(lg) : \E x \in Names \ {m} : TrueTx(lg[k], x)
      BY <1>5, <2>1
    <2> QED BY <1>11, <2>2 DEF UnbornAs
  <1>12. \A m \in Names : \/ SettledAs(m, lg, rec'[m], listing'[m])
                          \/ UnbornAs(m, lg, rec'[m], index'[m])
    BY <1>9, <1>10, <1>11 DEF IndexInv
  <1>13. IndexOK(index)'
    BY DEF IndexInv
  <1> QED BY <1>7, <1>8, <1>12, <1>13 DEF IndexInv

-----------------------------------------------------------------------------
(* What an event makes of an entry is what the step makes of the record. *)

\* A new entry shows a new record.
LEMMA ShowsNew ==
    ASSUME NEW n, NEW f, NEW v, NEW p, NEW ts, NEW x, NEW r,
           Entry(f, v, p, ts, x) \in NameEntry, IsPath(f, n),
           r # Nil, r.owner = v, r.registered_at = ts,
           TopLevel(n) => x \in Nat /\ x <= r.expires_at
    PROVE  AgreesWith(Entry(f, v, p, ts, x), n, r, Nil)
  <1> DEFINE e == Entry(f, v, p, ts, x)
  <1>1. e # Nil
    BY EntryAssumption
  <1>2. /\ e.owner = v /\ e.registeredAt = ts /\ e.fullName = f /\ e.listed = Nil
        /\ e.expiresAt = x
    BY DEF Entry
  <1>3. e.active
    BY Zenon DEF Entry
  <1> HIDE DEF e
  <1>4. AgreesWith(e, n, r, Nil)
    BY <1>1, <1>2, <1>3 DEF AgreesWith
  <1> QED BY <1>4 DEF e

\* An update of a known entry that leaves its state alone keeps showing a
\* record, when owner, listing and expiry fit.
LEMMA ShowsChanged ==
    ASSUME NEW n, NEW e, NEW r, NEW l, NEW f, NEW s, NEW k,
           AgreesWith(e, n, r, l), r # Nil, f \in NameEntry, s # Nil,
           f.active = e.active, f.fullName = e.fullName, f.registeredAt = e.registeredAt,
           f.owner = s.owner, s.registered_at = r.registered_at,
           f.listed = (IF k = Nil THEN Nil ELSE [price |-> k.price, seller |-> k.seller]),
           TopLevel(n) => f.expiresAt \in Nat /\ f.expiresAt <= s.expires_at
    PROVE  AgreesWith(f, n, s, k)
  <1>1. f # Nil
    BY EntryAssumption
  <1>2. e.active
    BY DEF AgreesWith
  <1>3. f.active
    BY <1>2, Zenon
  <1> QED BY <1>1, <1>3 DEF AgreesWith

\* The same for a name that is not listed afterwards.
LEMMA ShowsUnlisted ==
    ASSUME NEW n, NEW e, NEW r, NEW l, NEW f, NEW s,
           AgreesWith(e, n, r, l), r # Nil, f \in NameEntry, s # Nil,
           f.active = e.active, f.fullName = e.fullName, f.registeredAt = e.registeredAt,
           f.owner = s.owner, s.registered_at = r.registered_at, f.listed = Nil,
           TopLevel(n) => f.expiresAt \in Nat /\ f.expiresAt <= s.expires_at
    PROVE  AgreesWith(f, n, s, Nil)
  <1>1. f # Nil
    BY EntryAssumption
  <1>2. e.active
    BY DEF AgreesWith
  <1>3. f.active
    BY <1>2, Zenon
  <1> QED BY <1>1, <1>3 DEF AgreesWith

\* A known entry that goes inactive shows a name that is gone.
LEMMA ShowsGone ==
    ASSUME NEW n, NEW e, NEW l, e \in NameEntry
    PROVE  AgreesWith([e EXCEPT !.active = FALSE], n, Nil, l)
  <1>1. [e EXCEPT !.active = FALSE].active = FALSE
    BY DEF NameEntry
  <1> HIDE DEF NameEntry
  <1>2. ~[e EXCEPT !.active = FALSE].active
    BY <1>1, Zenon
  <1> QED BY <1>2, Zenon DEF AgreesWith

\* The record and the listing of n become r and l, a transaction with one
\* instruction, of a wallet or a multisig, lands, and what its event makes of a
\* store that mirrors the registry shows r and l.
LEMMA Landed ==
    ASSUME IndexerInv, NEW n \in Names, NEW ev, NEW ix, NEW sent1, NEW r, NEW l,
           sent1 = Direct(ix) \/ sent1 = Via(ix),
           parseSolansInstruction(Direct(ix)) = ev, TrueEvent(ev, n),
           Logs(<<sent1>>), index' = index,
           Put(n, r), listing' = [listing EXCEPT ![n] = l],
           l # Nil => r # Nil /\ r.listed,
           \A i : Mirrors(i) => AgreesWith(applyEvent(i, ev, now)[n], n, r, l)
    PROVE  ListedOK' /\ IndexInv'
  <1> DEFINE t == [instructions |-> <<sent1>>, timestamp |-> now]
  <1>1. log' = Append(log, t)
    BY DEF Logs
  <1>2. t.timestamp = now /\ now \in Nat
    BY DEF IndexerInv, MarketInv, MarketTypeOK, NamesTypeOK
  <1>3. Carries(t, ev)
    BY SentCarries
  <1> HIDE DEF t
  <1>4. /\ rec \in [Names -> NameRecord \cup {Nil}]
        /\ listing \in [Names -> Listing \cup {Nil}]
    BY DEF IndexerInv, MarketInv, MarketTypeOK, NamesTypeOK
  <1>5. /\ rec'[n] = r /\ listing'[n] = l
        /\ \A m \in Names \ {n} : rec'[m] = rec[m] /\ listing'[m] = listing[m]
    BY <1>4 DEF Put
  <1>6. ListedOK'
    BY <1>5 DEF IndexerInv, ListedOK
  <1>7. \A i : Mirrors(i) =>
           AgreesWith(applyEvent(i, ev, t.timestamp)[n], n, rec'[n], listing'[n])
    BY <1>2, <1>5
  <1>8. IndexInv'
    BY <1>1, <1>2, <1>3, <1>5, <1>7, LandsWell DEF IndexerInv
  <1> QED BY <1>6, <1>8

\* The entry of a name that exists, in a store that mirrors the registry.
LEMMA MirrorEntry ==
    ASSUME NEW i, NEW n \in Names, Mirrors(i), rec[n] # Nil
    PROVE  /\ i \in [Names -> NameEntry \cup {Nil}]
           /\ i[n] \in NameEntry /\ i[n] # Nil
           /\ AgreesWith(i[n], n, rec[n], listing[n])
  <1>1. i \in [Names -> NameEntry \cup {Nil}] /\ AgreesWith(i[n], n, rec[n], listing[n])
    BY DEF Mirrors, IndexOK
  <1>2. i[n] # Nil
    BY <1>1 DEF AgreesWith
  <1> QED BY <1>1, <1>2

\* The types the steps below need.
LEMMA IndexerTypes ==
    ASSUME IndexerInv
    PROVE  /\ now \in Nat /\ rec \in [Names -> NameRecord \cup {Nil}]
           /\ listing \in [Names -> Listing \cup {Nil}]
           /\ \A n \in Names : listing = [listing EXCEPT ![n] = listing[n]]
           /\ \A n \in Names : rec[n] = Nil \/ ~rec[n].listed => listing[n] = Nil
  BY DEF IndexerInv, ListedOK, MarketInv, MarketTypeOK, NamesTypeOK

\* Both ways to register a name.
LEMMA Registers ==
    ASSUME IndexerInv, NEW n \in Names, NEW v \in Wallets, NEW y \in Nat, NEW ix,
           TopLevel(n), ~Exists(n),
           parseSolansInstruction(Direct(ix)) = RegisterOf(n, v, y),
           Logs(<<Direct(ix)>>), index' = index, UNCHANGED listing,
           Put(n, init_top_level_record(v, now + y * Year))
    PROVE  ListedOK' /\ IndexInv'
  <1> DEFINE ev == RegisterOf(n, v, y)
             x == now + y * Year
             r == init_top_level_record(v, x)
             e == Entry(<<n>>, v, Nil, now, x)
  <1>1. now \in Nat /\ listing[n] = Nil /\ listing = [listing EXCEPT ![n] = Nil]
    BY IndexerTypes DEF Exists
  <1>2. x \in Nat
    BY <1>1, RegistryAssumption
  <1>3. r \in NameRecord
    BY <1>1, TopLevelFacts DEF Fresh
  <1> HIDE DEF x
  <1>4. r # Nil /\ r.owner = v /\ r.registered_at = now /\ r.expires_at = x
    BY <1>3, RecordAssumption DEF init_top_level_record
  <1>5. TrueEvent(ev, n)
    BY DEF TrueEvent
  <1>6. e \in NameEntry /\ IsPath(<<n>>, n)
    BY <1>1, <1>2, PathTop DEF Entry, NameEntry
  <1>7. AgreesWith(e, n, r, Nil)
    <2>1. x <= r.expires_at
      BY <1>2, <1>4
    <2> HIDE DEF r
    <2> QED BY <1>2, <1>4, <1>6, <2>1, ShowsNew
  <1>8. ASSUME NEW i, Mirrors(i) PROVE AgreesWith(applyEvent(i, ev, now)[n], n, r, Nil)
    <2>1. i \in [Names -> NameEntry \cup {Nil}]
      BY <1>8 DEF Mirrors, IndexOK
    <2>2. applyEvent(i, ev, now) = [i EXCEPT ![n] = e]
      BY AppliesRegister DEF x
    <2> HIDE DEF e, r, ev
    <2>3. applyEvent(i, ev, now)[n] = e
      BY <2>1, <2>2
    <2> QED BY <1>7, <2>3
  <1>9. Put(n, r)
    BY DEF x
  <1> HIDE DEF e, r
  <1> QED BY <1>1, <1>5, <1>8, <1>9, Landed

\* Both ways to renew one: in the index the term goes on from the old expiry.
LEMMA Renews ==
    ASSUME IndexerInv, NEW n \in Names, NEW y \in Nat, NEW ix, TopLevel(n), Exists(n),
           parseSolansInstruction(Direct(ix)) = RenewOf(n, y),
           Logs(<<Direct(ix)>>), index' = index, UNCHANGED listing,
           Put(n, Renewed(rec[n], y))
    PROVE  ListedOK' /\ IndexInv'
  <1> DEFINE ev == RenewOf(n, y)
             r == rec[n]
             s == Renewed(r, y)
             l == listing[n]
  <1>1. now \in Nat /\ r \in NameRecord /\ r # Nil /\ listing = [listing EXCEPT ![n] = l]
    BY IndexerTypes DEF Exists
  <1>2. /\ s \in NameRecord /\ s.registered_at = r.registered_at /\ s.owner = r.owner
        /\ s.listed = r.listed
    BY <1>1, RenewedFacts DEF SameIdentity
  <1>3. s # Nil
    BY <1>2, RecordAssumption
  <1>4. y * Year \in Nat
    BY RegistryAssumption
  <1>5. s.expires_at = Later(r.expires_at, now) + y * Year
    BY <1>1 DEF Renewed, NameRecord
  <1>6. r.expires_at \in Nat
    BY <1>1 DEF NameRecord
  <1>7. TrueEvent(ev, n)
    BY DEF TrueEvent
  <1>8. l # Nil => s # Nil /\ s.listed
    BY <1>1, <1>2, <1>3, Zenon DEF IndexerInv, ListedOK
  <1> HIDE DEF r, s, l
  <1>9. ASSUME NEW i, Mirrors(i) PROVE AgreesWith(applyEvent(i, ev, now)[n], n, s, l)
    <2> DEFINE e == i[n]
               x == e.expiresAt + y * Year
               f == [e EXCEPT !.expiresAt = x]
    <2>1. /\ i \in [Names -> NameEntry \cup {Nil}]
          /\ e \in NameEntry /\ e # Nil /\ AgreesWith(e, n, r, l)
      BY <1>1, <1>9, MirrorEntry DEF r, l
    <2>2. applyEvent(i, ev, now) = [i EXCEPT ![n] = Extended(e, ev, now)]
      BY AppliesRenew
    <2>3. e.expiresAt \in Nat /\ e.expiresAt <= r.expires_at
      BY <1>1, <2>1 DEF AgreesWith
    <2>4. e.expiresAt # Nil
      BY <2>3, EntryAssumption
    <2> HIDE DEF e
    <2>5. Extended(e, ev, now) = f /\ f \in NameEntry
      BY <1>1, <2>1, <2>4, ExtendedEntry
    <2>6. x \in Nat /\ x <= s.expires_at
      BY <1>1, <1>4, <1>5, <1>6, <2>3 DEF Later
    <2>7. /\ f.active = e.active /\ f.fullName = e.fullName
          /\ f.registeredAt = e.registeredAt /\ f.owner = e.owner /\ f.listed = e.listed
          /\ f.expiresAt = x
      <3> HIDE DEF x
      <3> QED BY <2>1 DEF NameEntry
    <2> HIDE DEF x, f
    <2>8. /\ f.owner = s.owner
          /\ f.listed = IF l = Nil THEN Nil ELSE [price |-> l.price, seller |-> l.seller]
      BY <1>1, <1>2, <2>1, <2>7 DEF AgreesWith
    <2>9. AgreesWith(f, n, s, l)
      BY <1>1, <1>2, <1>3, <2>1, <2>5, <2>6, <2>7, <2>8, ShowsChanged
    <2> HIDE DEF ev
    <2>10. applyEvent(i, ev, now)[n] = f
      BY <2>1, <2>2, <2>5
    <2> QED BY <2>9, <2>10
  <1>10. Put(n, s)
    BY DEF s, r
  <1> QED BY <1>1, <1>7, <1>8, <1>9, <1>10, Landed

\* A subdomain: its parent exists, so the store has the labels above it.
LEMMA Wraps ==
    ASSUME IndexerInv, NEW p \in Names, NEW n \in Names, NEW w, NEW v \in Wallets, NEW ix,
           WrapSubdomain(w, p, n, v),
           parseSolansInstruction(Direct(ix)) = SubdomainOf(n, p, v),
           Logs(<<Direct(ix)>>), index' = index, UNCHANGED listing
    PROVE  ListedOK' /\ IndexInv'
  <1> DEFINE ev == SubdomainOf(n, p, v)
             r == Subdomain(p, v)
  <1>1. /\ rec[p] # Nil /\ rec[p].depth + 1 <= MaxDepth /\ now <= rec[p].expires_at
        /\ ParentOf[n] = p /\ rec[n] = Nil /\ Put(n, r)
    BY DEF WrapSubdomain, OwnerGate, Exists
  <1>2. /\ now \in Nat /\ rec[p] \in NameRecord
        /\ listing[n] = Nil /\ listing = [listing EXCEPT ![n] = Nil]
    BY <1>1, IndexerTypes
  <1>3. r \in NameRecord /\ r.registered_at = now
    BY <1>1, <1>2, SubdomainFacts DEF Fresh
  <1>4. r # Nil /\ r.owner = v
    BY <1>3, RecordAssumption DEF Subdomain, init_top_level_record
  <1>5. ~TopLevel(n)
    BY <1>1, RegistryAssumption DEF TopLevel
  <1>6. TrueEvent(ev, n)
    BY <1>1, <1>5 DEF TrueEvent
  <1> HIDE DEF r
  <1>7. ASSUME NEW i, Mirrors(i) PROVE AgreesWith(applyEvent(i, ev, now)[n], n, r, Nil)
    <2> DEFINE f == <<n>> \o i[p].fullName
               e == Entry(f, v, p, now, Nil)
    <2>1. /\ i \in [Names -> NameEntry \cup {Nil}] /\ i[p] # Nil
          /\ AgreesWith(i[p], p, rec[p], listing[p])
      BY <1>1, <1>7, MirrorEntry
    <2>2. IsPath(i[p].fullName, p)
      BY <1>1, <2>1 DEF AgreesWith
    <2>3. i[p].fullName # Nil
      BY <2>2, EntryAssumption DEF IsPath
    <2>4. ChildName(i, ev) = f
      BY <2>1, <2>3 DEF ChildName, SubdomainOf
    <2>5. applyEvent(i, ev, now) = [i EXCEPT ![n] = Entry(ChildName(i, ev), v, p, now, Nil)]
      BY AppliesSubdomain
    <2>6. IsPath(f, n)
      BY <1>1, <2>2, PathBelow
    <2> HIDE DEF f, ev
    <2>7. e \in NameEntry
      BY <1>2, <2>6 DEF Entry, NameEntry, IsPath
    <2>8. AgreesWith(e, n, r, Nil)
      BY <1>3, <1>4, <1>5, <2>6, <2>7, ShowsNew
    <2> HIDE DEF e
    <2>9. applyEvent(i, ev, now)[n] = e
      BY <2>1, <2>4, <2>5 DEF e
    <2> QED BY <2>8, <2>9
  <1> QED BY <1>1, <1>2, <1>6, <1>7, Landed

\* An update of a known name: the event makes of an entry that shows the record
\* and the listing one that shows the new ones.
LEMMA Updates ==
    ASSUME IndexerInv, NEW n \in Names, NEW ev, NEW ix, NEW sent1, NEW s, NEW k,
           sent1 = Direct(ix) \/ sent1 = Via(ix),
           parseSolansInstruction(Direct(ix)) = ev, TrueEvent(ev, n),
           Logs(<<sent1>>), index' = index, Exists(n),
           Put(n, s), listing' = [listing EXCEPT ![n] = k],
           k # Nil => s # Nil /\ s.listed,
           \A i : i[n] \in NameEntry /\ AgreesWith(i[n], n, rec[n], listing[n]) =>
                    \E f : Becomes(i, n, ev, now, f) /\ AgreesWith(f, n, s, k)
    PROVE  ListedOK' /\ IndexInv'
  <1>1. ASSUME NEW i, Mirrors(i) PROVE AgreesWith(applyEvent(i, ev, now)[n], n, s, k)
    <2>1. /\ i \in [Names -> NameEntry \cup {Nil}] /\ i[n] \in NameEntry /\ i[n] # Nil
          /\ AgreesWith(i[n], n, rec[n], listing[n])
      BY <1>1, MirrorEntry DEF Exists
    <2>2. PICK f : Becomes(i, n, ev, now, f) /\ AgreesWith(f, n, s, k)
      BY <2>1
    <2>3. applyEvent(i, ev, now)[n] = f
      BY <2>1, <2>2 DEF Becomes
    <2> QED BY <2>2, <2>3
  <1> QED BY <1>1, Landed

\* A transfer through a multisig.
LEMMA Transfers ==
    ASSUME IndexerInv, NEW n \in Names, NEW w, NEW v \in Wallets, NEW ix,
           TransferName(w, n, v), parseSolansInstruction(Direct(ix)) = TransferOf(n, v),
           Logs(<<Via(ix)>>), index' = index, UNCHANGED listing
    PROVE  ListedOK' /\ IndexInv'
  <1> DEFINE ev == TransferOf(n, v)
             s == Handover(rec[n], v)
  <1>1. rec[n] # Nil /\ ~rec[n].listed /\ Put(n, s)
    BY DEF TransferName, OwnerGate, Exists
  <1>2. /\ rec[n] \in NameRecord /\ listing[n] = Nil /\ listing = [listing EXCEPT ![n] = Nil]
    BY <1>1, IndexerTypes
  <1>3. /\ s \in NameRecord /\ s.registered_at = rec[n].registered_at /\ s.owner = v
        /\ s.expires_at = rec[n].expires_at
    BY <1>2, HandoverFacts DEF SameTerm, SameIdentity
  <1>4. s # Nil
    BY <1>3, RecordAssumption
  <1>5. TrueEvent(ev, n)
    BY DEF TrueEvent
  <1> HIDE DEF s
  <1>6. ASSUME NEW i, i[n] \in NameEntry, AgreesWith(i[n], n, rec[n], listing[n])
        PROVE  \E f : Becomes(i, n, ev, now, f) /\ AgreesWith(f, n, s, Nil)
    <2> DEFINE e == i[n]
               f == [e EXCEPT !.owner = v]
    <2>1. Becomes(i, n, ev, now, f)
      BY AppliesOwner
    <2> HIDE DEF e, ev
    <2>2. /\ f \in NameEntry /\ f.active = e.active /\ f.fullName = e.fullName
          /\ f.registeredAt = e.registeredAt /\ f.owner = v /\ f.listed = e.listed
          /\ f.expiresAt = e.expiresAt
      BY <1>6 DEF NameEntry, e
    <2>3. /\ e.listed = Nil
          /\ TopLevel(n) => e.expiresAt \in Nat /\ e.expiresAt <= rec[n].expires_at
      BY <1>1, <1>2, <1>6 DEF AgreesWith, e
    <2> HIDE DEF f
    <2>4. AgreesWith(f, n, s, Nil)
      BY <1>1, <1>3, <1>4, <1>6, <2>2, <2>3, ShowsUnlisted DEF e
    <2> QED BY <2>1, <2>4
  <1> HIDE DEF ev
  <1> QED BY <1>1, <1>2, <1>5, <1>6, Updates DEF Exists, ev

\* The end of a name.
LEMMA Burns ==
    ASSUME IndexerInv, NEW n \in Names, NEW w, NEW ix,
           BurnName(w, n), parseSolansInstruction(Direct(ix)) = BurnOf(n),
           Logs(<<Direct(ix)>>), index' = index, UNCHANGED listing
    PROVE  ListedOK' /\ IndexInv'
  <1>1. rec[n] # Nil /\ ~rec[n].listed /\ Put(n, Nil)
    BY DEF BurnName, OwnerGate, Exists
  <1>2. /\ listing[n] = Nil /\ listing = [listing EXCEPT ![n] = Nil]
    BY <1>1, IndexerTypes
  <1>3. TrueEvent(BurnOf(n), n)
    BY DEF TrueEvent
  <1>4. ASSUME NEW i, i[n] \in NameEntry, AgreesWith(i[n], n, rec[n], listing[n])
        PROVE  \E f : Becomes(i, n, BurnOf(n), now, f) /\ AgreesWith(f, n, Nil, Nil)
    <2>1. Becomes(i, n, BurnOf(n), now, [i[n] EXCEPT !.active = FALSE])
      BY AppliesEnd
    <2>2. AgreesWith([i[n] EXCEPT !.active = FALSE], n, Nil, Nil)
      BY <1>4, ShowsGone
    <2> QED BY <2>1, <2>2, Zenon
  <1> QED BY <1>1, <1>2, <1>3, <1>4, Updates DEF Exists

\* A listing.
LEMMA Lists ==
    ASSUME IndexerInv, NEW n \in Names, NEW w \in Wallets, NEW p \in Nat, NEW d \in Nat, NEW ix,
           ListName(w, n, p, d), parseSolansInstruction(Direct(ix)) = ListOf(n, w, p),
           Logs(<<Direct(ix)>>), index' = index
    PROVE  ListedOK' /\ IndexInv'
  <1> DEFINE ev == ListOf(n, w, p)
             s == Listed(rec[n])
             k == [seller |-> w, price |-> p, expires_at |-> now + d]
  <1>1. rec[n] # Nil /\ Put(n, s) /\ listing' = [listing EXCEPT ![n] = k]
    BY DEF ListName, OwnerGate, Exists
  <1>2. rec[n] \in NameRecord
    BY <1>1, IndexerTypes
  <1>3. /\ s \in NameRecord /\ s.registered_at = rec[n].registered_at
        /\ s.owner = rec[n].owner /\ s.expires_at = rec[n].expires_at /\ s.listed = TRUE
    BY <1>2, ListedFacts DEF SameIdentity
  <1>4. s # Nil /\ s.listed
    <2>1. s # Nil
      BY <1>3, RecordAssumption
    <2> QED BY <1>3, <2>1, Zenon
  <1>5. TrueEvent(ev, n)
    BY DEF TrueEvent
  <1>6. k.price = p /\ k.seller = w
    OBVIOUS
  <1> HIDE DEF s, k
  <1>7. ASSUME NEW i, i[n] \in NameEntry, AgreesWith(i[n], n, rec[n], listing[n]), k # Nil
        PROVE  \E f : Becomes(i, n, ev, now, f) /\ AgreesWith(f, n, s, k)
    <2> DEFINE e == i[n]
               q == [price |-> p, seller |-> w]
               f == [e EXCEPT !.listed = q]
    <2>1. Becomes(i, n, ev, now, f)
      BY AppliesList
    <2>2. q \in [price: Nat, seller: Wallets]
      OBVIOUS
    <2>3. q = [price |-> k.price, seller |-> k.seller]
      BY <1>6
    <2> HIDE DEF e, ev, q
    <2>4. /\ f \in NameEntry /\ f.active = e.active /\ f.fullName = e.fullName
          /\ f.registeredAt = e.registeredAt /\ f.owner = e.owner /\ f.listed = q
          /\ f.expiresAt = e.expiresAt
      BY <1>7, <2>2 DEF NameEntry, e
    <2>5. /\ e.owner = rec[n].owner
          /\ TopLevel(n) => e.expiresAt \in Nat /\ e.expiresAt <= rec[n].expires_at
      BY <1>1, <1>7 DEF AgreesWith, e
    <2> HIDE DEF f
    <2>6. f.listed = IF k = Nil THEN Nil ELSE [price |-> k.price, seller |-> k.seller]
      BY <1>7, <2>3, <2>4
    <2>7. AgreesWith(f, n, s, k)
      BY <1>1, <1>3, <1>4, <1>7, <2>4, <2>5, <2>6, ShowsChanged DEF e
    <2> QED BY <2>1, <2>7
  <1>8. k # Nil
    <2>1. k \in Listing
      <3>1. now + d \in Nat
        BY IndexerTypes
      <3> QED BY <3>1 DEF k, Listing
    <2> QED BY <2>1, SaleAssumption
  <1> HIDE DEF ev
  <1> QED BY <1>1, <1>4, <1>5, <1>7, <1>8, Updates DEF Exists, ev

\* The end of a listing.
LEMMA Unlists ==
    ASSUME IndexerInv, NEW n \in Names, NEW w, NEW ix,
           CancelListing(w, n), parseSolansInstruction(Direct(ix)) = UnlistOf(n),
           Logs(<<Direct(ix)>>), index' = index
    PROVE  ListedOK' /\ IndexInv'
  <1> DEFINE ev == UnlistOf(n)
             s == Unlisted(rec[n])
  <1>1. rec[n] # Nil /\ Put(n, s) /\ listing' = [listing EXCEPT ![n] = Nil]
    BY DEF CancelListing, Exists
  <1>2. rec[n] \in NameRecord
    BY <1>1, IndexerTypes
  <1>3. /\ s \in NameRecord /\ s.registered_at = rec[n].registered_at
        /\ s.owner = rec[n].owner /\ s.expires_at = rec[n].expires_at
    BY <1>2, UnlistedFacts DEF SameIdentity
  <1>4. s # Nil
    BY <1>3, RecordAssumption
  <1>5. TrueEvent(ev, n)
    BY DEF TrueEvent
  <1> HIDE DEF s
  <1>6. ASSUME NEW i, i[n] \in NameEntry, AgreesWith(i[n], n, rec[n], listing[n])
        PROVE  \E f : Becomes(i, n, ev, now, f) /\ AgreesWith(f, n, s, Nil)
    <2> DEFINE e == i[n]
               f == [e EXCEPT !.listed = Nil]
    <2>1. Becomes(i, n, ev, now, f)
      BY AppliesEnd
    <2> HIDE DEF e, ev
    <2>2. /\ f \in NameEntry /\ f.active = e.active /\ f.fullName = e.fullName
          /\ f.registeredAt = e.registeredAt /\ f.owner = e.owner /\ f.listed = Nil
          /\ f.expiresAt = e.expiresAt
      BY <1>6 DEF NameEntry, e
    <2>3. /\ e.owner = rec[n].owner
          /\ TopLevel(n) => e.expiresAt \in Nat /\ e.expiresAt <= rec[n].expires_at
      BY <1>1, <1>6 DEF AgreesWith, e
    <2> HIDE DEF f
    <2>4. AgreesWith(f, n, s, Nil)
      BY <1>1, <1>3, <1>4, <1>6, <2>2, <2>3, ShowsUnlisted DEF e
    <2> QED BY <2>1, <2>4
  <1> HIDE DEF ev
  <1> QED BY <1>1, <1>5, <1>6, Updates DEF Exists, ev

\* A sale.
LEMMA Sells ==
    ASSUME IndexerInv, NEW n \in Names, NEW v \in Wallets, NEW p, NEW ix,
           BuyName(v, n, p), parseSolansInstruction(Direct(ix)) = BuyOf(n, v),
           Logs(<<Direct(ix)>>), index' = index
    PROVE  ListedOK' /\ IndexInv'
  <1> DEFINE ev == BuyOf(n, v)
             h == Handover(rec[n], v)
             s == Unlisted(h)
  <1>1. rec[n] # Nil /\ Put(n, s) /\ listing' = [listing EXCEPT ![n] = Nil]
    BY DEF BuyName, Exists
  <1>2. rec[n] \in NameRecord
    BY <1>1, IndexerTypes
  <1>3. /\ h \in NameRecord /\ h.registered_at = rec[n].registered_at /\ h.owner = v
        /\ h.expires_at = rec[n].expires_at
    BY <1>2, HandoverFacts DEF SameTerm, SameIdentity
  <1> HIDE DEF h
  <1>4. /\ s \in NameRecord /\ s.registered_at = h.registered_at
        /\ s.owner = h.owner /\ s.expires_at = h.expires_at
    BY <1>3, UnlistedFacts DEF SameIdentity
  <1>5. s # Nil
    BY <1>4, RecordAssumption
  <1>6. TrueEvent(ev, n)
    BY DEF TrueEvent
  <1> HIDE DEF s
  <1>7. ASSUME NEW i, i[n] \in NameEntry, AgreesWith(i[n], n, rec[n], listing[n])
        PROVE  \E f : Becomes(i, n, ev, now, f) /\ AgreesWith(f, n, s, Nil)
    <2> DEFINE e == i[n]
               f == [e EXCEPT !.owner = v, !.listed = Nil]
    <2>1. Becomes(i, n, ev, now, f)
      BY AppliesOwner
    <2> HIDE DEF e, ev
    <2>2. /\ f \in NameEntry /\ f.active = e.active /\ f.fullName = e.fullName
          /\ f.registeredAt = e.registeredAt /\ f.owner = v /\ f.listed = Nil
          /\ f.expiresAt = e.expiresAt
      BY <1>7 DEF NameEntry, e
    <2>3. TopLevel(n) => e.expiresAt \in Nat /\ e.expiresAt <= rec[n].expires_at
      BY <1>1, <1>7 DEF AgreesWith, e
    <2> HIDE DEF f
    <2>4. AgreesWith(f, n, s, Nil)
      BY <1>1, <1>3, <1>4, <1>5, <1>7, <2>2, <2>3, ShowsUnlisted DEF e
    <2> QED BY <2>1, <2>4
  <1> HIDE DEF ev
  <1> QED BY <1>1, <1>6, <1>7, Updates DEF Exists, ev

\* A step of the registry alone keeps the market's invariant.
LEMMA RegistryKeeps ==
    ASSUME IndexerInv, Lifecycle \/ Management \/ Environment, UNCHANGED marketVars
    PROVE  MarketInv'
  BY NextStep DEF IndexerInv, MarketStep, Next, NamesNext

\* The instructions the indexer tracks: each lands well.
LEMMA TrackedStep ==
    ASSUME IndexerInv, Tracked, index' = index
    PROVE  IndexerInv'
  <1> DEFINE Done == IndexerInv'
  <1>1. \A y \in Terms : y \in Nat
    BY TermsNat
  <1>2. ASSUME NEW n \in Names, NEW w \in Wallets, NEW v \in Wallets, NEW y \in Terms,
               RegisterName(w, v, n, y, Nil), UNCHANGED marketVars,
               Logs(<<Direct(buildRegisterInstructions(w, FeeAccountsOf(config), n, v, y,
                                                       Absent, Absent)[1])>>)
        PROVE  Done
    <2> DEFINE ix == getRegisterNameInstruction(w, v, FeeAccountsOf(config), Absent, n, y)
    <2>1. buildRegisterInstructions(w, FeeAccountsOf(config), n, v, y, Absent, Absent)[1] = ix
      BY DEF buildRegisterInstructions
    <2>2. parseSolansInstruction(Direct(ix)) = RegisterOf(n, v, y)
      BY ParsesRegisterName
    <2> HIDE DEF ix
    <2>3. MarketInv'
      BY <1>2, RegistryKeeps DEF Lifecycle
    <2>4. ListedOK' /\ IndexInv'
      BY <1>1, <1>2, <2>1, <2>2, Registers DEF RegisterName, marketVars
    <2> QED BY <2>3, <2>4 DEF IndexerInv
  <1>3. ASSUME NEW n \in Names, NEW w \in Wallets, NEW v \in Wallets, NEW y \in Terms,
               RegisterWithSolans(w, v, n, y), UNCHANGED marketVars,
               Logs(<<Direct(getRegisterWithSolansInstruction(w, v, n, y))>>)
        PROVE  Done
    <2> DEFINE ix == getRegisterWithSolansInstruction(w, v, n, y)
    <2>1. parseSolansInstruction(Direct(ix)) = RegisterOf(n, v, y) /\ Logs(<<Direct(ix)>>)
      BY <1>3, ParsesRegisterWithSolans
    <2> HIDE DEF ix
    <2>2. MarketInv'
      BY <1>3, RegistryKeeps DEF Lifecycle
    <2>3. ListedOK' /\ IndexInv'
      BY <1>1, <1>3, <2>1, Registers DEF RegisterWithSolans, marketVars
    <2> QED BY <2>2, <2>3 DEF IndexerInv
  <1>4. ASSUME NEW n \in Names, NEW w \in Wallets, NEW y \in Terms,
               RenewName(w, n, y, Nil), UNCHANGED marketVars,
               Logs(<<Direct(buildRenewInstructions(w, FeeAccountsOf(config), n, y,
                                                    Absent)[1])>>)
        PROVE  Done
    <2> DEFINE ix == getRenewNameInstruction(w, findNameRecordPda(n), FeeAccountsOf(config),
                                             Absent, n, y)
    <2>1. buildRenewInstructions(w, FeeAccountsOf(config), n, y, Absent)[1] = ix
      BY DEF buildRenewInstructions
    <2>2. parseSolansInstruction(Direct(ix)) = RenewOf(n, y)
      BY ParsesRenewName
    <2> HIDE DEF ix
    <2>3. MarketInv'
      BY <1>4, RegistryKeeps DEF Lifecycle
    <2>4. ListedOK' /\ IndexInv'
      BY <1>1, <1>4, <2>1, <2>2, Renews DEF RenewName, marketVars
    <2> QED BY <2>3, <2>4 DEF IndexerInv
  <1>5. ASSUME NEW n \in Names, NEW w \in Wallets, NEW y \in Terms,
               RenewWithSolans(w, n, y), UNCHANGED marketVars,
               Logs(<<Direct(getRenewWithSolansInstruction(w, findNameRecordPda(n), n, y))>>)
        PROVE  Done
    <2> DEFINE ix == getRenewWithSolansInstruction(w, findNameRecordPda(n), n, y)
    <2>1. parseSolansInstruction(Direct(ix)) = RenewOf(n, y) /\ Logs(<<Direct(ix)>>)
      BY <1>5, ParsesRenewWithSolans
    <2> HIDE DEF ix
    <2>2. MarketInv'
      BY <1>5, RegistryKeeps DEF Lifecycle
    <2>3. ListedOK' /\ IndexInv'
      BY <1>1, <1>5, <2>1, Renews DEF RenewWithSolans, marketVars
    <2> QED BY <2>2, <2>3 DEF IndexerInv
  <1>6. ASSUME NEW n \in Names, NEW w \in Wallets, NEW v \in Wallets, NEW c \in Names,
               WrapSubdomain(w, n, c, v), UNCHANGED marketVars,
               Logs(<<Direct(buildWrapSubdomainInstructions(w, n, c, v)[1])>>)
        PROVE  Done
    <2> DEFINE ix == getWrapSubdomainInstruction(w, v, findNameRecordPda(n), c)
    <2>1. buildWrapSubdomainInstructions(w, n, c, v)[1] = ix
      BY DEF buildWrapSubdomainInstructions
    <2>2. parseSolansInstruction(Direct(ix)) = SubdomainOf(c, n, v)
      BY ParsesWrapSubdomain
    <2> HIDE DEF ix
    <2>3. MarketInv'
      BY <1>6, RegistryKeeps DEF Management
    <2>4. ListedOK' /\ IndexInv'
      BY <1>6, <2>1, <2>2, Wraps DEF marketVars
    <2> QED BY <2>3, <2>4 DEF IndexerInv
  <1>7. ASSUME NEW n \in Names, NEW w \in Wallets, NEW v \in Wallets \ {w},
               TransferName(w, n, v), UNCHANGED marketVars,
               Logs(<<Via(buildTransferInstructions(w, n, v)[1])>>)
        PROVE  Done
    <2> DEFINE ix == getTransferNameInstruction(w, findNameRecordPda(n), v)
    <2>1. buildTransferInstructions(w, n, v)[1] = ix
      BY DEF buildTransferInstructions
    <2>2. parseSolansInstruction(Direct(ix)) = TransferOf(n, v)
      BY ParsesTransferName
    <2> HIDE DEF ix
    <2>3. MarketInv'
      BY <1>7, RegistryKeeps DEF Management
    <2>4. ListedOK' /\ IndexInv'
      BY <1>7, <2>1, <2>2, Transfers DEF marketVars
    <2> QED BY <2>3, <2>4 DEF IndexerInv
  <1>8. ASSUME NEW n \in Names, NEW w \in Wallets, BurnName(w, n), UNCHANGED marketVars,
               Logs(<<Direct(buildBurnNameInstructions(w, n)[1])>>)
        PROVE  Done
    <2> DEFINE ix == getBurnNameInstruction(w, findNameRecordPda(n))
    <2>1. buildBurnNameInstructions(w, n)[1] = ix
      BY DEF buildBurnNameInstructions
    <2>2. parseSolansInstruction(Direct(ix)) = BurnOf(n)
      BY ParsesBurnName
    <2> HIDE DEF ix
    <2>3. MarketInv'
      BY <1>8, RegistryKeeps DEF Lifecycle
    <2>4. ListedOK' /\ IndexInv'
      BY <1>8, <2>1, <2>2, Burns DEF marketVars
    <2> QED BY <2>3, <2>4 DEF IndexerInv
  <1>9. ASSUME NEW n \in Names, NEW w \in Wallets, NEW p \in Prices, NEW d \in Durations,
               ListName(w, n, p, d), Logs(<<Direct(buildListInstructions(w, n, p, d)[1])>>)
        PROVE  Done
    <2> DEFINE ix == getListNameInstruction(w, findNameRecordPda(n), findListing(n), p, d)
    <2>1. buildListInstructions(w, n, p, d)[1] = ix
      BY DEF buildListInstructions
    <2>2. parseSolansInstruction(Direct(ix)) = ListOf(n, w, p)
      BY ParsesListName
    <2>3. p \in Nat /\ d \in Nat
      BY MarketAssumption
    <2> HIDE DEF ix
    <2>4. MarketInv'
      BY <1>9, <2>3, ListNameStep DEF IndexerInv, MarketStep
    <2>5. ListedOK' /\ IndexInv'
      BY <1>9, <2>1, <2>2, <2>3, Lists
    <2> QED BY <2>4, <2>5 DEF IndexerInv
  <1>10. ASSUME NEW n \in Names, NEW w \in Wallets, CancelListing(w, n),
                Logs(<<Direct(buildCancelListingInstructions(w, n, listing[n].seller)[1])>>)
         PROVE  Done
    <2> DEFINE ix == getCancelListingInstruction(w, listing[n].seller, findNameRecordPda(n),
                                                 findListing(n))
    <2>1. buildCancelListingInstructions(w, n, listing[n].seller)[1] = ix
      BY DEF buildCancelListingInstructions
    <2>2. parseSolansInstruction(Direct(ix)) = UnlistOf(n)
      BY ParsesCancelListing
    <2> HIDE DEF ix
    <2>3. MarketInv'
      BY <1>10, CancelListingStep DEF IndexerInv, MarketStep
    <2>4. ListedOK' /\ IndexInv'
      BY <1>10, <2>1, <2>2, Unlists
    <2> QED BY <2>3, <2>4 DEF IndexerInv
  <1>11. ASSUME NEW n \in Names, NEW w \in Wallets,
                listing[n] # Nil, BuyName(w, n, listing[n].price),
                Logs(<<Direct(buildBuyInstructions(w, n, listing[n].seller, listing[n].price,
                                                   config.params.sol_treasury)[1])>>)
         PROVE  Done
    <2> DEFINE ix == getBuyNameInstruction(w, listing[n].seller, config.params.sol_treasury,
                                           findNameRecordPda(n), findListing(n),
                                           listing[n].price)
    <2>1. buildBuyInstructions(w, n, listing[n].seller, listing[n].price,
                               config.params.sol_treasury)[1] = ix
      BY DEF buildBuyInstructions
    <2>2. parseSolansInstruction(Direct(ix)) = BuyOf(n, w)
      BY ParsesBuyName
    <2>3. listing[n].price \in Nat
      BY <1>11, IndexerTypes DEF Listing
    <2> HIDE DEF ix
    <2>4. MarketInv'
      BY <1>11, <2>3, BuyNameStep DEF IndexerInv, MarketStep
    <2>5. ListedOK' /\ IndexInv'
      BY <1>11, <2>1, <2>2, Sells
    <2> QED BY <2>4, <2>5 DEF IndexerInv
  <1> HIDE DEF Done
  <1>12. Done
    BY <1>2, <1>3, <1>4, <1>5, <1>6, <1>7, <1>8, <1>9, <1>10, <1>11, ZenonT(90) DEF Tracked
  <1> QED BY <1>12 DEF Done

\* An empty store is well.
LEMMA EmptyIndex == IndexOK(NoEntries) /\ \A n \in Names : NoEntries[n] = Nil
  BY DEF IndexOK, NoEntries

\* A step that leaves registry, market and log alone and the store well, with the
\* entries of the names to which nothing has happened still missing.
LEMMA StoreStep ==
    ASSUME IndexerInv, UNCHANGED <<rec, listing, log>>, MarketInv', IndexOK(index'),
           \A n \in Names : UnbornAs(n, log, rec[n], index[n]) => index'[n] = Nil
    PROVE  IndexerInv'
  <1>1. ListedOK'
    BY DEF IndexerInv, ListedOK
  <1>2. LogOK(log)'
    BY DEF IndexerInv, IndexInv
  <1>3. ASSUME NEW n \in Names
        PROVE  \/ SettledAs(n, log', rec'[n], listing'[n])
               \/ UnbornAs(n, log', rec'[n], index'[n])
    <2>1. CASE SettledAs(n, log, rec[n], listing[n])
      BY <2>1
    <2>2. CASE UnbornAs(n, log, rec[n], index[n])
      BY <2>2 DEF UnbornAs
    <2> QED BY <2>1, <2>2 DEF IndexerInv, IndexInv
  <1> QED BY <1>1, <1>2, <1>3 DEF IndexerInv, IndexInv

\* A delivery of any stretch of the log.
LEMMA WebhookStep ==
    ASSUME IndexerInv, NEW i \in 1..Len(log), NEW j \in i..Len(log), Webhook(i, j)
    PROVE  IndexerInv'
  <1> DEFINE txs == SubSeq(log, i, j)
             l == j - i + 1
  <1>1. PICK V : log \in Seq(V)
    BY DEF IndexerInv, IndexInv, LogOK
  <1>2. Len(log) \in Nat
    BY <1>1
  <1>3. l \in Nat /\ \A k \in 1..l : i + k - 1 \in 1..Len(log)
    BY <1>2
  <1>4. DOMAIN txs = 1..l /\ \A k \in 1..l : txs[k] = log[i + k - 1]
    BY <1>1, <1>2
  <1>5. index' = ingestHeliusTxs(index, txs) /\ UNCHANGED <<vars, log>>
    BY DEF Webhook
  <1> HIDE DEF txs, l
  <1>6. ASSUME NEW U, \A k \in 1..Len(log) : \E n \in Names \ U : TrueTx(log[k], n)
        PROVE  IndexOK(index') /\ \A n \in Names \cap U : index'[n] = index[n]
    <2>1. \A k \in 1..l : \E n \in Names \ U : TrueTx(txs[k], n)
      BY <1>3, <1>4, <1>6
    <2>2. IndexOK(index)
      BY DEF IndexerInv, IndexInv
    <2> QED BY <1>3, <1>4, <1>5, <2>1, <2>2, BatchWell
  <1>7. IndexOK(index')
    <2>1. \A k \in 1..Len(log) : \E n \in Names \ {} : TrueTx(log[k], n)
      BY DEF IndexerInv, IndexInv, LogOK
    <2> QED BY <1>6, <2>1
  <1>8. ASSUME NEW n \in Names, UnbornAs(n, log, rec[n], index[n]) PROVE index'[n] = Nil
    <2>1. /\ index[n] = Nil
          /\ \A k \in 1..Len(log) : \E m \in Names \ {n} : TrueTx(log[k], m)
      BY <1>8 DEF UnbornAs
    <2>2. \A m \in Names \cap {n} : index'[m] = index[m]
      BY <1>6, <2>1
    <2> QED BY <2>1, <2>2
  <1>9. MarketInv'
    BY <1>5, InvariantStep DEF IndexerInv
  <1>10. UNCHANGED <<rec, listing, log>>
    BY <1>5 DEF vars, namesVars, registryVars, marketVars
  <1> QED BY <1>7, <1>8, <1>9, <1>10, StoreStep

\* The indexer's invariant is inductive.
LEMMA IndexerInvariance == IndexerSpec => []IndexerInv
  <1>1. ASSUME IndexerInit PROVE IndexerInv
    <2>1. MarketInv
      BY <1>1, MarketInitial DEF IndexerInit
    <2>2. \A n \in Names : rec[n] = Nil /\ listing[n] = Nil /\ index[n] = Nil
      BY <1>1, EmptyIndex DEF IndexerInit, MarketInit, NamesInit
    <2>3. log = <<>> /\ Len(<<>>) = 0 /\ 1..0 = {} /\ <<>> \in Seq({})
      BY <1>1 DEF IndexerInit
    <2>4. LogOK(log)
      BY <2>3 DEF LogOK
    <2>5. \A n \in Names : UnbornAs(n, log, rec[n], index[n])
      BY <2>2, <2>3 DEF UnbornAs
    <2>6. IndexOK(index)
      BY <1>1, EmptyIndex DEF IndexerInit
    <2> QED BY <2>1, <2>2, <2>4, <2>5, <2>6 DEF IndexerInv, IndexInv, ListedOK
  <1>2. ASSUME IndexerInv, IndexerNext PROVE IndexerInv'
    <2>1. CASE Tracked /\ UNCHANGED index
      BY <1>2, <2>1, TrackedStep
    <2>2. CASE \E i \in 1..Len(log) : \E j \in i..Len(log) : Webhook(i, j)
      BY <1>2, <2>2, WebhookStep
    <2>3. CASE RestartIndexer
      <3>1. MarketInv' /\ UNCHANGED <<rec, listing, log>>
        BY <1>2, <2>3, InvariantStep
           DEF IndexerInv, RestartIndexer, vars, namesVars, registryVars, marketVars
      <3>2. IndexOK(index') /\ \A n \in Names : index'[n] = Nil
        BY <2>3, EmptyIndex DEF RestartIndexer
      <3> QED BY <1>2, <3>1, <3>2, StoreStep
    <2>4. CASE Time
      <3>1. MarketInv'
        BY <1>2, <2>4, RegistryKeeps DEF Time, Environment
      <3>2. UNCHANGED <<rec, listing, log, index>>
        BY <2>4 DEF Time, Tick, marketVars
      <3>3. IndexOK(index') /\ \A n \in Names : UnbornAs(n, log, rec[n], index[n]) =>
                                                  index'[n] = Nil
        BY <1>2, <3>2 DEF IndexerInv, IndexInv, UnbornAs
      <3> QED BY <1>2, <3>1, <3>2, <3>3, StoreStep
    <2> QED BY <1>2, <2>1, <2>2, <2>3, <2>4 DEF IndexerNext
  <1>3. ASSUME IndexerInv, UNCHANGED indexerVars PROVE IndexerInv'
    <2>1. UNCHANGED <<rec, listing, log, index>> /\ UNCHANGED vars
      BY <1>3 DEF indexerVars, vars, namesVars, registryVars, marketVars
    <2>2. MarketInv'
      BY <1>3, <2>1, InvariantStep DEF IndexerInv
    <2>3. IndexOK(index') /\ \A n \in Names : UnbornAs(n, log, rec[n], index[n]) =>
                                                index'[n] = Nil
      BY <1>3, <2>1 DEF IndexerInv, IndexInv, UnbornAs
    <2> QED BY <1>3, <2>1, <2>2, <2>3, StoreStep
  <1> QED BY <1>1, <1>2, <1>3, PTL DEF IndexerSpec

\* A label the indexer shows is the name's own, in whatever order, how often and
\* with what losses the webhook delivered the events (applyEvent,
\* ingestHeliusTxs), for every registry and every history.
THEOREM IndexLabelsTrue == IndexerSpec => []LabelsTrue
  <1>1. IndexerInv => LabelsTrue
    BY DEF IndexerInv, IndexInv, IndexOK, LabelsTrue
  <1> QED BY <1>1, IndexerInvariance, PTL

\* Sending the whole history again repairs the index, whatever it went through
\* before: it then shows the names that exist with their owners, labels and
\* listings, and no later expiry than the record's (ingestHeliusTxs).
THEOREM IndexReplayAgrees == IndexerSpec => []ReplayAgrees
  <1>1. ASSUME IndexerInv PROVE ReplayAgrees
    <2> SUFFICES ASSUME NEW n \in Names
                 PROVE  Agrees(ingestHeliusTxs(index, log)[n], n)
      BY DEF ReplayAgrees
    <2> DEFINE e == ingestHeliusTxs(index, log)[n]
    <2>1. IndexOK(index)
      BY <1>1 DEF IndexerInv, IndexInv
    <2>2. CASE SettledAs(n, log, rec[n], listing[n])
      <3>1. AgreesWith(e, n, rec[n], listing[n])
        BY <2>1, <2>2 DEF SettledAs
      <3> HIDE DEF e
      <3>2. Agrees(e, n)
        BY <3>1 DEF AgreesWith, Agrees, Exists
      <3> QED BY <3>2 DEF e
    <2>3. CASE UnbornAs(n, log, rec[n], index[n])
      <3>1. PICK V : log \in Seq(V)
        BY <1>1 DEF IndexerInv, IndexInv, LogOK
      <3>2. Len(log) \in Nat /\ DOMAIN log = 1..Len(log)
        BY <3>1
      <3> DEFINE U == {n}
      <3>3. /\ rec[n] = Nil /\ index[n] = Nil /\ n \in U
            /\ \A k \in 1..Len(log) : \E m \in Names \ U : TrueTx(log[k], m)
        BY <2>3 DEF UnbornAs
      <3> HIDE DEF U
      <3>4. \A m \in Names \cap U : ingestHeliusTxs(index, log)[m] = index[m]
        BY <2>1, <3>2, <3>3, BatchWell
      <3>5. e = Nil
        BY <3>3, <3>4
      <3> HIDE DEF e
      <3>6. Agrees(e, n)
        BY <3>3, <3>5 DEF Agrees, Exists
      <3> QED BY <3>6 DEF e
    <2> QED BY <1>1, <2>2, <2>3 DEF IndexerInv, IndexInv
  <1> QED BY <1>1, IndexerInvariance, PTL
=============================================================================
