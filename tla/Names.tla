-------------------------------- MODULE Names --------------------------------
(***************************************************************************)
(* The name registry: the NameRecord accounts and every instruction that   *)
(* creates, renews, hands over, annotates, tokenizes or closes one, with   *)
(* the payment each of them makes.  An instruction is one atomic step.     *)
(*                                                                         *)
(* A record's address is derived from its hash.  keccak256 is taken to be  *)
(* injective on the two disjoint preimage spaces the program uses, so a    *)
(* name stands for its hash and the constant ParentOf for the parent a     *)
(* subdomain hash commits to; a name with ParentOf = Nil is top-level.     *)
(* Names holds only labels that validate_name and validate_tld accept.     *)
(***************************************************************************)
EXTENDS Protocol, FiniteSets, Functions

CONSTANTS Names, ParentOf, Label,
          Keys, Values, Resolvers, Hosts, Mints,
          Controllers,        \* wallets set_controller may name
          ApproveAmounts,     \* arguments of spl-token approve
          Year,               \* SECONDS_PER_YEAR, in clock ticks
          RenewalWindow,      \* RENEWAL_WINDOW_SECONDS, in clock ticks
          MaxRecords,         \* MAX_RECORDS
          MaxDepth,           \* MAX_SUBDOMAIN_DEPTH
          MaxTime             \* bound on the clock

ASSUME RegistryAssumption ==
    /\ ParentOf \in [Names -> Names \cup {Nil}]
    /\ Label \in [Names -> LabelShape]
    /\ Controllers \subseteq Wallets
    /\ ApproveAmounts \subseteq Nat
    /\ Year \in Nat \ {0} /\ RenewalWindow \in Nat /\ RenewalWindow < Year
    /\ MaxRecords \in Nat /\ MaxDepth \in Nat /\ MaxTime \in Nat
    /\ Nil \notin Names \cup Mints \cup Values \cup Resolvers \cup Hosts

VARIABLES now,        \* Clock::get()?.unix_timestamp
          rec,        \* the NameRecord account of each name, or Nil
          reverse,    \* the ReverseRecord of each wallet: a name, or Nil
          holder,     \* who holds each name NFT, or Nil when not minted
          allowance   \* what the Config PDA may still pull from each wallet

registryVars == <<now, rec, reverse, holder, allowance>>
namesVars == <<registryVars, moneyVars>>

NoRecords == [k \in Keys |-> Nil]

NameRecord ==
    [owner: Wallets, controller: Wallets \cup {Nil},
     registered_at: Nat, expires_at: Nat,
     records: [Keys -> Values \cup {Nil}],
     resolver: Resolvers \cup {Nil}, hosting_ref: Hosts \cup {Nil},
     transfer_locked: BOOLEAN, reverse_set: BOOLEAN,
     nft_mint: Mints \cup {Nil},
     parent: Names \cup {Nil}, parent_registered_at: Nat, depth: 0..MaxDepth,
     listed: BOOLEAN]

ASSUME RecordAssumption == Nil \notin NameRecord

NamesTypeOK ==
    /\ now \in Nat
    /\ rec \in [Names -> NameRecord \cup {Nil}]
    /\ reverse \in [Wallets -> Names \cup {Nil}]
    /\ holder \in [Mints -> Wallets \cup {Nil}]
    /\ allowance \in [Wallets -> Nat]
    /\ MoneyTypeOK
    /\ config # Nil /\ ValidParams(config.params)

\* The registry is deployed: init_config, init_stake_pool, init_burn_pool and
\* set_solans_params have run (module Treasury has those steps).
Deployed ==
    \E admin \in Admins, p \in ParamChoices, s \in SolansChoices :
        /\ ValidParams(p) /\ s.discount < BPS_DENOMINATOR
        /\ config = [admin |-> admin, params |-> p, solans |-> s, solans_mint |-> TRUE,
                     staking_vault |-> "staking_pool", burn_vault |-> "burn_pool"]

NamesInit ==
    /\ Deployed /\ MoneyInit
    /\ now = 0
    /\ rec = [n \in Names |-> Nil]
    /\ reverse = [w \in Wallets |-> Nil]
    /\ holder = [m \in Mints |-> Nil]
    /\ allowance = [w \in Wallets |-> 0]

-----------------------------------------------------------------------------
(* Helpers. *)

Exists(n) == rec[n] # Nil
TopLevel(n) == ParentOf[n] = Nil
Put(n, r) == rec' = [rec EXCEPT ![n] = r]

\* Only the record of a name changes.
OnlyRecord == UNCHANGED <<now, reverse, holder, allowance, moneyVars>>
\* The record and the payment-mint or $SOLANS balances change.
OnlyRecordAndMoney == UNCHANGED <<now, reverse, holder, allowance>>

\* Mutant: a listed name is not frozen.
OwnerGate_unfrozen(w, n) == Exists(n) /\ rec[n].owner = w /\ rec[n].nft_mint = Nil

\* has_one = owner, not tokenized, not listed: the gate of the structural
\* instructions.
OwnerGate(w, n) ==
    /\ Exists(n) /\ rec[n].owner = w
    /\ rec[n].nft_mint = Nil
    /\ ~rec[n].listed

\* The wallet that name_authority_ok accepts: the NFT holder while the name
\* is tokenized, else the recorded owner.
name_authority_ok(w, r) ==
    IF r.nft_mint # Nil THEN holder[r.nft_mint] = w ELSE r.owner = w

\* Mutants: the reverse flag, or the delegate, stays with the name.
Handover_keeps_reverse(r, w) == [r EXCEPT !.owner = w, !.controller = Nil]
Handover_keeps_controller(r, w) == [r EXCEPT !.owner = w, !.reverse_set = FALSE]

\* The fields every ownership change rewrites.
Handover(r, w) == [r EXCEPT !.owner = w, !.controller = Nil, !.reverse_set = FALSE]

init_top_level_record(w, expires_at) ==
    [owner |-> w, controller |-> Nil, registered_at |-> now, expires_at |-> expires_at,
     records |-> NoRecords, resolver |-> Nil, hosting_ref |-> Nil,
     transfer_locked |-> FALSE, reverse_set |-> FALSE, nft_mint |-> Nil,
     parent |-> Nil, parent_registered_at |-> 0, depth |-> 0, listed |-> FALSE]

ValidYears(years) ==
    years \in config.params.min_years .. config.params.max_years
YearlyPrice(n) == price_for_label(config.params, Label[n])
Later(a, b) == IF a >= b THEN a ELSE b
Renewed(r, years) == [r EXCEPT !.expires_at = Later(@, now) + years * Year]

\* The single-field updates.
WithLock(r, lock) == [r EXCEPT !.transfer_locked = lock]
WithController(r, c) == [r EXCEPT !.controller = c]
WithResolver(r, p) == [r EXCEPT !.resolver = p]
WithHosting(r, h) == [r EXCEPT !.hosting_ref = h]
WithRecord(r, k, v) == [r EXCEPT !.records = [@ EXCEPT ![k] = v]]
WithReverse(r) == [r EXCEPT !.reverse_set = TRUE]
WithMint(r, m) == [r EXCEPT !.nft_mint = m]

-----------------------------------------------------------------------------
(* Registration, renewal, expiry. *)

RegisterName(payer, w, n, years, referrer) ==
    /\ TopLevel(n) /\ ~Exists(n)
    /\ ValidYears(years)
    /\ DistributeFee(payer, referrer, YearlyPrice(n) * years)
    /\ Put(n, init_top_level_record(w, now + years * Year))
    /\ OnlyRecordAndMoney

RegisterWithSolans(payer, w, n, years) ==
    /\ TopLevel(n) /\ ~Exists(n)
    /\ solans_enabled(config)
    /\ ValidYears(years)
    /\ BurnSolans(payer, solans_fee(config.solans, YearlyPrice(n) * years))
    /\ Put(n, init_top_level_record(w, now + years * Year))
    /\ OnlyRecordAndMoney

\* Anyone may pay; a subdomain's hash never equals a flat name's hash.
RenewName(payer, n, years, referrer) ==
    /\ TopLevel(n) /\ Exists(n)
    /\ ValidYears(years)
    /\ DistributeFee(payer, referrer, YearlyPrice(n) * years)
    /\ Put(n, Renewed(rec[n], years))
    /\ OnlyRecordAndMoney

RenewWithSolans(payer, n, years) ==
    /\ TopLevel(n) /\ Exists(n)
    /\ solans_enabled(config)
    /\ ValidYears(years)
    /\ BurnSolans(payer, solans_fee(config.solans, YearlyPrice(n) * years))
    /\ Put(n, Renewed(rec[n], years))
    /\ OnlyRecordAndMoney

\* Mutant: a keeper need not wait for the renewal window.
AutoRenew_any_time(n) ==
    /\ TopLevel(n) /\ Exists(n)
    /\ ValidYears(1)
    /\ YearlyPrice(n) <= allowance[rec[n].owner]
    /\ DistributeFee(rec[n].owner, Nil, YearlyPrice(n))
    /\ allowance' = [allowance EXCEPT ![rec[n].owner] = @ - YearlyPrice(n)]
    /\ Put(n, Renewed(rec[n], 1))
    /\ UNCHANGED <<now, reverse, holder>>

\* A keeper pulls one year's fee from the recorded owner's delegation.
AutoRenew(n) ==
    /\ TopLevel(n) /\ Exists(n)
    /\ ValidYears(1)
    /\ now >= rec[n].expires_at - RenewalWindow
    /\ YearlyPrice(n) <= allowance[rec[n].owner]
    /\ DistributeFee(rec[n].owner, Nil, YearlyPrice(n))
    /\ allowance' = [allowance EXCEPT ![rec[n].owner] = @ - YearlyPrice(n)]
    /\ Put(n, Renewed(rec[n], 1))
    /\ UNCHANGED <<now, reverse, holder>>

\* Mutant: the claimed record keeps the registration time of the lapsed one.
ClaimExpired_same_tenure(claimer, n, years, referrer) ==
    /\ Exists(n) /\ rec[n].parent = Nil
    /\ now > rec[n].expires_at + config.params.grace_period
    /\ ValidYears(years)
    /\ DistributeFee(claimer, referrer, YearlyPrice(n) * years)
    /\ Put(n, [init_top_level_record(claimer, now + years * Year) EXCEPT
                 !.registered_at = rec[n].registered_at])
    /\ OnlyRecordAndMoney

\* Mutant: the claimed record keeps the `listed` flag of the lapsed one.
ClaimExpired_keeps_listed(claimer, n, years, referrer) ==
    /\ Exists(n) /\ rec[n].parent = Nil
    /\ now > rec[n].expires_at + config.params.grace_period
    /\ ValidYears(years)
    /\ DistributeFee(claimer, referrer, YearlyPrice(n) * years)
    /\ Put(n, [init_top_level_record(claimer, now + years * Year) EXCEPT
                 !.listed = rec[n].listed])
    /\ OnlyRecordAndMoney

\* The Listing and Auction accounts of the name, if any, stay behind.
ClaimExpired(claimer, n, years, referrer) ==
    /\ Exists(n) /\ rec[n].parent = Nil
    /\ now > rec[n].expires_at + config.params.grace_period
    /\ ValidYears(years)
    /\ DistributeFee(claimer, referrer, YearlyPrice(n) * years)
    /\ Put(n, init_top_level_record(claimer, now + years * Year))
    /\ OnlyRecordAndMoney

BurnName(w, n) ==
    /\ OwnerGate(w, n)
    /\ Put(n, Nil)
    /\ OnlyRecord

-----------------------------------------------------------------------------
(* Ownership, delegation, records. *)

TransferName(w, n, new_owner) ==
    /\ OwnerGate(w, n) /\ ~rec[n].transfer_locked
    /\ Put(n, Handover(rec[n], new_owner))
    /\ OnlyRecord

LockTransfer(w, n, lock) ==
    /\ OwnerGate(w, n)
    /\ Put(n, WithLock(rec[n], lock))
    /\ OnlyRecord

SetController(w, n, controller) ==
    /\ OwnerGate(w, n)
    /\ Put(n, WithController(rec[n], controller))
    /\ OnlyRecord

SetResolver(w, n, resolver) ==
    /\ Exists(n) /\ ~rec[n].listed
    /\ name_authority_ok(w, rec[n])
    /\ Put(n, WithResolver(rec[n], resolver))
    /\ OnlyRecord

\* The name's authority or its delegate.
MayManage(w, n) == name_authority_ok(w, rec[n]) \/ rec[n].controller = w

\* Mutant: the hosting reference of a listed name can still be changed.
SetHosting_listed(w, n, hosting_ref) ==
    /\ Exists(n)
    /\ MayManage(w, n)
    /\ Put(n, WithHosting(rec[n], hosting_ref))
    /\ OnlyRecord

SetHosting(w, n, hosting_ref) ==
    /\ Exists(n) /\ ~rec[n].listed
    /\ MayManage(w, n)
    /\ Put(n, WithHosting(rec[n], hosting_ref))
    /\ OnlyRecord

\* upsert_record fails when a new key finds the store full, delete_record
\* when the key is absent.
CanWrite(r, k, value) ==
    IF value = Nil THEN r.records[k] # Nil
    ELSE \/ r.records[k] # Nil
         \/ Cardinality({j \in Keys : r.records[j] # Nil}) < MaxRecords

UpdateRecord(w, n, k, value) ==
    /\ Exists(n) /\ ~rec[n].listed
    /\ MayManage(w, n)
    /\ CanWrite(rec[n], k, value)
    /\ Put(n, WithRecord(rec[n], k, value))
    /\ OnlyRecord

SetReverse(w, n) ==
    /\ OwnerGate(w, n) /\ rec[n].parent = Nil
    /\ reverse' = [reverse EXCEPT ![w] = n]
    /\ Put(n, WithReverse(rec[n]))
    /\ UNCHANGED <<now, holder, allowance, moneyVars>>

-----------------------------------------------------------------------------
(* Name NFTs. *)

\* A fresh mint keypair; a burned mint is never referred to again, so the
\* model may hand it out a second time.
TokenizeName(w, n, m) ==
    /\ OwnerGate(w, n) /\ rec[n].parent = Nil
    /\ holder[m] = Nil
    /\ holder' = [holder EXCEPT ![m] = w]
    /\ Put(n, WithMint(rec[n], m))
    /\ UNCHANGED <<now, reverse, allowance, moneyVars>>

\* Mutant: the record keeps referring to the burned mint.
RedeemName_keeps_mint(w, n) ==
    /\ Exists(n) /\ rec[n].nft_mint # Nil
    /\ holder[rec[n].nft_mint] = w
    /\ holder' = [holder EXCEPT ![rec[n].nft_mint] = Nil]
    /\ Put(n, Handover(rec[n], w))
    /\ UNCHANGED <<now, reverse, allowance, moneyVars>>

RedeemName(w, n) ==
    /\ Exists(n) /\ rec[n].nft_mint # Nil
    /\ holder[rec[n].nft_mint] = w
    /\ holder' = [holder EXCEPT ![rec[n].nft_mint] = Nil]
    /\ Put(n, WithMint(Handover(rec[n], w), Nil))
    /\ UNCHANGED <<now, reverse, allowance, moneyVars>>

\* External: the NFT changes hands on a market.
TradeNft(m, w) ==
    /\ holder[m] # Nil
    /\ holder' = [holder EXCEPT ![m] = w]
    /\ UNCHANGED <<now, rec, reverse, allowance, moneyVars>>

-----------------------------------------------------------------------------
(* Subdomains. *)

\* The record of a new subdomain of n: a free registration that captures the
\* parent's registration time and a snapshot of its expiry.
Subdomain(n, w) ==
    [init_top_level_record(w, rec[n].expires_at) EXCEPT
       !.parent = n,
       !.parent_registered_at = rec[n].registered_at,
       !.depth = rec[n].depth + 1]

\* Mutant: an expired parent may still get subdomains.
WrapSubdomain_expired(w, n, child, child_owner) ==
    /\ OwnerGate(w, n)
    /\ rec[n].depth + 1 <= MaxDepth
    /\ ParentOf[child] = n /\ ~Exists(child)
    /\ Put(child, Subdomain(n, child_owner))
    /\ OnlyRecord

WrapSubdomain(w, n, child, child_owner) ==
    /\ OwnerGate(w, n)
    /\ now <= rec[n].expires_at
    /\ rec[n].depth + 1 <= MaxDepth
    /\ ParentOf[child] = n /\ ~Exists(child)
    /\ Put(child, Subdomain(n, child_owner))
    /\ OnlyRecord

\* The recorded owner of the parent, whatever the parent's own state, also
\* when it is tokenized.
MayRevoke(w, child) ==
    /\ Exists(child) /\ rec[child].parent # Nil
    /\ Exists(rec[child].parent)
    /\ rec[rec[child].parent].owner = w
    /\ rec[child].nft_mint = Nil

\* Closes the child, even while it is listed.
RevokeSubdomain(w, child) ==
    /\ MayRevoke(w, child)
    /\ Put(child, Nil)
    /\ OnlyRecord

-----------------------------------------------------------------------------
(* The environment: the clock and spl-token approve. *)

Tick ==
    /\ now < MaxTime
    /\ now' = now + 1
    /\ UNCHANGED <<rec, reverse, holder, allowance, moneyVars>>

Approve(w, amount) ==
    /\ allowance' = [allowance EXCEPT ![w] = amount]
    /\ UNCHANGED <<now, rec, reverse, holder, moneyVars>>

\* The Config instructions that can still run once the registry is live.
Govern == Governance /\ UNCHANGED registryVars

Terms == UNION {p.min_years .. p.max_years : p \in ParamChoices}

Lifecycle ==
    \E n \in Names :
        \/ \E w \in Wallets, y \in Terms, f \in Referrers \cup {Nil} :
             \/ \E payer \in Wallets : RegisterName(payer, w, n, y, f)
             \/ RenewName(w, n, y, f)
             \/ ClaimExpired(w, n, y, f)
        \/ \E w \in Wallets, y \in Terms :
             \/ \E payer \in Wallets : RegisterWithSolans(payer, w, n, y)
             \/ RenewWithSolans(w, n, y)
        \/ AutoRenew(n)
        \/ \E w \in Wallets : BurnName(w, n)

Management ==
    \E w \in Wallets, n \in Names :
        \/ \E v \in Wallets : TransferName(w, n, v)
        \/ \E lock \in BOOLEAN : LockTransfer(w, n, lock)
        \/ \E c \in Controllers \cup {Nil} : SetController(w, n, c)
        \/ \E r \in Resolvers \cup {Nil} : SetResolver(w, n, r)
        \/ \E h \in Hosts \cup {Nil} : SetHosting(w, n, h)
        \/ \E k \in Keys, v \in Values \cup {Nil} : UpdateRecord(w, n, k, v)
        \/ SetReverse(w, n)
        \/ \E m \in Mints : TokenizeName(w, n, m)
        \/ RedeemName(w, n)
        \/ \E child \in Names, v \in Wallets : WrapSubdomain(w, n, child, v)
        \/ RevokeSubdomain(w, n)

Environment ==
    \/ Tick
    \/ \E w \in Wallets, a \in ApproveAmounts : Approve(w, a)
    \/ \E m \in Mints, w \in Wallets : TradeNft(m, w)

NamesNext == Lifecycle \/ Management \/ Environment \/ Govern

-----------------------------------------------------------------------------
(* What the registry promises. *)

\* Subdomain c belongs to its parent as it is: the parent exists and is still
\* the registration the child was created under.
Linked(c) ==
    \/ rec[c].parent = Nil
    \/ /\ Exists(rec[c].parent)
       /\ rec[rec[c].parent].registered_at = rec[c].parent_registered_at

\* A tokenized name can always be redeemed: its NFT exists and no other name
\* refers to the same mint (tokenize_name, redeem_name, claim_expired).
NftBacked ==
    \A n \in Names : Exists(n) /\ rec[n].nft_mint # Nil =>
        /\ holder[rec[n].nft_mint] # Nil
        /\ \A k \in Names \ {n} : Exists(k) => rec[k].nft_mint # rec[n].nft_mint

\* reverse_set is never left behind by a previous owner: a name that carries
\* it is owned by a wallet that has a reverse record (every path that changes
\* `owner` must clear the flag).
ReverseBacked ==
    \A n \in Names : Exists(n) /\ rec[n].reverse_set => reverse[rec[n].owner] # Nil

\* Registration times are ordered along the tree: no record is from the
\* future, none starts after its own expiry, and a subdomain's captured
\* parent_registered_at is never later than its parent's registration, also
\* when the parent was burned and registered again or claimed (the check that
\* cuts off the subdomains of a lapsed registration compares these times).
Tenured(r) ==
    /\ r.registered_at <= now
    /\ r.registered_at <= r.expires_at
    /\ r.parent_registered_at <= r.registered_at

TenureOrder ==
    \A n \in Names : Exists(n) =>
        /\ Tenured(rec[n])
        /\ rec[n].parent = ParentOf[n]
        /\ ~TopLevel(n) /\ Exists(ParentOf[n]) =>
              rec[n].parent_registered_at <= rec[ParentOf[n]].registered_at

\* A claim, by whomever, the lapsed owner included, cuts off the subdomains of
\* the lapsed registration: none that existed before belongs to the new one
\* (claim_expired resets registered_at to a time that no subdomain can have
\* captured: wrap_subdomain took it from a registration that had not expired).
Claims(n) ==
    \E w \in Wallets, y \in Terms, f \in Referrers \cup {Nil} : ClaimExpired(w, n, y, f)

CutsSubtree ==
    \A n, c \in Names :
        Claims(n) /\ Exists(c) /\ rec[c].parent = n => ~Linked(c)'

ClaimCutsSubtree == [][CutsSubtree]_namesVars

\* Whoever receives a name receives it without the previous owner's delegate
\* and reverse flag (transfer, sale, redemption and claim alike).
ClearsOnHandover ==
    \A n \in Names :
        Exists(n) /\ Exists(n)' /\ rec[n].owner # rec'[n].owner =>
            rec'[n].controller = Nil /\ ~rec'[n].reverse_set

HandoverClears == [][ClearsOnHandover]_namesVars

\* A keeper cannot drain a delegation: whenever it is charged, it is one
\* year's price for one name of that owner that was in its renewal window and
\* is out of it afterwards, whatever the price and the term are by then
\* (auto_renew, RENEWAL_WINDOW_SECONDS).
RenewsOnce ==
    \A w \in Wallets :
        allowance'[w] < allowance[w] /\ usdc'[w] < usdc[w] =>
            \E n \in Names :
                /\ Exists(n) /\ rec'[n].owner = w
                /\ allowance[w] - allowance'[w] = YearlyPrice(n)
                /\ now >= rec[n].expires_at - RenewalWindow
                /\ now < rec'[n].expires_at - RenewalWindow

AutoRenewOnce == [][RenewsOnce]_namesVars

\* Every year of every name is paid for: a step that registers a top-level name
\* or moves its expiry brings the vaults the price of exactly the years it
\* adds, or all of it but the referrer's share, or burns what that price is in
\* $SOLANS, whoever pays and on whichever path (register_name, renew_name,
\* auto_renew, claim_expired, distribute_fee, and the pay-in-$SOLANS pair).
YearsAdded(n) ==
    (rec'[n].expires_at - (IF Exists(n) THEN Later(rec[n].expires_at, now) ELSE now)) \div Year

VaultsGain == SumFunction([v \in Vaults |-> vault'[v] - vault[v]])

PaidInUsdc(fee) == VaultsGain \in {fee, fee - fee_split(config.params, fee).referral}

PaidInSolans(fee) ==
    /\ solans_enabled(config)
    /\ \E w \in Wallets :
          solans' = [solans EXCEPT ![w] = @ - solans_fee(config.solans, fee)]

PaysForYears ==
    \A n \in Names :
        /\ TopLevel(n) /\ Exists(n)'
        /\ Exists(n) => rec'[n].expires_at # rec[n].expires_at
        => LET fee == YearlyPrice(n) * YearsAdded(n)
           IN  fee > 0 /\ (PaidInUsdc(fee) \/ PaidInSolans(fee))

YearsPaidFor == [][PaysForYears]_namesVars

-----------------------------------------------------------------------------
(* What comments in the source say of the registry and the code does not     *)
(* keep.                                                                     *)

\* wrap_subdomain.rs: "Structural action on the parent - blocked while the
\* parent is tokenized (its `owner` is stale once the NFT trades)".  Whoever may
\* revoke a subdomain controls the parent.
RevokerControlsParent ==
    \A w \in Wallets, c \in Names :
        MayRevoke(w, c) => name_authority_ok(w, rec[rec[c].parent])
=============================================================================
