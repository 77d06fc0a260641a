--------------------------- MODULE CommandProofs ----------------------------
(***************************************************************************)
(* The theorems about the CLI's naming and trading commands, for every     *)
(* value of the constants: a transaction that lands later than it was      *)
(* built is an instruction of the registry or its marketplace, writes what *)
(* it declared, and costs a buyer no more than the price it read.          *)
(***************************************************************************)
EXTENDS Commands, StepProofs

-----------------------------------------------------------------------------
(* The changed accounts. *)

\* An account with its flag set is writable.
LEMMA WritableAt ==
    ASSUME NEW ix, NEW i \in DOMAIN ix.accounts, ix.accounts[i].writable
    PROVE  ix.accounts[i].address \in Writable(ix)
  BY DEF Writable, AccountAt

\* The changed accounts of the registry and the protocol, one kind at a time.
NamesChangedIn(D) ==
    /\ \A n \in Names : rec'[n] # rec[n] => findNameRecordPda(n) \in D
    /\ \A w \in Wallets : usdc'[w] # usdc[w] => ataFor(w, PAYMENT_MINT) \in D
    /\ \A w \in Wallets : allowance'[w] # allowance[w] => ataFor(w, PAYMENT_MINT) \in D
    /\ \A w \in Wallets : solans'[w] # solans[w] => ataFor(w, SOLANS_MINT) \in D
    /\ \A v \in Vaults : vault'[v] # vault[v] => VaultAddress(v) \in D
    /\ \A w \in Wallets : reverse'[w] # reverse[w] => findReverseRecordPda(w) \in D
    /\ \A m \in Mints : holder'[m] # holder[m] => Mint(m) \in D
    /\ config' # config => findConfigPda \in D

\* Those of the marketplace.
SalesChangedIn(D) ==
    /\ \A n \in Names : listing'[n] # listing[n] => findListing(n) \in D
    /\ \A n \in Names : auction'[n] # auction[n] => findAuction(n) \in D
    /\ \A n \in Names : bidVault'[n] # bidVault[n] => bidVaultOf(n) \in D
    /\ \A n \in Names, w \in Wallets : offer'[n][w] # offer[n][w] => findOffer(n, w) \in D
    /\ \A n \in Names, w \in Wallets : escrow'[n][w] # escrow[n][w] => findOffer(n, w) \in D
    /\ \A w \in Wallets : sol'[w] # sol[w] => w \in D

\* Together they are all the accounts a step can change.
LEMMA ChangedIn ==
    ASSUME NEW D, NamesChangedIn(D), SalesChangedIn(D)
    PROVE  Changed \subseteq D
  <1> SUFFICES ASSUME NEW x \in Changed PROVE x \in D
    OBVIOUS
  <1>1. \/ \E n \in Names : rec'[n] # rec[n] /\ x = findNameRecordPda(n)
        \/ \E n \in Names : listing'[n] # listing[n] /\ x = findListing(n)
        \/ \E n \in Names : auction'[n] # auction[n] /\ x = findAuction(n)
        \/ \E n \in Names : bidVault'[n] # bidVault[n] /\ x = bidVaultOf(n)
        \/ \E q \in Names \X Wallets :
              /\ offer'[q[1]][q[2]] # offer[q[1]][q[2]] \/ escrow'[q[1]][q[2]] # escrow[q[1]][q[2]]
              /\ x = findOffer(q[1], q[2])
        \/ \E w \in Wallets : sol'[w] # sol[w] /\ x = w
        \/ \E w \in Wallets : /\ usdc'[w] # usdc[w] \/ allowance'[w] # allowance[w]
                              /\ x = ataFor(w, PAYMENT_MINT)
        \/ \E w \in Wallets : solans'[w] # solans[w] /\ x = ataFor(w, SOLANS_MINT)
        \/ \E v \in Vaults : vault'[v] # vault[v] /\ x = VaultAddress(v)
        \/ \E w \in Wallets : reverse'[w] # reverse[w] /\ x = findReverseRecordPda(w)
        \/ \E m \in Mints : holder'[m] # holder[m] /\ x = Mint(m)
        \/ config' # config /\ x = findConfigPda
    BY DEF Changed
  <1>2. ASSUME NEW q \in Names \X Wallets,
               offer'[q[1]][q[2]] # offer[q[1]][q[2]] \/ escrow'[q[1]][q[2]] # escrow[q[1]][q[2]]
        PROVE  findOffer(q[1], q[2]) \in D
    <2>1. q[1] \in Names /\ q[2] \in Wallets
      OBVIOUS
    <2> QED BY <1>2, <2>1 DEF SalesChangedIn
  <1> QED BY <1>1, <1>2 DEF NamesChangedIn, SalesChangedIn

\* No sale account changes.
LEMMA SalesStill ==
    ASSUME NEW D, UNCHANGED marketVars
    PROVE  SalesChangedIn(D)
  BY DEF SalesChangedIn, marketVars

\* Nothing of the registry changes.
LEMMA NamesStill ==
    ASSUME NEW D, UNCHANGED namesVars
    PROVE  NamesChangedIn(D)
  BY DEF NamesChangedIn, namesVars, registryVars, moneyVars

\* One record changes.
LEMMA RecordIn ==
    ASSUME NEW D, NamesTypeOK, NEW n \in Names, NEW r, Put(n, r), OnlyRecord,
           findNameRecordPda(n) \in D
    PROVE  NamesChangedIn(D)
  BY DEF NamesChangedIn, Put, OnlyRecord, moneyVars, NamesTypeOK

\* The accounts of a fee, as Config names them now.
FeeAccountsIn(D) ==
    /\ VaultAddress("treasury") \in D
    /\ VaultAddress(config.staking_vault) \in D /\ VaultAddress(config.burn_vault) \in D

\* A fee changes the payer's account, the referrer's and the three vaults.
LEMMA FeeIn ==
    ASSUME NEW D, NamesTypeOK, NEW n \in Names, NEW r, Put(n, r),
           NEW payer \in Wallets, NEW f, NEW x, DistributeFee(payer, f, x),
           findNameRecordPda(n) \in D, ataFor(payer, PAYMENT_MINT) \in D, FeeAccountsIn(D),
           f # Nil => ataFor(f, PAYMENT_MINT) \in D,
           UNCHANGED reverse,
           \A m \in Mints : holder'[m] # holder[m] => Mint(m) \in D,
           \A w \in Wallets : allowance'[w] # allowance[w] => ataFor(w, PAYMENT_MINT) \in D
    PROVE  NamesChangedIn(D)
  <1>1. \A k \in Names : rec'[k] # rec[k] => findNameRecordPda(k) \in D
    BY DEF Put, NamesTypeOK
  <1>2. config' = config /\ solans' = solans
    BY DEF DistributeFee
  <1>3. \A w \in Wallets : usdc'[w] # usdc[w] => ataFor(w, PAYMENT_MINT) \in D
    <2>1. SUFFICES ASSUME NEW w \in Wallets, w # payer, f = Nil \/ w # f PROVE usdc'[w] = usdc[w]
      OBVIOUS
    <2>2. usdc[w] \in Nat
      BY DEF NamesTypeOK, MoneyTypeOK
    <2>3. CASE w # f
      BY <2>1, <2>2, <2>3 DEF DistributeFee
    <2>4. CASE w = f
      BY <2>1, <2>2, <2>4 DEF DistributeFee
    <2> QED BY <2>3, <2>4
  <1>4. \A v \in Vaults : vault'[v] # vault[v] => VaultAddress(v) \in D
    <2>1. ASSUME NEW v \in Vaults, v # config.staking_vault, v # config.burn_vault, v # "treasury"
          PROVE  vault'[v] = vault[v]
      BY <2>1 DEF DistributeFee, NamesTypeOK, MoneyTypeOK
    <2> QED BY <2>1 DEF FeeAccountsIn
  <1> QED BY <1>1, <1>2, <1>3, <1>4 DEF NamesChangedIn

\* Burning $SOLANS changes the payer's account.
LEMMA BurnIn ==
    ASSUME NEW D, NamesTypeOK, NEW n \in Names, NEW r, Put(n, r),
           NEW payer \in Wallets, NEW x, BurnSolans(payer, x),
           findNameRecordPda(n) \in D, ataFor(payer, SOLANS_MINT) \in D,
           UNCHANGED <<reverse, allowance>>,
           \A m \in Mints : holder'[m] # holder[m] => Mint(m) \in D
    PROVE  NamesChangedIn(D)
  <1>1. solans \in [Wallets -> Nat] /\ rec \in [Names -> NameRecord \cup {Nil}]
    BY DEF NamesTypeOK, MoneyTypeOK
  <1> QED BY <1>1 DEF NamesChangedIn, Put, BurnSolans

-----------------------------------------------------------------------------
(* What the program runs for an instruction, by its name. *)

\* Instructions of the marketplace.
SaleNames == {"list_name", "update_listing", "cancel_listing", "buy_name", "make_offer",
              "cancel_offer", "accept_offer", "start_auction", "bid", "settle_auction",
              "cancel_auction"}

\* An instruction that is none of the marketplace's is one of the registry's.
LEMMA RunsNames ==
    ASSUME NEW ix, Run(ix), ix.name \notin SaleNames
    PROVE  RunNames(ix) /\ UNCHANGED marketVars
  BY DEF Run, RunSale, RunAuction, SaleNames

\* The instructions of the marketplace run its handlers.
LEMMA RunsSales ==
    ASSUME NEW ix, Run(ix), ix.name \in SaleNames
    PROVE  RunSale(ix) \/ RunAuction(ix)
  BY DEF Run, RunNames, RunLifecycle, RunManagement, RunSubdomain, SaleNames

\* What a naming command that lands leaves behind: a step of the registry that
\* changed accounts of D.
NamesLanded(D) == NamesNext /\ UNCHANGED marketVars /\ NamesChangedIn(D)

\* The instructions that edit or close a record, as a command of w builds them;
\* a is the token account given as the proof of holding the NFT.
EditIx(w, n, a, ix) ==
    \/ \E v \in Wallets : ix = getTransferNameInstruction(w, findNameRecordPda(n), v)
    \/ \E l \in BOOLEAN : ix = getLockTransferInstruction(w, findNameRecordPda(n), l)
    \/ \E c \in Controllers \cup {Nil} :
          ix = getSetControllerInstruction(w, findNameRecordPda(n), c)
    \/ \E r \in Resolvers \cup {Nil} :
          ix = getSetResolverInstruction(w, findNameRecordPda(n), a, r)
    \/ \E h \in Hosts \cup {Nil} : ix = getSetHostingInstruction(w, findNameRecordPda(n), a, h)
    \/ \E k \in Keys, v \in Values \cup {Nil} :
          ix = getUpdateRecordInstruction(w, findNameRecordPda(n), a, k, v)
    \/ ix = getBurnNameInstruction(w, findNameRecordPda(n))

\* They name the signer and the record.
SignerAndRecord(w, n, ix) ==
    /\ AccountAt(ix, 1) = w /\ NameAt(ix, 2) = n
    /\ findNameRecordPda(n) \in Writable(ix)

\* An instruction that lists the signer first and the record, writable, second
\* does so.
LEMMA RecordSecond ==
    ASSUME NEW w, NEW n, NEW ix, ix.accounts[1].address = w, 2 \in DOMAIN ix.accounts,
           ix.accounts[2].writable = TRUE, ix.accounts[2].address = findNameRecordPda(n)
    PROVE  SignerAndRecord(w, n, ix)
  <1>1. findNameRecordPda(n) \in Writable(ix)
    BY WritableAt
  <1> QED BY <1>1 DEF SignerAndRecord, AccountAt, NameAt, findNameRecordPda

\* transfer_name, lock_transfer, set_controller, set_resolver, set_hosting,
\* update_record and burn_name.
LEMMA LandEdit ==
    ASSUME NEW D, NamesTypeOK, NEW w \in Wallets, NEW n \in Names, NEW a, NEW ix,
           EditIx(w, n, a, ix), Run(ix), Writable(ix) \subseteq D
    PROVE  NamesLanded(D)
  <1> DEFINE pda == findNameRecordPda(n)
  <1>0. ASSUME Management \/ Lifecycle, UNCHANGED marketVars, SignerAndRecord(w, n, ix),
               \E r : Put(n, r), OnlyRecord
        PROVE  NamesLanded(D)
    BY <1>0, RecordIn DEF NamesLanded, NamesNext, SignerAndRecord
  <1>1. ASSUME NEW v \in Wallets, ix = getTransferNameInstruction(w, pda, v) PROVE NamesLanded(D)
    <2>1. /\ ix.name = "transfer_name" /\ ix.data.newOwner = v /\ ix.accounts[1].address = w
          /\ 2 \in DOMAIN ix.accounts /\ ix.accounts[2].writable = TRUE
          /\ ix.accounts[2].address = pda
      BY <1>1 DEF getTransferNameInstruction, Instruction, S, W, Meta
    <2>2. SignerAndRecord(w, n, ix)
      BY <2>1, RecordSecond
    <2>3. TransferName(w, n, v) /\ UNCHANGED marketVars
      BY <2>1, <2>2, RunsNames
         DEF SaleNames, RunNames, RunLifecycle, RunManagement, RunSubdomain, SignerAndRecord
    <2> QED BY <1>0, <2>2, <2>3 DEF TransferName, Management
  <1>2. ASSUME NEW l \in BOOLEAN, ix = getLockTransferInstruction(w, pda, l) PROVE NamesLanded(D)
    <2>1. /\ ix.name = "lock_transfer" /\ ix.data.lock = l /\ ix.accounts[1].address = w
          /\ 2 \in DOMAIN ix.accounts /\ ix.accounts[2].writable = TRUE
          /\ ix.accounts[2].address = pda
      BY <1>2 DEF getLockTransferInstruction, Instruction, S, W, Meta
    <2>2. SignerAndRecord(w, n, ix)
      BY <2>1, RecordSecond
    <2>3. LockTransfer(w, n, l) /\ UNCHANGED marketVars
      BY <2>1, <2>2, RunsNames
         DEF SaleNames, RunNames, RunLifecycle, RunManagement, RunSubdomain, SignerAndRecord
    <2> QED BY <1>0, <2>2, <2>3 DEF LockTransfer, Management
  <1>3. ASSUME NEW c \in Controllers \cup {Nil}, ix = getSetControllerInstruction(w, pda, c) PROVE NamesLanded(D)
    <2>1. /\ ix.name = "set_controller" /\ ix.data.controller = c /\ ix.accounts[1].address = w
          /\ 2 \in DOMAIN ix.accounts /\ ix.accounts[2].writable = TRUE
          /\ ix.accounts[2].address = pda
      BY <1>3 DEF getSetControllerInstruction, Instruction, S, W, Meta
    <2>2. SignerAndRecord(w, n, ix)
      BY <2>1, RecordSecond
    <2>3. SetController(w, n, c) /\ UNCHANGED marketVars
      BY <2>1, <2>2, RunsNames
         DEF SaleNames, RunNames, RunLifecycle, RunManagement, RunSubdomain, SignerAndRecord
    <2> QED BY <1>0, <2>2, <2>3 DEF SetController, Management
  <1>4. ASSUME NEW r \in Resolvers \cup {Nil}, ix = getSetResolverInstruction(w, pda, a, r) PROVE NamesLanded(D)
    <2>1. /\ ix.name = "set_resolver" /\ ix.data.resolver = r /\ ix.accounts[1].address = w
          /\ 2 \in DOMAIN ix.accounts /\ ix.accounts[2].writable = TRUE
          /\ ix.accounts[2].address = pda
      BY <1>4 DEF getSetResolverInstruction, Instruction, S, W, Meta
    <2>2. SignerAndRecord(w, n, ix)
      BY <2>1, RecordSecond
    <2>3. SetResolver(w, n, r) /\ UNCHANGED marketVars
      BY <2>1, <2>2, RunsNames
         DEF SaleNames, RunNames, RunLifecycle, RunManagement, RunSubdomain, SignerAndRecord
    <2> QED BY <1>0, <2>2, <2>3 DEF SetResolver, Management
  <1>5. ASSUME NEW h \in Hosts \cup {Nil}, ix = getSetHostingInstruction(w, pda, a, h) PROVE NamesLanded(D)
    <2>1. /\ ix.name = "set_hosting" /\ ix.data.hostingRef = h /\ ix.accounts[1].address = w
          /\ 2 \in DOMAIN ix.accounts /\ ix.accounts[2].writable = TRUE
          /\ ix.accounts[2].address = pda
      BY <1>5 DEF getSetHostingInstruction, Instruction, S, W, Meta
    <2>2. SignerAndRecord(w, n, ix)
      BY <2>1, RecordSecond
    <2>3. SetHosting(w, n, h) /\ UNCHANGED marketVars
      BY <2>1, <2>2, RunsNames
         DEF SaleNames, RunNames, RunLifecycle, RunManagement, RunSubdomain, SignerAndRecord
    <2> QED BY <1>0, <2>2, <2>3 DEF SetHosting, Management
  <1>6. ASSUME NEW k \in Keys, NEW v \in Values \cup {Nil},
               ix = getUpdateRecordInstruction(w, pda, a, k, v)
        PROVE  NamesLanded(D)
    <2>1. /\ ix.name = "update_record" /\ ix.data.key = k /\ ix.data.value = v
          /\ ix.accounts[1].address = w
          /\ 2 \in DOMAIN ix.accounts /\ ix.accounts[2].writable = TRUE
          /\ ix.accounts[2].address = pda
      BY <1>6 DEF getUpdateRecordInstruction, Instruction, S, W, Meta
    <2>2. SignerAndRecord(w, n, ix)
      BY <2>1, RecordSecond
    <2>3. UpdateRecord(w, n, k, v) /\ UNCHANGED marketVars
      BY <2>1, <2>2, RunsNames
         DEF SaleNames, RunNames, RunLifecycle, RunManagement, RunSubdomain, SignerAndRecord
    <2> QED BY <1>0, <2>2, <2>3 DEF UpdateRecord, Management
  <1>7. ASSUME ix = getBurnNameInstruction(w, pda) PROVE NamesLanded(D)
    <2>1. /\ ix.name = "burn_name" /\ ix.accounts[1].address = w
          /\ 2 \in DOMAIN ix.accounts /\ ix.accounts[2].writable = TRUE
          /\ ix.accounts[2].address = pda
      BY <1>7 DEF getBurnNameInstruction, Instruction, WS, W, Meta
    <2>2. SignerAndRecord(w, n, ix)
      BY <2>1, RecordSecond
    <2>3. BurnName(w, n) /\ UNCHANGED marketVars
      BY <2>1, <2>2, RunsNames
         DEF SaleNames, RunNames, RunLifecycle, RunManagement, RunSubdomain, SignerAndRecord
    <2> QED BY <1>0, <2>2, <2>3 DEF BurnName, Lifecycle
  <1> QED BY <1>1, <1>2, <1>3, <1>4, <1>5, <1>6, <1>7 DEF EditIx

\* set_reverse and the instructions on name NFTs.
NftIx(w, n, ix) ==
    \/ ix = getSetReverseInstruction(w, findNameRecordPda(n), n)
    \/ \E m \in Mints : ix = getTokenizeNameInstruction(w, findNameRecordPda(n), m, n)
    \/ \E m \in Mints :
          ix = getRedeemNameInstruction(w, findNameRecordPda(n), m, ataFor(w, Mint(m)))

\* tokenize_name names the signer, the record and the mint it creates.
LEMMA TokenizeAccounts ==
    ASSUME NEW w, NEW n, NEW m, NEW ix,
           ix = getTokenizeNameInstruction(w, findNameRecordPda(n), m, n)
    PROVE  /\ ix.name = "tokenize_name" /\ ix.data.mint = m
           /\ SignerAndRecord(w, n, ix) /\ Mint(m) \in Writable(ix)
  <1>1. /\ ix.name = "tokenize_name" /\ ix.data.mint = m /\ ix.accounts[1].address = w
        /\ {2, 3} \subseteq DOMAIN ix.accounts /\ ix.accounts[2].writable = TRUE
        /\ ix.accounts[2].address = findNameRecordPda(n)
        /\ ix.accounts[3].writable = TRUE /\ ix.accounts[3].address = Mint(m)
    BY DEF getTokenizeNameInstruction, Instruction, WS, W, R, Meta
  <1> QED BY <1>1, RecordSecond, WritableAt

\* set_reverse, tokenize_name and redeem_name are steps of the registry that
\* write the record, the mint and the reverse record they list.
LEMMA LandNft ==
    ASSUME NEW D, NamesTypeOK, NEW w \in Wallets, NEW n \in Names, NEW ix,
           NftIx(w, n, ix), Run(ix), Writable(ix) \subseteq D
    PROVE  NamesLanded(D)
  <1> DEFINE pda == findNameRecordPda(n)
  <1>0. /\ rec \in [Names -> NameRecord \cup {Nil}] /\ DOMAIN holder = Mints
        /\ DOMAIN reverse = Wallets
    BY DEF NamesTypeOK
  <1>1. ASSUME ix = getSetReverseInstruction(w, pda, n) PROVE NamesLanded(D)
    <2>1. /\ ix.name = "set_reverse" /\ ix.accounts[1].address = w
          /\ {2, 3} \subseteq DOMAIN ix.accounts /\ ix.accounts[2].writable = TRUE
          /\ ix.accounts[2].address = pda
          /\ ix.accounts[3].writable = TRUE /\ ix.accounts[3].address = findReverseRecordPda(w)
      BY <1>1 DEF getSetReverseInstruction, Instruction, WS, W, R, Meta
    <2>2. SignerAndRecord(w, n, ix) /\ findReverseRecordPda(w) \in D
      BY <2>1, RecordSecond, WritableAt
    <2>3. SetReverse(w, n) /\ UNCHANGED marketVars
      BY <2>1, <2>2, RunsNames
         DEF SaleNames, RunNames, RunLifecycle, RunManagement, RunSubdomain, SignerAndRecord
    <2>4. NamesChangedIn(D)
      BY <1>0, <2>2, <2>3 DEF SetReverse, NamesChangedIn, SignerAndRecord, Put, moneyVars
    <2> QED BY <2>3, <2>4 DEF NamesLanded, NamesNext, Management
  <1>2. ASSUME NEW m \in Mints, ix = getTokenizeNameInstruction(w, pda, m, n)
        PROVE  NamesLanded(D)
    <2>1. /\ ix.name = "tokenize_name" /\ ix.data.mint = m
          /\ SignerAndRecord(w, n, ix) /\ Mint(m) \in D
      BY <1>2, TokenizeAccounts
    <2>2. TokenizeName(w, n, m) /\ UNCHANGED marketVars
      BY <2>1, RunsNames
         DEF SaleNames, RunNames, RunLifecycle, RunManagement, RunSubdomain, SignerAndRecord
    <2>3. NamesChangedIn(D)
      BY <1>0, <2>1, <2>2 DEF TokenizeName, NamesChangedIn, SignerAndRecord, Put, moneyVars
    <2> QED BY <2>2, <2>3 DEF NamesLanded, NamesNext, Management
  <1>3. ASSUME NEW m \in Mints, ix = getRedeemNameInstruction(w, pda, m, ataFor(w, Mint(m)))
        PROVE  NamesLanded(D)
    <2>1. /\ ix.name = "redeem_name" /\ ix.data.mint = m /\ ix.accounts[1].address = w
          /\ {2, 3} \subseteq DOMAIN ix.accounts /\ ix.accounts[2].writable = TRUE
          /\ ix.accounts[2].address = pda
          /\ ix.accounts[3].writable = TRUE /\ ix.accounts[3].address = Mint(m)
      BY <1>3 DEF getRedeemNameInstruction, Instruction, WS, W, R, Meta
    <2>2. SignerAndRecord(w, n, ix) /\ Mint(m) \in D
      BY <2>1, RecordSecond, WritableAt
    <2>3. RedeemName(w, n) /\ rec[n].nft_mint = m /\ UNCHANGED marketVars
      BY <2>1, <2>2, RunsNames
         DEF SaleNames, RunNames, RunLifecycle, RunManagement, RunSubdomain, SignerAndRecord
    <2>4. NamesChangedIn(D)
      BY <1>0, <2>2, <2>3 DEF RedeemName, NamesChangedIn, SignerAndRecord, Put, moneyVars
    <2> QED BY <2>3, <2>4 DEF NamesLanded, NamesNext, Management
  <1> QED BY <1>1, <1>2, <1>3 DEF NftIx

\* wrap_subdomain and revoke_subdomain.
SubdomainIx(w, n, ix) ==
    \E c \in Names :
        \/ \E o \in Wallets : ix = getWrapSubdomainInstruction(w, o, findNameRecordPda(n), c)
        \/ ix = getRevokeSubdomainInstruction(w, findNameRecordPda(n), findNameRecordPda(c))

\* They are steps of the registry that write the subdomain's record only.
LEMMA LandSubdomain ==
    ASSUME NEW D, NamesTypeOK, NEW w \in Wallets, NEW n \in Names, NEW ix,
           SubdomainIx(w, n, ix), Run(ix), Writable(ix) \subseteq D
    PROVE  NamesLanded(D)
  <1>1. ASSUME NEW c \in Names, NEW o \in Wallets,
               ix = getWrapSubdomainInstruction(w, o, findNameRecordPda(n), c)
        PROVE  NamesLanded(D)
    <2>1. /\ ix.name = "wrap_subdomain" /\ ix.accounts[1].address = w
          /\ ix.accounts[2].address = o /\ ix.accounts[3].address = findNameRecordPda(n)
          /\ 4 \in DOMAIN ix.accounts /\ ix.accounts[4].writable = TRUE
          /\ ix.accounts[4].address = findNameRecordPda(c)
      BY <1>1 DEF getWrapSubdomainInstruction, Instruction, WS, W, R, Meta
    <2>2. /\ AccountAt(ix, 1) = w /\ AccountAt(ix, 2) = o /\ NameAt(ix, 3) = n
          /\ NameAt(ix, 4) = c
      BY <2>1 DEF AccountAt, NameAt, findNameRecordPda
    <2>3. WrapSubdomain(w, n, c, o) /\ UNCHANGED marketVars
      BY <2>1, <2>2, RunsNames
         DEF SaleNames, RunNames, RunLifecycle, RunManagement, RunSubdomain
    <2>4. NamesChangedIn(D)
      BY <2>1, <2>3, WritableAt, RecordIn DEF WrapSubdomain
    <2> QED BY <2>3, <2>4 DEF NamesLanded, NamesNext, Management
  <1>2. ASSUME NEW c \in Names,
               ix = getRevokeSubdomainInstruction(w, findNameRecordPda(n), findNameRecordPda(c))
        PROVE  NamesLanded(D)
    <2>1. /\ ix.name = "revoke_subdomain" /\ ix.accounts[1].address = w
          /\ 3 \in DOMAIN ix.accounts /\ ix.accounts[3].writable = TRUE
          /\ ix.accounts[3].address = findNameRecordPda(c)
      BY <1>2 DEF getRevokeSubdomainInstruction, Instruction, WS, W, R, Meta
    <2>2. AccountAt(ix, 1) = w /\ NameAt(ix, 3) = c
      BY <2>1 DEF AccountAt, NameAt, findNameRecordPda
    <2>3. RevokeSubdomain(w, c) /\ UNCHANGED marketVars
      BY <2>1, <2>2, RunsNames
         DEF SaleNames, RunNames, RunLifecycle, RunManagement, RunSubdomain
    <2>4. NamesChangedIn(D)
      BY <2>1, <2>3, WritableAt, RecordIn DEF RevokeSubdomain
    <2> QED BY <2>3, <2>4 DEF NamesLanded, NamesNext, Management
  <1> QED BY <1>1, <1>2 DEF SubdomainIx

\* spl-token approve and revoke.
LEMMA LandApprove ==
    ASSUME NEW D, NamesTypeOK, NEW w \in Wallets, NEW x, NEW ix,
           ix = getApproveInstruction(w, x), Run(ix), Writable(ix) \subseteq D
    PROVE  Approve(w, x) /\ UNCHANGED marketVars /\ NamesChangedIn(D)
  <1>1. /\ ix.name = "approve" /\ ix.data.amount = x /\ ix.accounts[3].address = w
        /\ 1 \in DOMAIN ix.accounts /\ ix.accounts[1].writable = TRUE
        /\ ix.accounts[1].address = ataFor(w, PAYMENT_MINT)
    BY DEF getApproveInstruction, Instruction, S, W, R, Meta
  <1>2. Approve(w, x) /\ UNCHANGED marketVars
    BY <1>1, RunsNames
       DEF SaleNames, RunNames, RunLifecycle, RunManagement, RunSubdomain, AccountAt
  <1>3. ataFor(w, PAYMENT_MINT) \in D /\ DOMAIN allowance = Wallets
    BY <1>1, WritableAt DEF NamesTypeOK
  <1> QED BY <1>2, <1>3 DEF Approve, NamesChangedIn, moneyVars

-----------------------------------------------------------------------------
(* The instructions that are paid for. *)

\* The optional account of a referrer.
LEMMA ReferralAt ==
    ASSUME NEW f, NEW ix, NEW i \in DOMAIN ix.accounts,
           ix.accounts[i] = OptW(ReferralAccount(f))
    PROVE  /\ ReferrerAt(ix, i) = f
           /\ f # Nil => ataFor(f, PAYMENT_MINT) \in Writable(ix)
  <1>1. CASE f = Nil
    <2>1. AccountAt(ix, i) = SOLANS_PROGRAM_ADDRESS
      BY <1>1 DEF ReferralAccount, OptW, R, Meta, AccountAt
    <2> QED BY <1>1, <2>1 DEF ReferrerAt, Given
  <1>2. CASE f # Nil
    <2>1. ReferralAccount(f) = ataFor(f, PAYMENT_MINT)
      BY <1>2 DEF ReferralAccount
    <2>2. ataFor(f, PAYMENT_MINT) # Absent /\ ataFor(f, PAYMENT_MINT) # SOLANS_PROGRAM_ADDRESS
          /\ ataFor(f, PAYMENT_MINT)[2] = f
      BY DEF ataFor, Absent, SOLANS_PROGRAM_ADDRESS
    <2>3. ix.accounts[i] = W(ataFor(f, PAYMENT_MINT))
      BY <2>1, <2>2 DEF OptW
    <2>4. ix.accounts[i].address = ataFor(f, PAYMENT_MINT) /\ ix.accounts[i].writable = TRUE
      BY <2>3 DEF W, Meta
    <2> QED BY <2>2, <2>4, WritableAt DEF ReferrerAt, Given, OwnerAt, AccountAt
  <1> QED BY <1>1, <1>2

\* Fee accounts that are declared writable and match Config.
LEMMA FeesDeclared ==
    ASSUME NEW D, NEW ix, Writable(ix) \subseteq D, NEW i \in Nat, FeeAccountsMatch(ix, i),
           NEW j, NEW k, j = i + 1, k = i + 2,
           i \in DOMAIN ix.accounts, j \in DOMAIN ix.accounts, k \in DOMAIN ix.accounts,
           ix.accounts[i].writable = TRUE, ix.accounts[j].writable = TRUE,
           ix.accounts[k].writable = TRUE
    PROVE  FeeAccountsIn(D)
  <1>1. AccountAt(ix, i) \in D /\ AccountAt(ix, j) \in D /\ AccountAt(ix, k) \in D
    BY WritableAt DEF AccountAt
  <1> QED BY <1>1 DEF FeeAccountsMatch, FeeAccounts, FeeAccountsOf, FeeAccountsIn

\* register_name and the accounts it names; c holds the fee accounts read.
LEMMA RegisterAccounts ==
    ASSUME NEW w, NEW n, NEW o, NEW c, NEW f, NEW y, NEW ix,
           ix = getRegisterNameInstruction(w, o, c, ReferralAccount(f), n, y)
    PROVE  /\ ix.name = "register_name" /\ ix.data.name = n /\ ix.data.years = y
           /\ AccountAt(ix, 1) = w /\ AccountAt(ix, 2) = o /\ ReferrerAt(ix, 9) = f
           /\ findNameRecordPda(n) \in Writable(ix) /\ ataFor(w, PAYMENT_MINT) \in Writable(ix)
           /\ f # Nil => ataFor(f, PAYMENT_MINT) \in Writable(ix)
           /\ FeeAccountsMatch(ix, 6) => FeeAccountsIn(Writable(ix))
  <1>1. /\ ix.name = "register_name" /\ ix.data.name = n /\ ix.data.years = y
        /\ ix.accounts[1].address = w /\ ix.accounts[2].address = o
        /\ {4, 5, 6, 7, 8, 9} \subseteq DOMAIN ix.accounts
        /\ ix.accounts[4].writable = TRUE /\ ix.accounts[4].address = findNameRecordPda(n)
        /\ ix.accounts[5].writable = TRUE /\ ix.accounts[5].address = ataFor(w, PAYMENT_MINT)
        /\ ix.accounts[6].writable = TRUE /\ ix.accounts[7].writable = TRUE
        /\ ix.accounts[8].writable = TRUE
        /\ ix.accounts[9] = OptW(ReferralAccount(f))
    BY DEF getRegisterNameInstruction, Instruction, WS, W, R, Meta
  <1>2. findNameRecordPda(n) \in Writable(ix) /\ ataFor(w, PAYMENT_MINT) \in Writable(ix)
    BY <1>1, WritableAt
  <1>3. ReferrerAt(ix, 9) = f /\ (f # Nil => ataFor(f, PAYMENT_MINT) \in Writable(ix))
    <2>1. 9 \in DOMAIN ix.accounts
      BY <1>1
    <2> QED BY <1>1, <2>1, ReferralAt
  <1>4. FeeAccountsMatch(ix, 6) => FeeAccountsIn(Writable(ix))
    <2>1. 7 = 6 + 1 /\ 8 = 6 + 2 /\ 6 \in Nat
      OBVIOUS
    <2>2. /\ 6 \in DOMAIN ix.accounts /\ 7 \in DOMAIN ix.accounts /\ 8 \in DOMAIN ix.accounts
          /\ ix.accounts[6].writable = TRUE /\ ix.accounts[7].writable = TRUE
          /\ ix.accounts[8].writable = TRUE
      BY <1>1
    <2> QED BY <2>1, <2>2, FeesDeclared
  <1> QED BY <1>1, <1>2, <1>3, <1>4 DEF AccountAt

\* renew_name and claim_expired.
RenewIx(w, n, c, f, y, ix) ==
    \/ ix = getRenewNameInstruction(w, findNameRecordPda(n), c, ReferralAccount(f), n, y)
    \/ ix = getClaimExpiredInstruction(w, findNameRecordPda(n), c, ReferralAccount(f), n, y)

\* They list the payer's token account, the referrer's and the fee accounts
\* that the program compares with Config.
LEMMA RenewAccounts ==
    ASSUME NEW w, NEW n, NEW c, NEW f, NEW y, NEW ix, RenewIx(w, n, c, f, y, ix)
    PROVE  /\ ix.data.name = n /\ ix.data.years = y
           /\ AccountAt(ix, 1) = w /\ ReferrerAt(ix, 8) = f
           /\ findNameRecordPda(n) \in Writable(ix) /\ ataFor(w, PAYMENT_MINT) \in Writable(ix)
           /\ f # Nil => ataFor(f, PAYMENT_MINT) \in Writable(ix)
           /\ FeeAccountsMatch(ix, 5) => FeeAccountsIn(Writable(ix))
  <1> DEFINE Good ==
        /\ ix.data.name = n /\ ix.data.years = y /\ ix.accounts[1].address = w
        /\ {3, 4, 5, 6, 7, 8} \subseteq DOMAIN ix.accounts
        /\ ix.accounts[3].writable = TRUE /\ ix.accounts[3].address = findNameRecordPda(n)
        /\ ix.accounts[4].writable = TRUE /\ ix.accounts[4].address = ataFor(w, PAYMENT_MINT)
        /\ ix.accounts[5].writable = TRUE /\ ix.accounts[6].writable = TRUE
        /\ ix.accounts[7].writable = TRUE
        /\ ix.accounts[8] = OptW(ReferralAccount(f))
  <1>1. CASE ix = getRenewNameInstruction(w, findNameRecordPda(n), c, ReferralAccount(f), n, y)
    <2>1. Good
      BY <1>1 DEF getRenewNameInstruction, Instruction, WS, W, R, Meta
    <2>2. findNameRecordPda(n) \in Writable(ix) /\ ataFor(w, PAYMENT_MINT) \in Writable(ix)
      BY <2>1, WritableAt
    <2>3. ReferrerAt(ix, 8) = f /\ (f # Nil => ataFor(f, PAYMENT_MINT) \in Writable(ix))
      <3>1. 8 \in DOMAIN ix.accounts
        BY <2>1
      <3> QED BY <2>1, <3>1, ReferralAt
    <2>4. FeeAccountsMatch(ix, 5) => FeeAccountsIn(Writable(ix))
      <3>1. 6 = 5 + 1 /\ 7 = 5 + 2 /\ 5 \in Nat
        OBVIOUS
      <3>2. /\ 5 \in DOMAIN ix.accounts /\ 6 \in DOMAIN ix.accounts /\ 7 \in DOMAIN ix.accounts
            /\ ix.accounts[5].writable = TRUE /\ ix.accounts[6].writable = TRUE
            /\ ix.accounts[7].writable = TRUE
        BY <2>1
      <3> QED BY <3>1, <3>2, FeesDeclared
    <2> QED BY <2>1, <2>2, <2>3, <2>4 DEF AccountAt
  <1>2. CASE ix = getClaimExpiredInstruction(w, findNameRecordPda(n), c, ReferralAccount(f), n, y)
    <2>1. Good
      BY <1>2 DEF getClaimExpiredInstruction, Instruction, WS, W, R, Meta
    <2>2. findNameRecordPda(n) \in Writable(ix) /\ ataFor(w, PAYMENT_MINT) \in Writable(ix)
      BY <2>1, WritableAt
    <2>3. ReferrerAt(ix, 8) = f /\ (f # Nil => ataFor(f, PAYMENT_MINT) \in Writable(ix))
      <3>1. 8 \in DOMAIN ix.accounts
        BY <2>1
      <3> QED BY <2>1, <3>1, ReferralAt
    <2>4. FeeAccountsMatch(ix, 5) => FeeAccountsIn(Writable(ix))
      <3>1. 6 = 5 + 1 /\ 7 = 5 + 2 /\ 5 \in Nat
        OBVIOUS
      <3>2. /\ 5 \in DOMAIN ix.accounts /\ 6 \in DOMAIN ix.accounts /\ 7 \in DOMAIN ix.accounts
            /\ ix.accounts[5].writable = TRUE /\ ix.accounts[6].writable = TRUE
            /\ ix.accounts[7].writable = TRUE
        BY <2>1
      <3> QED BY <3>1, <3>2, FeesDeclared
    <2> QED BY <2>1, <2>2, <2>3, <2>4 DEF AccountAt
  <1> QED BY <1>1, <1>2 DEF RenewIx

\* auto_renew; o is the owner whose account it charges.
LEMMA AutoRenewAccounts ==
    ASSUME NEW w, NEW n, NEW c, NEW o, NEW ix,
           ix = getAutoRenewInstruction(w, findNameRecordPda(n), ataFor(o, PAYMENT_MINT), c, n, 1)
    PROVE  /\ ix.name = "auto_renew" /\ ix.data.name = n /\ OwnerAt(ix, 4) = o
           /\ findNameRecordPda(n) \in Writable(ix) /\ ataFor(o, PAYMENT_MINT) \in Writable(ix)
           /\ FeeAccountsMatch(ix, 5) => FeeAccountsIn(Writable(ix))
  <1>1. /\ ix.name = "auto_renew" /\ ix.data.name = n
        /\ {3, 4, 5, 6, 7} \subseteq DOMAIN ix.accounts
        /\ ix.accounts[3].writable = TRUE /\ ix.accounts[3].address = findNameRecordPda(n)
        /\ ix.accounts[4].writable = TRUE /\ ix.accounts[4].address = ataFor(o, PAYMENT_MINT)
        /\ ix.accounts[5].writable = TRUE /\ ix.accounts[6].writable = TRUE
        /\ ix.accounts[7].writable = TRUE
    BY DEF getAutoRenewInstruction, Instruction, WS, W, R, Meta
  <1>2. findNameRecordPda(n) \in Writable(ix) /\ ataFor(o, PAYMENT_MINT) \in Writable(ix)
    BY <1>1, WritableAt
  <1>3. FeeAccountsMatch(ix, 5) => FeeAccountsIn(Writable(ix))
    <2>1. 6 = 5 + 1 /\ 7 = 5 + 2 /\ 5 \in Nat
      OBVIOUS
    <2>2. /\ 5 \in DOMAIN ix.accounts /\ 6 \in DOMAIN ix.accounts /\ 7 \in DOMAIN ix.accounts
          /\ ix.accounts[5].writable = TRUE /\ ix.accounts[6].writable = TRUE
          /\ ix.accounts[7].writable = TRUE
      BY <1>1
    <2> QED BY <2>1, <2>2, FeesDeclared
  <1>4. OwnerAt(ix, 4) = o
    BY <1>1 DEF OwnerAt, AccountAt, ataFor
  <1> QED BY <1>1, <1>2, <1>3, <1>4

\* register_with_solans and renew_with_solans.
LEMMA PayInAccounts ==
    ASSUME NEW w, NEW n, NEW o, NEW y, NEW ix,
           \/ ix = getRegisterWithSolansInstruction(w, o, n, y)
           \/ ix = getRenewWithSolansInstruction(w, findNameRecordPda(n), n, y)
    PROVE  /\ ix.data.name = n /\ ix.data.years = y /\ AccountAt(ix, 1) = w
           /\ ix.name = "register_with_solans" => AccountAt(ix, 2) = o
           /\ findNameRecordPda(n) \in Writable(ix) /\ ataFor(w, SOLANS_MINT) \in Writable(ix)
  <1>1. CASE ix = getRegisterWithSolansInstruction(w, o, n, y)
    <2>1. /\ ix.data.name = n /\ ix.data.years = y /\ ix.accounts[1].address = w
          /\ ix.accounts[2].address = o /\ DOMAIN ix.accounts = 1..8
          /\ ix.accounts[4].writable = TRUE /\ ix.accounts[4].address = findNameRecordPda(n)
          /\ ix.accounts[5].writable = TRUE /\ ix.accounts[5].address = ataFor(w, SOLANS_MINT)
      BY <1>1 DEF getRegisterWithSolansInstruction, Instruction, WS, W, R, Meta
    <2>2. findNameRecordPda(n) \in Writable(ix) /\ ataFor(w, SOLANS_MINT) \in Writable(ix)
      BY <2>1, WritableAt
    <2> QED BY <2>1, <2>2 DEF AccountAt
  <1>2. CASE ix = getRenewWithSolansInstruction(w, findNameRecordPda(n), n, y)
    <2>1. /\ ix.name = "renew_with_solans"
          /\ ix.data.name = n /\ ix.data.years = y /\ ix.accounts[1].address = w
          /\ DOMAIN ix.accounts = 1..6
          /\ ix.accounts[3].writable = TRUE /\ ix.accounts[3].address = findNameRecordPda(n)
          /\ ix.accounts[4].writable = TRUE /\ ix.accounts[4].address = ataFor(w, SOLANS_MINT)
      BY <1>2 DEF getRenewWithSolansInstruction, Instruction, WS, W, R, Meta
    <2>2. findNameRecordPda(n) \in Writable(ix) /\ ataFor(w, SOLANS_MINT) \in Writable(ix)
      BY <2>1, WritableAt
    <2> QED BY <2>1, <2>2 DEF AccountAt
  <1> QED BY <1>1, <1>2

\* The instructions that are paid for, as a command of w builds them; c holds
\* the fee accounts and o the owner it read.
PaidIx(w, n, c, ix) ==
    \/ \E o \in Wallets, y \in Terms :
          \/ \E f \in Referrers \cup {Nil} :
                ix = getRegisterNameInstruction(w, o, c, ReferralAccount(f), n, y)
          \/ ix = getRegisterWithSolansInstruction(w, o, n, y)
    \/ \E y \in Terms :
          \/ \E f \in Referrers \cup {Nil} : RenewIx(w, n, c, f, y, ix)
          \/ ix = getRenewWithSolansInstruction(w, findNameRecordPda(n), n, y)
    \/ \E o \in Wallets :
          ix = getAutoRenewInstruction(w, findNameRecordPda(n), ataFor(o, PAYMENT_MINT), c, n, 1)

\* What pays a fee or burns $SOLANS changes accounts of D only.
LEMMA PaidLanded ==
    ASSUME NEW D, NamesTypeOK, NEW w \in Wallets, NEW n \in Names, NEW r, Put(n, r),
           Lifecycle, UNCHANGED marketVars, OnlyRecordAndMoney, findNameRecordPda(n) \in D,
           \/ \E f, x : /\ DistributeFee(w, f, x) /\ FeeAccountsIn(D)
                        /\ ataFor(w, PAYMENT_MINT) \in D
                        /\ f # Nil => ataFor(f, PAYMENT_MINT) \in D
           \/ \E x : BurnSolans(w, x) /\ ataFor(w, SOLANS_MINT) \in D
    PROVE  NamesLanded(D)
  <1>1. \A v \in Wallets : allowance'[v] # allowance[v] => ataFor(v, PAYMENT_MINT) \in D
    BY DEF OnlyRecordAndMoney
  <1>2. CASE \E x : BurnSolans(w, x) /\ ataFor(w, SOLANS_MINT) \in D
    BY <1>2, BurnIn DEF OnlyRecordAndMoney, NamesLanded, NamesNext
  <1>3. ASSUME NEW f, NEW x, DistributeFee(w, f, x), FeeAccountsIn(D),
               ataFor(w, PAYMENT_MINT) \in D, f # Nil => ataFor(f, PAYMENT_MINT) \in D
        PROVE  NamesLanded(D)
    <2>1. NamesChangedIn(D)
      BY <1>1, <1>3, FeeIn DEF OnlyRecordAndMoney
    <2> QED BY <2>1 DEF NamesLanded, NamesNext
  <1> QED BY <1>2, <1>3

\* register_name, renew_name, claim_expired, auto_renew and the payments in
\* $SOLANS: the fee reaches only accounts the transaction declared.
LEMMA LandPaid ==
    ASSUME NEW D, NamesTypeOK, NEW w \in Wallets, NEW n \in Names, NEW c, NEW ix,
           PaidIx(w, n, c, ix), Run(ix), Writable(ix) \subseteq D
    PROVE  NamesLanded(D)
  <1> DEFINE pda == findNameRecordPda(n)
  <1>1. ASSUME NEW o \in Wallets, NEW y \in Terms, NEW f \in Referrers \cup {Nil},
               ix = getRegisterNameInstruction(w, o, c, ReferralAccount(f), n, y)
        PROVE  NamesLanded(D)
    <2>1. /\ ix.name = "register_name" /\ ix.data.name = n /\ ix.data.years = y
          /\ AccountAt(ix, 1) = w /\ AccountAt(ix, 2) = o /\ ReferrerAt(ix, 9) = f
          /\ pda \in D /\ ataFor(w, PAYMENT_MINT) \in D
          /\ f # Nil => ataFor(f, PAYMENT_MINT) \in D
          /\ FeeAccountsMatch(ix, 6) => FeeAccountsIn(D)
      BY <1>1, RegisterAccounts DEF FeeAccountsIn
    <2>2. RegisterName(w, o, n, y, f) /\ FeeAccountsMatch(ix, 6) /\ UNCHANGED marketVars
      BY <2>1, RunsNames DEF SaleNames, RunNames, RunLifecycle, RunManagement, RunSubdomain
    <2>3. Lifecycle
      BY <2>2 DEF Lifecycle
    <2> QED BY <2>1, <2>2, <2>3, PaidLanded DEF RegisterName
  <1>2. ASSUME NEW o \in Wallets, NEW y \in Terms, ix = getRegisterWithSolansInstruction(w, o, n, y)
        PROVE  NamesLanded(D)
    <2>1. ix.name = "register_with_solans"
      BY <1>2 DEF getRegisterWithSolansInstruction, Instruction
    <2>2. /\ ix.data.name = n /\ ix.data.years = y /\ AccountAt(ix, 1) = w /\ AccountAt(ix, 2) = o
          /\ pda \in D /\ ataFor(w, SOLANS_MINT) \in D
      BY <1>2, <2>1, PayInAccounts
    <2>3. RegisterWithSolans(w, o, n, y) /\ UNCHANGED marketVars
      BY <2>1, <2>2, RunsNames DEF SaleNames, RunNames, RunLifecycle, RunManagement, RunSubdomain
    <2>4. Lifecycle
      BY <2>3 DEF Lifecycle
    <2> QED BY <2>2, <2>3, <2>4, PaidLanded DEF RegisterWithSolans
  <1>3. ASSUME NEW y \in Terms, NEW f \in Referrers \cup {Nil},
               ix = getRenewNameInstruction(w, pda, c, ReferralAccount(f), n, y)
        PROVE  NamesLanded(D)
    <2>0. ix.name = "renew_name"
      BY <1>3 DEF getRenewNameInstruction, Instruction
    <2>1. /\ ix.data.name = n /\ ix.data.years = y
          /\ AccountAt(ix, 1) = w /\ ReferrerAt(ix, 8) = f
          /\ pda \in D /\ ataFor(w, PAYMENT_MINT) \in D
          /\ f # Nil => ataFor(f, PAYMENT_MINT) \in D
          /\ FeeAccountsMatch(ix, 5) => FeeAccountsIn(D)
      <3>1. RenewIx(w, n, c, f, y, ix)
        BY <1>3 DEF RenewIx
      <3> QED BY <3>1, RenewAccounts DEF FeeAccountsIn
    <2>2. RenewName(w, n, y, f) /\ FeeAccountsMatch(ix, 5) /\ UNCHANGED marketVars
      BY <2>0, <2>1, RunsNames DEF SaleNames, RunNames, RunLifecycle, RunManagement, RunSubdomain
    <2>3. Lifecycle
      BY <2>2 DEF Lifecycle
    <2> QED BY <2>1, <2>2, <2>3, PaidLanded DEF RenewName
  <1>4. ASSUME NEW y \in Terms, NEW f \in Referrers \cup {Nil},
               ix = getClaimExpiredInstruction(w, pda, c, ReferralAccount(f), n, y)
        PROVE  NamesLanded(D)
    <2>0. ix.name = "claim_expired"
      BY <1>4 DEF getClaimExpiredInstruction, Instruction
    <2>1. /\ ix.data.name = n /\ ix.data.years = y
          /\ AccountAt(ix, 1) = w /\ ReferrerAt(ix, 8) = f
          /\ pda \in D /\ ataFor(w, PAYMENT_MINT) \in D
          /\ f # Nil => ataFor(f, PAYMENT_MINT) \in D
          /\ FeeAccountsMatch(ix, 5) => FeeAccountsIn(D)
      <3>1. RenewIx(w, n, c, f, y, ix)
        BY <1>4 DEF RenewIx
      <3> QED BY <3>1, RenewAccounts DEF FeeAccountsIn
    <2>2. ClaimExpired(w, n, y, f) /\ FeeAccountsMatch(ix, 5) /\ UNCHANGED marketVars
      BY <2>0, <2>1, RunsNames DEF SaleNames, RunNames, RunLifecycle, RunManagement, RunSubdomain
    <2>3. Lifecycle
      BY <2>2 DEF Lifecycle
    <2> QED BY <2>1, <2>2, <2>3, PaidLanded DEF ClaimExpired
  <1>5. ASSUME NEW y \in Terms, ix = getRenewWithSolansInstruction(w, pda, n, y)
        PROVE  NamesLanded(D)
    <2>1. ix.name = "renew_with_solans"
      BY <1>5 DEF getRenewWithSolansInstruction, Instruction
    <2>2. /\ ix.data.name = n /\ ix.data.years = y /\ AccountAt(ix, 1) = w
          /\ pda \in D /\ ataFor(w, SOLANS_MINT) \in D
      BY <1>5, PayInAccounts
    <2>3. RenewWithSolans(w, n, y) /\ UNCHANGED marketVars
      BY <2>1, <2>2, RunsNames DEF SaleNames, RunNames, RunLifecycle, RunManagement, RunSubdomain
    <2>4. Lifecycle
      BY <2>3 DEF Lifecycle
    <2> QED BY <2>2, <2>3, <2>4, PaidLanded DEF RenewWithSolans
  <1>6. ASSUME NEW o \in Wallets,
               ix = getAutoRenewInstruction(w, pda, ataFor(o, PAYMENT_MINT), c, n, 1)
        PROVE  NamesLanded(D)
    <2>1. /\ ix.name = "auto_renew" /\ ix.data.name = n /\ OwnerAt(ix, 4) = o
          /\ pda \in D /\ ataFor(o, PAYMENT_MINT) \in D
          /\ FeeAccountsMatch(ix, 5) => FeeAccountsIn(D)
      BY <1>6, AutoRenewAccounts DEF FeeAccountsIn
    <2>2. /\ AutoRenew(n) /\ o = rec[n].owner /\ FeeAccountsMatch(ix, 5)
          /\ UNCHANGED marketVars
      BY <2>1, RunsNames DEF SaleNames, RunNames, RunLifecycle, RunManagement, RunSubdomain
    <2>3. \A v \in Wallets : allowance'[v] # allowance[v] => ataFor(v, PAYMENT_MINT) \in D
      BY <2>1, <2>2 DEF AutoRenew, NamesTypeOK
    <2>4. NamesChangedIn(D)
      <3>1. /\ Put(n, Renewed(rec[n], 1)) /\ DistributeFee(o, Nil, YearlyPrice(n))
            /\ UNCHANGED <<now, reverse, holder>>
        BY <2>2 DEF AutoRenew
      <3> QED BY <2>1, <2>2, <2>3, <3>1, FeeIn
    <2>5. Lifecycle
      BY <2>2 DEF Lifecycle
    <2> QED BY <2>2, <2>4, <2>5 DEF NamesLanded, NamesNext
  <1> QED BY <1>1, <1>2, <1>3, <1>4, <1>5, <1>6 DEF PaidIx, RenewIx

-----------------------------------------------------------------------------
(* What lands without being one instruction of the registry. *)

\* A registration whose record is minted at once.
LEMMA MintedKeeps ==
    ASSUME NamesTypeOK, RegistryInv, NEW w \in Wallets, NEW n \in Names, NEW years \in Nat,
           NEW m \in Mints, ParentOf[n] = Nil, ~Exists(n), holder[m] = Nil, LedgerOK',
           Put(n, WithMint(init_top_level_record(w, now + years * Year), m)),
           holder' = [holder EXCEPT ![m] = w], UNCHANGED <<now, reverse, allowance>>
    PROVE  RegistryStep /\ SaleKept
  <1> DEFINE r == init_top_level_record(w, now + years * Year)
             s == WithMint(r, m)
  <1>1. /\ rec \in [Names -> NameRecord \cup {Nil}] /\ now \in Nat
        /\ holder \in [Mints -> Wallets \cup {Nil}] /\ w # Nil
    BY MoneyAssumption DEF NamesTypeOK
  <1>2. /\ Fresh(r) /\ r.parent = Nil /\ r.parent_registered_at = 0 /\ r.expires_at >= now
    BY <1>1, TopLevelFacts
  <1>3. rec' = [rec EXCEPT ![n] = s]
    BY DEF Put
  <1> HIDE DEF r
  <1>4. /\ s \in NameRecord /\ s # Nil /\ s.registered_at = now /\ s.parent = Nil
        /\ s.parent_registered_at = 0 /\ s.expires_at >= now /\ s.nft_mint = m
        /\ s.reverse_set = FALSE /\ s.listed = FALSE
    BY <1>2, MintFacts, RecordAssumption DEF Fresh, SameTerm, SameIdentity
  <1> HIDE DEF s
  <1>5. NamesTypeOK'
    BY <1>1, <1>3, <1>4, EnvironmentFacts DEF NamesTypeOK, EnvironmentTypeOK, LedgerOK
  <1>6. NftBacked'
    BY <1>1, <1>3, <1>4 DEF RegistryInv, NftBacked, Exists, NameRecord
  <1>7. ReverseBacked'
    BY <1>1, <1>3, <1>4 DEF RegistryInv, ReverseBacked, Exists
  <1>8. SaleUnminted' /\ ClearsOnHandover
    BY <1>1, <1>3, <1>4 DEF RegistryInv, SaleUnminted, ClearsOnHandover, Exists
  <1>9. TenureOrder'
    <2>1. ASSUME NEW k \in Names, rec'[k] # Nil
          PROVE  Tenured(rec[k])' /\ rec'[k].parent = ParentOf[k]
      BY <1>1, <1>3, <1>4, <2>1 DEF RegistryInv, TenureOrder, Tenured, Exists
    <2>2. ASSUME NEW k \in Names, rec'[k] # Nil, ~TopLevel(k), rec'[ParentOf[k]] # Nil
          PROVE  rec'[k].parent_registered_at <= rec'[ParentOf[k]].registered_at
      <3>1. ParentOf[k] \in Names /\ k # n
        BY <2>2, RegistryAssumption DEF TopLevel
      <3>2. rec[k] \in NameRecord /\ Tenured(rec[k]) /\ rec'[k] = rec[k]
        BY <1>1, <1>3, <2>2, <3>1 DEF RegistryInv, TenureOrder, Exists
      <3>3. CASE ParentOf[k] = n
        <4>1. rec'[ParentOf[k]].registered_at = now
          BY <1>1, <1>3, <1>4, <3>3
        <4> QED BY <1>1, <3>2, <4>1 DEF Tenured, NameRecord
      <3>4. CASE ParentOf[k] # n
        BY <1>1, <1>3, <2>2, <3>1, <3>2, <3>4 DEF RegistryInv, TenureOrder, Exists
      <3> QED BY <3>3, <3>4
    <2> QED BY <2>1, <2>2 DEF TenureOrder, Exists, TopLevel
  <1>10. SaleKept
    BY <1>1, <1>3, <1>4 DEF SaleKept, Exists
  <1> QED BY <1>5, <1>6, <1>7, <1>8, <1>9, <1>10 DEF RegistryInv, RegistryStep

\* The first instruction of a registration with an NFT: the signer is the owner.
MintedIx(w, n, c, ix) ==
    \E y \in Terms :
        \/ \E f \in Referrers \cup {Nil} :
              ix = getRegisterNameInstruction(w, w, c, ReferralAccount(f), n, y)
        \/ ix = getRegisterWithSolansInstruction(w, w, n, y)

\* register_name or register_with_solans with tokenize_name in one transaction.
LEMMA LandMinted ==
    ASSUME NEW D, NamesTypeOK, RegistryInv, NEW w \in Wallets, NEW n \in Names, NEW c,
           NEW ix, MintedIx(w, n, c, ix), NEW m \in Mints, RunRegisterAndTokenize(ix, m),
           Writable(ix) \subseteq D, Mint(m) \in D
    PROVE  RegistryStep /\ SaleKept /\ NamesChangedIn(D)
  <1> DEFINE Minted(y) ==
        /\ ParentOf[n] = Nil /\ ~Exists(n) /\ holder[m] = Nil
        /\ holder' = [holder EXCEPT ![m] = w]
        /\ Put(n, WithMint(init_top_level_record(w, now + y * Year), m))
        /\ UNCHANGED <<now, reverse, allowance>>
  <1>0. Terms \subseteq Nat /\ Referrers \cup {Nil} \subseteq Wallets \cup {Nil}
    BY TermsNat, MoneyAssumption
  <1>1. \A k \in Mints : holder'[k] # holder[k] => Mint(k) \in D
    BY DEF RunRegisterAndTokenize, NamesTypeOK
  <1>2. ASSUME NEW y \in Terms, NEW f \in Referrers \cup {Nil},
               ix = getRegisterNameInstruction(w, w, c, ReferralAccount(f), n, y)
        PROVE  RegistryStep /\ SaleKept /\ NamesChangedIn(D)
    <2>1. /\ ix.name = "register_name" /\ ix.data.name = n /\ ix.data.years = y
          /\ AccountAt(ix, 1) = w /\ ReferrerAt(ix, 9) = f
          /\ findNameRecordPda(n) \in D /\ ataFor(w, PAYMENT_MINT) \in D
          /\ f # Nil => ataFor(f, PAYMENT_MINT) \in D
          /\ FeeAccountsMatch(ix, 6) => FeeAccountsIn(D)
      BY <1>2, RegisterAccounts DEF FeeAccountsIn
    <2>2. Minted(y) /\ DistributeFee(w, f, YearlyPrice(n) * y) /\ FeeAccountsMatch(ix, 6)
      BY <2>1 DEF RunRegisterAndTokenize, TopLevel
    <2>3. LedgerOK'
      BY <1>0, <2>2, FeePaid
    <2>4. NamesChangedIn(D)
      BY <1>1, <2>1, <2>2, FeeIn
    <2> QED BY <1>0, <2>2, <2>3, <2>4, MintedKeeps
  <1>3. ASSUME NEW y \in Terms, ix = getRegisterWithSolansInstruction(w, w, n, y)
        PROVE  RegistryStep /\ SaleKept /\ NamesChangedIn(D)
    <2>1. /\ ix.name = "register_with_solans" /\ ix.data.name = n /\ ix.data.years = y
          /\ AccountAt(ix, 1) = w
          /\ findNameRecordPda(n) \in D /\ ataFor(w, SOLANS_MINT) \in D
      <3>1. ix.name = "register_with_solans"
        BY <1>3 DEF getRegisterWithSolansInstruction, Instruction
      <3> QED BY <1>3, <3>1, PayInAccounts
    <2>2. Minted(y) /\ BurnSolans(w, solans_fee(config.solans, YearlyPrice(n) * y))
      BY <2>1 DEF RunRegisterAndTokenize, TopLevel
    <2>3. LedgerOK'
      BY <1>0, <2>2, SolansBurned
    <2>4. NamesChangedIn(D)
      BY <1>1, <2>1, <2>2, BurnIn
    <2> QED BY <1>0, <2>2, <2>3, <2>4, MintedKeeps
  <1> QED BY <1>2, <1>3 DEF MintedIx

\* approve, and revoke, which sets the delegation to zero.
LEMMA ApproveKeeps ==
    ASSUME NamesTypeOK, RegistryInv, NEW w \in Wallets, NEW x \in Nat, Approve(w, x)
    PROVE  RegistryStep /\ SaleKept
  <1>1. EnvironmentTypeOK'
    BY EnvironmentFacts DEF Approve, EnvironmentTypeOK, LedgerOK, MoneyTypeOK, moneyVars
  <1> QED BY <1>1, UntouchedKeeps, UntouchedSaleKept DEF Approve

-----------------------------------------------------------------------------
(* The instructions of the marketplace. *)

\* What a trading command that lands leaves behind.
SaleLanded(D) == Next /\ NamesChangedIn(D) /\ SalesChangedIn(D)

\* The domains of the sale accounts.
LEMMA SaleDomains ==
    ASSUME MarketInv
    PROVE  /\ DOMAIN listing = Names /\ DOMAIN auction = Names /\ DOMAIN bidVault = Names
           /\ DOMAIN sol = Wallets /\ DOMAIN solans = Wallets /\ NamesTypeOK
           /\ offer \in [Names -> [Wallets -> Offer \cup {Nil}]]
           /\ escrow \in [Names -> [Wallets -> Nat]]
  BY DEF MarketInv, MarketTypeOK, NamesTypeOK, MoneyTypeOK

\* list_name, update_listing and cancel_listing.
ListingIx(w, n, ix) ==
    \/ \E p \in Prices, d \in Durations :
          \/ ix = getListNameInstruction(w, findNameRecordPda(n), findListing(n), p, d)
          \/ ix = getUpdateListingInstruction(w, findListing(n), p, d)
    \/ \E s \in Wallets :
          ix = getCancelListingInstruction(w, s, findNameRecordPda(n), findListing(n))

\* Each of them is that step of the marketplace, on the accounts it lists.
LEMMA LandListing ==
    ASSUME NEW D, MarketInv, NEW w \in Wallets, NEW n \in Names, NEW ix,
           ListingIx(w, n, ix), Run(ix), Writable(ix) \subseteq D
    PROVE  SaleLanded(D)
  <1> DEFINE pda == findNameRecordPda(n)
             acct == findListing(n)
  <1>0. DOMAIN listing = Names /\ NamesTypeOK
    BY SaleDomains
  <1>1. ASSUME NEW p \in Prices, NEW d \in Durations,
               ix = getListNameInstruction(w, pda, acct, p, d)
        PROVE  SaleLanded(D)
    <2>1. /\ ix.name = "list_name" /\ ix.data.price = p /\ ix.data.duration = d
          /\ ix.accounts[1].address = w /\ {2, 3} \subseteq DOMAIN ix.accounts
          /\ ix.accounts[2].writable = TRUE /\ ix.accounts[2].address = pda
          /\ ix.accounts[3].writable = TRUE /\ ix.accounts[3].address = acct
      BY <1>1 DEF getListNameInstruction, Instruction, WS, W, R, Meta
    <2>2. SignerAndRecord(w, n, ix) /\ pda \in D /\ acct \in D
      BY <2>1, RecordSecond, WritableAt
    <2>3. ListName(w, n, p, d)
      BY <2>1, <2>2, RunsSales DEF SaleNames, RunSale, SellerAccountOk, RunAuction, SignerAndRecord
    <2>4. NamesChangedIn(D)
      BY <1>0, <2>2, <2>3, RecordIn DEF ListName
    <2>5. SalesChangedIn(D)
      BY <1>0, <2>2, <2>3 DEF ListName, SalesChangedIn
    <2> QED BY <2>3, <2>4, <2>5 DEF SaleLanded, Next, Trading
  <1>2. ASSUME NEW p \in Prices, NEW d \in Durations,
               ix = getUpdateListingInstruction(w, acct, p, d)
        PROVE  SaleLanded(D)
    <2>1. /\ ix.name = "update_listing" /\ ix.data.price = p /\ ix.data.duration = d
          /\ ix.accounts[1].address = w /\ 2 \in DOMAIN ix.accounts
          /\ ix.accounts[2].writable = TRUE /\ ix.accounts[2].address = acct
      BY <1>2 DEF getUpdateListingInstruction, Instruction, S, W, Meta
    <2>2. AccountAt(ix, 1) = w /\ NameAt(ix, 2) = n /\ acct \in D
      BY <2>1, WritableAt DEF AccountAt, NameAt, findListing
    <2>3. UpdateListing(w, n, p, d)
      BY <2>1, <2>2, RunsSales DEF SaleNames, RunSale, SellerAccountOk, RunAuction
    <2>4. NamesChangedIn(D)
      BY <2>3, NamesStill DEF UpdateListing
    <2>5. SalesChangedIn(D)
      BY <1>0, <2>2, <2>3 DEF UpdateListing, SalesChangedIn
    <2> QED BY <2>3, <2>4, <2>5 DEF SaleLanded, Next, Trading
  <1>3. ASSUME NEW s \in Wallets, ix = getCancelListingInstruction(w, s, pda, acct)
        PROVE  SaleLanded(D)
    <2>1. /\ ix.name = "cancel_listing" /\ ix.accounts[1].address = w
          /\ {3, 4} \subseteq DOMAIN ix.accounts
          /\ ix.accounts[3].writable = TRUE /\ ix.accounts[3].address = pda
          /\ ix.accounts[4].writable = TRUE /\ ix.accounts[4].address = acct
      BY <1>3 DEF getCancelListingInstruction, Instruction, S, W, Meta
    <2>2. AccountAt(ix, 1) = w /\ NameAt(ix, 4) = n /\ pda \in D /\ acct \in D
      BY <2>1, WritableAt DEF AccountAt, NameAt, findListing
    <2>3. CancelListing(w, n)
      BY <2>1, <2>2, RunsSales DEF SaleNames, RunSale, SellerAccountOk, RunAuction
    <2>4. NamesChangedIn(D)
      BY <1>0, <2>2, <2>3, RecordIn DEF CancelListing
    <2>5. SalesChangedIn(D)
      BY <1>0, <2>2, <2>3 DEF CancelListing, SalesChangedIn
    <2> QED BY <2>3, <2>4, <2>5 DEF SaleLanded, Next, Trading
  <1> QED BY <1>1, <1>2, <1>3 DEF ListingIx

\* buy_name; the seller, the treasury and the price are those that were read.
BuyIx(w, n, ix) ==
    \E s \in Wallets, t \in Wallets, p \in Prices :
        ix = getBuyNameInstruction(w, s, t, findNameRecordPda(n), findListing(n), p)

\* The purchase that lands is from the seller and at the price that were read.
LEMMA LandBuy ==
    ASSUME NEW D, MarketInv, NEW w \in Wallets, NEW n \in Names, NEW ix,
           BuyIx(w, n, ix), Run(ix), Writable(ix) \subseteq D, w \in D
    PROVE  /\ SaleLanded(D)
           /\ NameAt(ix, 6) = n /\ AccountAt(ix, 2) = listing[n].seller
           /\ ix.data.expectedPrice \in Prices /\ BuyName(w, n, ix.data.expectedPrice)
  <1> DEFINE pda == findNameRecordPda(n)
             acct == findListing(n)
  <1>0. DOMAIN listing = Names /\ DOMAIN sol = Wallets /\ NamesTypeOK
    BY SaleDomains
  <1>1. PICK s \in Wallets, t \in Wallets, p \in Prices :
               ix = getBuyNameInstruction(w, s, t, pda, acct, p)
    BY DEF BuyIx
  <1>2. /\ ix.name = "buy_name" /\ ix.data.expectedPrice = p /\ ix.accounts[1].address = w
        /\ {2, 3, 5, 6} \subseteq DOMAIN ix.accounts
        /\ ix.accounts[2].writable = TRUE /\ ix.accounts[2].address = s
        /\ ix.accounts[3].writable = TRUE /\ ix.accounts[3].address = t
        /\ ix.accounts[5].writable = TRUE /\ ix.accounts[5].address = pda
        /\ ix.accounts[6].writable = TRUE /\ ix.accounts[6].address = acct
    BY <1>1 DEF getBuyNameInstruction, Instruction, WS, W, R, Meta
  <1>3. s \in D /\ t \in D /\ pda \in D /\ acct \in D
    BY <1>2, WritableAt
  <1>4. /\ AccountAt(ix, 1) = w /\ AccountAt(ix, 2) = s /\ AccountAt(ix, 3) = t
        /\ NameAt(ix, 6) = n
    BY <1>2 DEF AccountAt, NameAt, findListing
  <1>5. BuyName(w, n, p) /\ listing[n].seller = s /\ config.params.sol_treasury = t
    BY <1>2, <1>4, RunsSales DEF SaleNames, RunSale, SellerAccountOk, RunAuction
  <1>6. NamesChangedIn(D)
    BY <1>0, <1>3, <1>5, RecordIn DEF BuyName
  <1>7. SalesChangedIn(D)
    <2>1. \A v \in Wallets : v \notin {w, s, t} => sol'[v] = sol[v]
      BY <1>0, <1>5 DEF BuyName
    <2> QED BY <1>0, <1>3, <1>5, <2>1 DEF BuyName, SalesChangedIn
  <1>8. SaleLanded(D)
    BY <1>5, <1>6, <1>7 DEF SaleLanded, Next, Trading
  <1> QED BY <1>2, <1>4, <1>5, <1>8

\* make_offer, cancel_offer and accept_offer.
OfferIx(w, n, ix) ==
    \/ \E x \in OfferAmounts, d \in Durations :
          ix = getMakeOfferInstruction(w, findNameRecordPda(n), findOffer(n, w), x, d)
    \/ \E b \in Wallets :
          \/ ix = getCancelOfferInstruction(w, b, findNameRecordPda(n), findOffer(n, b))
          \/ \E t \in Wallets :
                ix = getAcceptOfferInstruction(w, b, t, findNameRecordPda(n), findOffer(n, b))

\* One Offer account changes.
LEMMA OfferIn ==
    ASSUME NEW D, MarketInv, NEW n \in Names, NEW b \in Wallets, NEW x, NEW y,
           offer' = [offer EXCEPT ![n][b] = x], escrow' = [escrow EXCEPT ![n][b] = y],
           findOffer(n, b) \in D, UNCHANGED <<listing, auction, bidVault>>,
           \A v \in Wallets : sol'[v] # sol[v] => v \in D
    PROVE  SalesChangedIn(D)
  <1>1. /\ offer \in [Names -> [Wallets -> Offer \cup {Nil}]]
        /\ escrow \in [Names -> [Wallets -> Nat]]
    BY SaleDomains
  <1>2. \A k \in Names, v \in Wallets :
           offer'[k][v] # offer[k][v] \/ escrow'[k][v] # escrow[k][v] => k = n /\ v = b
    BY <1>1
  <1> QED BY <1>2 DEF SalesChangedIn

\* make_offer, cancel_offer and accept_offer are those steps of the
\* marketplace: escrow, refund and payout go to accounts the transaction lists.
LEMMA LandOffer ==
    ASSUME NEW D, MarketInv, NEW w \in Wallets, NEW n \in Names, NEW ix,
           OfferIx(w, n, ix), Run(ix), Writable(ix) \subseteq D, w \in D
    PROVE  SaleLanded(D)
  <1> DEFINE pda == findNameRecordPda(n)
  <1>0. DOMAIN sol = Wallets /\ NamesTypeOK
    BY SaleDomains
  <1>1. ASSUME NEW x \in OfferAmounts, NEW d \in Durations,
               ix = getMakeOfferInstruction(w, pda, findOffer(n, w), x, d)
        PROVE  SaleLanded(D)
    <2>1. /\ ix.name = "make_offer" /\ ix.data.amount = x /\ ix.data.duration = d
          /\ ix.accounts[1].address = w /\ ix.accounts[2].address = pda
          /\ 3 \in DOMAIN ix.accounts
          /\ ix.accounts[3].writable = TRUE /\ ix.accounts[3].address = findOffer(n, w)
      BY <1>1 DEF getMakeOfferInstruction, Instruction, WS, W, R, Meta
    <2>2. AccountAt(ix, 1) = w /\ NameAt(ix, 2) = n /\ findOffer(n, w) \in D
      BY <2>1, WritableAt DEF AccountAt, NameAt, findNameRecordPda
    <2>3. MakeOffer(w, n, x, d)
      BY <2>1, <2>2, RunsSales DEF SaleNames, RunSale, SellerAccountOk, RunAuction
    <2>4. NamesChangedIn(D)
      BY <2>3, NamesStill DEF MakeOffer
    <2>5. \A v \in Wallets : sol'[v] # sol[v] => v \in D
      BY <1>0, <2>3 DEF MakeOffer
    <2>6. SalesChangedIn(D)
      BY <2>2, <2>3, <2>5, OfferIn DEF MakeOffer
    <2> QED BY <2>3, <2>4, <2>6 DEF SaleLanded, Next, Trading
  <1>2. ASSUME NEW b \in Wallets, ix = getCancelOfferInstruction(w, b, pda, findOffer(n, b))
        PROVE  SaleLanded(D)
    <2>1. /\ ix.name = "cancel_offer" /\ ix.accounts[1].address = w
          /\ {2, 4} \subseteq DOMAIN ix.accounts
          /\ ix.accounts[2].writable = TRUE /\ ix.accounts[2].address = b
          /\ ix.accounts[4].writable = TRUE /\ ix.accounts[4].address = findOffer(n, b)
      BY <1>2 DEF getCancelOfferInstruction, Instruction, S, W, Meta
    <2>2. /\ AccountAt(ix, 1) = w /\ AccountAt(ix, 2) = b /\ NameAt(ix, 4) = n
          /\ b \in D /\ findOffer(n, b) \in D
      BY <2>1, WritableAt DEF AccountAt, NameAt, findOffer
    <2>3. CancelOffer(w, n, b)
      BY <2>1, <2>2, RunsSales DEF SaleNames, RunSale, SellerAccountOk, RunAuction
    <2>4. NamesChangedIn(D)
      BY <2>3, NamesStill DEF CancelOffer
    <2>5. \A v \in Wallets : sol'[v] # sol[v] => v \in D
      BY <1>0, <2>2, <2>3 DEF CancelOffer
    <2>6. SalesChangedIn(D)
      BY <2>2, <2>3, <2>5, OfferIn DEF CancelOffer
    <2> QED BY <2>3, <2>4, <2>6 DEF SaleLanded, Next, Trading
  <1>3. ASSUME NEW b \in Wallets, NEW t \in Wallets,
               ix = getAcceptOfferInstruction(w, b, t, pda, findOffer(n, b))
        PROVE  SaleLanded(D)
    <2>1. /\ ix.name = "accept_offer" /\ ix.accounts[1].address = w
          /\ {2, 3, 5, 6} \subseteq DOMAIN ix.accounts
          /\ ix.accounts[2].writable = TRUE /\ ix.accounts[2].address = b
          /\ ix.accounts[3].writable = TRUE /\ ix.accounts[3].address = t
          /\ ix.accounts[5].writable = TRUE /\ ix.accounts[5].address = pda
          /\ ix.accounts[6].writable = TRUE /\ ix.accounts[6].address = findOffer(n, b)
      BY <1>3 DEF getAcceptOfferInstruction, Instruction, S, W, R, Meta
    <2>2. b \in D /\ t \in D /\ pda \in D /\ findOffer(n, b) \in D
      BY <2>1, WritableAt
    <2>3. /\ AccountAt(ix, 1) = w /\ AccountAt(ix, 2) = b /\ AccountAt(ix, 3) = t
          /\ NameAt(ix, 5) = n
      BY <2>1 DEF AccountAt, NameAt, findNameRecordPda
    <2>4. AcceptOffer(w, n, b) /\ config.params.sol_treasury = t
      BY <2>1, <2>3, RunsSales DEF SaleNames, RunSale, SellerAccountOk, RunAuction
    <2>5. NamesChangedIn(D)
      BY <1>0, <2>2, <2>4, RecordIn DEF AcceptOffer
    <2>6. \A v \in Wallets : sol'[v] # sol[v] => v \in D
      <3>1. \A v \in Wallets : v \notin {w, b, t} => sol'[v] = sol[v]
        BY <1>0, <2>4 DEF AcceptOffer
      <3> QED BY <2>2, <3>1
    <2>7. SalesChangedIn(D)
      BY <2>2, <2>4, <2>6, OfferIn DEF AcceptOffer
    <2> QED BY <2>4, <2>5, <2>7 DEF SaleLanded, Next, Trading
  <1> QED BY <1>1, <1>2, <1>3 DEF OfferIx

\* An optional $SOLANS account: absent, or that of a wallet that was read.
SolansAccountOrNone(a) == a = Absent \/ \E v : a = ataFor(v, SOLANS_MINT)

\* If it is given, it is writable and its owner's.
LEMMA SolansAccountAt ==
    ASSUME NEW a, SolansAccountOrNone(a), NEW ix, NEW i \in DOMAIN ix.accounts,
           ix.accounts[i] = OptW(a), Given(ix, i)
    PROVE  ataFor(OwnerAt(ix, i), SOLANS_MINT) \in Writable(ix)
  <1>1. a # Absent
    BY DEF OptW, R, Meta, Given, AccountAt
  <1>2. PICK v : a = ataFor(v, SOLANS_MINT)
    BY <1>1 DEF SolansAccountOrNone
  <1>3. ix.accounts[i].address = a /\ ix.accounts[i].writable = TRUE
    BY <1>1 DEF OptW, W, Meta
  <1>4. OwnerAt(ix, i) = v
    BY <1>2, <1>3 DEF OwnerAt, AccountAt, ataFor
  <1> QED BY <1>2, <1>3, <1>4, WritableAt

\* start_auction, bid, settle_auction and cancel_auction.
AuctionIx(w, n, ix) ==
    \/ \E r \in Reserves, i \in Increments, d \in Durations :
          ix = getStartAuctionInstruction(w, findNameRecordPda(n), findAuction(n), r, i, d)
    \/ \E x \in Bids : \E a :
          /\ SolansAccountOrNone(a)
          /\ ix = getBidInstruction(w, findAuction(n), ataFor(w, SOLANS_MINT), a, bidVaultOf(n), x)
    \/ \E s \in Wallets : \E a :
          /\ SolansAccountOrNone(a)
          /\ ix = getSettleAuctionInstruction(w, s, a, findNameRecordPda(n), findAuction(n),
                                              bidVaultOf(n))
    \/ ix = getCancelAuctionInstruction(w, findNameRecordPda(n), findAuction(n), bidVaultOf(n))

\* Each of them is that step of the marketplace; the refund of a bid and the
\* payout of a settlement go to the accounts the program has compared.
LEMMA LandAuction ==
    ASSUME NEW D, MarketInv, NEW w \in Wallets, NEW n \in Names, NEW ix,
           AuctionIx(w, n, ix), Run(ix), Writable(ix) \subseteq D
    PROVE  SaleLanded(D)
  <1> DEFINE pda == findNameRecordPda(n)
             acct == findAuction(n)
             purse == ataFor(w, SOLANS_MINT)
  <1>0. /\ DOMAIN auction = Names /\ DOMAIN bidVault = Names /\ DOMAIN solans = Wallets
        /\ NamesTypeOK /\ rec \in [Names -> NameRecord \cup {Nil}]
    BY SaleDomains DEF NamesTypeOK
  <1>1. ASSUME NEW r \in Reserves, NEW i \in Increments, NEW d \in Durations,
               ix = getStartAuctionInstruction(w, pda, acct, r, i, d)
        PROVE  SaleLanded(D)
    <2>1. /\ ix.name = "start_auction" /\ ix.data.reserve = r /\ ix.data.increment = i
          /\ ix.data.duration = d /\ ix.accounts[1].address = w
          /\ {3, 4} \subseteq DOMAIN ix.accounts
          /\ ix.accounts[3].writable = TRUE /\ ix.accounts[3].address = pda
          /\ ix.accounts[4].writable = TRUE /\ ix.accounts[4].address = acct
      BY <1>1 DEF getStartAuctionInstruction, Instruction, WS, W, R, Meta
    <2>2. pda \in D /\ acct \in D
      BY <2>1, WritableAt
    <2>3. AccountAt(ix, 1) = w /\ NameAt(ix, 3) = n
      BY <2>1 DEF AccountAt, NameAt, findNameRecordPda
    <2>4. StartAuction(w, n, r, i, d)
      BY <2>1, <2>3, RunsSales DEF SaleNames, RunSale, SellerAccountOk, RunAuction
    <2>5. NamesChangedIn(D)
      BY <1>0, <2>2, <2>4, RecordIn DEF StartAuction
    <2>6. SalesChangedIn(D)
      BY <1>0, <2>2, <2>4 DEF StartAuction, SalesChangedIn
    <2> QED BY <2>4, <2>5, <2>6 DEF SaleLanded, Next, Auctions
  <1>2. ASSUME NEW x \in Bids, NEW a, SolansAccountOrNone(a),
               ix = getBidInstruction(w, acct, purse, a, bidVaultOf(n), x)
        PROVE  SaleLanded(D)
    <2>1. /\ ix.name = "bid" /\ ix.data.amount = x /\ ix.accounts[1].address = w
          /\ {2, 3, 4, 5} \subseteq DOMAIN ix.accounts
          /\ ix.accounts[2].writable = TRUE /\ ix.accounts[2].address = acct
          /\ ix.accounts[3].writable = TRUE /\ ix.accounts[3].address = purse
          /\ ix.accounts[4] = OptW(a)
          /\ ix.accounts[5].writable = TRUE /\ ix.accounts[5].address = bidVaultOf(n)
      BY <1>2 DEF getBidInstruction, Instruction, WS, W, R, Meta
    <2>2. acct \in D /\ purse \in D /\ bidVaultOf(n) \in D
      BY <2>1, WritableAt
    <2>3. AccountAt(ix, 1) = w /\ NameAt(ix, 2) = n
      BY <2>1 DEF AccountAt, NameAt, findAuction
    <2>4. Bid(w, n, x) /\ RefundAccountOk(ix, auction[n])
      BY <2>1, <2>3, RunsSales DEF SaleNames, RunSale, SellerAccountOk, RunAuction
    <2>5. auction[n].highest_bidder # Nil => ataFor(auction[n].highest_bidder, SOLANS_MINT) \in D
      <3>1. 4 \in DOMAIN ix.accounts
        BY <2>1
      <3>2. Given(ix, 4) => ataFor(OwnerAt(ix, 4), SOLANS_MINT) \in Writable(ix)
        BY <1>2, <2>1, <3>1, SolansAccountAt
      <3> QED BY <2>4, <3>2 DEF RefundAccountOk
    <2>6. \A v \in Wallets : solans'[v] # solans[v] => v \in {w, auction[n].highest_bidder}
                                                        /\ (v # w => auction[n].highest_bidder # Nil)
      BY <1>0, <2>4 DEF Bid, Refunded
    <2>7. NamesChangedIn(D)
      BY <2>2, <2>4, <2>5, <2>6 DEF Bid, NamesChangedIn, registryVars
    <2>8. SalesChangedIn(D)
      BY <1>0, <2>2, <2>4 DEF Bid, SalesChangedIn
    <2> QED BY <2>4, <2>7, <2>8 DEF SaleLanded, Next, Auctions
  <1>3. ASSUME NEW s \in Wallets, NEW a, SolansAccountOrNone(a),
               ix = getSettleAuctionInstruction(w, s, a, pda, acct, bidVaultOf(n))
        PROVE  SaleLanded(D)
    <2>1. /\ ix.name = "settle_auction" /\ {4, 5, 6, 7} \subseteq DOMAIN ix.accounts
          /\ ix.accounts[4] = OptW(a)
          /\ ix.accounts[5].writable = TRUE /\ ix.accounts[5].address = pda
          /\ ix.accounts[6].writable = TRUE /\ ix.accounts[6].address = acct
          /\ ix.accounts[7].writable = TRUE /\ ix.accounts[7].address = bidVaultOf(n)
      BY <1>3 DEF getSettleAuctionInstruction, Instruction, S, W, R, Meta
    <2>2. pda \in D /\ acct \in D /\ bidVaultOf(n) \in D
      BY <2>1, WritableAt
    <2>3. NameAt(ix, 6) = n
      BY <2>1 DEF AccountAt, NameAt, findAuction
    <2>4. SettleAuction(n) /\ PayoutAccountOk(ix, auction[n])
      BY <2>1, <2>3, RunsSales DEF SaleNames, RunSale, SellerAccountOk, RunAuction
    <2>5. auction[n].highest_bidder # Nil => ataFor(auction[n].seller, SOLANS_MINT) \in D
      <3>1. 4 \in DOMAIN ix.accounts
        BY <2>1
      <3>2. Given(ix, 4) => ataFor(OwnerAt(ix, 4), SOLANS_MINT) \in Writable(ix)
        BY <1>3, <2>1, <3>1, SolansAccountAt
      <3> QED BY <2>4, <3>2 DEF PayoutAccountOk
    <2>6. \A v \in Wallets : solans'[v] # solans[v] =>
             v = auction[n].seller /\ auction[n].highest_bidder # Nil
      BY <1>0, <2>4 DEF SettleAuction, SettleWithWinner, SettleWithoutBid
    <2>7. \A k \in Names : rec'[k] # rec[k] => k = n
      BY <1>0, <2>4 DEF SettleAuction, SettleWithWinner, SettleWithoutBid, Put
    <2>8. NamesChangedIn(D)
      BY <2>2, <2>4, <2>5, <2>6, <2>7 DEF SettleAuction, NamesChangedIn
    <2>9. \A k \in Names : bidVault'[k] # bidVault[k] => k = n
      BY <1>0, <2>4 DEF SettleAuction, SettleWithWinner, SettleWithoutBid
    <2>10. SalesChangedIn(D)
      BY <1>0, <2>2, <2>4, <2>9 DEF SettleAuction, SalesChangedIn
    <2> QED BY <2>4, <2>8, <2>10 DEF SaleLanded, Next, Auctions
  <1>4. ASSUME ix = getCancelAuctionInstruction(w, pda, acct, bidVaultOf(n))
        PROVE  SaleLanded(D)
    <2>1. /\ ix.name = "cancel_auction" /\ ix.accounts[1].address = w
          /\ {2, 3} \subseteq DOMAIN ix.accounts
          /\ ix.accounts[2].writable = TRUE /\ ix.accounts[2].address = pda
          /\ ix.accounts[3].writable = TRUE /\ ix.accounts[3].address = acct
      BY <1>4 DEF getCancelAuctionInstruction, Instruction, WS, W, R, Meta
    <2>2. pda \in D /\ acct \in D
      BY <2>1, WritableAt
    <2>3. AccountAt(ix, 1) = w /\ NameAt(ix, 3) = n
      BY <2>1 DEF AccountAt, NameAt, findAuction
    <2>4. CancelAuction(w, n)
      BY <2>1, <2>3, RunsSales DEF SaleNames, RunSale, SellerAccountOk, RunAuction
    <2>5. NamesChangedIn(D)
      BY <1>0, <2>2, <2>4, RecordIn DEF CancelAuction
    <2>6. SalesChangedIn(D)
      BY <1>0, <2>2, <2>4 DEF CancelAuction, SalesChangedIn
    <2> QED BY <2>4, <2>5, <2>6 DEF SaleLanded, Next, Auctions
  <1> QED BY <1>1, <1>2, <1>3, <1>4 DEF AuctionIx

-----------------------------------------------------------------------------
(* The transaction in flight. *)

\* The single instructions of naming commands of w, whatever it read.
NameIx(w, n, ix) ==
    \/ \E c : PaidIx(w, n, c, ix)
    \/ \E a : EditIx(w, n, a, ix)
    \/ NftIx(w, n, ix) \/ SubdomainIx(w, n, ix)

\* The single instructions of its trading commands.
SaleIx(w, n, ix) == ListingIx(w, n, ix) \/ BuyIx(w, n, ix) \/ OfferIx(w, n, ix) \/ AuctionIx(w, n, ix)

\* A transaction of a naming command: one instruction, or a registration whose
\* record is minted by a second one, or a delegation.
NameTx(t) ==
    \/ \E w \in Wallets, n \in Names : \E ix :
          /\ t.payer = w
          /\ \/ t.ixs = <<ix>> /\ NameIx(w, n, ix)
             \/ \E m \in Mints : \E c :
                   /\ t.ixs = <<ix, getTokenizeNameInstruction(w, findNameRecordPda(n), m, n)>>
                   /\ MintedIx(w, n, c, ix)
    \/ \E w \in Wallets, x \in Nat : t.payer = w /\ t.ixs = <<getApproveInstruction(w, x)>>

SaleTx(t) ==
    \E w \in Wallets, n \in Names : \E ix : t.payer = w /\ t.ixs = <<ix>> /\ SaleIx(w, n, ix)

\* A sent transaction of one instruction.
LEMMA SentOne ==
    ASSUME NEW w, NEW ix, sendInstructions(w, <<ix>>)
    PROVE  tx'.payer = w /\ tx'.ixs = <<ix>> /\ UNCHANGED vars
  BY DEF sendInstructions

\* Every naming command builds such a transaction and changes nothing else.
LEMMA NameCommandsBuild ==
    ASSUME NamesTypeOK, NameCommands \/ DelegationCommands
    PROVE  UNCHANGED vars /\ NameTx(tx')
  <1>1. ASSUME NEW w \in Wallets, NEW n \in Names, NEW ix, sendInstructions(w, <<ix>>), NameIx(w, n, ix)
        PROVE  UNCHANGED vars /\ NameTx(tx')
    BY <1>1, SentOne DEF NameTx
  <1>2. ASSUME NEW w \in Wallets, NEW n \in Names, NEW c, NEW m \in Mints, NEW ix, MintedIx(w, n, c, ix),
               sendInstructions(w, <<ix, getTokenizeNameInstruction(w, findNameRecordPda(n), m, n)>>)
        PROVE  UNCHANGED vars /\ NameTx(tx')
    BY <1>2 DEF NameTx, sendInstructions
  <1>3. ASSUME NEW w \in Wallets, NEW n \in Names, NEW o \in Wallets, NEW y \in Terms,
               NEW m \in Mints \cup {Absent}, NEW f \in Referrers \cup {Nil},
               cli_register(w, n, o, y, f, m)
        PROVE  UNCHANGED vars /\ NameTx(tx')
    <2> DEFINE register == getRegisterNameInstruction(w, o, FeeAccounts, ReferralAccount(f), n, y)
    <2>1. CASE m # Absent /\ o = w
      <3>1. sendInstructions(w, <<register, getTokenizeNameInstruction(w, findNameRecordPda(n), m, n)>>)
        BY <1>3, <2>1 DEF cli_register, buildRegisterInstructions
      <3>2. MintedIx(w, n, FeeAccounts, register)
        BY <2>1 DEF MintedIx
      <3>3. m \in Mints
        BY <2>1
      <3> HIDE DEF register
      <3> QED BY <1>2, <3>1, <3>2, <3>3
    <2>2. CASE ~(m # Absent /\ o = w)
      <3>1. sendInstructions(w, <<register>>)
        BY <1>3, <2>2 DEF cli_register, buildRegisterInstructions
      <3>2. NameIx(w, n, register)
        BY DEF NameIx, PaidIx
      <3> HIDE DEF register
      <3> QED BY <1>1, <3>1, <3>2
    <2> QED BY <2>1, <2>2
  <1>4. ASSUME NEW w \in Wallets, NEW n \in Names, NEW o \in Wallets, NEW y \in Terms,
               NEW m \in Mints \cup {Absent}, cli_register_pay_solans(w, n, o, y, m)
        PROVE  UNCHANGED vars /\ NameTx(tx')
    <2> DEFINE register == getRegisterWithSolansInstruction(w, o, n, y)
    <2>1. CASE m # Absent /\ o = w
      <3>1. sendInstructions(w, <<register, getTokenizeNameInstruction(w, findNameRecordPda(n), m, n)>>)
        BY <1>4, <2>1 DEF cli_register_pay_solans
      <3>2. MintedIx(w, n, FeeAccounts, register)
        BY <2>1 DEF MintedIx
      <3>3. m \in Mints
        BY <2>1
      <3> HIDE DEF register
      <3> QED BY <1>2, <3>1, <3>2, <3>3
    <2>2. CASE ~(m # Absent /\ o = w)
      <3>1. sendInstructions(w, <<register>>)
        BY <1>4, <2>2 DEF cli_register_pay_solans
      <3>2. NameIx(w, n, register)
        BY DEF NameIx, PaidIx
      <3> HIDE DEF register
      <3> QED BY <1>1, <3>1, <3>2
    <2> QED BY <2>1, <2>2
  <1>5. ASSUME NEW w \in Wallets, NEW n \in Names,
               \/ \E y \in Terms : \/ \E f \in Referrers \cup {Nil} : cli_renew(w, n, y, f) \/ cli_claim(w, n, y, f)
                                   \/ cli_renew_pay_solans(w, n, y)
               \/ cli_auto_renew(w, n)
        PROVE  UNCHANGED vars /\ NameTx(tx')
    <2>1. Exists(n) => rec[n].owner \in Wallets
      BY EnvironmentFacts DEF NameRecord
    <2>2. PICK ix : sendInstructions(w, <<ix>>) /\ PaidIx(w, n, FeeAccounts, ix)
      BY <1>5, <2>1 DEF cli_renew, cli_claim, cli_renew_pay_solans, cli_auto_renew,
                        buildRenewInstructions, PaidIx, RenewIx
    <2> QED BY <1>1, <2>2 DEF NameIx
  <1>6. ASSUME NEW w \in Wallets, NEW n \in Names,
               \/ \E k \in Keys, v \in Values \cup {Nil} : cli_record(w, n, k, v)
               \/ \E c \in Controllers \cup {Nil} : cli_set_controller(w, n, c)
               \/ \E r \in Resolvers \cup {Nil} : cli_set_resolver(w, n, r)
               \/ \E h \in Hosts \cup {Nil} : cli_set_hosting(w, n, h)
               \/ \E v \in Wallets : cli_transfer(w, n, v)
               \/ \E l \in BOOLEAN : cli_lock(w, n, l)
               \/ cli_burn(w, n)
        PROVE  UNCHANGED vars /\ NameTx(tx')
    <2>1. PICK ix : sendInstructions(w, <<ix>>) /\ EditIx(w, n, NftAccount(w, TokenizedAs(n)), ix)
      BY <1>6 DEF cli_record, cli_set_controller, cli_set_resolver, cli_set_hosting, cli_transfer,
                  cli_lock, cli_burn, buildUpdateRecordInstructions, buildSetControllerInstructions,
                  buildSetResolverInstructions, buildSetHostingInstructions,
                  buildTransferInstructions, buildLockTransferInstructions,
                  buildBurnNameInstructions, EditIx
    <2> QED BY <1>1, <2>1 DEF NameIx
  <1>7. ASSUME NEW w \in Wallets, NEW n \in Names,
               cli_set_reverse(w, n) \/ cli_redeem(w, n) \/ \E m \in Mints : cli_tokenize(w, n, m)
        PROVE  UNCHANGED vars /\ NameTx(tx')
    <2>1. TokenizedAs(n) # Absent => rec[n].nft_mint \in Mints
      BY EnvironmentFacts DEF TokenizedAs, Opt, NameRecord
    <2>2. PICK ix : sendInstructions(w, <<ix>>) /\ NftIx(w, n, ix)
      BY <1>7, <2>1 DEF cli_set_reverse, cli_redeem, cli_tokenize, buildSetReverseInstructions,
                        buildRedeemInstructions, buildTokenizeInstructions, NftIx
    <2> QED BY <1>1, <2>2 DEF NameIx
  <1>8. ASSUME NEW w \in Wallets, NEW n \in Names, NEW c \in Names,
               \/ \E o \in Wallets : cli_subdomain_create(w, n, c, o)
               \/ cli_subdomain_revoke(w, n, c)
        PROVE  UNCHANGED vars /\ NameTx(tx')
    <2>1. PICK ix : sendInstructions(w, <<ix>>) /\ SubdomainIx(w, n, ix)
      BY <1>8 DEF cli_subdomain_create, cli_subdomain_revoke, buildWrapSubdomainInstructions,
                  buildRevokeSubdomainInstructions, SubdomainIx
    <2> QED BY <1>1, <2>1 DEF NameIx
  <1>10. CASE NameCommands
    <2>1. PICK w \in Users, n \in Names :
            \/ \E o \in Wallets, y \in Terms, m \in Mints \cup {Absent} :
                 \/ \E f \in Referrers \cup {Nil} : cli_register(w, n, o, y, f, m)
                 \/ cli_register_pay_solans(w, n, o, y, m)
            \/ \E y \in Terms :
                 \/ \E f \in Referrers \cup {Nil} : cli_renew(w, n, y, f) \/ cli_claim(w, n, y, f)
                 \/ cli_renew_pay_solans(w, n, y)
            \/ cli_auto_renew(w, n)
            \/ \E k \in Keys, v \in Values \cup {Nil} : cli_record(w, n, k, v)
            \/ \E c \in Controllers \cup {Nil} : cli_set_controller(w, n, c)
            \/ \E r \in Resolvers \cup {Nil} : cli_set_resolver(w, n, r)
            \/ \E h \in Hosts \cup {Nil} : cli_set_hosting(w, n, h)
            \/ \E v \in Wallets : cli_transfer(w, n, v)
            \/ \E l \in BOOLEAN : cli_lock(w, n, l)
            \/ cli_set_reverse(w, n) \/ cli_burn(w, n) \/ cli_redeem(w, n)
            \/ \E m \in Mints : cli_tokenize(w, n, m)
            \/ \E c \in Names :
                 \/ \E o \in Wallets : cli_subdomain_create(w, n, c, o)
                 \/ cli_subdomain_revoke(w, n, c)
      BY <1>10 DEF NameCommands
    <2>2. w \in Wallets
      BY UserAssumption
    <2> QED BY <2>1, <2>2, <1>3, <1>4, <1>5, <1>6, <1>7, <1>8
  <1>11. CASE DelegationCommands
    <2>1. PICK w \in Users, x \in ApproveAmounts \cup {0} :
               sendInstructions(w, <<getApproveInstruction(w, x)>>)
      BY <1>11 DEF DelegationCommands, cli_auto_renew_enable
    <2>2. w \in Wallets /\ x \in Nat
      BY UserAssumption, RegistryAssumption
    <2> QED BY <2>1, <2>2, SentOne DEF NameTx
  <1> QED BY <1>10, <1>11

\* The price a buyer reads is one that some listing asked.
PricesListed == \A n \in Names : listing[n] # Nil => listing[n].price \in Prices

\* Every trading command builds one instruction and changes nothing else (list,
\* buy, offer, accept-offer, auction start, bid, settle, ...).
LEMMA SaleCommandsBuild ==
    ASSUME MarketInv, PricesListed, SaleCommands
    PROVE  UNCHANGED vars /\ SaleTx(tx')
  <1>0. /\ \A k \in Names : listing[k] # Nil => listing[k].seller \in Wallets
        /\ \A k \in Names : auction[k] # Nil => auction[k].seller \in Wallets
        /\ config.params.sol_treasury \in Wallets
    <2>1. config.params \in Params(Wallets)
      BY MarketFacts, LedgerFacts
    <2> QED BY <2>1, MarketFacts DEF Listing, Auction, Params
  <1>1. ASSUME NEW w \in Wallets, NEW n \in Names, NEW ix, sendInstructions(w, <<ix>>), SaleIx(w, n, ix)
        PROVE  UNCHANGED vars /\ SaleTx(tx')
    BY <1>1, SentOne DEF SaleTx
  <1>2. ASSUME NEW w \in Wallets, NEW n \in Names,
               \/ \E p \in Prices, d \in Durations : cli_list(w, n, p, d) \/ cli_update_listing(w, n, p, d)
               \/ cli_unlist(w, n)
        PROVE  UNCHANGED vars /\ SaleTx(tx')
    <2>1. PICK ix : sendInstructions(w, <<ix>>) /\ ListingIx(w, n, ix)
      BY <1>0, <1>2 DEF cli_list, cli_update_listing, cli_unlist, buildListInstructions,
                        buildCancelListingInstructions, ListingIx
    <2> QED BY <1>1, <2>1 DEF SaleIx
  <1>3. ASSUME NEW w \in Wallets, NEW n \in Names, cli_buy(w, n)
        PROVE  UNCHANGED vars /\ SaleTx(tx')
    <2>1. PICK ix : sendInstructions(w, <<ix>>) /\ BuyIx(w, n, ix)
      BY <1>0, <1>3 DEF cli_buy, buildBuyInstructions, BuyIx, PricesListed
    <2> QED BY <1>1, <2>1 DEF SaleIx
  <1>4. ASSUME NEW w \in Wallets, NEW n \in Names,
               \/ \E x \in OfferAmounts, d \in Durations : cli_offer(w, n, x, d)
               \/ \E v \in Wallets : cli_accept_offer(w, n, v) \/ cli_cancel_offer(w, n, v)
        PROVE  UNCHANGED vars /\ SaleTx(tx')
    <2>1. PICK ix : sendInstructions(w, <<ix>>) /\ OfferIx(w, n, ix)
      BY <1>0, <1>4 DEF cli_offer, cli_accept_offer, cli_cancel_offer, buildMakeOfferInstructions,
                        buildAcceptOfferInstructions, buildCancelOfferInstructions, OfferIx
    <2> QED BY <1>1, <2>1 DEF SaleIx
  <1>5. ASSUME NEW w \in Wallets, NEW n \in Names,
               \/ \E r \in Reserves, i \in Increments, d \in Durations : cli_auction_start(w, n, r, i, d)
               \/ \E x \in Bids : cli_bid(w, n, x)
               \/ cli_auction_settle(w, n) \/ cli_auction_cancel(w, n)
        PROVE  UNCHANGED vars /\ SaleTx(tx')
    <2>1. ASSUME NEW x \in Bids, cli_bid(w, n, x)
          PROVE  \E ix : sendInstructions(w, <<ix>>) /\ AuctionIx(w, n, ix)
      <3> DEFINE v == Opt(auction[n].highest_bidder)
                 a == IF v = Absent THEN Absent ELSE ataFor(v, SOLANS_MINT)
      <3>1. SolansAccountOrNone(a)
        BY DEF SolansAccountOrNone
      <3>2. sendInstructions(w, <<getBidInstruction(w, findAuction(n), ataFor(w, SOLANS_MINT), a,
                                                    bidVaultOf(n), x)>>)
        BY <2>1 DEF cli_bid, buildBidInstructions
      <3> HIDE DEF a
      <3> QED BY <3>1, <3>2 DEF AuctionIx
    <2>2. ASSUME cli_auction_settle(w, n)
          PROVE  \E ix : sendInstructions(w, <<ix>>) /\ AuctionIx(w, n, ix)
      <3> DEFINE v == Opt(auction[n].highest_bidder)
                 s == auction[n].seller
                 a == IF v = Absent THEN Absent ELSE ataFor(s, SOLANS_MINT)
      <3>1. SolansAccountOrNone(a)
        BY DEF SolansAccountOrNone
      <3>2. /\ sendInstructions(w, <<getSettleAuctionInstruction(w, s, a, findNameRecordPda(n),
                                                                  findAuction(n), bidVaultOf(n))>>)
            /\ s \in Wallets
        BY <1>0, <2>2 DEF cli_auction_settle, buildSettleAuctionInstructions
      <3> HIDE DEF a, s
      <3> QED BY <3>1, <3>2 DEF AuctionIx
    <2>3. PICK ix : sendInstructions(w, <<ix>>) /\ AuctionIx(w, n, ix)
      <3>1. ASSUME \/ \E r \in Reserves, i \in Increments, d \in Durations : cli_auction_start(w, n, r, i, d)
                   \/ cli_auction_cancel(w, n)
            PROVE  \E ix : sendInstructions(w, <<ix>>) /\ AuctionIx(w, n, ix)
        BY <3>1 DEF cli_auction_start, cli_auction_cancel, buildStartAuctionInstructions,
                    buildCancelAuctionInstructions, AuctionIx
      <3> QED BY <1>5, <2>1, <2>2, <3>1
    <2> QED BY <1>1, <2>3 DEF SaleIx
  <1>6. PICK w \in Users, n \in Names :
            \/ \E p \in Prices, d \in Durations : cli_list(w, n, p, d) \/ cli_update_listing(w, n, p, d)
            \/ cli_unlist(w, n) \/ cli_buy(w, n)
            \/ \E x \in OfferAmounts, d \in Durations : cli_offer(w, n, x, d)
            \/ \E v \in Wallets : cli_accept_offer(w, n, v) \/ cli_cancel_offer(w, n, v)
            \/ \E r \in Reserves, i \in Increments, d \in Durations : cli_auction_start(w, n, r, i, d)
            \/ \E x \in Bids : cli_bid(w, n, x)
            \/ cli_auction_settle(w, n) \/ cli_auction_cancel(w, n)
    BY DEF SaleCommands
  <1>7. w \in Wallets
    BY UserAssumption
  <1> QED BY <1>2, <1>3, <1>4, <1>5, <1>6, <1>7

\* Listings ask prices from Prices.
LEMMA PricesKept ==
    ASSUME MarketInv, PricesListed, [Next]_vars
    PROVE  PricesListed'
  <1>0. DOMAIN listing = Names
    BY SaleDomains
  <1>1. ASSUME UNCHANGED listing PROVE PricesListed'
    BY <1>1 DEF PricesListed
  <1>2. CASE UNCHANGED vars \/ UNCHANGED marketVars
    BY <1>1, <1>2 DEF vars, marketVars
  <1>3. CASE Trading
    <2>1. PICK w \in Wallets, n \in Names :
             \/ \E p \in Prices, d \in Durations : ListName(w, n, p, d) \/ UpdateListing(w, n, p, d)
             \/ CancelListing(w, n)
             \/ \E p \in Prices : BuyName(w, n, p)
             \/ \E x \in OfferAmounts, d \in Durations : MakeOffer(w, n, x, d)
             \/ \E v \in Wallets : CancelOffer(w, n, v) \/ AcceptOffer(w, n, v)
      BY <1>3 DEF Trading
    <2>2. CASE \E p \in Prices, d \in Durations : ListName(w, n, p, d) \/ UpdateListing(w, n, p, d)
      <3>1. PICK p \in Prices : \E e :
              listing' = [listing EXCEPT ![n] = [seller |-> w, price |-> p, expires_at |-> e]]
        BY <2>2 DEF ListName, UpdateListing
      <3> QED BY <1>0, <3>1 DEF PricesListed
    <2>3. CASE CancelListing(w, n) \/ \E p \in Prices : BuyName(w, n, p)
      BY <1>0, <2>3 DEF CancelListing, BuyName, PricesListed
    <2>4. CASE \/ \E x \in OfferAmounts, d \in Durations : MakeOffer(w, n, x, d)
               \/ \E v \in Wallets : CancelOffer(w, n, v) \/ AcceptOffer(w, n, v)
      BY <1>1, <2>4 DEF MakeOffer, CancelOffer, AcceptOffer
    <2> QED BY <2>1, <2>2, <2>3, <2>4
  <1>4. CASE Auctions
    BY <1>1, <1>4 DEF Auctions, StartAuction, Bid, CancelAuction, SettleAuction
  <1> QED BY <1>2, <1>3, <1>4 DEF Next

-----------------------------------------------------------------------------
(* Landing. *)

\* What a transaction of one instruction declares and runs.
LEMMA DeclaredOne ==
    ASSUME NEW ix, tx.ixs = <<ix>>
    PROVE  /\ tx.payer \in Declared /\ Writable(ix) \subseteq Declared
           /\ Land => Run(ix)
  <1>1. 1 \in DOMAIN tx.ixs /\ tx.ixs[1] = ix /\ Len(tx.ixs) = 1
    OBVIOUS
  <1> QED BY <1>1 DEF Declared, Land

\* What changes accounts of Declared keeps the promise.
LEMMA DeclaredKept ==
    ASSUME NamesChangedIn(Declared), SalesChangedIn(Declared)
    PROVE  WritesDeclared
  BY ChangedIn DEF WritesDeclared

\* A naming transaction that lands keeps every promise of the registry and its
\* marketplace, whatever happened since it was built.
LEMMA LandNames ==
    ASSUME MarketInv, NameTx(tx), Land
    PROVE  MarketStep /\ WritesDeclared
  <1>0. NamesTypeOK /\ RegistryInv
    BY MarketFacts
  <1>1. ASSUME NEW w \in Wallets, NEW n \in Names, NEW ix, tx.ixs = <<ix>>, NameIx(w, n, ix)
        PROVE  MarketStep /\ WritesDeclared
    <2>1. Run(ix) /\ Writable(ix) \subseteq Declared
      BY <1>1, DeclaredOne
    <2>2. NamesLanded(Declared)
      BY <1>0, <1>1, <2>1, LandPaid, LandEdit, LandNft, LandSubdomain DEF NameIx
    <2>3. NamesNext /\ UNCHANGED marketVars /\ NamesChangedIn(Declared)
      BY <2>2 DEF NamesLanded
    <2> QED BY <2>3, SalesStill, DeclaredKept, RegistryMarketStep
  <1>2. ASSUME NEW w \in Wallets, NEW n \in Names, NEW ix, NEW m \in Mints, NEW c,
               tx.ixs = <<ix, getTokenizeNameInstruction(w, findNameRecordPda(n), m, n)>>,
               MintedIx(w, n, c, ix)
        PROVE  MarketStep /\ WritesDeclared
    <2> DEFINE second == getTokenizeNameInstruction(w, findNameRecordPda(n), m, n)
    <2>1. second.data.mint = m /\ Mint(m) \in Writable(second)
      BY TokenizeAccounts
    <2> HIDE DEF second
    <2>2. /\ 1 \in DOMAIN tx.ixs /\ tx.ixs[1] = ix /\ 2 \in DOMAIN tx.ixs /\ tx.ixs[2] = second
          /\ Len(tx.ixs) # 1
      BY <1>2 DEF second
    <2>3. Writable(ix) \subseteq Declared /\ Mint(m) \in Declared
      BY <2>1, <2>2 DEF Declared
    <2>4. RunRegisterAndTokenize(ix, m)
      BY <2>1, <2>2 DEF Land
    <2>5. RegistryStep /\ SaleKept /\ NamesChangedIn(Declared)
      BY <1>0, <1>2, <2>3, <2>4, LandMinted
    <2>6. UNCHANGED marketVars
      BY <2>4 DEF RunRegisterAndTokenize, marketVars
    <2> QED BY <2>5, <2>6, SalesStill, DeclaredKept, KeptMarketStep
  <1>3. ASSUME NEW w \in Wallets, NEW x \in Nat, tx.ixs = <<getApproveInstruction(w, x)>>
        PROVE  MarketStep /\ WritesDeclared
    <2>1. /\ Run(getApproveInstruction(w, x))
          /\ Writable(getApproveInstruction(w, x)) \subseteq Declared
      BY <1>3, DeclaredOne
    <2>2. Approve(w, x) /\ UNCHANGED marketVars /\ NamesChangedIn(Declared)
      BY <1>0, <2>1, LandApprove
    <2>3. RegistryStep /\ SaleKept
      BY <1>0, <2>2, ApproveKeeps
    <2> QED BY <2>2, <2>3, SalesStill, DeclaredKept, KeptMarketStep
  <1> QED BY <1>1, <1>2, <1>3 DEF NameTx

\* A purchase at the price p from the seller that was read.
LEMMA BuyerPays ==
    ASSUME MarketInv, NEW w \in Wallets, NEW n \in Names, NEW p \in Nat, BuyName(w, n, p)
    PROVE  /\ rec'[n].owner = w /\ ~rec'[n].listed
           /\ sol[w] - sol'[w] <= p /\ rec[n].owner = listing[n].seller
  <1> DEFINE s == listing[n].seller
             t == config.params.sol_treasury
             f == Fee(p)
  <1>1. /\ rec \in [Names -> NameRecord \cup {Nil}] /\ sol \in [Wallets -> Nat]
        /\ rec[n] \in NameRecord /\ f \in Nat /\ f <= p
        /\ s \in Wallets /\ t \in Wallets
    <2>1. config.params \in Params(Wallets) /\ LedgerOK
      BY MarketFacts, LedgerFacts
    <2>2. f \in 0..p
      BY <2>1, FeeBound
    <2> QED BY <2>1, <2>2, MarketFacts
            DEF Params, NamesTypeOK, SaleTypeOK, BuyName, Exists, Listing
  <1>2. /\ w # s /\ sol' = [[[sol EXCEPT ![w] = @ - p] EXCEPT ![s] = @ + (p - f)] EXCEPT ![t] = @ + f]
        /\ rec' = [rec EXCEPT ![n] = Unlisted(Handover(rec[n], w))] /\ rec[n].owner = s
    BY DEF BuyName, Put
  <1>3. Released(rec[n], Unlisted(Handover(rec[n], w))) /\ Unlisted(Handover(rec[n], w)).owner = w
    <2>1. Handover(rec[n], w) \in NameRecord /\ Handover(rec[n], w).owner = w
      BY <1>1, HandoverFacts DEF SameTerm, SameIdentity
    <2> QED BY <1>1, <2>1, SoldReleased, UnlistedFacts
  <1>4. rec'[n] = Unlisted(Handover(rec[n], w))
    BY <1>1, <1>2
  <1> HIDE DEF s, t, f
  <1>5. sol'[w] = sol[w] - p + (IF w = t THEN f ELSE 0)
    BY <1>1, <1>2
  <1>6. sol[w] - sol'[w] <= p
    BY <1>1, <1>5
  <1> QED BY <1>2, <1>3, <1>4, <1>6 DEF Released, s

\* A trading transaction that lands is one step of the marketplace, and a
\* purchase costs what the buyer read.
LEMMA LandSales ==
    ASSUME MarketInv, SaleTx(tx), Land
    PROVE  Next /\ WritesDeclared /\ PaysPriceRead
  <1>0. PICK w \in Wallets, n \in Names :
          \E ix : tx.payer = w /\ tx.ixs = <<ix>> /\ SaleIx(w, n, ix)
    BY DEF SaleTx
  <1>1. PICK ix : tx.payer = w /\ tx.ixs = <<ix>> /\ SaleIx(w, n, ix)
    BY <1>0
  <1>2. Run(ix) /\ Writable(ix) \subseteq Declared /\ w \in Declared
    BY <1>1, DeclaredOne
  <1>3. SaleLanded(Declared)
    BY <1>1, <1>2, LandListing, LandBuy, LandOffer, LandAuction DEF SaleIx
  <1>4. Next /\ WritesDeclared
    BY <1>3, DeclaredKept DEF SaleLanded
  <1>5. tx.ixs[1] = ix
    BY <1>1
  <1>6. CASE BuyIx(w, n, ix)
    <2>1. /\ NameAt(ix, 6) = n /\ AccountAt(ix, 2) = listing[n].seller
          /\ ix.data.expectedPrice \in Nat /\ BuyName(w, n, ix.data.expectedPrice)
      <3>1. /\ SaleLanded(Declared)
            /\ NameAt(ix, 6) = n /\ AccountAt(ix, 2) = listing[n].seller
            /\ ix.data.expectedPrice \in Prices /\ BuyName(w, n, ix.data.expectedPrice)
        BY <1>2, <1>6, LandBuy
      <3> QED BY <3>1, MarketAssumption
    <2> QED BY <1>1, <1>4, <1>5, <2>1, BuyerPays DEF PaysPriceRead
  <1>7. CASE ListingIx(w, n, ix) \/ OfferIx(w, n, ix) \/ AuctionIx(w, n, ix)
    <2>1. ix.name # "buy_name"
      BY <1>7 DEF ListingIx, OfferIx, AuctionIx, Instruction, getListNameInstruction,
                  getUpdateListingInstruction, getCancelListingInstruction,
                  getMakeOfferInstruction, getCancelOfferInstruction, getAcceptOfferInstruction,
                  getStartAuctionInstruction, getBidInstruction, getSettleAuctionInstruction,
                  getCancelAuctionInstruction
    <2> QED BY <1>4, <1>5, <2>1 DEF PaysPriceRead
  <1> QED BY <1>1, <1>6, <1>7 DEF SaleIx

\* Nothing changes when a transaction is given up.
LEMMA AbortKeeps ==
    ASSUME UNCHANGED vars
    PROVE  WritesDeclared /\ PaysPriceRead
  <1>1. UNCHANGED namesVars /\ UNCHANGED marketVars /\ sol' = sol
    BY DEF vars, marketVars
  <1> QED BY <1>1, NamesStill, SalesStill, DeclaredKept DEF PaysPriceRead

\* Nor is anything promised of a step that lands no transaction.
LEMMA NotLanding ==
    ASSUME tx = Nil \/ tx' = tx
    PROVE  WritesDeclared /\ PaysPriceRead
  BY DEF WritesDeclared, PaysPriceRead, Landing

-----------------------------------------------------------------------------
(* The naming commands. *)

\* The inductive invariant of the naming commands: the registry's, and that the
\* transaction in flight was built by one of them.
NameCommandsInv == MarketInv /\ (tx # Nil => NameTx(tx))

\* A record of the first hour, registered for a year.
Founding(r) ==
    /\ r \in NameRecord /\ r.registered_at = 0 /\ r.expires_at = Year /\ r.parent = Nil
    /\ r.parent_registered_at = 0 /\ r.nft_mint = Nil /\ r.reverse_set = FALSE
    /\ r.listed = FALSE

\* What the session finds registered is such a record, whenever it starts
\* (init_top_level_record, called when the registry was new).
LEMMA FoundingRecord ==
    ASSUME NEW w \in Wallets, now \in Nat
    PROVE  Founding([init_top_level_record(w, Year) EXCEPT !.registered_at = 0])
  <1> DEFINE r == init_top_level_record(w, Year)
  <1>1. Year \in Nat /\ MaxDepth \in Nat
    BY RegistryAssumption
  <1>2. /\ r \in NameRecord /\ r.expires_at = Year /\ r.parent = Nil
        /\ r.parent_registered_at = 0 /\ r.nft_mint = Nil /\ r.reverse_set = FALSE
        /\ r.listed = FALSE
    BY <1>1 DEF init_top_level_record, NameRecord, NoRecords
  <1> HIDE DEF r
  <1>3. Founding([r EXCEPT !.registered_at = 0])
    BY <1>2 DEF Founding, NameRecord
  <1> QED BY <1>3 DEF r

\* A deployed registry with such records of top-level names and nothing else is
\* in a state it can be in.
LEMMA FoundingState ==
    ASSUME Deployed, MoneyTypeOK, now \in Nat, NothingElse, NEW r, Founding(r),
           rec \in [Names -> {r, Nil}], \A n \in Names : rec[n] # Nil => TopLevel(n)
    PROVE  MarketInv
  <1>1. config # Nil /\ ValidParams(config.params)
    BY DeployedConfig
  <1>2. /\ rec \in [Names -> NameRecord \cup {Nil}] /\ reverse \in [Wallets -> Names \cup {Nil}]
        /\ holder \in [Mints -> Wallets \cup {Nil}] /\ allowance \in [Wallets -> Nat]
    BY DEF Founding, NothingElse
  <1>3. NamesTypeOK
    BY <1>1, <1>2 DEF NamesTypeOK
  <1>4. /\ listing \in [Names -> Listing \cup {Nil}]
        /\ offer \in [Names -> [Wallets -> Offer \cup {Nil}]]
        /\ escrow \in [Names -> [Wallets -> Nat]]
        /\ auction \in [Names -> Auction \cup {Nil}]
        /\ bidVault \in [Names -> Nat] /\ sol \in [Wallets -> Nat]
    BY MarketAssumption DEF NothingElse
  <1>5. RegistryInv /\ FrozenHasSale
    <2>1. \A n \in Names : Exists(n) => rec[n] = r /\ ParentOf[n] = Nil
      BY DEF Exists, TopLevel
    <2>2. Tenured(r)
      BY RegistryAssumption DEF Tenured, Founding
    <2> QED BY <2>1, <2>2
            DEF RegistryInv, NftBacked, ReverseBacked, TenureOrder, SaleUnminted,
                FrozenHasSale, Founding, TopLevel
  <1>6. EscrowsFunded
    BY DEF NothingElse, EscrowsFunded
  <1> QED BY <1>3, <1>4, <1>5, <1>6 DEF MarketInv, MarketTypeOK

\* A session starts in a state the registry can be in.
LEMMA SessionInitial ==
    ASSUME SessionInit
    PROVE  NameCommandsInv
  <1>1. PICK w \in Wallets, taken \in SUBSET {n \in Names : TopLevel(n)} :
          rec = [n \in Names |->
                   IF n \in taken THEN [init_top_level_record(w, Year) EXCEPT !.registered_at = 0]
                   ELSE Nil]
    BY DEF SessionInit
  <1> DEFINE r == [init_top_level_record(w, Year) EXCEPT !.registered_at = 0]
  <1>2. now \in Nat
    BY RegistryAssumption DEF SessionInit
  <1>3. Founding(r)
    BY <1>2, FoundingRecord
  <1>4. rec \in [Names -> {r, Nil}] /\ \A n \in Names : rec[n] # Nil => TopLevel(n)
    BY <1>1
  <1> HIDE DEF r
  <1>5. MoneyTypeOK
    BY DeployedConfig, MoneyAssumption DEF SessionInit, MoneyTypeOK
  <1>6. MarketInv
    BY <1>2, <1>3, <1>4, <1>5, FoundingState DEF SessionInit
  <1> QED BY <1>6 DEF NameCommandsInv, SessionInit

\* What the commands and everyone else keep, one step at a time.
LEMMA NameCommandsStep ==
    ASSUME NameCommandsInv,
           [NameCommands \/ DelegationCommands \/ Land \/ Abort \/ NameOthers]_cmdVars
    PROVE  /\ NameCommandsInv' /\ [ClearsOnHandover]_namesVars /\ [WritesDeclared]_cmdVars
  <1>0. MarketInv /\ NamesTypeOK
    BY MarketFacts DEF NameCommandsInv
  <1>1. ASSUME UNCHANGED vars PROVE MarketInv' /\ [ClearsOnHandover]_namesVars
    BY <1>0, <1>1, InvariantStep DEF vars
  <1>2. ASSUME MarketStep PROVE MarketInv' /\ [ClearsOnHandover]_namesVars
    BY <1>2 DEF MarketStep
  <1>3. CASE NameCommands \/ DelegationCommands
    <2>1. tx = Nil
      BY <1>3 DEF NameCommands, DelegationCommands
    <2>2. UNCHANGED vars /\ NameTx(tx')
      BY <1>0, <1>3, NameCommandsBuild
    <2> QED BY <1>1, <2>1, <2>2, NotLanding DEF NameCommandsInv
  <1>4. CASE Land
    <2>1. tx # Nil /\ tx' = Nil
      BY <1>4 DEF Land
    <2>2. MarketStep /\ WritesDeclared
      BY <1>0, <1>4, <2>1, LandNames DEF NameCommandsInv
    <2> QED BY <1>2, <2>1, <2>2 DEF NameCommandsInv
  <1>5. CASE Abort
    <2>1. UNCHANGED vars /\ tx' = Nil
      BY <1>5 DEF Abort
    <2> QED BY <1>1, <2>1, AbortKeeps DEF NameCommandsInv
  <1>6. CASE NameOthers
    <2>1. NamesNext /\ UNCHANGED marketVars /\ tx' = tx
      BY <1>6 DEF NameOthers, NamesNext, Management, Environment
    <2>2. MarketStep
      BY <1>0, <2>1, RegistryMarketStep
    <2> QED BY <1>2, <2>1, <2>2, NotLanding DEF NameCommandsInv
  <1>7. CASE UNCHANGED cmdVars
    <2>1. UNCHANGED vars /\ tx' = tx
      BY <1>7 DEF cmdVars
    <2> QED BY <1>1, <1>7, <2>1 DEF NameCommandsInv
  <1> QED BY <1>3, <1>4, <1>5, <1>6, <1>7

\* The invariant holds throughout a session of naming commands.
THEOREM NameCommandsInvariance == NameCommandsSpec => []NameCommandsInv
  <1>1. SessionInit => NameCommandsInv
    BY SessionInitial
  <1>2. NameCommandsInv
        /\ [NameCommands \/ DelegationCommands \/ Land \/ Abort \/ NameOthers]_cmdVars
          => NameCommandsInv'
    BY NameCommandsStep
  <1> QED BY <1>1, <1>2, PTL DEF NameCommandsSpec

\* Whatever naming commands are in flight, and however late they land, the
\* registry keeps its accounts well typed, every tokenized name redeemable, and
\* every reverse flag with an owner that has a reverse record; a name changes
\* hands without delegate and flag (cli register, renew, claim, record,
\* transfer, tokenize, redeem, ...).
THEOREM NameCommandsKeepRegistry ==
    NameCommandsSpec => [](MarketTypeOK /\ NftBacked /\ ReverseBacked) /\ HandoverClears
  <1>1. NameCommandsInv => MarketTypeOK /\ NftBacked /\ ReverseBacked
    BY DEF NameCommandsInv, MarketInv, RegistryInv
  <1>2. NameCommandsInv
        /\ [NameCommands \/ DelegationCommands \/ Land \/ Abort \/ NameOthers]_cmdVars
          => [ClearsOnHandover]_namesVars
    BY NameCommandsStep
  <1> QED BY <1>1, <1>2, NameCommandsInvariance, PTL DEF NameCommandsSpec, HandoverClears

\* A naming transaction writes only the accounts it declared, whatever happened
\* between the reads that chose them and its landing: the fee accounts, the
\* owner whose delegation is charged and the mint may all be stale by then (the
\* account constraints of the program and the flags of the generated builders).
THEOREM NameCommandsDeclare == NameCommandsSpec => DeclaredWrites
  <1>1. NameCommandsInv
        /\ [NameCommands \/ DelegationCommands \/ Land \/ Abort \/ NameOthers]_cmdVars
          => [WritesDeclared]_cmdVars
    BY NameCommandsStep
  <1> QED BY <1>1, NameCommandsInvariance, PTL DEF NameCommandsSpec, DeclaredWrites

-----------------------------------------------------------------------------
(* The trading commands. *)

\* The inductive invariant of the trading commands.
SaleCommandsInv == SaleInv /\ PricesListed /\ (tx # Nil => SaleTx(tx))

\* Trading starts in a state the marketplace can be in.
LEMMA TradingInitial ==
    ASSUME SaleInit
    PROVE  SaleCommandsInv /\ DeliveryVersusPayment!SaleInit
  <1>1. PICK w \in Wallets :
          rec = [n \in Names |-> IF TopLevel(n) THEN init_top_level_record(w, Year) ELSE Nil]
    BY DEF SaleInit
  <1> DEFINE r == init_top_level_record(w, Year)
  <1>2. now = 0
    BY DEF SaleInit
  <1>3. Founding(r)
    <2>1. Year \in Nat /\ MaxDepth \in Nat
      BY RegistryAssumption
    <2> QED BY <1>2, <2>1 DEF Founding, init_top_level_record, NameRecord, NoRecords
  <1>4. rec \in [Names -> {r, Nil}] /\ \A n \in Names : rec[n] # Nil => TopLevel(n)
    BY <1>1
  <1> HIDE DEF r
  <1>5. MoneyTypeOK
    BY DeployedConfig, MoneyAssumption DEF SaleInit, MoneyInit, MoneyTypeOK
  <1>6. MarketInv
    BY <1>2, <1>3, <1>4, <1>5, FoundingState DEF SaleInit
  <1>7. BidStanding /\ PricesListed /\ \A n \in Names : auction[n] = Nil
    BY DEF SaleInit, NothingElse, BidStanding, PricesListed
  <1>8. DeliveryVersusPayment!SaleInit
    BY <1>6, <1>7, UnsoldInitial
  <1> QED BY <1>6, <1>7, <1>8 DEF SaleCommandsInv, SaleInv, SaleInit

\* What the commands and everyone else do is a step of the marketplace, and
\* keeps what the client promises.
LEMMA SaleCommandsStep ==
    ASSUME SaleCommandsInv, [SaleCommands \/ Outcome]_cmdVars
    PROVE  /\ SaleCommandsInv' /\ [Next]_vars
           /\ [WritesDeclared]_cmdVars /\ [PaysPriceRead]_cmdVars
  <1>0. MarketInv /\ PricesListed /\ BidStanding
    BY DEF SaleCommandsInv, SaleInv
  <1>1. ASSUME [Next]_vars, tx' # Nil => SaleTx(tx') PROVE SaleCommandsInv' /\ [Next]_vars
    BY <1>0, <1>1, InvariantStep, BidStandingKept, PricesKept DEF SaleCommandsInv, SaleInv
  <1>2. CASE SaleCommands
    <2>1. tx = Nil
      BY <1>2 DEF SaleCommands
    <2>2. UNCHANGED vars /\ SaleTx(tx')
      BY <1>0, <1>2, SaleCommandsBuild
    <2> QED BY <1>1, <2>1, <2>2, NotLanding
  <1>3. CASE Land
    <2>1. tx # Nil /\ tx' = Nil
      BY <1>3 DEF Land
    <2>2. Next /\ WritesDeclared /\ PaysPriceRead
      BY <1>0, <1>3, <2>1, LandSales DEF SaleCommandsInv
    <2> QED BY <1>1, <2>1, <2>2
  <1>4. CASE Abort
    <2>1. UNCHANGED vars /\ tx' = Nil
      BY <1>4 DEF Abort
    <2> QED BY <1>1, <2>1, AbortKeeps
  <1>5. CASE Others
    <2>1. Next /\ tx' = tx
      BY <1>5 DEF Others
    <2> QED BY <1>1, <2>1, NotLanding DEF SaleCommandsInv
  <1>6. CASE UNCHANGED cmdVars
    <2>1. UNCHANGED vars /\ tx' = tx
      BY <1>6 DEF cmdVars
    <2> QED BY <1>1, <1>6, <2>1 DEF SaleCommandsInv
  <1> QED BY <1>2, <1>3, <1>4, <1>5, <1>6 DEF Outcome

\* Seen without the transaction in flight, trading through the client is the
\* marketplace with its invariant.
THEOREM SaleCommandsAreSales ==
    SaleCommandsSpec => []SaleCommandsInv /\ [][Next]_vars
  <1>1. SaleInit => SaleCommandsInv
    BY TradingInitial
  <1>2. SaleCommandsInv /\ [SaleCommands \/ Outcome]_cmdVars => SaleCommandsInv' /\ [Next]_vars
    BY SaleCommandsStep
  <1> QED BY <1>1, <1>2, PTL DEF SaleCommandsSpec

\* A trading transaction writes only the accounts it declared, although the
\* listing it was built from may have been changed, sold or withdrawn before it
\* landed (buy, unlist, accept-offer, cancel-offer, settle and the account
\* constraints they meet in the program).
THEOREM SaleCommandsDeclare == SaleCommandsSpec => DeclaredWrites
  <1>1. SaleCommandsInv /\ [SaleCommands \/ Outcome]_cmdVars => [WritesDeclared]_cmdVars
    BY SaleCommandsStep
  <1> QED BY <1>1, SaleCommandsAreSales, PTL DEF SaleCommandsSpec, DeclaredWrites

\* A buyer pays at most the price the client read when it built the purchase,
\* and buys from the seller it read (cli buy, and the expected price and seller
\* that buy_name compares).
THEOREM BuyersPayWhatTheyRead == SaleCommandsSpec => BuyerPaysPriceRead
  <1>1. SaleCommandsInv /\ [SaleCommands \/ Outcome]_cmdVars => [PaysPriceRead]_cmdVars
    BY SaleCommandsStep
  <1> QED BY <1>1, SaleCommandsAreSales, PTL DEF SaleCommandsSpec, BuyerPaysPriceRead

\* Whatever trading commands are in flight, every frozen name keeps a sale of
\* its owner, the escrows hold what they owe, what is for sale does not change,
\* auctions move forward, offers end whole, and a listed name is only handed
\* over for its price (the marketplace behind the commands list to settle).
THEOREM SaleCommandsKeepMarket ==
    SaleCommandsSpec =>
        /\ [](FrozenHasSale /\ EscrowsFunded)
        /\ SaleFreezes /\ BidsMoveForward /\ OfferAllOrNothing /\ ListedSoldForPay
  <1>1. SaleCommandsInv => MarketInv /\ FrozenHasSale /\ EscrowsFunded
    BY DEF SaleCommandsInv, SaleInv, MarketInv
  <1>2. MarketInv /\ [Next]_vars => [FreezesSale]_vars /\ [MovesForward]_vars
    <2>1. ASSUME MarketInv, Next PROVE FreezesSale /\ MovesForward
      BY <2>1, NextStep DEF MarketStep
    <2> QED BY <2>1
  <1>3. MarketInv /\ [Next]_vars => [EndsOffer]_vars
    BY OfferEnds
  <1>4. MarketInv /\ [Next]_vars => [PaysSeller]_vars
    <2>1. MarketInv /\ Next => PaysSeller
      BY NamesOwners, TradingPays, AuctionsPay, MarketFacts DEF Next
    <2> QED BY <2>1
  <1> QED BY <1>1, <1>2, <1>3, <1>4, SaleCommandsAreSales, PTL
          DEF SaleFreezes, BidsMoveForward, OfferAllOrNothing, ListedSoldForPay

\* Trading through the client implements delivery versus payment: a command
\* that lands late never takes a name without paying for it, nor a payment
\* without delivering (buy, accept-offer, auction settle).
THEOREM SaleCommandsAtomic == SaleCommandsSpec => AtomicSales
  <1>1. SaleInit => DeliveryVersusPayment!SaleInit
    BY TradingInitial
  <1>2. SaleInv /\ SaleInv' /\ [Next]_vars
          => [DeliveryVersusPayment!SaleNext]_(DeliveryVersusPayment!saleVars)
    BY NextSale, VarsStill DEF SaleInv, SaleStep
  <1>3. SaleCommandsInv => SaleInv
    BY DEF SaleCommandsInv
  <1> QED BY <1>1, <1>2, <1>3, SaleCommandsAreSales, PTL
          DEF SaleCommandsSpec, AtomicSales, DeliveryVersusPayment!SaleSpec

\* Trading while the names are not edited is trading.
LEMMA TradingIsSaleCommands == TradingSpec => SaleCommandsSpec
  <1>1. TradingOthers => Others
    BY DEF TradingOthers, Others, Next, NamesNext
  <1>2. [SaleCommands \/ Land \/ Abort \/ TradingOthers]_cmdVars
          => [SaleCommands \/ Outcome]_cmdVars
    BY <1>1 DEF Outcome
  <1> QED BY <1>2, PTL DEF TradingSpec, SaleCommandsSpec

\* Listings and offers made with late commands while names expire, are claimed
\* and are sold: a frozen name keeps a sale of its owner and the escrows their
\* money, offers end whole, a listed name is only handed over for its price, a
\* buyer pays what the client read to whom it read, a transaction writes what it
\* declared, and every sale is delivery versus payment (list, buy, offer,
\* accept-offer, cancel-offer).
THEOREM TradingKeepsPromises ==
    TradingSpec =>
        /\ [](FrozenHasSale /\ EscrowsFunded)
        /\ OfferAllOrNothing /\ ListedSoldForPay
        /\ BuyerPaysPriceRead /\ DeclaredWrites /\ AtomicSales
  BY TradingIsSaleCommands, SaleCommandsKeepMarket, BuyersPayWhatTheyRead,
     SaleCommandsDeclare, SaleCommandsAtomic, PTL
=============================================================================
