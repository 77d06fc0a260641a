------------------------------ MODULE Indexer -------------------------------
(***************************************************************************)
(* The indexer: transactions of the registry reach it through a webhook,   *)
(* are decoded with the generated client and folded into a store keyed by  *)
(* the address of the name record.  The log holds what landed on chain.    *)
(* The webhook delivers any stretch of it, any number of times and in any  *)
(* order: batches can be lost, late, repeated after an error half way      *)
(* through, or sent again on purpose.  The store is in memory, and a       *)
(* request runs to its end before the next one starts.                     *)
(*                                                                         *)
(* A full name is the sequence of its labels.  Signature and slot of the   *)
(* last event are stored and never read, and are left out.                 *)
(***************************************************************************)
EXTENDS Market, Sdk, SequencesExt

CONSTANTS MaxLog,     \* bound on the transactions followed
          MaxExpiry   \* bound on the expiry repeated renewals reach in the index

VARIABLES log,    \* the transactions that landed, in order
          index   \* MemoryStore: the entry of each name, or Nil

indexerVars == <<vars, log, index>>

\* An entry of the store; what an instruction does not tell is Nil.
NameEntry ==
    [fullName: Seq(Names) \cup {Nil}, owner: Wallets \cup {Nil}, parent: Names \cup {Nil},
     registeredAt: Nat \cup {Nil}, expiresAt: Nat \cup {Nil}, active: BOOLEAN,
     listed: [price: Nat, seller: Wallets] \cup {Nil}]

ASSUME EntryAssumption == Nil \notin NameEntry /\ Nil \notin Seq(Names) /\ Nil \notin Nat

NoEntries == [n \in Names |-> Nil]

-----------------------------------------------------------------------------
(* Decoding. *)

\* An instruction of a transaction with the instructions it invokes.
Direct(ix) == [program |-> SOLANS_PROGRAM_ADDRESS, ix |-> ix, inner |-> <<>>]
\* External: a program such as a multisig that invokes ix.
Via(ix) == [program |-> <<"program", "multisig">>, ix |-> Instruction("other", <<>>, <<>>),
            inner |-> <<Direct(ix)>>]

\* Every instruction, outer before inner.  The code's walk recurses; here no
\* inner instruction has inner ones of its own.
rawInstructionsOf(txn) ==
    FlattenSeq([i \in 1..Len(txn.instructions) |->
                  <<txn.instructions[i]>> \o txn.instructions[i].inner])

NoEvent == [kind |-> "none"]
RegisterEvent(p) ==
    [kind |-> "register", nameRecord |-> p.accounts.nameRecord, owner |-> p.accounts.owner,
     name |-> p.data.name, years |-> p.data.years]
RenewEvent(p) ==
    [kind |-> "renew", nameRecord |-> p.accounts.nameRecord, name |-> p.data.name,
     years |-> p.data.years]
SubdomainEvent(p) ==
    [kind |-> "subdomain", nameRecord |-> p.accounts.nameRecord, parent |-> p.accounts.parentName,
     owner |-> p.accounts.subdomainOwner, label |-> p.data.name]

parseSolansInstruction(raw) ==
    LET ix == raw.ix
        kind == identifySolansInstruction(ix)
        At(p) == p.accounts.nameRecord
    IN  IF raw.program # SOLANS_PROGRAM_ADDRESS THEN NoEvent ELSE
        CASE kind = "register_name" -> RegisterEvent(parseRegisterNameInstruction(ix))
          [] kind = "register_with_solans" ->
               RegisterEvent(parseRegisterWithSolansInstruction(ix))
          [] kind = "renew_name" -> RenewEvent(parseRenewNameInstruction(ix))
          [] kind = "renew_with_solans" -> RenewEvent(parseRenewWithSolansInstruction(ix))
          [] kind = "wrap_subdomain" -> SubdomainEvent(parseWrapSubdomainInstruction(ix))
          [] kind = "transfer_name" ->
               [kind |-> "transfer", nameRecord |-> At(parseTransferNameInstruction(ix)),
                newOwner |-> ix.data.newOwner]
          [] kind = "burn_name" ->
               [kind |-> "burn", nameRecord |-> At(parseBurnNameInstruction(ix))]
          [] kind = "list_name" ->
               [kind |-> "list", nameRecord |-> At(parseListNameInstruction(ix)),
                seller |-> parseListNameInstruction(ix).accounts.owner, price |-> ix.data.price]
          [] kind = "cancel_listing" ->
               [kind |-> "unlist", nameRecord |-> At(parseCancelListingInstruction(ix))]
          [] kind = "buy_name" ->
               [kind |-> "buy", nameRecord |-> At(parseBuyNameInstruction(ix)),
                newOwner |-> parseBuyNameInstruction(ix).accounts.buyer]
          [] OTHER -> NoEvent

-----------------------------------------------------------------------------
(* The store. *)

Entry(fullName, owner, parent, registeredAt, expiresAt) ==
    [fullName |-> fullName, owner |-> owner, parent |-> parent, registeredAt |-> registeredAt,
     expiresAt |-> expiresAt, active |-> TRUE, listed |-> Nil]

\* Mutant: a registration keeps the expiry of the entry it replaces.
Registered_merged(e, ev, ts) ==
    Entry(<<ev.name>>, ev.owner, Nil, ts,
          IF e # Nil /\ e.expiresAt # Nil THEN e.expiresAt ELSE ts + ev.years * Year)

Registered(e, ev, ts) == Entry(<<ev.name>>, ev.owner, Nil, ts, ts + ev.years * Year)

\* A renewal of an unknown name leaves an entry without an owner.
Extended(e, ev, ts) ==
    LET known == IF e = Nil THEN Entry(<<ev.name>>, Nil, Nil, Nil, Nil) ELSE e
        base == IF known.expiresAt = Nil THEN ts ELSE known.expiresAt
    IN  [known EXCEPT !.expiresAt = base + ev.years * Year]

\* Mutant: an unknown parent counts as the top level.
ChildName_guessed(i, ev) ==
    LET p == i[ev.parent[2]] IN
    <<ev.label>> \o (IF p = Nil \/ p.fullName = Nil THEN <<>> ELSE p.fullName)

\* Without the parent's full name the child has none, also later.
ChildName(i, ev) ==
    LET p == i[ev.parent[2]] IN
    IF p = Nil \/ p.fullName = Nil THEN Nil ELSE <<ev.label>> \o p.fullName

Changes(e, ev) ==
    CASE ev.kind = "transfer" -> [e EXCEPT !.owner = ev.newOwner]
      [] ev.kind = "burn"     -> [e EXCEPT !.active = FALSE]
      [] ev.kind = "list"     -> [e EXCEPT !.listed = [price |-> ev.price, seller |-> ev.seller]]
      [] ev.kind = "unlist"   -> [e EXCEPT !.listed = Nil]
      [] ev.kind = "buy"      -> [e EXCEPT !.owner = ev.newOwner, !.listed = Nil]

applyEvent(i, ev, ts) ==
    IF ev.kind = "none" THEN i
    ELSE LET n == ev.nameRecord[2] e == i[n] IN
         [i EXCEPT ![n] =
            CASE ev.kind = "register"  -> Registered(e, ev, ts)
              [] ev.kind = "renew"     -> Extended(e, ev, ts)
              [] ev.kind = "subdomain" ->
                   Entry(ChildName(i, ev), ev.owner, ev.parent[2], ts, Nil)
              [] OTHER -> IF e = Nil THEN Nil ELSE Changes(e, ev)]

\* One transaction, and a batch of them.
ingestTx(i, txn) ==
    FoldLeft(LAMBDA a, raw : applyEvent(a, parseSolansInstruction(raw), txn.timestamp),
             i, rawInstructionsOf(txn))

ingestHeliusTxs(i, txs) == FoldLeft(ingestTx, i, txs)

-----------------------------------------------------------------------------

Logs(ixs) ==
    /\ Len(log) < MaxLog
    /\ log' = Append(log, [instructions |-> ixs, timestamp |-> now])

\* The instructions the indexer tracks.
Tracked ==
    \E n \in Names, w \in Wallets :
        \/ \E v \in Wallets, y \in Terms :
             \/ /\ RegisterName(w, v, n, y, Nil) /\ UNCHANGED marketVars
                /\ Logs(<<Direct(buildRegisterInstructions(w, FeeAccountsOf(config), n, v, y,
                                                           Absent, Absent)[1])>>)
             \/ /\ RegisterWithSolans(w, v, n, y) /\ UNCHANGED marketVars
                /\ Logs(<<Direct(getRegisterWithSolansInstruction(w, v, n, y))>>)
        \/ \E y \in Terms :
             \/ /\ RenewName(w, n, y, Nil) /\ UNCHANGED marketVars
                /\ Logs(<<Direct(buildRenewInstructions(w, FeeAccountsOf(config), n, y,
                                                        Absent)[1])>>)
             \/ /\ RenewWithSolans(w, n, y) /\ UNCHANGED marketVars
                /\ Logs(<<Direct(getRenewWithSolansInstruction(w, findNameRecordPda(n), n, y))>>)
        \/ \E v \in Wallets, c \in Names :
             /\ WrapSubdomain(w, n, c, v) /\ UNCHANGED marketVars
             /\ Logs(<<Direct(buildWrapSubdomainInstructions(w, n, c, v)[1])>>)
        \/ \E v \in Wallets \ {w} :
             /\ TransferName(w, n, v) /\ UNCHANGED marketVars
             /\ Logs(<<Via(buildTransferInstructions(w, n, v)[1])>>)
        \/ /\ BurnName(w, n) /\ UNCHANGED marketVars
           /\ Logs(<<Direct(buildBurnNameInstructions(w, n)[1])>>)
        \/ \E p \in Prices, d \in Durations :
             ListName(w, n, p, d) /\ Logs(<<Direct(buildListInstructions(w, n, p, d)[1])>>)
        \/ /\ CancelListing(w, n)
           /\ Logs(<<Direct(buildCancelListingInstructions(w, n, listing[n].seller)[1])>>)
        \/ /\ listing[n] # Nil /\ BuyName(w, n, listing[n].price)
           /\ Logs(<<Direct(buildBuyInstructions(w, n, listing[n].seller, listing[n].price,
                                                 config.params.sol_treasury)[1])>>)

\* POST /webhook with a stretch of the log.
Webhook(i, j) ==
    /\ index' = ingestHeliusTxs(index, SubSeq(log, i, j))
    /\ \A n \in Names : index'[n] # Nil /\ index'[n].expiresAt # Nil =>
                         index'[n].expiresAt <= MaxExpiry
    /\ UNCHANGED <<vars, log>>

\* The process starts again with an empty store.
RestartIndexer == index' = NoEntries /\ UNCHANGED <<vars, log>>

Time == Tick /\ UNCHANGED <<marketVars, log, index>>

IndexerInit == MarketInit /\ log = <<>> /\ index = NoEntries

IndexerNext ==
    \/ Tracked /\ UNCHANGED index
    \/ \E i \in 1..Len(log) : \E j \in i..Len(log) : Webhook(i, j)
    \/ RestartIndexer
    \/ Time

IndexerSpec == IndexerInit /\ [][IndexerNext]_indexerVars

-----------------------------------------------------------------------------
(* What the indexer promises. *)

\* The labels from n up to a top-level name.
IsPath(path, n) ==
    /\ path \in Seq(Names) /\ path # <<>> /\ path[1] = n
    /\ \A k \in 1..(Len(path) - 1) : path[k + 1] = ParentOf[path[k]]
    /\ TopLevel(path[Len(path)])

Agrees(e, n) ==
    /\ Exists(n) <=> (e # Nil /\ e.active)
    /\ Exists(n) =>
         /\ e.owner = rec[n].owner /\ e.registeredAt = rec[n].registered_at
         /\ IsPath(e.fullName, n)
         /\ e.listed = (IF listing[n] = Nil THEN Nil
                        ELSE [price |-> listing[n].price, seller |-> listing[n].seller])
         /\ TopLevel(n) => e.expiresAt <= rec[n].expires_at

\* Sending the whole history again in order repairs the index, whatever losses,
\* repetitions, reorderings and restarts it went through before: it then shows
\* the names that exist, their owners, labels and listings, and never a later
\* expiry than the record's.  (A renewal after expiry counts from the old expiry
\* in the index and from the clock on chain; applyEvent, ingestHeliusTxs.)
ReplayAgrees ==
    LET r == ingestHeliusTxs(index, log) IN \A n \in Names : Agrees(r[n], n)

\* A label the indexer shows is the name's own, in whatever order the events
\* arrived: a subdomain whose parent is not known yet has none (the orphan of
\* store.ts), so the watchlist never feeds a wrong name to the keeper.
LabelsTrue ==
    \A n \in Names :
        index[n] # Nil => index[n].fullName = Nil \/ IsPath(index[n].fullName, n)
=============================================================================
