# SolaNS in TLA+

A verification project for SolaNS, a name service on Solana: an Anchor program
(`programs/solans`) that keeps names, their NFTs, a marketplace and a staking
pool; a generated TypeScript client, an SDK and a CLI that read its accounts and
send its instructions; and three services (keeper, indexer, resolver) around it.

On chain every instruction is one atomic transaction, and what is hard is the
order in which strangers send them: an account written by one outlives the
account it was about, a clock moves between two of them, one flag is shared by
two kinds of sale, a rounded number is used again much later. Off chain nothing
is atomic: a command, a sweep or a request reads several accounts one after the
other and acts later, calls fail, deliveries repeat and reorder, and the chain
goes on meanwhile. The models are about those orders.

Contents: 1 inventory · 2 modules · 3 runs · 4 disagreements between code and
docs · 5 proofs · 6 boundaries of the model · 7 plan

## 1 Inventory

| component | state | operations | hard part | what makes it correct |
|---|---|---|---|---|
| config and governance (`init_config`, `update_config`, `transfer_admin`, `set_solans_params`, `init_burn_pool`, `init_stake_pool`) | the `Config` account | admin-gated, any order | parameters change between two payments of one user; initial vaults the program does not own | splits stay admissible; pay-in in $SOLANS only with a program-owned burn vault |
| fees (`state/config.rs`, `distribute_fee`) | vaults and wallets | every paying instruction | four floors of a small number | the shares add up exactly, the treasury always has one, every year is paid for |
| buyback (`buyback_burn`) | burn vault | permissionless | division by the rate, many small portions | never pays more than the price |
| registry (`register_*`, `renew_*`, `auto_renew`, `claim_expired`, `burn_name`, `transfer_name`, `lock_transfer`, `set_*`, `update_record`) | `NameRecord`, `ReverseRecord`, token delegations | owner, delegate, anyone who pays, keeper | accounts of a lapsed owner that outlive a claim; repeated keeper calls | nothing of an old owner comes along; a delegation is charged once per window |
| name NFTs (`tokenize_name`, `redeem_name`) | mint, holder | owner, holder, market | `owner` is stale while the NFT trades | a tokenized name stays redeemable |
| subdomains (`wrap_subdomain`, `revoke_subdomain`) | `parent`, `parent_registered_at`, `depth` | parent's owner | the parent is claimed, burned or registered again | the old subtree does not validate against the new registration |
| listings and offers (7 instructions) | `Listing`, `Offer` with escrowed SOL | seller, buyer, anyone once expired | a listing that survives its name; price changed under a buyer | frozen while for sale; money and name move together |
| auctions (`start_auction`, `bid`, `cancel_auction`, `settle_auction`) | `Auction`, bid vault | seller, bidders, anyone once ended | name lapses, is claimed or closed during the auction | vault = standing bid; displaced bidders are made whole |
| staking (`stake`, `unstake`, `claim_rewards`) | `StakePool`, `StakeAccount`, two vaults | stakers | rewards arrive unannounced; two roundings | books balance, nothing is paid twice, newcomers get nothing of the past |
| generated client (`clients/ts`) | none | account lists with flags, arguments, parsers | a flag or a position that differs from the program | a transaction writes only what it declares |
| SDK builders (`clients/sdk/src/tx.ts`), CLI (`cli`) | one transaction in flight | read, build, simulate, send | what was read is stale when the transaction lands | the signer pays what it read, refunds and payouts go to the right account, or nothing happens |
| SDK reads (`clients/sdk/src/client.ts`) | none | `resolve` walks up the parents with one fetch each; quotes repeat on-chain arithmetic | the chain read may never have existed at one moment | a resolved subdomain belongs to the current registration; quotes are exact |
| keeper (`services/keeper`) | watchlist, timer | sweep: read, then send `auto_renew` | reads go stale, sweeps overlap, calls and sends fail | a funded name is renewed, once |
| indexer (`services/indexer`) | in-memory store | webhook events | loss, duplicates, reordering, restart | replay repairs the store |
| resolver (`services/resolver`) | TTL cache | read-through | a stale value stored after a change | old answers run out |
| on-chain `resolve`, name validation and hashing, Rust client, observability | none of their own | | | see section 6 |

Interactions: the naming instructions pay through `distribute_fee`, which feeds
the treasury, the staking vault (read by `stake.rs::sync`) and the burn vault
(spent by `buyback_burn`). Marketplace instructions read and write the same
`NameRecord`; its `listed` flag is what both kinds of sale freeze a name with.
CLI and keeper build instructions with the SDK and the generated client; the
indexer decodes them with the same client, and its watchlist feeds the keeper;
the resolver serves the SDK's reads.

## 2 Modules

| module | models | state |
|---|---|---|
| `Fees` | `state/config.rs` arithmetic, marketplace fee | none: operators with the source's names (`price_for_label`, `fee_split`, `solans_fee`, `buyback_usdc`) |
| `Protocol` | `Config`, governance, `distribute_fee`, burn, buyback | `config`, `usdc`, `solans`, `vault` |
| `Treasury` | the protocol's money from an empty ledger; naming instructions seen as the fee they pay | as `Protocol` |
| `Staking` (extends `Treasury`) | the staking pool | `pool`, `position`, `stakeVault` |
| `Names` (extends `Protocol`) | registry, NFTs, subdomains | `now`, `rec`, `reverse`, `holder`, `allowance` |
| `Market` (extends `Names`) | listings, offers, auctions; the composed specification `Spec` | `listing`, `offer`, `escrow`, `auction`, `bidVault`, `sol` |
| `AtomicSale` | the abstract specification of the marketplace: delivery versus payment | `title`, `term`, `consignor`, `wealth`, `tokens`, `cash` |
| `Sales` (extends `Market`) | the refinement mapping to `AtomicSale` | none |
| `Client` | the generated client: for each instruction its accounts in order with signer and writable flags; ten parsers | none |
| `Sdk` (extends `Fees`, `Client`) | the builders of `tx.ts`, the quotes of `client.ts` | none |
| `Commands` (composes `Market` and `Sdk`) | the CLI's naming and trading commands | `tx`, the transaction in flight |
| `PoolCommands` (composes `Staking` and `Sdk`) | its administration, buyback and staking commands | `tx` |
| `Keeper` (on `Names`) | the sweeps | `up`, `sweep`, `sent` |
| `Indexer` (on `Market` and `Sdk`) | webhook, decoding, store | `log`, `index` |
| `Resolver` (on `Names`) | `resolve`, `reverseLookup` and the cache | `req`, `cache` |
| `MCNames`, `MCMarket`, `MCStaking`, `MCCommands`, `MCPool`, `MCKeeper`, `MCIndexer`, `MCResolver` | instances for TLC | |
| `ProtocolProofs`, `NamesProofs`, `MarketProofs`, `SaleProofs`, `StepProofs`, `PoolProofs`, `CommandProofs`, `ServiceProofs` | theorems (section 5) | |

On chain, one action is one instruction: its guards are the account constraints
and the `require!`s, its updates all the accounts the handler writes and the
token transfers it makes. An instruction that reverts has no step. An absent
account is `Nil`. The record fields keep the names of `state/name_record.rs`.
Three actions are the environment: `Tick` (the Clock sysvar), `Approve`
(spl-token approve, with the Config PDA as delegate) and `TradeNft` (the NFT
changes hands outside the program).

Off chain, one action is one call that leaves the process and what the code does
until the next one:

- Commands. `cli_<command>` reads, builds and sends, and `Land` runs the
  instruction against the state at that later time; `Abort` is a failed
  simulation, a failed transaction or an expired blockhash. An instruction is a
  list of accounts, and the program checks the accounts it is given
  (`FeeAccountsMatch`, `NftProof`, `RefundAccountOk`, `PayoutAccountOk`, the
  constraints in `RunSale`), so a stale account is rejected for the code's
  reason or not at all. An address is the tuple of the seeds it is derived from.
- Keeper. `Resolve`, `Quote`, `CheckDelegation`, `SendRenewal`, `LandRenewal`,
  `Confirm`; `CallFails` at any of them; `Die` and `Restart` of the process. The
  code waits for the first sweep before it starts the timer; the model lets any
  two overlap.
- Indexer. The log is what landed; `Webhook(i, j)` delivers any stretch of it at
  any time, and applies it with `applyEvent` over the instructions
  `parseSolansInstruction` decodes. The store's promises resolve at once, so a
  request is not interrupted by another one. One transfer is invoked by another
  program, so inner instructions occur.
- Resolver. `FetchLeaf`, `FetchParent`, `FetchReverse`, `FetchForward` fetch one
  account each; `Answers` stores the result; `Age` is the clock of the cache.

Where a definition X has a plausible wrong form, that form stands next to it as
`X_something` with the comment "Mutant"; it is not part of any specification and
serves to see that the properties notice it.

The refinement. `AtomicSales` (in `Sales`) states that `Market` implements
`AtomicSale!SaleSpec` with `title` the recorded owner, `consignor` the seller of
the auction, `wealth` and `tokens` a wallet's balance plus what is set aside
for it in offer accounts and standing bids, and `cash` its balance of the payment
mint. Making, cancelling or losing an offer or a bid is then a stutter; each of
`buy_name`, `accept_offer` and `settle_auction` must be one atomic exchange with
a fee of at most 10%; and $SOLANS leave a wallet otherwise only when they are burned
for a longer term or, by `buyback_burn`, for cash.

## 3 Runs

`tlc -workers 2 -config <run>.cfg <module>`; each passing run explores its whole
state space (between 0.1 and 3.7 million states) within three minutes.

| run | module | properties | question |
|---|---|---|---|
| `names` | MCCommands | MarketTypeOK, NftBacked, ReverseBacked, HandoverClears, DeclaredWrites | Every naming command against a registry that moves on before it lands: can a tokenized name lose its NFT, does anything of an old owner come along, does a transaction write an account it did not declare? |
| `trading` | MCCommands | FrozenHasSale, EscrowsFunded, OfferAllOrNothing, ListedSoldForPay, BuyerPaysPriceRead, DeclaredWrites, AtomicSales | Listings and offers, by command and by others, against expiry, claims and burns: does a buyer pay what it read, and do money and name change hands together? |
| `auctions` | MCCommands | EscrowsFunded, BidsMoveForward, DeclaredWrites, AtomicSales | Three wallets and one name in its term: with bids, equal bids, extensions, cancelling and settling in every order, one wallet acting on stale reads, who is refunded and who is paid? |
| `sales` | MCMarket | EscrowsFunded, FrozenHasSale, SaleFreezes, AtomicSales | A listing, an auction and an offer on a name that is edited, tokenized, lapses, is claimed, burned and registered again: does anything change under a sale, can a name be stuck frozen, and who is paid when the auction outlives its seller's ownership? |
| `pool` | MCPool | StakingTypeOK, PoolBooks, PositionsAddUp, PayInNeedsBurnPool, QuotesAgree, NewcomerEarnsNothing, SettledInFull, TreasuryAlwaysPaid, BuybackAtPrice, PoolWritesDeclared | Initialisation, governance, fees, buybacks and staking in every order: do the books balance, and are the SDK's quotes right in every state? |
| `keeper` | MCKeeper | AutoRenewOnce, YearsPaidFor, DueIsRenewed | Overlapping sweeps with failing calls and late transactions: is a due name renewed eventually, and never charged twice in a period? |
| `indexer` | MCIndexer | ReplayAgrees, LabelsTrue | Loss, repetition, reordering and restart: does replaying the history repair the index, and is a label ever wrong? |
| `resolver` | MCResolver | TenureOrder, ClaimCutsSubtree, WalkSound, CacheSettles | A tree that changes while it is read and cached: is a detached subdomain ever answered, and do old answers run out? |
| `v_settle`, `v_revoker` | MCMarket | BidCanSettle, RevokerControlsParent | Section 4. |
| `v_unstake` | MCStaking | StakeWithdrawable | Section 4. |
| `v_reclaim` | MCCommands | OfferReclaimable | Section 4. |

Bounds, and why the interesting cases are inside them:

- Time. A year is one tick and the grace period zero or one, so a name is
  registered, expires, passes its grace period and is claimed within `MaxTime`
  2 or 3. Several instructions happen in the same tick, as they do within one
  second. `auctions` has a year of four ticks and no money for a registration: its
  name never lapses, and an auction of one tick with an extension of two is
  extended by every bid, up to the last one. The name that lapses, is claimed, burned
  and registered again under a listing or an auction is that of `sales`. `names` starts at the end of its time with names that are
  free, or registered at the beginning and lapsed (`SessionInit`), since nothing
  in that run waits.
- Names. One where only one record is involved; a parent and a subdomain for
  commands and index; a chain of three (`alex`, `pay.alex`, `x.pay.alex`) for the
  resolver, which reaches the depth bound.
- Wallets. Two (owner and other) are every role in the registry and for one
  listing; auctions need a seller and two bidders. With two wallets and
  one user the seller a purchase was built from is the seller it meets: that it
  never pays another one is proved (`BuyersPayWhatTheyRead`).
- Sales. `auctions` has reserves of 0 and 20, increments of 0 and 10, and bids of 0
  (refused even without a reserve), 10 and 20: an equal bid displaces where the
  increment is 0, and then a bid built on an earlier read names the wrong account
  for the refund. `sales` has a listing, an auction and an offer on the same name, with one
  amount each, and a hosting reference and a mint to edit besides owner, lock and
  reverse flag. Records and resolver pass the gate of the hosting reference, the
  delegate that of the lock; for them the freeze is proved (`SaleIsFrozen`).
- Users. One wallet acts through the client, with one transaction in flight; all
  others send instructions directly, with whatever accounts the program accepts.
  While a transaction that depends on something read is in flight they do
  anything (`Others`); in `names` they register, claim, renew, burn, transfer,
  tokenize, trade and redeem (`NameOthers`), which is all that changes what a
  naming command reads; in `trading` they do everything but edit records
  (`TradingOthers`). A transaction built without reads cannot be stale: whatever
  happens before it lands may as well happen before it is built.
- Money. Purses afford between one and four fees, so running out happens. Prices
  are such that each share of the split is exercised; marketplace amounts of 10 at
  10% pay a fee of one, an amount of 5 none. `pool` pays fees of 5 under a split in
  quarters, where three shares are rounded down, and one of 60% and 40% that leaves
  the treasury nothing, which `init_config` and `update_config` must reject; a discount
  that `set_solans_params` must reject; and initial vaults that coincide with the
  treasury, the CLI's default, or do not. It has one admin: who the admin is matters
  to none of its properties.
- Staking. Two wallets, stakes of 1 and fees of which one unit reaches the pool,
  so the reward per share is fractional with two stakes. `AccScale` is 10^6 instead
  of 10^12 (TLC's integers have 32 bits); the roundings that matter here do not
  depend on it.
- Keeper. Two sweep slots, a watchlist of a malformed entry followed by a name,
  a yearly price of 5 in quarters, so that the shares are rounded. The owner's purse and delegation pay twice, the other
  wallet's purse once, so a second charge in the same period would be affordable;
  the delegation may exceed the balance.
- Indexer. Four transactions; an indexed expiry of at most 3, which repeated
  renewals reach.
- Resolver. One request in flight besides the cache, questions about the deepest
  name and about one wallet's reverse record, one wallet that registers. The
  cache lives one tick of its own clock, which is independent of the chain's.

Fairness. On chain nothing happens by itself, so `Market`, `Staking` and the commands
have none. `KeeperFairness`: the timer keeps starting sweeps (`setInterval`), a call
returns or throws, a transaction that does not land expires with its blockhash;
these are weak. Strong fairness of each call and of the landing says that what is
tried again and again does not fail every time: without it, an RPC node that is
down for ever would refute any promise. There is none for `Restart`: the
operator may leave the process down, and DueIsRenewed promises nothing then.
`ResolverSpec` has weak fairness of `Age` (time passes) and of each request (a fetch
returns or throws). Deadlock is checked in every run and never occurs.

## 4 Where code and docs disagree

Shown by a run (the counterexample is TLC's):

1. `v_settle` (BidCanSettle). `settle_auction` and `cancel_auction` need the
   record. After a claim (which clears `listed`) the claimer may burn the name;
   the standing bid then stays in the vault until somebody registers the name
   again.
2. `v_revoker` (RevokerControlsParent). `wrap_subdomain` refuses a tokenized parent
   because its `owner` is stale; `revoke_subdomain` does not, so the wallet that
   sold the parent's NFT still closes its subdomains.
3. `v_unstake` (StakeWithdrawable). `reward_debt` is rounded down, so a position
   opened at a fractional reward per share is credited with up to one unit too
   much; when the vault cannot cover it the payout fails and with it the
   withdrawal of the principal, until the next fee arrives.
4. `v_reclaim` (OfferReclaimable). `cancel_offer.rs` makes the record optional "so a
   bidder can always reclaim even if the name was burned". The SDK's builder and
   the CLI always name the record; after a burn that account is gone and the
   transaction fails.
Met while modelling, in the model as the code has it, and without a run of their
own:

- `app.ts:85` lists "names owned by a wallet", but `parse.ts` does not decode
  `accept_offer`, `claim_expired`, `redeem_name` or `settle_auction`, so after one of them the
  index keeps the old owner, even if every transaction arrives once and in order.
  Of the instructions that change something the index shows, `auto_renew` (the
  expiry), `revoke_subdomain` (the entry) and `update_listing` (the price) are not
  decoded either. ReplayAgrees is therefore about histories of the decoded
  instructions.
- `start_auction.rs:10` says the name is frozen "until settled/cancelled". Listings and
  auctions share one flag: `cancel_listing` on a listing left over from before a
  claim clears it on a name that its new owner has under auction. SaleFreezes is
  therefore stated for steps after which the name is still listed.
- `start_auction.rs:11` argues that no expiry guard is needed because the grace period
  covers a short auction. It does not cover one that is started late in the grace
  period, or after it: a claim then leaves the auction, however short, on a name of
  somebody else, and `settle_auction`, which does not compare `owner` with
  `auction.seller`, hands that name to the bidder and pays the old seller. `AtomicSale`
  has a `consignor` beside the `title` for this reason, and `sales` explores the case.
- `bid.rs:10` speaks of a "new, higher bid"; `start_auction` accepts a `min_increment` of 0, and
  then an equal bid displaces the standing one. BidsMoveForward allows it.
- The keeper's `KEEPER_YEARS` is the "term to renew for" (`services/keeper/src/index.ts:14`),
  but `auto_renew.rs:78` accepts one year only: with any other value every renewal
  reverts (`LandRenewal`). DueIsRenewed is checked for the default of 1.
- `claim_expired.rs:128` says a stale listing "becomes unbuyable"; if its seller
  claims the name back and auctions it, the listing is live again, since both
  kinds of sale set the same flag.
- `name_record.rs:55` says burn and re-register invalidate the subtree; when both
  happen within one second `registered_at` does not change. ClaimCutsSubtree holds
  because a claim needs an expired registration, which is an earlier second
  (TenureOrder). WalkSound makes the same exception for the SDK's walk.
- `name_record.rs:44`: `reverse_set` stays set on a name after its owner points the
  reverse record at another of its names. ReverseBacked states what does hold.
- A delegate appointed before `tokenize_name` keeps writing records of the
  tokenized name (`README.md:149` says NFT holdership authorizes it).
- `auto_renew` charges the recorded owner of a tokenized name also after that
  owner sold the NFT.
- `update-config` says "only provided flags change" (`cli/src/index.ts:160`); it writes
  every field, the others as it read them, so it undoes a concurrent change.
- `processName` "never throws" (`keeper.ts:108`); its reads before the `try` do, and
  `runOnce` catches them. A renewal whose confirmation or following `resolve` fails
  is reported as failed although it may have landed; AutoRenewOnce shows that the
  next attempt is harmless.
- One failing `getConfig` at the start of a sweep ends the keeper process, from the
  first sweep through `main().catch`, from a later one as an unhandled rejection.
- `accept_offer`, `register_name`, `renew_name` and `buyback_burn` take no limit on the
  amount, unlike `buy_name`, so what they pay or receive is that of the moment
  they land.

## 5 Proofs

`tlapm MarketProofs.tla` and so on; all obligations are proved. Theorems hold for
all values of the constants that satisfy the named assumptions: any number of
wallets, names, mints and keys, any tree `ParentOf`, any prices, splits, purses,
times and fixed-point scale. The assumptions say that amounts are naturals and a
year is longer than the renewal window (`MoneyAssumption`, `RegistryAssumption`,
`MarketAssumption`, `FeeAssumption`), that `Nil` is not an account
(`ConfigAssumption`, `RecordAssumption`, `SaleAssumption`, `PositionAssumption`) and neither
an entry of the index, nor a full name, nor a time (`EntryAssumption`), and
that wallets and names are finite where something is added up over them
(`StakingAssumption`, `SalesAssumption`; both are byte strings of bounded length).

| theorem | specification | states |
|---|---|---|
| `FeeSplitExact` (ProtocolProofs) | none | for every admissible configuration the four shares are naturals that add up to the amount, and the treasury's is positive when the amount is |
| `TypeCorrect` (MarketProofs) | `Spec` | MarketTypeOK: no balance, vault, escrow or allowance ever goes below zero |
| `NeverStuckFrozen` | `Spec` | FrozenHasSale |
| `EscrowSolvent` | `Spec` | EscrowsFunded |
| `TokenizedRedeemable` | `Spec` | NftBacked |
| `ReverseFlagOwned` | `Spec` | ReverseBacked |
| `TenureOrdered` | `Spec` | TenureOrder |
| `ClaimInvalidatesSubtree` | `Spec` | ClaimCutsSubtree |
| `HandoverIsClean` | `Spec` | HandoverClears |
| `SaleIsFrozen` | `Spec` | SaleFreezes |
| `AuctionMovesForward` | `Spec` | BidsMoveForward |
| `SalesAtomic` (SaleProofs) | `Spec` | AtomicSales: `Market` implements `AtomicSale` |
| `DelegationChargedOnce` (StepProofs) | `Spec` | AutoRenewOnce |
| `OfferEndsWhole` | `Spec` | OfferAllOrNothing |
| `ListedIsPaidFor` | `Spec` | ListedSoldForPay |
| `YearsArePaidFor` | `Spec` | YearsPaidFor |
| `StakingTypeCorrect` (PoolProofs) | `StakingSpec` | StakingTypeOK |
| `PoolTotalExact` | `StakingSpec` | PositionsAddUp |
| `PoolBooksBalanced` | `StakingSpec` | PoolBooks |
| `PayInBacked` | `StakingSpec` | PayInNeedsBurnPool |
| `TreasuryPaid`, `BuybackPriced` | `StakingSpec` | TreasuryAlwaysPaid, BuybackAtPrice |
| `NewcomerPaidNothing`, `SettlesDebts` | `StakingSpec` | NewcomerEarnsNothing, SettledInFull |
| `QuotesExact` | `PoolCommandsSpec` | QuotesAgree |
| `PoolCommandsDeclare` | `PoolCommandsSpec` | PoolWritesDeclared |
| `StaleCommandsKeepBooks` | `PoolCommandsSpec` | the invariants and promises of the pool when commands land late |
| `NameCommandsKeepRegistry` (CommandProofs) | `NameCommandsSpec` | MarketTypeOK, NftBacked, ReverseBacked, HandoverClears |
| `NameCommandsDeclare` | `NameCommandsSpec` | DeclaredWrites |
| `SaleCommandsDeclare`, `BuyersPayWhatTheyRead` | `SaleCommandsSpec` | DeclaredWrites, BuyerPaysPriceRead |
| `SaleCommandsKeepMarket` | `SaleCommandsSpec` | FrozenHasSale, EscrowsFunded, SaleFreezes, BidsMoveForward, OfferAllOrNothing, ListedSoldForPay |
| `SaleCommandsAtomic` | `SaleCommandsSpec` | AtomicSales |
| `TradingKeepsPromises` | `TradingSpec` | FrozenHasSale, EscrowsFunded, OfferAllOrNothing, ListedSoldForPay, BuyerPaysPriceRead, DeclaredWrites, AtomicSales |
| `KeeperChargesOnce`, `KeeperYearsPaidFor` (ServiceProofs) | `KeeperSpec` | AutoRenewOnce, YearsPaidFor |
| `ResolverWalkSound` | `ResolverSpec` | WalkSound |
| `ResolverTenureOrder`, `ResolverClaimCuts` | `ResolverSpec` | TenureOrder, ClaimCutsSubtree |
| `IndexLabelsTrue`, `IndexReplayAgrees` | `IndexerSpec` | LabelsTrue, ReplayAgrees |

`Spec` is the registry with its marketplace from an empty registry, with any
instruction of any wallet at any time. `PoolCommandsSpec`, `NameCommandsSpec`,
`TradingSpec` and `SaleCommandsSpec` are the specifications of the runs `pool`, `names`,
`trading` and `auctions` themselves, with the CLI in the loop and a registry that is
already populated; `KeeperSpec`, `ResolverSpec` and `IndexerSpec` are those of the three
services. So the theorems and the runs are about the same behaviours, and every
safety property a passing run checks is also proved.

**Registry and marketplace.** The inductive invariant is

    MarketInv == MarketTypeOK /\ RegistryInv /\ FrozenHasSale /\ EscrowsFunded
    RegistryInv == NftBacked /\ ReverseBacked /\ TenureOrder /\ SaleUnminted

None of the parts is inductive alone. `bid` keeps the vault right only if the
vault held the standing bid before (EscrowsFunded), and balances stay natural
only because of it. FrozenHasSale needs that a listed name has no mint
(SaleUnminted), or `redeem_name` would change the owner under a listing.
ClaimCutsSubtree needs that the subdomain's captured time is not later than the
parent's registration and that a registration does not start after its own
expiry (TenureOrder): a claim comes after that expiry, so the time it writes is
later than any that was captured (`ClaimCuts`). NftBacked
needs uniqueness of the mint across names, or one redemption would orphan
another name. The admissible split is part of the type invariant, since the
treasury's share is a difference.

The argument has two layers. `NamesProofs` reduces every registry instruction to one
of three shapes — an update that keeps the record's identity, a fresh record, a
closed record — with a lemma each (`UpdateKeeps`, `CreateKeeps`, `CloseKeeps`),
and shows that each action is a `RegistryStep`: the invariant is preserved and
the change is one the action properties allow. `MarketProofs` shows that registry
steps keep every sale as it is (`SaleKept`), then has one lemma per marketplace
instruction that it is a `MarketStep`. The temporal theorems follow from
`MarketInitial`, `NextStep` and propositional temporal logic.

**Sums.** Four results add up over a set: the total of the staked amounts, the
vaults a fee is spread over, and the two sums of the refinement mapping. The
library's induction theorems take an operator as a parameter and cannot be used
here. `ProtocolProofs` therefore gets what it needs about `SumFunction` (it is a natural, zero
when all terms are, follows a change of one term, and covers any one or two terms)
by least counterexample: the numbers, or the subsets of a finite set, that violate
a statement form a set, such a set has a minimal element if it has any, and the
statement's step contradicts that.

**The refinement.** `SalesAtomic` needs one more invariant than MarketInv: a
standing bid is positive and not the seller's own (`BidStanding`, in SaleInv),
which the abstract `Knockdown` requires of a sale.
Initial states map to initial states because nothing is set aside yet. For the
steps there is one lemma per instruction. An offer or a bid moves an amount from
the purse to one term of the wallet's sum and leaves `wealth` and `tokens` as they
were; the three sales are `Sell` or `Knockdown` with the buyer's and the seller's
sums changed by the price, and every coincidence of buyer, seller and treasury is
covered, since the updates are applied one after the other.

**Steps.** The four theorems of `StepProofs` are action properties from MarketInv.
OfferAllOrNothing uses that an escrow holds exactly the amount offered
(EscrowsFunded); ListedSoldForPay that a frozen name is its seller's
(FrozenHasSale) and unminted; YearsPaidFor that the shares of a fee add up to it
(`FeeSplitExact`) over the vaults, which may coincide (`FeeReachesVaults`), and that no other
instruction moves an expiry forward.

**Staking.** The inductive invariant is

    PoolInv == StakingTypeOK /\ ConfigOK /\ PoolBacked /\ PositionsAddUp

with `PoolBacked` what PoolBooks says of the two vaults and `ConfigOK` the facts about
`Config` that governance establishes: an admissible split, a discount below 100%,
and a burn vault of the program wherever the pay-in is enabled. PoolBooks
also bounds each position by the total; that follows from PositionsAddUp, without
which it would not be inductive (`unstake` lowers the total under the others). The
proof of SettledInFull is arithmetic about the floor of `acc * amount / scale` and
holds for every scale, so the instance's scale of 10^6 is no restriction.

**Pool commands that land late.** `CliInv` adds to PoolInv that the transaction in flight
was built by a command (`TxBuilt`). What `update-config` writes was merged from a
configuration read earlier and need not be one of `ParamChoices`; the lemmas about
governance are therefore about any parameters of the right type. A landing
command is then either rejected by the program or one of the steps of `Staking`
with those parameters. PoolWritesDeclared goes through the account lists of the
client instruction by instruction.

**Naming and trading commands that land late.** The invariants

    NameCommandsInv == MarketInv /\ (tx # Nil => NameTx(tx))
    SaleCommandsInv == SaleInv /\ PricesListed /\ (tx # Nil => SaleTx(tx))

say that the transaction in flight was built by some command from some earlier state:
`NameTx` and `SaleTx` give its instructions with accounts that were right when they
were read and need not be any more. `PricesListed` (a listing has one of the
prices) is there because `buy` takes its price from the listing it reads. Each group of
instructions has a lemma: if the program's constraints accept the accounts, landing is one
action of `Market`, and each account it changes is among the writable ones of the
client's list. The second half is where stale reads matter: the fee accounts are
compared with `Config`, the delegated account with the owner, the mint with the
record, the refund with the standing bidder, so the account written is the one
named. `register` for oneself sends two instructions, since it mints the NFT too;
together they are no single action of `Market`, and the lemma `MintedKeeps` shows
directly that they keep the invariant and every sale. Trading transactions have one
instruction each, so `SaleCommandsSpec` implies `[][Next]_vars`, and the theorems about the
marketplace, the refinement included, carry over step by step.

**The keeper.** What a sweep has read is not an invariant of anything: it is stale as
soon as it is read. Both theorems therefore need only `RegistryOK`, the
registry's part of MarketInv, established for the populated registry the keeper
starts with. Whatever lands is one `auto_renew` against the state of that moment, and
`NamesCharge` and `NamesPaid` say of every registry step what it may charge and what
it must be paid.

**The resolver's walk.** `ResolverInv` adds to RegistryOK an invariant of a request under
way (`Walk`): the cursor's captured time is not later than its own registration, this
not later than the leaf's, and, the point of it,

    leaf.registered_at < read_at /\ WalkOk(rec, cursor)  =>  attached

if the rest of the walk would succeed against the registry as it is now (`WalkOk`),
then the leaf was attached when it was read. The registry moves under the walk, so
this is shown for every registry step: a change of a `registered_at` the walk has yet
to compare sets it to the present, which is later than any time captured
before the leaf was read; so a walk that would fail cannot be made to succeed.
The exception for leaves registered in the second they are read is needed there and
nowhere else. TenureOrder supplies the order of the times.

**The indexer.** The store is a fold over transactions, each a fold over its
instructions. The library's folds recurse over the subsets of the domain; `FoldExists`
shows by least counterexample that the recursion has a solution, after which
`BatchRuns` and `IngestAppend` are what the proofs use. `SentCarries` and ten lemmas
(`ParsesRegisterName` and so on) follow an instruction from the builder of the SDK
through the account roles of the client's parser to the event the indexer applies.
The invariant is

    IndexerInv == MarketInv /\ ListedOK /\ IndexInv

where `IndexInv` says that the store is well (`IndexOK`: typed, and its labels, where
there are any, are paths in the tree), that every logged transaction carries an
event on some name that fits the tree (`LogOK`), and of each name that it is either
unborn — no record, no entry, no transaction — or settled: the log, applied to
*any* store that is well, shows the name as it is. ReplayAgrees speaks of the one
store there is; that is not inductive, since the next delivery changes it, and
"any store that is well" is what deliveries and restarts keep (`BatchWell`). A
transaction that lands then only has to be right for stores that mirror the registry
as it was (`LandsWell`), with one lemma per instruction. A new subdomain has its full name
because its parent exists and is therefore settled with a known path; a renewal needs
that the indexed expiry is known and not later than the record's. Unborn names are
an exception because the promise for them depends on the store: an entry
never made cannot be there.

**A trap.** tlapm 1.4.5 reads every `@` of `[f EXCEPT ![a] = @ + x, ![b] = @ + y]` as the
old `f[b]`, also when a = b. Where two indices may coincide (a wallet that buys
from itself, a seller that is the treasury) the modules nest the EXCEPTs, for
which the two readings agree, or, for the three vaults of `DistributeFee`, write the
new function out.

**Model-checked only.** Liveness under fairness is out of the prover's reach:
DueIsRenewed and CacheSettles. The four numbered disagreements of section 4 are
counterexamples of TLC. No module declares a RECURSIVE operator.

## 6 Boundaries of the model

- Rent is left out: it is paid with an account and returned when it is closed.
- keccak256 is taken as injective on its two preimage spaces; names are valid
  labels. `validate_*` and the hashing are not modelled.
- 64-bit overflow: every amount that moves is bounded by a balance, which the
  token program keeps within u64, and the products are computed in u128, so the
  models use natural numbers. Timestamps are far below 2^63.
- Nobody sends tokens to the protocol's vaults except through the program. A bare
  transfer to the reward vault would act as a fee.
- There is one $SOLANS mint; `set_solans_params` changes rate and discount.
- A name NFT leaves circulation only through `redeem_name`; a new mint is modelled
  by any mint nobody holds.
- Token accounts belong to one wallet each; multisig and frozen accounts are left
  out.
- Metadata, events, return data and the on-chain `resolve` view change no state
  anything reads; the CLI's read-only commands print it.
- Byte layouts, discriminators and the parsers nobody calls: an instruction is its
  name, its accounts and a record of arguments.
- A command's reads are one step. Each value read is checked on its own by the
  program when the transaction lands (seller, price, highest bidder, mint, fee
  accounts), so reading them at different moments adds no outcome.
- Keeper notifications and metrics, HTTP and DNS formats, IPFS uploads: nothing
  reads them back.
- The Rust client repeats the walk and the layouts read-only; observability counts.

## 7 Plan

Done: the on-chain program, the client, SDK and CLI, the three services, the
refinement and its proof, and a theorem for every safety property of the passing
runs. What would add most next:

1. The indexer with the instructions it does not decode: which of its promises
   survive `claim_expired`, `accept_offer` and auctions.
2. Two requests of one resolver in the same run, with a cache that is shared.

DueIsRenewed and CacheSettles stay with TLC.
