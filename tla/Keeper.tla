------------------------------- MODULE Keeper -------------------------------
(***************************************************************************)
(* The auto-renew keeper against the registry.  A timer starts a sweep     *)
(* over the watchlist whether or not the previous one has ended.  A sweep  *)
(* reads the clock once, then for each name reads the record, the price    *)
(* and the owner's delegation, one call after the other, and sends an      *)
(* auto_renew it waits for.  Any call may fail; everybody else goes on     *)
(* between two of them; a transaction the keeper no longer waits for may   *)
(* still land.  An error before the loop over the names ends the process   *)
(* (main's catch, or an unhandled rejection of `void sweep()`).            *)
(*                                                                         *)
(* Of the notifications only the branch that sends them is kept.  The fee  *)
(* accounts a sweep reads off Config are set before the registry is live.  *)
(***************************************************************************)
EXTENDS Names, Sequences

CONSTANTS Watchlist,   \* the watched entries in order; one that is not in Names is malformed
          Sweeps,      \* slots for overlapping sweeps, which bound their number
          KeeperYears  \* KEEPER_YEARS: the term to renew for

ASSUME WatchAssumption == Watchlist # <<>> /\ KeeperYears \in Nat

VARIABLES up,      \* the process is running
          sweep,   \* what each running sweep knows and waits for, or Nil
          sent     \* the transaction of each slot on its way, or Nil

keeperVars == <<namesVars, up, sweep, sent>>

Current(s) == Watchlist[sweep[s].at]

dueForRenewal(expires_at, time) == time >= expires_at - RenewalWindow

Waits(s, call) == up /\ sweep[s] # Nil /\ sweep[s].call = call

\* The sweep s goes on with what it learnt.
Goes(s, next) == sweep' = [sweep EXCEPT ![s] = next]

\* Mutant: the first error ends the sweep.
NextName_gives_up(s, failed) ==
    Goes(s, IF ~failed /\ sweep[s].at < Len(Watchlist)
            THEN [sweep[s] EXCEPT !.at = @ + 1, !.call = "resolve"] ELSE Nil)

\* The entry is done, with or without an error: it is counted, and the loop
\* goes on.
NextName(s, failed) ==
    Goes(s, IF sweep[s].at < Len(Watchlist)
            THEN [sweep[s] EXCEPT !.at = @ + 1, !.call = "resolve"] ELSE Nil)

-----------------------------------------------------------------------------
(* The sweep. *)

\* getConfig has answered; `now` is the sweep's from here on.
StartSweep(s) ==
    /\ up /\ sweep[s] = Nil
    /\ Goes(s, [at |-> 1, call |-> "resolve", now |-> now,
                owner |-> Nil, fee |-> 0])
    /\ UNCHANGED <<namesVars, up, sent>>

\* getConfig has failed, and the process ends with all its sweeps.
Die ==
    /\ up /\ \E s \in Sweeps : sweep[s] = Nil
    /\ up' = FALSE
    /\ sweep' = [s \in Sweeps |-> Nil]
    /\ sent' = [s \in Sweeps |-> IF sent[s] # Nil /\ sent[s].landed THEN Nil ELSE sent[s]]
    /\ UNCHANGED namesVars

\* External: whoever runs the keeper starts it again.
Restart == ~up /\ up' = TRUE /\ UNCHANGED <<namesVars, sweep, sent>>

Resolve(s, n) ==
    /\ Waits(s, "resolve") /\ Current(s) = n
    /\ IF Exists(n) /\ dueForRenewal(rec[n].expires_at, sweep[s].now)
       THEN Goes(s, [sweep[s] EXCEPT !.call = "quote", !.owner = rec[n].owner])
       ELSE NextName(s, FALSE)
    /\ UNCHANGED <<namesVars, up, sent>>

\* quote reads Config again.
Quote(s, n) ==
    /\ Waits(s, "quote") /\ Current(s) = n
    /\ Goes(s, [sweep[s] EXCEPT !.call = "delegation", !.fee = YearlyPrice(n) * KeeperYears])
    /\ UNCHANGED <<namesVars, up, sent>>

Covers(amount, fee) == amount >= fee

CheckDelegation(s, n) ==
    /\ Waits(s, "delegation") /\ Current(s) = n
    /\ IF Covers(allowance[sweep[s].owner], sweep[s].fee)
       THEN Goes(s, [sweep[s] EXCEPT !.call = "send", !.owner = Nil, !.fee = 0])
       ELSE NextName(s, FALSE)
    /\ UNCHANGED <<namesVars, up, sent>>

\* renew: ownerAta reads the owner once more.  The instruction asks for
\* KeeperYears.  One transaction per slot is followed at a time.
SendRenewal(s, n) ==
    /\ Waits(s, "send") /\ Current(s) = n
    /\ TopLevel(n) /\ Exists(n)
    /\ sent[s] = Nil
    /\ sent' = [sent EXCEPT ![s] = [name |-> n, owner |-> rec[n].owner, landed |-> FALSE]]
    /\ Goes(s, [sweep[s] EXCEPT !.call = "confirm"])
    /\ UNCHANGED <<namesVars, up>>

\* The transaction lands: the account it charges must still be the owner's, and
\* auto_renew takes no term but one year.
LandRenewal(s, n) ==
    /\ sent[s] # Nil /\ ~sent[s].landed /\ sent[s].name = n
    /\ KeeperYears = 1
    /\ Exists(n) /\ sent[s].owner = rec[n].owner
    /\ AutoRenew(n)
    /\ sent' = [sent EXCEPT ![s] = IF Waits(s, "confirm") THEN [@ EXCEPT !.landed = TRUE] ELSE Nil]
    /\ UNCHANGED <<up, sweep>>

\* It fails, or its blockhash expires.
LoseRenewal(s) ==
    /\ sent[s] # Nil /\ ~sent[s].landed
    /\ sent' = [sent EXCEPT ![s] = Nil]
    /\ UNCHANGED <<namesVars, up, sweep>>

\* The confirmation arrives and the owner is told.
Confirm(s) ==
    /\ Waits(s, "confirm") /\ sent[s] # Nil /\ sent[s].landed
    /\ sent' = [sent EXCEPT ![s] = Nil]
    /\ NextName(s, FALSE)
    /\ UNCHANGED <<namesVars, up>>

\* A call throws.  The keeper stops waiting for a transaction that may be on
\* its way or may even have landed, and reports the renewal as failed.
CallFails(s) ==
    /\ up /\ sweep[s] # Nil
    /\ NextName(s, TRUE)
    /\ sent' = [sent EXCEPT ![s] = IF @ # Nil /\ @.landed THEN Nil ELSE @]
    /\ UNCHANGED <<namesVars, up>>

Called(s, n) == Resolve(s, n) \/ Quote(s, n) \/ CheckDelegation(s, n) \/ SendRenewal(s, n)

-----------------------------------------------------------------------------

\* The top-level names are registered for a year.  Their owner has twice the
\* money of the others.
KeeperInit ==
    /\ Deployed
    /\ now = 0
    /\ \E w \in Wallets :
         /\ rec = [n \in Names |-> IF TopLevel(n) THEN init_top_level_record(w, Year) ELSE Nil]
         /\ usdc = [v \in Wallets |-> IF v = w THEN UsdcPurse ELSE UsdcPurse \div 2]
    /\ solans = [w \in Wallets |-> SolansPurse]
    /\ vault = [v \in Vaults |-> 0]
    /\ reverse = [w \in Wallets |-> Nil]
    /\ holder = [m \in Mints |-> Nil]
    /\ allowance = [w \in Wallets |-> 0]
    /\ up = TRUE
    /\ sweep = [s \in Sweeps |-> Nil]
    /\ sent = [s \in Sweeps |-> Nil]

\* The steps of others that change what the keeper reads: owners, expiries,
\* delegations, balances and Config.  (Whatever else hands a name over does so
\* like TransferName.)
Chain ==
    \/ \E n \in Names, w \in Wallets :
         \/ \E y \in Terms : RegisterName(w, w, n, y, Nil) \/ RenewName(w, n, y, Nil)
         \/ BurnName(w, n)
         \/ \E v \in Wallets : TransferName(w, n, v)
    \/ \E w \in Wallets, a \in ApproveAmounts : Approve(w, a)
    \/ Tick
    \/ \E a \in Admins, p \in ParamChoices : UpdateConfig(a, p) /\ UNCHANGED registryVars

KeeperNext ==
    \/ \E s \in Sweeps :
         \/ StartSweep(s) \/ LoseRenewal(s) \/ Confirm(s) \/ CallFails(s)
         \/ \E n \in Names : Called(s, n) \/ LandRenewal(s, n)
    \/ Die \/ Restart
    \/ Chain /\ UNCHANGED <<up, sweep, sent>>

\* setInterval keeps starting sweeps while the process runs, a call answers or
\* throws, and a blockhash expires.  A call that is made again and again does
\* not fail every time, nor does a transaction that is sent again and again.
KeeperFairness ==
    /\ WF_keeperVars(\E s \in Sweeps : StartSweep(s))
    /\ \A s \in Sweeps :
         /\ WF_keeperVars(CallFails(s) \/ Confirm(s) \/ \E n \in Names : Called(s, n))
         /\ WF_keeperVars(LoseRenewal(s))
    /\ \A n \in Names :
         /\ SF_keeperVars(\E s \in Sweeps : Resolve(s, n))
         /\ SF_keeperVars(\E s \in Sweeps : Quote(s, n))
         /\ SF_keeperVars(\E s \in Sweeps : CheckDelegation(s, n))
         /\ SF_keeperVars(\E s \in Sweeps : SendRenewal(s, n))
         /\ SF_keeperVars(\E s \in Sweeps : LandRenewal(s, n))

KeeperSpec == KeeperInit /\ [][KeeperNext]_keeperVars /\ KeeperFairness

-----------------------------------------------------------------------------
(* What the keeper promises. *)

Renewable(n) ==
    /\ Exists(n) /\ now >= rec[n].expires_at - RenewalWindow
    /\ ValidYears(1)
    /\ YearlyPrice(n) <= allowance[rec[n].owner] /\ YearlyPrice(n) <= usdc[rec[n].owner]

\* A watched name does not stay in its renewal window for ever while the
\* delegation covers the price: it is renewed, or it stops being renewable, or
\* the process has ended, although reads are stale, calls fail, sweeps overlap
\* and another entry of the watchlist is malformed (runOnce, processName).  With
\* a term of one year, that is: the program refuses any other.
DueIsRenewed ==
    \A n \in Names :
        (\E i \in 1..Len(Watchlist) : Watchlist[i] = n) =>
            []<>(~up \/ ~Renewable(n))
=============================================================================
