------------------------------ MODULE Resolver ------------------------------
(***************************************************************************)
(* The SDK's reads behind the resolver service.  A request that misses the *)
(* cache fetches its accounts one by one, each as it is at that moment:    *)
(* resolve and getRecords the record and then its ancestors, reverseLookup *)
(* the reverse record and then the name's.  The answer, also a negative    *)
(* one, is cached for the time to live.  The registry goes on meanwhile.   *)
(*                                                                         *)
(* The routes on a name (its record, its records, DNS) are one question,   *)
(* answered by the record: getRecords renders what resolve returns.        *)
(***************************************************************************)
EXTENDS Names, Sequences

CONSTANTS Requests,   \* slots for requests in flight
          AskedNames, AskedWallets,   \* what it is asked about
          Registrants,   \* the wallets that register and claim names
          TTL         \* cacheTtl, in ticks of the cache's clock

ASSUME ResolverAssumption ==
    /\ TTL \in Nat \ {0}
    /\ AskedNames \subseteq Names
    /\ AskedWallets \subseteq Wallets /\ Registrants \subseteq Wallets

VARIABLES req,    \* the request of each slot, or Nil
          cache   \* the cached answer to each question, or Nil

resolverVars == <<namesVars, req, cache>>

\* The cache's keys.
Questions == ({"name"} \X AskedNames) \cup ({"reverse"} \X AskedWallets)

\* cached: a hit is answered at once.
Hit(k) == cache[k] # Nil /\ UNCHANGED resolverVars

Miss(q, k) ==
    /\ req[q] = Nil /\ cache[k] = Nil
    /\ req' = [req EXCEPT ![q] = [key |-> k, leaf |-> Nil, cursor |-> Nil,
                                  attached |-> FALSE, read_at |-> now]]
    /\ UNCHANGED <<namesVars, cache>>

\* The value is produced, stored and sent.
Answers(q, value) ==
    /\ cache' = [cache EXCEPT ![req[q].key] = [value |-> value, ttl |-> TTL]]
    /\ req' = [req EXCEPT ![q] = Nil]
    /\ UNCHANGED namesVars

Asks(q, route) == req[q] # Nil /\ req[q].key[1] = route
Subject(q) == req[q].key[2]

-----------------------------------------------------------------------------
(* resolve and getRecords. *)

\* A record and all its ancestors exist and are linked, as they are now.
Attached(n) ==
    \E lineage \in SUBSET Names :
        /\ n \in lineage
        /\ \A m \in lineage : /\ Exists(m) /\ Linked(m)
                              /\ rec[m].parent # Nil => rec[m].parent \in lineage

\* attached and read_at only record, for the property below, what was the case
\* when the leaf was read.
FetchLeaf(q) ==
    LET r == rec[Subject(q)] IN
    /\ Asks(q, "name") /\ req[q].leaf = Nil
    /\ IF r = Nil \/ r.parent = Nil THEN Answers(q, r)
       ELSE /\ req' = [req EXCEPT ![q].leaf = r, ![q].cursor = r,
                                  ![q].attached = Attached(Subject(q)), ![q].read_at = now]
            /\ UNCHANGED <<namesVars, cache>>

\* Mutant: the parent need only exist.
ParentOk_by_address(cursor) == Exists(cursor.parent)

ParentOk(cursor) ==
    /\ Exists(cursor.parent)
    /\ rec[cursor.parent].registered_at = cursor.parent_registered_at

FetchParent(q) ==
    /\ Asks(q, "name") /\ req[q].leaf # Nil
    /\ LET c == req[q].cursor IN
       CASE ~ParentOk(c) -> Answers(q, Nil)
         [] ParentOk(c) /\ rec[c.parent].parent = Nil -> Answers(q, req[q].leaf)
         [] OTHER -> /\ req' = [req EXCEPT ![q].cursor = rec[c.parent]]
                     /\ UNCHANGED <<namesVars, cache>>

-----------------------------------------------------------------------------
(* reverseLookup.  The cursor is the name the reverse record points at. *)

FetchReverse(q) ==
    /\ Asks(q, "reverse") /\ req[q].cursor = Nil
    /\ IF reverse[Subject(q)] = Nil THEN Answers(q, Nil)
       ELSE /\ req' = [req EXCEPT ![q].cursor = reverse[Subject(q)]]
            /\ UNCHANGED <<namesVars, cache>>

RoundTrip(n, w) == Exists(n) /\ rec[n].owner = w

FetchForward(q) ==
    /\ Asks(q, "reverse") /\ req[q].cursor # Nil
    /\ Answers(q, IF RoundTrip(req[q].cursor, Subject(q)) THEN req[q].cursor ELSE Nil)

\* A fetch throws: the request fails, and nothing is cached.
FetchFails(q) ==
    /\ req[q] # Nil
    /\ req' = [req EXCEPT ![q] = Nil]
    /\ UNCHANGED <<namesVars, cache>>

\* Mutant: a negative answer has no expiry.
Aged_not_null(e) ==
    IF e = Nil \/ (e.ttl = 1 /\ e.value # Nil) THEN Nil
    ELSE IF e.value = Nil THEN e ELSE [e EXCEPT !.ttl = @ - 1]

Aged(e) == IF e = Nil \/ e.ttl = 1 THEN Nil ELSE [e EXCEPT !.ttl = @ - 1]

\* The cache's clock.  An expired entry is as good as deleted.
Age ==
    /\ cache' = [k \in Questions |-> Aged(cache[k])]
    /\ UNCHANGED <<namesVars, req>>

-----------------------------------------------------------------------------

ResolverInit ==
    /\ NamesInit
    /\ req = [q \in Requests |-> Nil]
    /\ cache = [k \in Questions |-> Nil]

\* The steps of others that change what the resolver reads.  Reverse records
\* nobody asks about are left alone, and of the edits of a live record only
\* the change of its owner is kept: to a reader the others are no different.
Registry ==
    \/ \E n \in Names, w \in Wallets :
         \/ /\ w \in Registrants
            /\ \E y \in Terms : RegisterName(w, w, n, y, Nil) \/ ClaimExpired(w, n, y, Nil)
         \/ BurnName(w, n) \/ RevokeSubdomain(w, n)
         \/ w \in AskedWallets /\ SetReverse(w, n)
         \/ \E v \in Wallets : TransferName(w, n, v)
         \/ \E c \in Names : WrapSubdomain(w, n, c, w)
    \/ Tick

Fetch(q) ==
    FetchLeaf(q) \/ FetchParent(q) \/ FetchReverse(q) \/ FetchForward(q) \/ FetchFails(q)

ResolverNext ==
    \/ \E k \in Questions : Hit(k) \/ \E q \in Requests : Miss(q, k)
    \/ \E q \in Requests : Fetch(q)
    \/ Age
    \/ Registry /\ UNCHANGED <<req, cache>>

\* A fetch answers or throws, and time passes.
ResolverSpec ==
    /\ ResolverInit /\ [][ResolverNext]_resolverVars
    /\ WF_resolverVars(Age) /\ \A q \in Requests : WF_resolverVars(Fetch(q))

-----------------------------------------------------------------------------
(* What the resolver promises. *)

\* A subdomain is only answered if it was attached to its ancestors when it was
\* read, although they were read later and one by one: a registration that
\* still matches then was there before.  The exception is an ancestor burned
\* and registered again within the second the subdomain was created in
\* (SolansClient.resolve).
AnswersAttached ==
    \A q \in Requests :
        /\ Asks(q, "name") /\ req[q].leaf # Nil
        /\ cache' # cache /\ req'[q] = Nil /\ cache'[req[q].key].value # Nil
        => req[q].attached \/ req[q].leaf.registered_at = req[q].read_at

WalkSound == [][AnswersAttached]_resolverVars

\* The answers the registry would give now.
Answer(k) ==
    CASE k[1] = "name" -> IF Attached(k[2]) THEN rec[k[2]] ELSE Nil
      [] k[1] = "reverse" ->
           IF reverse[k[2]] # Nil /\ Exists(reverse[k[2]]) /\ rec[reverse[k[2]]].owner = k[2]
           THEN reverse[k[2]] ELSE Nil

CacheRight == \A k \in Questions : cache[k] # Nil => cache[k].value = Answer(k)

\* When names stop changing, the service stops giving old answers, whatever
\* fetches were under way and however often it is asked: an answer that was
\* stored late, negative ones included, runs out (cached, MemoryCache).
CacheSettles ==
    []<><<rec' # rec \/ reverse' # reverse>>_<<rec, reverse>> \/ <>[]CacheRight
=============================================================================
