---------------------------- MODULE TenantCache ----------------------------
(***************************************************************************)
(* API keys in the gateway.  Every request hashes its key, asks the        *)
(* in-memory TenantCache, and on a miss the table tenants; what the table  *)
(* had is cached with a time stamp.  verify_api_key (the X-API-Key header) *)
(* and _verify_api_key_for_sse (the query parameter of a stream) do the    *)
(* same on one cache.  The requests are coroutines of one event loop: they *)
(* meet at the await of the query, and between the row that was read and   *)
(* the stamp under which it is cached any time may pass.                   *)
(*                                                                         *)
(* Keys are added to and removed from the table by hand.                   *)
(***************************************************************************)
EXTENDS Naturals, FiniteSets, FiniteSetsExt

CONSTANTS
    Key,            \* SHA-256 hashes of API keys
    Request,        \* requests the gateway has at a time
    NoKey,
    TTL,            \* api_key_cache_ttl_seconds
    MaxTime,        \* bound of the model: the clock
    MaxChanges,     \* bound of the model: changes of the table
    MaxRestarts     \* bound of the model: restarts of the gateway

ASSUME TenantCacheAssumption ==
    /\ {TTL, MaxTime, MaxChanges, MaxRestarts} \subseteq Nat
    /\ NoKey \notin Key

VARIABLES
    tenants,        \* the keys the table tenants has
    store,          \* per key: the time its entry was cached, or Never
    pc,             \* per request: "idle", "query", "found" or "refused"
    key,            \* per request: the key it came with
    clock,
    restarts,
    readAt,         \* history, per request: when its row was read
    validAt,        \* history, per key: when the table had it for the last time
    longest,        \* history, per key: the longest from a row to its caching
    accepted,       \* history: keys accepted in the last step
    changes         \* history: changes of the table

requestVars == <<pc, key, readAt>>
tableVars == <<tenants, validAt, changes>>
vars == <<requestVars, tableVars, store, clock, restarts, longest, accepted>>

Never == MaxTime + 1
Times == 0 .. MaxTime

TypeOK ==
    /\ tenants \subseteq Key
    /\ store \in [Key -> Times \cup {Never}]
    /\ pc \in [Request -> {"idle", "query", "found", "refused"}]
    /\ key \in [Request -> Key \cup {NoKey}]
    /\ clock \in Times
    /\ restarts \in 0 .. MaxRestarts
    /\ readAt \in [Request -> Times]
    /\ validAt \in [Key -> Times \cup {Never}]
    /\ longest \in [Key -> Times]
    /\ accepted \subseteq Key
    /\ changes \in 0 .. MaxChanges

Init ==
    /\ tenants \in SUBSET Key
    /\ store = [k \in Key |-> Never]
    /\ pc = [r \in Request |-> "idle"]
    /\ key = [r \in Request |-> NoKey]
    /\ clock = 0
    /\ restarts = 0
    /\ readAt = [r \in Request |-> 0]
    /\ validAt = [k \in Key |-> IF k \in tenants THEN 0 ELSE Never]
    /\ longest = [k \in Key |-> 0]
    /\ accepted = {}
    /\ changes = 0

Become(r, to) == pc' = [pc EXCEPT ![r] = to]

-----------------------------------------------------------------------------
(***************************************************************************)
(* TenantCache.get, and the request it is asked for                        *)
(***************************************************************************)

Cached(k) == store[k] # Never

\* age > ttl: an entry is good at the age of the TTL itself.
Fresh(k) == Cached(k) /\ clock - store[k] <= TTL

\* Mutation of Hit: an entry in use is kept fresh.
HitAndTouch(r, k) ==
    /\ pc[r] = "idle"
    /\ Fresh(k)
    /\ accepted' = {k}
    /\ store' = [store EXCEPT ![k] = clock]
    /\ UNCHANGED <<requestVars, tableVars, clock, restarts, longest>>

\* A fresh entry: accepted without a query.
Hit(r, k) ==
    /\ pc[r] = "idle"
    /\ Fresh(k)
    /\ accepted' = {k}
    /\ UNCHANGED <<requestVars, tableVars, store, clock, restarts, longest>>

\* No entry, or an expired one, which is deleted: the table is asked.
Miss(r, k) ==
    /\ pc[r] = "idle"
    /\ ~ Fresh(k)
    /\ store' = [store EXCEPT ![k] = Never]
    /\ key' = [key EXCEPT ![r] = k]
    /\ Become(r, "query")
    /\ accepted' = {}
    /\ UNCHANGED <<tableVars, readAt, clock, restarts, longest>>

-----------------------------------------------------------------------------
(***************************************************************************)
(* find_by_api_key_hash, and what follows it                               *)
(***************************************************************************)

\* The SELECT.  An error of the database ends the request like a missing row.
Select(r) ==
    /\ pc[r] = "query"
    /\ \/ /\ key[r] \in tenants
          /\ Become(r, "found")
          /\ readAt' = [readAt EXCEPT ![r] = clock]
       \/ Become(r, "refused") /\ UNCHANGED readAt
    /\ accepted' = {}
    /\ UNCHANGED <<key, tableVars, store, clock, restarts, longest>>

\* The request is over.
Leave(r) ==
    /\ key' = [key EXCEPT ![r] = NoKey]
    /\ Become(r, "idle")
    /\ readAt' = [readAt EXCEPT ![r] = 0]

\* TenantCache.set stamps the entry with the time of the caching.
Accept(r) ==
    /\ pc[r] = "found"
    /\ store' = [store EXCEPT ![key[r]] = clock]
    /\ accepted' = {key[r]}
    /\ longest' = [longest EXCEPT ![key[r]] = Max({@, clock - readAt[r]})]
    /\ Leave(r)
    /\ UNCHANGED <<tableVars, clock, restarts>>

\* AuthenticationError; nothing is cached for a key that was not found.
Refuse(r) ==
    /\ pc[r] = "refused"
    /\ Leave(r)
    /\ accepted' = {}
    /\ UNCHANGED <<tableVars, store, clock, restarts, longest>>

-----------------------------------------------------------------------------

\* The table gets or loses the key.
Change(k) ==
    /\ changes < MaxChanges
    /\ changes' = changes + 1
    /\ tenants' = IF k \in tenants THEN tenants \ {k} ELSE tenants \cup {k}
    /\ validAt' = [validAt EXCEPT ![k] = clock]
    /\ accepted' = {}
    /\ UNCHANGED <<requestVars, store, clock, restarts, longest>>

\* A new process begins with an empty cache.
Restart ==
    /\ restarts < MaxRestarts
    /\ restarts' = restarts + 1
    /\ store' = [k \in Key |-> Never]
    /\ pc' = [r \in Request |-> "idle"]
    /\ key' = [r \in Request |-> NoKey]
    /\ readAt' = [r \in Request |-> 0]
    /\ accepted' = {}
    /\ UNCHANGED <<tableVars, clock, longest>>

Tick ==
    /\ clock < MaxTime
    /\ clock' = clock + 1
    /\ validAt' = [k \in Key |-> IF k \in tenants THEN clock + 1 ELSE validAt[k]]
    /\ accepted' = {}
    /\ UNCHANGED <<requestVars, tenants, changes, store, restarts, longest>>

Next ==
    \/ \E r \in Request, k \in Key : Hit(r, k) \/ Miss(r, k)
    \/ \E r \in Request : Select(r) \/ Accept(r) \/ Refuse(r)
    \/ \E k \in Key : Change(k)
    \/ Restart
    \/ Tick

Spec == Init /\ [][Next]_vars

-----------------------------------------------------------------------------
(***************************************************************************)
(* Properties                                                              *)
(***************************************************************************)

\* A key that left the table is accepted for the TTL and no longer, whether
\* it is in use or not, but for one thing: a request that had read its row
\* before caches it afterwards, also when another request was refused in
\* between, and the TTL begins there.
RevokedKeyExpires ==
    \A k \in accepted :
        /\ validAt[k] # Never
        /\ clock <= validAt[k] + longest[k] + TTL

=============================================================================
