-------------------------- MODULE FrontDoor_proofs --------------------------
(***************************************************************************)
(* Proofs about the two doors of the system, for every value of their      *)
(* constants.  TenantCache, the gateway's: a key that left the table       *)
(* expires.  LogIngestion, the API that takes logs: a log that was         *)
(* accepted is in the topic, and a shutdown turns no request away while    *)
(* its grace period lasts.  The two share no state.                        *)
(***************************************************************************)
EXTENDS TenantCache, LogIngestion, TLAPS

-----------------------------------------------------------------------------

(***************************************************************************)
(* The inductive invariant                                                 *)
(***************************************************************************)

\* The time a key was valid for the last time is now for a key of the table,
\* and never in the future.
TableOK ==
    \A k \in Key :
        /\ k \in tenants => validAt[k] = clock
        /\ validAt[k] # Never => validAt[k] <= clock

\* A request that waits for its row, or has it, has a key; the row was read
\* while the key was valid.
RequestsOK ==
    \A r \in Request :
        /\ pc[r] \in {"query", "found"} => key[r] \in Key
        /\ pc[r] = "found" =>
            validAt[key[r]] # Never /\ readAt[r] <= validAt[key[r]]

\* An entry is no younger than its key's validity, but for the time that a
\* request took from the row to the cache.
StoreOK ==
    \A k \in Key : Cached(k) =>
        validAt[k] # Never /\ store[k] <= validAt[k] + longest[k]

IInv == TypeOK /\ TableOK /\ RequestsOK /\ StoreOK /\ RevokedKeyExpires

-----------------------------------------------------------------------------

\* Max of two numbers is one of them, and at least each of them.
LEMMA MaxOfTwo ==
    ASSUME NEW a \in Int, NEW b \in Int
    PROVE  Max({a, b}) \in {a, b} /\ Max({a, b}) >= a /\ Max({a, b}) >= b
<1>1. \E x \in {a, b} : \A y \in {a, b} : x >= y
    <2>1. a >= b \/ b >= a
        OBVIOUS
    <2> QED
        BY <2>1
<1>2. Max({a, b}) \in {a, b} /\ \A y \in {a, b} : Max({a, b}) >= y
    BY <1>1 DEF Max
<1> QED
    BY <1>2

LEMMA TypeInit == Init => TypeOK
BY TenantCacheAssumption DEF Init, TypeOK, Times, Never

\* The longest way from a row to its caching only grows.
LEMMA AcceptExtends ==
    ASSUME TypeOK, TableOK, RequestsOK, NEW r \in Request, Accept(r)
    PROVE  /\ key[r] \in Key
           /\ longest' \in [Key -> Times]
           /\ \A k \in Key : longest[k] <= longest'[k]
           /\ clock <= validAt[key[r]] + longest'[key[r]]
<1> USE TenantCacheAssumption
<1>1. /\ key[r] \in Key
      /\ validAt[key[r]] # Never
      /\ readAt[r] <= validAt[key[r]]
    BY DEF Accept, RequestsOK
<1>2. /\ readAt[r] \in Nat /\ validAt[key[r]] \in Nat /\ clock \in Nat
      /\ validAt[key[r]] <= clock
      /\ longest[key[r]] \in Times /\ clock \in Times
    BY <1>1 DEF TypeOK, TableOK, Times, Never
<1> DEFINE way == clock - readAt[r]
<1>3. way \in Times /\ clock <= validAt[key[r]] + way
    BY <1>1, <1>2 DEF Times
<1> HIDE DEF way
<1>4. /\ Max({longest[key[r]], way}) \in Times
      /\ Max({longest[key[r]], way}) >= longest[key[r]]
      /\ Max({longest[key[r]], way}) >= way
    <2>1. longest[key[r]] \in Int /\ way \in Int
        BY <1>2, <1>3 DEF Times
    <2>2. /\ Max({longest[key[r]], way}) \in {longest[key[r]], way}
          /\ Max({longest[key[r]], way}) >= longest[key[r]]
          /\ Max({longest[key[r]], way}) >= way
        BY <2>1, MaxOfTwo
    <2> QED
        BY <1>2, <1>3, <2>2
<1>5. longest' = [longest EXCEPT ![key[r]] = Max({longest[key[r]], way})]
    BY DEF Accept, way
<1>6. /\ longest' \in [Key -> Times]
      /\ longest'[key[r]] = Max({longest[key[r]], way})
      /\ \A k \in Key \ {key[r]} : longest'[k] = longest[k]
    BY <1>1, <1>4, <1>5 DEF TypeOK
<1>7. \A k \in Key : longest[k] \in Nat
    BY DEF TypeOK, Times
<1>8. \A k \in Key : longest[k] <= longest'[k]
    BY <1>4, <1>6, <1>7 DEF Times
<1> QED
    BY <1>1, <1>2, <1>3, <1>4, <1>6, <1>8 DEF Times

LEMMA TypeStep ==
    ASSUME TypeOK, TableOK, RequestsOK, [Next]_vars
    PROVE  TypeOK'
<1> USE TenantCacheAssumption DEF requestVars, tableVars, Become
<1>1. ASSUME NEW r \in Request, NEW k \in Key, Hit(r, k) \/ Miss(r, k)
      PROVE  TypeOK'
    BY <1>1 DEF Hit, Miss, TypeOK
<1>2. ASSUME NEW r \in Request, Select(r) \/ Refuse(r)
      PROVE  TypeOK'
    BY <1>2 DEF Select, Refuse, Leave, TypeOK, Times
<1>3. ASSUME NEW r \in Request, Accept(r)
      PROVE  TypeOK'
    <2>1. key[r] \in Key /\ longest' \in [Key -> Times]
        BY <1>3, AcceptExtends
    <2> QED
        BY <1>3, <2>1 DEF Accept, Leave, TypeOK, Times
<1>4. ASSUME NEW k \in Key, Change(k)
      PROVE  TypeOK'
    BY <1>4 DEF Change, TypeOK
<1>5. CASE Restart
    BY <1>5 DEF Restart, TypeOK, Times
<1>6. CASE Tick
    BY <1>6 DEF Tick, TypeOK, Times
<1>7. CASE UNCHANGED vars
    BY <1>7 DEF vars, TypeOK
<1> QED
    BY <1>1, <1>2, <1>3, <1>4, <1>5, <1>6, <1>7 DEF Next

\* While time passes and the table changes, the last validity of a key only
\* moves on, and the rest of the cache stays.
LEMMA TableStep ==
    ASSUME TypeOK, TableOK, Tick \/ \E k \in Key : Change(k)
    PROVE  /\ TableOK'
           /\ UNCHANGED <<requestVars, store, longest>>
           /\ accepted' = {}
           /\ \A k \in Key : validAt[k] # Never =>
                validAt'[k] # Never /\ validAt[k] <= validAt'[k]
<1> USE TenantCacheAssumption DEF Never, Times
<1>1. CASE Tick
    BY <1>1 DEF Tick, TypeOK, TableOK
<1>2. ASSUME NEW c \in Key, Change(c)
      PROVE  /\ TableOK'
             /\ UNCHANGED <<requestVars, store, longest>>
             /\ accepted' = {}
             /\ \A k \in Key : validAt[k] # Never =>
                  validAt'[k] # Never /\ validAt[k] <= validAt'[k]
    <2>1. /\ validAt'[c] = clock
          /\ \A k \in Key \ {c} : validAt'[k] = validAt[k] /\ (k \in tenants' <=> k \in tenants)
          /\ clock' = clock /\ accepted' = {}
          /\ UNCHANGED <<requestVars, store, longest>>
        BY <1>2 DEF Change, TypeOK
    <2>2. clock \in Nat /\ clock # Never /\ \A k \in Key : validAt[k] \in Nat
        BY DEF TypeOK
    <2>3. TableOK'
        BY <2>1, <2>2 DEF TableOK
    <2> QED
        BY <2>1, <2>2, <2>3 DEF TableOK
<1> QED
    BY <1>1, <1>2

LEMMA CacheStep ==
    ASSUME IInv, [Next]_vars
    PROVE  TableOK' /\ RequestsOK' /\ StoreOK' /\ RevokedKeyExpires'
<1> USE TenantCacheAssumption DEF IInv
<1>0. /\ clock \in Nat /\ clock # Never
      /\ \A k \in Key : validAt[k] \in Nat /\ longest[k] \in Nat /\ store[k] \in Nat
      /\ \A r \in Request : readAt[r] \in Nat
    BY DEF TypeOK, Times, Never
<1>1. ASSUME NEW r \in Request, NEW k \in Key, Hit(r, k)
      PROVE  TableOK' /\ RequestsOK' /\ StoreOK' /\ RevokedKeyExpires'
    <2>1. /\ UNCHANGED <<pc, key, readAt, tenants, validAt, store, clock, longest>>
          /\ accepted' = {k} /\ Cached(k) /\ clock - store[k] <= TTL
        BY <1>1 DEF Hit, Fresh, requestVars, tableVars
    <2>2. validAt[k] # Never /\ clock <= validAt[k] + longest[k] + TTL
        BY <1>0, <2>1 DEF StoreOK
    <2> QED
        BY <2>1, <2>2 DEF TableOK, RequestsOK, StoreOK, Cached, RevokedKeyExpires
<1>2. ASSUME NEW r \in Request, NEW k \in Key, Miss(r, k)
      PROVE  TableOK' /\ RequestsOK' /\ StoreOK' /\ RevokedKeyExpires'
    <2>1. /\ UNCHANGED <<readAt, tenants, validAt, clock, longest>>
          /\ accepted' = {}
          /\ store' = [store EXCEPT ![k] = Never]
          /\ key' = [key EXCEPT ![r] = k]
          /\ pc' = [pc EXCEPT ![r] = "query"]
        BY <1>2 DEF Miss, Become, tableVars
    <2>2. TableOK' /\ StoreOK' /\ RevokedKeyExpires'
        BY <2>1 DEF TypeOK, TableOK, StoreOK, Cached, RevokedKeyExpires
    <2>3. RequestsOK'
        BY <2>1 DEF TypeOK, RequestsOK
    <2> QED
        BY <2>2, <2>3
<1>3. ASSUME NEW r \in Request, Select(r)
      PROVE  TableOK' /\ RequestsOK' /\ StoreOK' /\ RevokedKeyExpires'
    <2>1. /\ UNCHANGED <<key, tenants, validAt, store, clock, longest>>
          /\ accepted' = {}
        BY <1>3 DEF Select, tableVars
    <2>2. TableOK' /\ StoreOK' /\ RevokedKeyExpires'
        BY <2>1 DEF TableOK, StoreOK, Cached, RevokedKeyExpires
    <2>3. CASE pc' = [pc EXCEPT ![r] = "refused"] /\ UNCHANGED readAt
        BY <2>1, <2>2, <2>3 DEF TypeOK, RequestsOK
    <2>4. CASE /\ key[r] \in tenants
               /\ pc' = [pc EXCEPT ![r] = "found"]
               /\ readAt' = [readAt EXCEPT ![r] = clock]
        <3>1. key[r] \in Key /\ validAt[key[r]] = clock
            BY <2>4 DEF TypeOK, TableOK
        <3>2. readAt'[r] = clock /\ pc'[r] = "found"
            BY <2>4 DEF TypeOK
        <3>3. \A q \in Request \ {r} : readAt'[q] = readAt[q] /\ pc'[q] = pc[q]
            BY <2>4 DEF TypeOK
        <3>4. RequestsOK'
            BY <1>0, <2>1, <3>1, <3>2, <3>3 DEF RequestsOK
        <3> QED
            BY <2>2, <3>4
    <2> QED
        BY <1>3, <2>3, <2>4 DEF Select, Become
<1>4. ASSUME NEW r \in Request, Accept(r)
      PROVE  TableOK' /\ RequestsOK' /\ StoreOK' /\ RevokedKeyExpires'
    <2>1. /\ key[r] \in Key
          /\ longest' \in [Key -> Times]
          /\ \A k \in Key : longest[k] <= longest'[k]
          /\ clock <= validAt[key[r]] + longest'[key[r]]
        BY <1>4, AcceptExtends
    <2>2. /\ UNCHANGED <<tenants, validAt, clock>>
          /\ accepted' = {key[r]}
          /\ store' = [store EXCEPT ![key[r]] = clock]
          /\ validAt[key[r]] # Never
          /\ \A q \in Request : pc'[q] = "idle" \/ q # r
          /\ \A q \in Request \ {r} : pc'[q] = pc[q] /\ key'[q] = key[q] /\ readAt'[q] = readAt[q]
        BY <1>4 DEF Accept, Leave, Become, tableVars, RequestsOK, TypeOK
    <2>3. \A k \in Key : longest'[k] \in Nat
        BY <2>1 DEF Times
    <2>4. TableOK' /\ RequestsOK'
        BY <2>2 DEF TableOK, RequestsOK
    <2>5. RevokedKeyExpires'
        BY <1>0, <2>1, <2>2, <2>3 DEF RevokedKeyExpires
    <2>6. StoreOK'
        <3> SUFFICES ASSUME NEW k \in Key, Cached(k)'
                     PROVE  validAt'[k] # Never /\ store'[k] <= validAt'[k] + longest'[k]
            BY DEF StoreOK
        <3>1. CASE k = key[r]
            BY <2>1, <2>2, <3>1 DEF TypeOK
        <3>2. CASE k # key[r]
            <4>1. Cached(k) /\ store'[k] = store[k]
                BY <2>2, <3>2 DEF TypeOK, Cached
            <4> QED
                BY <1>0, <2>1, <2>2, <2>3, <4>1 DEF StoreOK
        <3> QED
            BY <3>1, <3>2
    <2> QED
        BY <2>4, <2>5, <2>6
<1>5. ASSUME NEW r \in Request, Refuse(r)
      PROVE  TableOK' /\ RequestsOK' /\ StoreOK' /\ RevokedKeyExpires'
    BY <1>5 DEF Refuse, Leave, Become, tableVars, TypeOK, TableOK, RequestsOK, StoreOK,
                Cached, RevokedKeyExpires
<1>6. CASE Tick \/ \E k \in Key : Change(k)
    <2>1. /\ TableOK'
          /\ UNCHANGED <<pc, key, readAt, store, longest>>
          /\ accepted' = {}
          /\ \A k \in Key : validAt[k] # Never =>
               validAt'[k] # Never /\ validAt[k] <= validAt'[k]
        BY <1>6, TableStep DEF requestVars
    <2>2. \A k \in Key : validAt'[k] \in Nat
        BY TypeStep DEF TypeOK, Times, Never
    <2> QED
        BY <1>0, <2>1, <2>2 DEF RequestsOK, StoreOK, Cached, RevokedKeyExpires
<1>7. CASE Restart
    BY <1>7 DEF Restart, tableVars, TableOK, RequestsOK, StoreOK, Cached, RevokedKeyExpires
<1>8. CASE UNCHANGED vars
    BY <1>8 DEF vars, requestVars, tableVars, TableOK, RequestsOK, StoreOK, Cached,
                RevokedKeyExpires
<1> QED
    BY <1>1, <1>2, <1>3, <1>4, <1>5, <1>6, <1>7, <1>8 DEF Next

-----------------------------------------------------------------------------
(***************************************************************************)
(* Theorems                                                                *)
(***************************************************************************)

\* The strengthened invariant holds in every reachable state.
THEOREM InductiveInvariant == Spec => []IInv
<1>1. Init => IInv
    <2>1. ASSUME Init
          PROVE  TableOK /\ RequestsOK /\ StoreOK /\ RevokedKeyExpires
        BY <2>1, TenantCacheAssumption DEF Init, TableOK, RequestsOK, StoreOK, Cached,
           RevokedKeyExpires, Never
    <2> QED
        BY <2>1, TypeInit DEF IInv
<1>2. IInv /\ [Next]_vars => IInv'
    BY TypeStep, CacheStep DEF IInv
<1> QED
    BY <1>1, <1>2, PTL DEF Spec

\* The gateway refuses a key at the latest one TTL after the last request that
\* had read its row while it was in the table has cached it.
THEOREM RevocationTakesEffect == Spec => []RevokedKeyExpires
<1>1. IInv => RevokedKeyExpires
    BY DEF IInv
<1> QED
    BY <1>1, InductiveInvariant, PTL

-----------------------------------------------------------------------------

(***************************************************************************)
(* The inductive invariant                                                 *)
(***************************************************************************)

\* The writer is closed, and turns requests away, at the end of a shutdown
\* only, and by then no request is in flight or the grace period is over.
ShutdownOK ==
    /\ writerClosed => server \in {"closing", "exited"}
    /\ server \in {"closing", "exited"} => graceOver \/ InFlight = {}
    /\ turnedAway # {} => graceOver /\ server \in {"closing", "exited"}

IngestionInv == IngestionTypeOK /\ AcceptedIsPublished /\ ShutdownOK

-----------------------------------------------------------------------------

LEMMA IngestionTypeInit ==
    ASSUME IngestionInit
    PROVE  IngestionTypeOK
<1>1. writerClosed \in BOOLEAN /\ graceOver \in BOOLEAN
    BY Zenon DEF IngestionInit
<1> QED
    BY <1>1, LogIngestionAssumption DEF IngestionInit, IngestionTypeOK

LEMMA IngestionTypeStep ==
    ASSUME IngestionTypeOK, [IngestionNext]_ingestionVars
    PROVE  IngestionTypeOK'
<1> USE LogIngestionAssumption DEF writerVars, boundVars, historyVars, Move
<1>1. ASSUME NEW a \in Attempt, Limit(a) \/ Admit(a)
      PROVE  IngestionTypeOK'
    BY <1>1 DEF Limit, Admit, IngestionTypeOK, Failed
<1>2. ASSUME NEW a \in Attempt, Publish(a) \/ PublishFails(a)
      PROVE  IngestionTypeOK'
    BY <1>2 DEF Publish, PublishFails, IngestionTypeOK, Failed
<1>3. ASSUME NEW a \in Attempt, Acknowledge(a) \/ GiveUp(a)
      PROVE  IngestionTypeOK'
    BY <1>3 DEF Acknowledge, GiveUp, IngestionTypeOK, Failed
<1>4. ASSUME NEW a \in Attempt, Disconnect(a)
      PROVE  IngestionTypeOK'
    BY <1>4 DEF Disconnect, IngestionTypeOK, Failed
<1>5. CASE Probe \/ Refill \/ Signal
    BY <1>5 DEF Probe, Refill, Signal, IngestionTypeOK
<1>6. CASE Drain
    BY <1>6 DEF Drain, IngestionTypeOK
<1>7. CASE CloseWriter
    BY <1>7 DEF CloseWriter, IngestionTypeOK
<1>8. CASE Exit \/ Crash
    <2>1. state' \in
            [Attempt -> {"unsent", "handling", "waiting", "accepted", "invalid"} \cup Failed]
        BY <1>8 DEF Exit, Crash, EndRequests, IngestionTypeOK, Failed
    <2> QED
        BY <1>8, <2>1 DEF Exit, Crash, IngestionTypeOK
<1>9. CASE Start
    <2>1. writerClosed' \in BOOLEAN /\ graceOver' \in BOOLEAN
        BY <1>9, Zenon DEF Start
    <2> QED
        BY <1>9, <2>1 DEF Start, IngestionTypeOK
<1>10. CASE UNCHANGED ingestionVars
    BY <1>10 DEF ingestionVars, IngestionTypeOK
<1> QED
    BY <1>1, <1>2, <1>3, <1>4, <1>5, <1>6, <1>7, <1>8, <1>9, <1>10 DEF IngestionNext

\* The topic only grows, and a request becomes accepted together with its
\* message's arrival there.
LEMMA AcceptedStep ==
    ASSUME IngestionTypeOK, [IngestionNext]_ingestionVars
    PROVE  /\ topic \subseteq topic'
           /\ \A a \in Attempt :
                state'[a] = "accepted" => state[a] = "accepted" \/ a \in topic'
<1> USE DEF writerVars, boundVars, historyVars, Move, IngestionTypeOK
<1>1. ASSUME NEW a \in Attempt, Limit(a) \/ Admit(a) \/ Disconnect(a)
      PROVE  /\ topic \subseteq topic'
             /\ \A b \in Attempt : state'[b] = "accepted" => state[b] = "accepted"
    BY <1>1 DEF Limit, Admit, Disconnect
<1>2. ASSUME NEW a \in Attempt, Publish(a) \/ PublishFails(a)
      PROVE  /\ topic \subseteq topic'
             /\ \A b \in Attempt : state'[b] = "accepted" => state[b] = "accepted"
    BY <1>2 DEF Publish, PublishFails
<1>3. ASSUME NEW a \in Attempt, Acknowledge(a) \/ GiveUp(a)
      PROVE  /\ topic \subseteq topic'
             /\ \A b \in Attempt :
                    state'[b] = "accepted" => state[b] = "accepted" \/ b \in topic'
    BY <1>3 DEF Acknowledge, GiveUp
<1>4. CASE Exit \/ Crash
    BY <1>4 DEF Exit, Crash, EndRequests
<1>5. CASE \/ Probe \/ Refill \/ Signal \/ Drain \/ CloseWriter \/ Start
           \/ UNCHANGED ingestionVars
    BY <1>5 DEF Probe, Refill, Signal, Drain, CloseWriter, Start, ingestionVars
<1> QED
    BY <1>1, <1>2, <1>3, <1>4, <1>5 DEF IngestionNext

\* A request gets into flight only while the server is up.
LEMMA InFlightStep ==
    ASSUME IngestionTypeOK, [IngestionNext]_ingestionVars, server # "up"
    PROVE  InFlight' \subseteq InFlight
<1> USE DEF writerVars, boundVars, historyVars, Move, IngestionTypeOK, InFlight
<1>1. ASSUME NEW a \in Attempt, Limit(a) \/ Admit(a)
      PROVE  FALSE
    BY <1>1 DEF Limit, Admit, Sendable
<1>2. ASSUME NEW a \in Attempt, Publish(a) \/ PublishFails(a) \/ Disconnect(a)
      PROVE  InFlight' \subseteq InFlight
    BY <1>2 DEF Publish, PublishFails, Disconnect
<1>3. ASSUME NEW a \in Attempt, Acknowledge(a) \/ GiveUp(a)
      PROVE  InFlight' \subseteq InFlight
    BY <1>3 DEF Acknowledge, GiveUp
<1>4. CASE Exit \/ Crash
    BY <1>4 DEF Exit, Crash, EndRequests
<1>5. CASE \/ Probe \/ Refill \/ Signal \/ Drain \/ CloseWriter \/ Start
           \/ UNCHANGED ingestionVars
    BY <1>5 DEF Probe, Refill, Signal, Drain, CloseWriter, Start, ingestionVars
<1> QED
    BY <1>1, <1>2, <1>3, <1>4, <1>5 DEF IngestionNext

LEMMA ShutdownStep ==
    ASSUME IngestionTypeOK, ShutdownOK, [IngestionNext]_ingestionVars
    PROVE  ShutdownOK'
<1> USE DEF writerVars, boundVars, historyVars
<1>1. ASSUME NEW a \in Attempt, PublishFails(a)
      PROVE  ShutdownOK'
    <2>1. a \in InFlight /\ UNCHANGED <<server, writerClosed, graceOver>>
        BY <1>1 DEF PublishFails, InFlight
    <2>2. turnedAway' # {} => turnedAway # {} \/ writerClosed
        BY <1>1 DEF PublishFails
    <2>3. server # "up" => InFlight' \subseteq InFlight
        BY InFlightStep
    <2> QED
        BY <2>1, <2>2, <2>3 DEF ShutdownOK
<1>2. ASSUME NEW a \in Attempt,
             \/ Limit(a) \/ Admit(a) \/ Publish(a)
             \/ Acknowledge(a) \/ GiveUp(a) \/ Disconnect(a)
      PROVE  ShutdownOK'
    <2>1. UNCHANGED <<server, writerClosed, graceOver, turnedAway>>
        BY <1>2 DEF Limit, Admit, Publish, Acknowledge, GiveUp, Disconnect
    <2>2. server # "up" => InFlight' \subseteq InFlight
        BY InFlightStep
    <2> QED
        BY <2>1, <2>2 DEF ShutdownOK
<1>3. CASE Probe \/ Refill \/ Signal
    BY <1>3 DEF Probe, Refill, Signal, ShutdownOK, InFlight
<1>4. CASE Drain
    <2>1. /\ server = "draining" /\ server' = "closing"
          /\ UNCHANGED <<state, writerClosed, turnedAway>>
        BY <1>4 DEF Drain
    <2>2. graceOver' <=> InFlight # {}
        BY <1>4, Zenon DEF Drain
    <2>3. InFlight' = InFlight
        BY <2>1 DEF InFlight
    <2>4. turnedAway = {}
        BY <2>1 DEF ShutdownOK
    <2> QED
        BY <2>1, <2>2, <2>3, <2>4 DEF ShutdownOK
<1>5. CASE CloseWriter
    BY <1>5 DEF CloseWriter, ShutdownOK, InFlight
<1>6. CASE Exit \/ Crash
    <2>1. InFlight' = {}
        BY <1>6 DEF Exit, Crash, EndRequests, InFlight
    <2>2. server' = "exited" /\ UNCHANGED <<writerClosed, graceOver, turnedAway>>
        BY <1>6 DEF Exit, Crash
    <2> QED
        BY <2>1, <2>2 DEF ShutdownOK
<1>7. CASE Start
    BY <1>7 DEF Start, ShutdownOK
<1>8. CASE UNCHANGED ingestionVars
    BY <1>8 DEF ingestionVars, ShutdownOK, InFlight
<1> QED
    BY <1>1, <1>2, <1>3, <1>4, <1>5, <1>6, <1>7, <1>8 DEF IngestionNext

-----------------------------------------------------------------------------
(***************************************************************************)
(* Theorems                                                                *)
(***************************************************************************)

\* The strengthened invariant holds in every reachable state.
THEOREM IngestionInvariant == IngestionSpec => []IngestionInv
<1>1. IngestionInit => IngestionInv
    <2>1. ASSUME IngestionInit
          PROVE  AcceptedIsPublished /\ ShutdownOK
        BY <2>1 DEF IngestionInit, AcceptedIsPublished, ShutdownOK
    <2> QED
        BY <2>1, IngestionTypeInit DEF IngestionInv
<1>2. IngestionInv /\ [IngestionNext]_ingestionVars => IngestionInv'
    BY IngestionTypeStep, AcceptedStep, ShutdownStep DEF IngestionInv, AcceptedIsPublished
<1> QED
    BY <1>1, <1>2, PTL DEF IngestionSpec

\* IngestLog answers 202 after WriteMessages returned, so no shutdown, crash
\* or disconnection leaves an accepted log out of the topic.
THEOREM AcceptedLogsArePublished == IngestionSpec => []AcceptedIsPublished
<1>1. IngestionInv => AcceptedIsPublished
    BY DEF IngestionInv
<1> QED
    BY <1>1, IngestionInvariant, PTL

\* main closes the producer after the server has drained: a request in flight
\* is refused or ended by a shutdown only when the grace period was too short.
THEOREM ShutdownIsGraceful == IngestionSpec => DrainIsGraceful
<1>1. IngestionInv => (turnedAway # {} => graceOver)
    BY DEF IngestionInv, ShutdownOK
<1>2. IngestionInv /\ [IngestionNext]_ingestionVars =>
        [\A a \in InFlight : state'[a] = "lost" => graceOver \/ crashes' > crashes]_ingestionVars
    <2> SUFFICES ASSUME IngestionInv, IngestionNext, NEW a \in InFlight, state'[a] = "lost"
                 PROVE  graceOver \/ crashes' > crashes
        OBVIOUS
    <2> USE DEF writerVars, boundVars, historyVars, Move, IngestionTypeOK, InFlight,
                IngestionInv
    <2>1. CASE Exit
        BY <2>1 DEF Exit, ShutdownOK
    <2>2. CASE Crash
        BY <2>2 DEF Crash
    <2>3. ASSUME NEW b \in Attempt, Limit(b) \/ Admit(b) \/ Disconnect(b)
          PROVE  FALSE
        BY <2>3 DEF Limit, Admit, Sendable, Disconnect
    <2>4. ASSUME NEW b \in Attempt,
                 Publish(b) \/ PublishFails(b) \/ Acknowledge(b) \/ GiveUp(b)
          PROVE  FALSE
        BY <2>4 DEF Publish, PublishFails, Acknowledge, GiveUp
    <2>5. CASE Probe \/ Refill \/ Signal \/ Drain \/ CloseWriter \/ Start
        BY <2>5 DEF Probe, Refill, Signal, Drain, CloseWriter, Start
    <2> QED
        BY <2>1, <2>2, <2>3, <2>4, <2>5 DEF IngestionNext
<1> QED
    BY <1>1, <1>2, IngestionInvariant, PTL DEF IngestionSpec, DrainIsGraceful

=============================================================================
