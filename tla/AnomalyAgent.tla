---------------------------- MODULE AnomalyAgent ----------------------------
(***************************************************************************)
(* The anomaly agent: one thread that polls logs.enriched and takes each   *)
(* log through a statistical detector (Redis), a semantic detector (the    *)
(* error patterns of its tenant in Chroma), a cooldown, an LLM that judges *)
(* the candidate, and two publishers (PostgreSQL, then Kafka), whose       *)
(* failures are only logged.                                               *)
(*                                                                         *)
(* What the z-score says of a log is left open.  Chroma holds the          *)
(* embeddings of logs, named by their offsets; PostgreSQL is one           *)
(* connection, shared by the query for the LLM's context and the INSERT.   *)
(***************************************************************************)
EXTENDS Naturals, Sequences, FiniteSets, FiniteSetsExt

CONSTANTS
    Logs,           \* topic logs.enriched: records of the set Log
    Tenant, Service, Pattern,
    Distance,       \* cosine distance of two patterns
    Limit,          \* 1 - similarity_threshold
    Unit,           \* the distance 1, above which a confidence is no confidence
    MaxCollection,  \* max_collection_size
    Batch,          \* eviction_batch_size
    Cooldown,       \* alert_cooldown_seconds
    MaxTime,        \* bound of the model: the clock
    MaxFaults,      \* bound of the model: errors of PostgreSQL
    MaxEnds,        \* bound of the model: stops and crashes
    MaxLag          \* bound of the model: logs since the last commit

Log == [tenant : Tenant, service : Service, error : BOOLEAN, pattern : Pattern, stamp : Nat]

ASSUME AnomalyAssumption ==
    /\ Logs \in Seq(Log)
    /\ Distance \in [Pattern \X Pattern -> Nat]
    /\ \A p \in Pattern : Distance[<<p, p>>] = 0
    /\ {Limit, Unit, MaxCollection, Batch, Cooldown, MaxTime, MaxFaults, MaxEnds, MaxLag} \subseteq Nat
    /\ Limit < Unit
    \* 1000 embeddings are evicted at once: more than a tenant has services.
    /\ IsFiniteSet(Service)
    /\ Cardinality(Service) <= Batch

VARIABLES
    running, position, committed,
    pc,             \* the call the thread is in
    hand,           \* offset of the log in hand
    spike,          \* the statistical detector fired for it
    novelty,        \* distance to the nearest known pattern, 0 if not novel
    collection,     \* offsets of the logs embedded in Chroma
    lastAlert,      \* _last_alert_time, per tenant and service
    connection,     \* of PostgreSQL: "ready", "aborted" or "closed"
    rows,           \* alerts in the table alerts
    clock,
    ends,
    alerts,         \* history: the confirmed alerts; alert_id is the index
    lives,          \* history: starts of the process
    forgotten,      \* history: logs whose embeddings were evicted
    slips,          \* history: evictions that were due and did not happen
    faults          \* history: errors of PostgreSQL

offsetVars == <<running, position, committed, ends, lives>>
logVars == <<hand, spike, novelty>>
chromaVars == <<collection, forgotten, slips>>
postgresVars == <<connection, rows, faults>>
alertVars == <<lastAlert, alerts>>
vars == <<offsetVars, pc, logVars, chromaVars, postgresVars, alertVars, clock>>

Never == MaxTime + 1
Keys == Tenant \X Service
Key(i) == <<Logs[i].tenant, Logs[i].service>>

Init ==
    /\ running = TRUE
    /\ position = 1
    /\ committed = 1
    /\ pc = "poll"
    /\ hand = 0
    /\ spike = FALSE
    /\ novelty = 0
    /\ collection = {}
    /\ lastAlert = [k \in Keys |-> Never]
    /\ connection = "ready"
    /\ rows = {}
    /\ clock = 0
    /\ ends = 0
    /\ lives = 1
    /\ alerts = << >>
    /\ forgotten = {}
    /\ slips = 0
    /\ faults = 0

Goto(to) ==
    /\ running
    /\ pc' = to
    /\ UNCHANGED <<offsetVars, clock>>

\* process_log returns: the next poll.
Return ==
    /\ hand' = 0
    /\ spike' = FALSE
    /\ novelty' = 0

-----------------------------------------------------------------------------
(***************************************************************************)
(* KafkaLogConsumer.poll and the detectors                                 *)
(***************************************************************************)

\* The next log, and StatisticalDetector.update_and_check on it: a z-score
\* above the threshold, or none (also when Redis fails).
Poll ==
    /\ running
    /\ pc = "poll"
    /\ position <= Len(Logs)
    /\ position' = position + 1
    /\ hand' = position
    /\ spike' \in BOOLEAN
    /\ novelty' = 0
    /\ pc' = IF Logs[position].error THEN "embed" ELSE "candidate"
    /\ UNCHANGED <<running, committed, ends, lives, clock, chromaVars, postgresVars, alertVars>>

Of(t) == {i \in collection : Logs[i].tenant = t}

\* collection.query is filtered by the service.
Neighbours(i) == {j \in Of(Logs[i].tenant) : Logs[j].service = Logs[i].service}

Nearest(i) == Min({Distance[<<Logs[i].pattern, Logs[j].pattern>>] : j \in Neighbours(i)})

SemanticStep == UNCHANGED <<postgresVars, alertVars, hand, spike>>

\* No pattern of this service is known: the first is learned silently.
ColdStart ==
    /\ pc = "embed"
    /\ Neighbours(hand) = {}
    /\ collection' = collection \union {hand}
    /\ Goto("candidate")
    /\ SemanticStep
    /\ UNCHANGED <<novelty, forgotten, slips>>

KnownPattern ==
    /\ pc = "embed"
    /\ Neighbours(hand) # {}
    /\ Nearest(hand) <= Limit
    /\ Goto("candidate")
    /\ SemanticStep
    /\ UNCHANGED <<novelty, chromaVars>>

\* The new pattern is learned before it is judged.
NovelPattern ==
    /\ pc = "embed"
    /\ Neighbours(hand) # {}
    /\ Nearest(hand) > Limit
    /\ novelty' = Nearest(hand)
    /\ collection' = collection \union {hand}
    /\ Goto("evict")
    /\ SemanticStep
    /\ UNCHANGED <<forgotten, slips>>

\* OpenAI or Chroma fail before anything is added.
EmbedFails ==
    /\ pc = "embed"
    /\ Goto("candidate")
    /\ SemanticStep
    /\ UNCHANGED <<novelty, chromaVars>>

\* _evict_oldest: the first of the tenant's embeddings by the log's time.
Oldest(t) ==
    {i \in Of(t) :
        Cardinality({j \in Of(t) : Logs[j].stamp < Logs[i].stamp}) < Batch}

EvictionDue == Cardinality(Of(Logs[hand].tenant)) > MaxCollection

\* Mutation of Evict: the limit is tested for equality.
EvictAtLimit ==
    /\ pc = "evict"
    /\ LET evicted == IF Cardinality(Of(Logs[hand].tenant)) = MaxCollection
                      THEN Oldest(Logs[hand].tenant) ELSE {}
       IN  /\ collection' = collection \ evicted
           /\ forgotten' = forgotten \union evicted
    /\ Goto("candidate")
    /\ SemanticStep
    /\ UNCHANGED <<novelty, slips>>

Evict ==
    /\ pc = "evict"
    /\ LET evicted == IF EvictionDue THEN Oldest(Logs[hand].tenant) ELSE {}
       IN  /\ collection' = collection \ evicted
           /\ forgotten' = forgotten \union evicted
    /\ Goto("candidate")
    /\ SemanticStep
    /\ UNCHANGED <<novelty, slips>>

\* Chroma fails after the pattern was added: no result, but it is known.
EvictFails ==
    /\ pc = "evict"
    /\ slips' = slips + 1
    /\ novelty' = 0
    /\ Goto("candidate")
    /\ SemanticStep
    /\ UNCHANGED <<collection, forgotten>>

-----------------------------------------------------------------------------
(***************************************************************************)
(* AnomalyOrchestrator.process_log                                         *)
(***************************************************************************)

Candidate == spike \/ novelty > 0

CoolingDown(i) ==
    /\ lastAlert[Key(i)] # Never
    /\ clock < lastAlert[Key(i)] + Cooldown

\* No anomaly, or one within the cooldown of its service.
Dismiss ==
    /\ pc = "candidate"
    /\ ~Candidate \/ CoolingDown(hand)
    /\ Return
    /\ Goto("poll")
    /\ UNCHANGED <<chromaVars, postgresVars, alertVars>>

\* get_recent_errors: an error is swallowed without a rollback.
FetchContext ==
    /\ pc = "candidate"
    /\ Candidate
    /\ ~CoolingDown(hand)
    /\ \/ UNCHANGED <<connection, faults>>
       \/ /\ connection = "ready"
          /\ faults < MaxFaults
          /\ faults' = faults + 1
          /\ connection' \in {"aborted", "closed"}
    /\ Goto("verify")
    /\ UNCHANGED <<logVars, chromaVars, alertVars, rows>>

\* The LLM says NO.
Filter ==
    /\ pc = "verify"
    /\ Return
    /\ Goto("poll")
    /\ UNCHANGED <<chromaVars, postgresVars, alertVars>>

ThisAlert ==
    [log |-> hand, novel |-> novelty > 0, time |-> clock, life |-> lives,
     connected |-> connection # "closed"]

\* Mutation of Confirm: the cooldown does not begin.
ConfirmWithoutCooldown ==
    /\ pc = "verify"
    /\ novelty <= Unit
    /\ alerts' = Append(alerts, ThisAlert)
    /\ Goto("insert")
    /\ UNCHANGED <<logVars, chromaVars, postgresVars, lastAlert>>

\* The LLM says YES or fails: the alert is built, and its cooldown begins.
Confirm ==
    /\ pc = "verify"
    /\ novelty <= Unit
    /\ alerts' = Append(alerts, ThisAlert)
    /\ lastAlert' = [lastAlert EXCEPT ![Key(hand)] = clock]
    /\ Goto("insert")
    /\ UNCHANGED <<logVars, chromaVars, postgresVars>>

\* AlertPayload refuses a confidence above 1, outside every try: main closes
\* the consumer, which commits the log's offset, and exits.
ConfirmRaises ==
    /\ running
    /\ pc = "verify"
    /\ novelty > Unit
    /\ running' = FALSE
    /\ committed' = position
    /\ pc' = "poll"
    /\ Return
    /\ lastAlert' = [k \in Keys |-> Never]
    /\ UNCHANGED <<position, ends, lives, clock, chromaVars, postgresVars, alerts>>

\* Mutation of InsertFails: no rollback.
InsertFailsWithoutRollback ==
    /\ pc = "insert"
    /\ connection # "ready"
    /\ Goto("produce")
    /\ UNCHANGED <<connection, faults, logVars, chromaVars, alertVars, rows>>

\* PostgresAlertRepository.publish_alert: the row, or an error and a
\* rollback, which is no help to a closed connection.
Insert ==
    /\ pc = "insert"
    /\ connection = "ready"
    /\ rows' = rows \union {Len(alerts)}
    /\ Goto("produce")
    /\ UNCHANGED <<connection, faults, logVars, chromaVars, alertVars>>

InsertFault ==
    /\ pc = "insert"
    /\ connection = "ready"
    /\ faults < MaxFaults
    /\ faults' = faults + 1
    /\ connection' \in {"ready", "closed"}
    /\ Goto("produce")
    /\ UNCHANGED <<logVars, chromaVars, alertVars, rows>>

InsertFails ==
    /\ pc = "insert"
    /\ connection # "ready"
    /\ connection' = IF connection = "aborted" THEN "ready" ELSE "closed"
    /\ Goto("produce")
    /\ UNCHANGED <<faults, logVars, chromaVars, alertVars, rows>>

\* KafkaAlertPublisher.publish_alert, whose failures are only logged: the
\* alert is in the topic or not, and nothing here tells the difference.
Produce ==
    /\ pc = "produce"
    /\ Return
    /\ Goto("poll")
    /\ UNCHANGED <<chromaVars, postgresVars, alertVars>>

-----------------------------------------------------------------------------
(***************************************************************************)
(* main                                                                    *)
(***************************************************************************)

\* A signal ends the loop at its next turn; a crash, anywhere.
End ==
    /\ running
    /\ ends < MaxEnds
    /\ running' = FALSE
    /\ committed' \in {o \in committed .. position : o + MaxLag >= position}
    /\ slips' = IF pc = "evict" THEN slips + 1 ELSE slips
    /\ pc' = "poll"
    /\ Return
    /\ lastAlert' = [k \in Keys |-> Never]
    /\ ends' = ends + 1
    /\ UNCHANGED <<position, lives, clock, collection, forgotten, postgresVars, alerts>>

\* A new process, with a new connection and no cooldowns.
Start ==
    /\ ~running
    /\ running' = TRUE
    /\ position' = committed
    /\ lives' = lives + 1
    /\ connection' = "ready"
    /\ UNCHANGED <<committed, ends, pc, clock, logVars, chromaVars, alertVars, rows, faults>>

\* Time passes while the thread waits for a log or for the LLM.
Tick ==
    /\ pc \in {"poll", "verify"}
    /\ clock < MaxTime
    /\ clock' = clock + 1
    /\ UNCHANGED <<offsetVars, pc, logVars, chromaVars, postgresVars, alertVars>>

-----------------------------------------------------------------------------
Detect ==
    \/ Poll \/ ColdStart \/ KnownPattern \/ NovelPattern \/ EmbedFails
    \/ Evict \/ EvictFails

Judge ==
    \/ Dismiss \/ FetchContext \/ Filter \/ Confirm \/ ConfirmRaises
    \/ Insert \/ InsertFault \/ InsertFails \/ Produce

Next == Detect \/ Judge \/ End \/ Start \/ Tick

Spec == Init /\ [][Next]_vars

-----------------------------------------------------------------------------
(***************************************************************************)
(* Properties                                                              *)
(***************************************************************************)

SameKey(a, b) == Key(alerts[a].log) = Key(alerts[b].log)

\* Two alerts of a service are a cooldown apart unless a restart lies
\* between them, whatever the LLM's answer waited for; and a pattern raises
\* a second alert as new only after it was evicted, whatever is redelivered.
AlertsAreApart ==
    \A a, b \in DOMAIN alerts :
        a < b /\ SameKey(a, b) =>
            /\ alerts[a].life = alerts[b].life =>
                   alerts[a].time + Cooldown <= alerts[b].time
            /\ /\ alerts[a].novel
               /\ alerts[b].novel
               /\ LET p == Logs[alerts[a].log].pattern
                      q == Logs[alerts[b].log].pattern
                  IN  Distance[<<q, p>>] <= Limit
               => alerts[a].log \in forgotten

\* The embeddings of a tenant exceed their limit by no more than one cold
\* start of each service and the evictions that failed: although a cold
\* start evicts nothing, and an eviction can make services cold again.
CollectionBounded ==
    \A t \in Tenant :
        Cardinality(Of(t)) <=
            MaxCollection + Cardinality(Service) + slips
                + (IF pc = "evict" /\ Logs[hand].tenant = t THEN 1 ELSE 0)

\* A failed query leaves the shared connection in an aborted transaction, and
\* the INSERT that meets it fails, perhaps that of a much later log; but each
\* error of PostgreSQL and each end of the process costs one row at most, as
\* long as the connection is open.
AbortCostsOneRow ==
    LET settled == DOMAIN alerts \ (IF pc = "insert" THEN {Len(alerts)} ELSE {})
    IN  Cardinality({a \in settled \ rows : alerts[a].connected}) <= faults + ends
=============================================================================
