---------------------------- MODULE FeedbackLoop ----------------------------
(***************************************************************************)
(* What the pipeline learns from its own results, and what it does with    *)
(* it.  The eval-harness judges the investigations on agent.results, books *)
(* their cost, and puts good ones into the knowledge base and into the     *)
(* semantic cache.  The semantic-cache service answers later incidents     *)
(* from that cache, and the model-router chooses their model by the cost   *)
(* booked so far.  The RCA agent between them is external: it ends each    *)
(* investigation with a result or without one.                             *)
(*                                                                         *)
(* The delivery of incidents to the cache and the router is the subject of *)
(* IncidentStages; here each of them handles an incident once.             *)
(***************************************************************************)
EXTENDS Naturals, Sequences

CONSTANTS
    Incident,       \* numbered in the order of their topic
    Past,           \* those investigated, passed and cached long ago
    Lasting,        \* those of them whose entry lost its TTL, see SetTtl
    Tenant,
    TenantOf,       \* tenant of each incident
    Score,          \* cosine similarity of two incidents' descriptions
    Seeded,         \* those in the knowledge base from the beginning
    Labelled,       \* those with a ground_truth that a human wrote
    Observed,       \* those whose reasoning steps have observations
    Closeness,      \* similarity of a conclusion and a description
    ProxyThreshold, \* SIMILARITY_THRESHOLD of SimilarityStrategy
    Mark,           \* what the evaluating LLM may answer, in percent
    Threshold,      \* cache_similarity_threshold
    Budget,         \* token_budget_usd_daily of every tenant
    TierCost,       \* what a result of the tier's model may be booked at: the
                    \* tokens of its last attempt, whatever the others used
    FallbackCost,   \* the same of one by budget_exceeded_fallback
    NoIncident,
    MaxEnds,        \* bound of the model: stops and crashes of the harness
    MaxDays         \* bound of the model: the number of midnights

ASSUME FeedbackAssumption ==
    /\ Incident \subseteq Nat
    /\ Past \subseteq Incident
    /\ Lasting \subseteq Past
    /\ TenantOf \in [Incident -> Tenant]
    /\ Score \in [Incident \X Incident -> Nat]
    /\ Seeded \subseteq Past
    /\ Labelled \subseteq Incident
    /\ Observed \subseteq Incident
    /\ Closeness \in [Incident \X Incident -> Nat]
    /\ ProxyThreshold \in Nat
    /\ Mark \subseteq Nat
    /\ Threshold \in Nat
    /\ Budget \in Nat
    /\ TierCost \subseteq Nat
    /\ FallbackCost \subseteq Nat
    /\ NoIncident \notin Incident
    /\ MaxEnds \in Nat
    /\ MaxDays \in Nat

\* A Redis hash cache:{tenant}:{uuid}: the incident whose description was
\* embedded, the one whose investigation is stored, and whether a TTL is set.
Entry == [tenant : Tenant, about : Incident, source : Incident, expires : BOOLEAN]

\* A message of agent.results: source is the incident that was investigated.
Result == [incident : Incident, source : Incident, cache_hit : BOOLEAN]

Choice == {"tier", "fallback"}

\* What a faithfulness score rests on: eval_mode, and the proxy's incident.
Ground == [by : {"nothing", "label", "incident", "observations"}, proxy : Incident \cup {NoIncident}]

VARIABLES
    (***********************************************************************)
    (* Incidents on their way                                              *)
    (***********************************************************************)
    stage,          \* per incident, the topic or the service it is in
    model,          \* per routed incident, what ModelRouter.route chose
    results,        \* the topic agent.results
    (***********************************************************************)
    (* The semantic-cache task                                             *)
    (***********************************************************************)
    scanned,        \* per incident in lookup, the keys still to be read
    best,           \* per incident in lookup, the best entries read so far
    (***********************************************************************)
    (* Redis, PostgreSQL and Chroma, and the clock                         *)
    (***********************************************************************)
    cache,          \* entries in Redis
    booked,         \* per tenant, the sum of eval_results.cost_usd of the day
    pastIncidents,  \* rows of past_incidents
    collection,     \* entries of the Chroma collections
    day,            \* midnights (UTC) so far
    (***********************************************************************)
    (* The eval-harness process                                            *)
    (***********************************************************************)
    running,
    position,       \* the next offset its consumer returns
    committed,      \* the offset of its group
    pc,             \* the await the task is in
    hand,           \* the result being evaluated
    evaluated_at,   \* day of the result in hand, from its evaluation to its row
    verdict,        \* what the scores allow: nothing, caching, or learning too
    ground,         \* what a score that allows learning rests on
    (***********************************************************************)
    (* History, read by the properties only                                *)
    (***********************************************************************)
    spent,          \* per tenant, what is booked today for the tier's models
    overrun,        \* the part of it booked since the tier was last chosen, for
    late,           \* the investigations that were in flight then
    passed,         \* incidents that passed their evaluation
    vouchers,       \* per incident, the grounds it was learned on
    answer,         \* per incident, the entries it was answered from
    ends            \* stops and crashes so far

topicVars == <<stage, model, results>>
lookupVars == <<scanned, best, answer>>
storeVars == <<cache, booked, pastIncidents, collection, day>>
harnessVars == <<running, position, committed, pc, hand, evaluated_at, verdict, ground>>
spendVars == <<spent, overrun>>
historyVars == <<spendVars, late, passed, vouchers>>
vars == <<topicVars, lookupVars, storeVars, harnessVars, historyVars, ends>>

NoResult == [incident |-> NoIncident, source |-> NoIncident, cache_hit |-> FALSE]
On(b) == [by |-> b, proxy |-> NoIncident]

Init ==
    /\ stage = [i \in Incident |-> IF i \in Past THEN "investigated" ELSE "compressed"]
    /\ model = [i \in Incident |-> "none"]
    /\ results = << >>
    /\ scanned = [i \in Incident |-> {}]
    /\ best = [i \in Incident |-> {}]
    /\ cache = {[tenant |-> TenantOf[i], about |-> i, source |-> i, expires |-> i \notin Lasting] :
                 i \in Past}
    /\ booked = [t \in Tenant |-> 0]
    /\ pastIncidents = Seeded
    /\ collection = Seeded
    /\ day = 0
    /\ running = TRUE
    /\ position = 1
    /\ committed = 1
    /\ pc = "fetch"
    /\ hand = NoResult
    /\ evaluated_at = 0
    /\ verdict = "none"
    /\ ground = On("nothing")
    /\ spent = [t \in Tenant |-> 0]
    /\ overrun = [t \in Tenant |-> 0]
    /\ late = [t \in Tenant |-> {}]
    /\ passed = Past
    /\ vouchers = [i \in Incident |-> {}]
    /\ answer = [i \in Incident |-> {}]
    /\ ends = 0

\* The incidents before i in its partition, which its tenant is the key of.
Before(i) == {j \in Incident : j < i /\ TenantOf[j] = TenantOf[i]}

\* What a result of the model chosen may be booked at.
Cost(c) == IF c = "tier" THEN TierCost ELSE FallbackCost

-----------------------------------------------------------------------------
(***************************************************************************)
(* semantic-cache: SemanticCache.get and the handler around it             *)
(***************************************************************************)

\* Mutation of EntryKeys: the tenant is missing from the pattern of SCAN.
EntryKeysOfAll(t) == cache

\* _scan_entry_keys: cache:{tenant}:*, without the two counters.
EntryKeys(t) == {e \in cache : e.tenant = t}

\* The description is embedded, and the keys are scanned.
ScanKeys(i) ==
    /\ stage[i] = "compressed"
    /\ \A j \in Incident : stage[j] # "lookup"
    /\ \A j \in Before(i) : stage[j] # "compressed"
    /\ stage' = [stage EXCEPT ![i] = "lookup"]
    /\ scanned' = [scanned EXCEPT ![i] = EntryKeys(TenantOf[i])]
    /\ UNCHANGED <<model, results, best, answer, storeVars, harnessVars, historyVars, ends>>

\* The embedding or the scan failed: a miss (fail-open).
LookupFails(i) ==
    /\ stage[i] = "compressed"
    /\ \A j \in Incident : stage[j] # "lookup"
    /\ \A j \in Before(i) : stage[j] # "compressed"
    /\ stage' = [stage EXCEPT ![i] = "routed"]
    /\ UNCHANGED <<model, results, lookupVars, storeVars, harnessVars, historyVars, ends>>

\* score > best_score: the later of two equal entries is not taken.
Better(i, e, b) == \A f \in b : Score[<<i, e.about>>] > Score[<<i, f.about>>]

\* HGETALL of one key: an expired entry reads as empty, and is skipped as one
\* that could not be read.
ReadEntry(i, e) ==
    /\ stage[i] = "lookup"
    /\ e \in scanned[i]
    /\ scanned' = [scanned EXCEPT ![i] = @ \ {e}]
    /\ \/ /\ e \in cache
          /\ best' = [best EXCEPT ![i] = IF Better(i, e, @) THEN {e} ELSE @]
       \/ UNCHANGED best
    /\ UNCHANGED <<topicVars, answer, storeVars, harnessVars, historyVars, ends>>

\* The entry that answers the incident: none, or one at or above the threshold.
Hit(i) == {e \in best[i] : Score[<<i, e.about>>] >= Threshold}

\* _handle_hit: the stored result, with this incident's id and cache_hit set.
HandleHit(i) ==
    /\ stage[i] = "lookup"
    /\ scanned[i] = {}
    /\ \E e \in Hit(i) :
        results' = Append(results, [incident |-> i, source |-> e.source, cache_hit |-> TRUE])
    /\ answer' = [answer EXCEPT ![i] = Hit(i)]
    /\ stage' = [stage EXCEPT ![i] = "answered"]
    /\ best' = [best EXCEPT ![i] = {}]
    /\ UNCHANGED <<model, scanned, storeVars, harnessVars, historyVars, ends>>

\* _handle_miss: the incident goes on to incidents.routed.
HandleMiss(i) ==
    /\ stage[i] = "lookup"
    /\ scanned[i] = {}
    /\ Hit(i) = {}
    /\ stage' = [stage EXCEPT ![i] = "routed"]
    /\ best' = [best EXCEPT ![i] = {}]
    /\ UNCHANGED <<model, results, scanned, answer, storeVars, harnessVars, historyVars, ends>>

\* Redis drops an entry whose TTL has run out.
ExpireEntry ==
    /\ \E e \in cache : e.expires /\ cache' = cache \ {e}
    /\ UNCHANGED <<topicVars, lookupVars, booked, pastIncidents, collection, day, harnessVars,
                   historyVars, ends>>

-----------------------------------------------------------------------------
(***************************************************************************)
(* model-router: ModelRouter.route; and the RCA agent                      *)
(***************************************************************************)

\* Mutation of Exhausted: the budget may be spent to the last cent and more.
ExhaustedLate(t) == booked[t] > Budget

\* get_daily_spend, of the current UTC day, against token_budget_usd_daily.
Exhausted(t) == booked[t] >= Budget

\* Midnight: the window of get_daily_spend begins anew, and so does the history
\* of what it contains.
Midnight ==
    /\ day < MaxDays
    /\ day' = day + 1
    /\ booked' = [t \in Tenant |-> 0]
    /\ spent' = [t \in Tenant |-> 0]
    /\ overrun' = [t \in Tenant |-> 0]
    /\ UNCHANGED <<topicVars, lookupVars, cache, pastIncidents, collection, harnessVars, late,
                   passed, vouchers, ends>>

\* Investigations by the tier's model, of tenant t.
TierChoices(t) == {i \in Incident : model[i] = "tier" /\ TenantOf[i] = t}

\* Those whose cost may still be booked: under way, evaluated at the moment, or
\* with a result behind the commit, which will be read, perhaps again.
InFlight(t) ==
    {i \in TierChoices(t) :
        \/ stage[i] = "ready"
        \/ pc \in {"context", "save"} /\ hand.incident = i
        \/ \E k \in committed .. Len(results) :
                ~ results[k].cache_hit /\ results[k].incident = i}

\* Budget exhausted: the cheapest model.
RouteToFallback(i) ==
    /\ stage[i] = "routed"
    /\ \A j \in Before(i) : stage[j] # "routed"
    /\ Exhausted(TenantOf[i])
    /\ model' = [model EXCEPT ![i] = "fallback"]
    /\ stage' = [stage EXCEPT ![i] = "ready"]
    /\ UNCHANGED <<results, lookupVars, storeVars, harnessVars, historyVars, ends>>

\* The model of the severity and the tenant's tier.
RouteToTier(i) ==
    /\ stage[i] = "routed"
    /\ \A j \in Before(i) : stage[j] # "routed"
    /\ ~ Exhausted(TenantOf[i])
    /\ model' = [model EXCEPT ![i] = "tier"]
    /\ stage' = [stage EXCEPT ![i] = "ready"]
    /\ late' = [late EXCEPT ![TenantOf[i]] = InFlight(TenantOf[i]) \cup {i}]
    /\ overrun' = [overrun EXCEPT ![TenantOf[i]] = 0]
    /\ UNCHANGED <<results, lookupVars, storeVars, harnessVars, spent, passed, vouchers, ends>>

\* The RCA agent ends the investigation with a result.
Investigate(i) ==
    /\ stage[i] = "ready"
    /\ \A j \in Before(i) : stage[j] # "ready"
    /\ stage' = [stage EXCEPT ![i] = "investigated"]
    /\ results' = Append(results, [incident |-> i, source |-> i, cache_hit |-> FALSE])
    /\ UNCHANGED <<model, lookupVars, storeVars, harnessVars, historyVars, ends>>

\* It ends without one.  What it cost is booked nowhere, as are the attempts
\* before the one that succeeded.
InvestigationFails(i) ==
    /\ stage[i] = "ready"
    /\ \A j \in Before(i) : stage[j] # "ready"
    /\ stage' = [stage EXCEPT ![i] = "failed"]
    /\ UNCHANGED <<model, results, lookupVars, storeVars, harnessVars, historyVars, ends>>

-----------------------------------------------------------------------------
(***************************************************************************)
(* eval-harness: EvalKafkaHandler._handle_message                          *)
(***************************************************************************)

\* The harness task goes on to await a; everything outside it stays as it is.
GoTo(a) ==
    /\ pc' = a
    /\ UNCHANGED <<topicVars, lookupVars, running, position, committed, ends>>

\* Mutation of TakeResult: results answered from the cache are evaluated too.
TakeAnyResult ==
    /\ running
    /\ pc = "fetch"
    /\ position <= Len(results)
    /\ position' = position + 1
    /\ hand' = results[position]
    /\ pc' = "context"
    /\ UNCHANGED <<topicVars, lookupVars, storeVars, running, committed, evaluated_at, verdict,
                   ground, historyVars, ends>>

\* The next result.  One that was answered from the cache is skipped, as it was
\* evaluated when it was stored.
TakeResult ==
    /\ running
    /\ pc = "fetch"
    /\ position <= Len(results)
    /\ position' = position + 1
    /\ IF results[position].cache_hit
       THEN UNCHANGED <<pc, hand>>
       ELSE pc' = "context" /\ hand' = results[position]
    /\ UNCHANGED <<topicVars, lookupVars, storeVars, running, committed, evaluated_at, verdict,
                   ground, historyVars, ends>>

\* Mutation of DefaultScore: without evidence, the conclusion is trusted.
TrustingScore == 85

\* NO_OBSERVATIONS_DEFAULT_SCORE and PARSE_FAILURE_DEFAULT_SCORE of both
\* evaluators, and the score the handler takes when one of them raises.
DefaultScore == 75

PassMark == 70          \* compute_passed, and the learner's for hallucination
LearnMark == 80         \* learn_faithfulness_threshold

Judged(g) == {[score |-> s, ground |-> g] : s \in Mark}

GroundTruth(i) == IF i \in Labelled THEN Judged(On("label")) ELSE {}

\* The nearest entry of the tenant's collection, if it is near enough.
Proxies(i) ==
    LET own == {j \in collection : TenantOf[j] = TenantOf[i]}
    IN  {j \in own :
            /\ \A k \in own : Closeness[i, k] <= Closeness[i, j]
            /\ Closeness[i, j] >= ProxyThreshold}

Similarity(i) == UNION {Judged([by |-> "incident", proxy |-> j]) : j \in Proxies(i)}

Heuristic(i) ==
    {[score |-> DefaultScore, ground |-> On("nothing")]}
        \cup (IF i \in Observed THEN Judged(On("observations")) ELSE {})

\* evaluate_faithfulness asks one strategy after the other until one answers;
\* any of them may fail to.
Faithfulness(i) == GroundTruth(i) \cup Similarity(i) \cup Heuristic(i)

Hallucination == Mark \cup {DefaultScore}

\* compute_passed, and the gates of maybe_learn.
Level(f, h) ==
    CASE h <= PassMark \/ f.score <= PassMark  -> "fail"
      [] h > PassMark  /\ f.score > LearnMark  -> "learn"
      [] OTHER                                 -> "pass"

\* _fetch_incident_context, and both evaluators.
Evaluate ==
    /\ running
    /\ pc = "context"
    /\ \E f \in Faithfulness(hand.incident), h \in Hallucination :
          /\ verdict' = Level(f, h)
          /\ ground' = IF Level(f, h) = "learn" THEN f.ground ELSE On("nothing")
    /\ evaluated_at' = day
    /\ passed' = IF verdict' = "fail" THEN passed ELSE passed \cup {hand.incident}
    /\ GoTo("save")
    /\ UNCHANGED <<storeVars, hand, spendVars, late, vouchers>>

\* No row for the incident, or the query failed: the result is dropped.
SkipResult ==
    /\ running
    /\ pc = "context"
    /\ hand' = NoResult
    /\ GoTo("fetch")
    /\ UNCHANGED <<storeVars, evaluated_at, verdict, ground, historyVars>>

\* The row of eval_results: calculate_cost, under a fresh eval_id.
Book(c) == booked' = [booked EXCEPT ![TenantOf[hand.incident]] = @ + c]

\* What the history keeps of a row of today.
CountSpend(c) ==
    LET t == TenantOf[hand.incident]
    IN  /\ spent' = [spent EXCEPT ![t] = IF model[hand.incident] = "tier" THEN @ + c ELSE @]
        /\ overrun' = [overrun EXCEPT ![t] = IF hand.incident \in late[t] THEN @ + c ELSE @]

\* The row counts for the day it was evaluated on, which may be over.
SaveEvaluation ==
    /\ running
    /\ pc = "save"
    /\ \/ /\ evaluated_at = day
          /\ \E c \in Cost(model[hand.incident]) : Book(c) /\ CountSpend(c)
       \/ /\ evaluated_at # day
          /\ UNCHANGED <<booked, spendVars>>
    /\ evaluated_at' = 0
    /\ GoTo("learn")
    /\ UNCHANGED <<cache, pastIncidents, collection, day, hand, verdict, ground, late, passed,
                   vouchers>>

\* The insert failed without effect, and the observers follow all the same.
SaveFails ==
    /\ running
    /\ pc = "save"
    /\ evaluated_at' = 0
    /\ GoTo("learn")
    /\ UNCHANGED <<storeVars, hand, verdict, ground, historyVars>>

LearnRow ==
    /\ pastIncidents' = pastIncidents \cup {hand.source}
    /\ vouchers' = [vouchers EXCEPT ![hand.source] = @ \cup {ground}]

\* Mutation of InsertRow: Chroma comes first.
InsertChromaFirst ==
    /\ running
    /\ pc = "learn"
    /\ verdict = "learn"
    /\ collection' = collection \cup {hand.source}
    /\ GoTo("chroma")
    /\ UNCHANGED <<cache, booked, pastIncidents, day, hand, evaluated_at, verdict, ground,
                   historyVars>>

\* maybe_learn passed its gates: the row of past_incidents.
InsertRow ==
    /\ running
    /\ pc = "learn"
    /\ verdict = "learn"
    /\ LearnRow
    /\ GoTo("chroma")
    /\ UNCHANGED <<cache, booked, collection, day, hand, evaluated_at, verdict, ground, spendVars,
                   late, passed>>

\* A gate is closed, or the insert raised - which may have taken effect.
LearnNothing ==
    /\ running
    /\ pc = "learn"
    /\ \/ UNCHANGED <<pastIncidents, vouchers>>
       \/ verdict = "learn" /\ LearnRow
    /\ GoTo("cache")
    /\ UNCHANGED <<cache, booked, collection, day, hand, evaluated_at, verdict, ground, spendVars,
                   late, passed>>

\* _insert_chromadb: the embedded description, or an error (before or after).
InsertChroma ==
    /\ running
    /\ pc = "chroma"
    /\ collection' \in {collection, collection \cup {hand.source}}
    /\ GoTo("cache")
    /\ UNCHANGED <<cache, booked, pastIncidents, day, hand, evaluated_at, verdict, ground,
                   historyVars>>

\* The entry the writer stores, until its TTL is set.
NewEntry ==
    [tenant |-> TenantOf[hand.incident], about |-> hand.incident, source |-> hand.source,
     expires |-> FALSE]

\* Mutation of StoreEntry: results that did not pass are cached as well.
StoreAnyEntry ==
    /\ running
    /\ pc = "cache"
    /\ cache' = cache \cup {NewEntry}
    /\ GoTo("expire")
    /\ UNCHANGED <<booked, pastIncidents, collection, day, hand, evaluated_at, verdict, ground,
                   historyVars>>

\* SemanticCacheWriter.set, HSET: only what passed is cached.
StoreEntry ==
    /\ running
    /\ pc = "cache"
    /\ verdict # "fail"
    /\ cache' = cache \cup {NewEntry}
    /\ GoTo("expire")
    /\ UNCHANGED <<booked, pastIncidents, collection, day, hand, evaluated_at, verdict, ground,
                   historyVars>>

\* The second call sets the TTL.
SetTtl ==
    /\ running
    /\ pc = "expire"
    /\ cache' = (cache \ {NewEntry}) \cup {[NewEntry EXCEPT !.expires = TRUE]}
    /\ hand' = NoResult
    /\ verdict' = "none"
    /\ ground' = On("nothing")
    /\ GoTo("fetch")
    /\ UNCHANGED <<booked, pastIncidents, collection, day, evaluated_at, historyVars>>

\* Mutation of Finish: the task starts over with the same result.
FinishNever ==
    /\ running
    /\ pc \in {"cache", "expire"}
    /\ GoTo("learn")
    /\ UNCHANGED <<storeVars, hand, evaluated_at, verdict, ground, historyVars>>

\* The result did not pass, or an error ends the work on it.
Finish ==
    /\ running
    /\ pc \in {"cache", "expire"}
    /\ hand' = NoResult
    /\ verdict' = "none"
    /\ ground' = On("nothing")
    /\ GoTo("fetch")
    /\ UNCHANGED <<storeVars, evaluated_at, historyVars>>

\* aiokafka commits what the consumer has returned every few seconds, the result
\* in hand included.
AutoCommit ==
    /\ running
    /\ committed # position
    /\ committed' = position
    /\ UNCHANGED <<topicVars, lookupVars, storeVars, running, position, pc, hand, evaluated_at,
                   verdict, ground, historyVars, ends>>

\* Mutation of Restart: the group begins again at the earliest offset.
RestartFromBeginning ==
    /\ ~ running
    /\ running' = TRUE
    /\ position' = 1
    /\ UNCHANGED <<topicVars, lookupVars, storeVars, committed, pc, hand, evaluated_at, verdict,
                   ground, historyVars, ends>>

\* The process crashes, or is stopped, which cancels the task and commits once
\* more: the result in hand may be lost or come again.
Ends ==
    /\ running
    /\ ends < MaxEnds
    /\ ends' = ends + 1
    /\ running' = FALSE
    /\ committed' \in {committed, position}
    /\ pc' = "fetch"
    /\ hand' = NoResult
    /\ evaluated_at' = 0
    /\ verdict' = "none"
    /\ ground' = On("nothing")
    /\ UNCHANGED <<topicVars, lookupVars, storeVars, position, historyVars>>

\* The container is started again at the group's offset.
Restart ==
    /\ ~ running
    /\ running' = TRUE
    /\ position' = committed
    /\ UNCHANGED <<topicVars, lookupVars, storeVars, committed, pc, hand, evaluated_at, verdict,
                   ground, historyVars, ends>>

-----------------------------------------------------------------------------

CacheTask ==
    \E i \in Incident :
        \/ ScanKeys(i)
        \/ LookupFails(i)
        \/ \E e \in scanned[i] : ReadEntry(i, e)
        \/ HandleHit(i)
        \/ HandleMiss(i)

RouterAndAgent ==
    \E i \in Incident :
        \/ RouteToFallback(i)
        \/ RouteToTier(i)
        \/ Investigate(i)
        \/ InvestigationFails(i)

Harness ==
    \/ TakeResult
    \/ Evaluate \/ SkipResult
    \/ SaveEvaluation \/ SaveFails
    \/ InsertRow \/ LearnNothing \/ InsertChroma
    \/ StoreEntry \/ SetTtl \/ Finish

Next ==
    \/ CacheTask
    \/ RouterAndAgent
    \/ Harness
    \/ ExpireEntry
    \/ Midnight
    \/ AutoCommit
    \/ Ends
    \/ Restart

Spec == Init /\ [][Next]_vars

\* The event loop runs the harness, and the container is restarted.
FairSpec == Spec /\ WF_vars(Harness) /\ WF_vars(Restart)

-----------------------------------------------------------------------------
(***************************************************************************)
(* Properties                                                              *)
(***************************************************************************)

\* The daily budget is a cap up to what is in flight: the rows of today for the
\* tier's models sum up to less than the budget, apart from those written since
\* the tier's model was chosen last for investigations in flight at that time.
\* (router.py calls the downgrade "a hard cap".)  The cap is one on the rows:
\* attempts that failed, and evaluations that were not saved, are not in them.
DailyCapHoldsUpToFlight ==
    \A t \in Tenant : spent[t] = 0 \/ spent[t] < Budget + overrun[t]

\* An incident answered from the cache gets a result of its own tenant, that
\* passed its evaluation, and that was made for an incident as similar as the
\* threshold demands: never a copy of a copy.
AnswersAreGenuine ==
    \A i \in Incident : \A e \in answer[i] :
        /\ TenantOf[e.source] = TenantOf[i]
        /\ e.source \in passed
        /\ Score[<<i, e.source>>] >= Threshold

\* The knowledge base never cites an incident it has no row for: what Chroma
\* finds by similarity, the BM25 index over past_incidents has as well.
KnowledgeHasRows == collection \subseteq pastIncidents

\* Whatever is learned rests on evidence in the end: a label, a seeded incident
\* or the agent's observations, and on an LLM's verdict at each step.  Scores
\* that stand for a failed evaluation teach nothing, and no group of learned
\* incidents vouches only for itself, although each may be the proxy ground
\* truth of the next and a redelivered result meets its own conclusion.
LearnedIsGrounded ==
    \A S \in SUBSET (pastIncidents \ Seeded) :
        S # {} => \E i \in S : \E g \in vouchers[i] : g.by # "nothing" /\ g.proxy \notin S

\* Every result is taken in the end, whatever its evaluators and stores answer
\* and however often the harness is stopped.
ResultsAreTaken == []<>(position > Len(results) /\ pc = "fetch")

=============================================================================
