# Argus, verified: TLA+ models of the log-analytics pipeline

Argus (`src/`) is a chain of services that turn a stream of application logs
into explained incidents. Each service consumes one Kafka topic, keeps a little
state in memory, and writes to the next topic, to Postgres, to Redis or to
Chroma. The models in this directory are about what happens to a log, an alert
or an incident when these services crash, restart, are told to stop, are
rebalanced, or lose a publish or a commit - and about the races inside each
service.

## 1. Inventory

```
client -> api-gateway -> log-ingestion -> [logs.raw] -> security-middleware
  -> [logs.raw.clean] -> log-consumer -> (table logs) [logs.enriched] [logs.dlq]
  -> anomaly-agent -> (alerts) [alerts] -> alert-correlator -> (incidents) [incidents]
  -> context-compressor -> [incidents.compressed] -> semantic-cache
       hit -> [agent.results]       miss -> [incidents.routed]
  -> model-router -> [incidents.ready] -> rca-agent -> (rca_results) [rca.stream] [agent.results]
  -> eval-harness -> (eval_results) (past_incidents, Chroma) (Redis cache) Slack
```

| component | state it keeps | operations | what is hard | what makes it correct |
|---|---|---|---|---|
| **log-ingestion** (Go) | token bucket, batches of the Kafka writer | `IngestLog`, `Health`, `Publish` | client retries after a timeout, disconnects, a shutdown with requests in flight | an accepted request was published; a shutdown drains |
| **security-middleware** (Python) | message in hand, librdkafka buffer, commits in flight | `run`, `process_message`, `stop` | `produce` only enqueues, commits are asynchronous, full buffer, crash | no log behind the commit is passed over silently; flagged logs are audited first; one copy per delivery and lost acknowledgement; shutdown drains |
| **log-consumer** (Go) | `BatchWriter.pending`, retry counters | `Add`, timer, `flush`, `flushWithRetry`, `Flush` on stop | two goroutines swap one slice; commit before flush; ambiguous transaction commit; poison record | a batch has one owner; stored before announced; losses only where admitted; shutdown drains; memory bound |
| **anomaly-agent** (Python) | cooldown map, learned patterns, one database connection | `process_log`, detectors, LLM verification, publishers | cooldown around a slow LLM call; learning before judging; eviction; aborted transaction; auto-commit | alerts a cooldown apart; a pattern is new once; bounded collection; an error costs one row |
| **alert-correlator** (Python) | an alert window per tenant | `add_alert`, `_process_message` | publish, DLQ and commit order; redelivered alerts in the window; a task that dies unnoticed | cascades are genuine, complete and apart; every alert behind the commit reaches an incident or the DLQ |
| **context-compressor, semantic-cache, model-router** (Python) | message in hand, retry counter | consume, transform, publish or DLQ, commit | publish and DLQ both fail; exceptions outside the guarded calls; stop between two awaits | an incident behind the commit is downstream, in the DLQ, or had both fail |
| **rca-agent** (Python) | iteration, steps, attempt | `consume_loop`, `_process_message`, `run`, save, observers | auto-commit; attempts streamed and thrown away; sentinel before the save; failing observers | a complete stream is whole; all outputs of an investigation tell one outcome |
| **eval-harness** (Python) with Redis, Postgres, Chroma | verdict in hand; three stores | evaluate, save, learn, cache | partial failure of the double write, redelivery, an evaluation that leans on what was learned | cached answers are genuine; Chroma cites no incident without a row; learning is grounded; the daily budget is a cap up to what is in flight |
| **knowledge base**: seed script, self-learner, hybrid search (Python) | rows and documents of incidents, cached corpus | seed, learn, search, fuse, rerank | two stores written one after the other, a run that fails half way, ids that disagree between the stores | seeding is all or nothing; an answer has a row; what both stages find comes first |
| **api-gateway** (Python) | tenant cache, SSE consumers | `verify_api_key`, `stream`, `trigger` | a key revoked while its row is in flight; scan limit, timeouts | a revoked key expires; the stream skips nothing |
| UI, prompts, metrics, infrastructure | none | | | not modelled: presentation and deployment |

`PROJECT.json` lists every component with its files and status, and under
`hazards` every place where the code is exposed to something a test would
hardly reach, with the property that is about it.

## 2. Modules

| module | contents |
|---|---|
| `LogIngestion` | requests, token bucket, Kafka writer, graceful shutdown; clients that send again |
| `SecurityMiddleware` | the security-middleware process, its librdkafka producer and consumer, the audit table |
| `LogConsumer` | the log-consumer process, with the topic, the table, `logs.enriched` and the DLQ around it |
| `AnomalyAgent` | the anomaly-agent process: detectors, cooldown, verification, publishers |
| `AlertCorrelator` | the alert-correlator process: its windows, its consumer task, the topics around it |
| `AtLeastOnce` | what a consuming stage promises: an offset passes settled messages only |
| `IncidentStages` | context-compressor, semantic-cache and model-router; each implements `AtLeastOnce` |
| `RcaAgent` | the investigation loop and its outputs, composed with the gateway's event stream |
| `FeedbackLoop` | cache lookup, router and eval-harness composed around Redis, Postgres and Chroma |
| `KnowledgeBase` | seed script, self-learner and the agent's hybrid search around `past_incidents` and Chroma |
| `TenantCache` | API keys in the gateway: concurrent requests, cache, table |
| `M_proofs` | inductive invariant and theorems of module `M`; `FrontDoor_proofs` has those of `TenantCache` and `LogIngestion`, `RcaAgent_proofs` those of `RcaAgent` and `KnowledgeBase`; they extend two models each, which is why `LogIngestion` and `KnowledgeBase` have names of their own for the specification and its parts (`IngestionSpec`, `KnowledgeSpec`) |
| `MCM` | the instance of module `M` that TLC checks |

The modules follow an incident through the pipeline. Four compositions matter
enough to be modelled as one state machine: the agent and the browser's stream
(`RcaAgent`), the writers and the reader of the knowledge base (`KnowledgeBase`), the cache, router and harness, whose effects feed back into later
incidents (`FeedbackLoop`), and requests, bucket, writer and shutdown of the
front door (`LogIngestion`). `IncidentStages` looks at three services from the
side of delivery; `FeedbackLoop` looks at two of them again from the side of
what they read and write, and lets each handle an incident once.

Each component module holds the process (local variables, reset by a crash) and
the part of the environment that it talks to (topics and tables, which survive).
A Kafka message is a pair of partition and offset; its payload is abstracted to
the sets that decide what the code does with it (`Malformed`, `Rejected`,
`Corrupt`, `Injected`, ...). History variables (`lost`, `skipped`, `delivered`,
`rewinds`) are read by properties and by the bounds of the model, never by the
system.

### LogConsumer

* **Processes.** The consumer loop (`runConsumerLoop`), the timer goroutine
  (`StartFlushTimer`) and `main`'s shutdown. Both goroutines can be inside
  `flushWithRetry` at the same time, each with its own batch: `batch[g]`,
  `pc[g]` and `attempt[g]` are the locals of goroutine `g`.
* **Steps.** A step ends wherever another goroutine can see the difference: at
  the mutex of `Add` and `flush`, at each database transaction, at each publish.
  `TakeBatch` is the critical section of `flush` (swap of the slice and
  deduplication of the taken batch).
* **BulkInsert** has three outcomes: it succeeds, it fails, or the commit of the
  transaction takes effect and its acknowledgement is lost. A record of
  `Rejected` (a tenant id that is no UUID) fails its batch on every attempt.
* **Failures.** `Crash` at any step, `Restart` at the committed offset,
  `Rebalance` of a live reader, a failed offset commit, a failed DLQ publish.

### SecurityMiddleware

* **Process.** One asyncio task; `pc` is its await point. `process_message` is
  split into the event publish, the awaited audit insert of each threat, the
  clean publish with its one retry, and the commit.
* **librdkafka.** `outbox` is the bounded producer queue. `Deliver` and
  `DeliveryFails` take any element of it, so messages may overtake each other;
  nobody is told of a failure, as the code registers no delivery callback.
  `commitSent` is an offset commit in flight, which may fail unnoticed.
  The producer is not idempotent, so a clean copy whose acknowledgement is lost
  is sent again (`DeliverUnacknowledged`, counted in `resent`).
* **Detectors** are the sets `Injected` and `Pii`; the regular expressions are
  not modelled here. The outcome of an audit insert is not kept, because the
  code does the same after either: `audited` holds the inserts that were run.
* **An exception** leaves `process_message` when a log has a threat and a
  `tenant_id` in its metadata that is no string (`EventRaises`): ingestion does
  not check the client's metadata, and `SecurityEvent` does. The guard of `run`
  goes on without a commit, and the next commit passes over the log, which is
  neither forwarded nor recorded (finding 3). `CommittedIsForwarded` exempts
  exactly these logs, `Raising`.

### AlertCorrelator

* **Windows.** `windows[t]` is `AlertWindow.alerts` of tenant `t`, a set of
  entries `[alert, at, arrival]`: `at` is `received_at`, `arrival` tells a
  redelivered alert from its first delivery. `Receive` is parsing and `add_alert`
  in one step, as there is no await between them; the clock is read once, and
  may stand still or move on. It is assumed not to run backwards.
* **The task.** `pc` is its await: insert, publish (with retries), DLQ, commit.
  Every call may raise although it took effect. The insert of the incident row is
  a step without an effect, because nothing in the service reads the row.
* **Ends.** An exception of `commit` ends the task (`pc = "dead"`) but not the
  process, which `main` keeps waiting for a signal. `Ends` is a stop, which
  cancels the task at its await, or a crash: both lose the windows, and the call
  in flight may still arrive (`CallInFlight`).
* `uncascaded` records the arrivals of this process that were put in no cascade;
  the property `NoCascadeMissed` compares the windows with it.
* Left out: a message that is JSON but no object, and fields of a wrong type,
  which the anomaly agent does not produce; they would end the task as a failing
  commit does.

### LogIngestion

* **Requests.** `state[a]` is where request `a` - a log and the number of its
  sending - is: `Admit` is the middleware's token, the parsing and the
  validation, `Publish` the entry into `WriteMessages`, `Acknowledge` and
  `GiveUp` its two returns. A client sends again after every answer but 202 and 400.
* **The writer** of kafka-go is external: `queued` are the messages in its
  batches. It writes them in goroutines of its own, so a message may arrive
  after its request has gone (`Disconnect`), and a batch given up may be in the
  topic (an acknowledgement lost).
* **Shutdown.** `Signal`, `Drain` (all answered, or the 10 seconds over),
  `CloseWriter` (what is in a batch is still written), `Exit`, as in `main`.

### AnomalyAgent

* **The thread.** `pc` is the call it is in. `Poll` contains the statistical
  detector, whose answer is open (`spike`), as nothing in the process depends
  on how Redis came to it. The semantic detector is `ColdStart`, `KnownPattern`,
  `NovelPattern` and `EmbedFails`, then `Evict`: a pattern is learned before it
  is judged, and evicted by the age of its log.
* **process_log.** `Dismiss` and `FetchContext` test the cooldown; the clock may
  move while the LLM answers (`verify`); `Confirm` starts the cooldown, `Insert`
  and `Produce` are the publishers. `ConfirmRaises` is the confidence above 1
  that `AlertPayload` refuses.
* **PostgreSQL** is one connection: `"aborted"` after a swallowed error of
  `get_recent_errors`, `"closed"` when the server is gone.
* The consumer commits by itself: an end commits any offset up to the position
  (`MaxLag` back at most).
* The log given to the LLM, the text of the alert and the metrics are left out.

### IncidentStages and AtLeastOnce

* **One module for three services**, as their handlers are one loop: `Init`
  chooses `service`, which never changes. `Receive`, `PublishFails`,
  `SendToDlq`, `CommitOffset` and the ends are common; the awaits between
  (`logs`, `compress`, `stats`; `lookup`; `tenant`, `spend`) are each service's.
* **Raising calls.** A publish, a dead letter or a commit may take effect and
  raise. An exception outside every `try` (a log text that tiktoken refuses, a
  failing `commit`) ends the task and not the process (`pc = "dead"`).
* **commit()** commits what the consumer has returned on all partitions; with one
  task that is the message in hand at most.
* **AtLeastOnce** has three variables, the committed offsets, the settled and the
  abandoned messages, and says: offsets only grow, and only over settled and abandoned
  messages, and settled messages stay so. In `IncidentStages`, `AtLeastOnceStage` instantiates
  it with `settled <- Settled` (published, dead-lettered or skipped as LOW) and
  `abandoned <- lost`; `ImplementsAtLeastOnce` is its specification as a property.
  `AlertCorrelator` does the same with the alerts in a published incident or in the DLQ, and
  `abandoned <- discarded`. What is abandoned is what had a failed publish and a failed dead
  letter: the services commit it all the same, against their documentation (finding 6), so
  they are at-least-once up to exactly that. `Handled`, in the proofs and in `BacklogDrains`,
  means one or the other.

### RcaAgent

* **Investigations** are numbered in the order of their `rca_id`s: a message that
  is delivered twice gets two. `TakeIncident` to `Retry` are the ReAct loop under
  tenacity; every answer of the LLM is possible. A tool's failure is an
  observation like its result.
* **Outputs.** `stream` (steps, and the sentinel `complete`), `rows`, `results` and
  `dlq`, each written by its own step, each of which may fail unnoticed.
* **Gateway.** A stream reads `rca.stream` from its beginning in a consumer group
  of its own, passes on what is of its investigation (`shown` is the set of the
  offsets that it passed on, in whose order a browser sees them), and ends at the sentinel,
  after `MAX_MESSAGES_SCANNED` messages, after 60 silent seconds or by an error.
* `POST /investigations/trigger` is no action: its INSERT always fails (finding
  14), so that the agent never receives an `rca_id_hint`.

### FeedbackLoop

* **Incidents** move through `stage`; topics are worked off in order. The cache
  service scans the keys of a tenant, then reads entry by entry, while entries
  expire and the harness writes others.
* **Similarity** is a table of numbers (`Score` between descriptions,
  `Closeness` of a conclusion and a description), **money** two sets of costs, of the
  tier's model and of the fallback: a result is booked at the tokens of its last
  attempt, which may be any of them.
* **The day.** `booked` is what `get_daily_spend` sums: the rows of the current UTC
  day. `Midnight` empties the window at any step; a row belongs to the day it was
  evaluated on (`evaluated_at`), so one written after midnight may count for none.
* **The budget** is checked against rows. `InFlight` are the tier's investigations
  that may still write one: under way, in the harness's hand, or with a result that
  is not behind the commit (`AutoCommit`, every few seconds, with the result in hand).
  `DailyCapHoldsUpToFlight` compares the tier's rows of the day (`spent`) with the
  budget, and allows for the rows since its last choice of what was in flight then
  (`overrun`). Attempts and investigations that failed and evaluations that were not
  saved write no row, and are outside any cap (finding 26).
* **The harness** evaluates (`Evaluate`: faithfulness by the first strategy that
  answers, hallucination on its own), saves and books (`SaveEvaluation`), learns
  (`InsertRow`, `InsertChroma`), caches (`StoreEntry`, `SetTtl`), and may fail or
  end before and after each of them. `ground` records on what a verdict to learn
  rested: a label, an incident of the knowledge base, observations, or nothing.
* The RCA agent is external here: `Investigate` or `InvestigationFails`.
* `SemanticCache.set` is left out: only the harness writes entries. An entry of
  `Lasting` lost its TTL long ago, in a crash between `HSET` and `EXPIRE`.

### KnowledgeBase

* **Incidents** are triples of tenant, number and transaction: number 0 was
  learned, the others are of the script's list; the transaction stands for
  `created_at` and makes the ids of two runs differ.
* **Seed script.** `SeedIncident` is one turn of the loop in `seed_tenant` (row,
  embedding or none, document), `SeedFails` an exception or the end of the
  process at any turn, with the rollback; `SeedCommit` covers all tenants. One
  run at a time, as the README of the repository runs it.  Tenants that the script does not know only learn.
* **Learner.** The two writes of `maybe_learn` after its gates, which are in
  `FeedbackLoop`; here the document has the metadata that `_insert_chromadb` gives it.
* **Search.** The query for the corpus is the only await, so a search is one
  step. Which hits a stage returns, and in which order, is open; the fusion is
  computed, with shares as multiples of a common denominator in place of floating-point
  numbers, where ties of two shares are the same; `Fused` states the stable sort by what it
  promises, each id behind those that precede it; the reranker may choose any of the fused entries. A call that raises (Chroma's
  `count`, the cross-encoder) answers with a tool error and leaves no state.

### TenantCache

* `verify_api_key` and `_verify_api_key_for_sse` do the same on one cache;
  `Hit`, `Miss`, `Select`, `Accept` and `Refuse` are their steps between awaits.
* `validAt[k]` is the last time the table had key `k`, `longest[k]` the longest
  that a request took from reading the row to caching it. With them the bound on
  a removed key is exact: TTL after the caching, not after the reading.

## 3. Runs

| run | shows | bounds |
|---|---|---|
| `LogConsumer_races` | one owner per batch, stored before announced, drain at exit, memory bound, the ways a record may leave memory, timer liveness, shutdown liveness | 4 messages, batches of 2, 2 attempts, no rewind |
| `LogConsumer_redelivery` | no silent disappearance and one row per delivery across a restart or rebalance | 3 messages, batches of 2, 1 attempt, one rewind |
| `LogConsumer_dedup` | finding: two logs of one request, one is dropped | as `LogConsumer_races` |
| `SecurityMiddleware` | nothing passed over but logs no event can be built for, one copy per delivery and per lost acknowledgement, audit before forwarding, loop and shutdown liveness | 4 messages (one flagged and mistyped), buffer of 2, one rewind, one lost acknowledgement per log |
| `AlertCorrelator` | it implements `AtLeastOnce`, double failures apart; cascades genuine, apart and complete, the topic is worked off | 4 messages, window of 1 on a clock of 0 to 2, 2 attempts, one rewind |
| `IncidentStages` | nothing passed over in any of the three services but by a double failure (each implements `AtLeastOnce`); the topic is worked off | two partitions of 2 messages, 2 attempts, one rewind |
| `FeedbackLoop` | budget, cached answers and learned knowledge under every interleaving; every result is taken | 2 new and 2 cached incidents of two tenants, costs of 1 or 2 against a budget of 2, one midnight, one end of the harness |
| `RcaAgent` | a complete stream is whole, all outputs agree, every incident ends | 3 messages, 2 iterations, 2 attempts, a limit of 4 messages per stream, one end |
| `AnomalyAgent` | alerts apart, patterns new once, collection bounded, one row per error | 4 errors of two services, collection of 1, clock of 0 to 1, one fault, one end |
| `LogIngestion` | accepted is published, shutdown is graceful | 2 valid logs and an invalid one sent twice, 2 tokens, one refill, one probe, one crash |
| `KnowledgeBase` | seeding is all or nothing over failures, repetition and learning; answers are of their tenant and have rows; fused rankings put first what both stages found | 2 tenants, 2 incidents seeded for one of them, rankings of 3, a corpus of 2, 3 transactions |
| `TenantCache` | a removed key expires | 2 keys, 2 requests, TTL 1 on a clock of 0 to 4, 2 changes, one restart |

**Why the bounds are enough.**

* `LogConsumer`: the races need two batches in flight at once and a third
  record pending (4 messages with batches of 2), a retry that can still succeed
  (2 attempts), and one rewind: a second rewind reaches the same in-memory
  states from another offset.
* `SecurityMiddleware`: the buffer of 2 is full after the two threat events of one
  log, so that every publish meets both an empty and a full buffer. A valid log
  and an invalid message follow the one whose event cannot be built, so a commit does pass over it.
* `AlertCorrelator`: three readings of the clock make an alert younger than,
  exactly as old as and older than the window; the alerts of one tenant and two
  services may form a cascade before and again after a redelivery.
* `IncidentStages`: there is an incident of each kind (malformed, LOW, with a
  text that tiktoken refuses, ordinary); with two partitions a commit covers
  another partition's offset, too. Two attempts tell "once more" from "given up".
* `FeedbackLoop`: one investigation by the tier's model exhausts the budget or leaves
  some of it, and two can be in flight, before and after midnight. The similarities are no equivalence (the third incident is
  close to the second, the fourth to the third), so an answer could be a copy of
  a copy; a learned incident can be the proxy of the next.
* `RcaAgent`: two iterations and two attempts make steps of both attempts appear
  in one stream; a limit of 4 messages lies below what two investigations
  of one message stream, so that streams end at the limit as well as at the sentinel.
* `AnomalyAgent`: a collection of 1 with two services is over its limit by a cold start
  alone, and an eviction of two makes services cold again. Four logs allow an
  alert, its twin in the cooldown, one after it, and a redelivery.
* `LogIngestion`: three logs and two tokens meet an empty bucket; two sendings
  of one log are a retry while the first message is still in the writer.
* `KnowledgeBase`: three transactions are a failed run, its repetition and something
  learned, or a run and two learned documents under one id, whose entry then does outrank
  a seeded incident that both stages found (the exemption in `BothListsFirst`); a corpus of two drops
  rows that Chroma still finds. Three ranks from each stage include the closest case of
  the fusion, a hit that is last in both lists against a first.
* `TenantCache`: with a TTL of 1 on a clock to 4 an entry is read late, cached
  late and expires with time to spare; two requests hit and miss one key at once.

`MaxRewinds`, `MaxEnds`, `MaxCrashes`, `MaxRestarts`, `MaxFaults`, `MaxChanges`,
`MaxResends`, `MaxSends`, `MaxProbes`, `MaxTransactions`, `MaxTicks`, `MaxCalls`, `MaxLag`, `MaxClock`,
`MaxDays` and `MaxTime` are the bounds on the environment. The proofs hold for every value of them.
Deadlock checking is off because the systems stop: a process that has exited or
crashed, with no rewind left, has no step, and a topic is finite.

**Fairness.** `LogConsumer`: weak fairness of each goroutine's own steps (the Go
scheduler runs both; `FetchMessage` with a message available returns), of the
ticker and of shutdown, and strong fairness of `StopReceived`: when the ticker
and a closed `stopCh` are both ready, Go's `select` chooses at random and does
not ignore one of them for ever. None of crashes, signals or rebalances.
`SecurityMiddleware`: weak fairness of the task's steps, of the return from
`poll` (1 s timeout) and of the end of `flush(30)`. Nothing is assumed of the
broker: the buffer may stay full for ever, and messages may never be delivered.
`AlertCorrelator` and `IncidentStages`: weak fairness of the task's steps
together, so every await returns or raises; every publish may raise.
`FeedbackLoop`: the same of the harness, and of its restart (`restart:
unless-stopped` in the compose file). `RcaAgent`: the same of the agent, its restart and the
gateway's own steps (a stream has a timeout of 60 s). `AnomalyAgent`,
`KnowledgeBase`, `LogIngestion` and `TenantCache` have safety properties only, and assume none.

**Refinement.** `ImplementsAtLeastOnce`, of `IncidentStages` and of
`AlertCorrelator`, is checked by TLC and proved. The other consuming services are no instances of `AtLeastOnce` on purpose: in
`LogConsumer` and `SecurityMiddleware` the offset is committed while a record
is in memory, in `AnomalyAgent`, `RcaAgent` and the harness the consumer commits
by itself; their properties say what holds instead.

## 4. Proofs

`LogConsumer_proofs` proves, for any partitions, log length, batch size, retry
limit and assignment of trace ids, that `Spec` implies `[]TypeOK`,
`[]CommittedIsRepresented`, `[]EnrichedIsStored`, `[]CleanExitDrains`,
`[]OneOwner`, `[]OneRowPerDelivery`, `[]MemoryBounded` and the action property
`LossIsAdmitted`. The assumptions are those of `ConstantsAssumption`. `LossIsAdmitted` is
about every record that leaves memory (`Held`), also by deduplication; `AdmittedStep` goes
through the actions that let one go.

The inductive invariant is
`IInv == TypeOK /\ ControlOK /\ ShutdownOK /\ EnrichedIsStored /\ OffsetsOK`:

* `ControlOK` ties the control point of a goroutine to its batch: who is idle holds
  nothing, who publishes to `logs.enriched` holds stored records only. Without
  it `EnrichedIsStored` is not inductive: an arbitrary state could hold an
  unstored batch in the publishing stage.
* `ShutdownOK` ties the phases of `main` to the goroutines: once the final flush
  is done the loop has returned and `pending` is empty. It makes
  `CleanExitDrains` inductive.
* `OffsetsOK` strengthens `CommittedIsRepresented` from the committed offset to
  the reader's position: every parsed message before `position` is accounted
  for, apart from the one the loop holds. The commit only copies an offset below
  the position, and a rewind only lowers the position to the committed offset.

The lemmas on deduplication say that its result is covered by the batch and
covers it: every record is kept or shares its trace id with one that is
(`DeduplicatedCovers`). TLC checks every conjunct of `IInv` on the small
instance.

The properties that count rest on `CountInv == MemoryOK /\ OwnersOK /\ DeliveriesOK`.
A delivery of a message is to come (it lies before the reader), in the loop's
hand, in memory, or in the table. `OwnersOK` and `DeliveriesOK` add these up and
bound the sum by `1 + rewinds`; the bound on the copies in memory alone is not
inductive, as nothing would keep the loop from fetching a message twice.
`CountStep` shows that a step only moves a delivery on, or drops it, unless it
is a rewind; a batch counts towards the rows only until its insert has
reported success, which is where an unacknowledged commit breaks the sum.
`MemoryOK` says that the slice is full only when the consumer is about to flush
it, and empty while the consumer flushes.

`SecurityMiddleware_proofs` proves `[]TypeOK`, `[]CommittedIsForwarded`,
`[]FlaggedIsAudited`, `[]OneCopyPerDelivery` and `StopFinishesMessage`, from `SecurityAssumption`. Its
inductive invariant is `IInv == TypeOK /\ ControlOK /\ AuditOK /\ OffsetsOK`.
`ControlOK` says what is in hand at each control point (the threat steps hold a
valid log, the parse-error step an invalid message); `AuditOK` adds to
`FlaggedIsAudited` which inserts have been run when the task reaches `publish`;
`OffsetsOK` extends `CommittedIsForwarded` to the commits in flight, to the
reader's position and to the offsets before the message in hand, because a late
commit, a rebalance or a restart can expose each of them. `FateStep` is the
central lemma: whatever leaves the buffer is delivered or lost, and only
`PublishClean` adds a clean copy. A message for which no event can be built needs no
forwarding (`Safe`): that the task leaves `process_message` so only with such a message in hand is
part of `ControlOK`. `DeliveriesOK` counts as in `LogConsumer_proofs`:
the clean copies delivered and in the buffer, the message the task has yet to
publish and the one before the reader are at most `1 + rewinds + resent[m]`;
`WaitingAfterRemove` says that a copy which leaves the buffer leaves the count.

`AlertCorrelator_proofs` proves `[]TypeOK`, `[]CommittedIsHandled`,
`ImplementsAtLeastOnce`, `[]CascadeIsGenuine`, `[]OneCascadePerArrival` and
`NoCascadeMissed`, from `CorrelatorAssumption`. Its inductive invariant is `IInv ==
TypeOK /\ ControlOK /\ OffsetsOK /\ ReaderOK /\ WindowsOK /\ WaitingOK /\ CascadesOK`.
`WindowsOK` says that a window holds past arrivals of its tenant and of one service; the
second half is what makes the size test of `add_alert` mean "two services"
(`ServiceThreshold`): the new window has at most the old service and the new one.
`WaitingOK` ties the history of arrivals to the windows, from which completeness follows.
`CascadesOK` includes the cascade in hand, which is not yet published, and says
that cascades share no arrival with a window, so that the next one is apart. The
refinement needs `ReaderOK`, that the consumer is never behind the committed offset:
otherwise a commit could move the offset back, and `DiscardsOnly`, that an alert is abandoned
by a failed dead letter only and nothing is settled with it.

`IncidentStages_proofs` proves `[]TypeOK`, `[]CommittedIsHandled` and
`ImplementsAtLeastOnce`, from `StagesAssumption`. `IInv == TypeOK /\ ControlOK
/\ OffsetsOK`: while the task lives, every message before the consumer's position
is handled, except the one in hand, and that one is handled when the task is at
its commit. Without it nothing is known of the position that `commit()` copies.
The refinement then needs three facts per step: `Settled` only grows, `lost` grows by the
message in hand and by a failed dead letter only (`LosesOnly`), and offsets only move to positions
that are covered.

`FrontDoor_proofs` proves `[]RevokedKeyExpires` of `TenantCache`, from
`TenantCacheAssumption`. Its invariant follows a row on its way: while it is in the
table `validAt` is the clock (`TableOK`), a request that has read it did so no later than
`validAt` (`RequestsOK`), and an entry is stamped at most `longest` after it (`StoreOK`).
Of `LogIngestion` it proves `[]AcceptedIsPublished` and `DrainIsGraceful`, from
`LogIngestionAssumption`, with `ShutdownOK`: the writer is closed only behind a drained
server, or one whose grace period is over, and only then is a request turned away.

`FeedbackLoop_proofs` proves `[]DailyCapHoldsUpToFlight`, `[]AnswersAreGenuine`,
`[]KnowledgeHasRows` and `[]LearnedIsGrounded`, from `FeedbackAssumption`. `CacheOK` extends
the claim on answers to entries in Redis and to what a lookup has read, as the
entry may expire before the answer is given. `RowsOK` says the row is there when Chroma is
written. `GroundsOK` says that every ground but "nothing" names an incident
that is already in `past_incidents`; when a row is learned, a set without it
satisfied the claim before, and a set with it either contains an older
grounded member or rests on the new row's ground (`LearnRowGrounded`). `BooksOK` says
that the tier's rows are part of the sum the router reads, so that the cap holds at the
moment a model is chosen, and that whatever may still be booked for the tier was in
flight at that moment (`BookableStep`: only the choice itself makes an incident
bookable, as no commit is taken back), so that every later row is an overrun. The costs
are any sets of numbers.

`AnomalyAgent_proofs` proves `[]AlertsAreApart`, `[]AbortCostsOneRow` and
`[]CollectionBounded`, from `AnomalyAssumption`. `CooldownOK`: an alert of this life is no
younger than the time kept for its service. `NoveltyOK`: a novel alert's pattern is learned
or forgotten, and while a novel log is judged, no alert with a pattern like it is
unforgotten. `RowsOK` carries an aborted transaction as a debt: the rows missing and the
debt together are paid by the errors and ends so far. `CollectionOK` bounds a tenant's
embeddings by the limit and the services that the collection knows at present. With all
services in place of those, the bound would not be inductive: a cold start adds one
embedding and evicts nothing, and only that it adds a known service, too, pays for it.
An eviction may forget services, but removes at least as many embeddings. `NatMin` (every
non-empty set of naturals has a least element) is the lemma behind `Nearest`.

`RcaAgent_proofs` proves `[]OutcomesAgree` and `[]CompleteStreamIsWhole` of `RcaAgent`,
from `RcaAssumption`. `IInv == TypeOK /\ ControlOK /\ OutcomeOK /\ StepsOK /\ StreamOK /\
ConnectionOK /\ OutcomesAgree`. `OutcomeOK` says of the investigation in hand that until
its tail nothing tells of a success, and that it is a dead letter only on the way of
failure; as a redelivery gets a new `rca_id`, nothing touches an investigation
afterwards. `StreamOK` says that a sentinel is the last message of its investigation, which
rests on `OutcomeOK`: an attempt with a sentinel is not retried. `ConnectionOK` ties what a
browser was shown to how far the gateway has scanned, and an end by the sentinel to the
sentinel scanned last.

Of `KnowledgeBase`, `RcaAgent_proofs` proves `[]SeededOnce`,
`[]AnswersAreBacked` and `[]BothListsFirst`, from `KnowledgeBaseAssumption`. `SeederRowsOK`
says what the open transaction has of each tenant: all incidents, none, or the first ones
of the tenant in hand, and only of tenants without seeded rows. That the script notices a
complete run is a matter of counting (`CompleteRunIsNoticed`: `SeedThreshold <= Incidents`);
the commit then adds whole sets to tenants that have none. `BackedOK` extends
`AnswersAreBacked` to what a search will read: the learner's row before its document, and
cached corpora.

`BothListsFirst` rests on arithmetic. `RankingsOK` keeps what the lists of an answer are:
at most `TopK` different incidents, of which only learned ones go without their id. Scores
and the common denominator are folds over sets, and the induction theorems of the
library take operators, so the module has an induction of its own, over first-class sets:
`LeastNatural` from `WFMin`, `AllNaturals` from that, then `AllSubsets` (the subsets of a
finite set, along the choices of a fold), `FoldIsDefined` and `FoldIsUnique`. From these,
every `K + r` divides the denominator (`DenominatorDivides`), so that the model's integer
division loses nothing (`SharesAreExact`), and two shares are more than one
(`TwoSharesBeatOne`), for which `TopK < K + 2` is needed, and satisfied by 10 and 60.
`PlacesAreTaken` says that in a strict order of a finite set the places 1, 2, ... are
each taken once; `FusedFollowsPrecedes` applies it to scores and the places in the dict.

Every invariant and every safety property that a passing run checks is proved. Model-checked only
is liveness, since `ENABLED` and fairness are out of the prover's reach:
`PendingIsFlushed`, `ShutdownCompletes` (of `LogConsumer` and of `SecurityMiddleware`),
`LoopProgress`, `BacklogDrains` (of `AlertCorrelator` and of `IncidentStages`),
`ResultsAreTaken` and `EveryIncidentEnds`.

## 5. Findings

Each is quoted with its lines in `PROJECT.json`. The first has a run of its
own; the others were met while the code was read into the model, and name the
action or definition that shows them where there is one.

Pipeline before the agent:

1. **Deduplication drops distinct logs** (`LogConsumer_dedup`). A trace id names
   a request, and all logs of a request carry it. `deduplicateByTraceID` treats
   two records of a batch with one trace id as one record delivered twice.
2. **At-least-once, until the buffer** (`CommittedIsForwarded`). The offset
   is committed when the clean log is in the producer's buffer, not when its
   publish is confirmed; it can expire there. Likewise a log that was given up is
   not redelivered once a later message of its partition is committed.
3. **A flagged log passed over** (`EventRaises` in `SecurityMiddleware`). A threat in a log
   whose metadata has a `tenant_id` that is no string raises before anything is
   published or recorded; the next commit drops the log, which "never dropped" excludes.
4. **Redelivery is not deduplicated** (log-consumer). The comment in
   `runConsumerLoop` counts on `BatchWriter.flush` to absorb a redelivery after a
   failed commit; it arrives in a later batch and gets a second row.
5. **A consumer that dies quietly** (`CommitFails` in `AlertCorrelator`). An
   exception of `commit()`, as after a rebalance, ends the consumer task.
   `main` waits for a signal only, so the process stays up and consumes nothing.
6. **A double failure is committed** (`SendToDlq` in `AlertCorrelator` and `IncidentStages`).
   When publish and dead letter have both failed, the alert or incident is logged and its
   offset committed, though the docstring has it reprocessed and nothing "silently discarded".
7. **A confidence above 1** (`ConfirmRaises` in `AnomalyAgent`). The semantic
   detector's confidence is a cosine distance, is not clamped as documented, and
   ends the process through a validation error.
8. **No idempotence for redelivered logs** in the anomaly-agent, which the comment on
   auto-commit relies on: the key of the conflict is fresh for every alert.
9. **An aborted transaction outlives its query** (`FetchContext`): the rollback that
   `publish_alert` documents is missing in `get_recent_errors`.
10. **Learned before judged**: a new pattern met during the cooldown of its service is
   never alerted.
11. **The partition of a log** is chosen by load and not by trace id; the order
   per key that `Publish` promises does not exist.
12. **The health probe shares the rate limit** (`Probe` in `LogIngestion`): under full
    load the container reports itself unhealthy.

Agent and gateway:

13. **A revoked key** may be cached after its revocation, and stays for a TTL from then
    (`Accept` in `TenantCache`).
14. **The manual trigger never works**: `NOW` without parentheses in its INSERT.
15. **The sentinel precedes the row** it announces (`PublishComplete`, `SaveResult`).
16. **A failed save is not dead-lettered** as documented (`SaveResult`), and a result without a row is published.
17. **Auto-commit is not at-least-once** (`End` in `RcaAgent`).
18. **The last iteration needs no confidence** (`Accept`).
19. **A redelivered incident is investigated again**: the deduplication that the semantic
    cache counts on compares fresh identifiers.

Feedback:

20. **A failed evaluation passes**: 0.75 is stored where "neutral score (0.5)" or "a low
    default" is documented, above the mark of 0.7 (`DefaultScore` in `FeedbackLoop`).
21. **Learning does not wait for a human** (`Level`): the mode that
    `self_learner` documents as a condition is not one.
22. **Both stores in sync** holds in one direction only (`InsertChroma`).
23. **A strategy that raises** ends the chain of strategies (`Faithfulness`).
24. **No restart after an error** in the harness's `main`.
25. **Two descriptions of one incident**: what is embedded for a lookup differs from what is
    embedded for the entry.
26. **The hard cap is exceeded** by the investigations in flight (`RouteToTier`), and what
    writes no row is not under it at all: failed investigations, all attempts but the last
    (the agent counts its tokens anew), unsaved evaluations (`InvestigationFails`, `Cost`,
    `SaveFails`). `DailyCapHoldsUpToFlight` states what holds of the rows.

Knowledge base (`KnowledgeBase`):

27. **Learned documents have no id and no resolution** (`MetaId`). All learned hits of
    a query are fused into one entry, which may outrank what both stages found;
    `BothListsFirst` holds for the others.
28. **Seeded documents have no text**: what only the vector search finds is described as `None`.
29. **Idempotent on the table only** (`SeedFails`): a failed run leaves its documents in Chroma.
30. **A failing `count`** is not "empty list on any failure".
31. **The distance is not the cosine's** in collections created without a space.

## 6. Not modelled

* **Left out everywhere**: HTTP framing, metrics, logging, JSON encoding, SQL text,
  prompts and model output. Kafka brokers, librdkafka, kafka-go, Postgres,
  Redis and Chroma are modelled only as far as the services can see them, and are
  marked external in `PROJECT.json`.
* **Statistical detector** (`detection/statistical.py`): floating-point arithmetic over
  counters in Redis. Every score is considered possible in `AnomalyAgent`.
  What is thereby not examined: a baseline that looks back up to twice the
  window (the TTL of a bucket), logs of other times counted in the bucket of
  their stamp, and a counter whose EXPIRE failed after its INCR.
* **Security detectors**: regular expressions, a Luhn sum and the redaction of text
  are functions of one string; a model of them would restate the patterns.
* **Scores of the hybrid search**: BM25, distances and the cross-encoder are
  floating-point functions of texts; in `KnowledgeBase` every ranking is possible.
* **Gateway**: the read endpoints (single SQL statements) and the trigger, which
  never succeeds.
* **UI, dashboards, log generator, deployment**: read for topics, tables, constraints and
  restart policies; they keep no state of the pipeline.
* **Limits no property is about**, as the code promises nothing of them: a
  stream of an old investigation may end at the limit of 1000 messages before
  it reaches its own; a failed investigation has no sentinel, so its stream ends
  by the timeout; the cooldown of an alert begins although its publishers fail;
  the window of a cascade is emptied before the publish.

The steps that the three incident stages share (`Receive`, `PublishFails`,
`SendToDlq`, `CommitOffset`, `Ends`) are mapped to the handler of one of them; the
code of the other two was compared with it line by line.
