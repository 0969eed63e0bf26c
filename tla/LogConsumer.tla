---------------------------- MODULE LogConsumer ----------------------------
(***************************************************************************)
(* The log-consumer service (services/log-consumer): the consumer loop of  *)
(* main.go, the BatchWriter of postgres/batchwriter.go and the shutdown    *)
(* sequence of main().                                                     *)
(*                                                                         *)
(* Three goroutines share one BatchWriter.  The consumer loop fetches a    *)
(* message of logs.raw.clean, parses it, Adds it to the pending slice and  *)
(* commits its offset; an Add that fills the slice flushes it in place.    *)
(* The timer goroutine flushes on every tick and once more when stopCh is  *)
(* closed.  main cancels the consumer loop, waits for it, stops the timer  *)
(* and exits.  A flush swaps the slice under the mutex, deduplicates it,   *)
(* and then, outside the mutex, inserts it with retries and either         *)
(* publishes it to logs.enriched or sends it to logs.dlq.                  *)
(*                                                                         *)
(* Kafka and PostgreSQL are the environment: a partition is an immutable   *)
(* log read at a position, a commit moves the group's offset, an insert    *)
(* may fail before or after it took effect.  The process may crash at any  *)
(* step, and a rebalance may rewind the reader to the committed offset.    *)
(***************************************************************************)
EXTENDS Naturals, Sequences, FiniteSets, Functions

CONSTANTS
    Partition,      \* partitions of logs.raw.clean assigned to this instance
    LogLen,         \* messages in each partition
    NoTrace,        \* the empty trace id
    TraceOf,        \* trace id of each message
    Malformed,      \* messages parseMessage rejects
    Rejected,       \* messages whose row buildCopyRows rejects (bad tenant_id)
    NoMessage,      \* the consumer loop holds no message
    BatchSize,      \* cfg.BatchSize
    MaxRetries,     \* cfg.MaxRetries
    MaxRewinds      \* bound of the model: restarts and rebalances explored

\* A message is named by its partition and its offset in it.
Message == Partition \X (1 .. LogLen)

ASSUME ConstantsAssumption ==
    /\ LogLen \in Nat
    /\ BatchSize \in Nat \ {0}
    /\ MaxRetries \in Nat \ {0}
    /\ MaxRewinds \in Nat
    /\ NoMessage \notin Message
    /\ DOMAIN TraceOf = Message
    /\ Malformed \subseteq Message
    /\ Rejected \subseteq Message

VARIABLES
    (***********************************************************************)
    (* The environment: broker and database                                *)
    (***********************************************************************)
    committed,      \* per partition, the next offset of the consumer group
    rows,           \* per message, its number of rows in the logs table
    enriched,       \* messages published to logs.enriched
    dlq,            \* messages in some envelope of logs.dlq
    (***********************************************************************)
    (* The process                                                         *)
    (***********************************************************************)
    life,           \* what main() is doing
    position,       \* per partition, the next offset FetchMessage returns
    pc,             \* control point of the consumer loop and of the timer
    hand,           \* the message of the current consumer-loop iteration
    pending,        \* BatchWriter.pending
    batch,          \* per goroutine, the batch its flush owns
    attempt,        \* per goroutine, failed BulkInsert calls of this flush
    final,          \* the timer is in the flush of the stopCh case
    (***********************************************************************)
    (* History, read by the properties only                                *)
    (***********************************************************************)
    lost,           \* unstored records of a crash or of a DLQ write that failed
    ambiguous,      \* some insert took effect and reported an error
    rewinds         \* restarts and rebalances so far

envVars == <<committed, rows, enriched, dlq>>
processVars == <<life, position, pc, hand, pending, batch, attempt, final>>
historyVars == <<lost, ambiguous, rewinds>>
vars == <<envVars, processVars, historyVars>>

Goroutine == {"consumer", "timer"}
ConsumerPC == {"fetch", "add", "swap", "insert", "publish", "dlq", "commit", "done"}
TimerPC == {"wait", "swap", "insert", "publish", "dlq", "done"}

\* The process exists: it has not exited and has not crashed.
Up == life \in {"running", "cancelled", "stopping"}

\* Two messages the deduplication cannot tell apart.
SameRecord(m, n) == m = n \/ (TraceOf[m] # NoTrace /\ TraceOf[m] = TraceOf[n])

\* deduplicateByTraceID: the positions of s it keeps, the first of each trace
\* id and every one without a trace id.
Kept(s) ==
    {i \in DOMAIN s : TraceOf[s[i]] = NoTrace
                       \/ \A j \in DOMAIN s : j < i => TraceOf[s[j]] # TraceOf[s[i]]}

Deduplicated(s) == [i \in Kept(s) |-> s[i]]

\* Occurrences of a message in a slice.
Copies(b, m) == Cardinality({i \in DOMAIN b : b[i] = m})

\* Records the process has accepted and not yet put anywhere else.
Held == Range(pending) \cup UNION {Range(batch[g]) : g \in Goroutine}

Stored == {m \in Message : rows[m] > 0}

NoBatches == [g \in Goroutine |-> <<>>]

Init ==
    /\ committed = [p \in Partition |-> 1]
    /\ rows = [m \in Message |-> 0]
    /\ enriched = {}
    /\ dlq = {}
    /\ life = "running"
    /\ position = [p \in Partition |-> 1]
    /\ pc = [g \in Goroutine |-> IF g = "consumer" THEN "fetch" ELSE "wait"]
    /\ hand = NoMessage
    /\ pending = <<>>
    /\ batch = NoBatches
    /\ attempt = [g \in Goroutine |-> 0]
    /\ final = FALSE
    /\ lost = {}
    /\ ambiguous = FALSE
    /\ rewinds = 0

-----------------------------------------------------------------------------
(***************************************************************************)
(* The consumer loop                                                       *)
(***************************************************************************)

\* Mutation of FetchMessage: the offset is committed as soon as it is fetched.
FetchAutoCommitted(p) ==
    /\ life \in {"running", "cancelled"}
    /\ pc["consumer"] = "fetch"
    /\ position[p] <= LogLen
    /\ hand' = <<p, position[p]>>
    /\ position' = [position EXCEPT ![p] = @ + 1]
    /\ committed' = position'
    /\ pc' = [pc EXCEPT !["consumer"] = IF hand' \in Malformed THEN "commit" ELSE "add"]
    /\ UNCHANGED <<rows, enriched, dlq, life, pending, batch, attempt, final, historyVars>>

\* FetchMessage returns the next message of some partition and parseMessage
\* accepts it or not.  Go's select may still prefer a ready message to a
\* cancelled context.
FetchMessage(p) ==
    /\ life \in {"running", "cancelled"}
    /\ pc["consumer"] = "fetch"
    /\ position[p] <= LogLen
    /\ hand' = <<p, position[p]>>
    /\ position' = [position EXCEPT ![p] = @ + 1]
    /\ pc' = [pc EXCEPT !["consumer"] = IF hand' \in Malformed THEN "commit" ELSE "add"]
    /\ UNCHANGED <<envVars, life, pending, batch, attempt, final, historyVars>>

\* FetchMessage returns the error of the cancelled context: the loop returns.
FetchCancelled ==
    /\ life = "cancelled"
    /\ pc["consumer"] = "fetch"
    /\ pc' = [pc EXCEPT !["consumer"] = "done"]
    /\ UNCHANGED <<envVars, life, position, hand, pending, batch, attempt, final, historyVars>>

\* Mutation of Add: a full slice is left for the timer to flush.
AddWithoutFlush ==
    /\ Up
    /\ pc["consumer"] = "add"
    /\ pending' = Append(pending, hand)
    /\ pc' = [pc EXCEPT !["consumer"] = "commit"]
    /\ UNCHANGED <<envVars, life, position, hand, batch, attempt, final, historyVars>>

\* BatchWriter.Add: append under the mutex; the size read there decides the flush.
Add ==
    /\ Up
    /\ pc["consumer"] = "add"
    /\ pending' = Append(pending, hand)
    /\ pc' = [pc EXCEPT !["consumer"] = IF Len(pending') >= BatchSize THEN "swap" ELSE "commit"]
    /\ UNCHANGED <<envVars, life, position, hand, batch, attempt, final, historyVars>>

\* CommitMessage moves the group's offset past the message, or fails, which
\* is only logged.
CommitMessage ==
    /\ Up
    /\ pc["consumer"] = "commit"
    /\ \/ committed' = [committed EXCEPT ![hand[1]] = hand[2] + 1]
       \/ UNCHANGED committed
    /\ hand' = NoMessage
    /\ pc' = [pc EXCEPT !["consumer"] = "fetch"]
    /\ UNCHANGED <<rows, enriched, dlq, life, position, pending, batch, attempt, final,
                   historyVars>>

-----------------------------------------------------------------------------
(***************************************************************************)
(* The timer goroutine                                                     *)
(***************************************************************************)

\* Mutation of Tick: the timer flushes a full slice only.
TickWhenFull ==
    /\ Up
    /\ pc["timer"] = "wait"
    /\ Len(pending) >= BatchSize
    /\ pc' = [pc EXCEPT !["timer"] = "swap"]
    /\ UNCHANGED <<envVars, life, position, hand, pending, batch, attempt, final, historyVars>>

Tick ==
    /\ Up
    /\ pc["timer"] = "wait"
    /\ pc' = [pc EXCEPT !["timer"] = "swap"]
    /\ UNCHANGED <<envVars, life, position, hand, pending, batch, attempt, final, historyVars>>

\* Mutation of StopReceived: the goroutine exits without the final flush.
StopWithoutFlush ==
    /\ life = "stopping"
    /\ pc["timer"] = "wait"
    /\ pc' = [pc EXCEPT !["timer"] = "done"]
    /\ final' = TRUE
    /\ UNCHANGED <<envVars, life, position, hand, pending, batch, attempt, historyVars>>

\* Mutation of StopReceived: the case flushes but does not return.
StopWithoutReturn ==
    /\ life = "stopping"
    /\ pc["timer"] = "wait"
    /\ pc' = [pc EXCEPT !["timer"] = "swap"]
    /\ UNCHANGED <<envVars, life, position, hand, pending, batch, attempt, final, historyVars>>

\* The stopCh case: one final flush, after which the goroutine exits.
StopReceived ==
    /\ life = "stopping"
    /\ pc["timer"] = "wait"
    /\ pc' = [pc EXCEPT !["timer"] = "swap"]
    /\ final' = TRUE
    /\ UNCHANGED <<envVars, life, position, hand, pending, batch, attempt, historyVars>>

-----------------------------------------------------------------------------
(***************************************************************************)
(* flush, run by either goroutine                                          *)
(***************************************************************************)

\* Where a goroutine continues when its flush returns.
AfterFlush(g) ==
    IF g = "consumer" THEN "commit" ELSE IF final THEN "done" ELSE "wait"

\* The pending slice was already taken: nothing to flush.
FlushNothing(g) ==
    /\ Up
    /\ pc[g] = "swap"
    /\ pending = <<>>
    /\ pc' = [pc EXCEPT ![g] = AfterFlush(g)]
    /\ UNCHANGED <<envVars, life, position, hand, pending, batch, attempt, final, historyVars>>

\* Mutation of TakeBatch: the slice is copied but not replaced.
TakeBatchWithoutReset(g) ==
    /\ Up
    /\ pc[g] = "swap"
    /\ pending # <<>>
    /\ batch' = [batch EXCEPT ![g] = Deduplicated(pending)]
    /\ attempt' = [attempt EXCEPT ![g] = 0]
    /\ pc' = [pc EXCEPT ![g] = "insert"]
    /\ UNCHANGED <<envVars, life, position, hand, pending, final, historyVars>>

\* Swap the pending slice for a fresh one under the mutex and deduplicate it.
TakeBatch(g) ==
    /\ Up
    /\ pc[g] = "swap"
    /\ pending # <<>>
    /\ batch' = [batch EXCEPT ![g] = Deduplicated(pending)]
    /\ pending' = <<>>
    /\ attempt' = [attempt EXCEPT ![g] = 0]
    /\ pc' = [pc EXCEPT ![g] = "insert"]
    /\ UNCHANGED <<envVars, life, position, hand, final, historyVars>>

\* The rows table once the batch of g is inserted.
RowsWith(g) == [m \in Message |-> rows[m] + Copies(batch[g], m)]

\* No record of the batch makes buildCopyRows fail.
Insertable(g) == Range(batch[g]) \cap Rejected = {}

\* BulkInsert commits its transaction.
BulkInsert(g) ==
    /\ Up
    /\ pc[g] = "insert"
    /\ Insertable(g)
    /\ rows' = RowsWith(g)
    /\ pc' = [pc EXCEPT ![g] = "publish"]
    /\ UNCHANGED <<committed, enriched, dlq, life, position, hand, pending, batch, attempt,
                   final, historyVars>>

\* Mutation of CountFailure: one retry too many.
CountFailureLate(g) ==
    /\ attempt' = [attempt EXCEPT ![g] = @ + 1]
    /\ pc' = [pc EXCEPT ![g] = IF attempt[g] < MaxRetries THEN "insert" ELSE "dlq"]

\* Mutation of CountFailure: one attempt too few.
CountFailureEarly(g) ==
    /\ attempt' = [attempt EXCEPT ![g] = @ + 1]
    /\ pc' = [pc EXCEPT ![g] = IF attempt[g] + 2 < MaxRetries THEN "insert" ELSE "dlq"]

\* Mutation of CountFailure: the loop falls through to the publisher.
CountFailureFallsThrough(g) ==
    /\ attempt' = [attempt EXCEPT ![g] = @ + 1]
    /\ pc' = [pc EXCEPT ![g] = IF attempt[g] + 1 < MaxRetries THEN "insert" ELSE "publish"]

\* BulkInsert returned an error: retry, or give up after MaxRetries attempts.
CountFailure(g) ==
    /\ attempt' = [attempt EXCEPT ![g] = @ + 1]
    /\ pc' = [pc EXCEPT ![g] = IF attempt[g] + 1 < MaxRetries THEN "insert" ELSE "dlq"]

\* BulkInsert fails and its transaction leaves no row.
BulkInsertFails(g) ==
    /\ Up
    /\ pc[g] = "insert"
    /\ CountFailure(g)
    /\ UNCHANGED <<envVars, life, position, hand, pending, batch, final, historyVars>>

\* The transaction commits but tx.Commit reports an error: its reply was lost.
BulkInsertUnacknowledged(g) ==
    /\ Up
    /\ pc[g] = "insert"
    /\ Insertable(g)
    /\ rows' = RowsWith(g)
    /\ ambiguous' = TRUE
    /\ CountFailure(g)
    /\ UNCHANGED <<committed, enriched, dlq, life, position, hand, pending, batch, final,
                   lost, rewinds>>

\* The batch leaves the memory of g, whose flush returns.
ReleaseBatch(g) ==
    /\ batch' = [batch EXCEPT ![g] = <<>>]
    /\ pc' = [pc EXCEPT ![g] = AfterFlush(g)]

\* publishToEnriched: each publish succeeds or is logged and skipped.
PublishToEnriched(g) ==
    /\ Up
    /\ pc[g] = "publish"
    /\ \E published \in SUBSET Range(batch[g]) : enriched' = enriched \cup published
    /\ ReleaseBatch(g)
    /\ UNCHANGED <<committed, rows, dlq, life, position, hand, pending, attempt, final,
                   historyVars>>

\* sendToDLQ: one envelope for the whole batch; when it cannot be published
\* the failure is logged and the batch is gone.
SendToDLQ(g) ==
    /\ Up
    /\ pc[g] = "dlq"
    /\ \/ /\ dlq' = dlq \cup Range(batch[g])
          /\ UNCHANGED lost
       \/ /\ lost' = lost \cup (Range(batch[g]) \ Stored)
          /\ UNCHANGED dlq
    /\ ReleaseBatch(g)
    /\ UNCHANGED <<committed, rows, enriched, life, position, hand, pending, attempt, final,
                   ambiguous, rewinds>>

-----------------------------------------------------------------------------
(***************************************************************************)
(* main(): shutdown, and what may happen to the process                    *)
(***************************************************************************)

\* SIGTERM: main cancels the consumer context.
ShutdownSignal ==
    /\ life = "running"
    /\ life' = "cancelled"
    /\ UNCHANGED <<envVars, position, pc, hand, pending, batch, attempt, final, historyVars>>

\* The consumer loop has returned: main closes stopCh.
StopBatchWriter ==
    /\ life = "cancelled"
    /\ pc["consumer"] = "done"
    /\ life' = "stopping"
    /\ UNCHANGED <<envVars, position, pc, hand, pending, batch, attempt, final, historyVars>>

\* The timer goroutine closed doneCh: main returns.
Exit ==
    /\ life = "stopping"
    /\ pc["timer"] = "done"
    /\ life' = "exited"
    /\ UNCHANGED <<envVars, position, pc, hand, pending, batch, attempt, final, historyVars>>

\* A process that holds nothing, about to fetch.
BlankProcess ==
    /\ pc' = [g \in Goroutine |-> IF g = "consumer" THEN "fetch" ELSE "wait"]
    /\ hand' = NoMessage
    /\ pending' = <<>>
    /\ batch' = NoBatches
    /\ attempt' = [g \in Goroutine |-> 0]
    /\ final' = FALSE

\* The process dies at any step (SIGKILL, out of memory, host failure) and
\* takes its memory with it.
Crash ==
    /\ Up
    /\ life' = "crashed"
    /\ lost' = lost \cup (Held \ Stored)
    /\ BlankProcess
    /\ UNCHANGED <<envVars, position, ambiguous, rewinds>>

\* The container is started again: the reader resumes at the group's offsets.
Restart ==
    /\ ~ Up
    /\ rewinds < MaxRewinds
    /\ rewinds' = rewinds + 1
    /\ life' = "running"
    /\ position' = committed
    /\ BlankProcess
    /\ UNCHANGED <<envVars, lost, ambiguous>>

\* A new group generation: the reader of a running process resumes at the
\* group's offsets, while its memory keeps what was fetched before.
Rebalance ==
    /\ Up
    /\ rewinds < MaxRewinds
    /\ position # committed
    /\ rewinds' = rewinds + 1
    /\ position' = committed
    /\ UNCHANGED <<envVars, life, pc, hand, pending, batch, attempt, final, lost, ambiguous>>

-----------------------------------------------------------------------------

ConsumerLoop ==
    \/ \E p \in Partition : FetchMessage(p)
    \/ FetchCancelled
    \/ Add
    \/ CommitMessage

Flush(g) ==
    \/ FlushNothing(g)
    \/ TakeBatch(g)
    \/ BulkInsert(g)
    \/ BulkInsertFails(g)
    \/ BulkInsertUnacknowledged(g)
    \/ PublishToEnriched(g)
    \/ SendToDLQ(g)

Shutdown == StopBatchWriter \/ Exit

Next ==
    \/ ConsumerLoop
    \/ Tick
    \/ StopReceived
    \/ \E g \in Goroutine : Flush(g)
    \/ ShutdownSignal
    \/ Shutdown
    \/ Crash
    \/ Restart
    \/ Rebalance

Spec == Init /\ [][Next]_vars

(***************************************************************************)
(* The Go scheduler runs every goroutine that can run, the ticker fires,   *)
(* main leaves its waits, and select does not ignore a closed stopCh for   *)
(* ever.  Nothing is assumed of signals, crashes, restarts or the broker.  *)
(***************************************************************************)
Fairness ==
    /\ WF_vars(ConsumerLoop)
    /\ WF_vars(Tick)
    /\ SF_vars(StopReceived)
    /\ \A g \in Goroutine : WF_vars(Flush(g))
    /\ WF_vars(Shutdown)

FairSpec == Spec /\ Fairness

-----------------------------------------------------------------------------
(***************************************************************************)
(* Properties                                                              *)
(***************************************************************************)

\* The shape of every variable.
TypeOK ==
    /\ committed \in [Partition -> 1 .. LogLen + 1]
    /\ rows \in [Message -> Nat]
    /\ enriched \subseteq Message
    /\ dlq \subseteq Message
    /\ life \in {"running", "cancelled", "stopping", "exited", "crashed"}
    /\ position \in [Partition -> 1 .. LogLen + 1]
    /\ pc \in [Goroutine -> ConsumerPC \cup TimerPC]
    /\ pc["consumer"] \in ConsumerPC
    /\ pc["timer"] \in TimerPC
    /\ hand \in Message \cup {NoMessage}
    /\ pending \in Seq(Message)
    /\ DOMAIN batch = Goroutine
    /\ \A g \in Goroutine :
            /\ DOMAIN batch[g] \subseteq Nat
            /\ IsFiniteSet(DOMAIN batch[g])
            /\ Range(batch[g]) \subseteq Message
    /\ attempt \in [Goroutine -> 0 .. MaxRetries]
    /\ final \in BOOLEAN
    /\ lost \subseteq Message
    /\ ambiguous \in BOOLEAN
    /\ rewinds \in 0 .. MaxRewinds

\* Some record the deduplication identifies with m is in memory, in the
\* table, in the dead-letter queue, or known to be lost.
Represented(m) ==
    \E n \in Held \cup Stored \cup dlq \cup lost : SameRecord(m, n)

\* No message behind the committed offset just disappears: unless it could
\* not be parsed, it is in memory, stored, dead-lettered, lost with a crashed
\* process or a failed DLQ write, or was dropped as a duplicate of such a
\* record (runConsumerLoop commits after Add; flush hands over whole batches).
CommittedIsRepresented ==
    \A p \in Partition : \A i \in 1 .. committed[p] - 1 :
        <<p, i>> \notin Malformed => Represented(<<p, i>>)

\* A timer flush that races a size-triggered flush never takes the same
\* records: without a redelivery a message is in at most one of the pending
\* slice and the two batches, and there once (the comment on flush).
OneOwner ==
    rewinds = 0 =>
        \A m \in Message :
            Copies(pending, m) + Copies(batch["consumer"], m) + Copies(batch["timer"], m) <= 1

\* Every delivery of a message accounts for at most one row of the table
\* unless a commit of PostgreSQL went unacknowledged: the two flushes, the
\* retries and the redeliveries never insert one delivery twice.
OneRowPerDelivery ==
    ~ ambiguous => \A m \in Message : rows[m] <= 1 + rewinds

\* Downstream never sees a log that is not in PostgreSQL (publishToEnriched
\* runs after BulkInsert reported success).
EnrichedIsStored == enriched \subseteq Stored

\* A graceful shutdown leaves nothing in memory (StartFlushTimer and Stop:
\* "so no records are lost during graceful shutdown").
CleanExitDrains ==
    life = "exited" => Held = {} /\ hand = NoMessage

\* Back pressure: the synchronous flush of Add bounds what the service holds
\* in memory at two batches, however slow the database is.
MemoryBounded ==
    /\ Len(pending) <= BatchSize
    /\ Cardinality(DOMAIN batch["consumer"]) + Cardinality(DOMAIN batch["timer"])
        + Len(pending) <= 2 * BatchSize

\* A record leaves memory for the table or the dead-letter queue, with the
\* process in a crash, or after the retries of its batch and the DLQ write all
\* failed.  There is one other way, which deduplicateByTraceID calls a duplicate
\* delivery: a record is dropped as its batch is taken when the batch keeps one
\* of the same trace id, be it the same message or another log of the request.
LossIsAdmitted ==
    [][ \A m \in Held \ Held' :
            \/ m \in Stored' \cup dlq'
            \/ life' = "crashed"
            \/ \E g \in Goroutine :
                    pc[g] = "dlq" /\ attempt[g] = MaxRetries /\ m \in Range(batch[g])
            \/ \E g \in Goroutine : \E n \in Range(batch'[g]) :
                    pc[g] = "swap" /\ n # m /\ SameRecord(m, n) ]_vars

\* Every record in the pending slice is eventually flushed out of memory, also
\* when no further message arrives to fill the batch.
PendingIsFlushed ==
    \A m \in Message : (m \in Range(pending)) ~> (m \notin Held)

\* A shutdown that was requested completes.
ShutdownCompletes == (life = "cancelled") ~> ~ Up

-----------------------------------------------------------------------------
(***************************************************************************)
(* What a comment of the source says and the code does not do              *)
(***************************************************************************)

\* batchwriter.go: "records with the same TraceID represent duplicate
\* deliveries", so a batch keeps every distinct message it took.
DedupDropsOnlyRedeliveries ==
    [][ \A g \in Goroutine :
            pending # <<>> /\ pending' = <<>> /\ batch[g] = <<>> /\ batch'[g] # <<>>
                => Range(pending) \subseteq Range(batch'[g]) ]_vars

=============================================================================
