------------------------- MODULE SecurityMiddleware -------------------------
(***************************************************************************)
(* The security-middleware service (services/security-middleware): the     *)
(* consumer loop and the pipeline of kafka_handler.py, the audit writes of *)
(* audit.py and the shutdown of main.py.                                   *)
(*                                                                         *)
(* One asyncio task polls logs.raw, validates a message, reports what the  *)
(* detectors found in it (an event to security.events and an audit row for *)
(* each threat), hands the sanitised message to the producer and commits   *)
(* the offset.  The producer is librdkafka: produce() only appends to a    *)
(* bounded buffer that a background thread delivers, sending again what    *)
(* was not acknowledged, and nobody looks at the outcome.  commit() is     *)
(* asynchronous as well.  The process may crash at any step, and a         *)
(* rebalance may rewind it to the committed offset.                        *)
(***************************************************************************)
EXTENDS Naturals, Sequences, FiniteSets, SequencesExt

CONSTANTS
    Partition,      \* partitions of logs.raw assigned to this instance
    LogLen,         \* messages in each partition
    Corrupt,        \* messages that are not JSON
    Invalid,        \* messages that are not a RawLogMessage
    Injected,       \* messages the injection detector fires on
    Pii,            \* messages the PII detector fires on
    Mistyped,       \* messages whose metadata.tenant_id is there and no string
    NoMessage,      \* the loop holds no message
    QueueLimit,     \* queue.buffering.max.messages of the producer
    MaxRewinds,     \* bound of the model: restarts and rebalances explored
    MaxResends      \* bound of the model: lost acknowledgements of a clean log

\* A message is named by its partition and its offset in it.
Message == Partition \X (1 .. LogLen)

ASSUME SecurityAssumption ==
    /\ LogLen \in Nat
    /\ QueueLimit \in Nat \ {0}
    /\ MaxRewinds \in Nat
    /\ MaxResends \in Nat
    /\ NoMessage \notin Message
    /\ Corrupt \subseteq Message /\ Invalid \subseteq Message
    /\ Injected \subseteq Message /\ Pii \subseteq Message
    /\ Mistyped \subseteq Message
    /\ Corrupt \cap Invalid = {}
    /\ (Corrupt \cup Invalid) \cap (Injected \cup Pii) = {}

\* Messages the pipeline must pass on.
Loggable == Message \ (Corrupt \cup Invalid)

\* Logs with a threat for which no SecurityEvent can be built: the client's
\* metadata is never checked on its way, and tenant_id must be a string.
Raising == Mistyped \cap (Injected \cup Pii)

Threat == {"injection", "pii"}

\* What the producer carries: clean logs, threat events and parse errors.
Output == ({"clean", "parse_error"} \cup Threat) \X Message

VARIABLES
    (***********************************************************************)
    (* The environment: broker and database                                *)
    (***********************************************************************)
    committed,      \* per partition, the next offset of the consumer group
    clean,          \* per message, its copies in logs.raw.clean
    audited,        \* threats whose row in security_events was written, or tried
    (***********************************************************************)
    (* The process                                                         *)
    (***********************************************************************)
    life,           \* "running", "stopping" (stop() was called), "closing", ...
    position,       \* per partition, the next offset poll returns
    pc,             \* control point of the task
    hand,           \* the message being processed
    attempt,        \* failed attempts to publish it to logs.raw.clean
    outbox,         \* the producer's buffer
    commitSent,     \* per partition, an offset commit in flight, 0 if none
    (***********************************************************************)
    (* History, read by the properties only                                *)
    (***********************************************************************)
    skipped,        \* messages given up after both publish attempts
    lost,           \* messages whose clean copy left the buffer undelivered
    resent,         \* per message, deliveries the producer was not told of
    rewinds         \* restarts and rebalances so far

envVars == <<committed, clean, audited>>
processVars == <<life, position, pc, hand, attempt, outbox, commitSent>>
historyVars == <<skipped, lost, resent, rewinds>>
vars == <<envVars, processVars, historyVars>>

Up == life \in {"running", "stopping", "closing"}

NoCommit == [p \in Partition |-> 0]

\* The buffer refuses further messages (BufferError).
Full == Len(outbox) >= QueueLimit

\* Messages whose clean copy waits in the buffer.
Buffered == {m \in Message : <<"clean", m>> \in ToSet(outbox)}

Delivered == {m \in Message : clean[m] > 0}

Init ==
    /\ committed = [p \in Partition |-> 1]
    /\ clean = [m \in Message |-> 0]
    /\ audited = {}
    /\ life = "running"
    /\ position = [p \in Partition |-> 1]
    /\ pc = "poll"
    /\ hand = NoMessage
    /\ attempt = 0
    /\ outbox = <<>>
    /\ commitSent = NoCommit
    /\ skipped = {}
    /\ lost = {}
    /\ resent = [m \in Message |-> 0]
    /\ rewinds = 0

-----------------------------------------------------------------------------
(***************************************************************************)
(* The consumer loop: run and _handle_kafka_message                        *)
(***************************************************************************)

\* Mutation of AfterInjection: a message with an injection is not checked for
\* personal data.
AfterInjectionOnly(m) == IF m \in Pii \ Injected THEN "pii" ELSE "publish"

\* The first step of process_message that m calls for, from pii on.
AfterInjection(m) == IF m \in Pii THEN "pii" ELSE "publish"

\* The loop condition, evaluated after every message.
NextIteration == IF life = "running" THEN "poll" ELSE "returned"

\* What process_message does first with m.
FirstStep(m) ==
    CASE m \in Corrupt  -> "commit"
      [] m \in Invalid  -> "parse_error"
      [] m \in Injected -> "injection"
      [] OTHER          -> AfterInjection(m)

\* Mutation of Poll: the offset is committed as the message is read.
PollAutoCommitted(p) ==
    /\ life \in {"running", "stopping"}
    /\ pc = "poll"
    /\ position[p] <= LogLen
    /\ hand' = <<p, position[p]>>
    /\ position' = [position EXCEPT ![p] = @ + 1]
    /\ commitSent' = [commitSent EXCEPT ![p] = position'[p]]
    /\ pc' = FirstStep(hand')
    /\ UNCHANGED <<envVars, life, attempt, outbox, historyVars>>

\* poll returns the next message of some partition, also when stop() is called
\* while it waits.
Poll(p) ==
    /\ life \in {"running", "stopping"}
    /\ pc = "poll"
    /\ position[p] <= LogLen
    /\ hand' = <<p, position[p]>>
    /\ position' = [position EXCEPT ![p] = @ + 1]
    /\ pc' = FirstStep(hand')
    /\ UNCHANGED <<envVars, life, attempt, outbox, commitSent, historyVars>>

\* commit(msg) sends the offset and returns.
CommitOffset ==
    /\ Up
    /\ pc = "commit"
    /\ commitSent' = [commitSent EXCEPT ![hand[1]] = hand[2] + 1]
    /\ hand' = NoMessage
    /\ attempt' = 0
    /\ pc' = NextIteration
    /\ UNCHANGED <<envVars, life, position, outbox, historyVars>>

-----------------------------------------------------------------------------
(***************************************************************************)
(* process_message                                                         *)
(***************************************************************************)

\* _publish_json: a full buffer is logged and ignored.
PublishJson(out) == outbox' = IF Full THEN outbox ELSE Append(outbox, out)

\* An invalid message is reported and its offset committed.
PublishParseError ==
    /\ Up
    /\ pc = "parse_error"
    /\ PublishJson(<<"parse_error", hand>>)
    /\ pc' = "commit"
    /\ UNCHANGED <<envVars, life, position, hand, attempt, commitSent, historyVars>>

AuditStep(t) == IF t = "injection" THEN "injection_audit" ELSE "pii_audit"

\* _handle_injection_event and _handle_pii_event: publish the event, then
\* await the audit insert.
PublishEvent(t) ==
    /\ Up
    /\ pc = t
    /\ hand \notin Mistyped
    /\ PublishJson(<<t, hand>>)
    /\ pc' = AuditStep(t)
    /\ UNCHANGED <<envVars, life, position, hand, attempt, commitSent, historyVars>>

\* SecurityEvent refuses the tenant_id before anything is published.  The
\* ValidationError leaves process_message, the guard of run logs it, and the
\* loop goes on without a commit.
EventRaises(t) ==
    /\ Up
    /\ pc = t
    /\ hand \in Mistyped
    /\ hand' = NoMessage
    /\ attempt' = 0
    /\ pc' = NextIteration
    /\ UNCHANGED <<envVars, life, position, outbox, commitSent, historyVars>>

\* log_security_event inserts a row, or logs its failure and returns just the
\* same; it never raises.
AuditEvent(t) ==
    /\ Up
    /\ pc = AuditStep(t)
    /\ audited' = audited \cup {<<t, hand>>}
    /\ pc' = IF t = "injection" THEN AfterInjection(hand) ELSE "publish"
    /\ UNCHANGED <<committed, clean, life, position, hand, attempt, outbox, commitSent,
                   historyVars>>

\* Mutation of PublishClean: the retry follows the first success as well.
PublishCleanTwice ==
    /\ Up
    /\ pc = "publish"
    /\ ~ Full
    /\ outbox' = Append(outbox, <<"clean", hand>>)
    /\ pc' = IF attempt = 0 THEN "publish" ELSE "commit"
    /\ attempt' = 1
    /\ UNCHANGED <<envVars, life, position, hand, commitSent, historyVars>>

\* _publish_with_retry: the buffer takes the clean message.
PublishClean ==
    /\ Up
    /\ pc = "publish"
    /\ ~ Full
    /\ outbox' = Append(outbox, <<"clean", hand>>)
    /\ pc' = "commit"
    /\ UNCHANGED <<envVars, life, position, hand, attempt, commitSent, historyVars>>

\* The buffer is full: try once more after a second.
PublishCleanFails ==
    /\ Up
    /\ pc = "publish"
    /\ Full
    /\ attempt = 0
    /\ attempt' = 1
    /\ UNCHANGED <<envVars, life, position, pc, hand, outbox, commitSent, historyVars>>

\* Mutation of GiveUp: the message is retried until the buffer takes it.
GiveUpNever ==
    /\ Up
    /\ pc = "publish"
    /\ Full
    /\ attempt = 1
    /\ attempt' = 0
    /\ UNCHANGED <<envVars, life, position, pc, hand, outbox, commitSent, historyVars>>

\* The buffer is still full: the loop moves on without committing.
GiveUp ==
    /\ Up
    /\ pc = "publish"
    /\ Full
    /\ attempt = 1
    /\ skipped' = skipped \cup {hand}
    /\ hand' = NoMessage
    /\ attempt' = 0
    /\ pc' = NextIteration
    /\ UNCHANGED <<envVars, life, position, outbox, commitSent, lost, resent, rewinds>>

-----------------------------------------------------------------------------
(***************************************************************************)
(* The librdkafka threads and the broker                                   *)
(***************************************************************************)

\* A buffered message reaches its topic.
Deliver(i) ==
    /\ Up
    /\ outbox' = RemoveAt(outbox, i)
    /\ clean' = [m \in Message |-> clean[m] + (IF outbox[i] = <<"clean", m>> THEN 1 ELSE 0)]
    /\ UNCHANGED <<committed, audited, life, position, pc, hand, attempt, commitSent,
                   historyVars>>

\* A clean log reaches its topic and the acknowledgement is lost.  The producer
\* is not idempotent (enable.idempotence is not set): the message stays in the
\* buffer and is sent again.
DeliverUnacknowledged(i) ==
    /\ Up
    /\ \E m \in Message :
        /\ outbox[i] = <<"clean", m>>
        /\ resent[m] < MaxResends
        /\ clean' = [clean EXCEPT ![m] = @ + 1]
        /\ resent' = [resent EXCEPT ![m] = @ + 1]
    /\ UNCHANGED <<committed, audited, processVars, skipped, lost, rewinds>>

\* A buffered message expires; no delivery callback reports it.
DeliveryFails(i) ==
    /\ Up
    /\ outbox' = RemoveAt(outbox, i)
    /\ lost' = lost \cup {m \in Message : outbox[i] = <<"clean", m>>}
    /\ UNCHANGED <<envVars, life, position, pc, hand, attempt, commitSent, skipped, resent,
                   rewinds>>

\* The broker applies a commit in flight, or it fails unnoticed.
CommitArrives(p) ==
    /\ Up
    /\ commitSent[p] # 0
    /\ \/ committed' = [committed EXCEPT ![p] = commitSent[p]]
       \/ UNCHANGED committed
    /\ commitSent' = [commitSent EXCEPT ![p] = 0]
    /\ UNCHANGED <<clean, audited, life, position, pc, hand, attempt, outbox,
                   historyVars>>

-----------------------------------------------------------------------------
(***************************************************************************)
(* main(): shutdown, and what may happen to the process                    *)
(***************************************************************************)

\* SIGTERM: stop() clears the flag of the loop.
StopSignal ==
    /\ life = "running"
    /\ life' = "stopping"
    /\ UNCHANGED <<envVars, position, pc, hand, attempt, outbox, commitSent, historyVars>>

\* Mutation of LoopReturns: the task is cancelled with its message in hand.
LoopCancelled ==
    /\ life = "stopping"
    /\ life' = "closing"
    /\ hand' = NoMessage
    /\ pc' = "returned"
    /\ UNCHANGED <<envVars, position, attempt, outbox, commitSent, historyVars>>

\* Mutation of LoopReturns: the flag is looked at only after a message.
LoopReturnsAfterMessage ==
    /\ life = "stopping"
    /\ pc = "returned"
    /\ life' = "closing"
    /\ UNCHANGED <<envVars, position, pc, hand, attempt, outbox, commitSent, historyVars>>

\* A poll that returned nothing, or the end of the last message, lets the loop
\* see the flag and return; main flushes the producer.
LoopReturns ==
    /\ life = "stopping"
    /\ pc \in {"poll", "returned"}
    /\ life' = "closing"
    /\ pc' = "returned"
    /\ UNCHANGED <<envVars, position, hand, attempt, outbox, commitSent, historyVars>>

\* The end of the process: memory and everything in flight are gone.
Dies(end) ==
    /\ life' = end
    /\ lost' = lost \cup Buffered
    /\ outbox' = <<>>
    /\ commitSent' = NoCommit
    /\ pc' = "poll"
    /\ hand' = NoMessage
    /\ attempt' = 0
    /\ UNCHANGED <<envVars, position, skipped, resent, rewinds>>

\* flush(30) returned, because the buffer is empty or because of its
\* timeout; the consumer and the pool are closed and main returns.
Exit == life = "closing" /\ Dies("exited")

\* The process dies at any step.
Crash == Up /\ Dies("crashed")

\* The container is started again at the group's offsets.
Restart ==
    /\ ~ Up
    /\ rewinds < MaxRewinds
    /\ rewinds' = rewinds + 1
    /\ life' = "running"
    /\ position' = committed
    /\ UNCHANGED <<envVars, pc, hand, attempt, outbox, commitSent, skipped, lost, resent>>

\* A new group generation rewinds a running consumer to the group's offsets.
Rebalance ==
    /\ life \in {"running", "stopping"}
    /\ rewinds < MaxRewinds
    /\ position # committed
    /\ rewinds' = rewinds + 1
    /\ position' = committed
    /\ UNCHANGED <<envVars, life, pc, hand, attempt, outbox, commitSent, skipped, lost, resent>>

-----------------------------------------------------------------------------

ProcessMessage ==
    \/ PublishParseError
    \/ \E t \in Threat : PublishEvent(t) \/ EventRaises(t) \/ AuditEvent(t)
    \/ PublishClean
    \/ PublishCleanFails
    \/ GiveUp

Loop ==
    \/ \E p \in Partition : Poll(p)
    \/ ProcessMessage
    \/ CommitOffset
    \/ LoopReturns

Producer ==
    \E i \in DOMAIN outbox : Deliver(i) \/ DeliverUnacknowledged(i) \/ DeliveryFails(i)

Next ==
    \/ Loop
    \/ Producer
    \/ \E p \in Partition : CommitArrives(p)
    \/ StopSignal
    \/ Exit
    \/ Crash
    \/ Restart
    \/ Rebalance

Spec == Init /\ [][Next]_vars

(***************************************************************************)
(* The event loop runs the task, poll returns within a second and flush    *)
(* within thirty.  Nothing is assumed of the broker: the buffer may stay   *)
(* full for ever.                                                          *)
(***************************************************************************)
Fairness ==
    /\ WF_vars(ProcessMessage \/ CommitOffset)
    /\ WF_vars(LoopReturns)
    /\ WF_vars(Exit)

FairSpec == Spec /\ Fairness

-----------------------------------------------------------------------------
(***************************************************************************)
(* Properties                                                              *)
(***************************************************************************)

\* The shape of every variable.
TypeOK ==
    /\ committed \in [Partition -> 1 .. LogLen + 1]
    /\ clean \in [Message -> Nat]
    /\ audited \subseteq Threat \X Message
    /\ life \in {"running", "stopping", "closing", "exited", "crashed"}
    /\ position \in [Partition -> 1 .. LogLen + 1]
    /\ pc \in {"poll", "parse_error", "publish", "commit", "returned"}
                \cup Threat \cup {AuditStep(t) : t \in Threat}
    /\ hand \in Message \cup {NoMessage}
    /\ attempt \in {0, 1}
    /\ outbox \in Seq(Output) /\ Len(outbox) <= QueueLimit
    /\ commitSent \in [Partition -> 0 .. LogLen + 1]
    /\ skipped \subseteq Loggable
    /\ lost \subseteq Message
    /\ resent \in [Message -> Nat]
    /\ rewinds \in 0 .. MaxRewinds

\* The fate of a log the commit has passed.
Forwarded(m) == m \in Buffered \cup Delivered \cup lost \cup skipped

\* Every log behind the committed offset was handed to the producer, or was
\* given up because the buffer was full at both attempts, unless it is one for
\* which no SecurityEvent can be built: those the next commit passes over, and
\* "may be processed twice but never dropped" does not hold of them.  No other
\* path of the pipeline, no restart and no rebalance passes over a log.
CommittedIsForwarded ==
    \A p \in Partition : \A i \in 1 .. committed[p] - 1 :
        <<p, i>> \in Loggable \ Raising => Forwarded(<<p, i>>)

\* The clean topic gets at most one copy of a log per delivery of it, and one
\* for each time that the producer sent a copy again because the broker's
\* acknowledgement was lost: the pipeline itself duplicates nothing.
OneCopyPerDelivery ==
    \A m \in Message :
        clean[m] + Cardinality({i \in DOMAIN outbox : outbox[i] = <<"clean", m>>})
            <= 1 + rewinds + resent[m]

\* No log with a detected threat goes downstream before each of its threats
\* was written to security_events, or that write was tried and failed.
FlaggedIsAudited ==
    \A m \in Buffered \cup Delivered :
        /\ m \in Injected => <<"injection", m>> \in audited
        /\ m \in Pii => <<"pii", m>> \in audited

\* No message keeps the loop: whatever it is, and also while the broker takes
\* nothing, the task is done with it in the end.
LoopProgress == (hand # NoMessage) ~> (hand = NoMessage)

\* stop() ends the process, with the message in hand finished first: no log
\* is taken from the task between poll and its commit.
StopFinishesMessage ==
    [][ life = "stopping" /\ life' = "closing" => hand = NoMessage ]_vars

\* A shutdown that was requested completes.
ShutdownCompletes == (life = "stopping") ~> ~ Up

=============================================================================
