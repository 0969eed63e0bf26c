--------------------------- MODULE IncidentStages ---------------------------
(***************************************************************************)
(* The three services an incident passes on its way to the RCA agent:      *)
(* context-compressor, semantic-cache and model-router.  Each is one       *)
(* asyncio task around the same loop: take an incident off the topic, work *)
(* on it, publish the outcome with retries or send the incident to the     *)
(* dead-letter queue, and commit the consumer's position.  They differ in  *)
(* the work: the compressor fetches logs and may shorten them, the cache   *)
(* answers or forwards, the router chooses a model or discards.            *)
(*                                                                         *)
(* A behaviour is one of the services, chosen by Init, on its topic.       *)
(***************************************************************************)
EXTENDS Naturals, FiniteSets

CONSTANTS
    Partition,      \* partitions of the topic assigned to this instance
    LogLen,         \* messages in each partition
    Malformed,      \* messages _parse_incident rejects
    Untokenisable,  \* incidents with a log text that tiktoken refuses
    Low,            \* incidents of severity LOW
    LowSkip,        \* RoutingConfig.low_skip
    NoMessage,      \* the task holds no message
    MaxRetries,     \* kafka_dlq_max_retries
    MaxRewinds      \* bound of the model: restarts and rebalances explored

\* A message is named by its partition and its offset in it.
Message == Partition \X (1 .. LogLen)

Service == {"context-compressor", "semantic-cache", "model-router"}

Topic == {"incidents.compressed", "agent.results", "incidents.routed", "incidents.ready"}

ASSUME StagesAssumption ==
    /\ LogLen \in Nat
    /\ MaxRetries \in Nat \ {0}
    /\ MaxRewinds \in Nat
    /\ LowSkip \in BOOLEAN
    /\ NoMessage \notin Message
    /\ Malformed \subseteq Message

VARIABLES
    service,        \* the service that runs, chosen once
    (***********************************************************************)
    (* The environment: broker                                             *)
    (***********************************************************************)
    committed,      \* per partition, the next offset of the consumer group
    published,      \* incidents on the topics that follow
    dlq,            \* incidents in logs.dlq
    (***********************************************************************)
    (* The process                                                         *)
    (***********************************************************************)
    running,        \* the process exists
    position,       \* per partition, the next offset the consumer returns
    pc,             \* the await the task is in; "dead" after an exception
    hand,           \* the message being processed
    topic,          \* the topic its outcome goes to
    attempt,        \* failed attempts to publish it
    (***********************************************************************)
    (* History, read by the properties only                                *)
    (***********************************************************************)
    skipped,        \* LOW incidents the router discarded
    lost,           \* incidents neither published nor dead-lettered
    rewinds         \* restarts and rebalances so far

brokerVars == <<committed, published, dlq>>
localVars == <<hand, topic, attempt>>
historyVars == <<skipped, lost, rewinds>>
vars == <<service, brokerVars, running, position, pc, localVars, historyVars>>

NoTopic == "none"

\* The await a service enters with a well-formed incident.
FirstAwait(s) ==
    CASE s = "context-compressor" -> "logs"
      [] s = "semantic-cache" -> "lookup"
      [] s = "model-router" -> "tenant"

Init ==
    /\ service \in Service
    /\ committed = [p \in Partition |-> 1]
    /\ published = {}
    /\ dlq = {}
    /\ running = TRUE
    /\ position = [p \in Partition |-> 1]
    /\ pc = "fetch"
    /\ hand = NoMessage
    /\ topic = NoTopic
    /\ attempt = 0
    /\ skipped = {}
    /\ lost = {}
    /\ rewinds = 0

\* The task is in await a of service s.
At(s, a) == running /\ service = s /\ pc = a

\* The task goes on to await a, and nothing else changes.
GoTo(a) ==
    /\ pc' = a
    /\ UNCHANGED <<service, brokerVars, running, position, localVars, historyVars>>

\* The task goes on to publish its incident on t.
GoToPublish(t) ==
    /\ topic' = t
    /\ pc' = "publish"
    /\ UNCHANGED <<service, brokerVars, running, position, hand, attempt, historyVars>>

\* The task ends with an exception, of which main takes no notice.
Die ==
    /\ pc' = "dead"
    /\ hand' = NoMessage
    /\ topic' = NoTopic
    /\ attempt' = 0

-----------------------------------------------------------------------------
(***************************************************************************)
(* KafkaHandler.run, and the beginning of _process_message                 *)
(***************************************************************************)

\* Mutation of Receive: the consumer commits on its own (enable_auto_commit).
ReceiveAutoCommitted(p) ==
    /\ running
    /\ pc = "fetch"
    /\ position[p] <= LogLen
    /\ hand' = <<p, position[p]>>
    /\ position' = [position EXCEPT ![p] = @ + 1]
    /\ committed' = position'
    /\ pc' = IF hand' \in Malformed THEN "dlq" ELSE FirstAwait(service)
    /\ UNCHANGED <<service, published, dlq, running, topic, attempt, historyVars>>

\* The consumer yields the next message of p; the handler parses it.
Receive(p) ==
    /\ running
    /\ pc = "fetch"
    /\ position[p] <= LogLen
    /\ hand' = <<p, position[p]>>
    /\ position' = [position EXCEPT ![p] = @ + 1]
    /\ pc' = IF hand' \in Malformed THEN "dlq" ELSE FirstAwait(service)
    /\ UNCHANGED <<service, brokerVars, running, topic, attempt, historyVars>>

-----------------------------------------------------------------------------
(***************************************************************************)
(* context-compressor                                                      *)
(***************************************************************************)

\* _fetch_logs_best_effort returned logs.
FetchLogs == At("context-compressor", "logs") /\ GoTo("compress")

\* The query failed, or the services have no logs: the text is empty, which is
\* below every threshold.
FetchNoLogs == At("context-compressor", "logs") /\ GoTo("stats")

\* compress: the text as it is, or what the model made of it; an error of the
\* model is caught, and the text passed on as it is.
Compress ==
    /\ At("context-compressor", "compress")
    /\ hand \notin Untokenisable
    /\ GoTo("stats")

\* Counting the tokens raised, before the guarded call of the model.
CompressRaises ==
    /\ At("context-compressor", "compress")
    /\ hand \in Untokenisable
    /\ Die
    /\ UNCHANGED <<service, brokerVars, running, position, historyVars>>

\* _update_db_best_effort: the row of the incident is read by the gateway only,
\* and its failure is only logged.
UpdateStats == At("context-compressor", "stats") /\ GoToPublish("incidents.compressed")

-----------------------------------------------------------------------------
(***************************************************************************)
(* semantic-cache                                                          *)
(***************************************************************************)

\* SemanticCache.get found an entry that is similar enough.
LookupHits == At("semantic-cache", "lookup") /\ GoToPublish("agent.results")

\* No such entry, or an error of Redis or of the embedding (fail-open).
LookupMisses == At("semantic-cache", "lookup") /\ GoToPublish("incidents.routed")

-----------------------------------------------------------------------------
(***************************************************************************)
(* model-router                                                            *)
(***************************************************************************)

\* find_by_id: the tenant exists, in the cache or in the database.
FindTenant == At("model-router", "tenant") /\ GoTo("spend")

\* TenantNotFoundError, or a DatabaseQueryError of either query.
RouteFails ==
    /\ \/ At("model-router", "tenant")
       \/ At("model-router", "spend")
    /\ GoTo("dlq")

\* The budget is exhausted, or the incident is worth a model.
RouteToModel == At("model-router", "spend") /\ GoToPublish("incidents.ready")

\* route returned None, within the budget: committed without a trace.
DiscardLow ==
    /\ At("model-router", "spend")
    /\ LowSkip
    /\ hand \in Low
    /\ pc' = "commit"
    /\ skipped' = skipped \cup {hand}
    /\ UNCHANGED <<service, brokerVars, running, position, localVars, lost, rewinds>>

-----------------------------------------------------------------------------
(***************************************************************************)
(* The end of _process_message                                             *)
(***************************************************************************)

\* send_and_wait returned: the incident is on topic t.
PublishTo(t) ==
    /\ running
    /\ pc = "publish"
    /\ topic = t
    /\ published' = published \cup {<<hand, t>>}
    /\ pc' = "commit"
    /\ UNCHANGED <<service, committed, dlq, running, position, localVars, historyVars>>

PublishEnriched == PublishTo("incidents.compressed")
HandleHit == PublishTo("agent.results")
HandleMiss == PublishTo("incidents.routed")
PublishReady == PublishTo("incidents.ready")

\* Mutation of CountAttempt: the stop condition is missing.
CountAttemptForever ==
    /\ attempt' = (attempt + 1) % MaxRetries
    /\ pc' = "publish"

\* tenacity: try again, or give up after MaxRetries attempts.
CountAttempt ==
    /\ attempt' = attempt + 1
    /\ pc' = IF attempt + 1 < MaxRetries THEN "publish" ELSE "dlq"

\* send_and_wait raised; the broker may have the incident all the same.
PublishFails ==
    /\ running
    /\ pc = "publish"
    /\ published' \in {published, published \cup {<<hand, topic>>}}
    /\ CountAttempt
    /\ UNCHANGED <<service, committed, dlq, running, position, hand, topic, historyVars>>

\* _send_to_dlq: the incident as it came, or an error that is only logged.
SendToDlq ==
    /\ running
    /\ pc = "dlq"
    /\ \/ dlq' = dlq \cup {hand} /\ UNCHANGED lost
       \/ lost' = lost \cup {hand} /\ UNCHANGED dlq
    /\ pc' = "commit"
    /\ UNCHANGED <<service, committed, published, running, position, localVars, skipped,
                   rewinds>>

\* commit() commits what the consumer has returned so far, of all partitions.
CommitOffset ==
    /\ running
    /\ pc = "commit"
    /\ committed' = position
    /\ pc' = "fetch"
    /\ hand' = NoMessage
    /\ topic' = NoTopic
    /\ attempt' = 0
    /\ UNCHANGED <<service, published, dlq, running, position, historyVars>>

\* commit() raised; the broker may have committed all the same.
CommitFails ==
    /\ running
    /\ pc = "commit"
    /\ committed' \in {committed, position}
    /\ Die
    /\ UNCHANGED <<service, published, dlq, running, position, historyVars>>

-----------------------------------------------------------------------------
(***************************************************************************)
(* main(), and what may happen to the process                              *)
(***************************************************************************)

\* The call the task is waiting for reaches the broker, or it does not.
CallInFlight ==
    \/ UNCHANGED brokerVars
    \/ pc = "publish" /\ published' = published \cup {<<hand, topic>>}
                      /\ UNCHANGED <<committed, dlq>>
    \/ pc = "dlq" /\ dlq' = dlq \cup {hand} /\ UNCHANGED <<committed, published>>
    \/ pc = "commit" /\ committed' = position /\ UNCHANGED <<published, dlq>>

\* A stop cancels the task at its await, or the process crashes at any step.
Ends ==
    /\ running
    /\ running' = FALSE
    /\ CallInFlight
    /\ pc' = "fetch"
    /\ hand' = NoMessage
    /\ topic' = NoTopic
    /\ attempt' = 0
    /\ UNCHANGED <<service, position, historyVars>>

\* The container is started again at the group's offsets.
Restart ==
    /\ ~ running
    /\ rewinds < MaxRewinds
    /\ rewinds' = rewinds + 1
    /\ running' = TRUE
    /\ position' = committed
    /\ UNCHANGED <<service, brokerVars, pc, localVars, skipped, lost>>

\* A new group generation rewinds a live consumer to the group's offsets, also
\* in the middle of a message.
Rebalance ==
    /\ running
    /\ pc # "dead"
    /\ rewinds < MaxRewinds
    /\ position # committed
    /\ rewinds' = rewinds + 1
    /\ position' = committed
    /\ UNCHANGED <<service, brokerVars, running, pc, localVars, skipped, lost>>

-----------------------------------------------------------------------------

Work ==
    \/ FetchLogs \/ FetchNoLogs \/ Compress \/ CompressRaises \/ UpdateStats
    \/ LookupHits \/ LookupMisses
    \/ FindTenant \/ RouteFails \/ RouteToModel \/ DiscardLow

Outcome ==
    \/ PublishEnriched \/ HandleHit \/ HandleMiss \/ PublishReady
    \/ PublishFails
    \/ SendToDlq
    \/ CommitOffset
    \/ CommitFails

Loop == (\E p \in Partition : Receive(p)) \/ Work \/ Outcome

Next == Loop \/ Ends \/ Restart \/ Rebalance

Spec == Init /\ [][Next]_vars

\* The event loop runs the task, and every await of it returns or raises.
FairSpec == Spec /\ WF_vars(Loop)

-----------------------------------------------------------------------------
(***************************************************************************)
(* Properties                                                              *)
(***************************************************************************)

\* The shape of every variable.
TypeOK ==
    /\ service \in Service
    /\ committed \in [Partition -> 1 .. LogLen + 1]
    /\ published \subseteq Message \X Topic
    /\ dlq \subseteq Message
    /\ running \in BOOLEAN
    /\ position \in [Partition -> 1 .. LogLen + 1]
    /\ pc \in {"fetch", "logs", "compress", "stats", "lookup", "tenant", "spend",
               "publish", "dlq", "commit", "dead"}
    /\ hand \in Message \cup {NoMessage}
    /\ topic \in Topic \cup {NoTopic}
    /\ attempt \in 0 .. MaxRetries
    /\ skipped \subseteq Message
    /\ lost \subseteq Message
    /\ rewinds \in 0 .. MaxRewinds

\* The incidents that are on a topic, in the dead-letter queue, or skipped for
\* their severity.
Settled == {m \in Message : \E t \in Topic : <<m, t>> \in published} \cup dlq \cup skipped

\* The incidents the service is done with: settled, or lost because the publish
\* and the dead letter have both failed.
Handled == Settled \cup lost

\* Every incident behind the committed offset is downstream, in the dead-letter
\* queue, a LOW one that was skipped, or one whose dead letter failed as well:
\* "advance only after the publish succeeds" up to that double failure, over
\* every crash, stop, failed commit and rebalance.
CommittedIsHandled ==
    \A p \in Partition : \A k \in 1 .. committed[p] - 1 : <<p, k>> \in Handled

\* Each service is a consuming stage: the offset never goes back, and passes an
\* incident only when it is downstream, in a dead letter or skipped, or when
\* both of its writes failed while the task had it in hand.  The exception is
\* the code's own, as each of the handlers commits after a double failure.
AtLeastOnceStage == INSTANCE AtLeastOnce WITH settled <- Settled, abandoned <- lost

ImplementsAtLeastOnce == AtLeastOnceStage!Spec

\* The topic is worked off: while the task is alive every incident is settled
\* or lost in the end, also if nothing can be published.
BacklogDrains ==
    running ~> (~ running \/ pc = "dead" \/ Message \subseteq Handled)

=============================================================================
