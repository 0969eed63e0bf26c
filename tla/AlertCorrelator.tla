-------------------------- MODULE AlertCorrelator --------------------------
(***************************************************************************)
(* The alert-correlator service (services/alert-correlator): the sliding   *)
(* windows of correlator.py, the consumer loop of kafka/handler.py and the *)
(* life of the consumer task in main.py.                                   *)
(*                                                                         *)
(* One asyncio task takes alerts off the topic one by one.  An alert joins *)
(* the window of its tenant; when the window then spans two services its   *)
(* alerts become a cascade incident and the window is emptied, otherwise   *)
(* the alert becomes an incident of its own and stays in the window.  The  *)
(* incident is inserted into PostgreSQL, published with retries, or its    *)
(* alert sent to the dead-letter queue, and the consumer's position is     *)
(* committed.  A commit that fails ends the task, not the process.  A stop *)
(* cancels the task at whichever await it is in.                           *)
(***************************************************************************)
EXTENDS Naturals, FiniteSets, FiniteSetsExt

CONSTANTS
    Partition,      \* partitions of alerts assigned to this instance
    LogLen,         \* messages in each partition
    Malformed,      \* messages _parse_alert rejects
    Tenant,
    Service,
    TenantOf,       \* tenant of each message
    ServiceOf,      \* service of each message
    SeverityOf,     \* severity of each message, as its priority
    NoMessage,      \* the task holds no message
    NoIncident,     \* the task holds no incident
    WindowSeconds,  \* correlation_window_seconds
    MaxRetries,     \* kafka_dlq_max_retries
    MaxClock,       \* bound of the model: readings of the clock
    MaxRewinds      \* bound of the model: restarts and rebalances explored

\* A message is named by its partition and its offset in it.
Message == Partition \X (1 .. LogLen)

\* _SEVERITY_PRIORITY: LOW is 1, CRITICAL is 4, and any other word 0.
Priority == 0 .. 4

\* An alert with its received_at, numbered in the order of arrival.
Entry == [alert : Message, at : Nat, arrival : Nat]

\* alert_ids is a set here; its order is the order of arrival.
Incident ==
    [id : Nat, tenant : Tenant, alerts : SUBSET Entry, is_cascade : BOOLEAN,
     severity : Priority]

ASSUME CorrelatorAssumption ==
    /\ LogLen \in Nat
    /\ WindowSeconds \in Nat
    /\ MaxRetries \in Nat \ {0}
    /\ MaxClock \in Nat
    /\ MaxRewinds \in Nat
    /\ NoMessage \notin Message
    /\ NoIncident \notin Incident
    /\ Malformed \subseteq Message
    /\ TenantOf \in [Message -> Tenant]
    /\ ServiceOf \in [Message -> Service]
    /\ SeverityOf \in [Message -> Priority]

VARIABLES
    (***********************************************************************)
    (* The environment: broker, database and clock                         *)
    (***********************************************************************)
    committed,      \* per partition, the next offset of the consumer group
    published,      \* incidents on the incidents topic
    dlq,            \* alerts in logs.dlq
    now,            \* the last reading of the wall clock
    (***********************************************************************)
    (* The process                                                         *)
    (***********************************************************************)
    running,        \* the process exists
    position,       \* per partition, the next offset the consumer returns
    pc,             \* the await the task is in; "dead" after an exception
    hand,           \* the message being processed
    windows,        \* per tenant, AlertWindow.alerts
    incident,       \* the incident built for the message
    attempt,        \* failed attempts to publish it
    (***********************************************************************)
    (* History, read by the properties only                                *)
    (***********************************************************************)
    uncascaded,     \* arrivals this process has put in no cascade
    created,        \* incidents built so far: the next incident_id
    discarded,      \* alerts neither published nor dead-lettered
    rewinds         \* restarts and rebalances so far

envVars == <<committed, published, dlq, now>>
processVars == <<running, position, pc, hand, windows, incident, attempt>>
historyVars == <<uncascaded, created, discarded, rewinds>>
vars == <<envVars, processVars, historyVars>>

EmptyWindows == [t \in Tenant |-> {}]

Init ==
    /\ committed = [p \in Partition |-> 1]
    /\ published = {}
    /\ dlq = {}
    /\ now = 0
    /\ running = TRUE
    /\ position = [p \in Partition |-> 1]
    /\ pc = "fetch"
    /\ hand = NoMessage
    /\ windows = EmptyWindows
    /\ incident = NoIncident
    /\ attempt = 0
    /\ uncascaded = {}
    /\ created = 0
    /\ discarded = {}
    /\ rewinds = 0

-----------------------------------------------------------------------------
(***************************************************************************)
(* AlertCorrelator: add_alert                                              *)
(***************************************************************************)

Services(w) == {ServiceOf[e.alert] : e \in w}

\* _max_severity.
MaxSeverity(w) == Max({SeverityOf[e.alert] : e \in w})

\* Mutation of Unexpired: no entry is evicted.
EvictNothing(w) == w

\* Mutation of Unexpired: an entry as old as the window is evicted.
EvictEarly(w) == {e \in w : e.at + WindowSeconds > now'}

\* The entries of a window that are not older than the window.
Unexpired(w) == {e \in w : e.at + WindowSeconds >= now'}

\* The entry of m in the window.
Arrival(m) == [alert |-> m, at |-> now', arrival |-> created]

\* The window of the tenant of m once m has arrived and old alerts have left.
WindowWith(m) == Unexpired(windows[TenantOf[m]] \cup {Arrival(m)})

\* Mutation of EmitCascade: the alerts stay in the window.
EmitCascadeKeepingWindow(m) ==
    /\ Cardinality(Services(WindowWith(m))) >= 2
    /\ incident' = [id |-> created, tenant |-> TenantOf[m], alerts |-> WindowWith(m),
                    is_cascade |-> TRUE, severity |-> MaxSeverity(WindowWith(m))]
    /\ windows' = [windows EXCEPT ![TenantOf[m]] = WindowWith(m)]
    /\ uncascaded' = uncascaded \ WindowWith(m)

\* Alerts of two services: a cascade of all of them, and an empty window.
EmitCascade(m) ==
    /\ Cardinality(Services(WindowWith(m))) >= 2
    /\ incident' = [id |-> created, tenant |-> TenantOf[m], alerts |-> WindowWith(m),
                    is_cascade |-> TRUE, severity |-> MaxSeverity(WindowWith(m))]
    /\ windows' = [windows EXCEPT ![TenantOf[m]] = {}]
    /\ uncascaded' = uncascaded \ WindowWith(m)

\* Alerts of one service: the new one is an incident, and all of them wait.
EmitSingle(m) ==
    /\ Cardinality(Services(WindowWith(m))) < 2
    /\ incident' = [id |-> created, tenant |-> TenantOf[m],
                    alerts |-> {Arrival(m)}, is_cascade |-> FALSE, severity |-> SeverityOf[m]]
    /\ windows' = [windows EXCEPT ![TenantOf[m]] = WindowWith(m)]
    /\ uncascaded' = uncascaded \cup {Arrival(m)}

AddAlert(m) ==
    /\ EmitCascade(m) \/ EmitSingle(m)
    /\ created' = created + 1

-----------------------------------------------------------------------------
(***************************************************************************)
(* KafkaHandler: run and _process_message                                  *)
(***************************************************************************)

\* The consumer yields the next message of p; the clock is read once.
TakeMessage(p) ==
    /\ running
    /\ pc = "fetch"
    /\ position[p] <= LogLen
    /\ hand' = <<p, position[p]>>
    /\ position' = [position EXCEPT ![p] = @ + 1]
    /\ now' \in now .. MaxClock

\* Mutation of Receive: the consumer commits on its own (enable_auto_commit).
ReceiveAutoCommitted(p) ==
    /\ TakeMessage(p)
    /\ committed' = position'
    /\ \/ /\ hand' \in Malformed
          /\ pc' = "dlq"
          /\ UNCHANGED <<windows, incident, uncascaded, created>>
       \/ /\ hand' \notin Malformed
          /\ AddAlert(hand')
          /\ pc' = "save"
    /\ UNCHANGED <<published, dlq, running, attempt, discarded, rewinds>>

\* The message is parsed and correlated without an await in between.
Receive(p) ==
    /\ TakeMessage(p)
    /\ \/ /\ hand' \in Malformed
          /\ pc' = "dlq"
          /\ UNCHANGED <<windows, incident, uncascaded, created>>
       \/ /\ hand' \notin Malformed
          /\ AddAlert(hand')
          /\ pc' = "save"
    /\ UNCHANGED <<committed, published, dlq, running, attempt, discarded, rewinds>>

\* _save_incident_best_effort: a row, or an error that is only logged.  Nothing
\* in this service reads the row, so the table is left out.
SaveIncident ==
    /\ running
    /\ pc = "save"
    /\ pc' = "publish"
    /\ UNCHANGED <<envVars, running, position, hand, windows, incident, attempt, historyVars>>

\* send_and_wait returned: the incident is on the topic.
PublishIncident ==
    /\ running
    /\ pc = "publish"
    /\ published' = published \cup {incident}
    /\ pc' = "commit"
    /\ UNCHANGED <<committed, dlq, now, running, position, hand, windows, incident,
                   attempt, historyVars>>

\* Mutation of CountAttempt: the stop condition is missing.
CountAttemptForever ==
    /\ attempt' = (attempt + 1) % MaxRetries
    /\ pc' = "publish"

\* tenacity: try again, or give up after MaxRetries attempts.
CountAttempt ==
    /\ attempt' = attempt + 1
    /\ pc' = IF attempt + 1 < MaxRetries THEN "publish" ELSE "dlq"

\* send_and_wait raised; the broker may have the incident all the same.
PublishFails ==
    /\ running
    /\ pc = "publish"
    /\ \/ published' = published \cup {incident}
       \/ UNCHANGED published
    /\ CountAttempt
    /\ UNCHANGED <<committed, dlq, now, running, position, hand, windows, incident,
                   historyVars>>

\* _send_to_dlq: the alert itself, or an error that is only logged.
SendToDlq ==
    /\ running
    /\ pc = "dlq"
    /\ \/ dlq' = dlq \cup {hand} /\ UNCHANGED discarded
       \/ discarded' = discarded \cup {hand} /\ UNCHANGED dlq
    /\ pc' = "commit"
    /\ UNCHANGED <<committed, published, now, running, position, hand, windows, incident,
                   attempt, uncascaded, created, rewinds>>

\* commit() commits what the consumer has returned so far, of all partitions.
CommitOffset ==
    /\ running
    /\ pc = "commit"
    /\ committed' = position
    /\ pc' = "fetch"
    /\ hand' = NoMessage
    /\ incident' = NoIncident
    /\ attempt' = 0
    /\ UNCHANGED <<published, dlq, now, running, position, windows, historyVars>>

\* commit() raised, as it does when the group has rebalanced; the broker may have
\* committed all the same.  The exception leaves run(), the consumer is stopped,
\* and main goes on waiting.
CommitFails ==
    /\ running
    /\ pc = "commit"
    /\ committed' \in {committed, position}
    /\ pc' = "dead"
    /\ hand' = NoMessage
    /\ incident' = NoIncident
    /\ attempt' = 0
    /\ UNCHANGED <<published, dlq, now, running, position, windows, historyVars>>

-----------------------------------------------------------------------------
(***************************************************************************)
(* main(), and what may happen to the process                              *)
(***************************************************************************)

\* The call the task is waiting for reaches the broker, or it does not.
CallInFlight ==
    \/ UNCHANGED <<committed, published, dlq>>
    \/ pc = "publish" /\ published' = published \cup {incident} /\ UNCHANGED <<committed, dlq>>
    \/ pc = "dlq" /\ dlq' = dlq \cup {hand} /\ UNCHANGED <<committed, published>>
    \/ pc = "commit" /\ committed' = position /\ UNCHANGED <<published, dlq>>

\* SIGTERM cancels the task at its await, or the process crashes at any step:
\* its memory is gone, and the call it was waiting for may still arrive.
Ends ==
    /\ running
    /\ running' = FALSE
    /\ CallInFlight
    /\ pc' = "fetch"
    /\ hand' = NoMessage
    /\ windows' = EmptyWindows
    /\ incident' = NoIncident
    /\ attempt' = 0
    /\ uncascaded' = {}
    /\ UNCHANGED <<now, position, created, discarded, rewinds>>

\* The container is started again at the group's offsets.
Restart ==
    /\ ~ running
    /\ rewinds < MaxRewinds
    /\ rewinds' = rewinds + 1
    /\ running' = TRUE
    /\ position' = committed
    /\ UNCHANGED <<envVars, pc, hand, windows, incident, attempt, uncascaded, created, discarded>>

\* A new group generation rewinds a live consumer to the group's offsets,
\* also in the middle of a message; the windows keep what they hold.
Rebalance ==
    /\ running
    /\ pc # "dead"
    /\ rewinds < MaxRewinds
    /\ position # committed
    /\ rewinds' = rewinds + 1
    /\ position' = committed
    /\ UNCHANGED <<envVars, running, pc, hand, windows, incident, attempt, uncascaded, created,
                   discarded>>

-----------------------------------------------------------------------------

Loop ==
    \/ \E p \in Partition : Receive(p)
    \/ SaveIncident
    \/ PublishIncident
    \/ PublishFails
    \/ SendToDlq
    \/ CommitOffset
    \/ CommitFails

Next ==
    \/ Loop
    \/ Ends
    \/ Restart
    \/ Rebalance

Spec == Init /\ [][Next]_vars

\* The event loop runs the task, and every await of it returns or raises.
FairSpec == Spec /\ WF_vars(Loop)

-----------------------------------------------------------------------------
(***************************************************************************)
(* Properties                                                              *)
(***************************************************************************)

\* The shape of every variable.
TypeOK ==
    /\ committed \in [Partition -> 1 .. LogLen + 1]
    /\ published \subseteq Incident
    /\ dlq \subseteq Message
    /\ now \in 0 .. MaxClock
    /\ running \in BOOLEAN
    /\ position \in [Partition -> 1 .. LogLen + 1]
    /\ pc \in {"fetch", "save", "publish", "dlq", "commit", "dead"}
    /\ hand \in Message \cup {NoMessage}
    /\ windows \in [Tenant -> SUBSET Entry]
    /\ incident \in Incident \cup {NoIncident}
    /\ attempt \in 0 .. MaxRetries
    /\ uncascaded \subseteq Entry
    /\ created \in Nat
    /\ discarded \subseteq Message
    /\ rewinds \in 0 .. MaxRewinds

\* The alerts in an incident on the topic or in the dead-letter queue.
Settled ==
    {m \in Message : m \in dlq \/ \E i \in published : \E e \in i.alerts : e.alert = m}

\* The service is done with the alert: it is settled, or was discarded because
\* the publish and the dead letter have both failed.
Handled(m) == m \in Settled \cup discarded

\* Every alert behind the committed offset is settled or was discarded.
CommittedIsHandled ==
    \A p \in Partition : \A k \in 1 .. committed[p] - 1 : Handled(<<p, k>>)

\* The service is a consuming stage: the offset never goes back, and passes an
\* alert only when it is in an incident or a dead letter, or when both of its
\* writes failed while the task had it in hand.  No crash, stop, failed commit
\* or rebalance adds to these.  The exception is the code's own: after a double
\* failure _process_message commits, although its docstring has such a message
\* reprocessed and its class calls no message "silently discarded".
AtLeastOnceStage == INSTANCE AtLeastOnce WITH settled <- Settled, abandoned <- discarded

ImplementsAtLeastOnce == AtLeastOnceStage!Spec

\* A cascade is what correlator.py says it is: alerts of one tenant, of two
\* services at least, that arrived within one window, with the highest of
\* their severities.
CascadeIsGenuine ==
    \A i \in published : i.is_cascade =>
        /\ \A e \in i.alerts : TenantOf[e.alert] = i.tenant
        /\ \E e, f \in i.alerts : ServiceOf[e.alert] # ServiceOf[f.alert]
        /\ \A e, f \in i.alerts : e.at <= f.at + WindowSeconds
        /\ \A e \in i.alerts : SeverityOf[e.alert] <= i.severity
        /\ \E e \in i.alerts : SeverityOf[e.alert] = i.severity

\* No cascade is missed: an alert is reported on its own only if no alert of
\* another service of its tenant arrived within the window before it and is
\* still in no cascade.
NoCascadeMissed ==
    [][ incident = NoIncident /\ incident' # NoIncident /\ ~ incident'.is_cascade =>
            \A e \in uncascaded : \A f \in incident'.alerts :
                \/ TenantOf[e.alert] # TenantOf[f.alert]
                \/ ServiceOf[e.alert] = ServiceOf[f.alert]
                \/ e.at + WindowSeconds < f.at ]_vars

\* An arrival takes part in one cascade at most: emitting one uses up the
\* window ("Clear the window after emitting to prevent re-triggering").
OneCascadePerArrival ==
    \A i, j \in published :
        i.is_cascade /\ j.is_cascade /\ i # j => i.alerts \cap j.alerts = {}

\* The topic is worked off: while the task is alive every alert is settled or
\* discarded in the end, also if nothing can be published.
BacklogDrains ==
    running ~> (~ running \/ pc = "dead" \/ \A m \in Message : Handled(m))

=============================================================================
