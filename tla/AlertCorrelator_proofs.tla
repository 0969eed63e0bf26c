----------------------- MODULE AlertCorrelator_proofs -----------------------
(***************************************************************************)
(* Proofs about AlertCorrelator, for every value of its constants: it is   *)
(* type correct, it implements the abstract at-least-once stage, every     *)
(* cascade is genuine, no arrival is in two cascades, and no cascade is    *)
(* missed.                                                                 *)
(***************************************************************************)
EXTENDS AlertCorrelator, TLAPS, FiniteSetTheorems

(***************************************************************************)
(* The inductive invariant                                                 *)
(***************************************************************************)

\* What the task holds at each control point.
ControlOK ==
    /\ pc \in {"fetch", "dead"} => hand = NoMessage /\ incident = NoIncident /\ attempt = 0
    /\ pc \in {"save", "publish", "dlq", "commit"} => hand \in Message
    /\ pc \in {"save", "publish"} =>
        /\ incident \in Incident
        /\ attempt < MaxRetries
        /\ \E e \in incident.alerts : e.alert = hand

\* Behind a commit everything is handled, and behind the reader of a live
\* process everything but the message in hand, which is before a commit.
OffsetsOK ==
    /\ CommittedIsHandled
    /\ running => \A p \in Partition : \A k \in 1 .. position[p] - 1 :
                        Handled(<<p, k>>) \/ hand = <<p, k>>
    /\ pc = "commit" => Handled(hand)

\* The reader is never behind the commit.
ReaderOK == \A p \in Partition : committed[p] <= position[p]

\* A window holds past arrivals of its tenant, of one service.
WindowsOK ==
    \A t \in Tenant : \A e \in windows[t] :
        /\ TenantOf[e.alert] = t
        /\ e.at <= now
        /\ e.arrival < created
        /\ \A f \in windows[t] : ServiceOf[e.alert] = ServiceOf[f.alert]

\* An arrival in no cascade is still in its window, unless it has expired.
WaitingOK ==
    \A e \in uncascaded :
        e \in windows[TenantOf[e.alert]] \/ e.at + WindowSeconds < now

\* The cascades built so far, apart from those given up.
Cascades == {i \in published \cup {incident} : i # NoIncident /\ i.is_cascade}

\* What CascadeIsGenuine says of one cascade.
Genuine(i) ==
    /\ \A e \in i.alerts : TenantOf[e.alert] = i.tenant
    /\ \E e, f \in i.alerts : ServiceOf[e.alert] # ServiceOf[f.alert]
    /\ \A e, f \in i.alerts : e.at <= f.at + WindowSeconds
    /\ \A e \in i.alerts : SeverityOf[e.alert] <= i.severity
    /\ \E e \in i.alerts : SeverityOf[e.alert] = i.severity

\* Cascades are genuine and share no arrival with each other or with a window.
CascadesOK ==
    \A i \in Cascades :
        /\ Genuine(i)
        /\ \A e \in i.alerts : e.arrival < created
        /\ \A t \in Tenant : i.alerts \cap windows[t] = {}
        /\ \A j \in Cascades : i # j => i.alerts \cap j.alerts = {}

IInv == TypeOK /\ ControlOK /\ OffsetsOK /\ ReaderOK /\ WindowsOK /\ WaitingOK /\ CascadesOK

-----------------------------------------------------------------------------
(***************************************************************************)
(* The correlation of one alert                                            *)
(***************************************************************************)

\* Max returns the greatest of a set of priorities.
LEMMA MaxPriority ==
    ASSUME NEW S \in SUBSET Priority, S # {}
    PROVE  Max(S) \in S /\ \A y \in S : y <= Max(S)
<1>1. \E x \in S : \A y \in S : x >= y
    <2>1. CASE 4 \in S
        BY <2>1 DEF Priority
    <2>2. CASE 4 \notin S /\ 3 \in S
        BY <2>2 DEF Priority
    <2>3. CASE 4 \notin S /\ 3 \notin S /\ 2 \in S
        BY <2>3 DEF Priority
    <2>4. CASE 4 \notin S /\ 3 \notin S /\ 2 \notin S /\ 1 \in S
        BY <2>4 DEF Priority
    <2>5. CASE 4 \notin S /\ 3 \notin S /\ 2 \notin S /\ 1 \notin S
        <3>1. \A x \in S : x = 0
            BY <2>5 DEF Priority
        <3> QED
            BY <3>1
    <2> QED
        BY <2>1, <2>2, <2>3, <2>4, <2>5
<1>2. Max(S) \in S /\ \A y \in S : Max(S) >= y
    BY <1>1 DEF Max
<1> QED
    BY <1>2 DEF Priority

\* The window with the new arrival: its entries are in the old window or new,
\* and are exactly those not older than the window.
LEMMA WindowEntries ==
    ASSUME TypeOK, NEW m \in Message, now' \in now .. MaxClock
    PROVE  /\ Arrival(m) \in Entry
           /\ TenantOf[m] \in Tenant
           /\ WindowWith(m) \subseteq Entry
           /\ Arrival(m) \in WindowWith(m)
           /\ WindowWith(m) \subseteq windows[TenantOf[m]] \cup {Arrival(m)}
           /\ \A e \in WindowWith(m) : e.at + WindowSeconds >= now'
           /\ \A e \in windows[TenantOf[m]] :
                e.at + WindowSeconds >= now' => e \in WindowWith(m)
           /\ MaxSeverity(WindowWith(m)) \in Priority
           /\ \A e \in WindowWith(m) : SeverityOf[e.alert] <= MaxSeverity(WindowWith(m))
           /\ \E e \in WindowWith(m) : SeverityOf[e.alert] = MaxSeverity(WindowWith(m))
<1> USE CorrelatorAssumption
<1>1. Arrival(m) \in Entry /\ Arrival(m).at = now' /\ now' \in Nat
    BY DEF TypeOK, Arrival, Entry
<1>2. TenantOf[m] \in Tenant /\ windows[TenantOf[m]] \subseteq Entry
    BY DEF TypeOK
<1>3. /\ WindowWith(m) \subseteq Entry
      /\ Arrival(m) \in WindowWith(m)
      /\ WindowWith(m) \subseteq windows[TenantOf[m]] \cup {Arrival(m)}
      /\ \A e \in WindowWith(m) : e.at + WindowSeconds >= now'
      /\ \A e \in windows[TenantOf[m]] :
            e.at + WindowSeconds >= now' => e \in WindowWith(m)
    BY <1>1, <1>2 DEF WindowWith, Unexpired
<1> DEFINE S == {SeverityOf[e.alert] : e \in WindowWith(m)}
<1>4. S \in SUBSET Priority /\ S # {}
    BY <1>3 DEF Entry
<1>5. Max(S) \in S /\ \A y \in S : y <= Max(S)
    BY <1>4, MaxPriority
<1>6. Max(S) = MaxSeverity(WindowWith(m))
    BY DEF MaxSeverity
<1> QED
    BY <1>1, <1>2, <1>3, <1>4, <1>5, <1>6

\* The size test of add_alert says whether the window spans two services.
LEMMA ServiceThreshold ==
    ASSUME TypeOK, WindowsOK, NEW m \in Message, now' \in now .. MaxClock
    PROVE  /\ Cardinality(Services(WindowWith(m))) \in Nat
           /\ Cardinality(Services(WindowWith(m))) >= 2
              <=> \E e, f \in WindowWith(m) : ServiceOf[e.alert] # ServiceOf[f.alert]
<1> DEFINE S == Services(WindowWith(m))
<1>1. \E a, b : S \subseteq {a, b}
    <2> DEFINE w == windows[TenantOf[m]]
    <2>1. WindowWith(m) \subseteq w \cup {Arrival(m)} /\ TenantOf[m] \in Tenant
        BY WindowEntries
    <2>2. Arrival(m).alert = m
        BY DEF Arrival
    <2>3. CASE w = {}
        <3>1. \A e \in WindowWith(m) : e = Arrival(m)
            BY <2>1, <2>3
        <3>2. S \subseteq {ServiceOf[m], ServiceOf[m]}
            BY <3>1, <2>2 DEF Services
        <3> QED
            BY <3>2
    <2>4. CASE w # {}
        <3>1. PICK f \in w : TRUE
            BY <2>4
        <3>2. \A e \in w : ServiceOf[e.alert] = ServiceOf[f.alert]
            BY <2>1, <3>1 DEF WindowsOK
        <3>3. S \subseteq {ServiceOf[m], ServiceOf[f.alert]}
            BY <2>1, <2>2, <3>2 DEF Services
        <3> QED
            BY <3>3
    <2> QED
        BY <2>3, <2>4
<1>2. IsFiniteSet(S) /\ Cardinality(S) \in Nat
    <2>1. PICK a, b : S \subseteq {a, b}
        BY <1>1
    <2>2. IsFiniteSet({a, b})
        <3>1. IsFiniteSet({a} \cup {b})
            BY FS_Singleton, FS_AddElement
        <3>2. {a} \cup {b} = {a, b}
            OBVIOUS
        <3> QED
            BY <3>1, <3>2
    <2> QED
        BY <2>1, <2>2, FS_Subset, FS_CardinalityType
<1>3. ASSUME Cardinality(S) >= 2
      PROVE  \E x, y \in S : x # y
    <2>1. S # {} /\ \A x : S # {x}
        BY <1>2, <1>3, FS_EmptySet, FS_Singleton
    <2> QED
        BY <2>1
<1>4. ASSUME NEW x \in S, NEW y \in S, x # y
      PROVE  Cardinality(S) >= 2
    <2>1. S # {} /\ \A z : S # {z}
        BY <1>4
    <2>2. Cardinality(S) # 0 /\ Cardinality(S) # 1
        BY <1>2, <2>1, FS_EmptySet, FS_Singleton
    <2> QED
        BY <1>2, <2>2
<1>5. Cardinality(S) >= 2 <=> \E x, y \in S : x # y
    BY <1>3, <1>4
<1>6. (\E x, y \in S : x # y)
        <=> \E e, f \in WindowWith(m) : ServiceOf[e.alert] # ServiceOf[f.alert]
    BY DEF Services
<1> QED
    BY <1>2, <1>5, <1>6

\* What add_alert builds and keeps is well typed, and the alert is in its incident.
LEMMA AddAlertTyped ==
    ASSUME TypeOK, NEW m \in Message, now' \in now .. MaxClock, AddAlert(m)
    PROVE  /\ incident' \in Incident
           /\ \E e \in incident'.alerts : e.alert = m
           /\ windows' \in [Tenant -> SUBSET Entry]
           /\ uncascaded' \subseteq Entry
           /\ created' \in Nat
<1> USE CorrelatorAssumption
<1> DEFINE w == WindowWith(m)
<1>1. /\ Arrival(m) \in Entry /\ TenantOf[m] \in Tenant /\ w \subseteq Entry
      /\ Arrival(m) \in w /\ MaxSeverity(w) \in Priority
    BY WindowEntries
<1>2. Arrival(m).alert = m /\ SeverityOf[m] \in Priority /\ created \in Nat
    BY DEF Arrival, TypeOK
<1>3. created' \in Nat
    BY <1>2 DEF AddAlert
<1> HIDE DEF w
<1>4. CASE EmitCascade(m)
    <2>1. incident' = [id |-> created, tenant |-> TenantOf[m], alerts |-> w,
                       is_cascade |-> TRUE, severity |-> MaxSeverity(w)]
        BY <1>4 DEF EmitCascade, w
    <2>2. incident' \in Incident /\ Arrival(m) \in incident'.alerts
        BY <1>1, <1>2, <2>1 DEF Incident
    <2>3. windows' \in [Tenant -> SUBSET Entry] /\ uncascaded' \subseteq Entry
        BY <1>4 DEF EmitCascade, TypeOK
    <2> QED
        BY <1>2, <1>3, <2>2, <2>3
<1>5. CASE EmitSingle(m)
    <2>1. incident' = [id |-> created, tenant |-> TenantOf[m], alerts |-> {Arrival(m)},
                       is_cascade |-> FALSE, severity |-> SeverityOf[m]]
        BY <1>5 DEF EmitSingle
    <2>2. incident' \in Incident /\ Arrival(m) \in incident'.alerts
        BY <1>1, <1>2, <2>1 DEF Incident
    <2>3. windows' = [windows EXCEPT ![TenantOf[m]] = w]
        BY <1>5 DEF EmitSingle, w
    <2>4. windows' \in [Tenant -> SUBSET Entry] /\ uncascaded' \subseteq Entry
        BY <1>1, <1>5, <2>3 DEF EmitSingle, TypeOK
    <2> QED
        BY <1>2, <1>3, <2>2, <2>4
<1> QED
    BY <1>4, <1>5 DEF AddAlert

-----------------------------------------------------------------------------
(***************************************************************************)
(* Types and control                                                       *)
(***************************************************************************)

\* Whatever was in flight when the process ended keeps the environment's types.
LEMMA CallInFlightTyped ==
    ASSUME TypeOK, ControlOK, CallInFlight
    PROVE  /\ committed' \in [Partition -> 1 .. LogLen + 1]
           /\ published' \subseteq Incident
           /\ dlq' \subseteq Message
BY DEF TypeOK, ControlOK, CallInFlight

\* A message read from its position is one of the topic.
LEMMA TakeMessageTyped ==
    ASSUME TypeOK, NEW p \in Partition, TakeMessage(p)
    PROVE  /\ hand' \in Message
           /\ position' \in [Partition -> 1 .. LogLen + 1]
           /\ now' \in now .. MaxClock
           /\ now' \in 0 .. MaxClock
BY CorrelatorAssumption DEF TypeOK, TakeMessage, Message

LEMMA TypeInit == Init => TypeOK
BY CorrelatorAssumption DEF Init, TypeOK, EmptyWindows

LEMMA TypeStep ==
    ASSUME TypeOK, ControlOK, [Next]_vars
    PROVE  TypeOK'
<1> USE CorrelatorAssumption
<1>1. ASSUME NEW p \in Partition, Receive(p)
      PROVE  TypeOK'
    <2>1. TakeMessage(p)
        BY <1>1 DEF Receive
    <2>2. /\ hand' \in Message /\ position' \in [Partition -> 1 .. LogLen + 1]
          /\ now' \in now .. MaxClock /\ now' \in 0 .. MaxClock
        BY <2>1, TakeMessageTyped
    <2>3. /\ windows' \in [Tenant -> SUBSET Entry] /\ incident' \in Incident \cup {NoIncident}
          /\ uncascaded' \subseteq Entry /\ created' \in Nat /\ pc' \in {"dlq", "save"}
        <3>1. CASE hand' \in Malformed
            BY <1>1, <3>1 DEF Receive, TypeOK
        <3>2. CASE hand' \notin Malformed
            <4>1. AddAlert(hand') /\ pc' = "save"
                BY <1>1, <3>2 DEF Receive
            <4>2. PICK m \in Message : m = hand'
                BY <2>2
            <4>3. AddAlert(m)
                BY <4>1, <4>2
            <4> QED
                BY <2>2, <4>1, <4>3, AddAlertTyped
        <3> QED
            BY <3>1, <3>2
    <2> QED
        BY <1>1, <2>2, <2>3 DEF Receive, TakeMessage, TypeOK
<1>2. CASE SaveIncident
    BY <1>2 DEF SaveIncident, TypeOK, envVars, historyVars
<1>3. CASE PublishIncident
    BY <1>3 DEF PublishIncident, TypeOK, ControlOK, historyVars
<1>4. CASE PublishFails
    BY <1>4 DEF PublishFails, CountAttempt, TypeOK, ControlOK, historyVars
<1>5. CASE SendToDlq
    BY <1>5 DEF SendToDlq, TypeOK, ControlOK
<1>6. CASE CommitOffset
    BY <1>6 DEF CommitOffset, TypeOK, historyVars
<1>7. CASE CommitFails
    BY <1>7 DEF CommitFails, TypeOK, historyVars
<1>8. CASE Ends
    <2>1. /\ committed' \in [Partition -> 1 .. LogLen + 1]
          /\ published' \subseteq Incident
          /\ dlq' \subseteq Message
        BY <1>8, CallInFlightTyped DEF Ends
    <2>2. windows' \in [Tenant -> SUBSET Entry]
        BY <1>8 DEF Ends, EmptyWindows
    <2>3. running' \in BOOLEAN
        BY <1>8, Zenon DEF Ends
    <2>4. /\ pc' = "fetch" /\ hand' = NoMessage /\ incident' = NoIncident
          /\ attempt' = 0 /\ uncascaded' = {}
          /\ UNCHANGED <<now, position, created, discarded, rewinds>>
        BY <1>8 DEF Ends
    <2> QED
        BY <2>1, <2>2, <2>3, <2>4 DEF TypeOK
<1>9. CASE Restart
    BY <1>9 DEF Restart, TypeOK, envVars
<1>10. CASE Rebalance
    BY <1>10 DEF Rebalance, TypeOK, envVars
<1>11. CASE UNCHANGED vars
    BY <1>11 DEF TypeOK, vars, envVars, processVars, historyVars
<1> QED
    BY <1>1, <1>2, <1>3, <1>4, <1>5, <1>6, <1>7, <1>8, <1>9, <1>10, <1>11 DEF Next, Loop

LEMMA ControlStep ==
    ASSUME TypeOK, ControlOK, [Next]_vars
    PROVE  ControlOK'
<1> USE CorrelatorAssumption
<1>1. ASSUME NEW p \in Partition, Receive(p)
      PROVE  ControlOK'
    <2>1. TakeMessage(p) /\ attempt' = 0 /\ 0 < MaxRetries
        BY <1>1 DEF Receive, TakeMessage, ControlOK
    <2>2. hand' \in Message /\ now' \in now .. MaxClock
        BY <2>1, TakeMessageTyped
    <2>3. CASE hand' \in Malformed
        BY <1>1, <2>2, <2>3 DEF Receive, ControlOK
    <2>4. CASE hand' \notin Malformed
        <3>1. AddAlert(hand') /\ pc' = "save"
            BY <1>1, <2>4 DEF Receive
        <3>2. PICK m \in Message : m = hand'
            BY <2>2
        <3>3. incident' \in Incident /\ \E e \in incident'.alerts : e.alert = m
            BY <2>2, <3>1, <3>2, AddAlertTyped
        <3> QED
            BY <2>1, <2>2, <3>1, <3>2, <3>3 DEF ControlOK
    <2> QED
        BY <2>3, <2>4
<1>2. CASE SaveIncident
    BY <1>2 DEF SaveIncident, ControlOK
<1>3. CASE PublishIncident
    BY <1>3 DEF PublishIncident, ControlOK
<1>4. CASE PublishFails
    BY <1>4 DEF PublishFails, CountAttempt, ControlOK, TypeOK
<1>5. CASE SendToDlq
    BY <1>5 DEF SendToDlq, ControlOK
<1>6. CASE CommitOffset
    BY <1>6 DEF CommitOffset, ControlOK
<1>7. CASE CommitFails
    BY <1>7 DEF CommitFails, ControlOK
<1>8. CASE Ends
    BY <1>8 DEF Ends, ControlOK
<1>9. CASE Restart
    BY <1>9 DEF Restart, ControlOK
<1>10. CASE Rebalance
    BY <1>10 DEF Rebalance, ControlOK
<1>11. CASE UNCHANGED vars
    BY <1>11 DEF ControlOK, vars, envVars, processVars, historyVars
<1> QED
    BY <1>1, <1>2, <1>3, <1>4, <1>5, <1>6, <1>7, <1>8, <1>9, <1>10, <1>11 DEF Next, Loop

-----------------------------------------------------------------------------
(***************************************************************************)
(* Offsets                                                                 *)
(***************************************************************************)

\* Nothing takes an incident off the topic, or a message out of the DLQ.
LEMMA HandledIsStable ==
    ASSUME [Next]_vars, NEW m, Handled(m)
    PROVE  Handled(m)'
<1>1. published \subseteq published' /\ dlq \subseteq dlq' /\ discarded \subseteq discarded'
    BY DEF Next, Loop, vars, envVars, processVars, historyVars, Receive, TakeMessage,
           SaveIncident, PublishIncident, PublishFails, SendToDlq, CommitOffset, CommitFails,
           Ends, CallInFlight, Restart, Rebalance
<1> QED
    BY <1>1 DEF Handled, Settled

\* Only a failed dead letter abandons an alert: the one in hand, and it
\* settles none.
LEMMA DiscardsOnly ==
    ASSUME TypeOK, ControlOK, [Next]_vars, discarded' # discarded
    PROVE  /\ \E m \in Message : discarded' = discarded \cup {m}
           /\ UNCHANGED <<committed, published, dlq>>
<1>1. SendToDlq
    BY DEF Next, Loop, vars, envVars, processVars, historyVars, Receive, SaveIncident,
           PublishIncident, PublishFails, CommitOffset, CommitFails, Ends, Restart, Rebalance
<1>2. hand \in Message
    BY <1>1 DEF SendToDlq, ControlOK, TypeOK
<1> QED
    BY <1>1, <1>2 DEF SendToDlq

LEMMA OffsetsStep ==
    ASSUME TypeOK, ControlOK, OffsetsOK, [Next]_vars
    PROVE  OffsetsOK'
<1> USE CorrelatorAssumption, HandledIsStable
<1>1. ASSUME committed' = committed, position' = position, hand' = hand, running' => running
      PROVE  CommittedIsHandled' /\ (running' => \A p \in Partition :
                \A k \in 1 .. position'[p] - 1 : Handled(<<p, k>>)' \/ hand' = <<p, k>>)
    BY <1>1 DEF OffsetsOK, CommittedIsHandled
<1>2. ASSUME NEW p \in Partition, Receive(p)
      PROVE  OffsetsOK'
    <2>1. /\ running /\ pc = "fetch" /\ hand = NoMessage /\ committed' = committed
          /\ position' = [position EXCEPT ![p] = @ + 1] /\ hand' = <<p, position[p]>>
          /\ pc' # "commit"
        BY <1>2 DEF Receive, TakeMessage, ControlOK
    <2>2. \A q \in Partition : \A k \in 1 .. position[q] - 1 : Handled(<<q, k>>)
        <3>1. \A q \in Partition : \A k \in 1 .. position[q] - 1 : <<q, k>> \in Message
            BY DEF TypeOK, Message
        <3> QED
            BY <2>1, <3>1 DEF OffsetsOK
    <2>3. \A q \in Partition : \A k \in 1 .. position'[q] - 1 :
                k \in 1 .. position[q] - 1 \/ <<q, k>> = hand'
        BY <2>1 DEF TypeOK
    <2> QED
        BY <2>1, <2>2, <2>3 DEF OffsetsOK, CommittedIsHandled
<1>3. CASE SaveIncident
    BY <1>1, <1>3 DEF SaveIncident, OffsetsOK, envVars
<1>4. CASE PublishIncident
    <2>1. Handled(hand)'
        BY <1>4 DEF PublishIncident, ControlOK, Handled, Settled
    <2> QED
        BY <1>1, <1>4, <2>1 DEF PublishIncident, OffsetsOK
<1>5. CASE PublishFails
    BY <1>1, <1>5 DEF PublishFails, CountAttempt, OffsetsOK
<1>6. CASE SendToDlq
    <2>1. Handled(hand)'
        BY <1>6 DEF SendToDlq, ControlOK, Handled, Settled
    <2> QED
        BY <1>1, <1>6, <2>1 DEF SendToDlq, OffsetsOK
<1>7. ASSUME running, pc = "commit"
      PROVE  \A p \in Partition : \A k \in 1 .. position[p] - 1 : Handled(<<p, k>>)
    BY <1>7 DEF OffsetsOK
<1>8. CASE CommitOffset
    BY <1>7, <1>8 DEF CommitOffset, OffsetsOK, CommittedIsHandled
<1>9. CASE CommitFails
    <2>1. /\ running /\ pc = "commit" /\ position' = position /\ pc' = "dead"
          /\ committed' \in {committed, position}
        BY <1>9 DEF CommitFails
    <2> QED
        BY <1>7, <2>1 DEF OffsetsOK, CommittedIsHandled
<1>10. CASE Ends
    <2>1. /\ running /\ ~ running' /\ pc' = "fetch"
          /\ \/ committed' = committed
             \/ pc = "commit" /\ committed' = position
        BY <1>10 DEF Ends, CallInFlight
    <2> QED
        BY <1>7, <2>1 DEF OffsetsOK, CommittedIsHandled
<1>11. ASSUME position' = committed, committed' = committed, hand' = hand, pc' = pc
       PROVE  OffsetsOK'
    BY <1>11 DEF OffsetsOK, CommittedIsHandled
<1>12. CASE Restart
    BY <1>11, <1>12 DEF Restart, envVars
<1>13. CASE Rebalance
    BY <1>11, <1>13 DEF Rebalance, envVars
<1>14. CASE UNCHANGED vars
    BY <1>1, <1>14 DEF OffsetsOK, vars, envVars, processVars, historyVars
<1> QED
    BY <1>2, <1>3, <1>4, <1>5, <1>6, <1>8, <1>9, <1>10, <1>12, <1>13, <1>14 DEF Next, Loop

\* The offsets move in a commit only, to the consumer's positions.
LEMMA CommitsOnly ==
    ASSUME [Next]_vars, committed' # committed
    PROVE  /\ running /\ pc = "commit"
           /\ committed' = position /\ position' = position
           /\ UNCHANGED <<published, dlq, discarded>>
<1> USE DEF envVars, processVars, historyVars
<1>1. CASE \E p \in Partition : Receive(p)
    BY <1>1 DEF Receive
<1>2. CASE SaveIncident \/ PublishIncident \/ PublishFails \/ SendToDlq
    BY <1>2 DEF SaveIncident, PublishIncident, PublishFails, SendToDlq
<1>3. CASE CommitOffset \/ CommitFails
    BY <1>3 DEF CommitOffset, CommitFails
<1>4. CASE Ends
    BY <1>4 DEF Ends, CallInFlight
<1>5. CASE Restart \/ Rebalance
    BY <1>5 DEF Restart, Rebalance
<1>6. CASE UNCHANGED vars
    BY <1>6 DEF vars
<1> QED
    BY <1>1, <1>2, <1>3, <1>4, <1>5, <1>6 DEF Next, Loop

\* The reader moves on by a message, or back to the committed offset.
LEMMA ReaderStep ==
    ASSUME TypeOK, ReaderOK, [Next]_vars
    PROVE  ReaderOK'
<1>1. \A p \in Partition : committed[p] \in Nat /\ position[p] \in Nat
    BY CorrelatorAssumption DEF TypeOK
<1>2. CASE committed' # committed
    <2>1. committed' = position /\ position' = position
        BY <1>2, CommitsOnly
    <2> QED
        BY <1>1, <2>1 DEF ReaderOK
<1>3. CASE committed' = committed
    <2>1. CASE position' \in {position, committed}
        BY <1>1, <1>3, <2>1 DEF ReaderOK
    <2>2. ASSUME NEW p \in Partition, Receive(p)
          PROVE  ReaderOK'
        <3>1. position' = [position EXCEPT ![p] = @ + 1]
            BY <2>2 DEF Receive, TakeMessage
        <3>2. \A q \in Partition : position'[q] \in {position[q], position[q] + 1}
            BY <3>1 DEF TypeOK
        <3> QED
            BY <1>1, <1>3, <3>2 DEF ReaderOK
    <2>3. (\E p \in Partition : Receive(p)) \/ position' \in {position, committed}
        BY DEF Next, Loop, vars, envVars, processVars, historyVars, SaveIncident,
               PublishIncident, PublishFails, SendToDlq, CommitOffset, CommitFails, Ends,
               Restart, Rebalance
    <2> QED
        BY <2>1, <2>2, <2>3
<1> QED
    BY <1>2, <1>3

-----------------------------------------------------------------------------
(***************************************************************************)
(* Windows                                                                 *)
(***************************************************************************)

\* The alerts of the tenant's window are past arrivals, so the new one is not
\* among them; the windows of other tenants are left alone.
LEMMA AddAlertWindows ==
    ASSUME TypeOK, WindowsOK, NEW m \in Message, now' \in now .. MaxClock, AddAlert(m)
    PROVE  /\ WindowsOK'
           /\ \A t \in Tenant \ {TenantOf[m]} : windows'[t] = windows[t]
           /\ windows'[TenantOf[m]] \subseteq WindowWith(m)
<1> USE CorrelatorAssumption
<1> DEFINE w == WindowWith(m)
<1>1. /\ Arrival(m) \in Entry /\ TenantOf[m] \in Tenant /\ w \subseteq Entry
      /\ w \subseteq windows[TenantOf[m]] \cup {Arrival(m)}
    BY WindowEntries
<1>2. /\ Arrival(m).alert = m /\ Arrival(m).at = now' /\ Arrival(m).arrival = created
      /\ created' = created + 1 /\ created \in Nat /\ now \in Nat /\ now' \in Nat
      /\ now <= now'
    BY DEF Arrival, TypeOK, AddAlert
<1>3. /\ \A t \in Tenant \ {TenantOf[m]} : windows'[t] = windows[t]
      /\ windows'[TenantOf[m]] \in {{}, w}
      /\ windows'[TenantOf[m]] = w
            => ~ \E e, f \in w : ServiceOf[e.alert] # ServiceOf[f.alert]
    <2>1. CASE EmitCascade(m)
        BY <1>1, <2>1 DEF EmitCascade, TypeOK
    <2>2. CASE EmitSingle(m)
        <3>1. ~ (Cardinality(Services(w)) >= 2)
            BY <2>2, ServiceThreshold DEF EmitSingle
        <3>2. ~ \E e, f \in w : ServiceOf[e.alert] # ServiceOf[f.alert]
            BY <3>1, ServiceThreshold
        <3> QED
            BY <1>1, <2>2, <3>2 DEF EmitSingle, TypeOK
    <2> QED
        BY <2>1, <2>2 DEF AddAlert
<1> HIDE DEF w
<1>4. ASSUME NEW t \in Tenant, NEW e \in windows[t]
      PROVE  /\ TenantOf[e.alert] = t /\ e.at <= now' /\ e.arrival < created'
             /\ \A f \in windows[t] : ServiceOf[e.alert] = ServiceOf[f.alert]
    <2>1. e \in Entry
        BY DEF TypeOK
    <2>2. e.at \in Nat /\ e.arrival \in Nat
        BY <2>1 DEF Entry
    <2>3. /\ TenantOf[e.alert] = t /\ e.at <= now /\ e.arrival < created
          /\ \A f \in windows[t] : ServiceOf[e.alert] = ServiceOf[f.alert]
        BY DEF WindowsOK
    <2> QED
        BY <1>2, <2>2, <2>3
<1>5. ASSUME NEW e \in w
      PROVE  TenantOf[e.alert] = TenantOf[m] /\ e.at <= now' /\ e.arrival < created'
    BY <1>1, <1>2, <1>4
<1>6. WindowsOK'
    <2>1. SUFFICES ASSUME NEW t \in Tenant, NEW e \in windows'[t]
                   PROVE  /\ TenantOf[e.alert] = t /\ e.at <= now' /\ e.arrival < created'
                          /\ \A f \in windows'[t] : ServiceOf[e.alert] = ServiceOf[f.alert]
        BY DEF WindowsOK
    <2>2. CASE t # TenantOf[m]
        BY <1>3, <1>4, <2>2
    <2>3. CASE t = TenantOf[m]
        BY <1>3, <1>5, <2>3
    <2> QED
        BY <2>2, <2>3
<1> QED
    BY <1>3, <1>6 DEF w

\* Every step but Receive leaves the windows alone or empties them all.
LEMMA WindowsKept ==
    ASSUME TypeOK, [Next]_vars, \A p \in Partition : ~ Receive(p)
    PROVE  /\ now' = now /\ created' = created
           /\ \/ windows' = windows /\ uncascaded' = uncascaded
              \/ windows' = EmptyWindows /\ uncascaded' = {}
BY DEF Next, Loop, vars, envVars, processVars, historyVars, SaveIncident, PublishIncident,
       PublishFails, SendToDlq, CommitOffset, CommitFails, Ends, CallInFlight, Restart, Rebalance

LEMMA WindowsStep ==
    ASSUME TypeOK, WindowsOK, [Next]_vars
    PROVE  WindowsOK'
<1>1. ASSUME NEW p \in Partition, Receive(p)
      PROVE  WindowsOK'
    <2>1. hand' \in Message /\ now' \in now .. MaxClock
        BY <1>1, TakeMessageTyped DEF Receive
    <2>2. PICK m \in Message : m = hand'
        BY <2>1
    <2>3. CASE AddAlert(m)
        BY <2>1, <2>3, AddAlertWindows
    <2>4. CASE UNCHANGED <<windows, created>>
        <3>1. \A t \in Tenant : \A e \in windows[t] : e.at \in Nat
            BY DEF TypeOK, Entry
        <3>2. now \in Nat /\ now' \in Nat /\ now <= now'
            BY <2>1, CorrelatorAssumption DEF TypeOK
        <3> QED
            BY <2>4, <3>1, <3>2 DEF WindowsOK
    <2> QED
        BY <1>1, <2>2, <2>3, <2>4 DEF Receive
<1>2. CASE \A p \in Partition : ~ Receive(p)
    BY <1>2, WindowsKept DEF WindowsOK, EmptyWindows
<1> QED
    BY <1>1, <1>2

\* An arrival leaves its window into a cascade or when it has expired.
LEMMA WaitingStep ==
    ASSUME TypeOK, WaitingOK, [Next]_vars
    PROVE  WaitingOK'
<1> USE CorrelatorAssumption
<1>1. ASSUME NEW e \in uncascaded
      PROVE  /\ e \in Entry /\ e.at \in Nat /\ TenantOf[e.alert] \in Tenant
             /\ e \in windows[TenantOf[e.alert]] \/ e.at + WindowSeconds < now
    BY DEF TypeOK, Entry, WaitingOK
<1>2. ASSUME NEW p \in Partition, Receive(p)
      PROVE  WaitingOK'
    <2>1. hand' \in Message /\ now' \in now .. MaxClock
        BY <1>2, TakeMessageTyped DEF Receive
    <2>2. PICK m \in Message : m = hand'
        BY <2>1
    <2>3. now \in Nat /\ now' \in Nat /\ now <= now'
        BY <2>1 DEF TypeOK
    <2> DEFINE w == WindowWith(m)
    <2>4. /\ Arrival(m) \in w /\ Arrival(m).alert = m /\ TenantOf[m] \in Tenant
          /\ \A e \in windows[TenantOf[m]] : e.at + WindowSeconds >= now' => e \in w
        BY <2>1, WindowEntries DEF Arrival
    <2> HIDE DEF w
    <2>5. CASE EmitCascade(m)
        <3>1. /\ windows' = [windows EXCEPT ![TenantOf[m]] = {}]
              /\ uncascaded' = uncascaded \ w
            BY <2>5 DEF EmitCascade, w
        <3>2. ASSUME NEW e \in uncascaded, e \notin w
              PROVE  e \in windows'[TenantOf[e.alert]] \/ e.at + WindowSeconds < now'
            <4>1. CASE TenantOf[e.alert] = TenantOf[m]
                BY <1>1, <2>3, <2>4, <3>2, <4>1
            <4>2. CASE TenantOf[e.alert] # TenantOf[m]
                BY <1>1, <2>3, <3>1, <4>2 DEF TypeOK
            <4> QED
                BY <4>1, <4>2
        <3> QED
            BY <3>1, <3>2 DEF WaitingOK
    <2>6. CASE EmitSingle(m)
        <3>1. /\ windows' = [windows EXCEPT ![TenantOf[m]] = w]
              /\ uncascaded' = uncascaded \cup {Arrival(m)}
            BY <2>6 DEF EmitSingle, w
        <3>2. windows'[TenantOf[m]] = w
            BY <2>4, <3>1 DEF TypeOK
        <3>3. ASSUME NEW e \in uncascaded
              PROVE  e \in windows'[TenantOf[e.alert]] \/ e.at + WindowSeconds < now'
            <4>1. CASE TenantOf[e.alert] = TenantOf[m]
                BY <1>1, <2>3, <2>4, <3>2, <4>1
            <4>2. CASE TenantOf[e.alert] # TenantOf[m]
                BY <1>1, <2>3, <3>1, <4>2 DEF TypeOK
            <4> QED
                BY <4>1, <4>2
        <3> QED
            BY <2>4, <3>1, <3>2, <3>3 DEF WaitingOK
    <2>7. CASE UNCHANGED <<windows, uncascaded>>
        BY <1>1, <2>3, <2>7 DEF WaitingOK
    <2> QED
        BY <1>2, <2>2, <2>5, <2>6, <2>7 DEF Receive, AddAlert
<1>3. CASE \A p \in Partition : ~ Receive(p)
    BY <1>3, WindowsKept DEF WaitingOK
<1> QED
    BY <1>2, <1>3

-----------------------------------------------------------------------------
(***************************************************************************)
(* Cascades                                                                *)
(***************************************************************************)

\* Every step but Receive publishes or gives up cascades already built.
LEMMA CascadesKept ==
    ASSUME ControlOK, [Next]_vars, \A p \in Partition : ~ Receive(p)
    PROVE  Cascades' \subseteq Cascades
<1>1. published' \subseteq published \cup {incident} /\ incident' \in {incident, NoIncident}
    BY DEF Next, Loop, vars, envVars, processVars, historyVars, SaveIncident, PublishIncident,
       PublishFails, SendToDlq, CommitOffset, CommitFails, Ends, CallInFlight, Restart, Rebalance
<1> QED
    BY <1>1 DEF Cascades

\* What EmitCascade builds is a cascade.
LEMMA EmittedIsGenuine ==
    ASSUME TypeOK, WindowsOK, NEW m \in Message, now' \in now .. MaxClock, EmitCascade(m)
    PROVE  Genuine(incident')
<1> USE CorrelatorAssumption
<1> DEFINE w == WindowWith(m)
<1>1. /\ TenantOf[m] \in Tenant /\ w \subseteq Entry
      /\ w \subseteq windows[TenantOf[m]] \cup {Arrival(m)}
      /\ \A e \in w : e.at + WindowSeconds >= now'
      /\ \A e \in w : SeverityOf[e.alert] <= MaxSeverity(w)
      /\ \E e \in w : SeverityOf[e.alert] = MaxSeverity(w)
    BY WindowEntries
<1>2. \E e, f \in w : ServiceOf[e.alert] # ServiceOf[f.alert]
    BY ServiceThreshold DEF EmitCascade
<1>3. incident' = [id |-> created, tenant |-> TenantOf[m], alerts |-> w,
                   is_cascade |-> TRUE, severity |-> MaxSeverity(w)]
    BY DEF EmitCascade
<1> HIDE DEF w
<1>4. now \in Nat /\ now' \in Nat /\ now <= now'
    BY DEF TypeOK
<1>5. \A e \in w : e.at \in Nat
    BY <1>1 DEF Entry
<1>6. ASSUME NEW e \in w
      PROVE  TenantOf[e.alert] = TenantOf[m] /\ e.at <= now'
    <2>1. CASE e = Arrival(m)
        BY <1>4, <2>1 DEF Arrival
    <2>2. CASE e \in windows[TenantOf[m]]
        BY <1>1, <1>4, <1>5, <2>2 DEF WindowsOK
    <2> QED
        BY <1>1, <2>1, <2>2
<1>7. \A e, f \in w : e.at <= f.at + WindowSeconds
    BY <1>1, <1>4, <1>5, <1>6
<1> QED
    BY <1>1, <1>2, <1>3, <1>6, <1>7 DEF Genuine

\* What add_alert builds keeps cascades apart.
LEMMA AddAlertCascades ==
    ASSUME TypeOK, WindowsOK, CascadesOK, incident = NoIncident, published' = published,
           NEW m \in Message, now' \in now .. MaxClock, AddAlert(m)
    PROVE  CascadesOK'
<1> USE CorrelatorAssumption
<1> DEFINE w == WindowWith(m)
<1>1. /\ TenantOf[m] \in Tenant /\ w \subseteq Entry
      /\ w \subseteq windows[TenantOf[m]] \cup {Arrival(m)}
      /\ windows'[TenantOf[m]] \subseteq w
      /\ \A t \in Tenant \ {TenantOf[m]} : windows'[t] = windows[t]
    BY WindowEntries, AddAlertWindows
<1>2. /\ Arrival(m).alert = m /\ Arrival(m).arrival = created
      /\ created \in Nat /\ created' = created + 1
    BY DEF Arrival, TypeOK, AddAlert
<1> HIDE DEF w
<1>3. ASSUME NEW i \in Cascades
      PROVE  /\ Genuine(i)
             /\ \A e \in i.alerts : e.arrival < created'
             /\ i.alerts \cap w = {}
             /\ \A t \in Tenant : i.alerts \cap windows'[t] = {}
             /\ \A j \in Cascades : i # j => i.alerts \cap j.alerts = {}
    <2>1. /\ Genuine(i)
          /\ \A e \in i.alerts : e.arrival < created
          /\ \A t \in Tenant : i.alerts \cap windows[t] = {}
          /\ \A j \in Cascades : i # j => i.alerts \cap j.alerts = {}
        BY DEF CascadesOK
    <2>2. Arrival(m) \notin i.alerts
        BY <1>2, <2>1
    <2>3. i.alerts \cap w = {}
        BY <1>1, <2>1, <2>2
    <2>4. \A e \in i.alerts : e.arrival < created'
        <3>1. i \in published
            BY DEF Cascades
        <3>2. \A e \in i.alerts : e.arrival \in Nat
            BY <3>1 DEF TypeOK, Incident, Entry
        <3> QED
            BY <1>2, <2>1, <3>2
    <2> QED
        BY <1>1, <2>1, <2>3, <2>4
<1>4. CASE EmitSingle(m)
    <2>1. Cascades' \subseteq Cascades
        BY <1>4 DEF EmitSingle, Cascades
    <2> QED
        BY <1>3, <2>1 DEF CascadesOK, Genuine
<1>5. CASE EmitCascade(m)
    <2>1. /\ Cascades' \subseteq Cascades \cup {incident'}
          /\ incident'.alerts = w
          /\ windows'[TenantOf[m]] = {}
        BY <1>1, <1>5 DEF EmitCascade, Cascades, TypeOK, w
    <2>2. Genuine(incident')
        BY <1>5, EmittedIsGenuine
    <2>3. \A e \in w : e.arrival < created' /\ TenantOf[e.alert] = TenantOf[m]
        BY <1>1, <1>2 DEF WindowsOK, Entry
    <2>4. \A t \in Tenant : w \cap windows'[t] = {}
        BY <1>1, <2>1, <2>3 DEF WindowsOK
    <2> QED
        BY <1>3, <2>1, <2>2, <2>3, <2>4 DEF CascadesOK, Genuine
<1> QED
    BY <1>4, <1>5 DEF AddAlert

LEMMA CascadesStep ==
    ASSUME TypeOK, ControlOK, WindowsOK, CascadesOK, [Next]_vars
    PROVE  CascadesOK'
<1>1. ASSUME NEW p \in Partition, Receive(p)
      PROVE  CascadesOK'
    <2>1. hand' \in Message /\ now' \in now .. MaxClock
        BY <1>1, TakeMessageTyped DEF Receive
    <2>2. published' = published /\ incident = NoIncident
        BY <1>1 DEF Receive, TakeMessage, ControlOK
    <2>3. PICK m \in Message : m = hand'
        BY <2>1
    <2>4. CASE AddAlert(m)
        BY <2>1, <2>2, <2>4, AddAlertCascades
    <2>5. CASE UNCHANGED <<windows, incident, created>>
        BY <2>2, <2>5 DEF CascadesOK, Cascades, Genuine
    <2> QED
        BY <1>1, <2>3, <2>4, <2>5 DEF Receive
<1>2. CASE \A p \in Partition : ~ Receive(p)
    <2>1. Cascades' \subseteq Cascades
        BY <1>2, CascadesKept
    <2>2. created' = created /\ (windows' = windows \/ windows' = EmptyWindows)
        BY <1>2, WindowsKept
    <2> QED
        BY <2>1, <2>2 DEF CascadesOK, Genuine, EmptyWindows
<1> QED
    BY <1>1, <1>2

\* An alert becomes a single incident only when its window, without what has
\* expired, holds no alert of another service.
LEMMA SingleMissesNothing ==
    ASSUME TypeOK, WindowsOK, WaitingOK, NEW m \in Message, now' \in now .. MaxClock,
           EmitSingle(m), NEW e \in uncascaded, NEW f \in incident'.alerts
    PROVE  \/ TenantOf[e.alert] # TenantOf[f.alert]
           \/ ServiceOf[e.alert] = ServiceOf[f.alert]
           \/ e.at + WindowSeconds < f.at
<1> USE CorrelatorAssumption
<1>1. f = Arrival(m) /\ f.alert = m /\ f.at = now'
    BY DEF EmitSingle, Arrival
<1>2. e.at \in Nat /\ now \in Nat /\ now' \in Nat /\ now <= now'
    BY DEF TypeOK, Entry
<1>3. CASE e \in windows[TenantOf[e.alert]] /\ TenantOf[e.alert] = TenantOf[m]
    <2>1. e.at + WindowSeconds >= now' => e \in WindowWith(m)
        BY <1>3, WindowEntries
    <2>2. Arrival(m) \in WindowWith(m)
        BY WindowEntries
    <2>3. ~ \E g, h \in WindowWith(m) : ServiceOf[g.alert] # ServiceOf[h.alert]
        BY ServiceThreshold DEF EmitSingle
    <2> QED
        BY <1>1, <1>2, <2>1, <2>2, <2>3
<1>4. CASE e.at + WindowSeconds < now
    BY <1>1, <1>2, <1>4
<1> QED
    BY <1>1, <1>3, <1>4 DEF WaitingOK

-----------------------------------------------------------------------------
(***************************************************************************)
(* Theorems                                                                *)
(***************************************************************************)

\* The conjuncts that say what the service does hold in every reachable state.
THEOREM InductiveInvariant == Spec => []IInv
<1>1. Init => IInv
    <2>1. ASSUME Init
          PROVE  ControlOK /\ OffsetsOK /\ ReaderOK /\ WindowsOK /\ WaitingOK /\ CascadesOK
        BY <2>1 DEF Init, ControlOK, OffsetsOK, ReaderOK, CommittedIsHandled, WindowsOK, EmptyWindows,
                    WaitingOK, CascadesOK, Cascades
    <2> QED
        BY <2>1, TypeInit DEF IInv
<1>2. IInv /\ [Next]_vars => IInv'
    BY TypeStep, ControlStep, OffsetsStep, ReaderStep, WindowsStep, WaitingStep, CascadesStep
    DEF IInv
<1> QED
    BY <1>1, <1>2, PTL DEF Spec

\* Every variable of the service keeps its shape; the retry counter in
\* particular never passes MaxRetries.
THEOREM TypeCorrectness == Spec => []TypeOK
<1>1. IInv => TypeOK
    BY DEF IInv
<1> QED
    BY <1>1, InductiveInvariant, PTL

\* The commit after _process_message passes over no alert that is neither in a
\* published incident nor in the dead-letter queue, but one whose publish and
\* dead letter have both failed.
THEOREM NoAlertPassedOver == Spec => []CommittedIsHandled
<1>1. IInv => CommittedIsHandled
    BY DEF IInv, OffsetsOK
<1> QED
    BY <1>1, InductiveInvariant, PTL

\* Every step of the service is a step of the abstract stage, or leaves its
\* offsets and the fates of its alerts alone.
LEMMA StepImplements ==
    ASSUME IInv, [Next]_vars
    PROVE  [AtLeastOnceStage!Next]_(AtLeastOnceStage!vars)
<1>1. published \subseteq published' /\ dlq \subseteq dlq'
    BY DEF Next, Loop, vars, envVars, processVars, historyVars, Receive, TakeMessage,
           SaveIncident, PublishIncident, PublishFails, SendToDlq, CommitOffset, CommitFails,
           Ends, CallInFlight, Restart, Rebalance
<1>2. Settled \subseteq Settled' /\ Settled' \in SUBSET AtLeastOnceStage!Message
    BY <1>1 DEF Settled, AtLeastOnceStage!Message, Message
<1>5. CASE discarded' # discarded
    <2>1. /\ \E m \in Message : discarded' = discarded \cup {m}
          /\ UNCHANGED <<committed, published, dlq>>
        BY <1>5, DiscardsOnly DEF IInv
    <2>2. Settled' = Settled
        BY <2>1 DEF Settled
    <2> QED
        BY <2>1, <2>2
        DEF AtLeastOnceStage!Next, AtLeastOnceStage!Abandon, AtLeastOnceStage!Message, Message
<1>3. CASE committed' = committed /\ discarded' = discarded
    BY <1>2, <1>3 DEF AtLeastOnceStage!Next, AtLeastOnceStage!Settle
<1>4. CASE committed' # committed
    <2>1. /\ running /\ pc = "commit" /\ committed' = position
          /\ UNCHANGED <<published, dlq, discarded>>
        BY <1>4, CommitsOnly
    <2>2. Settled' = Settled /\ discarded' = discarded
        BY <2>1 DEF Settled
    <2>3. committed' \in [Partition -> 1 .. LogLen + 1]
        BY <2>1 DEF IInv, TypeOK
    <2>4. \A p \in Partition : committed[p] <= committed'[p]
        BY <2>1 DEF IInv, ReaderOK
    <2>5. \A p \in Partition : \A k \in 1 .. position[p] - 1 :
            <<p, k>> \in Message /\ Handled(<<p, k>>)
        <3>1. \A p \in Partition : \A k \in 1 .. position[p] - 1 : <<p, k>> \in Message
            BY CorrelatorAssumption DEF IInv, TypeOK, Message
        <3>2. \A p \in Partition : \A k \in 1 .. position[p] - 1 : Handled(<<p, k>>)
            BY <2>1 DEF IInv, OffsetsOK
        <3> QED
            BY <3>1, <3>2
    <2>6. \A p \in Partition :
            AtLeastOnceStage!Before(p, committed'[p]) \subseteq Settled \cup discarded
        BY <2>1, <2>5 DEF AtLeastOnceStage!Before, Handled
    <2> QED
        BY <2>2, <2>3, <2>4, <2>6 DEF AtLeastOnceStage!Next, AtLeastOnceStage!Advance
<1> QED
    BY <1>3, <1>4, <1>5

\* The alert-correlator implements the abstract consuming stage: its offsets
\* only grow, and only over alerts that are settled for good or were discarded
\* by a double failure.
THEOREM CorrelatorImplementsAtLeastOnce == Spec => ImplementsAtLeastOnce
<1>1. Init => AtLeastOnceStage!Init
    BY DEF Init, AtLeastOnceStage!Init, Settled
<1>2. IInv /\ [Next]_vars => [AtLeastOnceStage!Next]_(AtLeastOnceStage!vars)
    BY StepImplements
<1> QED
    BY <1>1, <1>2, InductiveInvariant, PTL
    DEF Spec, ImplementsAtLeastOnce, AtLeastOnceStage!Spec

\* _emit_cascade groups alerts of one tenant, of two services at least, within
\* one window, and takes the highest of their severities.
THEOREM CascadesAreGenuine == Spec => []CascadeIsGenuine
<1>1. IInv => CascadeIsGenuine
    <2>1. ASSUME IInv, NEW i \in published, i.is_cascade
          PROVE  Genuine(i)
        <3>1. i \in Cascades
            BY <2>1, CorrelatorAssumption DEF IInv, TypeOK, Cascades
        <3> QED
            BY <2>1, <3>1 DEF IInv, CascadesOK
    <2> QED
        BY <2>1 DEF CascadeIsGenuine, Genuine
<1> QED
    BY <1>1, InductiveInvariant, PTL

\* _emit_cascade uses its window up: no arrival is published in two cascades.
THEOREM CascadesAreApart == Spec => []OneCascadePerArrival
<1>1. IInv => OneCascadePerArrival
    <2>1. ASSUME IInv, NEW i \in published, i.is_cascade
          PROVE  i \in Cascades
        BY <2>1, CorrelatorAssumption DEF IInv, TypeOK, Cascades
    <2> QED
        BY <2>1 DEF IInv, CascadesOK, OneCascadePerArrival
<1> QED
    BY <1>1, InductiveInvariant, PTL

\* add_alert reports an alert on its own only if no alert of another service
\* of its tenant, still in no cascade, arrived within the window before it.
THEOREM CascadesAreComplete == Spec => NoCascadeMissed
<1> DEFINE Complete ==
        incident = NoIncident /\ incident' # NoIncident /\ ~ incident'.is_cascade =>
            \A e \in uncascaded : \A f \in incident'.alerts :
                \/ TenantOf[e.alert] # TenantOf[f.alert]
                \/ ServiceOf[e.alert] = ServiceOf[f.alert]
                \/ e.at + WindowSeconds < f.at
<1>1. IInv /\ [Next]_vars => [Complete]_vars
    <2> SUFFICES ASSUME IInv, [Next]_vars, incident = NoIncident, incident' # NoIncident,
                        ~ incident'.is_cascade
                 PROVE  Complete
        BY DEF Complete
    <2>1. PICK p \in Partition : Receive(p)
        BY DEF IInv, Next, Loop, vars, envVars, processVars, historyVars, SaveIncident,
               PublishIncident, PublishFails, SendToDlq, CommitOffset, CommitFails, Ends,
               Restart, Rebalance
    <2>2. hand' \in Message /\ now' \in now .. MaxClock
        BY <2>1, TakeMessageTyped DEF Receive, IInv
    <2>3. PICK m \in Message : m = hand'
        BY <2>2
    <2>4. EmitSingle(m)
        BY <2>1, <2>3 DEF Receive, AddAlert, EmitCascade
    <2> QED
        BY <2>2, <2>4, SingleMissesNothing DEF IInv
<1> QED
    BY <1>1, InductiveInvariant, PTL DEF Spec, NoCascadeMissed

=============================================================================
