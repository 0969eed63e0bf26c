----------------------- MODULE IncidentStages_proofs -----------------------
(***************************************************************************)
(* Proofs about IncidentStages, for every value of its constants: each of  *)
(* the three services is type correct, commits no incident that is neither *)
(* settled nor lost, and implements the abstract stage AtLeastOnce.        *)
(***************************************************************************)
EXTENDS IncidentStages, TLAPS

(***************************************************************************)
(* The inductive invariant                                                 *)
(***************************************************************************)

\* What the task holds at each await: the retries count from zero, and only
\* what is to be published has a topic.
ControlOK ==
    /\ pc \in {"fetch", "dead"} => hand = NoMessage /\ attempt = 0
    /\ pc \notin {"fetch", "dead"} => hand \in Message
    /\ pc \in {"logs", "compress", "stats", "lookup", "tenant", "spend"} => attempt = 0
    /\ pc = "publish" => topic \in Topic /\ attempt < MaxRetries

\* Behind a commit everything is handled.  Behind the position of a task that
\* may still commit everything is handled but the message in hand, and that
\* one is handled before the commit.  The group is never ahead of its reader.
OffsetsOK ==
    /\ CommittedIsHandled
    /\ running /\ pc # "dead" =>
        \A p \in Partition : \A k \in 1 .. position[p] - 1 :
            <<p, k>> \in Handled \/ hand = <<p, k>>
    /\ pc = "commit" => hand \in Handled
    /\ \A p \in Partition : committed[p] <= position[p]

IInv == TypeOK /\ ControlOK /\ OffsetsOK

-----------------------------------------------------------------------------
(***************************************************************************)
(* Types and control                                                       *)
(***************************************************************************)

LEMMA TypeInit == Init => TypeOK
BY StagesAssumption DEF Init, TypeOK

\* The steps of the work move the control and choose a topic.
LEMMA WorkStep ==
    ASSUME TypeOK, ControlOK, Work
    PROVE  /\ TypeOK'
           /\ ControlOK'
<1> USE StagesAssumption
<1>1. ASSUME NEW a \in {"compress", "stats", "spend", "dlq"}, GoTo(a),
             pc \in {"logs", "compress", "tenant", "spend"}
      PROVE  TypeOK' /\ ControlOK'
    BY <1>1 DEF GoTo, TypeOK, ControlOK, brokerVars, localVars, historyVars
<1>2. ASSUME NEW t \in Topic, GoToPublish(t), pc \in {"stats", "lookup", "spend"}
      PROVE  TypeOK' /\ ControlOK'
    BY <1>2 DEF GoToPublish, TypeOK, ControlOK, brokerVars, historyVars
<1>3. CASE FetchLogs \/ FetchNoLogs \/ Compress \/ FindTenant \/ RouteFails
    BY <1>1, <1>3 DEF FetchLogs, FetchNoLogs, Compress, FindTenant, RouteFails, At
<1>4. CASE UpdateStats \/ LookupHits \/ LookupMisses \/ RouteToModel
    BY <1>2, <1>4 DEF UpdateStats, LookupHits, LookupMisses, RouteToModel, At, Topic
<1>5. CASE CompressRaises
    BY <1>5 DEF CompressRaises, Die, At, TypeOK, ControlOK, brokerVars, historyVars
<1>6. CASE DiscardLow
    BY <1>6 DEF DiscardLow, At, TypeOK, ControlOK, brokerVars, localVars
<1> QED
    BY <1>3, <1>4, <1>5, <1>6 DEF Work

\* The four successful publishes are one step, to the topic that was chosen.
LEMMA PublishStep ==
    ASSUME PublishEnriched \/ HandleHit \/ HandleMiss \/ PublishReady
    PROVE  \E t \in Topic : PublishTo(t)
BY DEF PublishEnriched, HandleHit, HandleMiss, PublishReady, Topic

LEMMA OutcomeStep ==
    ASSUME TypeOK, ControlOK, Outcome
    PROVE  /\ TypeOK'
           /\ ControlOK'
<1> USE StagesAssumption
<1>1. CASE PublishEnriched \/ HandleHit \/ HandleMiss \/ PublishReady
    <2>1. PICK t \in Topic : PublishTo(t)
        BY <1>1, PublishStep
    <2> QED
        BY <2>1 DEF PublishTo, TypeOK, ControlOK, localVars, historyVars
<1>2. CASE PublishFails
    BY <1>2 DEF PublishFails, CountAttempt, TypeOK, ControlOK, historyVars
<1>3. CASE SendToDlq
    BY <1>3 DEF SendToDlq, TypeOK, ControlOK, localVars
<1>4. CASE CommitOffset
    BY <1>4 DEF CommitOffset, TypeOK, ControlOK, historyVars
<1>5. CASE CommitFails
    BY <1>5 DEF CommitFails, Die, TypeOK, ControlOK, historyVars
<1> QED
    BY <1>1, <1>2, <1>3, <1>4, <1>5 DEF Outcome

\* Whatever was in flight when the process ended keeps the broker's types.
LEMMA CallInFlightTyped ==
    ASSUME TypeOK, ControlOK, CallInFlight
    PROVE  /\ committed' \in [Partition -> 1 .. LogLen + 1]
           /\ published' \subseteq Message \X Topic
           /\ dlq' \subseteq Message
BY DEF TypeOK, ControlOK, CallInFlight, brokerVars

LEMMA TypeAndControlStep ==
    ASSUME TypeOK, ControlOK, [Next]_vars
    PROVE  /\ TypeOK'
           /\ ControlOK'
<1> USE StagesAssumption
<1>1. ASSUME NEW p \in Partition, Receive(p)
      PROVE  TypeOK' /\ ControlOK'
    <2>1. hand' \in Message
        BY <1>1 DEF Receive, TypeOK, Message
    <2>2. position' \in [Partition -> 1 .. LogLen + 1]
        BY <1>1 DEF Receive, TypeOK
    <2>3. pc' \in {"dlq", "logs", "lookup", "tenant"}
        BY <1>1 DEF Receive, FirstAwait, TypeOK, Service
    <2>4. attempt' = 0
        BY <1>1 DEF Receive, ControlOK
    <2> QED
        BY <1>1, <2>1, <2>2, <2>3, <2>4 DEF Receive, TypeOK, ControlOK, brokerVars, historyVars
<1>2. CASE Work
    BY <1>2, WorkStep
<1>3. CASE Outcome
    BY <1>3, OutcomeStep
<1>4. CASE Ends
    <2>1. /\ committed' \in [Partition -> 1 .. LogLen + 1]
          /\ published' \subseteq Message \X Topic
          /\ dlq' \subseteq Message
        BY <1>4, CallInFlightTyped DEF Ends
    <2>2. running' \in BOOLEAN
        BY <1>4, Zenon DEF Ends
    <2>3. /\ pc' = "fetch" /\ hand' = NoMessage /\ topic' = NoTopic /\ attempt' = 0
          /\ UNCHANGED <<service, position, skipped, lost, rewinds>>
        BY <1>4 DEF Ends, historyVars
    <2> QED
        BY <2>1, <2>2, <2>3 DEF TypeOK, ControlOK
<1>5. CASE Restart
    BY <1>5 DEF Restart, TypeOK, ControlOK, brokerVars, localVars
<1>6. CASE Rebalance
    BY <1>6 DEF Rebalance, TypeOK, ControlOK, brokerVars, localVars
<1>7. CASE UNCHANGED vars
    BY <1>7 DEF vars, brokerVars, localVars, historyVars, TypeOK, ControlOK
<1> QED
    BY <1>1, <1>2, <1>3, <1>4, <1>5, <1>6, <1>7 DEF Next, Loop

-----------------------------------------------------------------------------
(***************************************************************************)
(* Offsets and the fate of the incidents                                   *)
(***************************************************************************)

\* No fate is undone.
LEMMA HandledKept ==
    ASSUME [Next]_vars
    PROVE  Handled \subseteq Handled' /\ Settled \subseteq Settled'
<1>1. /\ published \subseteq published'
      /\ dlq \subseteq dlq'
      /\ skipped \subseteq skipped'
      /\ lost \subseteq lost'
    <2> USE DEF brokerVars, localVars, historyVars
    <2>1. CASE \E p \in Partition : Receive(p)
        BY <2>1 DEF Receive
    <2>2. CASE Work
        BY <2>2 DEF Work, FetchLogs, FetchNoLogs, Compress, CompressRaises, UpdateStats,
                    LookupHits, LookupMisses, FindTenant, RouteFails, RouteToModel,
                    DiscardLow, GoTo, GoToPublish
    <2>3. CASE Outcome
        BY <2>3 DEF Outcome, PublishEnriched, HandleHit, HandleMiss, PublishReady, PublishTo,
                    PublishFails, SendToDlq, CommitOffset, CommitFails
    <2>4. CASE Ends \/ Restart \/ Rebalance
        BY <2>4 DEF Ends, CallInFlight, Restart, Rebalance
    <2>5. CASE UNCHANGED vars
        BY <2>5 DEF vars
    <2> QED
        BY <2>1, <2>2, <2>3, <2>4, <2>5 DEF Next, Loop
<1> QED
    BY <1>1 DEF Handled, Settled

\* Only a failed dead letter loses an incident: the one in hand, and it
\* settles none.
LEMMA LosesOnly ==
    ASSUME TypeOK, ControlOK, [Next]_vars, lost' # lost
    PROVE  /\ \E m \in Message : lost' = lost \cup {m}
           /\ UNCHANGED <<committed, published, dlq, skipped>>
<1> USE DEF brokerVars, localVars, historyVars
<1>1. SendToDlq
    BY DEF Next, Loop, Work, Outcome, Receive, FetchLogs, FetchNoLogs, Compress, CompressRaises,
           UpdateStats, LookupHits, LookupMisses, FindTenant, RouteFails, RouteToModel,
           DiscardLow, GoTo, GoToPublish, PublishEnriched, HandleHit, HandleMiss, PublishReady,
           PublishTo, PublishFails, CommitOffset, CommitFails, Ends, Restart, Rebalance, vars
<1>2. hand \in Message
    BY <1>1 DEF SendToDlq, ControlOK
<1> QED
    BY <1>1, <1>2 DEF SendToDlq

\* Offsets are committed by a commit only: to the position, and no fate changes.
LEMMA CommitsOnly ==
    ASSUME [Next]_vars, committed' # committed
    PROVE  /\ running
           /\ pc = "commit"
           /\ committed' = position
           /\ Settled' = Settled /\ lost' = lost
<1> USE DEF brokerVars, localVars, historyVars
<1>1. CASE \E p \in Partition : Receive(p)
    BY <1>1 DEF Receive
<1>2. CASE Work
    BY <1>2 DEF Work, FetchLogs, FetchNoLogs, Compress, CompressRaises, UpdateStats,
                LookupHits, LookupMisses, FindTenant, RouteFails, RouteToModel,
                DiscardLow, GoTo, GoToPublish
<1>3. CASE Outcome
    BY <1>3 DEF Outcome, PublishEnriched, HandleHit, HandleMiss, PublishReady, PublishTo,
                PublishFails, SendToDlq, CommitOffset, CommitFails, Settled
<1>4. CASE Ends
    BY <1>4 DEF Ends, CallInFlight, Settled
<1>5. CASE Restart \/ Rebalance
    BY <1>5 DEF Restart, Rebalance
<1>6. CASE UNCHANGED vars
    BY <1>6 DEF vars
<1> QED
    BY <1>1, <1>2, <1>3, <1>4, <1>5, <1>6 DEF Next, Loop

\* What OffsetsOK says of a task that may still commit.
ReadIsHandled ==
    \A p \in Partition : \A k \in 1 .. position[p] - 1 :
        <<p, k>> \in Handled \/ hand = <<p, k>>

\* Everything a commit covers is handled.
LEMMA CommitCovers ==
    ASSUME OffsetsOK, running, pc = "commit"
    PROVE  \A p \in Partition : \A k \in 1 .. position[p] - 1 : <<p, k>> \in Handled
BY DEF OffsetsOK

\* Position, hand and control of a step that reads nothing and rewinds nothing.
LEMMA QuietStep ==
    ASSUME TypeOK, ControlOK, Work \/ Outcome
    PROVE  /\ UNCHANGED <<running, position>>
           /\ running
           /\ pc # "dead"
           /\ pc' # "dead" /\ pc # "commit" => hand' = hand
           /\ pc' = "commit" => hand' \in Handled'
           /\ pc = "commit" => committed' \in {committed, position}
<1> USE StagesAssumption DEF brokerVars, localVars, historyVars
<1>1. CASE Work
    BY <1>1 DEF Work, FetchLogs, FetchNoLogs, Compress, CompressRaises, UpdateStats,
                LookupHits, LookupMisses, FindTenant, RouteFails, RouteToModel,
                DiscardLow, GoTo, GoToPublish, At, Die, Handled, Settled
<1>2. CASE PublishEnriched \/ HandleHit \/ HandleMiss \/ PublishReady
    <2>1. PICK t \in Topic : PublishTo(t)
        BY <1>2, PublishStep
    <2>2. hand' \in Message /\ <<hand', t>> \in published'
        BY <2>1 DEF PublishTo, ControlOK
    <2> QED
        BY <2>1, <2>2 DEF PublishTo, Handled, Settled
<1>3. CASE PublishFails
    BY <1>3 DEF PublishFails, CountAttempt
<1>4. CASE SendToDlq
    BY <1>4 DEF SendToDlq, Handled, Settled
<1>5. CASE CommitOffset \/ CommitFails
    BY <1>5 DEF CommitOffset, CommitFails, Die
<1> QED
    BY <1>1, <1>2, <1>3, <1>4, <1>5 DEF Outcome

LEMMA OffsetsStep ==
    ASSUME TypeOK, ControlOK, OffsetsOK, [Next]_vars
    PROVE  OffsetsOK'
<1> USE DEF brokerVars, localVars, historyVars
<1>1. Handled \subseteq Handled'
    BY HandledKept
<1>2. CommittedIsHandled'
    <2>1. CASE committed' = committed
        BY <1>1, <2>1 DEF OffsetsOK, CommittedIsHandled
    <2>2. CASE committed' # committed
        BY <2>2, CommitsOnly, CommitCovers DEF CommittedIsHandled, Handled
    <2> QED
        BY <2>1, <2>2
<1>3. ASSUME NEW p \in Partition, Receive(p)
      PROVE  OffsetsOK'
    <2>1. position[p] \in Nat /\ position'[p] = position[p] + 1
        BY <1>3 DEF Receive, TypeOK
    <2>2. \A q \in Partition \ {p} : position'[q] = position[q]
        BY <1>3 DEF Receive, TypeOK
    <2>3. hand = NoMessage /\ hand' = <<p, position[p]>>
        BY <1>3 DEF Receive, ControlOK
    <2>4. \A q \in Partition : \A k \in 1 .. position[q] - 1 : <<q, k>> \in Handled
        <3> SUFFICES ASSUME NEW q \in Partition, NEW k \in 1 .. position[q] - 1
                     PROVE  <<q, k>> \in Handled
            OBVIOUS
        <3>1. k \in 1 .. LogLen
            BY StagesAssumption DEF TypeOK
        <3>2. <<q, k>> # NoMessage
            BY <3>1, StagesAssumption DEF Message
        <3>3. running /\ pc = "fetch"
            BY <1>3 DEF Receive
        <3> QED
            BY <2>3, <3>2, <3>3 DEF OffsetsOK
    <2>5. ReadIsHandled'
        <3> SUFFICES ASSUME NEW q \in Partition, NEW k \in 1 .. position'[q] - 1
                     PROVE  <<q, k>> \in Handled' \/ hand' = <<q, k>>
            BY DEF ReadIsHandled
        <3>1. CASE q # p
            BY <1>1, <2>2, <2>4, <3>1
        <3>2. CASE q = p
            <4>1. k \in 1 .. position[p] - 1 \/ k = position[p]
                BY <2>1, <3>2
            <4> QED
                BY <1>1, <2>3, <2>4, <3>2, <4>1
        <3> QED
            BY <3>1, <3>2
    <2>6. pc' # "commit"
        BY <1>3 DEF Receive, FirstAwait, TypeOK, Service
    <2>7. \A q \in Partition : committed'[q] <= position'[q]
        <3>1. committed' = committed
            BY <1>3 DEF Receive
        <3>2. \A q \in Partition : committed[q] \in Nat /\ position[q] \in Nat
            BY DEF TypeOK
        <3> QED
            BY <2>1, <2>2, <3>1, <3>2 DEF OffsetsOK
    <2> QED
        BY <1>2, <2>5, <2>6, <2>7 DEF OffsetsOK, ReadIsHandled
<1>4. CASE Work \/ Outcome
    <2>1. /\ UNCHANGED <<running, position>>
          /\ running
          /\ pc # "dead"
          /\ pc' # "dead" /\ pc # "commit" => hand' = hand
          /\ pc' = "commit" => hand' \in Handled'
          /\ pc = "commit" => committed' \in {committed, position}
        BY <1>4, QuietStep
    <2>2. pc' # "dead" => ReadIsHandled'
        <3>1. CASE pc = "commit"
            BY <1>1, <2>1, <3>1, CommitCovers DEF ReadIsHandled
        <3>2. CASE pc # "commit"
            BY <1>1, <2>1, <3>2 DEF OffsetsOK, ReadIsHandled
        <3> QED
            BY <3>1, <3>2
    <2>3. \A q \in Partition : committed'[q] <= position'[q]
        <3>1. \A q \in Partition : position[q] \in Nat
            BY DEF TypeOK
        <3>2. committed' = committed \/ committed' = position
            BY <2>1, CommitsOnly
        <3> QED
            BY <2>1, <3>1, <3>2 DEF OffsetsOK
    <2> QED
        BY <1>2, <2>1, <2>2, <2>3 DEF OffsetsOK, ReadIsHandled
<1>5. CASE Ends
    <2>1. ~ running' /\ pc' = "fetch" /\ position' = position
        BY <1>5, Zenon DEF Ends
    <2>2. \A q \in Partition : committed'[q] <= position'[q]
        <3>1. \A q \in Partition : position[q] \in Nat
            BY DEF TypeOK
        <3>2. committed' = committed \/ committed' = position
            BY CommitsOnly
        <3> QED
            BY <2>1, <3>1, <3>2 DEF OffsetsOK
    <2> QED
        BY <1>2, <2>1, <2>2 DEF OffsetsOK
<1>6. CASE Restart \/ Rebalance
    <2>1. /\ position' = committed /\ committed' = committed
          /\ UNCHANGED <<pc, hand>> /\ Handled' = Handled
        BY <1>6 DEF Restart, Rebalance, Handled, Settled
    <2>2. \A q \in Partition : committed[q] \in Nat
        BY DEF TypeOK
    <2> QED
        BY <1>2, <2>1, <2>2 DEF OffsetsOK, CommittedIsHandled
<1>7. CASE UNCHANGED vars
    BY <1>7 DEF vars, OffsetsOK, CommittedIsHandled, Handled, Settled
<1> QED
    BY <1>3, <1>4, <1>5, <1>6, <1>7 DEF Next, Loop

-----------------------------------------------------------------------------
(***************************************************************************)
(* Theorems                                                                *)
(***************************************************************************)

\* The conjuncts that say what a service does hold in every reachable state.
THEOREM InductiveInvariant == Spec => []IInv
<1>1. Init => IInv
    <2>1. ASSUME Init
          PROVE  ControlOK /\ OffsetsOK
        BY <2>1 DEF Init, ControlOK, OffsetsOK, CommittedIsHandled
    <2> QED
        BY <2>1, TypeInit DEF IInv
<1>2. IInv /\ [Next]_vars => IInv'
    BY TypeAndControlStep, OffsetsStep DEF IInv
<1> QED
    BY <1>1, <1>2, PTL DEF Spec

\* Every variable of a service keeps its shape; the retry counter in
\* particular never passes MaxRetries.
THEOREM TypeCorrectness == Spec => []TypeOK
<1>1. IInv => TypeOK
    BY DEF IInv
<1> QED
    BY <1>1, InductiveInvariant, PTL

\* The commit that ends _process_message passes over no incident that is not
\* published, dead-lettered, skipped by low_skip or lost to a double failure.
THEOREM NoIncidentPassedOver == Spec => []CommittedIsHandled
<1>1. IInv => CommittedIsHandled
    BY DEF IInv, OffsetsOK
<1> QED
    BY <1>1, InductiveInvariant, PTL

\* Every step of a service is a step of the abstract stage, or leaves its
\* offsets and the fates of its incidents alone.
LEMMA StepImplements ==
    ASSUME IInv, IInv', [Next]_vars
    PROVE  [AtLeastOnceStage!Next]_(AtLeastOnceStage!vars)
<1>3. CASE lost' # lost
    <2>1. /\ \E m \in Message : lost' = lost \cup {m}
          /\ UNCHANGED <<committed, published, dlq, skipped>>
        BY <1>3, LosesOnly DEF IInv
    <2>2. Settled' = Settled
        BY <2>1 DEF Settled
    <2> QED
        BY <2>1, <2>2
        DEF AtLeastOnceStage!Next, AtLeastOnceStage!Abandon, AtLeastOnceStage!Message, Message
<1>1. CASE committed' = committed /\ lost' = lost
    <2>1. Settled \subseteq Settled'
        BY HandledKept
    <2>2. Settled' \in SUBSET AtLeastOnceStage!Message
        BY DEF IInv, TypeOK, Settled, AtLeastOnceStage!Message, Message
    <2> QED
        BY <1>1, <2>1, <2>2 DEF AtLeastOnceStage!Next, AtLeastOnceStage!Settle
<1>2. CASE committed' # committed
    <2>1. /\ running /\ pc = "commit" /\ committed' = position
          /\ Settled' = Settled /\ lost' = lost
        BY <1>2, CommitsOnly
    <2>2. committed' \in [Partition -> 1 .. LogLen + 1]
        BY DEF IInv, TypeOK
    <2>3. \A p \in Partition : committed[p] <= committed'[p]
        BY <2>1 DEF IInv, OffsetsOK
    <2>4. \A p \in Partition :
            AtLeastOnceStage!Before(p, committed'[p]) \subseteq Settled \cup lost
        <3>1. \A p \in Partition : \A k \in 1 .. position[p] - 1 : <<p, k>> \in Handled
            BY <2>1, CommitCovers DEF IInv
        <3> QED
            BY <2>1, <3>1 DEF AtLeastOnceStage!Before, Handled
    <2> QED
        BY <2>1, <2>2, <2>3, <2>4 DEF AtLeastOnceStage!Next, AtLeastOnceStage!Advance
<1> QED
    BY <1>1, <1>2, <1>3

\* context-compressor, semantic-cache and model-router each implement the
\* abstract consuming stage: their offsets only grow, and only over incidents
\* that are settled for good or were lost to a double failure.
THEOREM StagesImplementAtLeastOnce == Spec => ImplementsAtLeastOnce
<1>1. Init => AtLeastOnceStage!Init
    BY DEF Init, AtLeastOnceStage!Init, Settled
<1>2. IInv /\ IInv' /\ [Next]_vars => [AtLeastOnceStage!Next]_(AtLeastOnceStage!vars)
    BY StepImplements
<1> QED
    BY <1>1, <1>2, InductiveInvariant, PTL DEF Spec, ImplementsAtLeastOnce, AtLeastOnceStage!Spec

=============================================================================
