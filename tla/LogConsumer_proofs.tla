------------------------- MODULE LogConsumer_proofs -------------------------
(***************************************************************************)
(* Proofs about LogConsumer, for every value of its constants: it is type  *)
(* correct, downstream never sees an unstored log, a clean exit leaves     *)
(* nothing in memory, losses are the admitted ones, and no record behind   *)
(* the committed offset disappears; without a rewind no record is in two   *)
(* places, no delivery makes two rows, and memory holds two batches.       *)
(***************************************************************************)
EXTENDS LogConsumer, TLAPS, FiniteSetTheorems, WellFoundedInduction

(***************************************************************************)
(* The inductive invariant                                                 *)
(***************************************************************************)

\* The consumer loop is between a fetch and its commit.
Busy == pc["consumer"] \notin {"fetch", "done"}

\* What is in hand, in a batch and in attempt at each control point.
ControlOK ==
    /\ Busy => hand \in Message
    /\ ~ Busy => hand = NoMessage
    /\ \A g \in Goroutine : pc[g] \notin {"insert", "publish", "dlq"} => batch[g] = <<>>
    /\ \A g \in Goroutine : pc[g] = "insert" => attempt[g] < MaxRetries
    /\ \A g \in Goroutine : pc[g] = "dlq" => attempt[g] = MaxRetries
    /\ \A g \in Goroutine : pc[g] = "publish" => Range(batch[g]) \subseteq Stored

\* The order of the shutdown: the loop ends, stopCh closes, the last flush
\* empties the slice, the timer ends, main returns.
ShutdownOK ==
    /\ life \in {"stopping", "exited"} => pc["consumer"] = "done"
    /\ final => life \in {"stopping", "exited"}
    /\ final /\ pc["timer"] \in {"insert", "publish", "dlq", "done"} => pending = <<>>
    /\ pc["timer"] = "done" => final
    /\ life = "exited" => pc["timer"] = "done"
    /\ life = "crashed" => pending = <<>> /\ batch = NoBatches

\* The message is accounted for.
Safe(m) == m \in Malformed \/ Represented(m)

\* Every message behind a commit, behind the reader of a live process, and
\* before the message in hand is accounted for; so is the one in hand once it
\* was added.
OffsetsOK ==
    /\ CommittedIsRepresented
    /\ Up => \A p \in Partition : \A i \in 1 .. position[p] - 1 :
                Safe(<<p, i>>) \/ (pc["consumer"] = "add" /\ hand = <<p, i>>)
    /\ Busy => \A i \in 1 .. hand[2] - 1 : Safe(<<hand[1], i>>)
    /\ Busy /\ pc["consumer"] # "add" => Safe(hand)

IInv == TypeOK /\ ControlOK /\ ShutdownOK /\ EnrichedIsStored /\ OffsetsOK

\* While the consumer flushes nobody adds to the slice; it is full only when
\* the consumer is about to flush.
MemoryOK ==
    /\ Len(pending) <= BatchSize
    /\ pc["consumer"] # "swap" => Len(pending) < BatchSize
    /\ pc["consumer"] \in {"insert", "publish", "dlq"} => pending = << >>
    /\ \A g \in Goroutine : Cardinality(DOMAIN batch[g]) <= BatchSize

\* The delivery of m the consumer loop is about to add, and the one to come.
InHand(m) == IF pc["consumer"] = "add" /\ hand = m THEN 1 ELSE 0
ToCome(m) == IF position[m[1]] <= m[2] THEN 1 ELSE 0

\* Copies of m in the batch of g that an insert may still turn into rows.
Uninserted(g, m) == IF pc[g] = "insert" THEN Copies(batch[g], m) ELSE 0

\* Every copy in memory, in hand or to come is a delivery of its own.
Owners(m) ==
    Copies(pending, m) + Copies(batch["consumer"], m) + Copies(batch["timer"], m)
        + InHand(m) + ToCome(m)

\* So is every row, and every copy that may become one.
Deliveries(m) ==
    rows[m] + Copies(pending, m) + Uninserted("consumer", m) + Uninserted("timer", m)
        + InHand(m) + ToCome(m)

OwnersOK == \A m \in Message : Owners(m) <= 1 + rewinds
DeliveriesOK == ~ ambiguous => \A m \in Message : Deliveries(m) <= 1 + rewinds

CountInv == MemoryOK /\ OwnersOK /\ DeliveriesOK

-----------------------------------------------------------------------------
(***************************************************************************)
(* Deduplication                                                           *)
(***************************************************************************)

\* A nonempty set of naturals has a least element.
LEMMA LeastNatural ==
    ASSUME NEW T \in SUBSET Nat, T # {}
    PROVE  \E k \in T : \A j \in T : k <= j
<1> DEFINE R == OpToRel(<, Nat)
<1>1. IsWellFoundedOn(R, Nat)
  BY NatLessThanWellFounded
<1>2. PICK k \in T : \A j \in T : <<j, k>> \notin R
  <2> HIDE DEF R
  <2> QED BY <1>1, WFMin
<1>3. \A j \in T : ~ (j < k)
  BY <1>2 DEF OpToRel
<1> QED BY <1>3

\* Being the same record for the deduplication is transitive.
LEMMA SameRecordTransitive ==
    ASSUME NEW l, NEW m, NEW n, SameRecord(l, m), SameRecord(m, n)
    PROVE  SameRecord(l, n)
BY DEF SameRecord

\* What deduplication keeps is a finite part of the slice.
LEMMA DeduplicatedType ==
    ASSUME NEW s \in Seq(Message)
    PROVE  /\ DOMAIN Deduplicated(s) \subseteq Nat
           /\ IsFiniteSet(DOMAIN Deduplicated(s))
           /\ Range(Deduplicated(s)) \subseteq Range(s)
           /\ Range(s) \subseteq Message
<1>1. Kept(s) \subseteq 1 .. Len(s)
  BY DEF Kept
<1>2. IsFiniteSet(1 .. Len(s))
  BY FS_Interval
<1>3. IsFiniteSet(Kept(s))
  BY <1>1, <1>2, FS_Subset
<1>4. DOMAIN Deduplicated(s) = Kept(s)
  BY DEF Deduplicated
<1>5. Range(Deduplicated(s)) \subseteq Range(s)
  BY <1>1 DEF Deduplicated, Range
<1>6. Range(s) \subseteq Message
  BY DEF Range
<1> QED BY <1>1, <1>3, <1>4, <1>5, <1>6

\* Every record of a slice has a representative that deduplication keeps.
LEMMA DeduplicatedCovers ==
    ASSUME NEW s \in Seq(Message), NEW m \in Range(s)
    PROVE  \E n \in Range(Deduplicated(s)) : SameRecord(m, n)
<1>1. PICK i \in DOMAIN s : s[i] = m
  BY DEF Range
<1>2. CASE TraceOf[m] = NoTrace
  <2>1. i \in Kept(s)
    BY <1>1, <1>2 DEF Kept
  <2> QED BY <1>1, <2>1 DEF Deduplicated, Range, SameRecord
<1>3. CASE TraceOf[m] # NoTrace
  <2> DEFINE T == {j \in DOMAIN s : TraceOf[s[j]] = TraceOf[m]}
  <2>1. T \in SUBSET Nat /\ T # {}
    BY <1>1
  <2>2. PICK k \in T : \A j \in T : k <= j
    BY <2>1, LeastNatural
  <2>3. k \in Kept(s)
    BY <2>1, <2>2 DEF Kept
  <2>4. s[k] \in Range(Deduplicated(s))
    BY <2>3 DEF Deduplicated, Range
  <2>5. SameRecord(m, s[k])
    BY <1>3, <2>2 DEF SameRecord
  <2> QED BY <2>4, <2>5
<1> QED BY <1>2, <1>3

-----------------------------------------------------------------------------
(***************************************************************************)
(* The table after an insert                                               *)
(***************************************************************************)

\* An insert adds the rows of its batch and removes none.
LEMMA RowsWithProperties ==
    ASSUME TypeOK, NEW g \in Goroutine
    PROVE  /\ RowsWith(g) \in [Message -> Nat]
           /\ \A m \in Message : RowsWith(g)[m] >= rows[m]
           /\ \A m \in Range(batch[g]) : RowsWith(g)[m] > 0
<1> DEFINE At(m) == {i \in DOMAIN batch[g] : batch[g][i] = m}
<1>1. \A m \in Message : IsFiniteSet(At(m)) /\ Cardinality(At(m)) \in Nat
  <2> TAKE m \in Message
  <2>1. IsFiniteSet(DOMAIN batch[g]) /\ At(m) \subseteq DOMAIN batch[g]
    BY DEF TypeOK
  <2> HIDE DEF At
  <2> QED BY <2>1, FS_Subset, FS_CardinalityType
<1>2. \A m \in Range(batch[g]) : m \in Message /\ At(m) # {}
  BY DEF TypeOK, Range
<1> HIDE DEF At
<1>3. \A m \in Range(batch[g]) : Cardinality(At(m)) > 0
  BY <1>1, <1>2, FS_EmptySet
<1>4. \A m \in Message : RowsWith(g)[m] = rows[m] + Cardinality(At(m))
  BY DEF RowsWith, Copies, At
<1>5. rows \in [Message -> Nat] /\ RowsWith(g) = [m \in Message |-> RowsWith(g)[m]]
  BY DEF TypeOK, RowsWith
<1> QED BY <1>1, <1>2, <1>3, <1>4, <1>5

-----------------------------------------------------------------------------
(***************************************************************************)
(* The inductive invariant holds initially                                 *)
(***************************************************************************)

\* The memory of a process that holds nothing is well typed.
LEMMA BlankMemoryType ==
    /\ [g \in Goroutine |-> IF g = "consumer" THEN "fetch" ELSE "wait"]
            \in [Goroutine -> ConsumerPC \cup TimerPC]
    /\ DOMAIN NoBatches = Goroutine
    /\ \A g \in Goroutine : /\ NoBatches[g] = << >>
                            /\ DOMAIN NoBatches[g] \subseteq Nat
                            /\ IsFiniteSet(DOMAIN NoBatches[g])
                            /\ Range(NoBatches[g]) \subseteq Message
    /\ [g \in Goroutine |-> 0] \in [Goroutine -> 0 .. MaxRetries]
    /\ << >> \in Seq(Message)
<1>1. DOMAIN << >> = {} /\ Range(<< >>) = {} /\ IsFiniteSet({})
  BY FS_EmptySet DEF Range
<1>2. /\ DOMAIN NoBatches = Goroutine
      /\ \A g \in Goroutine : NoBatches[g] = << >>
  BY DEF NoBatches
<1>3. [g \in Goroutine |-> 0] \in [Goroutine -> 0 .. MaxRetries]
  BY ConstantsAssumption
<1>4. [g \in Goroutine |-> IF g = "consumer" THEN "fetch" ELSE "wait"]
            \in [Goroutine -> ConsumerPC \cup TimerPC]
  BY DEF ConsumerPC, TimerPC
<1> QED BY <1>1, <1>2, <1>3, <1>4

LEMMA InitImpliesIInv == Init => IInv
<1> SUFFICES ASSUME Init PROVE IInv
  OBVIOUS
<1> USE ConstantsAssumption
<1>2. TypeOK
  <2>1. /\ committed \in [Partition -> 1 .. LogLen + 1]
        /\ position \in [Partition -> 1 .. LogLen + 1]
        /\ rows \in [Message -> Nat]
    BY DEF Init
  <2>2. /\ pc["consumer"] \in ConsumerPC
        /\ pc["timer"] \in TimerPC
    BY DEF Init, Goroutine, ConsumerPC, TimerPC
  <2>3. /\ pc \in [Goroutine -> ConsumerPC \cup TimerPC]
        /\ attempt \in [Goroutine -> 0 .. MaxRetries]
        /\ pending \in Seq(Message)
    BY BlankMemoryType DEF Init
  <2>4. batch = NoBatches
    BY DEF Init
  <2>5. /\ DOMAIN batch = Goroutine
        /\ \A g \in Goroutine : /\ DOMAIN batch[g] \subseteq Nat
                                /\ IsFiniteSet(DOMAIN batch[g])
                                /\ Range(batch[g]) \subseteq Message
    BY <2>4, BlankMemoryType
  <2>6. 0 \in 0 .. MaxRewinds
    OBVIOUS
  <2> QED BY <2>1, <2>2, <2>3, <2>5, <2>6 DEF Init, TypeOK
<1>3. ControlOK /\ ShutdownOK /\ EnrichedIsStored
  BY DEF Init, ControlOK, ShutdownOK, EnrichedIsStored, Busy, Goroutine, NoBatches
<1>4. OffsetsOK
  <2>1. \A p \in Partition : committed[p] = 1 /\ position[p] = 1
    BY DEF Init
  <2>2. 1 .. 1 - 1 = {}
    OBVIOUS
  <2>3. ~ Busy
    BY DEF Init, Busy, Goroutine
  <2> QED BY <2>1, <2>2, <2>3 DEF OffsetsOK, CommittedIsRepresented
<1> QED BY <1>2, <1>3, <1>4 DEF IInv

-----------------------------------------------------------------------------
(***************************************************************************)
(* Every step keeps the types                                              *)
(***************************************************************************)

LEMMA TypeStep == TypeOK /\ ControlOK /\ [Next]_vars => TypeOK'
<1> SUFFICES ASSUME TypeOK, ControlOK, [Next]_vars PROVE TypeOK'
  OBVIOUS
<1> USE ConstantsAssumption DEF Goroutine, ConsumerPC, TimerPC, envVars, historyVars
<1>0. DOMAIN << >> = {} /\ Range(<< >>) = {} /\ IsFiniteSet({}) /\ << >> \in Seq(Message)
  BY FS_EmptySet DEF Range
<1>b. \A g \in Goroutine : AfterFlush(g) \in (IF g = "consumer" THEN {"commit"} ELSE {"wait", "done"})
  BY DEF AfterFlush
<1>1. CASE \E p \in Partition : FetchMessage(p)
  BY <1>1 DEF TypeOK, FetchMessage, Message
<1>2. CASE FetchCancelled
  BY <1>2 DEF TypeOK, FetchCancelled
<1>3. CASE Add
  <2>1. hand \in Message
    BY <1>3 DEF Add, ControlOK, Busy
  <2> QED BY <1>3, <2>1 DEF TypeOK, Add
<1>4. CASE CommitMessage
  <2>1. hand \in Message
    BY <1>4 DEF CommitMessage, ControlOK, Busy
  <2>2. hand[1] \in Partition /\ hand[2] \in 1 .. LogLen
    BY <2>1 DEF Message
  <2>3. committed' \in [Partition -> 1 .. LogLen + 1]
    <3>1. hand[2] + 1 \in 1 .. LogLen + 1
      BY <2>2
    <3>2. [committed EXCEPT ![hand[1]] = hand[2] + 1] \in [Partition -> 1 .. LogLen + 1]
      BY <2>2, <3>1 DEF TypeOK
    <3> QED BY <1>4, <3>2 DEF TypeOK, CommitMessage
  <2> QED BY <1>4, <2>3 DEF TypeOK, CommitMessage
<1>5. CASE Tick
  BY <1>5 DEF TypeOK, Tick
<1>6. CASE StopReceived
  BY <1>6 DEF TypeOK, StopReceived
<1>7. ASSUME NEW g \in Goroutine, FlushNothing(g) PROVE TypeOK'
  BY <1>7, <1>b DEF TypeOK, FlushNothing
<1>8. ASSUME NEW g \in Goroutine, TakeBatch(g) PROVE TypeOK'
  <2>1. pending \in Seq(Message)
    BY DEF TypeOK
  <2>2. /\ DOMAIN batch'[g] \subseteq Nat
        /\ IsFiniteSet(DOMAIN batch'[g])
        /\ Range(batch'[g]) \subseteq Message
    BY <1>8, <2>1, DeduplicatedType DEF TakeBatch, TypeOK
  <2>3. \A h \in Goroutine : h # g => batch'[h] = batch[h]
    BY <1>8 DEF TakeBatch, TypeOK
  <2>4. DOMAIN batch' = Goroutine
    BY <1>8 DEF TakeBatch, TypeOK
  <2>5. \A h \in Goroutine : /\ DOMAIN batch'[h] \subseteq Nat
                              /\ IsFiniteSet(DOMAIN batch'[h])
                              /\ Range(batch'[h]) \subseteq Message
    BY <2>2, <2>3 DEF TypeOK
  <2> QED BY <1>0, <1>8, <2>4, <2>5 DEF TypeOK, TakeBatch
<1>9. ASSUME NEW g \in Goroutine, BulkInsert(g) PROVE TypeOK'
  BY <1>9, RowsWithProperties DEF TypeOK, BulkInsert
<1>10. ASSUME NEW g \in Goroutine, BulkInsertFails(g) PROVE TypeOK'
  <2>1. attempt[g] < MaxRetries
    BY <1>10 DEF BulkInsertFails, ControlOK
  <2> QED BY <1>10, <2>1 DEF TypeOK, BulkInsertFails, CountFailure
<1>11. ASSUME NEW g \in Goroutine, BulkInsertUnacknowledged(g) PROVE TypeOK'
  <2>1. attempt[g] < MaxRetries
    BY <1>11 DEF BulkInsertUnacknowledged, ControlOK
  <2>2. RowsWith(g) \in [Message -> Nat]
    BY RowsWithProperties
  <2> QED BY <1>11, <2>1, <2>2 DEF TypeOK, BulkInsertUnacknowledged, CountFailure
<1>12. ASSUME NEW g \in Goroutine, PublishToEnriched(g) PROVE TypeOK'
  <2>1. enriched' \subseteq Message
    BY <1>12 DEF PublishToEnriched, TypeOK
  <2> QED BY <1>0, <1>b, <1>12, <2>1 DEF TypeOK, PublishToEnriched, ReleaseBatch
<1>13. ASSUME NEW g \in Goroutine, SendToDLQ(g) PROVE TypeOK'
  <2>1. dlq' \subseteq Message /\ lost' \subseteq Message
    BY <1>13 DEF SendToDLQ, TypeOK
  <2> QED BY <1>0, <1>b, <1>13, <2>1 DEF TypeOK, SendToDLQ, ReleaseBatch
<1>14. CASE ShutdownSignal
  BY <1>14 DEF TypeOK, ShutdownSignal
<1>15. CASE Shutdown
  BY <1>15 DEF TypeOK, Shutdown, StopBatchWriter, Exit
<1>16. CASE Crash
  <2>1. lost' \subseteq Message
    BY <1>16 DEF Crash, TypeOK, Held, Range
  <2>2. /\ pc'["consumer"] \in ConsumerPC
        /\ pc'["timer"] \in TimerPC
    BY <1>16 DEF Crash, BlankProcess
  <2> QED BY <1>16, <2>1, <2>2, BlankMemoryType DEF TypeOK, Crash, BlankProcess
<1>17. CASE Restart
  <2>1. /\ pc'["consumer"] \in ConsumerPC
        /\ pc'["timer"] \in TimerPC
    BY <1>17 DEF Restart, BlankProcess
  <2>2. /\ pc' \in [Goroutine -> ConsumerPC \cup TimerPC]
        /\ attempt' \in [Goroutine -> 0 .. MaxRetries]
        /\ pending' \in Seq(Message)
    BY <1>17, BlankMemoryType DEF Restart, BlankProcess
  <2>3. batch' = NoBatches
    BY <1>17 DEF Restart, BlankProcess
  <2>4. rewinds' \in 0 .. MaxRewinds
    BY <1>17 DEF Restart, TypeOK
  <2> QED BY <1>17, <2>1, <2>2, <2>3, <2>4, BlankMemoryType DEF TypeOK, Restart, BlankProcess
<1>18. CASE Rebalance
  BY <1>18 DEF TypeOK, Rebalance
<1>19. CASE UNCHANGED vars
  BY <1>19 DEF TypeOK, vars, processVars
<1> QED
  BY <1>1, <1>2, <1>3, <1>4, <1>5, <1>6, <1>7, <1>8, <1>9, <1>10, <1>11, <1>12, <1>13, <1>14,
     <1>15, <1>16, <1>17, <1>18, <1>19 DEF Next, ConsumerLoop, Flush

-----------------------------------------------------------------------------
(***************************************************************************)
(* Every step keeps the control state                                      *)
(***************************************************************************)

\* Rows are never taken out of the table, and nothing leaves a topic.
LEMMA StoresGrow ==
    TypeOK /\ [Next]_vars =>
        /\ \A m \in Message : rows'[m] >= rows[m]
        /\ Stored \subseteq Stored'
        /\ dlq \subseteq dlq'
        /\ lost \subseteq lost'
<1> SUFFICES ASSUME TypeOK, [Next]_vars
    PROVE  /\ \A m \in Message : rows'[m] \in Nat /\ rows'[m] >= rows[m]
           /\ dlq \subseteq dlq'
           /\ lost \subseteq lost'
  BY DEF Stored, TypeOK
<1>0. \A m \in Message : rows[m] \in Nat
  BY DEF TypeOK
<1>1. CASE UNCHANGED <<rows, dlq, lost>>
  BY <1>0, <1>1
<1>2. ASSUME NEW g \in Goroutine, BulkInsert(g) \/ BulkInsertUnacknowledged(g)
      PROVE  rows' = RowsWith(g) /\ UNCHANGED <<dlq, lost>>
  BY <1>2 DEF BulkInsert, BulkInsertUnacknowledged, historyVars
<1>3. ASSUME NEW g \in Goroutine, SendToDLQ(g)
      PROVE  rows' = rows /\ dlq \subseteq dlq' /\ lost \subseteq lost'
  BY <1>3 DEF SendToDLQ
<1>4. CASE Crash
  BY <1>0, <1>4 DEF Crash, envVars
<1>5. \/ UNCHANGED <<rows, dlq, lost>>
      \/ \E g \in Goroutine : BulkInsert(g) \/ BulkInsertUnacknowledged(g) \/ SendToDLQ(g)
      \/ Crash
  BY DEF Next, ConsumerLoop, Flush, FetchMessage, FetchCancelled, Add, CommitMessage, Tick,
         StopReceived, FlushNothing, TakeBatch, BulkInsertFails, PublishToEnriched,
         ShutdownSignal, Shutdown, StopBatchWriter, Exit, Restart, Rebalance, vars, envVars,
         processVars, historyVars
<1> QED BY <1>0, <1>1, <1>2, <1>3, <1>4, <1>5, RowsWithProperties

LEMMA ControlStep == TypeOK /\ ControlOK /\ [Next]_vars => ControlOK'
<1> SUFFICES ASSUME TypeOK, ControlOK, [Next]_vars PROVE ControlOK'
  OBVIOUS
<1> USE ConstantsAssumption DEF envVars, historyVars
<1>0. Stored \subseteq Stored'
  BY StoresGrow
<1>1. CASE \E p \in Partition : FetchMessage(p)
  BY <1>0, <1>1 DEF TypeOK, ControlOK, Busy, FetchMessage, Message, Goroutine
<1>2. CASE FetchCancelled
  BY <1>0, <1>2 DEF TypeOK, ControlOK, Busy, FetchCancelled, Goroutine
<1>3. CASE Add
  BY <1>0, <1>3 DEF TypeOK, ControlOK, Busy, Add, Goroutine
<1>4. CASE CommitMessage
  BY <1>0, <1>4 DEF TypeOK, ControlOK, Busy, CommitMessage, Goroutine
<1>5. CASE Tick
  BY <1>0, <1>5 DEF TypeOK, ControlOK, Busy, Tick, Goroutine
<1>6. CASE StopReceived
  BY <1>0, <1>6 DEF TypeOK, ControlOK, Busy, StopReceived, Goroutine
<1>7. ASSUME NEW g \in Goroutine, FlushNothing(g) PROVE ControlOK'
  BY <1>0, <1>7 DEF TypeOK, ControlOK, Busy, FlushNothing, AfterFlush, Goroutine
<1>8. ASSUME NEW g \in Goroutine, TakeBatch(g) PROVE ControlOK'
  BY <1>0, <1>8 DEF TypeOK, ControlOK, Busy, TakeBatch, Goroutine
<1>9. ASSUME NEW g \in Goroutine, BulkInsert(g) PROVE ControlOK'
  <2>1. Range(batch[g]) \subseteq Stored'
    BY <1>9, RowsWithProperties DEF BulkInsert, Stored, TypeOK
  <2> QED BY <1>0, <1>9, <2>1 DEF TypeOK, ControlOK, Busy, BulkInsert, Goroutine
<1>10. ASSUME NEW g \in Goroutine, BulkInsertFails(g) PROVE ControlOK'
  BY <1>0, <1>10 DEF TypeOK, ControlOK, Busy, BulkInsertFails, CountFailure, Goroutine
<1>11. ASSUME NEW g \in Goroutine, BulkInsertUnacknowledged(g) PROVE ControlOK'
  BY <1>0, <1>11 DEF TypeOK, ControlOK, Busy, BulkInsertUnacknowledged, CountFailure, Goroutine
<1>12. ASSUME NEW g \in Goroutine, PublishToEnriched(g) PROVE ControlOK'
  BY <1>0, <1>12
     DEF TypeOK, ControlOK, Busy, PublishToEnriched, ReleaseBatch, AfterFlush, Goroutine
<1>13. ASSUME NEW g \in Goroutine, SendToDLQ(g) PROVE ControlOK'
  BY <1>0, <1>13 DEF TypeOK, ControlOK, Busy, SendToDLQ, ReleaseBatch, AfterFlush, Goroutine
<1>14. CASE ShutdownSignal \/ Shutdown \/ Rebalance
  BY <1>0, <1>14
     DEF ControlOK, Busy, ShutdownSignal, Shutdown, StopBatchWriter, Exit, Rebalance
<1>15. CASE Crash \/ Restart
  BY <1>15 DEF ControlOK, Busy, Crash, Restart, BlankProcess, NoBatches, Goroutine
<1>16. CASE UNCHANGED vars
  BY <1>0, <1>16 DEF ControlOK, Busy, vars, processVars
<1> QED
  BY <1>1, <1>2, <1>3, <1>4, <1>5, <1>6, <1>7, <1>8, <1>9, <1>10, <1>11, <1>12, <1>13, <1>14,
     <1>15, <1>16 DEF Next, ConsumerLoop, Flush

LEMMA ShutdownStep == TypeOK /\ ShutdownOK /\ [Next]_vars => ShutdownOK'
<1> SUFFICES ASSUME TypeOK, ShutdownOK, [Next]_vars PROVE ShutdownOK'
  OBVIOUS
<1> USE DEF envVars, historyVars, Goroutine, Up
<1>1. CASE \E p \in Partition : FetchMessage(p)
  BY <1>1 DEF TypeOK, ShutdownOK, FetchMessage
<1>2. CASE FetchCancelled
  BY <1>2 DEF TypeOK, ShutdownOK, FetchCancelled
<1>3. CASE Add
  BY <1>3 DEF TypeOK, ShutdownOK, Add
<1>4. CASE CommitMessage
  BY <1>4 DEF TypeOK, ShutdownOK, CommitMessage
<1>5. CASE Tick \/ StopReceived
  BY <1>5 DEF TypeOK, ShutdownOK, Tick, StopReceived
<1>6. ASSUME NEW g \in Goroutine, FlushNothing(g) PROVE ShutdownOK'
  BY <1>6 DEF TypeOK, ShutdownOK, FlushNothing, AfterFlush
<1>7. ASSUME NEW g \in Goroutine, TakeBatch(g) PROVE ShutdownOK'
  BY <1>7 DEF TypeOK, ShutdownOK, TakeBatch
<1>8. ASSUME NEW g \in Goroutine,
             BulkInsert(g) \/ BulkInsertFails(g) \/ BulkInsertUnacknowledged(g)
      PROVE  ShutdownOK'
  BY <1>8 DEF TypeOK, ShutdownOK, BulkInsert, BulkInsertFails, BulkInsertUnacknowledged,
              CountFailure
<1>9. ASSUME NEW g \in Goroutine, PublishToEnriched(g) \/ SendToDLQ(g) PROVE ShutdownOK'
  BY <1>9 DEF TypeOK, ShutdownOK, PublishToEnriched, SendToDLQ, ReleaseBatch, AfterFlush
<1>10. CASE ShutdownSignal \/ Shutdown \/ Rebalance
  BY <1>10 DEF ShutdownOK, ShutdownSignal, Shutdown, StopBatchWriter, Exit, Rebalance
<1>11. CASE Crash \/ Restart
  BY <1>11 DEF ShutdownOK, Crash, Restart, BlankProcess
<1>12. CASE UNCHANGED vars
  BY <1>12 DEF ShutdownOK, vars, processVars
<1> QED
  BY <1>1, <1>2, <1>3, <1>4, <1>5, <1>6, <1>7, <1>8, <1>9, <1>10, <1>11, <1>12
     DEF Next, ConsumerLoop, Flush

LEMMA EnrichedStep ==
    TypeOK /\ ControlOK /\ EnrichedIsStored /\ [Next]_vars => EnrichedIsStored'
<1> SUFFICES ASSUME TypeOK, ControlOK, EnrichedIsStored, [Next]_vars PROVE EnrichedIsStored'
  OBVIOUS
<1>0. Stored \subseteq Stored'
  BY StoresGrow
<1>1. ASSUME NEW g \in Goroutine, PublishToEnriched(g) PROVE enriched' \subseteq Stored
  BY <1>1 DEF PublishToEnriched, ControlOK, EnrichedIsStored
<1>2. \/ UNCHANGED enriched
      \/ \E g \in Goroutine : PublishToEnriched(g)
  BY DEF Next, ConsumerLoop, Flush, FetchMessage, FetchCancelled, Add, CommitMessage, Tick,
         StopReceived, FlushNothing, TakeBatch, BulkInsert, BulkInsertFails,
         BulkInsertUnacknowledged, SendToDLQ, ShutdownSignal, Shutdown, StopBatchWriter, Exit,
         Crash, Restart, Rebalance, vars, envVars
<1> QED BY <1>0, <1>1, <1>2 DEF EnrichedIsStored

-----------------------------------------------------------------------------
(***************************************************************************)
(* Records never disappear                                                 *)
(***************************************************************************)

\* Where a record that was accepted can be.
Accounted == Held \cup Stored \cup dlq \cup lost

\* Whatever a step does to a record, one that deduplication identifies with
\* it remains accounted for.
LEMMA AccountedStep ==
    ASSUME TypeOK, ControlOK, ShutdownOK, [Next]_vars, NEW m \in Accounted
    PROVE  \E n \in Accounted' : SameRecord(m, n)
<1> USE DEF envVars, historyVars, Goroutine
<1>0. Stored \subseteq Stored' /\ dlq \subseteq dlq' /\ lost \subseteq lost'
  BY StoresGrow
<1>a. SUFFICES ASSUME m \in Held
      PROVE  \E n \in Accounted' : SameRecord(m, n)
  BY <1>0 DEF Accounted, SameRecord
<1>b. SUFFICES ASSUME m \notin Accounted'
      PROVE  \E n \in Accounted' : SameRecord(m, n)
  BY DEF SameRecord
<1>1. CASE UNCHANGED <<pending, batch>>
  BY <1>1, <1>a, <1>b DEF Accounted, Held
<1>2. CASE Add
  <2>1. pending \in Seq(Message) /\ pending' = Append(pending, hand) /\ UNCHANGED batch
    BY <1>2 DEF Add, TypeOK
  <2>2. Range(pending) \subseteq Range(pending')
    BY <2>1 DEF Range
  <2> QED BY <2>1, <2>2, <1>a, <1>b DEF Accounted, Held
<1>3. ASSUME NEW g \in Goroutine, TakeBatch(g)
      PROVE  \E n \in Accounted' : SameRecord(m, n)
  <2>1. /\ pending \in Seq(Message)
        /\ batch[g] = << >>
        /\ batch'[g] = Deduplicated(pending)
        /\ \A h \in Goroutine \ {g} : batch'[h] = batch[h]
    BY <1>3 DEF TakeBatch, TypeOK, ControlOK
  <2>2. m \in Range(pending)
    <3>1. Range(<< >>) = {}
      BY DEF Range
    <3> QED BY <1>a, <1>b, <2>1, <3>1 DEF Held, Accounted
  <2>3. PICK n \in Range(Deduplicated(pending)) : SameRecord(m, n)
    BY <2>1, <2>2, DeduplicatedCovers
  <2> QED BY <2>1, <2>3 DEF Accounted, Held
<1>4. ASSUME NEW g \in Goroutine, PublishToEnriched(g)
      PROVE  \E n \in Accounted' : SameRecord(m, n)
  <2>1. Range(batch[g]) \subseteq Stored
    BY <1>4 DEF PublishToEnriched, ControlOK
  <2>2. \A h \in Goroutine \ {g} : batch'[h] = batch[h]
    BY <1>4 DEF PublishToEnriched, ReleaseBatch, TypeOK
  <2> QED BY <1>0, <1>4, <1>a, <1>b, <2>1, <2>2 DEF PublishToEnriched, Accounted, Held
<1>5. ASSUME NEW g \in Goroutine, SendToDLQ(g)
      PROVE  \E n \in Accounted' : SameRecord(m, n)
  <2>1. Range(batch[g]) \subseteq dlq' \cup lost' \cup Stored
    BY <1>5 DEF SendToDLQ
  <2>2. \A h \in Goroutine \ {g} : batch'[h] = batch[h]
    BY <1>5 DEF SendToDLQ, ReleaseBatch, TypeOK
  <2> QED BY <1>0, <1>5, <1>a, <1>b, <2>1, <2>2 DEF SendToDLQ, Accounted, Held
<1>6. CASE Crash
  BY <1>0, <1>6, <1>a, <1>b DEF Crash, Accounted
<1>7. CASE Restart
  <2>1. Held = {}
    <3>1. Range(<< >>) = {}
      BY DEF Range
    <3>2. pending = << >> /\ \A g \in Goroutine : batch[g] = << >>
      BY <1>7 DEF Restart, Up, ShutdownOK, ControlOK, TypeOK, NoBatches
    <3> QED BY <3>1, <3>2 DEF Held
  <2> QED BY <2>1, <1>a
<1>8. \/ UNCHANGED <<pending, batch>>
      \/ Add
      \/ \E g \in Goroutine : TakeBatch(g) \/ PublishToEnriched(g) \/ SendToDLQ(g)
      \/ Crash
      \/ Restart
  BY DEF Next, ConsumerLoop, Flush, FetchMessage, FetchCancelled, CommitMessage, Tick,
         StopReceived, FlushNothing, BulkInsert, BulkInsertFails, BulkInsertUnacknowledged,
         ShutdownSignal, Shutdown, StopBatchWriter, Exit, Rebalance, vars, processVars
<1> QED BY <1>1, <1>2, <1>3, <1>4, <1>5, <1>6, <1>7, <1>8

\* A record that is represented stays represented.
LEMMA SafeStep ==
    ASSUME TypeOK, ControlOK, ShutdownOK, [Next]_vars, NEW m, Safe(m)
    PROVE  Safe(m)'
<1>1. CASE m \in Malformed
  BY <1>1 DEF Safe
<1>2. CASE Represented(m)
  <2>1. PICK n \in Accounted : SameRecord(m, n)
    BY <1>2 DEF Represented, Accounted
  <2>2. PICK l \in Accounted' : SameRecord(n, l)
    BY <2>1, AccountedStep
  <2>3. SameRecord(m, l)
    BY <2>1, <2>2, SameRecordTransitive
  <2> QED BY <2>2, <2>3 DEF Safe, Represented, Accounted
<1> QED BY <1>1, <1>2 DEF Safe

-----------------------------------------------------------------------------
(***************************************************************************)
(* Every step keeps what is known of the offsets                           *)
(***************************************************************************)

\* A step that leaves the offsets, the message in hand and the consumer loop
\* where they are, or takes the loop from one point after Add to another.
LEMMA OffsetsFrame ==
    ASSUME TypeOK, ControlOK, ShutdownOK, OffsetsOK, [Next]_vars,
           UNCHANGED <<committed, position, hand>>, Up' => Up,
           \/ UNCHANGED pc["consumer"]
           \/ Busy /\ Busy' /\ pc["consumer"] # "add" /\ pc'["consumer"] # "add"
    PROVE  OffsetsOK'
<1>1. \A m : Safe(m) => Safe(m)'
  BY SafeStep
<1>2. CommittedIsRepresented'
  BY <1>1 DEF OffsetsOK, CommittedIsRepresented, Safe
<1>3. Up' => \A p \in Partition : \A i \in 1 .. position'[p] - 1 :
                 Safe(<<p, i>>)' \/ (pc'["consumer"] = "add" /\ hand' = <<p, i>>)
  BY <1>1 DEF OffsetsOK
<1>4. Busy' => \A i \in 1 .. hand'[2] - 1 : Safe(<<hand[1], i>>)'
  BY <1>1 DEF OffsetsOK, Busy
<1>5. Busy' /\ pc'["consumer"] # "add" => Safe(hand)'
  BY <1>1 DEF OffsetsOK, Busy
<1> QED BY <1>2, <1>3, <1>4, <1>5 DEF OffsetsOK

LEMMA OffsetsStep ==
    TypeOK /\ ControlOK /\ ShutdownOK /\ OffsetsOK /\ [Next]_vars => OffsetsOK'
<1> SUFFICES ASSUME TypeOK, ControlOK, ShutdownOK, OffsetsOK, [Next]_vars PROVE OffsetsOK'
  OBVIOUS
<1> USE ConstantsAssumption DEF envVars, historyVars
<1>0. \A m : Safe(m) => Safe(m)'
  BY SafeStep
<1>c. UNCHANGED committed => CommittedIsRepresented'
  BY <1>0 DEF OffsetsOK, CommittedIsRepresented, Safe
<1>1. ASSUME NEW p \in Partition, FetchMessage(p) PROVE OffsetsOK'
  <2>1. /\ hand' = <<p, position[p]>>
        /\ position[p] \in 1 .. LogLen
        /\ position' = [position EXCEPT ![p] = position[p] + 1]
        /\ pc["consumer"] = "fetch"
        /\ pc'["consumer"] = IF hand' \in Malformed THEN "commit" ELSE "add"
        /\ Up
        /\ UNCHANGED committed
    BY <1>1 DEF FetchMessage, TypeOK, Up, Goroutine
  <2>2. \A q \in Partition : \A i \in 1 .. position[q] - 1 : Safe(<<q, i>>)'
    BY <1>0, <2>1 DEF OffsetsOK
  <2>3. Safe(hand)' \/ (pc'["consumer"] = "add")
    BY <2>1 DEF Safe
  <2>4. \A q \in Partition : \A i \in 1 .. position'[q] - 1 :
            Safe(<<q, i>>)' \/ (pc'["consumer"] = "add" /\ hand' = <<q, i>>)
    <3> SUFFICES ASSUME NEW q \in Partition, NEW i \in 1 .. position'[q] - 1
        PROVE  Safe(<<q, i>>)' \/ (pc'["consumer"] = "add" /\ hand' = <<q, i>>)
      OBVIOUS
    <3>1. position \in [Partition -> 1 .. LogLen + 1]
      BY DEF TypeOK
    <3>2. i \in 1 .. position[q] - 1 \/ (q = p /\ i = position[p])
      BY <2>1, <3>1
    <3>3. CASE i \in 1 .. position[q] - 1
      BY <2>2, <3>3
    <3>4. CASE q = p /\ i = position[p]
      <4>1. hand' = <<q, i>>
        BY <2>1, <3>4
      <4>2. Safe(hand)' => Safe(<<q, i>>)'
        BY <4>1 DEF Safe, Represented
      <4> QED BY <2>3, <4>1, <4>2
    <3> QED BY <3>2, <3>3, <3>4
  <2>5. \A i \in 1 .. hand'[2] - 1 : Safe(<<hand[1], i>>)'
    <3>1. hand'[1] = p /\ hand'[2] = position[p]
      BY <2>1
    <3> QED BY <2>2, <3>1 DEF Safe, Represented
  <2>6. pc'["consumer"] # "add" => Safe(hand)'
    BY <2>3
  <2> QED BY <1>c, <2>1, <2>4, <2>5, <2>6 DEF OffsetsOK
<1>2. CASE FetchCancelled
  <2>1. /\ pc["consumer"] = "fetch" /\ pc'["consumer"] = "done"
        /\ Up /\ UNCHANGED <<committed, position, hand>>
    BY <1>2 DEF FetchCancelled, TypeOK, Up, Goroutine
  <2>2. \A q \in Partition : \A i \in 1 .. position[q] - 1 : Safe(<<q, i>>)'
    BY <1>0, <2>1 DEF OffsetsOK
  <2> QED BY <1>c, <2>1, <2>2 DEF OffsetsOK, Busy
<1>3. CASE Add
  <2>1. /\ pc["consumer"] = "add" /\ Busy /\ pc'["consumer"] # "add"
        /\ Up /\ UNCHANGED <<committed, position, hand>>
        /\ pending' = Append(pending, hand) /\ pending \in Seq(Message) /\ hand \in Message
    BY <1>3 DEF Add, TypeOK, ControlOK, Busy, Goroutine
  <2>2. hand \in Range(pending')
    <3>1. Len(pending) + 1 \in DOMAIN pending' /\ pending'[Len(pending) + 1] = hand
      BY <2>1
    <3> QED BY <3>1 DEF Range
  <2>3. Safe(hand)'
    BY <2>1, <2>2 DEF Safe, Represented, Held, SameRecord
  <2>4. \A q \in Partition : \A i \in 1 .. position[q] - 1 : Safe(<<q, i>>)'
    <3> SUFFICES ASSUME NEW q \in Partition, NEW i \in 1 .. position[q] - 1
        PROVE  Safe(<<q, i>>)'
      OBVIOUS
    <3>1. CASE Safe(<<q, i>>)
      BY <1>0, <3>1
    <3>2. CASE hand = <<q, i>>
      BY <2>1, <2>3, <3>2 DEF Safe, Represented
    <3> QED BY <2>1, <3>1, <3>2 DEF OffsetsOK
  <2>5. \A i \in 1 .. hand'[2] - 1 : Safe(<<hand[1], i>>)'
    BY <1>0, <2>1 DEF OffsetsOK
  <2> QED BY <1>c, <2>1, <2>3, <2>4, <2>5 DEF OffsetsOK
<1>4. CASE CommitMessage
  <2>1. /\ pc["consumer"] = "commit" /\ Busy /\ pc'["consumer"] = "fetch"
        /\ Up /\ UNCHANGED position /\ hand \in Message
    BY <1>4 DEF CommitMessage, TypeOK, ControlOK, Busy, Goroutine
  <2>2. \A q \in Partition : \A i \in 1 .. position[q] - 1 : Safe(<<q, i>>)'
    BY <1>0, <2>1 DEF OffsetsOK
  <2>3. PICK p \in Partition, k \in 1 .. LogLen : hand = <<p, k>>
    BY <2>1 DEF Message
  <2>4. \A i \in 1 .. k : Safe(<<p, i>>)
    <3>1. \A i \in 1 .. k - 1 : Safe(<<p, i>>)
      BY <2>1, <2>3 DEF OffsetsOK
    <3>2. Safe(<<p, k>>)
      BY <2>1, <2>3 DEF OffsetsOK
    <3> QED BY <3>1, <3>2
  <2>5. CommittedIsRepresented'
    <3>1. CASE UNCHANGED committed
      BY <1>c, <3>1
    <3>2. CASE committed' = [committed EXCEPT ![p] = k + 1]
      <4> SUFFICES ASSUME NEW q \in Partition, NEW i \in 1 .. committed'[q] - 1
          PROVE  Safe(<<q, i>>)
        BY <1>0 DEF CommittedIsRepresented, Safe
      <4>1. committed \in [Partition -> 1 .. LogLen + 1]
        BY DEF TypeOK
      <4>2. CASE q # p
        BY <3>2, <4>1, <4>2 DEF OffsetsOK, CommittedIsRepresented, Safe
      <4>3. CASE q = p
        BY <2>4, <3>2, <4>1, <4>3
      <4> QED BY <4>2, <4>3
    <3> QED BY <1>4, <2>3, <3>1, <3>2 DEF CommitMessage
  <2> QED BY <2>1, <2>2, <2>5 DEF OffsetsOK, Busy
<1>5. CASE Crash \/ Restart
  <2>1. pc'["consumer"] = "fetch" /\ UNCHANGED committed
    BY <1>5 DEF Crash, Restart, BlankProcess, Goroutine
  <2>2. Up' => position' = committed
    BY <1>5 DEF Crash, Restart, Up
  <2>3. \A q \in Partition : \A i \in 1 .. committed[q] - 1 : Safe(<<q, i>>)'
    BY <1>0 DEF OffsetsOK, CommittedIsRepresented, Safe
  <2> QED BY <1>c, <2>1, <2>2, <2>3 DEF OffsetsOK, Busy
<1>6. CASE Rebalance
  <2>1. UNCHANGED <<committed, pc, hand>> /\ position' = committed
    BY <1>6 DEF Rebalance
  <2>2. \A q \in Partition : \A i \in 1 .. committed[q] - 1 : Safe(<<q, i>>)'
    BY <1>0 DEF OffsetsOK, CommittedIsRepresented, Safe
  <2>3. Busy' => \A i \in 1 .. hand'[2] - 1 : Safe(<<hand[1], i>>)'
    BY <1>0, <2>1 DEF OffsetsOK, Busy
  <2>4. Busy' /\ pc'["consumer"] # "add" => Safe(hand)'
    BY <1>0, <2>1 DEF OffsetsOK, Busy
  <2> QED BY <1>c, <2>1, <2>2, <2>3, <2>4 DEF OffsetsOK
<1>7. CASE Tick \/ StopReceived \/ ShutdownSignal \/ Shutdown \/ UNCHANGED vars
  <2>1. UNCHANGED <<committed, position, hand>> /\ (Up' => Up) /\ UNCHANGED pc["consumer"]
    BY <1>7 DEF Tick, StopReceived, ShutdownSignal, Shutdown, StopBatchWriter, Exit, vars,
                processVars, Up, TypeOK, Goroutine
  <2> QED BY <2>1, OffsetsFrame
<1>8. ASSUME NEW g \in Goroutine, Flush(g) PROVE OffsetsOK'
  <2>1. UNCHANGED <<committed, position, hand, life>>
    BY <1>8 DEF Flush, FlushNothing, TakeBatch, BulkInsert, BulkInsertFails,
                BulkInsertUnacknowledged, PublishToEnriched, SendToDLQ
  <2>2. pc'["consumer"] = pc["consumer"]
        \/ /\ pc["consumer"] \in {"swap", "insert", "publish", "dlq"}
           /\ pc'["consumer"] \in {"insert", "publish", "dlq", "commit"}
    BY <1>8 DEF Flush, FlushNothing, TakeBatch, BulkInsert, BulkInsertFails, CountFailure,
                BulkInsertUnacknowledged, PublishToEnriched, SendToDLQ, ReleaseBatch,
                AfterFlush, TypeOK, Goroutine
  <2> QED BY <2>1, <2>2, OffsetsFrame DEF Busy, Up
<1> QED
  BY <1>1, <1>2, <1>3, <1>4, <1>5, <1>6, <1>7, <1>8 DEF Next, ConsumerLoop

-----------------------------------------------------------------------------
(***************************************************************************)
(* How much is in memory                                                   *)
(***************************************************************************)

\* Deduplication does not make a slice longer.
LEMMA DeduplicatedSize ==
    ASSUME NEW s \in Seq(Message)
    PROVE  Cardinality(DOMAIN Deduplicated(s)) <= Len(s)
<1>1. DOMAIN Deduplicated(s) \subseteq 1 .. Len(s)
  BY DEF Deduplicated, Kept
<1> DEFINE n == Len(s)
<1>2. n \in Nat
  OBVIOUS
<1> HIDE DEF n
<1>3. IsFiniteSet(1 .. n) /\ Cardinality(1 .. n) = IF 1 > n THEN 0 ELSE n - 1 + 1
  BY <1>2, FS_Interval
<1>4. Cardinality(1 .. n) = n
  BY <1>2, <1>3
<1> QED BY <1>1, <1>3, <1>4, FS_Subset DEF n

LEMMA NoRecords == DOMAIN << >> = {} /\ Cardinality(DOMAIN << >>) = 0 /\ Len(<< >>) = 0
BY FS_EmptySet

LEMMA MemoryStep ==
    ASSUME TypeOK, ControlOK, MemoryOK, [Next]_vars
    PROVE  MemoryOK'
<1> USE ConstantsAssumption DEF Goroutine
<1> DEFINE Flushing == {"insert", "publish", "dlq"}
<1>0. pending \in Seq(Message) /\ Len(pending) \in Nat
  BY DEF TypeOK
<1>1. ASSUME UNCHANGED <<pending, batch>>,
             pc["consumer"] = "swap" => pc'["consumer"] = "swap" \/ pending = << >>,
             pc'["consumer"] \in Flushing => pc["consumer"] \in Flushing
      PROVE  MemoryOK'
  BY <1>1, NoRecords DEF MemoryOK
<1>2. CASE \/ \E p \in Partition : FetchMessage(p)
           \/ FetchCancelled \/ CommitMessage \/ Tick \/ StopReceived
           \/ ShutdownSignal \/ Shutdown \/ Rebalance \/ UNCHANGED vars
  <2>1. /\ UNCHANGED <<pending, batch>>
        /\ pc["consumer"] = "swap" => pc'["consumer"] = "swap"
        /\ pc'["consumer"] \in Flushing => pc["consumer"] \in Flushing
    BY <1>2 DEF FetchMessage, FetchCancelled, CommitMessage, Tick, StopReceived, ShutdownSignal,
                Shutdown, StopBatchWriter, Exit, Rebalance, vars, processVars, TypeOK
  <2> QED BY <1>1, <2>1
<1>3. CASE Add
  <2>1. /\ pc["consumer"] = "add" /\ hand \in Message
        /\ pending' = Append(pending, hand) /\ UNCHANGED batch
        /\ pc'["consumer"] = IF Len(pending') >= BatchSize THEN "swap" ELSE "commit"
    BY <1>3 DEF Add, TypeOK, ControlOK, Busy
  <2>2. Len(pending') = Len(pending) + 1
    BY <1>0, <2>1
  <2>3. Len(pending) < BatchSize
    BY <2>1 DEF MemoryOK
  <2> QED BY <1>0, <2>1, <2>2, <2>3 DEF MemoryOK
<1>4. ASSUME NEW g \in Goroutine, FlushNothing(g) PROVE MemoryOK'
  <2>1. /\ UNCHANGED <<pending, batch>> /\ pending = << >>
        /\ pc'["consumer"] \in Flushing => pc["consumer"] \in Flushing
    BY <1>4 DEF FlushNothing, AfterFlush, TypeOK
  <2> QED BY <1>1, <2>1
<1>5. ASSUME NEW g \in Goroutine, TakeBatch(g) PROVE MemoryOK'
  <2>1. /\ pending' = << >> /\ DOMAIN batch = Goroutine
        /\ batch' = [batch EXCEPT ![g] = Deduplicated(pending)]
    BY <1>5 DEF TakeBatch, TypeOK
  <2>2. Cardinality(DOMAIN Deduplicated(pending)) <= Len(pending)
    BY <1>0, DeduplicatedSize
  <2>3. /\ IsFiniteSet(DOMAIN Deduplicated(pending))
        /\ Cardinality(DOMAIN Deduplicated(pending)) \in Nat
    BY <1>0, DeduplicatedType, FS_CardinalityType
  <2>4. Cardinality(DOMAIN Deduplicated(pending)) <= BatchSize
    BY <1>0, <2>2, <2>3 DEF MemoryOK
  <2>5. \A h \in Goroutine : Cardinality(DOMAIN batch'[h]) <= BatchSize
    BY <2>1, <2>4 DEF MemoryOK
  <2> QED BY <2>1, <2>5, NoRecords DEF MemoryOK
<1>6. ASSUME NEW g \in Goroutine,
             BulkInsert(g) \/ BulkInsertFails(g) \/ BulkInsertUnacknowledged(g)
      PROVE  MemoryOK'
  <2>1. /\ UNCHANGED <<pending, batch>>
        /\ pc["consumer"] = "swap" => pc'["consumer"] = "swap"
        /\ pc'["consumer"] \in Flushing => pc["consumer"] \in Flushing
    BY <1>6 DEF BulkInsert, BulkInsertFails, BulkInsertUnacknowledged, CountFailure, TypeOK
  <2> QED BY <1>1, <2>1
<1>7. ASSUME NEW g \in Goroutine, PublishToEnriched(g) \/ SendToDLQ(g) PROVE MemoryOK'
  <2>1. /\ UNCHANGED pending /\ DOMAIN batch = Goroutine
        /\ batch' = [batch EXCEPT ![g] = << >>]
        /\ pc["consumer"] = "swap" => pc'["consumer"] = "swap"
        /\ pc'["consumer"] \in Flushing => pc["consumer"] \in Flushing
    BY <1>7 DEF PublishToEnriched, SendToDLQ, ReleaseBatch, AfterFlush, TypeOK
  <2>2. \A h \in Goroutine : Cardinality(DOMAIN batch'[h]) <= BatchSize
    BY <2>1, NoRecords DEF MemoryOK
  <2> QED BY <2>1, <2>2 DEF MemoryOK
<1>8. CASE Crash \/ Restart
  <2>1. pending' = << >> /\ batch' = NoBatches /\ pc'["consumer"] = "fetch"
    BY <1>8 DEF Crash, Restart, BlankProcess
  <2> QED BY <2>1, NoRecords, BlankMemoryType DEF MemoryOK
<1> QED
  BY <1>2, <1>3, <1>4, <1>5, <1>6, <1>7, <1>8 DEF Next, ConsumerLoop, Flush

-----------------------------------------------------------------------------
(***************************************************************************)
(* One delivery, one copy                                                  *)
(***************************************************************************)

\* The copies of m among finitely many records.
LEMMA CopiesType ==
    ASSUME NEW b, IsFiniteSet(DOMAIN b), NEW m
    PROVE  Copies(b, m) \in Nat
BY FS_Subset, FS_CardinalityType DEF Copies

LEMMA CopiesOfNone ==
    ASSUME NEW m
    PROVE  Copies(<< >>, m) = 0
BY FS_EmptySet DEF Copies

\* Append adds one copy of what it appends.
LEMMA CopiesOfAppend ==
    ASSUME NEW s \in Seq(Message), NEW e \in Message, NEW m \in Message
    PROVE  Copies(Append(s, e), m) = Copies(s, m) + IF e = m THEN 1 ELSE 0
<1> DEFINE t == Append(s, e)
           S == {i \in DOMAIN s : s[i] = m}
           T == {i \in DOMAIN t : t[i] = m}
           n == Len(s) + 1
<1>1. /\ DOMAIN s = 1 .. Len(s) /\ DOMAIN t = 1 .. n /\ Len(s) \in Nat
      /\ \A i \in 1 .. Len(s) : t[i] = s[i]
      /\ t[n] = e
  OBVIOUS
<1>2. IsFiniteSet(DOMAIN s)
  BY <1>1, FS_Interval
<1>3. S \subseteq DOMAIN s /\ n \notin DOMAIN s /\ DOMAIN t = DOMAIN s \cup {n}
  BY <1>1
<1>4. T = IF e = m THEN S \cup {n} ELSE S
  BY <1>1, <1>3
<1>5. Copies(t, m) = Cardinality(T) /\ Copies(s, m) = Cardinality(S)
  BY DEF Copies
<1> HIDE DEF S, T, t, n
<1>6. IsFiniteSet(S) /\ n \notin S
  BY <1>2, <1>3, FS_Subset
<1>7. Cardinality(S \cup {n}) = Cardinality(S) + 1
  BY <1>6, FS_AddElement
<1>8. Cardinality(S) \in Nat
  BY <1>6, FS_CardinalityType
<1> QED BY <1>4, <1>5, <1>7, <1>8 DEF t

\* Deduplication makes no copies.
LEMMA CopiesOfDeduplicated ==
    ASSUME NEW s \in Seq(Message), NEW m
    PROVE  Copies(Deduplicated(s), m) <= Copies(s, m)
<1> DEFINE S == {i \in DOMAIN s : s[i] = m}
           T == {i \in DOMAIN Deduplicated(s) : Deduplicated(s)[i] = m}
<1>1. T \subseteq S /\ S \subseteq 1 .. Len(s)
  BY DEF Deduplicated, Kept
<1>2. IsFiniteSet(1 .. Len(s))
  BY FS_Interval
<1>3. Copies(s, m) = Cardinality(S) /\ Copies(Deduplicated(s), m) = Cardinality(T)
  BY DEF Copies
<1> HIDE DEF S, T
<1>4. IsFiniteSet(S)
  BY <1>1, <1>2, FS_Subset
<1> QED BY <1>1, <1>3, <1>4, FS_Subset

\* A step makes no copy of a message and no row for a copy that has one, but
\* for the delivery a rewind repeats.
LEMMA CountStep ==
    ASSUME TypeOK, ControlOK, TypeOK', [Next]_vars, NEW m \in Message
    PROVE  /\ Owners(m)' <= Owners(m) + (rewinds' - rewinds)
           /\ ~ ambiguous' =>
                 ~ ambiguous /\ Deliveries(m)' <= Deliveries(m) + (rewinds' - rewinds)
<1> USE DEF Goroutine
<1> DEFINE Goal == /\ Owners(m)' <= Owners(m) + (rewinds' - rewinds)
                   /\ ~ ambiguous' =>
                        ~ ambiguous /\ Deliveries(m)' <= Deliveries(m) + (rewinds' - rewinds)
<1>1. pending \in Seq(Message) /\ pending' \in Seq(Message)
  BY DEF TypeOK
<1>r. rewinds \in Nat /\ rewinds' \in Nat /\ rows[m] \in Nat /\ rows'[m] \in Nat
  BY DEF TypeOK
<1>2. /\ IsFiniteSet(DOMAIN pending) /\ IsFiniteSet(DOMAIN pending')
      /\ \A g \in Goroutine : IsFiniteSet(DOMAIN batch[g]) /\ IsFiniteSet(DOMAIN batch'[g])
  <2>1. \A s \in Seq(Message) : IsFiniteSet(DOMAIN s)
    <3> TAKE s \in Seq(Message)
    <3>1. DOMAIN s = 1 .. Len(s)
      OBVIOUS
    <3> QED BY <3>1, FS_Interval
  <2> QED BY <1>1, <2>1 DEF TypeOK
<1>3. /\ Copies(pending, m) \in Nat /\ Copies(pending', m) \in Nat
      /\ \A g \in Goroutine : Copies(batch[g], m) \in Nat /\ Copies(batch'[g], m) \in Nat
  BY <1>2, CopiesType
<1>4. InHand(m) \in 0 .. 1 /\ ToCome(m) \in 0 .. 1 /\ InHand(m)' \in 0 .. 1 /\ ToCome(m)' \in 0 .. 1
  BY DEF InHand, ToCome
<1>5. \A g \in Goroutine : Uninserted(g, m) \in Nat /\ Uninserted(g, m)' \in Nat
  BY <1>3 DEF Uninserted
<1>0. /\ Copies(pending, m) \in Nat /\ Copies(pending', m) \in Nat
      /\ Copies(batch["consumer"], m) \in Nat /\ Copies(batch'["consumer"], m) \in Nat
      /\ Copies(batch["timer"], m) \in Nat /\ Copies(batch'["timer"], m) \in Nat
      /\ Uninserted("consumer", m) \in Nat /\ Uninserted("consumer", m)' \in Nat
      /\ Uninserted("timer", m) \in Nat /\ Uninserted("timer", m)' \in Nat
  BY <1>3, <1>5
<1>c. Owners(m) \in Nat /\ Owners(m)' \in Nat
  BY <1>0, <1>4 DEF Owners
<1>d. Deliveries(m) \in Nat /\ Deliveries(m)' \in Nat
  BY <1>0, <1>r, <1>4 DEF Deliveries
<1>6. \A g \in Goroutine : batch'[g] = << >> => Copies(batch'[g], m) = 0 /\ Uninserted(g, m)' = 0
  BY CopiesOfNone DEF Uninserted
<1>7. pending' = << >> => Copies(pending', m) = 0
  BY CopiesOfNone
<1>8. m[1] \in Partition /\ m[2] \in 1 .. LogLen /\ m = <<m[1], m[2]>> /\ m # NoMessage
  BY ConstantsAssumption DEF Message
<1>9. ASSUME UNCHANGED <<rows, pending, batch, ambiguous>>,
             InHand(m)' + ToCome(m)' <= InHand(m) + ToCome(m) + (rewinds' - rewinds),
             \A g \in Goroutine : Uninserted(g, m)' <= Uninserted(g, m)
      PROVE  Goal
  <2>1. Owners(m)' <= Owners(m) + (rewinds' - rewinds)
    <3>1. Copies(pending', m) = Copies(pending, m)
      BY <1>9
    <3>2. /\ Copies(batch'["consumer"], m) = Copies(batch["consumer"], m)
          /\ Copies(batch'["timer"], m) = Copies(batch["timer"], m)
      BY <1>9
    <3> QED BY <1>0, <1>r, <1>4, <1>9, <3>1, <3>2 DEF Owners
  <2>2. Deliveries(m)' <= Deliveries(m) + (rewinds' - rewinds)
    <3>1. /\ Copies(pending', m) = Copies(pending, m) /\ rows'[m] = rows[m]
          /\ Uninserted("consumer", m)' <= Uninserted("consumer", m)
          /\ Uninserted("timer", m)' <= Uninserted("timer", m)
      BY <1>9
    <3> QED BY <1>0, <1>r, <1>4, <1>9, <3>1 DEF Deliveries
  <2> QED BY <1>9, <2>1, <2>2
<1>10. ASSUME UNCHANGED <<hand, position>>, pc'["consumer"] = "add" => pc["consumer"] = "add"
       PROVE  InHand(m)' <= InHand(m) /\ ToCome(m)' = ToCome(m)
  BY <1>10 DEF InHand, ToCome
<1>11. CASE \E p \in Partition : FetchMessage(p)
  <2>1. PICK p \in Partition : FetchMessage(p)
    BY <1>11
  <2>2. /\ UNCHANGED <<rows, pending, batch, ambiguous, rewinds>>
        /\ pc["consumer"] = "fetch" /\ pc'["timer"] = pc["timer"] /\ pc'["consumer"] # "insert"
        /\ hand' = <<p, position[p]>> /\ position' = [position EXCEPT ![p] = @ + 1]
        /\ position \in [Partition -> 1 .. LogLen + 1]
    BY <2>1 DEF FetchMessage, TypeOK, envVars, historyVars
  <2>3. InHand(m) = 0
    BY <2>2 DEF InHand
  <2>4. CASE m = <<p, position[p]>>
    <3>1. ToCome(m) = 1 /\ ToCome(m)' = 0
      BY <1>8, <2>2, <2>4, ConstantsAssumption DEF ToCome
    <3>2. \A g \in Goroutine : Uninserted(g, m)' <= Uninserted(g, m)
      BY <1>3, <2>2 DEF Uninserted
    <3> QED BY <1>r, <1>4, <1>9, <2>2, <2>3, <3>1, <3>2
  <2>5. CASE m # <<p, position[p]>>
    <3>1. InHand(m)' = 0
      BY <2>2, <2>5 DEF InHand
    <3>2. ToCome(m)' <= ToCome(m)
      BY <1>8, <2>2, ConstantsAssumption DEF ToCome
    <3>3. \A g \in Goroutine : Uninserted(g, m)' <= Uninserted(g, m)
      BY <1>3, <2>2 DEF Uninserted
    <3> QED BY <1>r, <1>4, <1>9, <2>2, <2>3, <3>1, <3>2, <3>3
  <2> QED BY <2>4, <2>5
<1>12. CASE \/ FetchCancelled \/ Tick \/ StopReceived \/ ShutdownSignal \/ Shutdown
            \/ UNCHANGED vars \/ \E g \in Goroutine : FlushNothing(g) \/ BulkInsertFails(g)
  <2>1. /\ UNCHANGED <<rows, pending, batch, ambiguous, rewinds, hand, position>>
        /\ pc'["consumer"] = "add" => pc["consumer"] = "add"
        /\ \A g \in Goroutine : pc'[g] = "insert" => pc[g] = "insert"
    BY <1>12 DEF FetchCancelled, Tick, StopReceived, ShutdownSignal, Shutdown, StopBatchWriter,
                 Exit, FlushNothing, AfterFlush, BulkInsertFails, CountFailure, TypeOK, vars,
                 envVars, processVars, historyVars
  <2>2. \A g \in Goroutine : Uninserted(g, m)' <= Uninserted(g, m)
    BY <1>3, <2>1 DEF Uninserted
  <2> QED BY <1>r, <1>4, <1>9, <1>10, <2>1, <2>2
<1>13. CASE CommitMessage
  <2>1. /\ UNCHANGED <<rows, pending, batch, ambiguous, rewinds, position>>
        /\ pc'["consumer"] = "fetch" /\ pc'["timer"] = pc["timer"]
    BY <1>13 DEF CommitMessage, TypeOK, historyVars
  <2>2. InHand(m)' = 0 /\ ToCome(m)' = ToCome(m)
    BY <2>1 DEF InHand, ToCome
  <2>3. \A g \in Goroutine : Uninserted(g, m)' <= Uninserted(g, m)
    BY <1>3, <2>1 DEF Uninserted
  <2> QED BY <1>r, <1>4, <1>9, <2>1, <2>2, <2>3
<1>14. CASE Add
  <2>1. /\ UNCHANGED <<rows, batch, ambiguous, rewinds, position>>
        /\ pc["consumer"] = "add" /\ pc'["consumer"] \in {"swap", "commit"}
        /\ pc'["timer"] = pc["timer"] /\ pending' = Append(pending, hand)
        /\ hand \in Message
    BY <1>14 DEF Add, TypeOK, ControlOK, Busy, envVars, historyVars
  <2>2. Copies(pending', m) = Copies(pending, m) + IF hand = m THEN 1 ELSE 0
    BY <1>1, <2>1, CopiesOfAppend
  <2>3. /\ InHand(m) = (IF hand = m THEN 1 ELSE 0) /\ InHand(m)' = 0
        /\ ToCome(m)' = ToCome(m)
    BY <2>1 DEF InHand, ToCome
  <2>4. \A g \in Goroutine : Uninserted(g, m)' = Uninserted(g, m)
    BY <2>1, <1>3 DEF Uninserted
  <2>5. Copies(pending', m) + InHand(m)' = Copies(pending, m) + InHand(m)
    BY <1>3, <2>2, <2>3
  <2>6. Owners(m)' <= Owners(m)
    BY <1>0, <1>4, <2>1, <2>3, <2>5 DEF Owners
  <2>7. Deliveries(m)' <= Deliveries(m)
    <3>1. /\ Uninserted("consumer", m)' = Uninserted("consumer", m)
          /\ Uninserted("timer", m)' = Uninserted("timer", m)
      BY <2>4
    <3>2. rows'[m] = rows[m]
      BY <2>1
    <3> QED BY <1>0, <1>r, <1>4, <2>3, <2>5, <3>1, <3>2 DEF Deliveries
  <2> QED BY <1>r, <1>c, <1>d, <2>1, <2>6, <2>7
<1>15. ASSUME NEW g \in Goroutine, TakeBatch(g) PROVE Goal
  <2>1. /\ UNCHANGED <<rows, ambiguous, rewinds, position, hand>>
        /\ pc["consumer"] = "add" <=> pc'["consumer"] = "add"
        /\ pc[g] = "swap" /\ pending' = << >>
        /\ batch'[g] = Deduplicated(pending)
        /\ \A h \in Goroutine : h # g => batch'[h] = batch[h] /\ pc'[h] = pc[h]
    BY <1>15 DEF TakeBatch, TypeOK, envVars, historyVars
  <2>2. batch[g] = << >>
    BY <2>1 DEF ControlOK
  <2>3. Copies(batch[g], m) = 0 /\ Uninserted(g, m) = 0
    BY <2>1, <2>2, CopiesOfNone DEF Uninserted
  <2>4. Copies(batch'[g], m) <= Copies(pending, m)
    BY <1>1, <2>1, CopiesOfDeduplicated
  <2>5. Uninserted(g, m)' <= Copies(pending, m)
    BY <1>3, <2>4 DEF Uninserted
  <2>6. \A h \in Goroutine : h # g => Uninserted(h, m)' = Uninserted(h, m)
    BY <2>1 DEF Uninserted
  <2>7. InHand(m)' = InHand(m) /\ ToCome(m)' = ToCome(m)
    BY <2>1 DEF InHand, ToCome
  <2>8. Owners(m)' <= Owners(m)
    <3>1. \A h \in Goroutine : h # g => Copies(batch'[h], m) = Copies(batch[h], m)
      BY <2>1
    <3>2. Copies(pending', m) = 0
      BY <1>7, <2>1
    <3>3. CASE g = "consumer"
      <4>1. Copies(batch'["timer"], m) = Copies(batch["timer"], m)
        BY <3>1, <3>3
      <4> QED BY <1>0, <1>4, <2>3, <2>4, <2>7, <3>2, <3>3, <4>1 DEF Owners
    <3>4. CASE g = "timer"
      <4>1. Copies(batch'["consumer"], m) = Copies(batch["consumer"], m)
        BY <3>1, <3>4
      <4> QED BY <1>0, <1>4, <2>3, <2>4, <2>7, <3>2, <3>4, <4>1 DEF Owners
    <3> QED BY <3>3, <3>4
  <2>9. Deliveries(m)' <= Deliveries(m)
    <3>1. Copies(pending', m) = 0 /\ rows'[m] = rows[m]
      BY <1>7, <2>1
    <3>2. CASE g = "consumer"
      <4>1. Uninserted("timer", m)' = Uninserted("timer", m)
        BY <2>6, <3>2
      <4> QED BY <1>0, <1>r, <1>4, <2>3, <2>5, <2>7, <3>1, <3>2, <4>1 DEF Deliveries
    <3>3. CASE g = "timer"
      <4>1. Uninserted("consumer", m)' = Uninserted("consumer", m)
        BY <2>6, <3>3
      <4> QED BY <1>0, <1>r, <1>4, <2>3, <2>5, <2>7, <3>1, <3>3, <4>1 DEF Deliveries
    <3> QED BY <3>2, <3>3
  <2> QED BY <1>r, <1>c, <1>d, <2>1, <2>8, <2>9
<1>16. ASSUME NEW g \in Goroutine, BulkInsert(g) \/ BulkInsertUnacknowledged(g) PROVE Goal
  <2>1. /\ UNCHANGED <<pending, batch, rewinds, position, hand>>
        /\ rows' = RowsWith(g) /\ pc[g] = "insert"
        /\ pc'["consumer"] = "add" => pc["consumer"] = "add"
        /\ ~ ambiguous' => ~ ambiguous /\ pc'[g] = "publish"
        /\ \A h \in Goroutine : h # g => pc'[h] = pc[h]
    BY <1>16 DEF BulkInsert, BulkInsertUnacknowledged, CountFailure, TypeOK, historyVars
  <2>2. rows'[m] = rows[m] + Copies(batch[g], m) /\ Uninserted(g, m) = Copies(batch[g], m)
    BY <2>1 DEF RowsWith, Uninserted
  <2>3. ~ ambiguous' => Uninserted(g, m)' = 0
    BY <2>1 DEF Uninserted
  <2>4. \A h \in Goroutine : h # g => Uninserted(h, m)' = Uninserted(h, m)
    BY <2>1 DEF Uninserted
  <2>5. InHand(m)' <= InHand(m) /\ ToCome(m)' = ToCome(m)
    BY <1>10, <2>1
  <2>6. Owners(m)' <= Owners(m)
    BY <1>0, <1>4, <2>1, <2>5 DEF Owners
  <2>7. ~ ambiguous' => Deliveries(m)' <= Deliveries(m)
    <3>1. Copies(pending', m) = Copies(pending, m)
      BY <2>1
    <3>2. CASE g = "consumer"
      <4>1. Uninserted("timer", m)' = Uninserted("timer", m)
        BY <2>4, <3>2
      <4> QED BY <1>0, <1>r, <1>4, <2>2, <2>3, <2>5, <3>1, <3>2, <4>1 DEF Deliveries
    <3>3. CASE g = "timer"
      <4>1. Uninserted("consumer", m)' = Uninserted("consumer", m)
        BY <2>4, <3>3
      <4> QED BY <1>0, <1>r, <1>4, <2>2, <2>3, <2>5, <3>1, <3>3, <4>1 DEF Deliveries
    <3> QED BY <3>2, <3>3
  <2> QED BY <1>r, <1>c, <1>d, <2>1, <2>6, <2>7
<1>17. ASSUME NEW g \in Goroutine, PublishToEnriched(g) \/ SendToDLQ(g) PROVE Goal
  <2>1. /\ UNCHANGED <<rows, pending, ambiguous, rewinds, position, hand>>
        /\ pc'["consumer"] = "add" => pc["consumer"] = "add"
        /\ batch'[g] = << >>
        /\ \A h \in Goroutine : h # g => batch'[h] = batch[h] /\ pc'[h] = pc[h]
    BY <1>17 DEF PublishToEnriched, SendToDLQ, ReleaseBatch, AfterFlush, TypeOK, historyVars
  <2>2. Copies(batch'[g], m) = 0 /\ Uninserted(g, m)' = 0
    BY <1>6, <2>1
  <2>3. \A h \in Goroutine : h # g => Uninserted(h, m)' = Uninserted(h, m)
    BY <2>1 DEF Uninserted
  <2>4. InHand(m)' <= InHand(m) /\ ToCome(m)' = ToCome(m)
    BY <1>10, <2>1
  <2>5. Owners(m)' <= Owners(m)
    <3>1. Copies(pending', m) = Copies(pending, m)
      BY <2>1
    <3>2. \A h \in Goroutine : h # g => Copies(batch'[h], m) = Copies(batch[h], m)
      BY <2>1
    <3>3. CASE g = "consumer"
      <4>1. Copies(batch'["timer"], m) = Copies(batch["timer"], m)
        BY <3>2, <3>3
      <4> QED BY <1>0, <1>4, <2>2, <2>4, <3>1, <3>3, <4>1 DEF Owners
    <3>4. CASE g = "timer"
      <4>1. Copies(batch'["consumer"], m) = Copies(batch["consumer"], m)
        BY <3>2, <3>4
      <4> QED BY <1>0, <1>4, <2>2, <2>4, <3>1, <3>4, <4>1 DEF Owners
    <3> QED BY <3>3, <3>4
  <2>6. Deliveries(m)' <= Deliveries(m)
    <3>1. Copies(pending', m) = Copies(pending, m) /\ rows'[m] = rows[m]
      BY <2>1
    <3>2. CASE g = "consumer"
      <4>1. Uninserted("timer", m)' = Uninserted("timer", m)
        BY <2>3, <3>2
      <4> QED BY <1>0, <1>r, <1>4, <2>2, <2>4, <3>1, <3>2, <4>1 DEF Deliveries
    <3>3. CASE g = "timer"
      <4>1. Uninserted("consumer", m)' = Uninserted("consumer", m)
        BY <2>3, <3>3
      <4> QED BY <1>0, <1>r, <1>4, <2>2, <2>4, <3>1, <3>3, <4>1 DEF Deliveries
    <3> QED BY <3>2, <3>3
  <2> QED BY <1>r, <1>c, <1>d, <2>1, <2>5, <2>6
<1>18. CASE Crash \/ Restart
  <2>1. /\ rows' = rows /\ ambiguous' = ambiguous /\ pending' = << >> /\ batch' = NoBatches
        /\ pc'["consumer"] = "fetch"
        /\ (position' = position /\ rewinds' = rewinds) \/ rewinds' = rewinds + 1
    BY <1>18 DEF Crash, Restart, BlankProcess, envVars
  <2>2. InHand(m)' = 0
    BY <2>1 DEF InHand
  <2>4. ToCome(m)' <= ToCome(m) + (rewinds' - rewinds)
    <3>1. position' = position => ToCome(m)' = ToCome(m)
      BY DEF ToCome
    <3> QED BY <1>r, <1>4, <2>1, <3>1
  <2>3. batch'["consumer"] = << >> /\ batch'["timer"] = << >>
    BY <2>1, BlankMemoryType
  <2>5. /\ Copies(pending', m) = 0
        /\ Copies(batch'["consumer"], m) = 0 /\ Uninserted("consumer", m)' = 0
        /\ Copies(batch'["timer"], m) = 0 /\ Uninserted("timer", m)' = 0
    BY <1>6, <1>7, <2>1, <2>3
  <2>6. Owners(m)' <= Owners(m) + (rewinds' - rewinds)
    BY <1>0, <1>r, <1>4, <2>2, <2>4, <2>5 DEF Owners
  <2>7. rows'[m] = rows[m] /\ ambiguous' = ambiguous
    BY <2>1
  <2>8. Deliveries(m)' <= Deliveries(m) + (rewinds' - rewinds)
    BY <1>0, <1>r, <1>4, <2>2, <2>4, <2>5, <2>7 DEF Deliveries
  <2> QED BY <2>6, <2>7, <2>8
<1>19. CASE Rebalance
  <2>1. /\ UNCHANGED <<rows, pending, batch, ambiguous, pc, hand>> /\ rewinds' = rewinds + 1
    BY <1>19 DEF Rebalance, envVars
  <2>2. InHand(m)' = InHand(m) /\ ToCome(m)' <= ToCome(m) + 1
    BY <2>1 DEF InHand, ToCome
  <2>3. \A g \in Goroutine : Uninserted(g, m)' <= Uninserted(g, m)
    BY <1>3, <2>1 DEF Uninserted
  <2> QED BY <1>r, <1>4, <1>9, <2>1, <2>2, <2>3
<1> QED
  BY <1>11, <1>12, <1>13, <1>14, <1>15, <1>16, <1>17, <1>18, <1>19
     DEF Next, ConsumerLoop, Flush

\* The counts are numbers.
LEMMA CountType == TypeOK => \A m \in Message : Owners(m) \in Nat /\ Deliveries(m) \in Nat
<1> SUFFICES ASSUME TypeOK, NEW m \in Message
    PROVE  Owners(m) \in Nat /\ Deliveries(m) \in Nat
  OBVIOUS
<1>1. IsFiniteSet(DOMAIN pending)
  <2>1. DOMAIN pending = 1 .. Len(pending)
    BY DEF TypeOK
  <2> QED BY <2>1, FS_Interval
<1>2. /\ Copies(pending, m) \in Nat
      /\ Copies(batch["consumer"], m) \in Nat /\ Copies(batch["timer"], m) \in Nat
  BY <1>1, CopiesType DEF TypeOK, Goroutine
<1>3. rows[m] \in Nat /\ InHand(m) \in Nat /\ ToCome(m) \in Nat
  BY DEF InHand, ToCome, TypeOK
<1> QED BY <1>2, <1>3 DEF Owners, Deliveries, Uninserted

LEMMA CountInvStep ==
    TypeOK /\ TypeOK' /\ ControlOK /\ CountInv /\ [Next]_vars => CountInv'
<1> SUFFICES ASSUME TypeOK, TypeOK', ControlOK, CountInv, [Next]_vars PROVE CountInv'
  OBVIOUS
<1>1. MemoryOK'
  BY MemoryStep DEF CountInv
<1>2. rewinds \in Nat /\ rewinds' \in Nat
  BY DEF TypeOK
<1>3. \A m \in Message : Owners(m) \in Nat /\ Deliveries(m) \in Nat
  BY CountType
<1>4. (\A m \in Message : Owners(m) \in Nat /\ Deliveries(m) \in Nat)'
  BY CountType, PTL
<1>5. \A m \in Message :
          /\ Owners(m)' <= Owners(m) + (rewinds' - rewinds)
          /\ ~ ambiguous' =>
                ~ ambiguous /\ Deliveries(m)' <= Deliveries(m) + (rewinds' - rewinds)
  BY CountStep
<1>6. OwnersOK'
  BY <1>2, <1>3, <1>4, <1>5 DEF CountInv, OwnersOK
<1>7. DeliveriesOK'
  BY <1>2, <1>3, <1>4, <1>5 DEF CountInv, DeliveriesOK
<1> QED BY <1>1, <1>6, <1>7 DEF CountInv

LEMMA CountInit == Init => CountInv
<1> SUFFICES ASSUME Init PROVE CountInv
  OBVIOUS
<1> USE ConstantsAssumption DEF Goroutine
<1>1. /\ pending = << >> /\ batch = NoBatches /\ rewinds = 0 /\ ambiguous = FALSE
      /\ pc["consumer"] = "fetch" /\ pc["timer"] = "wait"
      /\ \A m \in Message : rows[m] = 0 /\ InHand(m) = 0 /\ ToCome(m) \in 0 .. 1
  BY DEF Init, InHand, ToCome
<1>2. batch["consumer"] = << >> /\ batch["timer"] = << >>
  BY <1>1, BlankMemoryType
<1>3. \A m \in Message : Copies(<< >>, m) = 0
  BY CopiesOfNone
<1>4. MemoryOK
  BY <1>1, <1>2, NoRecords DEF MemoryOK
<1>5. OwnersOK
  BY <1>1, <1>2, <1>3 DEF OwnersOK, Owners
<1>6. DeliveriesOK
  BY <1>1, <1>2, <1>3 DEF DeliveriesOK, Deliveries, Uninserted
<1> QED BY <1>4, <1>5, <1>6 DEF CountInv

-----------------------------------------------------------------------------
(***************************************************************************)
(* The theorems                                                            *)
(***************************************************************************)

\* The strengthened invariant holds of every behaviour of the service.
THEOREM InductiveInvariant == Spec => []IInv
<1>1. Init => IInv
  BY InitImpliesIInv
<1>2. IInv /\ [Next]_vars => IInv'
  BY TypeStep, ControlStep, ShutdownStep, EnrichedStep, OffsetsStep DEF IInv
<1> QED BY <1>1, <1>2, PTL DEF Spec

\* Every variable keeps its shape, whatever the partitions, the batch size
\* and the number of retries.
THEOREM TypeCorrectness == Spec => []TypeOK
<1>1. IInv => TypeOK
  BY DEF IInv
<1> QED BY <1>1, InductiveInvariant, PTL

\* No record behind the committed offset of runConsumerLoop just disappears.
THEOREM NoSilentDisappearance == Spec => []CommittedIsRepresented
<1>1. IInv => CommittedIsRepresented
  BY DEF IInv, OffsetsOK
<1> QED BY <1>1, InductiveInvariant, PTL

\* publishToEnriched never announces a log that is not in the table.
THEOREM EnrichedAfterStored == Spec => []EnrichedIsStored
<1>1. IInv => EnrichedIsStored
  BY DEF IInv
<1> QED BY <1>1, InductiveInvariant, PTL

\* When main returns after a SIGTERM, no record is left in memory.
THEOREM ShutdownDrains == Spec => []CleanExitDrains
<1>1. IInv => CleanExitDrains
  <2> SUFFICES ASSUME IInv, life = "exited" PROVE Held = {} /\ hand = NoMessage
    BY DEF CleanExitDrains
  <2>1. pending = << >> /\ pc["consumer"] = "done" /\ pc["timer"] = "done"
    BY DEF IInv, ShutdownOK
  <2>2. \A g \in Goroutine : batch[g] = << >>
    BY <2>1 DEF IInv, ControlOK, Goroutine
  <2>3. Range(<< >>) = {}
    BY DEF Range
  <2>4. hand = NoMessage
    BY <2>1 DEF IInv, ControlOK, Busy
  <2> QED BY <2>1, <2>2, <2>3, <2>4 DEF Held
<1> QED BY <1>1, InductiveInvariant, PTL

\* How the record m may leave memory in a step.
Admitted(m) ==
    \/ m \in Stored' \cup dlq'
    \/ life' = "crashed"
    \/ \E g \in Goroutine : pc[g] = "dlq" /\ attempt[g] = MaxRetries /\ m \in Range(batch[g])
    \/ \E g \in Goroutine : \E n \in Range(batch'[g]) :
            pc[g] = "swap" /\ n # m /\ SameRecord(m, n)

LEMMA AdmittedStep ==
    ASSUME IInv, [Next]_vars, NEW m \in Held \ Held'
    PROVE  Admitted(m)
<1> USE DEF Goroutine, IInv
<1>0. Stored \subseteq Stored'
  BY StoresGrow
<1>1. CASE UNCHANGED <<pending, batch>>
  BY <1>1 DEF Held
<1>2. CASE Add
  <2>1. pending \in Seq(Message) /\ pending' = Append(pending, hand) /\ UNCHANGED batch
    BY <1>2 DEF Add, TypeOK
  <2>2. Range(pending) \subseteq Range(pending')
    BY <2>1 DEF Range
  <2> QED BY <2>1, <2>2 DEF Held
<1>3. ASSUME NEW g \in Goroutine, TakeBatch(g) PROVE Admitted(m)
  <2>1. /\ pending \in Seq(Message)
        /\ pc[g] = "swap"
        /\ batch[g] = << >>
        /\ batch'[g] = Deduplicated(pending)
        /\ \A h \in Goroutine \ {g} : batch'[h] = batch[h]
    BY <1>3 DEF TakeBatch, TypeOK, ControlOK
  <2>2. m \in Range(pending)
    <3>1. Range(<< >>) = {}
      BY DEF Range
    <3> QED BY <2>1, <3>1 DEF Held
  <2>3. PICK n \in Range(Deduplicated(pending)) : SameRecord(m, n)
    BY <2>1, <2>2, DeduplicatedCovers
  <2>4. n # m
    BY <2>1, <2>3 DEF Held
  <2> QED BY <2>1, <2>3, <2>4 DEF Admitted
<1>4. ASSUME NEW g \in Goroutine, PublishToEnriched(g) PROVE Admitted(m)
  <2>1. Range(batch[g]) \subseteq Stored
    BY <1>4 DEF PublishToEnriched, ControlOK
  <2>2. \A h \in Goroutine \ {g} : batch'[h] = batch[h]
    BY <1>4 DEF PublishToEnriched, ReleaseBatch, TypeOK
  <2> QED BY <1>0, <1>4, <2>1, <2>2 DEF PublishToEnriched, Admitted, Held
<1>5. ASSUME NEW g \in Goroutine, SendToDLQ(g) PROVE Admitted(m)
  <2>1. pc[g] = "dlq" /\ attempt[g] = MaxRetries
    BY <1>5 DEF SendToDLQ, ControlOK
  <2>2. \A h \in Goroutine \ {g} : batch'[h] = batch[h]
    BY <1>5 DEF SendToDLQ, ReleaseBatch, TypeOK
  <2> QED BY <1>5, <2>1, <2>2 DEF SendToDLQ, Admitted, Held
<1>6. CASE Crash
  BY <1>6 DEF Crash, Admitted
<1>7. CASE Restart
  <2>1. pending = << >> /\ \A g \in Goroutine : batch[g] = << >>
    BY <1>7 DEF Restart, Up, ShutdownOK, ControlOK, TypeOK, NoBatches
  <2>2. Range(<< >>) = {}
    BY DEF Range
  <2> QED BY <2>1, <2>2 DEF Held
<1>8. \/ UNCHANGED <<pending, batch>>
      \/ Add
      \/ \E g \in Goroutine : TakeBatch(g) \/ PublishToEnriched(g) \/ SendToDLQ(g)
      \/ Crash
      \/ Restart
  BY DEF Next, ConsumerLoop, Flush, FetchMessage, FetchCancelled, CommitMessage, Tick,
         StopReceived, FlushNothing, BulkInsert, BulkInsertFails, BulkInsertUnacknowledged,
         ShutdownSignal, Shutdown, StopBatchWriter, Exit, Rebalance, vars, processVars
<1> QED BY <1>1, <1>2, <1>3, <1>4, <1>5, <1>6, <1>7, <1>8

\* Outside a crash a record leaves memory only for the table or the dead-letter
\* queue, after all attempts of its batch and the DLQ write failed, or for
\* another record of its trace id that the batch keeps.
THEOREM LossesAreAdmitted == Spec => LossIsAdmitted
<1>1. IInv /\ [Next]_vars => \A m \in Held \ Held' : Admitted(m)
  BY AdmittedStep
<1>2. IInv /\ [Next]_vars =>
        \A m \in Held \ Held' :
            \/ m \in Stored' \cup dlq'
            \/ life' = "crashed"
            \/ \E g \in Goroutine :
                    pc[g] = "dlq" /\ attempt[g] = MaxRetries /\ m \in Range(batch[g])
            \/ \E g \in Goroutine : \E n \in Range(batch'[g]) :
                    pc[g] = "swap" /\ n # m /\ SameRecord(m, n)
  BY <1>1 DEF Admitted
<1> QED BY <1>2, InductiveInvariant, PTL DEF Spec, LossIsAdmitted

\* The counts of the last part of the invariant hold as well.
THEOREM CountInvariant == Spec => [](IInv /\ CountInv)
<1>1. Init => IInv /\ CountInv
  BY InitImpliesIInv, CountInit
<1>2. IInv /\ CountInv /\ [Next]_vars => (IInv /\ CountInv)'
  <2> SUFFICES ASSUME IInv, CountInv, [Next]_vars PROVE IInv' /\ CountInv'
    OBVIOUS
  <2>1. IInv'
    BY TypeStep, ControlStep, ShutdownStep, EnrichedStep, OffsetsStep DEF IInv
  <2>2. TypeOK /\ TypeOK' /\ ControlOK
    BY <2>1 DEF IInv
  <2> QED BY <2>1, <2>2, CountInvStep
<1> QED BY <1>1, <1>2, PTL DEF Spec

\* A flush takes the records of the slice away from every other flush: without
\* a rewind no message is in two places, or twice in one.
THEOREM FlushesDoNotShare == Spec => []OneOwner
<1>1. IInv /\ CountInv => OneOwner
  <2> SUFFICES ASSUME IInv, CountInv, rewinds = 0, NEW m \in Message
      PROVE  Copies(pending, m) + Copies(batch["consumer"], m) + Copies(batch["timer"], m) <= 1
    BY DEF OneOwner
  <2>1. Owners(m) <= 1
    BY DEF CountInv, OwnersOK
  <2>2. TypeOK
    BY DEF IInv
  <2>3. IsFiniteSet(DOMAIN pending)
    <3>1. DOMAIN pending = 1 .. Len(pending)
      BY <2>2 DEF TypeOK
    <3> QED BY <3>1, FS_Interval
  <2>4. /\ Copies(pending, m) \in Nat
        /\ Copies(batch["consumer"], m) \in Nat /\ Copies(batch["timer"], m) \in Nat
    BY <2>2, <2>3, CopiesType DEF TypeOK, Goroutine
  <2>5. InHand(m) \in Nat /\ ToCome(m) \in Nat
    BY DEF InHand, ToCome
  <2> QED BY <2>1, <2>4, <2>5 DEF Owners
<1> QED BY <1>1, CountInvariant, PTL

\* Retries, redeliveries and the two flushes never insert one delivery twice.
THEOREM RowsAreDeliveries == Spec => []OneRowPerDelivery
<1>1. IInv /\ CountInv => OneRowPerDelivery
  <2> SUFFICES ASSUME IInv, CountInv, ~ ambiguous, NEW m \in Message
      PROVE  rows[m] <= 1 + rewinds
    BY DEF OneRowPerDelivery
  <2>1. Deliveries(m) <= 1 + rewinds
    BY DEF CountInv, DeliveriesOK
  <2>2. TypeOK
    BY DEF IInv
  <2>3. IsFiniteSet(DOMAIN pending)
    <3>1. DOMAIN pending = 1 .. Len(pending)
      BY <2>2 DEF TypeOK
    <3> QED BY <3>1, FS_Interval
  <2>4. /\ Copies(pending, m) \in Nat
        /\ Copies(batch["consumer"], m) \in Nat /\ Copies(batch["timer"], m) \in Nat
    BY <2>2, <2>3, CopiesType DEF TypeOK, Goroutine
  <2>5. /\ InHand(m) \in Nat /\ ToCome(m) \in Nat
        /\ Uninserted("consumer", m) \in Nat /\ Uninserted("timer", m) \in Nat
        /\ rows[m] \in Nat /\ rewinds \in Nat
    BY <2>2, <2>4 DEF InHand, ToCome, Uninserted, TypeOK
  <2> QED BY <2>1, <2>4, <2>5 DEF Deliveries
<1> QED BY <1>1, CountInvariant, PTL

\* However slow the database, at most two batches are in memory: while the
\* consumer flushes it adds nothing.
THEOREM BackPressure == Spec => []MemoryBounded
<1>1. IInv /\ CountInv => MemoryBounded
  <2> SUFFICES ASSUME IInv, CountInv PROVE MemoryBounded
    OBVIOUS
  <2>1. /\ Len(pending) <= BatchSize /\ Len(pending) \in Nat
        /\ \A g \in Goroutine : /\ Cardinality(DOMAIN batch[g]) <= BatchSize
                                /\ Cardinality(DOMAIN batch[g]) \in Nat
    BY FS_CardinalityType DEF CountInv, MemoryOK, IInv, TypeOK
  <2>2. pending = << >> \/ batch["consumer"] = << >>
    BY DEF CountInv, MemoryOK, IInv, ControlOK, Goroutine
  <2>3. Len(pending) = 0 \/ Cardinality(DOMAIN batch["consumer"]) = 0
    BY <2>2, NoRecords
  <2>4. BatchSize \in Nat
    BY ConstantsAssumption
  <2> QED BY <2>1, <2>3, <2>4 DEF MemoryBounded, Goroutine
<1> QED BY <1>1, CountInvariant, PTL

=============================================================================
