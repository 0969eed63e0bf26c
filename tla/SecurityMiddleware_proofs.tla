---------------------- MODULE SecurityMiddleware_proofs ----------------------
(***************************************************************************)
(* Proofs about SecurityMiddleware, for every value of its constants: it   *)
(* is type correct, a flagged log is audited before it goes downstream, a  *)
(* shutdown takes no message from the task, no log behind the committed    *)
(* offset was passed over but those no event can be built for, and a       *)
(* delivery makes one clean copy and one for each lost acknowledgement.    *)
(***************************************************************************)
EXTENDS SecurityMiddleware, TLAPS, SequenceTheorems, FiniteSetTheorems

(***************************************************************************)
(* The inductive invariant                                                 *)
(***************************************************************************)

\* The task is between a poll and the end of its message.
Busy == pc \notin {"poll", "returned"}

\* What the task holds at each control point.
ControlOK ==
    /\ Busy => hand \in Message
    /\ ~ Busy => hand = NoMessage
    /\ pc \in Threat \cup {AuditStep(t) : t \in Threat} \cup {"publish"} => hand \in Loggable
    /\ pc \in {"injection", "injection_audit"} => hand \in Injected
    /\ pc \in {"pii", "pii_audit"} => hand \in Pii
    /\ pc = "parse_error" => hand \in Invalid

\* Which audit rows exist at each control point, and for what is downstream.
AuditOK ==
    /\ pc \in {"pii", "pii_audit", "publish"} /\ hand \in Injected
            => <<"injection", hand>> \in audited
    /\ pc = "publish" /\ hand \in Pii => <<"pii", hand>> \in audited
    /\ FlaggedIsAudited

\* The message needs no forwarding, or was forwarded.
Safe(m) == m \in Loggable \ Raising => Forwarded(m)

\* Every message behind a commit, behind a commit in flight, behind the reader
\* of a live process and before the message in hand is accounted for; so is
\* the one in hand once its offset may be committed.
OffsetsOK ==
    /\ CommittedIsForwarded
    /\ \A p \in Partition : \A i \in 1 .. commitSent[p] - 1 : Safe(<<p, i>>)
    /\ Up => \A p \in Partition : \A i \in 1 .. position[p] - 1 :
                Safe(<<p, i>>) \/ (Busy /\ hand = <<p, i>>)
    /\ Busy => \A i \in 1 .. hand[2] - 1 : Safe(<<hand[1], i>>)
    /\ pc = "commit" => Safe(hand)

IInv == TypeOK /\ ControlOK /\ AuditOK /\ OffsetsOK

\* Occurrences of an output in the buffer.
Waiting(s, e) == Cardinality({i \in DOMAIN s : s[i] = e})

\* The delivery of m the task has yet to publish, and the one to come.
InHand(m) == IF hand = m /\ pc # "commit" THEN 1 ELSE 0
ToCome(m) == IF position[m[1]] <= m[2] THEN 1 ELSE 0

\* Every clean copy, delivered, waiting or possible, is a delivery of its own
\* or was sent again for a lost acknowledgement.
Deliveries(m) == clean[m] + Waiting(outbox, <<"clean", m>>) + InHand(m) + ToCome(m)

DeliveriesOK == \A m \in Message : Deliveries(m) <= 1 + rewinds + resent[m]

-----------------------------------------------------------------------------
(***************************************************************************)
(* The producer's buffer                                                   *)
(***************************************************************************)

\* The entries that are left when one is taken out of the buffer.
LEMMA RemovedEntries ==
    ASSUME NEW s \in Seq(Output), NEW i \in DOMAIN s
    PROVE  /\ RemoveAt(s, i) \in Seq(Output)
           /\ Len(RemoveAt(s, i)) = Len(s) - 1
           /\ \A j \in 1 .. Len(s) - 1 : RemoveAt(s, i)[j] = IF j < i THEN s[j] ELSE s[j + 1]
<1> DEFINE n == Len(s)
           l == SubSeq(s, 1, i - 1)
           r == SubSeq(s, i + 1, n)
           t == l \o r
<1>1. n \in Nat /\ DOMAIN s = 1 .. n /\ i \in 1 .. n
  OBVIOUS
<1>2. l \in Seq(Output) /\ Len(l) = i - 1 /\ \A j \in 1 .. i - 1 : l[j] = s[j]
  BY <1>1
<1>3. r \in Seq(Output) /\ Len(r) = n - i /\ \A j \in 1 .. n - i : r[j] = s[i + j]
  BY <1>1
<1>4. RemoveAt(s, i) = t
  BY DEF RemoveAt
<1> HIDE DEF l, r
<1>5. /\ t \in Seq(Output) /\ Len(t) = Len(l) + Len(r)
      /\ \A j \in 1 .. Len(l) + Len(r) : t[j] = IF j <= Len(l) THEN l[j] ELSE r[j - Len(l)]
  BY <1>2, <1>3, ConcatProperties
<1> HIDE DEF n, t
<1>6. Len(l) + Len(r) = n - 1
  BY <1>1, <1>2, <1>3
<1>7. t \in Seq(Output) /\ Len(t) = n - 1 /\ DOMAIN t = 1 .. n - 1
  BY <1>5, <1>6
<1>8. \A j \in 1 .. n - 1 : t[j] = IF j < i THEN s[j] ELSE s[j + 1]
  <2> TAKE j \in 1 .. n - 1
  <2>0. j \in Int /\ i \in Int /\ n \in Int /\ 1 <= j /\ j <= n - 1 /\ 1 <= i /\ i <= n
    BY <1>1
  <2>1. t[j] = IF j <= i - 1 THEN l[j] ELSE r[j - (i - 1)]
    BY <1>2, <1>5, <1>6
  <2>2. CASE j < i
    <3>1. j \in 1 .. i - 1
      BY <2>0, <2>2
    <3>2. l[j] = s[j]
      BY <1>2, <3>1
    <3> QED BY <2>0, <2>1, <2>2, <3>1, <3>2
  <2>3. CASE ~ (j < i)
    <3>1. j - (i - 1) \in 1 .. n - i /\ i + (j - (i - 1)) = j + 1 /\ ~ (j <= i - 1)
      BY <2>0, <2>3
    <3>2. r[j - (i - 1)] = s[i + (j - (i - 1))]
      BY <1>3, <3>1
    <3> QED BY <2>1, <2>3, <3>1, <3>2
  <2> QED BY <2>2, <2>3
<1> QED BY <1>4, <1>7, <1>8 DEF n

\* Taking an entry out of the buffer keeps all others.
LEMMA BufferShrinks ==
    ASSUME NEW s \in Seq(Output), NEW i \in DOMAIN s
    PROVE  /\ RemoveAt(s, i) \in Seq(Output)
           /\ Len(RemoveAt(s, i)) = Len(s) - 1
           /\ ToSet(s) \subseteq ToSet(RemoveAt(s, i)) \cup {s[i]}
           /\ ToSet(RemoveAt(s, i)) \subseteq ToSet(s)
<1> DEFINE n == Len(s)
           t == RemoveAt(s, i)
<1>1. n \in Nat /\ DOMAIN s = 1 .. n /\ i \in 1 .. n
  OBVIOUS
<1>6. /\ t \in Seq(Output) /\ Len(t) = n - 1
      /\ \A j \in 1 .. n - 1 : t[j] = IF j < i THEN s[j] ELSE s[j + 1]
  BY RemovedEntries
<1> HIDE DEF t, n
<1>7. t \in Seq(Output) /\ Len(t) = n - 1 /\ DOMAIN t = 1 .. n - 1
  BY <1>1, <1>6
<1>8. \A j \in 1 .. n - 1 : t[j] = IF j < i THEN s[j] ELSE s[j + 1]
  BY <1>6
<1>9. ToSet(s) \subseteq ToSet(t) \cup {s[i]}
  <2> SUFFICES ASSUME NEW k \in 1 .. n, k # i
               PROVE  \E j \in 1 .. n - 1 : t[j] = s[k]
    BY <1>1, <1>7 DEF ToSet
  <2>1. CASE k < i
    <3>1. k \in 1 .. n - 1
      BY <2>1, <1>1
    <3> QED BY <2>1, <3>1, <1>8
  <2>2. CASE ~ (k < i)
    <3>1. k - 1 \in 1 .. n - 1 /\ ~ (k - 1 < i) /\ (k - 1) + 1 = k
      BY <2>2, <1>1
    <3>2. t[k - 1] = s[(k - 1) + 1]
      BY <3>1, <1>8
    <3> QED BY <3>1, <3>2
  <2> QED BY <2>1, <2>2
<1>10. ToSet(t) \subseteq ToSet(s)
  <2> SUFFICES ASSUME NEW j \in 1 .. n - 1
               PROVE  t[j] \in ToSet(s)
    BY <1>7 DEF ToSet
  <2>1. j \in 1 .. n /\ j + 1 \in 1 .. n
    BY <1>1
  <2> QED BY <2>1, <1>1, <1>8 DEF ToSet
<1> QED BY <1>7, <1>9, <1>10 DEF n, t

\* Appending to the buffer adds one entry to its set.
LEMMA BufferGrows ==
    ASSUME NEW s \in Seq(Output), NEW e \in Output
    PROVE  /\ Append(s, e) \in Seq(Output)
           /\ Len(Append(s, e)) = Len(s) + 1
           /\ ToSet(Append(s, e)) = ToSet(s) \cup {e}
<1> DEFINE t == Append(s, e)
<1>1. /\ t \in Seq(Output) /\ Len(t) = Len(s) + 1
      /\ \A j \in 1 .. Len(s) : t[j] = s[j]
      /\ t[Len(s) + 1] = e
  BY AppendProperties
<1> HIDE DEF t
<1>2. DOMAIN s = 1 .. Len(s) /\ DOMAIN t = 1 .. Len(s) + 1 /\ Len(s) \in Nat
  BY <1>1
<1>3. 1 .. Len(s) + 1 = 1 .. Len(s) \cup {Len(s) + 1}
  BY <1>2
<1>4. ToSet(t) \subseteq ToSet(s) \cup {e}
  BY <1>1, <1>2, <1>3 DEF ToSet
<1>5. ToSet(s) \cup {e} \subseteq ToSet(t)
  BY <1>1, <1>2, <1>3 DEF ToSet
<1> QED BY <1>1, <1>4, <1>5 DEF t


-----------------------------------------------------------------------------
(***************************************************************************)
(* Initial states and types                                                *)
(***************************************************************************)

LEMMA InitImpliesIInv == Init => IInv
<1> SUFFICES ASSUME Init PROVE IInv
  OBVIOUS
<1> USE SecurityAssumption
<1>1. TypeOK
  <2>1. outbox \in Seq(Output) /\ Len(outbox) = 0 /\ 0 <= QueueLimit
    BY DEF Init
  <2> QED BY <2>1 DEF Init, TypeOK, NoCommit
<1>2. ControlOK
  BY DEF Init, ControlOK, Busy, Threat, AuditStep
<1>3. AuditOK
  <2>1. ToSet(outbox) = {}
    BY DEF Init, ToSet
  <2>2. Buffered \cup Delivered = {}
    BY <2>1 DEF Init, Buffered, Delivered
  <2> QED BY <2>2 DEF Init, AuditOK, FlaggedIsAudited
<1>4. OffsetsOK
  BY DEF Init, OffsetsOK, CommittedIsForwarded, NoCommit, Busy
<1> QED BY <1>1, <1>2, <1>3, <1>4 DEF IInv

\* The parts of a message.
LEMMA MessageParts ==
    ASSUME NEW m \in Message
    PROVE  m[1] \in Partition /\ m[2] \in 1 .. LogLen /\ m = <<m[1], m[2]>>
BY DEF Message

\* What enters the buffer is an output, and the buffer keeps its bound.
LEMMA PublishJsonProperties ==
    ASSUME TypeOK, NEW out \in Output, PublishJson(out)
    PROVE  /\ outbox' \in Seq(Output) /\ Len(outbox') <= QueueLimit
           /\ ToSet(outbox) \subseteq ToSet(outbox')
           /\ ToSet(outbox') \subseteq ToSet(outbox) \cup {out}
<1>1. CASE Full
  BY <1>1 DEF PublishJson, TypeOK
<1>2. CASE ~ Full
  <2>1. outbox' = Append(outbox, out) /\ outbox \in Seq(Output)
    BY <1>2 DEF PublishJson, TypeOK
  <2>2. Len(outbox) < QueueLimit
    BY <1>2, SecurityAssumption DEF Full, TypeOK
  <2> QED BY <2>1, <2>2, BufferGrows, SecurityAssumption DEF TypeOK
<1> QED BY <1>1, <1>2

LEMMA TypeStep ==
    ASSUME TypeOK, ControlOK, [Next]_vars
    PROVE  TypeOK'
<1> USE SecurityAssumption DEF TypeOK
<1>1. ASSUME NEW p \in Partition, Poll(p) PROVE TypeOK'
  <2>1. position[p] \in 1 .. LogLen
    BY <1>1 DEF Poll
  <2>2. hand' \in Message /\ position' \in [Partition -> 1 .. LogLen + 1]
    BY <1>1, <2>1 DEF Poll, Message
  <2>3. pc' \in {"poll", "parse_error", "publish", "commit", "returned"} \cup Threat
    BY <1>1 DEF Poll, FirstStep, AfterInjection, Threat
  <2> QED BY <1>1, <2>2, <2>3 DEF Poll, envVars, historyVars
<1>2. CASE PublishParseError
  <2>1. <<"parse_error", hand>> \in Output
    BY <1>2 DEF PublishParseError, ControlOK, Busy, Output
  <2> QED BY <1>2, <2>1, PublishJsonProperties DEF PublishParseError, envVars, historyVars
<1>3. ASSUME NEW t \in Threat, PublishEvent(t) PROVE TypeOK'
  <2>1. hand \in Message
    BY <1>3 DEF PublishEvent, ControlOK, Busy, Threat
  <2>2. <<t, hand>> \in Output
    BY <2>1 DEF Output
  <2>3. PublishJson(<<t, hand>>)
    BY <1>3 DEF PublishEvent
  <2>4. outbox' \in Seq(Output) /\ Len(outbox') <= QueueLimit
    BY <2>2, <2>3, PublishJsonProperties
  <2> QED BY <1>3, <2>4 DEF PublishEvent, envVars, historyVars
<1>18. ASSUME NEW t \in Threat, EventRaises(t) PROVE TypeOK'
  BY <1>18 DEF EventRaises, NextIteration, envVars, historyVars
<1>19. ASSUME NEW i \in DOMAIN outbox, DeliverUnacknowledged(i) PROVE TypeOK'
  <2>1. PICK m \in Message : /\ clean' = [clean EXCEPT ![m] = @ + 1]
                             /\ resent' = [resent EXCEPT ![m] = @ + 1]
    BY <1>19 DEF DeliverUnacknowledged
  <2>2. clean' \in [Message -> Nat] /\ resent' \in [Message -> Nat]
    BY <2>1
  <2> QED BY <1>19, <2>2 DEF DeliverUnacknowledged, processVars
<1>4. ASSUME NEW t \in Threat, AuditEvent(t) PROVE TypeOK'
  <2>1. hand \in Message
    BY <1>4 DEF AuditEvent, ControlOK, Busy, Threat, AuditStep
  <2>2. audited' \subseteq Threat \X Message
    BY <1>4, <2>1 DEF AuditEvent
  <2>3. pc' \in {"publish"} \cup Threat
    BY <1>4 DEF AuditEvent, AfterInjection, Threat
  <2> QED BY <1>4, <2>2, <2>3 DEF AuditEvent, historyVars
<1>5. CASE PublishClean
  <2>1. <<"clean", hand>> \in Output
    BY <1>5 DEF PublishClean, ControlOK, Busy, Output
  <2>2. PublishJson(<<"clean", hand>>)
    BY <1>5 DEF PublishClean, PublishJson
  <2>3. outbox' \in Seq(Output) /\ Len(outbox') <= QueueLimit
    BY <2>1, <2>2, PublishJsonProperties
  <2> QED BY <1>5, <2>3 DEF PublishClean, envVars, historyVars
<1>6. CASE PublishCleanFails
  BY <1>6 DEF PublishCleanFails, envVars, historyVars
<1>7. CASE GiveUp
  BY <1>7 DEF GiveUp, envVars, ControlOK, NextIteration
<1>8. CASE CommitOffset
  <2>1. hand[1] \in Partition /\ hand[2] \in 1 .. LogLen
    BY <1>8, MessageParts DEF CommitOffset, ControlOK, Busy
  <2>2. commitSent' \in [Partition -> 0 .. LogLen + 1]
    BY <1>8, <2>1 DEF CommitOffset
  <2> QED BY <1>8, <2>2 DEF CommitOffset, envVars, historyVars, NextIteration
<1>9. CASE LoopReturns
  BY <1>9 DEF LoopReturns, envVars, historyVars
<1>10. ASSUME NEW i \in DOMAIN outbox, Deliver(i) PROVE TypeOK'
  <2>1. outbox' \in Seq(Output) /\ Len(outbox') = Len(outbox) - 1
    BY <1>10, BufferShrinks DEF Deliver
  <2>2. clean' \in [Message -> Nat]
    BY <1>10 DEF Deliver
  <2>3. Len(outbox') <= QueueLimit
    BY <2>1
  <2> QED BY <1>10, <2>1, <2>2, <2>3 DEF Deliver, historyVars
<1>11. ASSUME NEW i \in DOMAIN outbox, DeliveryFails(i) PROVE TypeOK'
  <2>1. outbox' \in Seq(Output) /\ Len(outbox') = Len(outbox) - 1
    BY <1>11, BufferShrinks DEF DeliveryFails
  <2>2. Len(outbox') <= QueueLimit
    BY <2>1
  <2> QED BY <1>11, <2>1, <2>2 DEF DeliveryFails, envVars
<1>12. ASSUME NEW p \in Partition, CommitArrives(p) PROVE TypeOK'
  <2>1. commitSent[p] \in 1 .. LogLen + 1
    BY <1>12 DEF CommitArrives
  <2>2. committed' \in [Partition -> 1 .. LogLen + 1]
    BY <1>12, <2>1 DEF CommitArrives
  <2>3. commitSent' \in [Partition -> 0 .. LogLen + 1]
    BY <1>12 DEF CommitArrives
  <2> QED BY <1>12, <2>2, <2>3 DEF CommitArrives, historyVars
<1>13. CASE StopSignal
  BY <1>13 DEF StopSignal, envVars, historyVars
<1>14. ASSUME NEW end \in {"exited", "crashed"}, Dies(end) PROVE TypeOK'
  <2>1. outbox' \in Seq(Output) /\ Len(outbox') = 0
    BY <1>14 DEF Dies
  <2> QED BY <1>14, <2>1 DEF Dies, envVars, NoCommit, Buffered
<1>15. CASE Restart
  BY <1>15 DEF Restart, envVars
<1>16. CASE Rebalance
  BY <1>16 DEF Rebalance, envVars
<1>17. CASE UNCHANGED vars
  BY <1>17 DEF vars, envVars, processVars, historyVars
<1> QED
  BY <1>1, <1>2, <1>3, <1>4, <1>5, <1>6, <1>7, <1>8, <1>9, <1>10, <1>11, <1>12, <1>13, <1>14,
     <1>15, <1>16, <1>17, <1>18, <1>19
     DEF Next, Loop, ProcessMessage, Producer, Exit, Crash


-----------------------------------------------------------------------------
(***************************************************************************)
(* Control points                                                          *)
(***************************************************************************)

\* Nothing the pipeline forwards is malformed.
LEMMA Flagged == Injected \cup Pii \subseteq Loggable
BY SecurityAssumption DEF Loggable

LEMMA ControlStep ==
    ASSUME TypeOK, ControlOK, [Next]_vars
    PROVE  ControlOK'
<1> USE DEF ControlOK, Busy, Threat, AuditStep
<1>1. ASSUME NEW p \in Partition, Poll(p) PROVE ControlOK'
  <2>1. hand' \in Message
    BY <1>1, SecurityAssumption DEF Poll, Message, TypeOK
  <2> QED BY <1>1, <2>1, Flagged DEF Poll, FirstStep, AfterInjection, Loggable
<1>2. CASE PublishParseError
  BY <1>2 DEF PublishParseError
<1>3. ASSUME NEW t \in Threat, PublishEvent(t) PROVE ControlOK'
  BY <1>3 DEF PublishEvent
<1>15. ASSUME NEW t \in Threat, EventRaises(t) PROVE ControlOK'
  BY <1>15 DEF EventRaises, NextIteration
<1>4. ASSUME NEW t \in Threat, AuditEvent(t) PROVE ControlOK'
  BY <1>4 DEF AuditEvent, AfterInjection, Loggable
<1>5. CASE PublishClean
  BY <1>5 DEF PublishClean
<1>6. CASE PublishCleanFails
  BY <1>6 DEF PublishCleanFails
<1>7. CASE GiveUp
  BY <1>7 DEF GiveUp, NextIteration
<1>8. CASE CommitOffset
  BY <1>8 DEF CommitOffset, NextIteration
<1>9. CASE LoopReturns
  BY <1>9 DEF LoopReturns
<1>10. ASSUME NEW i \in DOMAIN outbox, Deliver(i) \/ DeliverUnacknowledged(i) \/ DeliveryFails(i)
      PROVE  ControlOK'
  BY <1>10 DEF Deliver, DeliverUnacknowledged, DeliveryFails, processVars
<1>11. ASSUME NEW p \in Partition, CommitArrives(p) PROVE ControlOK'
  BY <1>11 DEF CommitArrives
<1>12. CASE StopSignal \/ Restart \/ Rebalance
  BY <1>12 DEF StopSignal, Restart, Rebalance
<1>13. ASSUME NEW end, Dies(end) PROVE ControlOK'
  BY <1>13 DEF Dies
<1>14. CASE UNCHANGED vars
  BY <1>14 DEF vars, processVars
<1> QED
  BY <1>1, <1>2, <1>3, <1>4, <1>5, <1>6, <1>7, <1>8, <1>9, <1>10, <1>11, <1>12, <1>13, <1>14,
     <1>15
     DEF Next, Loop, ProcessMessage, Producer, Exit, Crash

-----------------------------------------------------------------------------
(***************************************************************************)
(* The fate of a message                                                   *)
(***************************************************************************)

\* Only PublishClean adds a clean copy to the buffer or the topic; a copy that
\* leaves the buffer is delivered or lost; and the audit rows stay.
LEMMA FateStep ==
    ASSUME TypeOK, ControlOK, [Next]_vars
    PROVE  /\ \A m \in Message : Forwarded(m) => Forwarded(m)'
           /\ audited \subseteq audited'
           /\ ~ PublishClean => Buffered' \cup Delivered' \subseteq Buffered \cup Delivered
           /\ PublishClean => Buffered' \cup Delivered' \subseteq Buffered \cup Delivered \cup {hand}
           /\ PublishClean => hand \in Buffered'
<1> DEFINE Goal ==
        /\ \A m \in Message : Forwarded(m) => Forwarded(m)'
        /\ audited \subseteq audited'
        /\ Buffered' \cup Delivered' \subseteq Buffered \cup Delivered
<1> USE DEF Forwarded
<1>1. ASSUME UNCHANGED <<clean, audited, outbox, lost, skipped>> PROVE Goal
  BY <1>1 DEF Buffered, Delivered
<1>2. ASSUME NEW out \in Output, \A m \in Message : out # <<"clean", m>>, PublishJson(out),
             UNCHANGED <<clean, audited, lost, skipped>>
      PROVE  Goal
  <2>1. Buffered' = Buffered
    <3>1. /\ ToSet(outbox) \subseteq ToSet(outbox')
          /\ ToSet(outbox') \subseteq ToSet(outbox) \cup {out}
      BY <1>2, PublishJsonProperties
    <3> QED BY <1>2, <3>1 DEF Buffered
  <2> QED BY <1>2, <2>1 DEF Delivered
<1>3. ASSUME PublishParseError PROVE Goal
  <2>1. <<"parse_error", hand>> \in Output
    BY <1>3 DEF PublishParseError, ControlOK, Busy, Output
  <2>2. PublishJson(<<"parse_error", hand>>) /\ UNCHANGED <<clean, audited, lost, skipped>>
    BY <1>3 DEF PublishParseError, envVars, historyVars
  <2>3. \A m \in Message : <<"parse_error", hand>> # <<"clean", m>>
    OBVIOUS
  <2> QED BY <1>2, <2>1, <2>2, <2>3
<1>4. ASSUME NEW t \in Threat, PublishEvent(t) PROVE Goal
  <2>1. <<t, hand>> \in Output /\ \A m \in Message : <<t, hand>> # <<"clean", m>>
    BY <1>4 DEF PublishEvent, ControlOK, Busy, Output, Threat
  <2> QED BY <1>2, <1>4, <2>1 DEF PublishEvent, envVars, historyVars
<1>5. ASSUME NEW t \in Threat, AuditEvent(t) PROVE Goal
  <2>1. audited \subseteq audited' /\ UNCHANGED <<clean, outbox, lost, skipped>>
    BY <1>5 DEF AuditEvent, historyVars
  <2> QED BY <2>1 DEF Buffered, Delivered
<1>6. ASSUME PublishClean
      PROVE  /\ \A m \in Message : Forwarded(m) => Forwarded(m)'
             /\ audited \subseteq audited'
             /\ Buffered' \cup Delivered' \subseteq Buffered \cup Delivered \cup {hand}
             /\ hand \in Buffered'
  <2>1. hand \in Message /\ <<"clean", hand>> \in Output
    BY <1>6 DEF PublishClean, ControlOK, Busy, Output
  <2>2. ToSet(outbox') = ToSet(outbox) \cup {<<"clean", hand>>}
    BY <1>6, <2>1, BufferGrows DEF PublishClean, TypeOK
  <2>3. Buffered' = Buffered \cup {hand}
    BY <2>1, <2>2 DEF Buffered
  <2> QED BY <1>6, <2>3 DEF PublishClean, envVars, historyVars, Delivered
<1>7. ASSUME GiveUp PROVE Goal
  <2>1. skipped \subseteq skipped' /\ UNCHANGED <<clean, audited, outbox, lost>>
    BY <1>7 DEF GiveUp, envVars
  <2>2. Buffered' = Buffered /\ Delivered' = Delivered
    BY <2>1 DEF Buffered, Delivered
  <2>3. lost' = lost /\ audited' = audited
    BY <2>1
  <2> QED BY <2>1, <2>2, <2>3
<1>8. ASSUME NEW i \in DOMAIN outbox, Deliver(i) PROVE Goal
  <2>1. /\ ToSet(outbox) \subseteq ToSet(outbox') \cup {outbox[i]}
        /\ ToSet(outbox') \subseteq ToSet(outbox)
        /\ Len(outbox') = Len(outbox) - 1
    BY <1>8, BufferShrinks DEF Deliver, TypeOK
  <2>2. \A m \in Message : /\ clean[m] \in Nat /\ clean'[m] \in Nat /\ clean'[m] >= clean[m]
                           /\ (outbox[i] = <<"clean", m>> => clean'[m] > 0)
    BY <1>8 DEF Deliver, TypeOK
  <2>3. \A m \in Message : clean'[m] > 0 => clean[m] > 0 \/ outbox[i] = <<"clean", m>>
    BY <1>8 DEF Deliver, TypeOK
  <2>4. outbox[i] \in ToSet(outbox)
    BY DEF ToSet
  <2>5. Delivered \subseteq Delivered' /\ Buffered \subseteq Buffered' \cup Delivered'
    BY <2>1, <2>2 DEF Delivered, Buffered
  <2>6. Buffered' \subseteq Buffered /\ Delivered' \subseteq Delivered \cup Buffered
    BY <2>1, <2>3, <2>4 DEF Delivered, Buffered
  <2> QED BY <1>8, <2>5, <2>6 DEF Deliver, historyVars
<1>13. ASSUME NEW i \in DOMAIN outbox, DeliverUnacknowledged(i) PROVE Goal
  <2>1. PICK m \in Message : outbox[i] = <<"clean", m>> /\ clean' = [clean EXCEPT ![m] = @ + 1]
    BY <1>13 DEF DeliverUnacknowledged
  <2>2. m \in Buffered
    BY <2>1 DEF Buffered, ToSet
  <2>3. Delivered \subseteq Delivered' /\ Delivered' \subseteq Delivered \cup {m}
    BY <2>1 DEF Delivered, TypeOK
  <2>4. UNCHANGED <<audited, outbox, lost, skipped>>
    BY <1>13 DEF DeliverUnacknowledged, processVars
  <2>5. Buffered' = Buffered
    BY <2>4 DEF Buffered
  <2> QED BY <2>2, <2>3, <2>4, <2>5
<1>9. ASSUME NEW i \in DOMAIN outbox, DeliveryFails(i) PROVE Goal
  <2>1. /\ ToSet(outbox) \subseteq ToSet(outbox') \cup {outbox[i]}
        /\ ToSet(outbox') \subseteq ToSet(outbox)
        /\ Len(outbox') = Len(outbox) - 1
    BY <1>9, BufferShrinks DEF DeliveryFails, TypeOK
  <2>2. Buffered \subseteq Buffered' \cup lost' /\ Buffered' \subseteq Buffered
    BY <1>9, <2>1 DEF Buffered, DeliveryFails
  <2> QED BY <1>9, <2>2 DEF DeliveryFails, envVars, Delivered
<1>10. ASSUME NEW end, Dies(end) PROVE Goal
  <2>1. ToSet(outbox') = {}
    BY <1>10 DEF Dies, ToSet
  <2>2. Buffered' = {} /\ Delivered' = Delivered /\ Buffered \subseteq lost' /\ lost \subseteq lost'
    BY <1>10, <2>1 DEF Dies, envVars, Buffered, Delivered
  <2> QED BY <1>10, <2>2 DEF Dies, envVars
<1>11. CASE Next /\ ~ PublishClean
  <2> USE <1>11
  <2>1. CASE (\E p \in Partition : Poll(p)) \/ PublishCleanFails \/ CommitOffset \/ LoopReturns
             \/ (\E p \in Partition : CommitArrives(p)) \/ StopSignal \/ Restart \/ Rebalance
    BY <1>1, <2>1 DEF Poll, PublishCleanFails, CommitOffset, LoopReturns, CommitArrives,
          StopSignal, Restart, Rebalance, envVars, historyVars
  <2>5. ASSUME NEW t \in Threat, EventRaises(t) PROVE Goal
    BY <1>1, <2>5 DEF EventRaises, envVars, historyVars
  <2>2. CASE ProcessMessage
    BY <1>3, <1>4, <1>5, <1>7, <2>1, <2>2, <2>5 DEF ProcessMessage
  <2>3. CASE Producer
    BY <1>8, <1>9, <1>13, <2>3 DEF Producer
  <2>4. CASE Exit \/ Crash
    BY <1>10, <2>4 DEF Exit, Crash
  <2> QED BY <1>11, <2>1, <2>2, <2>3, <2>4 DEF Next, Loop
<1>12. CASE UNCHANGED vars
  BY <1>1, <1>6, <1>12 DEF vars, envVars, processVars, historyVars
<1> QED BY <1>6, <1>11, <1>12


-----------------------------------------------------------------------------
(***************************************************************************)
(* Audit rows                                                              *)
(***************************************************************************)

LEMMA AuditControlStep ==
    ASSUME TypeOK, ControlOK, AuditOK, [Next]_vars, audited \subseteq audited'
    PROVE  /\ pc' \in {"pii", "pii_audit", "publish"} /\ hand' \in Injected
                => <<"injection", hand'>> \in audited'
           /\ pc' = "publish" /\ hand' \in Pii => <<"pii", hand'>> \in audited'
<1> DEFINE Goal ==
        /\ pc' \in {"pii", "pii_audit", "publish"} /\ hand' \in Injected
                => <<"injection", hand'>> \in audited'
        /\ pc' = "publish" /\ hand' \in Pii => <<"pii", hand'>> \in audited'
<1> USE DEF AuditOK, Threat, AuditStep
<1>1. ASSUME NEW p \in Partition, Poll(p) PROVE Goal
  BY <1>1 DEF Poll, FirstStep, AfterInjection
<1>2. ASSUME NEW t \in Threat, PublishEvent(t) PROVE Goal
  BY <1>2 DEF PublishEvent
<1>3. ASSUME NEW t \in Threat, AuditEvent(t) PROVE Goal
  <2>1. CASE t = "injection"
    BY <1>3, <2>1 DEF AuditEvent, AfterInjection
  <2>2. CASE t = "pii"
    BY <1>3, <2>2 DEF AuditEvent
  <2> QED BY <2>1, <2>2
<1>4. CASE \/ PublishParseError \/ PublishClean \/ GiveUp \/ CommitOffset
           \/ \E t \in Threat : EventRaises(t)
  BY <1>4 DEF PublishParseError, PublishClean, GiveUp, CommitOffset, EventRaises, NextIteration
<1>5. CASE UNCHANGED <<pc, hand>>
  BY <1>5
<1>6. CASE LoopReturns
  BY <1>6 DEF LoopReturns
<1>7. ASSUME NEW end, Dies(end) PROVE Goal
  BY <1>7 DEF Dies
<1>8. CASE \/ PublishCleanFails \/ Producer \/ (\E p \in Partition : CommitArrives(p))
           \/ StopSignal \/ Restart \/ Rebalance \/ UNCHANGED vars
  BY <1>5, <1>8 DEF PublishCleanFails, Producer, Deliver, DeliverUnacknowledged,
        DeliveryFails, CommitArrives,
        StopSignal, Restart, Rebalance, vars, processVars
<1> QED BY <1>1, <1>2, <1>3, <1>4, <1>6, <1>7, <1>8
        DEF Next, Loop, ProcessMessage, Exit, Crash

LEMMA AuditOKStep ==
    ASSUME TypeOK, ControlOK, AuditOK, [Next]_vars
    PROVE  AuditOK'
<1>1. audited \subseteq audited'
  BY FateStep
<1>2. FlaggedIsAudited'
  <2>1. CASE PublishClean
    <3>1. Buffered' \cup Delivered' \subseteq Buffered \cup Delivered \cup {hand}
      BY <2>1, FateStep
    <3>2. /\ hand \in Injected => <<"injection", hand>> \in audited
          /\ hand \in Pii => <<"pii", hand>> \in audited
      BY <2>1 DEF PublishClean, AuditOK
    <3> QED BY <1>1, <3>1, <3>2 DEF AuditOK, FlaggedIsAudited
  <2>2. CASE ~ PublishClean
    <3>1. Buffered' \cup Delivered' \subseteq Buffered \cup Delivered
      BY <2>2, FateStep
    <3> QED BY <1>1, <3>1 DEF AuditOK, FlaggedIsAudited
  <2> QED BY <2>1, <2>2
<1> QED BY <1>1, <1>2, AuditControlStep DEF AuditOK

-----------------------------------------------------------------------------
(***************************************************************************)
(* Offsets                                                                 *)
(***************************************************************************)

\* A step that moves no offset and leaves the message in hand alone, or is
\* about to commit a safe one, keeps what is known about offsets.
LEMMA OffsetsFrame ==
    ASSUME TypeOK, ControlOK, OffsetsOK, \A m \in Message : Safe(m) => Safe(m)',
           UNCHANGED <<committed, commitSent, position, hand>>,
           Up' => Up, Busy' <=> Busy,
           pc' = "commit" => pc = "commit" \/ Safe(hand)'
    PROVE  OffsetsOK'
<1>1. \A p \in Partition : \A i \in 1 .. LogLen : <<p, i>> \in Message
  BY DEF Message
<1>2. CommittedIsForwarded'
  <2> SUFFICES ASSUME NEW p \in Partition, NEW i \in 1 .. committed[p] - 1,
                      <<p, i>> \in Loggable \ Raising
               PROVE  Forwarded(<<p, i>>)'
    BY DEF CommittedIsForwarded
  <2>1. i \in 1 .. LogLen
    BY SecurityAssumption DEF TypeOK
  <2> QED BY <1>1, <2>1 DEF OffsetsOK, CommittedIsForwarded, Safe
<1>3. (\A p \in Partition : \A i \in 1 .. commitSent[p] - 1 : Safe(<<p, i>>))'
  <2> SUFFICES ASSUME NEW p \in Partition, NEW i \in 1 .. commitSent[p] - 1
               PROVE  Safe(<<p, i>>)'
    OBVIOUS
  <2>1. i \in 1 .. LogLen
    BY SecurityAssumption DEF TypeOK
  <2> QED BY <1>1, <2>1 DEF OffsetsOK
<1>4. (Up => \A p \in Partition : \A i \in 1 .. position[p] - 1 :
                Safe(<<p, i>>) \/ (Busy /\ hand = <<p, i>>))'
  <2> SUFFICES ASSUME Up', NEW p \in Partition, NEW i \in 1 .. position[p] - 1
               PROVE  Safe(<<p, i>>)' \/ (Busy' /\ hand' = <<p, i>>)
    OBVIOUS
  <2>1. i \in 1 .. LogLen
    BY SecurityAssumption DEF TypeOK
  <2> QED BY <1>1, <2>1 DEF OffsetsOK
<1>5. (Busy => \A i \in 1 .. hand[2] - 1 : Safe(<<hand[1], i>>))'
  <2> SUFFICES ASSUME Busy, NEW i \in 1 .. hand[2] - 1
               PROVE  Safe(<<hand[1], i>>)'
    OBVIOUS
  <2>1. hand[1] \in Partition /\ i \in 1 .. LogLen
    BY MessageParts, SecurityAssumption DEF ControlOK
  <2> QED BY <1>1, <2>1 DEF OffsetsOK
<1>6. (pc = "commit" => Safe(hand))'
  BY DEF OffsetsOK, ControlOK, Busy
<1> QED BY <1>2, <1>3, <1>4, <1>5, <1>6 DEF OffsetsOK


\* A message that just moved or was forwarded stays safe.
LEMMA SafeStep ==
    ASSUME TypeOK, ControlOK, [Next]_vars
    PROVE  \A m \in Message : Safe(m) => Safe(m)'
BY FateStep DEF Safe

\* Messages before an offset of a partition.
LEMMA OffsetMessages ==
    ASSUME NEW p \in Partition, NEW k \in 0 .. LogLen + 1, NEW i \in 1 .. k - 1
    PROVE  <<p, i>> \in Message /\ i \in 1 .. LogLen
BY SecurityAssumption DEF Message

LEMMA OffsetsStep ==
    ASSUME TypeOK, ControlOK, OffsetsOK, [Next]_vars
    PROVE  OffsetsOK'
<1>1. \A m \in Message : Safe(m) => Safe(m)'
  BY SafeStep
<1>2. TypeOK'
  BY TypeStep
<1>3. \A p \in Partition : \A i \in 1 .. committed[p] - 1 : Safe(<<p, i>>)
  BY DEF OffsetsOK, CommittedIsForwarded, Safe
<1>4. ASSUME \A p \in Partition : \A i \in 1 .. committed'[p] - 1 : Safe(<<p, i>>)'
      PROVE  CommittedIsForwarded'
  BY <1>4 DEF CommittedIsForwarded, Safe
<1>5. /\ \A p \in Partition : \A i \in 1 .. committed[p] - 1 : Safe(<<p, i>>)'
      /\ \A p \in Partition : \A i \in 1 .. commitSent[p] - 1 : Safe(<<p, i>>)'
  <2>1. ASSUME NEW p \in Partition, NEW i \in 1 .. committed[p] - 1 PROVE Safe(<<p, i>>)'
    <3>1. committed[p] \in 0 .. LogLen + 1
      BY SecurityAssumption DEF TypeOK
    <3> QED BY <1>1, <1>3, <3>1, OffsetMessages
  <2>2. ASSUME NEW p \in Partition, NEW i \in 1 .. commitSent[p] - 1 PROVE Safe(<<p, i>>)'
    <3>1. commitSent[p] \in 0 .. LogLen + 1
      BY DEF TypeOK
    <3> QED BY <1>1, <3>1, OffsetMessages DEF OffsetsOK
  <2> QED BY <2>1, <2>2
<1>6. ASSUME Busy
      PROVE  \E p \in Partition, k \in 1 .. LogLen :
                /\ hand = <<p, k>> /\ hand[1] = p /\ hand[2] = k /\ <<p, k>> \in Message
                /\ \A i \in 1 .. k - 1 : Safe(<<p, i>>)'
  <2>1. hand \in Message /\ hand[1] \in Partition /\ hand[2] \in 1 .. LogLen
            /\ hand = <<hand[1], hand[2]>>
    BY <1>6, MessageParts DEF ControlOK
  <2>2. PICK p \in Partition, k \in 1 .. LogLen : p = hand[1] /\ k = hand[2]
    BY <2>1
  <2>3. ASSUME NEW i \in 1 .. k - 1 PROVE Safe(<<p, i>>)'
    <3>1. k \in 0 .. LogLen + 1
      BY SecurityAssumption
    <3>2. <<p, i>> \in Message
      BY <3>1, OffsetMessages
    <3>3. Safe(<<p, i>>)
      BY <1>6, <2>2 DEF OffsetsOK
    <3> QED BY <1>1, <3>2, <3>3
  <2> QED BY <2>1, <2>2, <2>3
<1>7. ASSUME Up, NEW p \in Partition, NEW i \in 1 .. position[p] - 1
      PROVE  Safe(<<p, i>>)' \/ (Busy /\ hand = <<p, i>>)
  <2>1. position[p] \in 0 .. LogLen + 1
    BY SecurityAssumption DEF TypeOK
  <2> QED BY <1>1, <1>7, <2>1, OffsetMessages DEF OffsetsOK
<1>8. ASSUME NEW q \in Partition, Poll(q) PROVE OffsetsOK'
  <2>1. Up /\ ~ Busy /\ Busy'
    BY <1>8 DEF Poll, Up, Busy, FirstStep, AfterInjection
  <2>2. /\ hand' = <<q, position[q]>> /\ position' = [position EXCEPT ![q] = @ + 1]
        /\ UNCHANGED <<committed, commitSent>>
    BY <1>8 DEF Poll, envVars
  <2>3. \A p \in Partition : \A i \in 1 .. position[p] - 1 : Safe(<<p, i>>)'
    BY <1>7, <2>1
  <2>4. ASSUME NEW p \in Partition, NEW i \in 1 .. position'[p] - 1
        PROVE  Safe(<<p, i>>)' \/ hand' = <<p, i>>
    <3>1. position[p] \in Nat /\ position'[p] = IF p = q THEN position[p] + 1 ELSE position[p]
      BY <2>2 DEF TypeOK
    <3>2. CASE p = q /\ i = position[p]
      BY <2>2, <3>2
    <3>3. CASE ~ (p = q /\ i = position[p])
      <4>1. i \in 1 .. position[p] - 1
        BY <3>1, <3>3
      <4> QED BY <2>3, <4>1
    <3> QED BY <3>2, <3>3
  <2>5. (\A i \in 1 .. hand[2] - 1 : Safe(<<hand[1], i>>))'
    <3>1. PICK k \in Nat : k = position[q]
      BY DEF TypeOK
    <3>2. hand' = <<q, k>> /\ \A i \in 1 .. k - 1 : Safe(<<q, i>>)'
      BY <2>2, <2>3, <3>1
    <3> QED BY <3>2
  <2>6. pc' = "commit" => Safe(hand)'
    BY <1>8, <2>2 DEF Poll, FirstStep, AfterInjection, Safe, Loggable
  <2>7. CommittedIsForwarded'
    BY <1>4, <1>5, <2>2
  <2>8. (\A p \in Partition : \A i \in 1 .. commitSent[p] - 1 : Safe(<<p, i>>))'
    BY <1>5, <2>2
  <2>9. (\A p \in Partition : \A i \in 1 .. position[p] - 1 :
            Safe(<<p, i>>) \/ (Busy /\ hand = <<p, i>>))'
    BY <2>1, <2>4
  <2> QED BY <2>5, <2>6, <2>7, <2>8, <2>9 DEF OffsetsOK
<1>9. CASE PublishParseError
  <2>1. UNCHANGED <<committed, commitSent, position, hand, life>> /\ Busy /\ Busy'
    BY <1>9 DEF PublishParseError, envVars, Busy
  <2>2. Safe(hand)'
    BY <1>9, <2>1 DEF PublishParseError, ControlOK, Safe, Loggable
  <2> QED BY <1>1, <2>1, <2>2, OffsetsFrame DEF Up
<1>10. CASE PublishClean
  <2>1. UNCHANGED <<committed, commitSent, position, hand, life>> /\ Busy /\ Busy'
    BY <1>10 DEF PublishClean, envVars, Busy
  <2>2. Safe(hand)'
    <3>1. PICK m : m = hand
      OBVIOUS
    <3>2. hand' = m /\ m \in Buffered'
      BY <1>10, <2>1, <3>1, FateStep
    <3> QED BY <3>2 DEF Safe, Forwarded
  <2> QED BY <1>1, <2>1, <2>2, OffsetsFrame DEF Up
<1>11. CASE ProcessMessage /\ ~ PublishParseError /\ ~ PublishClean /\ ~ GiveUp
              /\ ~ \E t \in Threat : EventRaises(t)
  <2>1. PublishCleanFails \/ \E t \in Threat : PublishEvent(t) \/ AuditEvent(t)
    BY <1>11 DEF ProcessMessage
  <2>2. /\ UNCHANGED <<committed, commitSent, position, hand, life>> /\ Busy /\ Busy'
        /\ pc' # "commit"
    BY <2>1 DEF PublishEvent, AuditEvent, PublishCleanFails, envVars, Busy, Threat, AuditStep,
          AfterInjection
  <2> QED BY <1>1, <2>2, OffsetsFrame DEF Up
<1>12. ASSUME Producer \/ StopSignal \/ LoopReturns \/ UNCHANGED vars PROVE OffsetsOK'
  <2>1. /\ UNCHANGED <<committed, commitSent, position, hand>> /\ (Up' => Up) /\ (Busy' <=> Busy)
        /\ pc' = "commit" => pc = "commit"
    BY <1>12 DEF Producer, Deliver, DeliverUnacknowledged, DeliveryFails, StopSignal,
          LoopReturns, vars, envVars,
          processVars, Up, Busy
  <2> QED BY <1>1, <2>1, OffsetsFrame
<1>13. ASSUME NEW p \in Partition, NEW k \in 1 .. LogLen, hand = <<p, k>>, Safe(<<p, k>>)',
              ~ Busy', pc' # "commit", UNCHANGED <<life, position, committed>>,
              (\A q \in Partition : \A i \in 1 .. commitSent[q] - 1 : Safe(<<q, i>>))'
       PROVE  OffsetsOK'
  <2>1. CommittedIsForwarded'
    BY <1>4, <1>5, <1>13
  <2>2. ASSUME Up', NEW q \in Partition, NEW i \in 1 .. position'[q] - 1
        PROVE  Safe(<<q, i>>)'
    <3>1. Up /\ i \in 1 .. position[q] - 1
      BY <1>13, <2>2 DEF Up
    <3>2. Safe(<<q, i>>)' \/ hand = <<q, i>>
      BY <1>7, <3>1
    <3> QED BY <1>13, <3>2
  <2> QED BY <1>13, <2>1, <2>2 DEF OffsetsOK
<1>14. CASE GiveUp
  <2>1. Busy /\ ~ Busy' /\ pc' # "commit"
    BY <1>14 DEF GiveUp, Busy, NextIteration
  <2>2. PICK p \in Partition, k \in 1 .. LogLen : hand = <<p, k>>
    BY <1>6, <2>1
  <2>3. <<p, k>> \in skipped' /\ UNCHANGED <<life, position, committed, commitSent>>
    BY <1>14, <2>2 DEF GiveUp, envVars
  <2>4. Safe(<<p, k>>)'
    BY <2>3 DEF Safe, Forwarded
  <2>5. (\A q \in Partition : \A i \in 1 .. commitSent[q] - 1 : Safe(<<q, i>>))'
    BY <1>5, <2>3
  <2> QED BY <1>13, <2>1, <2>2, <2>3, <2>4, <2>5
<1>19. ASSUME NEW t \in Threat, EventRaises(t) PROVE OffsetsOK'
  <2>1. Busy /\ ~ Busy' /\ pc' # "commit"
    BY <1>19 DEF EventRaises, Busy, NextIteration, Threat
  <2>2. PICK p \in Partition, k \in 1 .. LogLen : hand = <<p, k>>
    BY <1>6, <2>1
  <2>3. <<p, k>> \in Raising
    BY <1>19, <2>2 DEF EventRaises, ControlOK, Raising, Threat
  <2>4. UNCHANGED <<life, position, committed, commitSent>>
    BY <1>19 DEF EventRaises, envVars
  <2>5. (\A q \in Partition : \A i \in 1 .. commitSent[q] - 1 : Safe(<<q, i>>))'
    BY <1>5, <2>4
  <2>6. Safe(<<p, k>>)'
    BY <2>3 DEF Safe
  <2> QED BY <1>13, <2>1, <2>2, <2>4, <2>5, <2>6
<1>15. CASE CommitOffset
  <2>1. Busy /\ ~ Busy' /\ pc' # "commit" /\ pc = "commit"
    BY <1>15 DEF CommitOffset, Busy, NextIteration
  <2>2. PICK p \in Partition, k \in 1 .. LogLen :
            /\ hand = <<p, k>> /\ hand[1] = p /\ hand[2] = k /\ <<p, k>> \in Message
            /\ \A i \in 1 .. k - 1 : Safe(<<p, i>>)'
    BY <1>6, <2>1
  <2>3. Safe(<<p, k>>)'
    BY <1>1, <2>1, <2>2 DEF OffsetsOK
  <2>4. /\ UNCHANGED <<life, position, committed>>
        /\ commitSent' = [commitSent EXCEPT ![p] = k + 1]
    BY <1>15, <2>2 DEF CommitOffset, envVars
  <2>5. ASSUME NEW q \in Partition, NEW i \in 1 .. commitSent'[q] - 1
        PROVE  Safe(<<q, i>>)'
    <3>1. CASE q = p
      <4>1. commitSent'[q] = k + 1
        BY <2>4, <3>1 DEF TypeOK
      <4>2. i \in 1 .. k - 1 \/ i = k
        BY <4>1
      <4> QED BY <2>2, <2>3, <3>1, <4>2
    <3>2. CASE q # p
      <4>1. commitSent'[q] = commitSent[q]
        BY <2>4, <3>2 DEF TypeOK
      <4> QED BY <1>5, <4>1
    <3> QED BY <3>1, <3>2
  <2> QED BY <1>13, <2>1, <2>2, <2>3, <2>4, <2>5
<1>16. ASSUME NEW q \in Partition, CommitArrives(q) PROVE OffsetsOK'
  <2>1. /\ UNCHANGED <<position, hand, pc, life>>
        /\ commitSent' = [commitSent EXCEPT ![q] = 0]
        /\ committed' = committed \/ committed' = [committed EXCEPT ![q] = commitSent[q]]
    BY <1>16 DEF CommitArrives
  <2>2. ASSUME NEW p \in Partition, NEW i \in 1 .. commitSent'[p] - 1
        PROVE  Safe(<<p, i>>)'
    <3>1. commitSent'[p] = 0 \/ commitSent'[p] = commitSent[p]
      BY <2>1 DEF TypeOK
    <3> QED BY <1>5, <3>1
  <2>3. ASSUME NEW p \in Partition, NEW i \in 1 .. committed'[p] - 1
        PROVE  Safe(<<p, i>>)'
    <3>1. committed'[p] = committed[p] \/ committed'[p] = commitSent[p]
      BY <2>1 DEF TypeOK
    <3> QED BY <1>5, <3>1
  <2>4. CommittedIsForwarded'
    BY <1>4, <2>3
  <2>5. (Up => \A p \in Partition : \A i \in 1 .. position[p] - 1 :
                Safe(<<p, i>>) \/ (Busy /\ hand = <<p, i>>))'
    BY <1>7, <2>1 DEF Up, Busy
  <2>6. (Busy => \A i \in 1 .. hand[2] - 1 : Safe(<<hand[1], i>>))'
    <3>1. CASE Busy
      <4>1. PICK p \in Partition, k \in 1 .. LogLen :
                hand = <<p, k>> /\ \A i \in 1 .. k - 1 : Safe(<<p, i>>)'
        BY <1>6, <3>1
      <4>2. hand' = <<p, k>>
        BY <2>1, <4>1
      <4> QED BY <4>1, <4>2
    <3> QED BY <2>1, <3>1 DEF Busy
  <2>7. (pc = "commit" => Safe(hand))'
    <3>1. CASE pc = "commit"
      <4>1. PICK m \in Message : m = hand
        BY <3>1 DEF ControlOK, Busy
      <4>2. Safe(m)' /\ hand' = m
        BY <1>1, <2>1, <3>1, <4>1 DEF OffsetsOK
      <4> QED BY <4>2
    <3> QED BY <2>1, <3>1
  <2> QED BY <2>2, <2>4, <2>5, <2>6, <2>7 DEF OffsetsOK
<1>17. ASSUME NEW end \in {"exited", "crashed"}, Dies(end) PROVE OffsetsOK'
  <2>1. commitSent' = NoCommit /\ ~ Busy' /\ pc' # "commit" /\ ~ Up' /\ committed' = committed
    BY <1>17 DEF Dies, Busy, Up, envVars
  <2>2. (\A p \in Partition : \A i \in 1 .. commitSent[p] - 1 : Safe(<<p, i>>))'
    BY <2>1 DEF NoCommit
  <2>3. CommittedIsForwarded'
    BY <1>4, <1>5, <2>1
  <2> QED BY <2>1, <2>2, <2>3 DEF OffsetsOK
\* After a rewind the reader is at the committed offset.
<1>18. CASE Restart \/ Rebalance
  <2>1. position' = committed /\ UNCHANGED <<committed, commitSent, hand, pc>>
    BY <1>18 DEF Restart, Rebalance, envVars
  <2>2. \A p \in Partition : \A i \in 1 .. position'[p] - 1 : Safe(<<p, i>>)'
    BY <1>5, <2>1
  <2>3. CommittedIsForwarded'
    BY <1>4, <1>5, <2>1
  <2>4. (\A p \in Partition : \A i \in 1 .. commitSent[p] - 1 : Safe(<<p, i>>))'
    BY <1>5, <2>1
  <2>5. (Busy => \A i \in 1 .. hand[2] - 1 : Safe(<<hand[1], i>>))'
    <3>1. CASE Busy
      <4>1. PICK p \in Partition, k \in 1 .. LogLen :
                hand = <<p, k>> /\ \A i \in 1 .. k - 1 : Safe(<<p, i>>)'
        BY <1>6, <3>1
      <4>2. hand' = <<p, k>>
        BY <2>1, <4>1
      <4> QED BY <4>1, <4>2
    <3> QED BY <2>1, <3>1 DEF Busy
  <2>6. (pc = "commit" => Safe(hand))'
    <3>1. CASE pc = "commit"
      <4>1. PICK m \in Message : m = hand
        BY <3>1 DEF ControlOK, Busy
      <4>2. Safe(m)' /\ hand' = m
        BY <1>1, <2>1, <3>1, <4>1 DEF OffsetsOK
      <4> QED BY <4>2
    <3> QED BY <2>1, <3>1
  <2> QED BY <2>2, <2>3, <2>4, <2>5, <2>6 DEF OffsetsOK
<1> QED BY <1>8, <1>9, <1>10, <1>11, <1>12, <1>14, <1>15, <1>16, <1>17, <1>18, <1>19
        DEF Next, Loop, ProcessMessage, Exit, Crash

-----------------------------------------------------------------------------
(***************************************************************************)
(* One delivery, one copy                                                  *)
(***************************************************************************)

\* The occurrences are a number, and an empty buffer has none.
LEMMA WaitingType ==
    ASSUME NEW s \in Seq(Output), NEW e
    PROVE  Waiting(s, e) \in Nat /\ (s = << >> => Waiting(s, e) = 0)
<1> DEFINE S == {i \in DOMAIN s : s[i] = e}
<1>1. DOMAIN s = 1 .. Len(s) /\ S \subseteq DOMAIN s
  OBVIOUS
<1>2. IsFiniteSet(DOMAIN s)
  BY <1>1, FS_Interval
<1>3. s = << >> => S = {}
  OBVIOUS
<1>4. Waiting(s, e) = Cardinality(S)
  BY DEF Waiting
<1> HIDE DEF S
<1> QED BY <1>1, <1>2, <1>3, <1>4, FS_Subset, FS_CardinalityType, FS_EmptySet

LEMMA WaitingAfterAppend ==
    ASSUME NEW s \in Seq(Output), NEW o \in Output, NEW e
    PROVE  Waiting(Append(s, o), e) = Waiting(s, e) + IF o = e THEN 1 ELSE 0
<1> DEFINE t == Append(s, o)
           S == {i \in DOMAIN s : s[i] = e}
           T == {i \in DOMAIN t : t[i] = e}
           n == Len(s) + 1
<1>1. /\ DOMAIN s = 1 .. Len(s) /\ DOMAIN t = 1 .. n /\ Len(s) \in Nat
      /\ \A i \in 1 .. Len(s) : t[i] = s[i]
      /\ t[n] = o
  OBVIOUS
<1>2. IsFiniteSet(DOMAIN s)
  BY <1>1, FS_Interval
<1>3. S \subseteq DOMAIN s /\ n \notin DOMAIN s /\ DOMAIN t = DOMAIN s \cup {n}
  BY <1>1
<1>4. T = IF o = e THEN S \cup {n} ELSE S
  BY <1>1, <1>3
<1>5. Waiting(t, e) = Cardinality(T) /\ Waiting(s, e) = Cardinality(S)
  BY DEF Waiting
<1> HIDE DEF S, T, t, n
<1>6. IsFiniteSet(S) /\ n \notin S
  BY <1>2, <1>3, FS_Subset
<1>7. Cardinality(S \cup {n}) = Cardinality(S) + 1 /\ Cardinality(S) \in Nat
  BY <1>6, FS_AddElement, FS_CardinalityType
<1> QED BY <1>4, <1>5, <1>7 DEF t

\* Taking an entry out of the buffer takes its occurrence with it.
LEMMA WaitingAfterRemove ==
    ASSUME NEW s \in Seq(Output), NEW i \in DOMAIN s, NEW e
    PROVE  Waiting(RemoveAt(s, i), e) + (IF s[i] = e THEN 1 ELSE 0) <= Waiting(s, e)
<1> DEFINE t == RemoveAt(s, i)
           n == Len(s)
           S == {j \in DOMAIN s : s[j] = e}
           T == {j \in DOMAIN t : t[j] = e}
           f == [j \in T |-> IF j < i THEN j ELSE j + 1]
<1>1. n \in Nat /\ DOMAIN s = 1 .. n /\ i \in 1 .. n
  OBVIOUS
<1>2. t \in Seq(Output) /\ Len(t) = n - 1
  BY BufferShrinks
<1>3. DOMAIN t = 1 .. n - 1
  BY <1>2
<1>4. \A j \in 1 .. n - 1 : t[j] = IF j < i THEN s[j] ELSE s[j + 1]
  BY RemovedEntries
<1>5. Waiting(t, e) = Cardinality(T) /\ Waiting(s, e) = Cardinality(S)
  BY DEF Waiting
<1>6. S \subseteq 1 .. n /\ \A k \in S : k \in 1 .. n /\ s[k] = e
  BY <1>1
<1>7. T \subseteq 1 .. n - 1 /\ \A j \in T : j \in 1 .. n - 1 /\ t[j] = e
  BY <1>3
<1>8. i \in S <=> s[i] = e
  BY <1>1
<1>9. \A k \in 1 .. n : s[k] = e => k \in S
  BY <1>1
<1>10. IsFiniteSet(1 .. n)
  BY <1>1, FS_Interval
<1> HIDE DEF n, t, S, T
<1>11. \A j \in T : f[j] \in S \ {i}
  <2> SUFFICES ASSUME NEW j \in T PROVE f[j] \in S \ {i}
    OBVIOUS
  <2>1. j \in 1 .. n - 1 /\ t[j] = e
    BY <1>7
  <2>2. t[j] = s[f[j]] /\ f[j] \in 1 .. n /\ f[j] # i
    BY <1>1, <1>4, <2>1
  <2> QED BY <1>9, <2>1, <2>2
<1>12. \A j, k \in T : f[j] = f[k] => j = k
  <2> SUFFICES ASSUME NEW j \in T, NEW k \in T, f[j] = f[k] PROVE j = k
    OBVIOUS
  <2>1. j \in 1 .. n - 1 /\ k \in 1 .. n - 1
    BY <1>7
  <2> QED BY <1>1, <2>1
<1>13. f \in [T -> S \ {i}] /\ DOMAIN f = T
  BY <1>11
<1> HIDE DEF f
<1>14. f \in Injection(T, S \ {i})
  BY <1>12, <1>13 DEF Injection, IsInjective
<1>15. IsFiniteSet(S) /\ IsFiniteSet(S \ {i})
  BY <1>6, <1>10, FS_Subset
<1>16. Cardinality(T) <= Cardinality(S \ {i}) /\ IsFiniteSet(T)
  BY <1>14, <1>15, FS_Injection
<1>17. /\ Cardinality(S) \in Nat /\ Cardinality(T) \in Nat /\ Cardinality(S \ {i}) \in Nat
  BY <1>15, <1>16, FS_CardinalityType
<1>18. Cardinality(S \ {i}) = IF i \in S THEN Cardinality(S) - 1 ELSE Cardinality(S)
  BY <1>15, FS_RemoveElement
<1> QED BY <1>5, <1>8, <1>16, <1>17, <1>18 DEF t

\* A step makes no clean copy of a message that was not delivered for it, but
\* for the delivery a rewind repeats and the copy sent again by the producer.
LEMMA DeliveriesStep ==
    ASSUME TypeOK, ControlOK, TypeOK', [Next]_vars, NEW m \in Message
    PROVE  /\ Deliveries(m) \in Nat /\ Deliveries(m)' \in Nat
           /\ Deliveries(m)' <= Deliveries(m) + (rewinds' - rewinds) + (resent'[m] - resent[m])
<1> DEFINE e == <<"clean", m>>
           Goal == Deliveries(m)' <= Deliveries(m) + (rewinds' - rewinds)
<1>1. outbox \in Seq(Output) /\ outbox' \in Seq(Output)
  BY DEF TypeOK
<1>2. rewinds \in Nat /\ rewinds' \in Nat /\ clean[m] \in Nat /\ clean'[m] \in Nat
  BY DEF TypeOK
<1>3. Waiting(outbox, e) \in Nat /\ Waiting(outbox', e) \in Nat
  BY <1>1, WaitingType
<1>4. InHand(m) \in 0 .. 1 /\ InHand(m)' \in 0 .. 1 /\ ToCome(m) \in 0 .. 1 /\ ToCome(m)' \in 0 .. 1
  BY DEF InHand, ToCome
<1>5. Deliveries(m) \in Nat /\ Deliveries(m)' \in Nat
  BY <1>2, <1>3, <1>4 DEF Deliveries
<1>6. m[1] \in Partition /\ m[2] \in 1 .. LogLen /\ m = <<m[1], m[2]>> /\ m # NoMessage
  BY MessageParts, SecurityAssumption
<1>7. ASSUME clean'[m] + Waiting(outbox', e) <= clean[m] + Waiting(outbox, e),
             InHand(m)' + ToCome(m)' <= InHand(m) + ToCome(m) + (rewinds' - rewinds)
      PROVE  Goal
  BY <1>2, <1>3, <1>4, <1>7 DEF Deliveries
<1>8. ASSUME UNCHANGED <<hand, position>>, pc = "commit" => pc' = "commit"
      PROVE  InHand(m)' <= InHand(m) /\ ToCome(m)' = ToCome(m)
  BY <1>8 DEF InHand, ToCome
<1>9. ASSUME NEW out \in Output, out # e, PublishJson(out)
      PROVE  Waiting(outbox', e) = Waiting(outbox, e)
  BY <1>1, <1>3, <1>9, WaitingAfterAppend DEF PublishJson
<1>10. ASSUME \E p \in Partition : Poll(p) PROVE Goal
  <2>1. PICK p \in Partition : Poll(p)
    BY <1>10
  <2>2. /\ UNCHANGED <<clean, outbox, rewinds>> /\ pc = "poll"
        /\ hand' = <<p, position[p]>> /\ position' = [position EXCEPT ![p] = @ + 1]
        /\ position \in [Partition -> 1 .. LogLen + 1]
    BY <2>1 DEF Poll, TypeOK, envVars, historyVars
  <2>3. InHand(m) = 0
    BY <1>6, <2>2 DEF InHand, ControlOK, Busy
  <2>4. InHand(m)' + ToCome(m)' <= ToCome(m)
    <3>1. CASE m = <<p, position[p]>>
      <4>1. ToCome(m) = 1 /\ ToCome(m)' = 0
        BY <1>6, <2>2, <3>1, SecurityAssumption DEF ToCome
      <4> QED BY <1>4, <4>1
    <3>2. CASE m # <<p, position[p]>>
      <4>1. InHand(m)' = 0
        BY <2>2, <3>2 DEF InHand
      <4>2. ToCome(m)' <= ToCome(m)
        BY <1>6, <2>2, SecurityAssumption DEF ToCome
      <4> QED BY <1>4, <4>1, <4>2
    <3> QED BY <3>1, <3>2
  <2>5. clean'[m] = clean[m] /\ Waiting(outbox', e) = Waiting(outbox, e) /\ rewinds' = rewinds
    BY <2>2
  <2> QED BY <1>2, <1>3, <1>4, <1>7, <2>3, <2>4, <2>5
<1>11. ASSUME PublishParseError PROVE Goal
  <2>1. /\ UNCHANGED <<clean, hand, position, rewinds>> /\ pc = "parse_error"
        /\ hand \in Message /\ PublishJson(<<"parse_error", hand>>)
    BY <1>11 DEF PublishParseError, ControlOK, Busy, envVars, historyVars
  <2>2. <<"parse_error", hand>> \in Output /\ <<"parse_error", hand>> # e
    BY <2>1 DEF Output
  <2>3. clean'[m] = clean[m] /\ Waiting(outbox', e) = Waiting(outbox, e) /\ rewinds' = rewinds
    BY <1>9, <2>1, <2>2
  <2>4. InHand(m)' <= InHand(m) /\ ToCome(m)' = ToCome(m)
    BY <1>8, <2>1
  <2> QED BY <1>2, <1>3, <1>4, <1>7, <2>3, <2>4
<1>12. ASSUME NEW t \in Threat, PublishEvent(t) PROVE Goal
  <2>1. /\ UNCHANGED <<clean, hand, position, rewinds>> /\ pc # "commit"
        /\ hand \in Message /\ PublishJson(<<t, hand>>)
    BY <1>12 DEF PublishEvent, ControlOK, Busy, Threat, envVars, historyVars
  <2>2. <<t, hand>> \in Output /\ <<t, hand>> # e
    BY <2>1 DEF Output, Threat
  <2>3. clean'[m] = clean[m] /\ Waiting(outbox', e) = Waiting(outbox, e) /\ rewinds' = rewinds
    BY <1>9, <2>1, <2>2
  <2>4. InHand(m)' <= InHand(m) /\ ToCome(m)' = ToCome(m)
    BY <1>8, <2>1
  <2> QED BY <1>2, <1>3, <1>4, <1>7, <2>3, <2>4
<1>13. ASSUME PublishClean PROVE Goal
  <2>1. /\ UNCHANGED <<clean, hand, position, rewinds>> /\ pc = "publish" /\ pc' = "commit"
        /\ hand \in Message /\ outbox' = Append(outbox, <<"clean", hand>>)
    BY <1>13 DEF PublishClean, ControlOK, Busy, envVars, historyVars
  <2>2. <<"clean", hand>> \in Output /\ (<<"clean", hand>> = e <=> hand = m)
    BY <2>1 DEF Output
  <2>3. Waiting(outbox', e) = Waiting(outbox, e) + IF hand = m THEN 1 ELSE 0
    <3>1. Waiting(Append(outbox, <<"clean", hand>>), e)
            = Waiting(outbox, e) + IF <<"clean", hand>> = e THEN 1 ELSE 0
      BY <1>1, <2>2, WaitingAfterAppend
    <3> QED BY <2>1, <2>2, <3>1
  <2>4. /\ InHand(m) = (IF hand = m THEN 1 ELSE 0) /\ InHand(m)' = 0
        /\ ToCome(m)' = ToCome(m) /\ clean'[m] = clean[m] /\ rewinds' = rewinds
    BY <2>1 DEF InHand, ToCome
  <2> HIDE DEF e
  <2>5. Waiting(outbox', e) + InHand(m)' = Waiting(outbox, e) + InHand(m)
    BY <1>3, <2>3, <2>4
  <2> QED BY <1>2, <1>3, <1>4, <2>4, <2>5 DEF Deliveries, e
<1>14. ASSUME PublishCleanFails \/ (\E t \in Threat : AuditEvent(t)) \/ StopSignal \/ LoopReturns
              \/ (\E p \in Partition : CommitArrives(p)) \/ UNCHANGED vars
       PROVE  Goal
  <2>1. /\ UNCHANGED <<clean, outbox, hand, position, rewinds>>
        /\ pc = "commit" => pc' = "commit"
    BY <1>14 DEF PublishCleanFails, AuditEvent, AuditStep, Threat, StopSignal, LoopReturns,
                 CommitArrives, vars, envVars, processVars, historyVars
  <2>2. clean'[m] = clean[m] /\ Waiting(outbox', e) = Waiting(outbox, e)
    BY <2>1
  <2> QED BY <1>2, <1>3, <1>4, <1>7, <1>8, <2>1, <2>2
<1>15. ASSUME GiveUp \/ CommitOffset \/ \E t \in Threat : EventRaises(t) PROVE Goal
  <2>1. UNCHANGED <<clean, outbox, position, rewinds>> /\ hand' = NoMessage
    BY <1>15 DEF GiveUp, CommitOffset, EventRaises, envVars, historyVars
  <2>2. InHand(m)' = 0 /\ ToCome(m)' = ToCome(m)
    BY <1>6, <2>1 DEF InHand, ToCome
  <2>3. clean'[m] = clean[m] /\ Waiting(outbox', e) = Waiting(outbox, e) /\ rewinds' = rewinds
    BY <2>1
  <2> QED BY <1>2, <1>3, <1>4, <1>7, <2>2, <2>3
<1>16. ASSUME NEW i \in DOMAIN outbox, Deliver(i) \/ DeliveryFails(i) PROVE Goal
  <2>1. /\ UNCHANGED <<hand, pc, position, rewinds>> /\ outbox' = RemoveAt(outbox, i)
    BY <1>16 DEF Deliver, DeliveryFails, historyVars
  <2>2. clean'[m] <= clean[m] + IF outbox[i] = e THEN 1 ELSE 0
    BY <1>2, <1>16 DEF Deliver, DeliveryFails, envVars
  <2>3. Waiting(outbox', e) + (IF outbox[i] = e THEN 1 ELSE 0) <= Waiting(outbox, e)
    BY <1>1, <2>1, WaitingAfterRemove
  <2> HIDE DEF e
  <2>4. clean'[m] + Waiting(outbox', e) <= clean[m] + Waiting(outbox, e)
    BY <1>2, <1>3, <2>2, <2>3
  <2>5. /\ InHand(m)' <= InHand(m) /\ ToCome(m)' = ToCome(m) /\ rewinds' = rewinds
    BY <1>8, <2>1
  <2> QED BY <1>2, <1>3, <1>4, <1>7, <2>4, <2>5 DEF e
<1>17. ASSUME NEW end, Dies(end) PROVE Goal
  <2>1. UNCHANGED <<clean, position, rewinds>> /\ outbox' = << >> /\ hand' = NoMessage
    BY <1>17 DEF Dies, envVars
  <2>2. InHand(m)' = 0 /\ ToCome(m)' = ToCome(m) /\ rewinds' = rewinds
    BY <1>6, <2>1 DEF InHand, ToCome
  <2>3. clean'[m] = clean[m] /\ Waiting(outbox', e) = 0
    BY <1>1, <2>1, WaitingType
  <2> QED BY <1>2, <1>3, <1>4, <1>7, <2>2, <2>3
<1>18. ASSUME Restart \/ Rebalance PROVE Goal
  <2>1. UNCHANGED <<clean, outbox, hand, pc>> /\ rewinds' = rewinds + 1
    BY <1>18 DEF Restart, Rebalance, envVars
  <2>2. InHand(m)' = InHand(m)
    BY <2>1 DEF InHand
  <2>3. clean'[m] = clean[m] /\ Waiting(outbox', e) = Waiting(outbox, e) /\ rewinds' = rewinds + 1
    BY <2>1
  <2> QED BY <1>2, <1>3, <1>4, <1>7, <2>2, <2>3
<1>19. ASSUME NEW i \in DOMAIN outbox, DeliverUnacknowledged(i)
       PROVE  Deliveries(m)' = Deliveries(m) + (resent'[m] - resent[m]) /\ rewinds' = rewinds
  <2>1. PICK n \in Message : /\ clean' = [clean EXCEPT ![n] = @ + 1]
                             /\ resent' = [resent EXCEPT ![n] = @ + 1]
    BY <1>19 DEF DeliverUnacknowledged
  <2>2. clean'[m] - clean[m] = resent'[m] - resent[m]
    BY <2>1 DEF TypeOK
  <2>3. UNCHANGED <<outbox, hand, pc, position, rewinds>>
    BY <1>19 DEF DeliverUnacknowledged, processVars
  <2>4. /\ Waiting(outbox', e) = Waiting(outbox, e) /\ InHand(m)' = InHand(m)
        /\ ToCome(m)' = ToCome(m) /\ rewinds' = rewinds
    BY <2>3 DEF InHand, ToCome
  <2>5. resent[m] \in Nat /\ resent'[m] \in Nat
    BY DEF TypeOK
  <2> HIDE DEF e
  <2> QED BY <1>2, <1>3, <1>4, <2>2, <2>4, <2>5 DEF Deliveries, e
<1>20. resent[m] \in Nat /\ resent'[m] \in Nat
  BY DEF TypeOK
<1>21. CASE \E i \in DOMAIN outbox : DeliverUnacknowledged(i)
  BY <1>2, <1>5, <1>19, <1>20, <1>21
<1>22. CASE ~ \E i \in DOMAIN outbox : DeliverUnacknowledged(i)
  <2>1. Goal
    BY <1>10, <1>11, <1>12, <1>13, <1>14, <1>15, <1>16, <1>17, <1>18, <1>22
       DEF Next, Loop, ProcessMessage, Producer, Exit, Crash
  <2>2. resent' = resent
    BY <1>22 DEF Next, Loop, ProcessMessage, Producer, Exit, Crash, Poll, PublishParseError,
          PublishEvent, EventRaises, AuditEvent, PublishClean, PublishCleanFails, GiveUp,
          CommitOffset, LoopReturns, Deliver, DeliveryFails, CommitArrives, StopSignal, Dies,
          Restart, Rebalance, historyVars, vars
  <2>3. resent'[m] = resent[m]
    BY <2>2
  <2> QED BY <1>2, <1>5, <1>20, <2>1, <2>3
<1> QED BY <1>21, <1>22

LEMMA DeliveriesInit == Init => DeliveriesOK
<1> SUFFICES ASSUME Init, NEW m \in Message PROVE Deliveries(m) <= 1 + rewinds + resent[m]
  BY DEF DeliveriesOK
<1>1. outbox \in Seq(Output) /\ outbox = << >> /\ rewinds = 0 /\ clean[m] = 0 /\ resent[m] = 0
  BY DEF Init
<1>2. Waiting(outbox, <<"clean", m>>) = 0
  BY <1>1, WaitingType
<1>3. InHand(m) = 0 /\ ToCome(m) \in 0 .. 1
  BY SecurityAssumption DEF Init, InHand, ToCome
<1> QED BY <1>1, <1>2, <1>3 DEF Deliveries

-----------------------------------------------------------------------------
(***************************************************************************)
(* Theorems                                                                *)
(***************************************************************************)

\* IInv holds in every reachable state of the process and its environment.
THEOREM InductiveInvariant == Spec => []IInv
<1>1. Init => IInv
  BY InitImpliesIInv
<1>2. IInv /\ [Next]_vars => IInv'
  BY TypeStep, ControlStep, AuditOKStep, OffsetsStep DEF IInv
<1> QED BY <1>1, <1>2, PTL DEF Spec

\* Every variable keeps its shape: the producer's buffer stays within its
\* limit, offsets within the log, and at most one retry is counted.
THEOREM TypeCorrectness == Spec => []TypeOK
<1>1. IInv => TypeOK
  BY DEF IInv
<1> QED BY <1>1, InductiveInvariant, PTL

\* No log behind the committed offset was passed over, but for those with a
\* threat for which no SecurityEvent can be built: it is in the producer's
\* buffer, on the clean topic, expired in the buffer, or was given up.
THEOREM NoLogPassedOver == Spec => []CommittedIsForwarded
<1>1. IInv => CommittedIsForwarded
  BY DEF IInv, OffsetsOK
<1> QED BY <1>1, InductiveInvariant, PTL

\* No flagged log goes downstream before the audit insert of each of its
\* threats was run.
THEOREM AuditedBeforeForwarded == Spec => []FlaggedIsAudited
<1>1. IInv => FlaggedIsAudited
  BY DEF IInv, AuditOK
<1> QED BY <1>1, InductiveInvariant, PTL

\* A requested stop closes the process only when the task has finished its
\* message.
THEOREM StopIsGraceful == Spec => StopFinishesMessage
<1>1. IInv /\ [Next]_vars => [life = "stopping" /\ life' = "closing" => hand = NoMessage]_vars
  <2> SUFFICES ASSUME IInv, Next, life = "stopping", life' = "closing"
               PROVE  hand = NoMessage
    BY DEF vars
  <2>1. LoopReturns
    BY DEF Next, Loop, ProcessMessage, Producer, Poll, PublishParseError, PublishEvent,
       EventRaises, AuditEvent, PublishClean, PublishCleanFails, GiveUp, CommitOffset,
       Deliver, DeliverUnacknowledged, processVars, DeliveryFails, CommitArrives, StopSignal,
       Exit, Crash, Dies, Restart, Rebalance
  <2> QED BY <2>1 DEF LoopReturns, IInv, ControlOK, Busy
<1> QED BY <1>1, InductiveInvariant, PTL DEF Spec, StopFinishesMessage

\* The pipeline never publishes one delivery of a log twice: a second copy has
\* its own restart or rebalance, or its own acknowledgement lost on the way to
\* the producer.
THEOREM CopiesAreDeliveries == Spec => []OneCopyPerDelivery
<1>1. Init => IInv /\ DeliveriesOK
  BY InitImpliesIInv, DeliveriesInit
<1>2. IInv /\ DeliveriesOK /\ [Next]_vars => (IInv /\ DeliveriesOK)'
  <2> SUFFICES ASSUME IInv, DeliveriesOK, [Next]_vars PROVE IInv' /\ DeliveriesOK'
    OBVIOUS
  <2>1. IInv'
    BY TypeStep, ControlStep, AuditOKStep, OffsetsStep DEF IInv
  <2>2. \A m \in Message :
            /\ Deliveries(m) \in Nat /\ Deliveries(m)' \in Nat
            /\ Deliveries(m)' <= Deliveries(m) + (rewinds' - rewinds) + (resent'[m] - resent[m])
            /\ resent[m] \in Nat /\ resent'[m] \in Nat
    BY <2>1, DeliveriesStep DEF IInv, TypeOK
  <2>3. rewinds \in Nat /\ rewinds' \in Nat
    BY <2>1 DEF IInv, TypeOK
  <2>4. DeliveriesOK'
    BY <2>2, <2>3 DEF DeliveriesOK
  <2> QED BY <2>1, <2>4
<1>3. IInv /\ DeliveriesOK => OneCopyPerDelivery
  <2> SUFFICES ASSUME IInv, DeliveriesOK, NEW m \in Message
      PROVE  clean[m] + Waiting(outbox, <<"clean", m>>) <= 1 + rewinds + resent[m]
    BY DEF OneCopyPerDelivery, Waiting
  <2>1. outbox \in Seq(Output) /\ clean[m] \in Nat /\ rewinds \in Nat
    BY DEF IInv, TypeOK
  <2>2. Waiting(outbox, <<"clean", m>>) \in Nat
    BY <2>1, WaitingType
  <2>3. InHand(m) \in Nat /\ ToCome(m) \in Nat
    BY DEF InHand, ToCome
  <2>4. Deliveries(m) <= 1 + rewinds + resent[m]
    BY DEF DeliveriesOK
  <2>5. clean[m] \in Nat /\ rewinds \in Nat /\ resent[m] \in Nat
    BY DEF IInv, TypeOK
  <2> QED BY <2>2, <2>3, <2>4, <2>5 DEF Deliveries
<1> QED BY <1>1, <1>2, <1>3, PTL DEF Spec

=============================================================================
