------------------------ MODULE AnomalyAgent_proofs ------------------------
(***************************************************************************)
(* Proofs about AnomalyAgent, for every value of its constants: alerts of  *)
(* a service are a cooldown apart, a pattern is reported as new once       *)
(* unless it was evicted, each error of PostgreSQL costs one row, and the  *)
(* collection of a tenant is bounded.                                      *)
(***************************************************************************)
EXTENDS AnomalyAgent, TLAPS, FiniteSetTheorems, WellFoundedInduction

(***************************************************************************)
(* The inductive invariant                                                 *)
(***************************************************************************)

Offsets == 1 .. Len(Logs)

Alert == [log : Offsets, novel : BOOLEAN, time : Nat, life : Nat, connected : BOOLEAN]

\* The shape of every variable.
TypeOK ==
    /\ running \in BOOLEAN
    /\ position \in 1 .. Len(Logs) + 1
    /\ committed \in 1 .. position
    /\ pc \in {"poll", "embed", "evict", "candidate", "verify", "insert", "produce"}
    /\ pc # "poll" => running /\ hand \in Offsets
    /\ novelty \in Nat
    /\ collection \subseteq Offsets
    /\ forgotten \subseteq Offsets
    /\ lastAlert \in [Keys -> Nat]
    /\ connection \in {"ready", "aborted", "closed"}
    /\ clock \in 0 .. MaxTime
    /\ {lives, ends, faults} \subseteq Nat
    /\ slips \in Nat
    /\ alerts \in Seq(Alert)

\* The last alert of this life is what the cooldown counts from, and it is
\* over for a candidate that the LLM is asked about.
CooldownOK ==
    /\ \A a \in DOMAIN alerts :
        /\ alerts[a].life <= lives
        /\ running /\ alerts[a].life = lives =>
                /\ lastAlert[Key(alerts[a].log)] # Never
                /\ alerts[a].time <= lastAlert[Key(alerts[a].log)]
    /\ pc = "verify" => ~ CoolingDown(hand)

Alike(i, j) == Key(i) = Key(j) /\ Distance[<<Logs[i].pattern, Logs[j].pattern>>] <= Limit

\* A log judged as new is in the collection or evicted, and unlike all that
\* were reported as new and are still known.
NoveltyOK ==
    /\ pc \in {"poll", "embed"} => novelty = 0
    /\ \A a \in DOMAIN alerts : alerts[a].novel => alerts[a].log \in collection \cup forgotten
    /\ pc \in {"evict", "candidate", "verify"} /\ novelty > 0 =>
        /\ hand \in collection \cup forgotten
        /\ \A a \in DOMAIN alerts :
            alerts[a].novel /\ Alike(hand, alerts[a].log) => alerts[a].log \in forgotten

\* Alerts that passed the INSERT without a row, over an open connection.
Settled == DOMAIN alerts \ (IF pc = "insert" THEN {Len(alerts)} ELSE {})
Missed == {a \in Settled \ rows : alerts[a].connected}

\* An aborted transaction is an error of which the row is still to come.
RowsOK ==
    /\ Cardinality(Missed) + (IF connection = "aborted" THEN 1 ELSE 0) <= faults + ends
    /\ pc = "insert" =>
        /\ alerts # << >>
        /\ alerts[Len(alerts)].connected <=> connection # "closed"

ServicesOf(S) == {Logs[i].service : i \in S}

\* The pattern that was just added has not been answered by an eviction yet.
Owed(t) == IF pc = "evict" /\ Logs[hand].tenant = t THEN 1 ELSE 0

\* A cold start adds one embedding and one service: what it adds is paid for by
\* the services the collection knows, not by the limit.
CollectionOK ==
    \A t \in Tenant :
        Cardinality(Of(t)) <=
            Cardinality(ServicesOf(Of(t))) + MaxCollection + slips + Owed(t)

IInv == TypeOK /\ CooldownOK /\ NoveltyOK /\ AlertsAreApart /\ RowsOK /\ CollectionOK

-----------------------------------------------------------------------------
(***************************************************************************)
(* Sets of numbers                                                         *)
(***************************************************************************)

\* Every set of naturals has a least element.
LEMMA NatMin ==
    ASSUME NEW S \in SUBSET Nat, S # {}
    PROVE  \E x \in S : \A y \in S : x <= y
<1>1. PICK R : IsWellFoundedOn(R, Nat) /\ \A x, y \in Nat : x < y => <<x, y>> \in R
    <2>1. \A x, y \in Nat : x < y => <<x, y>> \in OpToRel(<, Nat)
        BY DEF OpToRel
    <2> QED
        BY <2>1, NatLessThanWellFounded, Zenon
<1>2. IsWellFoundedOn(R, Nat) /\ S \subseteq Nat
    BY <1>1
<1>3. \E x \in S : \A y \in S : ~ (<<y, x>> \in R)
    BY ONLY <1>2, S # {}, WFMin, Zenon
<1>4. PICK x \in S : \A y \in S : ~ (<<y, x>> \in R)
    BY <1>3
<1>5. \A y \in S : ~ (y < x)
    BY <1>1, <1>4
<1>6. \A y \in S : x <= y
    BY <1>5
<1> QED
    BY <1>6

\* Nothing the collection knows of the service is nearer than Nearest.
LEMMA NearestIsLeast ==
    ASSUME TypeOK, NEW i \in Offsets
    PROVE  /\ Neighbours(i) \subseteq Offsets
           /\ Neighbours(i) # {} => Nearest(i) \in Nat
           /\ \A j \in Neighbours(i) : Nearest(i) <= Distance[<<Logs[i].pattern, Logs[j].pattern>>]
<1> DEFINE S == {Distance[<<Logs[i].pattern, Logs[j].pattern>>] : j \in Neighbours(i)}
<1>1. Neighbours(i) \subseteq Offsets
    BY DEF Neighbours, Of, TypeOK
<1>2. \A j \in Offsets : Logs[j] \in Log
    BY AnomalyAssumption DEF Offsets
<1>3. S \in SUBSET Nat
    BY <1>1, <1>2, AnomalyAssumption DEF Log
<1>4. CASE Neighbours(i) = {}
    BY <1>1, <1>4
<1>5. CASE Neighbours(i) # {}
    <2>0. S # {}
        BY <1>5
    <2>1. PICK x \in S : \A y \in S : x <= y
        BY <1>3, <2>0, NatMin
    <2>2. Min(S) \in S /\ \A y \in S : Min(S) <= y
        BY <2>1 DEF Min
    <2>3. Nearest(i) = Min(S)
        BY DEF Nearest
    <2> QED
        BY <1>1, <1>3, <2>2, <2>3
<1> QED
    BY <1>4, <1>5

\* A set that gains at most one element gains at most one in size.
LEMMA OneMore ==
    ASSUME NEW S, IsFiniteSet(S), NEW x, NEW T \in SUBSET (S \cup {x})
    PROVE  /\ Cardinality(T) \in Nat /\ Cardinality(S) \in Nat
           /\ Cardinality(T) <= Cardinality(S) + 1
<1>1. /\ IsFiniteSet(S \cup {x})
      /\ Cardinality(S \cup {x}) = Cardinality(S) \/ Cardinality(S \cup {x}) = Cardinality(S) + 1
    BY FS_AddElement
<1>2. IsFiniteSet(T) /\ Cardinality(T) <= Cardinality(S \cup {x})
    BY <1>1, FS_Subset
<1>3. Cardinality(S) \in Nat /\ Cardinality(T) \in Nat
    BY <1>2, FS_CardinalityType
<1> QED
    BY <1>1, <1>2, <1>3

LEMMA MissedIsFinite ==
    ASSUME TypeOK
    PROVE  /\ IsFiniteSet(Missed)
           /\ Cardinality(Missed) \in Nat
<1>1. Len(alerts) \in Nat /\ DOMAIN alerts = 1 .. Len(alerts)
    BY DEF TypeOK
<1>2. IsFiniteSet(1 .. Len(alerts))
    BY <1>1, FS_Interval
<1>3. Missed \in SUBSET (1 .. Len(alerts))
    BY <1>1 DEF Missed, Settled
<1> QED
    BY <1>2, <1>3, FS_Subset, FS_CardinalityType

-----------------------------------------------------------------------------
(***************************************************************************)
(* Types                                                                   *)
(***************************************************************************)

LEMMA LogTypes ==
    /\ Len(Logs) \in Nat
    /\ Never \in Nat
    /\ \A i \in Offsets :
        /\ Key(i) \in Keys
        /\ Logs[i].pattern \in Pattern
        /\ Distance[<<Logs[i].pattern, Logs[i].pattern>>] = 0
<1>1. \A i \in Offsets : Logs[i] \in Log
    BY AnomalyAssumption DEF Offsets
<1> QED
    BY <1>1, AnomalyAssumption DEF Offsets, Log, Key, Keys, Never

LEMMA TypeInit == Init => TypeOK
<1> SUFFICES ASSUME Init
             PROVE  TypeOK
    OBVIOUS
<1>1. running \in BOOLEAN
    BY Zenon DEF Init
<1>2. lastAlert \in [Keys -> Nat]
    BY LogTypes DEF Init
<1>3. alerts \in Seq(Alert)
    BY DEF Init
<1> QED
    BY <1>1, <1>2, <1>3, LogTypes, AnomalyAssumption DEF Init, TypeOK

LEMMA ThisAlertTyped ==
    ASSUME TypeOK, pc = "verify"
    PROVE  ThisAlert \in Alert
<1>1. (novelty > 0) \in BOOLEAN
    BY SMT
<1>2. (connection # "closed") \in BOOLEAN
    BY Zenon
<1>3. hand \in Offsets /\ clock \in Nat /\ lives \in Nat
    BY DEF TypeOK
<1> QED
    BY <1>1, <1>2, <1>3, Zenon DEF ThisAlert, Alert

LEMMA TypeStep ==
    ASSUME TypeOK, [Next]_vars
    PROVE  TypeOK'
<1> USE LogTypes DEF offsetVars, logVars, chromaVars, postgresVars, alertVars, Goto, Return,
                     SemanticStep
<1>1. CASE Poll
    BY <1>1, AnomalyAssumption DEF Poll, TypeOK, Offsets
<1>2. CASE ColdStart \/ KnownPattern \/ EmbedFails
    BY <1>2 DEF ColdStart, KnownPattern, EmbedFails, TypeOK
<1>3. CASE NovelPattern
    <2>1. Nearest(hand) \in Nat
        BY <1>3, NearestIsLeast DEF NovelPattern, TypeOK
    <2> QED
        BY <1>3, <2>1 DEF NovelPattern, TypeOK
<1>4. CASE Evict \/ EvictFails
    <2>1. collection' \subseteq collection /\ forgotten' \subseteq forgotten \cup collection
        BY <1>4 DEF Evict, EvictFails, Oldest, Of
    <2>2. novelty' \in Nat
        BY <1>4 DEF Evict, EvictFails, TypeOK
    <2> QED
        BY <1>4, <2>1, <2>2 DEF Evict, EvictFails, TypeOK
<1>5. CASE Dismiss \/ Filter \/ Produce
    BY <1>5 DEF Dismiss, Filter, Produce, TypeOK
<1>6. CASE FetchContext
    BY <1>6 DEF FetchContext, TypeOK
<1>7. CASE Confirm
    <2>1. alerts' \in Seq(Alert)
        BY <1>7, ThisAlertTyped DEF Confirm, TypeOK
    <2>2. lastAlert' \in [Keys -> Nat]
        <3>1. clock \in Nat /\ lastAlert \in [Keys -> Nat]
            BY DEF TypeOK
        <3> QED
            BY <1>7, <3>1 DEF Confirm
    <2> QED
        BY <1>7, <2>1, <2>2 DEF Confirm, TypeOK
<1>8. CASE ConfirmRaises
    <2>1. running' \in BOOLEAN
        BY <1>8, Zenon DEF ConfirmRaises
    <2>2. lastAlert' \in [Keys -> Nat]
        BY <1>8 DEF ConfirmRaises
    <2> QED
        BY <1>8, <2>1, <2>2 DEF ConfirmRaises, TypeOK
<1>9. CASE Insert \/ InsertFault \/ InsertFails
    <2>1. CASE Insert
        BY <2>1 DEF Insert, TypeOK
    <2>2. CASE InsertFault
        BY <2>2 DEF InsertFault, TypeOK
    <2>3. CASE InsertFails
        BY <2>3 DEF InsertFails, TypeOK
    <2> QED
        BY <1>9, <2>1, <2>2, <2>3
<1>10. CASE End
    <2>1. running' \in BOOLEAN
        BY <1>10, Zenon DEF End
    <2>2. lastAlert' \in [Keys -> Nat]
        BY <1>10 DEF End
    <2>3. committed' \in 1 .. position
        BY <1>10 DEF End, TypeOK
    <2> QED
        BY <1>10, <2>1, <2>2, <2>3 DEF End, TypeOK
<1>11. CASE Start
    <2>1. running' \in BOOLEAN
        BY <1>11, Zenon DEF Start
    <2> QED
        BY <1>11, <2>1 DEF Start, TypeOK
<1>12. CASE Tick
    <2>1. clock' \in 0 .. MaxTime
        BY <1>12, AnomalyAssumption DEF Tick, TypeOK
    <2>2. UNCHANGED <<offsetVars, pc, logVars, chromaVars, postgresVars, alertVars>>
        BY <1>12 DEF Tick
    <2> QED
        BY <2>1, <2>2 DEF TypeOK
<1>13. CASE UNCHANGED vars
    BY <1>13 DEF vars, TypeOK
<1> QED
    BY <1>1, <1>2, <1>3, <1>4, <1>5, <1>6, <1>7, <1>8, <1>9, <1>10, <1>11, <1>12, <1>13
    DEF Next, Detect, Judge

-----------------------------------------------------------------------------
(***************************************************************************)
(* The alerts                                                              *)
(***************************************************************************)

\* Only a confirmation raises an alert.
LEMMA AlertsKept ==
    ASSUME [Next]_vars, ~ Confirm
    PROVE  UNCHANGED alerts
BY DEF Next, Detect, Judge, Poll, ColdStart, KnownPattern, NovelPattern, EmbedFails, Evict,
       EvictFails, Dismiss, FetchContext, Filter, ConfirmRaises, Insert, InsertFault,
       InsertFails, Produce, End, Start, Tick, vars, alertVars, SemanticStep

\* The alerts after a confirmation.
LEMMA Confirmed ==
    ASSUME TypeOK, Confirm
    PROVE  /\ DOMAIN alerts = 1 .. Len(alerts)
           /\ DOMAIN alerts' = DOMAIN alerts \cup {Len(alerts) + 1}
           /\ Len(alerts') = Len(alerts) + 1
           /\ \A a \in DOMAIN alerts : alerts'[a] = alerts[a]
           /\ alerts'[Len(alerts) + 1] = ThisAlert
<1>1. alerts \in Seq(Alert) /\ alerts' = Append(alerts, ThisAlert)
    BY DEF TypeOK, Confirm
<1>2. ThisAlert \in Alert
    BY ThisAlertTyped DEF Confirm
<1>3. PICK t \in Alert : t = ThisAlert
    BY <1>2
<1>4. alerts' = Append(alerts, t)
    BY <1>1, <1>3
<1>5. /\ DOMAIN alerts = 1 .. Len(alerts)
      /\ DOMAIN alerts' = DOMAIN alerts \cup {Len(alerts) + 1}
      /\ Len(alerts') = Len(alerts) + 1
      /\ \A a \in DOMAIN alerts : alerts'[a] = alerts[a]
      /\ alerts'[Len(alerts) + 1] = t
    BY <1>1, <1>4
<1> QED
    BY <1>3, <1>5

LEMMA AlertTypes ==
    ASSUME TypeOK, NEW a \in DOMAIN alerts
    PROVE  /\ alerts[a].log \in Offsets
           /\ Key(alerts[a].log) \in Keys
           /\ alerts[a].time \in Nat
           /\ alerts[a].life \in Nat
<1>1. alerts[a] \in Alert
    BY DEF TypeOK
<1>2. alerts[a].log \in Offsets /\ alerts[a].time \in Nat /\ alerts[a].life \in Nat
    BY <1>1 DEF Alert
<1> QED
    BY <1>2, LogTypes

\* The first conjunct of CooldownOK, for any alerts.
LEMMA CooldownStep ==
    ASSUME TypeOK, CooldownOK, [Next]_vars
    PROVE  CooldownOK'
<1> USE LogTypes DEF offsetVars, logVars, chromaVars, postgresVars, alertVars, Goto, Return,
                     SemanticStep
<1>1. CASE Confirm
    <2>1. /\ hand \in Offsets /\ clock \in Nat /\ clock # Never /\ running /\ lives \in Nat
          /\ lastAlert' = [lastAlert EXCEPT ![Key(hand)] = clock]
          /\ UNCHANGED <<lives, running, hand>> /\ pc' = "insert"
        BY <1>1, AnomalyAssumption DEF Confirm, TypeOK, Never
    <2>2. lastAlert'[Key(hand)] = clock
        BY <2>1 DEF TypeOK
    <2>3. ThisAlert.log = hand /\ ThisAlert.time = clock /\ ThisAlert.life = lives
        BY DEF ThisAlert
    <2>4. ASSUME NEW a \in DOMAIN alerts
          PROVE  /\ alerts[a].life <= lives
                 /\ alerts[a].life = lives =>
                        /\ lastAlert'[Key(alerts[a].log)] # Never
                        /\ alerts[a].time <= lastAlert'[Key(alerts[a].log)]
        <3> DEFINE k == Key(alerts[a].log)
        <3>1. k \in Keys /\ alerts[a].time \in Nat
            BY AlertTypes
        <3>2. /\ alerts[a].life <= lives
              /\ alerts[a].life = lives => lastAlert[k] # Never /\ alerts[a].time <= lastAlert[k]
            BY <2>1 DEF CooldownOK
        <3>3. CASE k # Key(hand)
            <4>1. lastAlert'[k] = lastAlert[k]
                BY <2>1, <3>1, <3>3 DEF TypeOK
            <4> QED
                BY <3>2, <4>1
        <3>4. CASE k = Key(hand)
            <4>1. ~ CoolingDown(hand) /\ lastAlert[k] \in Nat
                BY <1>1, <3>1 DEF Confirm, CooldownOK, TypeOK
            <4>2. lastAlert[k] # Never => lastAlert[k] <= clock
                BY <2>1, <3>4, <4>1, AnomalyAssumption DEF CoolingDown
            <4> QED
                BY <2>1, <2>2, <3>1, <3>2, <3>4, <4>1, <4>2
        <3> QED
            BY <3>3, <3>4
    <2>5. /\ DOMAIN alerts' = DOMAIN alerts \cup {Len(alerts) + 1}
          /\ \A a \in DOMAIN alerts : alerts'[a] = alerts[a]
          /\ alerts'[Len(alerts) + 1] = ThisAlert
        BY <1>1, Confirmed
    <2> QED
        BY <2>1, <2>2, <2>3, <2>4, <2>5 DEF CooldownOK
<1>2. CASE ConfirmRaises \/ End
    <2>1. ~ running' /\ pc' = "poll" /\ UNCHANGED <<lives, alerts>>
        BY <1>2, Zenon DEF ConfirmRaises, End
    <2> QED
        BY <2>1 DEF CooldownOK
<1>3. CASE Start
    <2>1. lives' = lives + 1 /\ UNCHANGED <<pc, alerts>> /\ ~ running
        BY <1>3 DEF Start
    <2>2. pc = "poll" /\ lives \in Nat
        BY <2>1 DEF TypeOK
    <2>3. \A a \in DOMAIN alerts : alerts[a].life \in Nat /\ alerts[a].life <= lives
        BY AlertTypes DEF CooldownOK
    <2>4. \A a \in DOMAIN alerts : alerts[a].life < lives'
        BY <2>1, <2>2, <2>3
    <2>5. \A a \in DOMAIN alerts : alerts[a].life <= lives' /\ alerts[a].life # lives'
        BY <2>1, <2>2, <2>3, <2>4
    <2> QED
        BY <2>1, <2>2, <2>5 DEF CooldownOK
<1>4. CASE FetchContext
    <2>1. UNCHANGED <<running, lives, alerts, lastAlert, hand, clock>> /\ ~ CoolingDown(hand)
        BY <1>4 DEF FetchContext
    <2> QED
        BY <2>1 DEF CooldownOK, CoolingDown
<1>5. CASE Tick
    <2>1. UNCHANGED <<running, lives, alerts, lastAlert, hand, pc>> /\ clock' = clock + 1
        BY <1>5 DEF Tick
    <2>2. pc = "verify" => ~ CoolingDown(hand)'
        <3>1. pc = "verify" => Key(hand) \in Keys
            BY DEF TypeOK
        <3>2. pc = "verify" => lastAlert[Key(hand)] \in Nat
            BY <3>1 DEF TypeOK
        <3>3. clock \in Nat
            BY DEF TypeOK
        <3>4. pc = "verify" => ~ CoolingDown(hand)
            BY DEF CooldownOK
        <3>5. Cooldown \in Nat
            BY AnomalyAssumption
        <3> QED
            BY <2>1, <3>2, <3>3, <3>4, <3>5 DEF CoolingDown
    <2> QED
        BY <2>1, <2>2 DEF CooldownOK
<1>6. CASE \/ Poll \/ ColdStart \/ KnownPattern \/ NovelPattern \/ EmbedFails
           \/ Evict \/ EvictFails \/ Dismiss \/ Filter
           \/ Insert \/ InsertFault \/ InsertFails \/ Produce
    <2>1. UNCHANGED <<running, lives, alerts, lastAlert>> /\ pc' # "verify"
        BY <1>6 DEF Poll, ColdStart, KnownPattern, NovelPattern, EmbedFails, Evict, EvictFails,
                    Dismiss, Filter, Insert, InsertFault, InsertFails, Produce
    <2> QED
        BY <2>1 DEF CooldownOK
<1>7. CASE UNCHANGED vars
    BY <1>7 DEF vars, CooldownOK, CoolingDown
<1> QED
    BY <1>1, <1>2, <1>3, <1>4, <1>5, <1>6, <1>7 DEF Next, Detect, Judge

\* What the agent knew or evicted, it goes on to know or to have evicted.
LEMMA PatternsKept ==
    ASSUME [Next]_vars
    PROVE  /\ collection \subseteq collection' \cup forgotten'
           /\ forgotten \subseteq forgotten'
<1> USE DEF chromaVars, SemanticStep
<1>1. CASE Detect
    BY <1>1 DEF Detect, Poll, ColdStart, KnownPattern, NovelPattern, EmbedFails, Evict, EvictFails
<1>2. CASE Judge
    BY <1>2 DEF Judge, Dismiss, FetchContext, Filter, Confirm, ConfirmRaises, Insert,
                InsertFault, InsertFails, Produce
<1>3. CASE End \/ Start \/ Tick \/ UNCHANGED vars
    BY <1>3 DEF End, Start, Tick, vars
<1> QED
    BY <1>1, <1>2, <1>3 DEF Next

LEMMA NoveltyStep ==
    ASSUME TypeOK, NoveltyOK, [Next]_vars
    PROVE  NoveltyOK'
<1> USE LogTypes DEF offsetVars, logVars, chromaVars, postgresVars, alertVars, Goto, Return,
                     SemanticStep
<1>1. CASE Confirm
    <2>1. pc = "verify" /\ pc' = "insert" /\ UNCHANGED <<collection, forgotten>>
        BY <1>1 DEF Confirm
    <2>2. ThisAlert.log = hand /\ (ThisAlert.novel <=> novelty > 0)
        BY Zenon DEF ThisAlert
    <2>3. /\ DOMAIN alerts' = DOMAIN alerts \cup {Len(alerts) + 1}
          /\ \A a \in DOMAIN alerts : alerts'[a] = alerts[a]
          /\ alerts'[Len(alerts) + 1] = ThisAlert
        BY <1>1, Confirmed
    <2> QED
        BY <2>1, <2>2, <2>3 DEF NoveltyOK
<1>2. ASSUME UNCHANGED alerts,
             pc' \in {"evict", "candidate", "verify"} /\ novelty' > 0 =>
                pc \in {"evict", "candidate", "verify"} /\ UNCHANGED <<hand, novelty>>,
             pc' \in {"poll", "embed"} => novelty' = 0
      PROVE  NoveltyOK'
    BY <1>2, PatternsKept DEF NoveltyOK, Alike
<1>3. CASE NovelPattern
    <2>1. /\ UNCHANGED <<alerts, hand, forgotten>> /\ hand \in collection' /\ pc' = "evict"
          /\ Neighbours(hand) # {} /\ Nearest(hand) > Limit /\ hand \in Offsets
        BY <1>3 DEF NovelPattern, TypeOK
    <2>2. ASSUME NEW a \in DOMAIN alerts, alerts[a].novel, Alike(hand, alerts[a].log)
          PROVE  alerts[a].log \in forgotten
        <3> DEFINE j == alerts[a].log
        <3>1. j \in Offsets /\ j \in collection \cup forgotten
            BY <2>2, AlertTypes DEF NoveltyOK
        <3>2. ASSUME j \in collection
              PROVE  FALSE
            <4>1. j \in Neighbours(hand)
                BY <2>2, <3>2 DEF Alike, Key, Neighbours, Of
            <4>2. Nearest(hand) <= Distance[<<Logs[hand].pattern, Logs[j].pattern>>] /\ Nearest(hand) \in Nat
                BY <2>1, <4>1, NearestIsLeast
            <4>3. Distance[<<Logs[hand].pattern, Logs[j].pattern>>] \in Nat
                BY <2>1, <3>1, AnomalyAssumption
            <4> QED
                BY <2>1, <2>2, <4>2, <4>3, AnomalyAssumption DEF Alike
        <3> QED
            BY <3>1, <3>2
    <2>3. \A a \in DOMAIN alerts' : alerts'[a].novel => alerts'[a].log \in collection' \cup forgotten'
        BY <2>1, PatternsKept DEF NoveltyOK
    <2>4. \A a \in DOMAIN alerts' :
            alerts'[a].novel /\ Alike(hand', alerts'[a].log) => alerts'[a].log \in forgotten'
        BY <2>1, <2>2
    <2> QED
        BY <2>1, <2>3, <2>4 DEF NoveltyOK, Alike
<1>4. CASE Poll
    BY <1>2, <1>4 DEF Poll
<1>5. CASE ColdStart \/ KnownPattern \/ EmbedFails
    <2>1. UNCHANGED <<alerts, novelty>> /\ pc = "embed" /\ pc' = "candidate" /\ novelty = 0
        BY <1>5 DEF ColdStart, KnownPattern, EmbedFails, NoveltyOK
    <2> QED
        BY <1>2, <2>1
<1>6. CASE Evict \/ EvictFails \/ FetchContext
    BY <1>2, <1>6 DEF Evict, EvictFails, FetchContext
<1>7. CASE \/ Dismiss \/ Filter \/ ConfirmRaises \/ Insert \/ InsertFault \/ InsertFails
           \/ Produce \/ End
    BY <1>2, <1>7 DEF Dismiss, Filter, ConfirmRaises, Insert, InsertFault, InsertFails, Produce, End
<1>8. CASE Start \/ Tick \/ UNCHANGED vars
    BY <1>2, <1>8 DEF Start, Tick, vars, NoveltyOK
<1> QED
    BY <1>1, <1>3, <1>4, <1>5, <1>6, <1>7, <1>8 DEF Next, Detect, Judge

LEMMA ApartStep ==
    ASSUME TypeOK, CooldownOK, NoveltyOK, AlertsAreApart, [Next]_vars
    PROVE  AlertsAreApart'
<1>1. CASE ~ Confirm
    <2>1. UNCHANGED alerts /\ forgotten \subseteq forgotten'
        BY <1>1, AlertsKept, PatternsKept
    <2> QED
        BY <2>1 DEF AlertsAreApart, SameKey
<1>2. CASE Confirm
    <2> DEFINE n == Len(alerts) + 1
    <2>1. /\ DOMAIN alerts = 1 .. Len(alerts)
          /\ DOMAIN alerts' = DOMAIN alerts \cup {n}
          /\ \A a \in DOMAIN alerts : alerts'[a] = alerts[a]
          /\ alerts'[n] = ThisAlert
        BY <1>2, Confirmed
    <2>2. pc = "verify" /\ UNCHANGED forgotten
        BY <1>2 DEF Confirm, chromaVars
    <2>3. /\ ThisAlert.log = hand /\ (ThisAlert.novel <=> novelty > 0)
          /\ ThisAlert.time = clock /\ ThisAlert.life = lives
        BY Zenon DEF ThisAlert
    <2>4. ~ (n < n) /\ \A a \in DOMAIN alerts : ~ (n < a)
        BY <2>1 DEF TypeOK
    <2>5. ASSUME NEW a \in DOMAIN alerts, Key(alerts[a].log) = Key(hand), alerts[a].life = lives
          PROVE  alerts[a].time + Cooldown <= clock
        <3>1. running /\ ~ CoolingDown(hand)
            BY <2>2 DEF TypeOK, CooldownOK
        <3>2. /\ lastAlert[Key(hand)] # Never
              /\ alerts[a].time <= lastAlert[Key(hand)]
            BY <2>5, <3>1 DEF CooldownOK
        <3>3. alerts[a].time \in Nat /\ lastAlert[Key(hand)] \in Nat /\ clock \in Nat
            BY <2>5, AlertTypes DEF TypeOK
        <3> QED
            BY <3>1, <3>2, <3>3, AnomalyAssumption DEF CoolingDown
    <2>6. ASSUME NEW a \in DOMAIN alerts, Key(alerts[a].log) = Key(hand), alerts[a].novel,
                 novelty > 0,
                 Distance[<<Logs[hand].pattern, Logs[alerts[a].log].pattern>>] <= Limit
          PROVE  alerts[a].log \in forgotten
        BY <2>2, <2>6 DEF NoveltyOK, Alike
    <2> HIDE DEF n
    <2> SUFFICES ASSUME NEW a \in DOMAIN alerts', NEW b \in DOMAIN alerts', a < b,
                        Key(alerts'[a].log) = Key(alerts'[b].log)
                 PROVE  /\ alerts'[a].life = alerts'[b].life =>
                                alerts'[a].time + Cooldown <= alerts'[b].time
                        /\ (/\ alerts'[a].novel
                            /\ alerts'[b].novel
                            /\ Distance[<<Logs[alerts'[b].log].pattern, Logs[alerts'[a].log].pattern>>]
                                    <= Limit)
                           => alerts'[a].log \in forgotten'
        BY DEF AlertsAreApart, SameKey
    <2>7. CASE a \in DOMAIN alerts /\ b \in DOMAIN alerts
        BY <2>1, <2>2, <2>7 DEF AlertsAreApart, SameKey
    <2>8. CASE a \in DOMAIN alerts /\ b = n
        BY <2>1, <2>2, <2>3, <2>5, <2>6, <2>8
    <2>9. CASE a = n
        <3>1. b = n \/ b \in DOMAIN alerts
            BY <2>1
        <3> QED
            BY <3>1, <2>4, <2>9
    <2> QED
        BY <2>1, <2>7, <2>8, <2>9
<1> QED
    BY <1>1, <1>2

-----------------------------------------------------------------------------
(***************************************************************************)
(* The rows                                                                *)
(***************************************************************************)

\* Steps that settle no alert leave no more of them without a row.
LEMMA RowsKept ==
    ASSUME TypeOK, RowsOK, UNCHANGED <<alerts, rows, connection, faults, ends>>,
           pc' # "insert" /\ pc # "insert"
    PROVE  RowsOK'
<1>1. Missed' = Missed
    BY DEF Missed, Settled
<1> QED
    BY <1>1 DEF RowsOK

LEMMA RowsStep ==
    ASSUME TypeOK, RowsOK, [Next]_vars
    PROVE  RowsOK'
<1> USE DEF offsetVars, logVars, chromaVars, postgresVars, alertVars, Goto, Return, SemanticStep
<1>0. /\ IsFiniteSet(Missed) /\ Cardinality(Missed) \in Nat
      /\ faults \in Nat /\ ends \in Nat /\ Len(alerts) \in Nat
      /\ DOMAIN alerts = 1 .. Len(alerts)
    BY MissedIsFinite DEF TypeOK
<1>1. CASE \/ Poll \/ ColdStart \/ KnownPattern \/ NovelPattern \/ EmbedFails
           \/ Evict \/ EvictFails \/ Dismiss \/ Filter \/ ConfirmRaises \/ Produce \/ Tick
    <2>1. UNCHANGED <<alerts, rows, connection, faults, ends>> /\ pc' # "insert" /\ pc # "insert"
        BY <1>1 DEF Poll, ColdStart, KnownPattern, NovelPattern, EmbedFails, Evict, EvictFails,
                    Dismiss, Filter, ConfirmRaises, Produce, Tick
    <2> QED
        BY <2>1, RowsKept
<1>2. CASE FetchContext
    <2>1. UNCHANGED <<alerts, rows, ends>> /\ pc = "candidate" /\ pc' = "verify"
        BY <1>2 DEF FetchContext
    <2>2. Missed' = Missed
        BY <2>1 DEF Missed, Settled
    <2>3. \/ UNCHANGED <<connection, faults>>
          \/ connection = "ready" /\ faults' = faults + 1
        BY <1>2 DEF FetchContext
    <2> QED
        BY <1>0, <2>1, <2>2, <2>3 DEF RowsOK
<1>3. CASE Confirm
    <2>1. UNCHANGED <<rows, connection, faults, ends>> /\ pc = "verify" /\ pc' = "insert"
        BY <1>3 DEF Confirm
    <2>2. /\ DOMAIN alerts' = DOMAIN alerts \cup {Len(alerts) + 1}
          /\ Len(alerts') = Len(alerts) + 1
          /\ \A a \in DOMAIN alerts : alerts'[a] = alerts[a]
          /\ alerts'[Len(alerts) + 1] = ThisAlert
        BY <1>3, Confirmed
    <2>3. Missed' = Missed
        BY <1>0, <2>1, <2>2 DEF Missed, Settled
    <2>4. alerts' # << >>
        BY <1>0, <2>2
    <2>5. ThisAlert.connected <=> connection # "closed"
        BY Zenon DEF ThisAlert
    <2>6. alerts'[Len(alerts')].connected <=> connection' # "closed"
        BY <2>1, <2>2, <2>5
    <2> QED
        BY <1>0, <2>1, <2>3, <2>4, <2>6 DEF RowsOK
<1>4. CASE Insert
    <2>1. /\ UNCHANGED <<alerts, connection, faults, ends>>
          /\ rows' = rows \cup {Len(alerts)} /\ pc' = "produce"
        BY <1>4 DEF Insert
    <2>2. Missed' \in SUBSET Missed
        BY <2>1 DEF Missed, Settled
    <2>3. Cardinality(Missed') <= Cardinality(Missed) /\ Cardinality(Missed') \in Nat
        BY <1>0, <2>2, FS_Subset, FS_CardinalityType
    <2> QED
        BY <1>0, <2>1, <2>3 DEF RowsOK
<1>5. CASE InsertFault
    <2>1. /\ UNCHANGED <<alerts, rows, ends>> /\ faults' = faults + 1
          /\ connection = "ready" /\ connection' # "aborted" /\ pc' = "produce"
        BY <1>5 DEF InsertFault
    <2>2. Missed' \in SUBSET (Missed \cup {Len(alerts)})
        BY <2>1 DEF Missed, Settled
    <2>3. Cardinality(Missed') <= Cardinality(Missed) + 1 /\ Cardinality(Missed') \in Nat
        BY <1>0, <2>2, OneMore
    <2> QED
        BY <1>0, <2>1, <2>3 DEF RowsOK
<1>6. CASE InsertFails
    <2>1. /\ UNCHANGED <<alerts, rows, faults, ends>> /\ pc = "insert" /\ pc' = "produce"
        BY <1>6 DEF InsertFails
    <2>2. CASE connection = "aborted" /\ connection' = "ready"
        <3>1. Missed' \in SUBSET (Missed \cup {Len(alerts)})
            BY <2>1 DEF Missed, Settled
        <3>2. Cardinality(Missed') <= Cardinality(Missed) + 1 /\ Cardinality(Missed') \in Nat
            BY <1>0, <3>1, OneMore
        <3> QED
            BY <1>0, <2>1, <2>2, <3>2 DEF RowsOK
    <2>3. CASE connection = "closed" /\ connection' = "closed"
        <3>1. ~ alerts[Len(alerts)].connected
            BY <2>1, <2>3 DEF RowsOK
        <3>2. Missed' = Missed
            BY <2>1, <3>1 DEF Missed, Settled
        <3> QED
            BY <1>0, <2>1, <2>3, <3>2 DEF RowsOK
    <2> QED
        BY <1>6, <2>2, <2>3 DEF InsertFails, TypeOK
<1>7. CASE End
    <2>1. UNCHANGED <<alerts, rows, faults, connection>> /\ ends' = ends + 1 /\ pc' = "poll"
        BY <1>7 DEF End
    <2>2. Missed' \in SUBSET (Missed \cup {Len(alerts)})
        BY <2>1 DEF Missed, Settled
    <2>3. Cardinality(Missed') <= Cardinality(Missed) + 1 /\ Cardinality(Missed') \in Nat
        BY <1>0, <2>2, OneMore
    <2> QED
        BY <1>0, <2>1, <2>3 DEF RowsOK
<1>8. CASE Start
    <2>1. UNCHANGED <<alerts, rows, faults, ends, pc>> /\ connection' = "ready" /\ pc = "poll"
        BY <1>8 DEF Start, TypeOK
    <2>2. Missed' = Missed
        BY <2>1 DEF Missed, Settled
    <2> QED
        BY <1>0, <2>1, <2>2 DEF RowsOK
<1>9. CASE UNCHANGED vars
    BY <1>9 DEF vars, RowsOK, Missed, Settled
<1> QED
    BY <1>1, <1>2, <1>3, <1>4, <1>5, <1>6, <1>7, <1>8, <1>9 DEF Next, Detect, Judge

-----------------------------------------------------------------------------
(***************************************************************************)
(* The collection                                                          *)
(***************************************************************************)

\* The embeddings of a tenant are finitely many, of no more services than
\* there are.
LEMMA EmbeddingsAreFinite ==
    ASSUME NEW S \in SUBSET Offsets
    PROVE  /\ IsFiniteSet(S) /\ Cardinality(S) \in Nat
           /\ ServicesOf(S) \subseteq Service
           /\ IsFiniteSet(ServicesOf(S)) /\ Cardinality(ServicesOf(S)) \in Nat
           /\ Cardinality(Service) \in Nat
           /\ Cardinality(ServicesOf(S)) <= Cardinality(Service)
<1>1. IsFiniteSet(Offsets)
    BY LogTypes, FS_Interval DEF Offsets
<1>2. IsFiniteSet(S) /\ Cardinality(S) \in Nat
    BY <1>1, FS_Subset, FS_CardinalityType
<1>3. ServicesOf(S) \in SUBSET Service
    <2>1. \A i \in Offsets : Logs[i] \in Log
        BY AnomalyAssumption DEF Offsets
    <2> QED
        BY <2>1 DEF ServicesOf, Log
<1>4. IsFiniteSet(Service)
    BY AnomalyAssumption
<1> QED
    BY <1>2, <1>3, <1>4, FS_Subset, FS_CardinalityType

\* _evict_oldest takes eviction_batch_size embeddings, unless there are fewer.
LEMMA OldestAreEnough ==
    ASSUME TypeOK, NEW t \in Tenant
    PROVE  Oldest(t) = Of(t) \/ Cardinality(Oldest(t)) >= Batch
<1> SUFFICES ASSUME Oldest(t) # Of(t)
             PROVE  Cardinality(Oldest(t)) >= Batch
    OBVIOUS
<1>1. Oldest(t) \subseteq Of(t) /\ Of(t) \in SUBSET Offsets
    BY DEF Oldest, Of, TypeOK
<1>2. \A i \in Of(t) : Logs[i].stamp \in Nat
    <2>1. \A i \in Offsets : Logs[i] \in Log
        BY AnomalyAssumption DEF Offsets
    <2> QED
        BY <1>1, <2>1 DEF Log
<1> DEFINE S == {Logs[i].stamp : i \in Of(t) \ Oldest(t)}
<1>3. S \in SUBSET Nat /\ S # {}
    BY <1>1, <1>2
<1>4. PICK x \in S : \A y \in S : x <= y
    BY <1>3, NatMin
<1>5. PICK i \in Of(t) \ Oldest(t) : Logs[i].stamp = x
    BY <1>4
<1> DEFINE Older == {j \in Of(t) : Logs[j].stamp < Logs[i].stamp}
<1>6. Older \in SUBSET Oldest(t)
    <2> SUFFICES ASSUME NEW j \in Older, j \notin Oldest(t)
                 PROVE  FALSE
        OBVIOUS
    <2>1. Logs[j].stamp \in S /\ Logs[j].stamp < Logs[i].stamp
        BY <1>1
    <2>2. x <= Logs[j].stamp
        BY <1>4, <2>1
    <2>3. x \in Nat /\ Logs[j].stamp \in Nat
        BY <1>3, <2>1
    <2> QED
        BY <1>5, <2>1, <2>2, <2>3
<1>7. ~ (Cardinality(Older) < Batch)
    BY <1>5 DEF Oldest
<1> HIDE DEF Older
<1>8. /\ IsFiniteSet(Oldest(t)) /\ Cardinality(Oldest(t)) \in Nat
      /\ Cardinality(Older) \in Nat
    BY <1>1, <1>6, EmbeddingsAreFinite
<1>9. Cardinality(Older) <= Cardinality(Oldest(t))
    BY <1>6, <1>8, FS_Subset
<1> QED
    BY <1>7, <1>8, <1>9, AnomalyAssumption

\* An eviction that leaves something takes more embeddings than it takes
\* services out of the collection.
LEMMA EvictionPays ==
    ASSUME NEW S \in SUBSET Offsets, NEW E \in SUBSET S, S \ E # {},
           Cardinality(E) >= Batch
    PROVE  Cardinality(S \ E) + Cardinality(ServicesOf(S)) + 1
                <= Cardinality(S) + Cardinality(ServicesOf(S \ E))
<1> DEFINE R == S \ E
           D == ServicesOf(S) \ ServicesOf(R)
<1>1. R \in SUBSET Offsets /\ E \in SUBSET Offsets
    OBVIOUS
<1>2. /\ IsFiniteSet(S) /\ Cardinality(S) \in Nat
      /\ IsFiniteSet(ServicesOf(S)) /\ Cardinality(ServicesOf(S)) \in Nat
      /\ ServicesOf(S) \subseteq Service
      /\ Cardinality(Service) \in Nat
    BY EmbeddingsAreFinite
<1>3. /\ Cardinality(R) \in Nat /\ Cardinality(ServicesOf(R)) \in Nat
      /\ Cardinality(E) \in Nat
    BY <1>1, EmbeddingsAreFinite
<1>4. ServicesOf(R) \in SUBSET ServicesOf(S)
    BY DEF ServicesOf
<1>5. Cardinality(R) = Cardinality(S) - Cardinality(E)
    <2>1. S \cap E = E
        OBVIOUS
    <2> QED
        BY <1>2, <2>1, FS_Difference
<1>6. /\ IsFiniteSet(D) /\ Cardinality(D) \in Nat
      /\ Cardinality(D) = Cardinality(ServicesOf(S)) - Cardinality(ServicesOf(R))
    <2>1. ServicesOf(S) \cap ServicesOf(R) = ServicesOf(R)
        BY <1>4
    <2> QED
        BY <1>2, <2>1, FS_Difference, FS_CardinalityType
<1>7. PICK s \in ServicesOf(R) : s \notin D
    BY DEF ServicesOf
<1> HIDE DEF R, D
<1>8. Cardinality(D) + 1 <= Cardinality(Service)
    <2>1. D \cup {s} \in SUBSET Service
        BY <1>2, <1>4, <1>7 DEF D
    <2>2. Cardinality(D \cup {s}) <= Cardinality(Service)
        BY <2>1, FS_Subset, AnomalyAssumption
    <2>3. Cardinality(D \cup {s}) = Cardinality(D) + 1
        BY <1>6, <1>7, FS_AddElement
    <2> QED
        BY <2>2, <2>3
<1>9. Cardinality(D) + 1 <= Cardinality(E)
    <2>1. Batch \in Nat /\ Cardinality(Service) <= Batch
        BY AnomalyAssumption
    <2> QED
        BY <1>2, <1>3, <1>6, <1>8, <2>1
<1> QED
    BY <1>2, <1>3, <1>5, <1>6, <1>9 DEF R

\* A step that adds and evicts nothing, and leaves no eviction out unnoticed.
LEMMA CollectionKept ==
    ASSUME TypeOK, CollectionOK, UNCHANGED collection, slips' \in Nat,
           \A t \in Tenant : slips + Owed(t) <= slips' + Owed(t)'
    PROVE  CollectionOK'
<1> SUFFICES ASSUME NEW t \in Tenant
             PROVE  Cardinality(Of(t)) <=
                        Cardinality(ServicesOf(Of(t))) + MaxCollection + slips' + Owed(t)'
    BY DEF CollectionOK, Of
<1>1. Of(t) \in SUBSET Offsets
    BY DEF Of, TypeOK
<1>2. /\ Cardinality(Of(t)) \in Nat /\ Cardinality(ServicesOf(Of(t))) \in Nat
      /\ MaxCollection \in Nat /\ slips \in Nat
      /\ Owed(t) \in Nat /\ Owed(t)' \in Nat
    BY <1>1, EmbeddingsAreFinite, AnomalyAssumption DEF TypeOK, Owed
<1>3. /\ Cardinality(Of(t)) <=
            Cardinality(ServicesOf(Of(t))) + MaxCollection + slips + Owed(t)
      /\ slips + Owed(t) <= slips' + Owed(t)'
    BY DEF CollectionOK
<1> QED
    BY <1>2, <1>3

LEMMA ColdStartKeeps ==
    ASSUME TypeOK, CollectionOK, ColdStart
    PROVE  CollectionOK'
<1>0. slips' = slips /\ pc' # "evict"
    BY DEF ColdStart, Goto
<1>1. /\ pc = "embed" /\ Neighbours(hand) = {}
      /\ collection' = collection \cup {hand} /\ hand \in Offsets
    BY DEF ColdStart, Goto, TypeOK
<1> SUFFICES ASSUME NEW t \in Tenant
             PROVE  Cardinality(Of(t)') <=
                        Cardinality(ServicesOf(Of(t)')) + MaxCollection + slips'
                            + Owed(t)'
    BY DEF CollectionOK, ServicesOf
<1>9. Owed(t)' = 0
    BY <1>0 DEF Owed
<1> DEFINE s == Logs[hand].service
<1>2. Of(t) \in SUBSET Offsets
    BY DEF Of, TypeOK
<1>3. /\ IsFiniteSet(Of(t)) /\ Cardinality(Of(t)) \in Nat
      /\ IsFiniteSet(ServicesOf(Of(t))) /\ Cardinality(ServicesOf(Of(t))) \in Nat
      /\ MaxCollection \in Nat /\ slips \in Nat
    BY <1>2, EmbeddingsAreFinite, AnomalyAssumption DEF TypeOK
<1>4. Cardinality(Of(t)) <= Cardinality(ServicesOf(Of(t))) + MaxCollection + slips
    BY <1>1, <1>3 DEF CollectionOK, Owed
<1>5. CASE Logs[hand].tenant # t
    <2>1. Of(t)' = Of(t)
        BY <1>1, <1>5 DEF Of
    <2> QED
        BY <1>0, <1>3, <1>4, <1>9, <2>1
<1>6. CASE Logs[hand].tenant = t
    <2>1. Of(t)' = Of(t) \cup {hand}
        BY <1>1, <1>6 DEF Of
    <2>2. ServicesOf(Of(t)') = ServicesOf(Of(t)) \cup {s}
        BY <2>1 DEF ServicesOf
    <2>3. s \notin ServicesOf(Of(t)) /\ hand \notin Of(t)
        BY <1>1, <1>6 DEF ServicesOf, Neighbours
    <2> HIDE DEF s
    <2>4. /\ Cardinality(Of(t)') = Cardinality(Of(t)) + 1
          /\ Cardinality(ServicesOf(Of(t)')) = Cardinality(ServicesOf(Of(t))) + 1
        BY <1>3, <2>1, <2>2, <2>3, FS_AddElement
    <2> QED
        BY <1>0, <1>3, <1>4, <1>9, <2>4
<1> QED
    BY <1>5, <1>6

LEMMA NovelPatternKeeps ==
    ASSUME TypeOK, CollectionOK, NovelPattern
    PROVE  CollectionOK'
<1>0. slips' = slips
    BY DEF NovelPattern
<1>1. /\ pc = "embed" /\ pc' = "evict" /\ hand' = hand
      /\ collection' = collection \cup {hand} /\ hand \in Offsets
    BY DEF NovelPattern, Goto, SemanticStep, TypeOK
<1> SUFFICES ASSUME NEW t \in Tenant
             PROVE  Cardinality(Of(t)') <=
                        Cardinality(ServicesOf(Of(t)')) + MaxCollection + slips' + Owed(t)'
    BY DEF CollectionOK, ServicesOf
<1>2. Of(t) \in SUBSET Offsets /\ Of(t)' \in SUBSET Offsets
    BY <1>1 DEF Of, TypeOK
<1>3. /\ IsFiniteSet(Of(t)) /\ Cardinality(Of(t)) \in Nat
      /\ Cardinality(ServicesOf(Of(t))) \in Nat
      /\ IsFiniteSet(ServicesOf(Of(t)')) /\ Cardinality(ServicesOf(Of(t)')) \in Nat
      /\ MaxCollection \in Nat /\ slips \in Nat
    BY <1>2, EmbeddingsAreFinite, AnomalyAssumption DEF TypeOK
<1>4. Cardinality(Of(t)) <= Cardinality(ServicesOf(Of(t))) + MaxCollection + slips
    BY <1>1, <1>3 DEF CollectionOK, Owed
<1>5. CASE Logs[hand].tenant # t
    <2>1. Of(t)' = Of(t) /\ Owed(t)' = 0
        BY <1>1, <1>5 DEF Of, Owed
    <2> QED
        BY <1>0, <1>3, <1>4, <2>1
<1>6. CASE Logs[hand].tenant = t
    <2>1. Of(t)' \in SUBSET (Of(t) \cup {hand}) /\ Owed(t)' = 1
        BY <1>1, <1>6 DEF Of, Owed
    <2>2. /\ Cardinality(Of(t)') <= Cardinality(Of(t)) + 1
          /\ Cardinality(Of(t)') \in Nat
        BY <1>3, <2>1, OneMore
    <2>3. ServicesOf(Of(t)) \in SUBSET ServicesOf(Of(t)')
        BY <1>1 DEF ServicesOf, Of
    <2>4. Cardinality(ServicesOf(Of(t))) <= Cardinality(ServicesOf(Of(t)'))
        BY <1>3, <2>3, FS_Subset
    <2> QED
        BY <1>0, <1>3, <1>4, <2>1, <2>2, <2>4
<1> QED
    BY <1>5, <1>6

LEMMA EvictKeeps ==
    ASSUME TypeOK, CollectionOK, Evict
    PROVE  CollectionOK'
<1> DEFINE u == Logs[hand].tenant
           evicted == IF EvictionDue THEN Oldest(u) ELSE {}
<1>0. slips' = slips /\ pc' # "evict"
    BY DEF Evict, Goto
<1>1. pc = "evict" /\ collection' = collection \ evicted
    BY DEF Evict
<1> SUFFICES ASSUME NEW t \in Tenant
             PROVE  Cardinality(Of(t)') <=
                        Cardinality(ServicesOf(Of(t)')) + MaxCollection + slips'
                            + Owed(t)'
    BY DEF CollectionOK, ServicesOf
<1>9. Owed(t)' = 0
    BY <1>0 DEF Owed
<1>2. Of(t) \in SUBSET Offsets /\ Of(t)' \in SUBSET Offsets
    BY <1>1 DEF Of, TypeOK
<1>3. /\ Cardinality(Of(t)) \in Nat /\ Cardinality(ServicesOf(Of(t))) \in Nat
      /\ Cardinality(Of(t)') \in Nat /\ Cardinality(ServicesOf(Of(t)')) \in Nat
      /\ MaxCollection \in Nat /\ slips \in Nat
    BY <1>2, EmbeddingsAreFinite, AnomalyAssumption DEF TypeOK
<1>4. Cardinality(Of(t)) <= Cardinality(ServicesOf(Of(t))) + MaxCollection + slips + Owed(t)
    BY DEF CollectionOK
<1>5. CASE u # t
    <2>1. Of(t)' = Of(t) /\ Owed(t) = 0
        BY <1>1, <1>5 DEF Of, Owed, Oldest
    <2> QED
        BY <1>0, <1>3, <1>4, <1>9, <2>1
<1>6. CASE u = t /\ ~ EvictionDue
    <2>1. Of(t)' = Of(t) /\ ~ (Cardinality(Of(t)) > MaxCollection)
        BY <1>1, <1>6 DEF Of, EvictionDue
    <2> QED
        BY <1>0, <1>3, <1>9, <2>1
<1>7. CASE u = t /\ EvictionDue
    <2>1. Of(t)' = Of(t) \ Oldest(t) /\ Oldest(t) \in SUBSET Of(t) /\ Owed(t) = 1
        BY <1>1, <1>7 DEF Of, Oldest, Owed
    <2>2. CASE Of(t)' = {}
        <3>1. Cardinality(Of(t)') = 0
            BY <2>2, FS_EmptySet
        <3> QED
            BY <1>0, <1>3, <1>9, <3>1
    <2>3. CASE Of(t)' # {}
        <3>1. Cardinality(Oldest(t)) >= Batch
            BY <2>1, <2>3, OldestAreEnough
        <3>2. Cardinality(Of(t)') + Cardinality(ServicesOf(Of(t))) + 1
                <= Cardinality(Of(t)) + Cardinality(ServicesOf(Of(t)'))
            BY <1>2, <2>1, <2>3, <3>1, EvictionPays
        <3> QED
            BY <1>0, <1>3, <1>4, <1>9, <2>1, <3>2
    <2> QED
        BY <2>2, <2>3
<1> QED
    BY <1>5, <1>6, <1>7

LEMMA CollectionStep ==
    ASSUME TypeOK, CollectionOK, [Next]_vars
    PROVE  CollectionOK'
<1> USE DEF offsetVars, logVars, chromaVars, postgresVars, alertVars, Goto, Return, SemanticStep
<1>0. slips \in Nat
    BY DEF TypeOK
<1>1. CASE ColdStart
    BY <1>1, ColdStartKeeps
<1>2. CASE NovelPattern
    BY <1>2, NovelPatternKeeps
<1>3. CASE Evict
    BY <1>3, EvictKeeps
<1>4. CASE EvictFails \/ End
    <2>1. /\ UNCHANGED collection /\ pc' # "evict"
          /\ \/ slips' = slips + 1
             \/ slips' = slips /\ pc # "evict"
        <3>1. CASE EvictFails
            BY <3>1 DEF EvictFails
        <3>2. CASE End
            BY <3>2 DEF End
        <3> QED
            BY <1>4, <3>1, <3>2
    <2>2. \A t \in Tenant : slips + Owed(t) <= slips' + Owed(t)'
        BY <1>0, <2>1 DEF Owed
    <2>3. slips' \in Nat
        BY <1>0, <2>1
    <2> QED
        BY <2>1, <2>2, <2>3, CollectionKept
<1>5. CASE \/ Poll \/ KnownPattern \/ EmbedFails \/ Judge \/ Start \/ Tick
           \/ UNCHANGED vars
    <2>1. /\ UNCHANGED <<collection, slips>>
          /\ pc # "evict" \/ UNCHANGED <<pc, hand>>
        BY <1>5 DEF Poll, KnownPattern, EmbedFails, Judge, Dismiss, FetchContext, Filter,
                    Confirm, ConfirmRaises, Insert, InsertFault, InsertFails, Produce, Start,
                    Tick, vars
    <2>2. \A t \in Tenant : slips + Owed(t) <= slips' + Owed(t)'
        BY <1>0, <2>1 DEF Owed
    <2> QED
        BY <1>0, <2>1, <2>2, CollectionKept
<1> QED
    BY <1>1, <1>2, <1>3, <1>4, <1>5 DEF Next, Detect

-----------------------------------------------------------------------------
(***************************************************************************)
(* Theorems                                                                *)
(***************************************************************************)

\* The strengthened invariant holds in every reachable state.
THEOREM InductiveInvariant == Spec => []IInv
<1>1. Init => IInv
    <2> SUFFICES ASSUME Init
                 PROVE  IInv
        OBVIOUS
    <2>1. alerts = << >> /\ DOMAIN alerts = {} /\ pc = "poll" /\ faults = 0 /\ ends = 0
          /\ connection = "ready" /\ novelty = 0
        BY DEF Init
    <2>2. CooldownOK /\ NoveltyOK /\ AlertsAreApart
        BY <2>1 DEF CooldownOK, NoveltyOK, AlertsAreApart
    <2>3. Missed = {}
        BY <2>1 DEF Missed, Settled
    <2>4. RowsOK
        BY <2>1, <2>3, FS_EmptySet DEF RowsOK
    <2>5. CollectionOK
        <3>1. \A t \in Tenant : Of(t) = {} /\ ServicesOf(Of(t)) = {}
            BY DEF Init, Of, ServicesOf
        <3>2. slips = 0 /\ MaxCollection \in Nat /\ \A t \in Tenant : Owed(t) \in Nat
            BY AnomalyAssumption DEF Init, Owed
        <3> QED
            BY <3>1, <3>2, FS_EmptySet DEF CollectionOK
    <2> QED
        BY <2>2, <2>4, <2>5, TypeInit DEF IInv
<1>2. IInv /\ [Next]_vars => IInv'
    BY TypeStep, CooldownStep, NoveltyStep, ApartStep, RowsStep, CollectionStep DEF IInv
<1> QED
    BY <1>1, <1>2, PTL DEF Spec

\* _last_alert_time keeps the alerts of a service a cooldown apart within one
\* life of the process, and the learned patterns keep one pattern from being
\* new twice, over every crash and redelivery.
THEOREM AlertsStayApart == Spec => []AlertsAreApart
<1>1. IInv => AlertsAreApart
    BY DEF IInv
<1> QED
    BY <1>1, InductiveInvariant, PTL

\* The rollback of publish_alert ends an aborted transaction: no error of the
\* database costs more than one row.
THEOREM AbortedTransactionEnds == Spec => []AbortCostsOneRow
<1>1. IInv => AbortCostsOneRow
    <2> SUFFICES ASSUME IInv
                 PROVE  AbortCostsOneRow
        OBVIOUS
    <2>1. Cardinality(Missed) \in Nat /\ faults \in Nat /\ ends \in Nat
        BY MissedIsFinite DEF IInv, TypeOK
    <2>2. Cardinality(Missed) <= faults + ends
        BY <2>1 DEF IInv, RowsOK
    <2> QED
        BY <2>2 DEF AbortCostsOneRow, Missed, Settled
<1> QED
    BY <1>1, InductiveInvariant, PTL

\* The collection of a tenant stays within its limit, one cold start of each
\* service and the evictions that failed, although update_and_check evicts
\* nothing in a cold start: an eviction that makes a service cold again has
\* taken more than that cold start will add.
THEOREM CollectionStaysBounded == Spec => []CollectionBounded
<1>1. IInv => CollectionBounded
    <2> SUFFICES ASSUME IInv, NEW t \in Tenant
                 PROVE  Cardinality(Of(t)) <=
                            MaxCollection + Cardinality(Service) + slips + Owed(t)
        BY DEF CollectionBounded, Owed
    <2>1. Of(t) \in SUBSET Offsets
        BY DEF IInv, TypeOK, Of
    <2>2. /\ Cardinality(Of(t)) \in Nat /\ Cardinality(ServicesOf(Of(t))) \in Nat
          /\ Cardinality(Service) \in Nat
          /\ Cardinality(ServicesOf(Of(t))) <= Cardinality(Service)
        BY <2>1, EmbeddingsAreFinite
    <2>3. MaxCollection \in Nat /\ slips \in Nat /\ Owed(t) \in Nat
        BY AnomalyAssumption DEF IInv, TypeOK, Owed
    <2>4. Cardinality(Of(t)) <=
                Cardinality(ServicesOf(Of(t))) + MaxCollection + slips + Owed(t)
        BY DEF IInv, CollectionOK
    <2> QED
        BY <2>2, <2>3, <2>4
<1> QED
    BY <1>1, InductiveInvariant, PTL

=============================================================================
