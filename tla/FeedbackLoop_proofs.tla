------------------------ MODULE FeedbackLoop_proofs ------------------------
(***************************************************************************)
(* Proofs about FeedbackLoop, for every value of its constants: answers    *)
(* from the cache are genuine, the knowledge base has a row for all that   *)
(* it cites, what was learned is grounded, and the daily budget is a cap   *)
(* up to what is in flight.                                                *)
(***************************************************************************)
EXTENDS FeedbackLoop, TLAPS

(***************************************************************************)
(* The inductive invariant                                                 *)
(***************************************************************************)

\* The shape of every variable.  Entries and grounds are described below.
TypeOK ==
    /\ stage \in [Incident -> {"compressed", "lookup", "answered", "routed", "ready",
                               "investigated", "failed"}]
    /\ model \in [Incident -> Choice \cup {"none"}]
    /\ results \in Seq(Result)
    /\ scanned \in [Incident -> SUBSET Entry]
    /\ best \in [Incident -> SUBSET Entry]
    /\ answer \in [Incident -> SUBSET Entry]
    /\ cache \subseteq Entry
    /\ booked \in [Tenant -> Nat]
    /\ pastIncidents \subseteq Incident
    /\ collection \subseteq Incident
    /\ position \in Nat \ {0}
    /\ committed \in Nat \ {0}
    /\ pc \in {"fetch", "context", "save", "learn", "chroma", "cache", "expire"}
    /\ pc # "fetch" => hand \in Result
    /\ ground \in Ground
    /\ spent \in [Tenant -> Nat]
    /\ overrun \in [Tenant -> Nat]
    /\ late \in [Tenant -> SUBSET Incident]
    /\ passed \subseteq Incident
    /\ vouchers \in [Incident -> SUBSET Ground]

Investigated(i) == stage[i] = "investigated"

\* A result that was not answered from the cache is that of its own incident.
ResultsOK ==
    /\ \A k \in 1 .. Len(results) :
        ~ results[k].cache_hit =>
            results[k].source = results[k].incident /\ Investigated(results[k].incident)
    /\ pc # "fetch" => hand.source = hand.incident /\ Investigated(hand.incident)

\* What the harness does with a result, its evaluation allows.
VerdictOK ==
    /\ pc \in {"save", "learn", "chroma", "cache", "expire"} /\ verdict # "fail" =>
        hand.incident \in passed
    /\ pc = "expire" => verdict # "fail"

\* An entry is about the incident it answers for, and that one passed.
Genuine(e) ==
    /\ e.about = e.source
    /\ e.tenant = TenantOf[e.source]
    /\ e.source \in passed

\* So are the entries of the cache, and what a lookup has in hand is its tenant's.
CacheOK ==
    /\ \A e \in cache : Genuine(e)
    /\ \A i \in Incident : \A e \in scanned[i] \cup best[i] :
        Genuine(e) /\ e.tenant = TenantOf[i]
    /\ AnswersAreGenuine

\* The row is written before the embedding.
RowsOK ==
    /\ KnowledgeHasRows
    /\ pc = "chroma" => hand.source \in pastIncidents

\* A ground is evidence of its own, or an incident learned before.
Firm(g) == g.by # "nothing" /\ g.proxy \in pastIncidents \cup {NoIncident}

GroundsOK ==
    /\ verdict = "learn" /\ pc \in {"save", "learn"} => Firm(ground)
    /\ \A i \in Incident : \A g \in vouchers[i] : Firm(g)
    /\ LearnedIsGrounded

\* The rows of today for the tier's models are in the sum that the router reads,
\* and so are, up to that, all but those of what was in flight at its last choice
\* - which is all that can still be booked.
BooksOK ==
    /\ committed <= position
    /\ \A i \in Incident : stage[i] \in {"compressed", "lookup", "routed"} => model[i] # "tier"
    /\ \A t \in Tenant : spent[t] <= booked[t]
    /\ \A t \in Tenant : InFlight(t) \subseteq late[t]
    /\ \A t \in Tenant : late[t] = {} => spent[t] = 0
    /\ \A t \in Tenant : late[t] # {} => 0 < Budget /\ spent[t] < Budget + overrun[t]

IInv == TypeOK /\ ResultsOK /\ VerdictOK /\ CacheOK /\ RowsOK /\ GroundsOK /\ BooksOK

-----------------------------------------------------------------------------
(***************************************************************************)
(* Types                                                                   *)
(***************************************************************************)

\* What an evaluation that teaches rests on: a label, observations, or an
\* entry of the collection; never a default score.
LEMMA LearnsOnGround ==
    ASSUME NEW i \in Incident, NEW f \in Faithfulness(i), NEW h \in Hallucination,
           Level(f, h) = "learn"
    PROVE  \E b \in {"label", "incident", "observations"}, j \in collection \cup {NoIncident} :
                f.ground = [by |-> b, proxy |-> j]
<1> USE FeedbackAssumption
<1>1. CASE f \in GroundTruth(i)
    <2>1. f.ground = [by |-> "label", proxy |-> NoIncident]
        BY <1>1 DEF GroundTruth, Judged, On
    <2> QED
        BY <2>1
<1>2. CASE f \in Similarity(i)
    <2>1. PICK j \in Proxies(i) : f \in Judged([by |-> "incident", proxy |-> j])
        BY <1>2 DEF Similarity
    <2>2. f.ground = [by |-> "incident", proxy |-> j]
        BY <2>1 DEF Judged
    <2>3. j \in collection
        BY <2>1 DEF Proxies
    <2> QED
        BY <2>2, <2>3
<1>3. CASE f \in Heuristic(i)
    <2>1. f # [score |-> DefaultScore, ground |-> On("nothing")]
        BY DEF Level, DefaultScore, LearnMark
    <2>2. f \in Judged(On("observations"))
        BY <1>3, <2>1 DEF Heuristic
    <2>3. f.ground = [by |-> "observations", proxy |-> NoIncident]
        BY <2>2 DEF Judged, On
    <2> QED
        BY <2>3
<1> QED
    BY <1>1, <1>2, <1>3 DEF Faithfulness

\* What Evaluate leaves in ground.
LEMMA EvaluateGround ==
    ASSUME TypeOK, RowsOK, Evaluate
    PROVE  /\ ground' \in Ground
           /\ verdict' = "learn" => Firm(ground)'
           /\ verdict' \in {"fail", "pass", "learn"}
<1> USE FeedbackAssumption
<1>1. PICK f \in Faithfulness(hand.incident), h \in Hallucination :
        /\ verdict' = Level(f, h)
        /\ ground' = IF Level(f, h) = "learn" THEN f.ground ELSE On("nothing")
    BY DEF Evaluate
<1>2. hand.incident \in Incident
    BY DEF Evaluate, TypeOK, Result
<1>3. CASE Level(f, h) = "learn"
    <2>1. PICK b \in {"label", "incident", "observations"}, j \in collection \cup {NoIncident} :
                f.ground = [by |-> b, proxy |-> j]
        BY <1>2, <1>3, LearnsOnGround
    <2>2. ground' = [by |-> b, proxy |-> j]
        BY <1>1, <1>3, <2>1
    <2>3. ground' \in Ground
        BY <2>2 DEF Ground, TypeOK
    <2>4. pastIncidents' = pastIncidents /\ collection \subseteq pastIncidents
        BY DEF Evaluate, storeVars, RowsOK, KnowledgeHasRows
    <2>5. Firm(ground)'
        BY <2>2, <2>4 DEF Firm
    <2> QED
        BY <1>1, <1>3, <2>3, <2>5
<1>4. CASE Level(f, h) # "learn"
    BY <1>1, <1>4 DEF On, Ground, Level
<1> QED
    BY <1>3, <1>4

LEMMA TypeInit == Init => TypeOK
<1> SUFFICES ASSUME Init
             PROVE  TypeOK
    OBVIOUS
<1> USE FeedbackAssumption
<1>1. cache \subseteq Entry
    <2>1. \A i \in Past : 
            [tenant |-> TenantOf[i], about |-> i, source |-> i, expires |-> i \notin Lasting] \in Entry
        BY DEF Entry
    <2> QED
        BY <2>1 DEF Init
<1>2. ground \in Ground
    BY DEF Init, On, Ground
<1>3. results \in Seq(Result)
    BY DEF Init
<1> QED
    BY <1>1, <1>2, <1>3 DEF Init, TypeOK

LEMMA CacheTaskTyped ==
    ASSUME TypeOK, CacheTask
    PROVE  TypeOK'
<1> USE FeedbackAssumption DEF storeVars, harnessVars, spendVars, historyVars, topicVars, lookupVars
<1>1. PICK i \in Incident :
        \/ ScanKeys(i) \/ LookupFails(i)
        \/ \E e \in scanned[i] : ReadEntry(i, e)
        \/ HandleHit(i) \/ HandleMiss(i)
    BY DEF CacheTask
<1>2. CASE ScanKeys(i)
    BY <1>2 DEF ScanKeys, EntryKeys, TypeOK
<1>3. CASE LookupFails(i)
    BY <1>3 DEF LookupFails, TypeOK
<1>4. ASSUME NEW e \in scanned[i], ReadEntry(i, e)
      PROVE  TypeOK'
    <2>1. e \in Entry
        BY DEF TypeOK
    <2>2. scanned' \in [Incident -> SUBSET Entry]
        BY <1>4 DEF ReadEntry, TypeOK
    <2>3. best' \in [Incident -> SUBSET Entry]
        BY <1>4, <2>1 DEF ReadEntry, TypeOK
    <2> QED
        BY <1>4, <2>2, <2>3 DEF ReadEntry, TypeOK
<1>5. CASE HandleHit(i)
    <2>1. PICK e \in Hit(i) :
            results' = Append(results, [incident |-> i, source |-> e.source, cache_hit |-> TRUE])
        BY <1>5 DEF HandleHit
    <2>2. Hit(i) \subseteq Entry
        BY DEF Hit, TypeOK
    <2>3. [incident |-> i, source |-> e.source, cache_hit |-> TRUE] \in Result
        BY <2>1, <2>2 DEF Entry, Result
    <2>4. results' \in Seq(Result)
        BY <2>1, <2>3 DEF TypeOK
    <2> QED
        BY <1>5, <2>2, <2>4 DEF HandleHit, TypeOK
<1>6. CASE HandleMiss(i)
    BY <1>6 DEF HandleMiss, TypeOK
<1> QED
    BY <1>1, <1>2, <1>3, <1>4, <1>5, <1>6

LEMMA RouterAndAgentTyped ==
    ASSUME TypeOK, RouterAndAgent
    PROVE  TypeOK'
<1> USE FeedbackAssumption DEF storeVars, harnessVars, spendVars, historyVars, lookupVars
<1>1. PICK i \in Incident :
        RouteToFallback(i) \/ RouteToTier(i) \/ Investigate(i) \/ InvestigationFails(i)
    BY DEF RouterAndAgent
<1>2. CASE RouteToFallback(i)
    BY <1>2 DEF RouteToFallback, TypeOK, Choice
<1>3. CASE RouteToTier(i)
    <2>1. InFlight(TenantOf[i]) \subseteq Incident
        BY DEF InFlight, TierChoices
    <2>2. late' \in [Tenant -> SUBSET Incident] /\ overrun' \in [Tenant -> Nat]
        BY <1>3, <2>1 DEF RouteToTier, TypeOK
    <2> QED
        BY <1>3, <2>2 DEF RouteToTier, TypeOK, Choice
<1>4. CASE Investigate(i)
    <2>1. results' \in Seq(Result)
        BY <1>4 DEF Investigate, TypeOK, Result
    <2> QED
        BY <1>4, <2>1 DEF Investigate, TypeOK
<1>5. CASE InvestigationFails(i)
    BY <1>5 DEF InvestigationFails, TypeOK
<1> QED
    BY <1>1, <1>2, <1>3, <1>4, <1>5

LEMMA NewEntryTyped ==
    ASSUME TypeOK, pc # "fetch"
    PROVE  NewEntry \in Entry /\ [NewEntry EXCEPT !.expires = TRUE] \in Entry
BY FeedbackAssumption DEF NewEntry, Entry, Result, TypeOK

LEMMA HarnessTyped ==
    ASSUME TypeOK, RowsOK, Harness
    PROVE  TypeOK'
<1> USE FeedbackAssumption DEF storeVars, spendVars, historyVars, topicVars, lookupVars, GoTo
<1>1. CASE TakeResult
    BY <1>1 DEF TakeResult, TypeOK
<1>2. CASE Evaluate
    <2>1. ground' \in Ground
        BY <1>2, EvaluateGround
    <2>2. passed' \subseteq Incident
        BY <1>2 DEF Evaluate, TypeOK, Result
    <2> QED
        BY <1>2, <2>1, <2>2 DEF Evaluate, TypeOK
<1>3. CASE SkipResult \/ SaveFails
    BY <1>3 DEF SkipResult, SaveFails, TypeOK
<1>4. CASE SaveEvaluation
    <2>1. hand.incident \in Incident
        BY <1>4 DEF SaveEvaluation, TypeOK, Result
    <2>2. ASSUME NEW c \in Cost(model[hand.incident]), Book(c), CountSpend(c)
          PROVE  /\ booked' \in [Tenant -> Nat]
                 /\ spent' \in [Tenant -> Nat]
                 /\ overrun' \in [Tenant -> Nat]
        <3>1. c \in Nat /\ TenantOf[hand.incident] \in Tenant
            BY <2>1 DEF Cost
        <3> QED
            BY <2>2, <3>1 DEF Book, CountSpend, TypeOK
    <2>3. /\ booked' \in [Tenant -> Nat]
          /\ spent' \in [Tenant -> Nat]
          /\ overrun' \in [Tenant -> Nat]
        BY <1>4, <2>2 DEF SaveEvaluation, spendVars, TypeOK
    <2> QED
        BY <1>4, <2>3 DEF SaveEvaluation, TypeOK
<1>5. CASE InsertRow \/ LearnNothing
    <2>1. hand.source \in Incident
        BY <1>5 DEF InsertRow, LearnNothing, TypeOK, Result
    <2>2. pastIncidents' \subseteq Incident /\ vouchers' \in [Incident -> SUBSET Ground]
        <3>1. CASE LearnRow
            BY <2>1, <3>1 DEF LearnRow, TypeOK
        <3>2. CASE UNCHANGED <<pastIncidents, vouchers>>
            BY <3>2 DEF TypeOK
        <3> QED
            BY <1>5, <3>1, <3>2 DEF InsertRow, LearnNothing
    <2> QED
        BY <1>5, <2>2 DEF InsertRow, LearnNothing, TypeOK
<1>6. CASE InsertChroma
    <2>1. hand.source \in Incident
        BY <1>6 DEF InsertChroma, TypeOK, Result
    <2> QED
        BY <1>6, <2>1 DEF InsertChroma, TypeOK
<1>7. CASE StoreEntry
    BY <1>7, NewEntryTyped DEF StoreEntry, TypeOK
<1>8. CASE SetTtl \/ Finish
    <2>1. cache' \subseteq Entry
        BY <1>8, NewEntryTyped DEF SetTtl, Finish, TypeOK
    <2>2. ground' \in Ground
        BY <1>8 DEF SetTtl, Finish, On, Ground
    <2> QED
        BY <1>8, <2>1, <2>2 DEF SetTtl, Finish, TypeOK
<1> QED
    BY <1>1, <1>2, <1>3, <1>4, <1>5, <1>6, <1>7, <1>8 DEF Harness

LEMMA TypeStep ==
    ASSUME TypeOK, RowsOK, [Next]_vars
    PROVE  TypeOK'
<1> USE FeedbackAssumption DEF storeVars, harnessVars, spendVars, historyVars, topicVars, lookupVars
<1>1. CASE ExpireEntry
    BY <1>1 DEF ExpireEntry, TypeOK
<1>2. CASE Ends
    <2>1. committed' \in Nat \ {0} /\ ground' \in Ground
        BY <1>2 DEF Ends, TypeOK, On, Ground
    <2> QED
        BY <1>2, <2>1 DEF Ends, TypeOK
<1>3. CASE AutoCommit \/ Restart
    BY <1>3 DEF AutoCommit, Restart, TypeOK
<1>4. CASE Midnight
    <2>1. [t \in Tenant |-> 0] \in [Tenant -> Nat]
        OBVIOUS
    <2>2. booked' \in [Tenant -> Nat] /\ spent' \in [Tenant -> Nat] /\ overrun' \in [Tenant -> Nat]
        BY <1>4, <2>1 DEF Midnight
    <2> QED
        BY <1>4, <2>2 DEF Midnight, TypeOK
<1>5. CASE UNCHANGED vars
    BY <1>5 DEF vars, TypeOK
<1> QED
    BY <1>1, <1>2, <1>3, <1>4, <1>5, CacheTaskTyped, RouterAndAgentTyped, HarnessTyped DEF Next

-----------------------------------------------------------------------------
(***************************************************************************)
(* What is never undone                                                    *)
(***************************************************************************)

\* Steps outside the harness task.
Outside == CacheTask \/ RouterAndAgent \/ ExpireEntry \/ Midnight \/ AutoCommit \/ UNCHANGED vars

\* They leave the harness and what it learned alone.
LEMMA OutsideStep ==
    ASSUME Outside
    PROVE  UNCHANGED <<passed, pastIncidents, collection, vouchers, pc, hand, verdict, ground>>
<1> USE DEF storeVars, harnessVars, historyVars, topicVars, lookupVars
<1>1. CASE CacheTask
    BY <1>1 DEF CacheTask, ScanKeys, LookupFails, ReadEntry, HandleHit, HandleMiss
<1>2. CASE RouterAndAgent
    BY <1>2 DEF RouterAndAgent, RouteToFallback, RouteToTier, Investigate, InvestigationFails
<1>3. CASE ExpireEntry \/ Midnight \/ AutoCommit \/ UNCHANGED vars
    BY <1>3 DEF ExpireEntry, Midnight, AutoCommit, vars
<1> QED
    BY <1>1, <1>2, <1>3 DEF Outside

\* The end and the start of the process change none of it, but the end puts
\* the harness back to the top of its loop.
LEMMA ProcessStep ==
    ASSUME Ends \/ Restart
    PROVE  /\ UNCHANGED <<passed, pastIncidents, collection, vouchers, booked>>
           /\ UNCHANGED <<topicVars, lookupVars, cache, spendVars, late>>
           /\ pc' = "fetch" \/ UNCHANGED <<pc, hand, verdict, ground>>
BY DEF Ends, Restart, storeVars, historyVars

\* The harness touches neither the lookups nor the incidents on their way, and
\* of the books nothing but by a row.
LEMMA HarnessStep ==
    ASSUME Harness
    PROVE  /\ UNCHANGED <<topicVars, lookupVars, committed, late>>
           /\ ~ SaveEvaluation => UNCHANGED <<booked, spendVars>>
BY DEF Harness, TakeResult, Evaluate, SkipResult, SaveEvaluation, SaveFails, InsertRow,
       LearnNothing, InsertChroma, StoreEntry, SetTtl, Finish, GoTo, historyVars, storeVars

\* An incident that was investigated stays so.
LEMMA InvestigatedKept ==
    ASSUME TypeOK, [Next]_vars
    PROVE  \A i \in Incident : Investigated(i) => Investigated(i)'
<1> USE DEF Investigated
<1>1. CASE CacheTask
    BY <1>1 DEF TypeOK, CacheTask, ScanKeys, LookupFails, ReadEntry, HandleHit, HandleMiss,
                topicVars
<1>2. CASE RouterAndAgent
    BY <1>2 DEF TypeOK, RouterAndAgent, RouteToFallback, RouteToTier, Investigate,
                InvestigationFails
<1>3. CASE ExpireEntry \/ Midnight \/ AutoCommit \/ UNCHANGED vars
    BY <1>3 DEF ExpireEntry, Midnight, AutoCommit, vars, topicVars
<1>4. CASE Harness
    BY <1>4, HarnessStep DEF topicVars
<1>5. CASE Ends \/ Restart
    BY <1>5 DEF Ends, Restart, topicVars
<1> QED
    BY <1>1, <1>2, <1>3, <1>4, <1>5 DEF Next

\* What passed, what was learned and on which grounds is never taken back.
LEMMA KnowledgeKept ==
    ASSUME TypeOK, [Next]_vars
    PROVE  /\ passed \subseteq passed'
           /\ pastIncidents \subseteq pastIncidents'
           /\ \A i \in Incident : vouchers[i] \subseteq vouchers'[i]
<1> USE DEF storeVars, historyVars, TypeOK
<1>1. CASE Outside \/ Ends \/ Restart
    BY <1>1, OutsideStep, ProcessStep
<1>2. CASE TakeResult \/ Evaluate \/ SkipResult \/ SaveEvaluation \/ SaveFails
    BY <1>2 DEF TakeResult, Evaluate, SkipResult, SaveEvaluation, SaveFails
<1>3. CASE InsertRow \/ LearnNothing
    <2>1. pastIncidents \subseteq pastIncidents' /\ UNCHANGED passed
        BY <1>3 DEF InsertRow, LearnNothing, LearnRow
    <2>2. CASE LearnRow
        BY <2>1, <2>2 DEF LearnRow
    <2>3. CASE UNCHANGED vouchers
        BY <2>1, <2>3
    <2> QED
        BY <1>3, <2>2, <2>3 DEF InsertRow, LearnNothing
<1>4. CASE InsertChroma \/ StoreEntry \/ SetTtl \/ Finish
    BY <1>4 DEF InsertChroma, StoreEntry, SetTtl, Finish
<1> QED
    BY <1>1, <1>2, <1>3, <1>4 DEF Next, Harness, Outside

-----------------------------------------------------------------------------
(***************************************************************************)
(* Results, verdicts and the cache                                         *)
(***************************************************************************)

\* What a result must be like, by the stages the incidents are in.
Own(r, stages) ==
    ~ r.cache_hit => r.source = r.incident /\ stages[r.incident] = "investigated"

\* ResultsOK in these terms.
LEMMA ResultsAreOwn ==
    /\ ResultsOK <=>
        /\ \A k \in 1 .. Len(results) : Own(results[k], stage)
        /\ pc # "fetch" => hand.source = hand.incident /\ stage[hand.incident] = "investigated"
    /\ ResultsOK' <=>
        /\ \A k \in 1 .. Len(results') : Own(results'[k], stage')
        /\ pc' # "fetch" =>
            hand'.source = hand'.incident /\ stage'[hand'.incident] = "investigated"
BY DEF ResultsOK, Own, Investigated

LEMMA ResultsStep ==
    ASSUME TypeOK, ResultsOK, [Next]_vars
    PROVE  ResultsOK'
<1> USE ResultsAreOwn DEF topicVars, storeVars, historyVars, lookupVars, harnessVars
<1>0. ASSUME NEW k \in 1 .. Len(results)
      PROVE  Own(results[k], stage')
    <2>1. results[k] \in Result
        BY DEF TypeOK
    <2>2. results[k].incident \in Incident
        BY <2>1 DEF Result
    <2> QED
        BY <2>2, InvestigatedKept DEF Own, Investigated
<1>1. ASSUME UNCHANGED results
      PROVE  \A k \in 1 .. Len(results') : Own(results'[k], stage')
    BY <1>0, <1>1
<1>2. ASSUME pc # "fetch", UNCHANGED hand
      PROVE  hand'.source = hand'.incident /\ stage'[hand'.incident] = "investigated"
    <2>1. hand.incident \in Incident
        BY <1>2 DEF TypeOK, Result
    <2> QED
        BY <1>2, <2>1, InvestigatedKept DEF Investigated
<1>3. ASSUME NEW r \in Result, results' = Append(results, r), Own(r, stage')
      PROVE  \A k \in 1 .. Len(results') : Own(results'[k], stage')
    <2> SUFFICES ASSUME NEW k \in 1 .. Len(results')
                 PROVE  Own(results'[k], stage')
        OBVIOUS
    <2> results \in Seq(Result)
        BY DEF TypeOK
    <2>1. CASE k = Len(results) + 1
        BY <1>3, <2>1
    <2>2. CASE k # Len(results) + 1
        <3>1. k \in 1 .. Len(results) /\ results'[k] = results[k]
            BY <1>3, <2>2
        <3> QED
            BY <1>0, <3>1
    <2> QED
        BY <2>1, <2>2
<1>4. CASE CacheTask
    <2>1. PICK i \in Incident :
            \/ ScanKeys(i) \/ LookupFails(i)
            \/ \E e \in scanned[i] : ReadEntry(i, e)
            \/ HandleHit(i) \/ HandleMiss(i)
        BY <1>4 DEF CacheTask
    <2>2. CASE HandleHit(i)
        <3>1. PICK e \in Hit(i) :
                results' = Append(results, [incident |-> i, source |-> e.source, cache_hit |-> TRUE])
            BY <2>2 DEF HandleHit
        <3>2. [incident |-> i, source |-> e.source, cache_hit |-> TRUE] \in Result
            BY <3>1 DEF Hit, TypeOK, Entry, Result
        <3>3. \A k \in 1 .. Len(results') : Own(results'[k], stage')
            <4>1. PICK r \in Result :
                    r = [incident |-> i, source |-> e.source, cache_hit |-> TRUE]
                BY <3>2
            <4>2. Own(r, stage')
                BY <4>1 DEF Own
            <4> QED
                BY <1>3, <3>1, <4>1, <4>2
        <3>4. UNCHANGED <<pc, hand>>
            BY <2>2 DEF HandleHit
        <3> QED
            BY <1>2, <3>3, <3>4
    <2>3. CASE ~ HandleHit(i)
        <3>1. UNCHANGED <<results, pc, hand>>
            BY <2>1, <2>3 DEF ScanKeys, LookupFails, ReadEntry, HandleMiss
        <3> QED
            BY <1>1, <1>2, <3>1
    <2> QED
        BY <2>2, <2>3
<1>5. ASSUME NEW i \in Incident, Investigate(i)
      PROVE  ResultsOK'
    <2>1. PICK r \in Result : r = [incident |-> i, source |-> i, cache_hit |-> FALSE]
        BY DEF Result
    <2>2. Own(r, stage')
        BY <1>5, <2>1 DEF Own, Investigate, Investigated, TypeOK
    <2>3. results' = Append(results, r) /\ UNCHANGED <<pc, hand>>
        BY <1>5, <2>1 DEF Investigate
    <2> QED
        BY <1>2, <1>3, <2>2, <2>3
<1>6. ASSUME NEW i \in Incident,
             RouteToFallback(i) \/ RouteToTier(i) \/ InvestigationFails(i)
      PROVE  ResultsOK'
    <2>1. UNCHANGED <<results, pc, hand>>
        BY <1>6 DEF RouteToFallback, RouteToTier, InvestigationFails
    <2> QED
        BY <1>1, <1>2, <2>1
<1>7. CASE TakeResult
    <2>1. UNCHANGED <<results, stage>> /\ position \in 1 .. Len(results)
        BY <1>7 DEF TakeResult, TypeOK
    <2>2. pc' # "fetch" => hand' = results[position] /\ ~ results[position].cache_hit
        BY <1>7 DEF TakeResult
    <2> QED
        BY <1>1, <2>1, <2>2 DEF Own
<1>8. CASE Harness /\ ~ TakeResult
    <2>1. UNCHANGED results
        BY <1>8, HarnessStep
    <2>2. pc' # "fetch" => pc # "fetch" /\ UNCHANGED hand
        BY <1>8 DEF Harness, Evaluate, SkipResult, SaveEvaluation, SaveFails, InsertRow,
                    LearnNothing, InsertChroma, StoreEntry, SetTtl, Finish, GoTo
    <2> QED
        BY <1>1, <1>2, <2>1, <2>2
<1>9. CASE ExpireEntry \/ Midnight \/ AutoCommit \/ Ends \/ Restart \/ UNCHANGED vars
    <2>1. UNCHANGED results /\ (pc' # "fetch" => UNCHANGED <<pc, hand>>)
        BY <1>9 DEF ExpireEntry, Midnight, AutoCommit, Ends, Restart, vars
    <2> QED
        BY <1>1, <1>2, <2>1
<1> QED
    BY <1>4, <1>5, <1>6, <1>7, <1>8, <1>9 DEF Next, RouterAndAgent

LEMMA VerdictStep ==
    ASSUME TypeOK, RowsOK, VerdictOK, [Next]_vars
    PROVE  VerdictOK'
<1> USE DEF storeVars, historyVars
<1>1. CASE Outside \/ Ends \/ Restart
    BY <1>1, OutsideStep, ProcessStep DEF VerdictOK
<1>2. CASE Evaluate
    <2>1. pc' = "save" /\ UNCHANGED hand
        BY <1>2 DEF Evaluate, GoTo
    <2>2. verdict' # "fail" => hand.incident \in passed'
        BY <1>2 DEF Evaluate
    <2> QED
        BY <2>1, <2>2 DEF VerdictOK
<1>3. CASE TakeResult \/ SkipResult \/ SetTtl \/ Finish
    BY <1>3 DEF TakeResult, SkipResult, SetTtl, Finish, GoTo, VerdictOK
<1>4. CASE SaveEvaluation \/ SaveFails \/ InsertRow \/ LearnNothing \/ InsertChroma
    BY <1>4 DEF SaveEvaluation, SaveFails, InsertRow, LearnNothing, InsertChroma, GoTo, VerdictOK
<1>5. CASE StoreEntry
    BY <1>5 DEF StoreEntry, GoTo, VerdictOK
<1> QED
    BY <1>1, <1>2, <1>3, <1>4, <1>5 DEF Next, Harness, Outside

LEMMA CacheStep ==
    ASSUME TypeOK, ResultsOK, VerdictOK, CacheOK, [Next]_vars
    PROVE  CacheOK'
<1> USE DEF storeVars, historyVars, topicVars, lookupVars, harnessVars
<1>1. \A e : Genuine(e) => Genuine(e)'
    BY KnowledgeKept DEF Genuine
<1>2. ASSUME UNCHANGED lookupVars, \A e \in cache' : e \in cache \/ Genuine(e)'
      PROVE  CacheOK'
    BY <1>1, <1>2, KnowledgeKept DEF CacheOK, AnswersAreGenuine
<1>3. CASE CacheTask
    <2>1. PICK i \in Incident :
            \/ ScanKeys(i) \/ LookupFails(i)
            \/ \E e \in scanned[i] : ReadEntry(i, e)
            \/ HandleHit(i) \/ HandleMiss(i)
        BY <1>3 DEF CacheTask
    <2>2. CASE ScanKeys(i)
        <3>1. /\ scanned' = [scanned EXCEPT ![i] = EntryKeys(TenantOf[i])]
              /\ UNCHANGED <<best, answer, cache, passed>>
            BY <2>2 DEF ScanKeys
        <3>2. \A e \in EntryKeys(TenantOf[i]) : Genuine(e) /\ e.tenant = TenantOf[i]
            BY DEF EntryKeys, CacheOK
        <3>3. \A j \in Incident : \A e \in scanned'[j] : Genuine(e) /\ e.tenant = TenantOf[j]
            BY <3>1, <3>2 DEF TypeOK, CacheOK
        <3> QED
            BY <3>1, <3>3 DEF CacheOK, AnswersAreGenuine, Genuine
    <2>3. CASE LookupFails(i)
        BY <1>2, <2>3 DEF LookupFails
    <2>4. ASSUME NEW e \in scanned[i], ReadEntry(i, e)
          PROVE  CacheOK'
        <3>1. /\ UNCHANGED <<answer, cache, passed>>
              /\ \A j \in Incident :
                    /\ scanned'[j] \subseteq scanned[j]
                    /\ best'[j] \subseteq best[j] \cup scanned[j]
            BY <2>4 DEF ReadEntry, TypeOK
        <3> QED
            BY <3>1 DEF CacheOK, AnswersAreGenuine, Genuine
    <2>5. CASE HandleHit(i)
        <3>1. /\ answer' = [answer EXCEPT ![i] = Hit(i)]
              /\ UNCHANGED <<scanned, cache, passed>>
              /\ \A j \in Incident : best'[j] \subseteq best[j]
            BY <2>5 DEF HandleHit, TypeOK
        <3>2. \A e \in Hit(i) :
                /\ TenantOf[e.source] = TenantOf[i]
                /\ e.source \in passed
                /\ Score[<<i, e.source>>] >= Threshold
            BY DEF Hit, CacheOK, Genuine
        <3>3. AnswersAreGenuine'
            BY <3>1, <3>2 DEF TypeOK, CacheOK, AnswersAreGenuine
        <3> QED
            BY <3>1, <3>3 DEF CacheOK, Genuine
    <2>6. CASE HandleMiss(i)
        <3>1. /\ UNCHANGED <<scanned, answer, cache, passed>>
              /\ \A j \in Incident : best'[j] \subseteq best[j]
            BY <2>6 DEF HandleMiss, TypeOK
        <3> QED
            BY <3>1 DEF CacheOK, AnswersAreGenuine, Genuine
    <2> QED
        BY <2>1, <2>2, <2>3, <2>4, <2>5, <2>6
<1>4. ASSUME pc # "fetch", verdict # "fail", pc \in {"cache", "expire"}
      PROVE  Genuine(NewEntry) /\ Genuine([NewEntry EXCEPT !.expires = TRUE])
    BY <1>4 DEF NewEntry, Genuine, ResultsOK, VerdictOK, TypeOK, Result
<1>5. CASE StoreEntry
    BY <1>1, <1>2, <1>4, <1>5 DEF StoreEntry, GoTo
<1>6. CASE SetTtl
    BY <1>1, <1>2, <1>4, <1>6 DEF SetTtl, GoTo, VerdictOK
<1>7. CASE Harness /\ ~ StoreEntry /\ ~ SetTtl
    <2>1. UNCHANGED cache
        BY <1>7 DEF Harness, TakeResult, Evaluate, SkipResult, SaveEvaluation, SaveFails,
                    InsertRow, LearnNothing, InsertChroma, Finish
    <2> QED
        BY <1>2, <1>7, <2>1, HarnessStep
<1>8. CASE \/ RouterAndAgent \/ ExpireEntry \/ Midnight \/ AutoCommit \/ Ends \/ Restart
           \/ UNCHANGED vars
    <2>1. UNCHANGED lookupVars /\ cache' \subseteq cache
        BY <1>8 DEF RouterAndAgent, RouteToFallback, RouteToTier, Investigate,
                    InvestigationFails, ExpireEntry, Midnight, AutoCommit, Ends, Restart, vars
    <2> QED
        BY <1>2, <2>1
<1> QED
    BY <1>3, <1>5, <1>6, <1>7, <1>8 DEF Next

-----------------------------------------------------------------------------
(***************************************************************************)
(* The knowledge base                                                      *)
(***************************************************************************)

LEMMA RowsStep ==
    ASSUME TypeOK, RowsOK, [Next]_vars
    PROVE  RowsOK'
<1> USE DEF storeVars, historyVars
<1>1. CASE Outside \/ Ends \/ Restart
    BY <1>1, OutsideStep, ProcessStep DEF RowsOK, KnowledgeHasRows
<1>2. CASE InsertRow
    <2>1. hand.source \in pastIncidents' /\ UNCHANGED <<hand, collection>>
        BY <1>2 DEF InsertRow, LearnRow
    <2> QED
        BY <2>1, KnowledgeKept DEF RowsOK, KnowledgeHasRows
<1>3. CASE LearnNothing
    <2>1. pc' = "cache" /\ UNCHANGED collection
        BY <1>3 DEF LearnNothing, GoTo
    <2> QED
        BY <2>1, KnowledgeKept DEF RowsOK, KnowledgeHasRows
<1>4. CASE InsertChroma
    BY <1>4 DEF InsertChroma, GoTo, RowsOK, KnowledgeHasRows
<1>5. CASE \/ TakeResult \/ Evaluate \/ SkipResult \/ SaveEvaluation \/ SaveFails
           \/ StoreEntry \/ SetTtl \/ Finish
    <2>1. UNCHANGED <<pastIncidents, collection>> /\ pc' # "chroma"
        BY <1>5 DEF TakeResult, Evaluate, SkipResult, SaveEvaluation, SaveFails, StoreEntry,
                    SetTtl, Finish, GoTo
    <2> QED
        BY <2>1 DEF RowsOK, KnowledgeHasRows
<1> QED
    BY <1>1, <1>2, <1>3, <1>4, <1>5 DEF Next, Harness, Outside

\* A row learned on a firm ground keeps every group of rows grounded: its
\* ground is not in the group, or the group was there before.
LEMMA LearnRowGrounded ==
    ASSUME TypeOK, GroundsOK, hand \in Result, Firm(ground), LearnRow
    PROVE  LearnedIsGrounded'
<1> USE FeedbackAssumption
<1> DEFINE s == hand.source
<1>1. s \in Incident
    BY DEF Result
<1>2. /\ pastIncidents' = pastIncidents \cup {s}
      /\ ground \in vouchers'[s]
      /\ \A i \in Incident : vouchers[i] \subseteq vouchers'[i]
    BY <1>1 DEF LearnRow, TypeOK
<1>3. \A i \in Incident : \A g \in vouchers[i] : g.proxy \in pastIncidents \cup {NoIncident}
    BY DEF GroundsOK, Firm
<1>4. pastIncidents \subseteq Incident
    BY DEF TypeOK
<1>5. \A T \in SUBSET (pastIncidents \ Seeded) :
        T # {} => \E i \in T : \E g \in vouchers[i] : g.by # "nothing" /\ g.proxy \notin T
    BY DEF GroundsOK, LearnedIsGrounded
<1>6. ground.by # "nothing" /\ ground.proxy \in pastIncidents \cup {NoIncident}
    BY DEF Firm
<1> HIDE DEF s
<1> SUFFICES ASSUME NEW S \in SUBSET (pastIncidents' \ Seeded), S # {}
             PROVE  \E i \in S : \E g \in vouchers'[i] : g.by # "nothing" /\ g.proxy \notin S
    BY DEF LearnedIsGrounded
<1>7. CASE S \subseteq pastIncidents
    <2>1. PICK i \in S : \E g \in vouchers[i] : g.by # "nothing" /\ g.proxy \notin S
        BY <1>5, <1>7
    <2> QED
        BY <1>2, <1>4, <1>7, <2>1
<1>8. CASE s \in S /\ s \notin pastIncidents /\ S = {s}
    BY <1>1, <1>2, <1>6, <1>8
<1>9. CASE s \in S /\ s \notin pastIncidents /\ S # {s}
    <2>1. S \ {s} \in SUBSET (pastIncidents \ Seeded) /\ S \ {s} # {}
        BY <1>2, <1>9
    <2>2. PICK i \in S \ {s} : \E g \in vouchers[i] : g.by # "nothing" /\ g.proxy \notin S \ {s}
        BY <1>5, <2>1
    <2>3. PICK g \in vouchers[i] : g.by # "nothing" /\ g.proxy \notin S \ {s}
        BY <2>2
    <2>4. i \in Incident
        BY <1>4, <2>1
    <2>5. g.proxy # s
        BY <1>1, <1>3, <1>9, <2>3, <2>4
    <2> QED
        BY <1>2, <2>3, <2>4, <2>5
<1> QED
    BY <1>2, <1>7, <1>8, <1>9

LEMMA GroundsStep ==
    ASSUME TypeOK, RowsOK, GroundsOK, [Next]_vars
    PROVE  GroundsOK'
<1> USE DEF storeVars, historyVars
<1>1. \A g : Firm(g) => Firm(g)'
    BY KnowledgeKept DEF Firm
<1>2. ASSUME UNCHANGED <<pastIncidents, vouchers>>,
             verdict' = "learn" /\ pc' \in {"save", "learn"} => Firm(ground)'
      PROVE  GroundsOK'
    BY <1>1, <1>2 DEF GroundsOK, LearnedIsGrounded
<1>3. CASE Outside \/ Ends \/ Restart
    <2>1. UNCHANGED <<pastIncidents, vouchers>>
        BY <1>3, OutsideStep, ProcessStep
    <2>2. pc' = "fetch" \/ UNCHANGED <<pc, verdict, ground>>
        BY <1>3, OutsideStep, ProcessStep
    <2> QED
        BY <1>2, <2>1, <2>2 DEF GroundsOK, Firm
<1>4. CASE Evaluate
    <2>1. UNCHANGED <<pastIncidents, vouchers>>
        BY <1>4 DEF Evaluate
    <2> QED
        BY <1>2, <1>4, <2>1, EvaluateGround
<1>5. CASE SaveEvaluation \/ SaveFails
    <2>1. UNCHANGED <<pastIncidents, vouchers, verdict, ground>> /\ pc = "save"
        BY <1>5 DEF SaveEvaluation, SaveFails
    <2> QED
        BY <1>2, <2>1 DEF GroundsOK, Firm
<1>6. CASE TakeResult \/ SkipResult \/ InsertChroma \/ StoreEntry \/ SetTtl \/ Finish
    <2>1. UNCHANGED <<pastIncidents, vouchers>> /\ pc' \notin {"save", "learn"}
        BY <1>6 DEF TakeResult, SkipResult, InsertChroma, StoreEntry, SetTtl, Finish, GoTo
    <2> QED
        BY <1>2, <2>1
<1>7. CASE InsertRow \/ LearnNothing
    <2>1. pc = "learn" /\ pc' \notin {"save", "learn"}
        BY <1>7 DEF InsertRow, LearnNothing, GoTo
    <2>2. CASE UNCHANGED <<pastIncidents, vouchers>>
        BY <1>2, <2>1, <2>2
    <2>3. CASE verdict = "learn" /\ LearnRow
        <3>1. Firm(ground) /\ hand \in Result
            BY <2>1, <2>3 DEF GroundsOK, TypeOK
        <3>2. LearnedIsGrounded'
            BY <2>3, <3>1, LearnRowGrounded
        <3>3. \A i \in Incident : \A g \in vouchers'[i] : g \in vouchers[i] \/ g = ground
            BY <2>3 DEF LearnRow, TypeOK
        <3>4. \A i \in Incident : \A g \in vouchers'[i] : Firm(g)'
            BY <1>1, <3>1, <3>3 DEF GroundsOK
        <3> QED
            BY <2>1, <3>2, <3>4 DEF GroundsOK
    <2> QED
        BY <1>7, <2>2, <2>3 DEF InsertRow, LearnNothing
<1> QED
    BY <1>3, <1>4, <1>5, <1>6, <1>7 DEF Next, Harness, Outside

-----------------------------------------------------------------------------
(***************************************************************************)
(* The budget                                                              *)
(***************************************************************************)

\* A result of incident i will be read, perhaps again.
Coming(i, rs, c) == \E k \in c .. Len(rs) : ~ rs[k].cache_hit /\ rs[k].incident = i

\* The cost of i may still be booked.
Bookable(i) ==
    \/ stage[i] = "ready"
    \/ pc \in {"context", "save"} /\ hand.incident = i
    \/ Coming(i, results, committed)

LEMMA InFlightIsBookable ==
    /\ \A t \in Tenant : InFlight(t) = {i \in TierChoices(t) : Bookable(i)}
    /\ \A t \in Tenant : InFlight(t)' = {i \in TierChoices(t)' : Bookable(i)'}
BY DEF InFlight, Bookable, Coming

\* Only the result of i itself makes it come, and no commit does.
LEMMA ComingOnlyByResult ==
    ASSUME NEW i, NEW rs \in Seq(Result), NEW r \in Result, NEW c \in Nat \ {0}
    PROVE  /\ Coming(i, Append(rs, r), c) =>
                Coming(i, rs, c) \/ (~ r.cache_hit /\ r.incident = i)
           /\ \A d \in Nat : c <= d /\ Coming(i, rs, d) => Coming(i, rs, c)
<1>1. ASSUME Coming(i, Append(rs, r), c), ~ Coming(i, rs, c)
      PROVE  ~ r.cache_hit /\ r.incident = i
    <2> DEFINE new == Append(rs, r)
    <2>1. /\ Len(new) = Len(rs) + 1
          /\ new[Len(rs) + 1] = r
          /\ \A k \in 1 .. Len(rs) : new[k] = rs[k]
        OBVIOUS
    <2>2. PICK k \in c .. Len(new) : ~ new[k].cache_hit /\ new[k].incident = i
        BY <1>1 DEF Coming
    <2> HIDE DEF new
    <2>3. k \notin c .. Len(rs)
        <3> SUFFICES ASSUME k \in c .. Len(rs)
                     PROVE  FALSE
            OBVIOUS
        <3>1. new[k] = rs[k]
            BY <2>1
        <3> QED
            BY <1>1, <2>2, <3>1 DEF Coming
    <2>4. k = Len(rs) + 1
        BY <2>1, <2>2, <2>3
    <2> QED
        BY <2>1, <2>2, <2>4
<1>2. ASSUME NEW d \in Nat, c <= d, Coming(i, rs, d)
      PROVE  Coming(i, rs, c)
    <2>1. PICK k \in d .. Len(rs) : ~ rs[k].cache_hit /\ rs[k].incident = i
        BY <1>2 DEF Coming
    <2>2. k \in c .. Len(rs)
        BY <1>2, <2>1
    <2> QED
        BY <2>1, <2>2 DEF Coming
<1> QED
    BY <1>1, <1>2

\* An incident becomes bookable by the choice of its model only: its result,
\* and the harness that takes it, take the place of the investigation.
LEMMA BookableStep ==
    ASSUME TypeOK, committed <= position, [Next]_vars, NEW i \in Incident, Bookable(i)'
    PROVE  Bookable(i) \/ stage[i] = "routed"
<1> USE DEF topicVars, storeVars, historyVars, lookupVars, harnessVars
<1>1. results \in Seq(Result) /\ committed \in Nat \ {0} /\ position \in Nat \ {0}
    BY DEF TypeOK
<1>2. CASE CacheTask
    <2>1. PICK j \in Incident :
            \/ ScanKeys(j) \/ LookupFails(j)
            \/ \E e \in scanned[j] : ReadEntry(j, e)
            \/ HandleHit(j) \/ HandleMiss(j)
        BY <1>2 DEF CacheTask
    <2>2. UNCHANGED <<pc, hand, committed>> /\ (stage'[i] = "ready" => stage[i] = "ready")
        BY <2>1 DEF ScanKeys, LookupFails, ReadEntry, HandleHit, HandleMiss, TypeOK
    <2>3. CASE HandleHit(j)
        <3>1. PICK e \in Hit(j) :
                results' = Append(results, [incident |-> j, source |-> e.source, cache_hit |-> TRUE])
            BY <2>3 DEF HandleHit
        <3>2. [incident |-> j, source |-> e.source, cache_hit |-> TRUE] \in Result
            BY <3>1 DEF Hit, TypeOK, Entry, Result
        <3>3. PICK r \in Result : results' = Append(results, r) /\ r.cache_hit
            BY <3>1, <3>2
        <3>4. Coming(i, results', committed') => Coming(i, results, committed)
            BY <1>1, <2>2, <3>3, ComingOnlyByResult
        <3> QED
            BY <2>2, <3>4 DEF Bookable
    <2>4. CASE ~ HandleHit(j)
        <3>1. UNCHANGED results
            BY <2>1, <2>4 DEF ScanKeys, LookupFails, ReadEntry, HandleMiss
        <3> QED
            BY <2>2, <3>1 DEF Bookable
    <2> QED
        BY <2>3, <2>4
<1>3. ASSUME NEW j \in Incident, RouteToFallback(j) \/ RouteToTier(j) \/ InvestigationFails(j)
      PROVE  Bookable(i) \/ stage[i] = "routed"
    <2>1. UNCHANGED <<results, pc, hand, committed>>
        BY <1>3 DEF RouteToFallback, RouteToTier, InvestigationFails
    <2>2. stage'[i] = "ready" => stage[i] \in {"ready", "routed"}
        BY <1>3 DEF RouteToFallback, RouteToTier, InvestigationFails, TypeOK
    <2> QED
        BY <2>1, <2>2 DEF Bookable
<1>4. ASSUME NEW j \in Incident, Investigate(j)
      PROVE  Bookable(i)
    <2>1. PICK r \in Result : r = [incident |-> j, source |-> j, cache_hit |-> FALSE]
        BY DEF Result
    <2>2. /\ UNCHANGED <<pc, hand, committed>>
          /\ results' = Append(results, r)
          /\ stage[j] = "ready"
          /\ stage'[i] = "ready" => stage[i] = "ready"
        BY <1>4, <2>1 DEF Investigate, TypeOK
    <2>3. Coming(i, results', committed') => Coming(i, results, committed) \/ i = j
        BY <1>1, <2>1, <2>2, ComingOnlyByResult
    <2> QED
        BY <2>2, <2>3 DEF Bookable
<1>5. CASE TakeResult
    <2>1. /\ UNCHANGED <<results, stage, committed>>
          /\ position <= Len(results)
          /\ pc' \in {"context", "save"} =>
                hand' = results[position] /\ ~ results[position].cache_hit
        BY <1>5 DEF TakeResult
    <2>2. position \in committed .. Len(results)
        BY <1>1, <2>1
    <2> QED
        BY <2>1, <2>2 DEF Bookable, Coming
<1>6. CASE Harness /\ ~ TakeResult
    <2>1. UNCHANGED <<results, stage, committed>>
        BY <1>6, HarnessStep
    <2>2. pc' \in {"context", "save"} => pc = "context" /\ UNCHANGED hand
        BY <1>6 DEF Harness, Evaluate, SkipResult, SaveEvaluation, SaveFails, InsertRow,
                    LearnNothing, InsertChroma, StoreEntry, SetTtl, Finish, GoTo
    <2> QED
        BY <2>1, <2>2 DEF Bookable
<1>7. CASE ExpireEntry \/ Midnight \/ AutoCommit \/ Ends \/ Restart \/ UNCHANGED vars
    <2>1. /\ UNCHANGED <<results, stage>>
          /\ pc' \in {"context", "save"} => UNCHANGED <<pc, hand>>
          /\ committed' \in {committed, position}
        BY <1>7 DEF ExpireEntry, Midnight, AutoCommit, Ends, Restart, vars
    <2>2. committed' \in Nat /\ committed <= committed'
        BY <1>1, <2>1
    <2>3. Coming(i, results', committed') => Coming(i, results, committed)
        <3> SUFFICES ASSUME Coming(i, results, committed')
                     PROVE  Coming(i, results, committed)
            BY <2>1
        <3>1. [incident |-> i, source |-> i, cache_hit |-> FALSE] \in Result
            BY DEF Result
        <3> QED
            BY <1>1, <2>2, <3>1, ComingOnlyByResult
    <2> QED
        BY <2>1, <2>3 DEF Bookable
<1> QED
    BY <1>2, <1>3, <1>4, <1>5, <1>6, <1>7 DEF Next, RouterAndAgent

\* No model is chosen twice, or by anyone but the router.
LEMMA ModelStep ==
    ASSUME TypeOK, BooksOK, [Next]_vars
    PROVE  /\ \A i \in Incident : model'[i] = "tier" => model[i] = "tier" \/ RouteToTier(i)
           /\ \A i \in Incident :
                stage'[i] \in {"compressed", "lookup", "routed"} => model'[i] # "tier"
<1> USE DEF topicVars, lookupVars
<1>1. CASE CacheTask
    <2>1. UNCHANGED model
        BY <1>1 DEF CacheTask, ScanKeys, LookupFails, ReadEntry, HandleHit, HandleMiss
    <2>2. \A i \in Incident : stage'[i] \in {"compressed", "lookup", "routed"} =>
                stage[i] \in {"compressed", "lookup", "routed"}
        BY <1>1 DEF CacheTask, ScanKeys, LookupFails, ReadEntry, HandleHit, HandleMiss, TypeOK
    <2> QED
        BY <2>1, <2>2 DEF BooksOK
<1>2. ASSUME NEW j \in Incident, RouteToFallback(j)
      PROVE  \A i \in Incident :
                /\ model'[i] = "tier" => model[i] = "tier"
                /\ stage'[i] \in {"compressed", "lookup", "routed"} => model'[i] # "tier"
    BY <1>2 DEF RouteToFallback, TypeOK, BooksOK
<1>3. ASSUME NEW j \in Incident, RouteToTier(j)
      PROVE  \A i \in Incident :
                /\ model'[i] = "tier" => model[i] = "tier" \/ RouteToTier(i)
                /\ stage'[i] \in {"compressed", "lookup", "routed"} => model'[i] # "tier"
    <2>1. /\ model' = [model EXCEPT ![j] = "tier"]
          /\ stage' = [stage EXCEPT ![j] = "ready"]
        BY <1>3 DEF RouteToTier
    <2> QED
        BY <1>3, <2>1 DEF TypeOK, BooksOK
<1>4. ASSUME NEW j \in Incident, Investigate(j) \/ InvestigationFails(j)
      PROVE  \A i \in Incident :
                /\ model'[i] = model[i]
                /\ stage'[i] \in {"compressed", "lookup", "routed"} => model'[i] # "tier"
    BY <1>4 DEF Investigate, InvestigationFails, TypeOK, BooksOK
<1>5. CASE ExpireEntry \/ Midnight \/ AutoCommit \/ UNCHANGED vars
    BY <1>5 DEF ExpireEntry, Midnight, AutoCommit, vars, BooksOK
<1>6. CASE Harness \/ Ends \/ Restart
    BY <1>6, HarnessStep, ProcessStep DEF BooksOK
<1> QED
    BY <1>1, <1>2, <1>3, <1>4, <1>5, <1>6 DEF Next, RouterAndAgent

\* Whatever may still be booked for the tier was in flight at its last choice.
LEMMA LateStep ==
    ASSUME TypeOK, BooksOK, [Next]_vars, NEW t \in Tenant
    PROVE  InFlight(t)' \subseteq late'[t]
<1> SUFFICES ASSUME NEW i \in InFlight(t)'
             PROVE  i \in late'[t]
    OBVIOUS
<1>0. i \in TierChoices(t)' /\ Bookable(i)'
    BY InFlightIsBookable
<1> i \in Incident /\ TenantOf[i] = t /\ model'[i] = "tier" /\ Bookable(i)'
    BY <1>0 DEF TierChoices
<1> USE FeedbackAssumption DEF storeVars, historyVars, lookupVars, harnessVars
<1>1. Bookable(i) \/ stage[i] = "routed"
    BY BookableStep DEF BooksOK
<1>2. ASSUME model[i] = "tier"
      PROVE  i \in InFlight(t)
    <2>1. Bookable(i)
        BY <1>1, <1>2 DEF BooksOK
    <2> QED
        BY <1>2, <2>1, InFlightIsBookable DEF TierChoices
<1>3. ASSUME NEW j \in Incident, RouteToTier(j)
      PROVE  i \in late'[t]
    <2>1. /\ model' = [model EXCEPT ![j] = "tier"]
          /\ late' = [late EXCEPT ![TenantOf[j]] = InFlight(TenantOf[j]) \cup {j}]
        BY <1>3 DEF RouteToTier
    <2>2. i # j => i \in InFlight(t)
        BY <1>2, <2>1 DEF TypeOK
    <2>3. CASE TenantOf[j] = t
        BY <2>1, <2>2, <2>3 DEF TypeOK
    <2>4. CASE TenantOf[j] # t
        BY <2>1, <2>2, <2>4 DEF TypeOK, BooksOK
    <2> QED
        BY <2>3, <2>4
<1>4. CASE ~ \E j \in Incident : RouteToTier(j)
    <2>1. UNCHANGED late
        <3>1. CASE CacheTask \/ RouterAndAgent
            BY <1>4, <3>1 DEF CacheTask, ScanKeys, LookupFails, ReadEntry, HandleHit,
                    HandleMiss, RouterAndAgent, RouteToFallback, Investigate, InvestigationFails
        <3>2. CASE ExpireEntry \/ Midnight \/ AutoCommit \/ UNCHANGED vars
            BY <3>2 DEF ExpireEntry, Midnight, AutoCommit, vars
        <3> QED
            BY <3>1, <3>2, HarnessStep, ProcessStep DEF Next
    <2>2. model[i] = "tier"
        BY <1>4, ModelStep
    <2> QED
        BY <1>2, <2>1, <2>2 DEF BooksOK
<1> QED
    BY <1>3, <1>4

\* The numbers of one tenant, after its last choice of the tier's model.
CapOf(s, b, o, l) ==
    /\ s <= b
    /\ l = {} => s = 0
    /\ l # {} => 0 < Budget /\ s < Budget + o

CapsOK == \A t \in Tenant : CapOf(spent[t], booked[t], overrun[t], late[t])

\* A row of today counts as spent on the tier, and as an overrun, for the same
\* investigations: those in flight.
LEMMA RowKeepsCaps ==
    ASSUME TypeOK, BooksOK, CapsOK, SaveEvaluation
    PROVE  CapsOK'
<1> USE FeedbackAssumption
<1> DEFINE i == hand.incident
           u == TenantOf[i]
<1>1. i \in Incident /\ u \in Tenant /\ pc = "save" /\ UNCHANGED late
    BY DEF SaveEvaluation, TypeOK, Result
<1>2. model[i] = "tier" => i \in late[u]
    <2>1. Bookable(i)
        BY <1>1 DEF Bookable
    <2> QED
        BY <1>1, <2>1, InFlightIsBookable DEF BooksOK, TierChoices
<1>3. CASE UNCHANGED <<booked, spendVars>>
    BY <1>1, <1>3 DEF CapsOK, spendVars
<1>4. ASSUME NEW c \in Cost(model[i]), Book(c), CountSpend(c)
      PROVE  CapsOK'
    <2>1. c \in Nat
        BY DEF Cost
    <2>2. /\ booked' = [booked EXCEPT ![u] = @ + c]
          /\ spent' = [spent EXCEPT ![u] = IF model[i] = "tier" THEN @ + c ELSE @]
          /\ overrun' = [overrun EXCEPT ![u] = IF i \in late[u] THEN @ + c ELSE @]
        BY <1>4 DEF Book, CountSpend
    <2> HIDE DEF i, u
    <2> SUFFICES ASSUME NEW t \in Tenant
                 PROVE  CapOf(spent'[t], booked'[t], overrun'[t], late'[t])
        BY DEF CapsOK
    <2>3. spent[t] \in Nat /\ booked[t] \in Nat /\ overrun[t] \in Nat
        BY DEF TypeOK
    <2>4. CapOf(spent[t], booked[t], overrun[t], late[t])
        BY DEF CapsOK
    <2>5. CASE t # u
        BY <1>1, <2>2, <2>4, <2>5 DEF TypeOK
    <2>6. CASE t = u /\ model[i] = "tier"
        <3>1. /\ booked'[t] = booked[t] + c
              /\ spent'[t] = spent[t] + c
              /\ overrun'[t] = overrun[t] + c
            BY <1>1, <1>2, <2>2, <2>6 DEF TypeOK
        <3>2. late[t] # {}
            BY <1>2, <2>6
        <3> QED
            BY <1>1, <2>1, <2>3, <2>4, <3>1, <3>2 DEF CapOf
    <2>7. CASE t = u /\ model[i] # "tier"
        <3>1. /\ booked'[t] = booked[t] + c
              /\ spent'[t] = spent[t]
              /\ overrun'[t] \in {overrun[t], overrun[t] + c}
            BY <1>1, <2>2, <2>7 DEF TypeOK
        <3> QED
            BY <1>1, <2>1, <2>3, <2>4, <3>1 DEF CapOf
    <2> QED
        BY <2>5, <2>6, <2>7
<1> QED
    BY <1>3, <1>4 DEF SaveEvaluation

\* The tier's model is chosen below the budget.
LEMMA ChoiceKeepsCaps ==
    ASSUME TypeOK, CapsOK, NEW i \in Incident, RouteToTier(i)
    PROVE  CapsOK'
<1> USE FeedbackAssumption
<1> DEFINE u == TenantOf[i]
<1>1. /\ ~ Exhausted(u)
      /\ late' = [late EXCEPT ![u] = InFlight(u) \cup {i}]
      /\ overrun' = [overrun EXCEPT ![u] = 0]
      /\ UNCHANGED <<spent, booked>>
    BY DEF RouteToTier, storeVars
<1>2. u \in Tenant
    OBVIOUS
<1> HIDE DEF u
<1> SUFFICES ASSUME NEW t \in Tenant
             PROVE  CapOf(spent'[t], booked'[t], overrun'[t], late'[t])
    BY DEF CapsOK
<1>3. spent[t] \in Nat /\ booked[t] \in Nat /\ overrun[t] \in Nat
    BY DEF TypeOK
<1>4. CapOf(spent[t], booked[t], overrun[t], late[t])
    BY DEF CapsOK
<1>5. CASE t # u
    BY <1>1, <1>2, <1>4, <1>5 DEF TypeOK
<1>6. CASE t = u
    <2>1. late'[t] # {} /\ overrun'[t] = 0 /\ spent'[t] = spent[t] /\ booked'[t] = booked[t]
        BY <1>1, <1>6 DEF TypeOK
    <2>2. booked[t] < Budget
        BY <1>1, <1>3, <1>6 DEF Exhausted
    <2> QED
        BY <1>3, <1>4, <2>1, <2>2 DEF CapOf
<1> QED
    BY <1>5, <1>6

LEMMA BooksStep ==
    ASSUME TypeOK, BooksOK, [Next]_vars
    PROVE  BooksOK'
<1> USE FeedbackAssumption DEF storeVars, historyVars, spendVars
<1>1. committed' <= position'
    <2>1. committed \in Nat /\ position \in Nat /\ committed <= position
        BY DEF TypeOK, BooksOK
    <2>2. \/ committed' = committed /\ position' \in {position, position + 1, committed}
          \/ committed' = position /\ position' = position
        BY DEF Next, CacheTask, ScanKeys, LookupFails, ReadEntry, HandleHit, HandleMiss,
               RouterAndAgent, RouteToFallback, RouteToTier, Investigate, InvestigationFails,
               Harness, TakeResult, Evaluate, SkipResult, SaveEvaluation, SaveFails, InsertRow,
               LearnNothing, InsertChroma, StoreEntry, SetTtl, Finish, GoTo, ExpireEntry,
               Midnight, AutoCommit, Ends, Restart, vars, harnessVars
    <2> QED
        BY <2>1, <2>2
<1>2. \A i \in Incident : stage'[i] \in {"compressed", "lookup", "routed"} => model'[i] # "tier"
    BY ModelStep
<1>3. CapsOK
    BY DEF CapsOK, CapOf, BooksOK
<1>4. CapsOK'
    <2>1. CASE SaveEvaluation
        BY <1>3, <2>1, RowKeepsCaps
    <2>2. ASSUME NEW i \in Incident, RouteToTier(i)
          PROVE  CapsOK'
        BY <1>3, <2>2, ChoiceKeepsCaps
    <2>3. CASE Midnight
        <3>1. \A t \in Tenant : booked'[t] = 0 /\ spent'[t] = 0 /\ overrun'[t] = 0
            BY <2>3 DEF Midnight
        <3>2. UNCHANGED late
            BY <2>3 DEF Midnight
        <3> QED
            BY <1>3, <3>1, <3>2 DEF CapsOK, CapOf
    <2>4. CASE /\ ~ SaveEvaluation /\ ~ Midnight
               /\ ~ \E i \in Incident : RouteToTier(i)
        <3>1. UNCHANGED <<booked, spent, overrun, late>>
            <4>1. CASE CacheTask \/ RouterAndAgent
                BY <2>4, <4>1 DEF CacheTask, ScanKeys, LookupFails, ReadEntry, HandleHit,
                        HandleMiss, RouterAndAgent, RouteToFallback, Investigate,
                        InvestigationFails
            <4>2. CASE ExpireEntry \/ AutoCommit \/ UNCHANGED vars
                BY <4>2 DEF ExpireEntry, AutoCommit, vars
            <4> QED
                BY <2>4, <4>1, <4>2, HarnessStep, ProcessStep DEF Next
        <3> QED
            BY <1>3, <3>1 DEF CapsOK
    <2> QED
        BY <2>1, <2>2, <2>3, <2>4
<1>5. \A t \in Tenant : InFlight(t)' \subseteq late'[t]
    BY LateStep
<1> QED
    BY <1>1, <1>2, <1>4, <1>5 DEF BooksOK, CapsOK, CapOf

-----------------------------------------------------------------------------
(***************************************************************************)
(* Theorems                                                                *)
(***************************************************************************)

\* The strengthened invariant holds in every reachable state.
THEOREM InductiveInvariant == Spec => []IInv
<1>1. Init => IInv
    <2> SUFFICES ASSUME Init
                 PROVE  IInv
        OBVIOUS
    <2> USE FeedbackAssumption
    <2>1. ResultsOK /\ VerdictOK
        BY DEF Init, ResultsOK, VerdictOK
    <2>2. CacheOK
        BY DEF Init, CacheOK, Genuine, AnswersAreGenuine
    <2>3. RowsOK
        BY DEF Init, RowsOK, KnowledgeHasRows
    <2>4. GroundsOK
        BY DEF Init, GroundsOK, LearnedIsGrounded
    <2>5. BooksOK
        <3>1. \A t \in Tenant : InFlight(t) = {}
            BY DEF Init, InFlight, TierChoices
        <3> QED
            BY <3>1 DEF Init, BooksOK
    <2> QED
        BY <2>1, <2>2, <2>3, <2>4, <2>5, TypeInit DEF IInv
<1>2. IInv /\ [Next]_vars => IInv'
    BY TypeStep, ResultsStep, VerdictStep, CacheStep, RowsStep, GroundsStep, BooksStep DEF IInv
<1> QED
    BY <1>1, <1>2, PTL DEF Spec

\* The semantic cache answers with results of the tenant that passed their
\* evaluation and were made for an incident similar enough, however entries
\* expire, are written and are read at the same time.
THEOREM CacheAnswersAreGenuine == Spec => []AnswersAreGenuine
<1>1. IInv => AnswersAreGenuine
    BY DEF IInv, CacheOK
<1> QED
    BY <1>1, InductiveInvariant, PTL

\* maybe_learn inserts the row before the embedding, so that no failure of
\* either leaves an embedding without its row.
THEOREM KnowledgeIsBacked == Spec => []KnowledgeHasRows
<1>1. IInv => KnowledgeHasRows
    BY DEF IInv, RowsOK
<1> QED
    BY <1>1, InductiveInvariant, PTL

\* The chain of proxies that the evaluation leans on ends at a label, at
\* observations or at a seeded incident: it never closes on itself.
THEOREM KnowledgeIsGrounded == Spec => []LearnedIsGrounded
<1>1. IInv => LearnedIsGrounded
    BY DEF IInv, GroundsOK
<1> QED
    BY <1>1, InductiveInvariant, PTL

\* The daily budget caps what is booked for the tier's models on any day, apart
\* from the rows of what was in flight when the last of them was chosen: whatever
\* an attempt costs, and however results are lost or come again.
THEOREM BudgetIsACap == Spec => []DailyCapHoldsUpToFlight
<1>1. IInv => DailyCapHoldsUpToFlight
    BY DEF IInv, BooksOK, DailyCapHoldsUpToFlight
<1> QED
    BY <1>1, InductiveInvariant, PTL

=============================================================================
