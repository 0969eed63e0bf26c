-------------------------- MODULE RcaAgent_proofs --------------------------
(***************************************************************************)
(* Proofs about RcaAgent and the knowledge base that its tool searches,    *)
(* for every value of their constants.  Of the agent: what it tells of an  *)
(* investigation agrees, and a stream that ended as complete is whole.  Of *)
(* KnowledgeBase: seeding is all or nothing, an answer has its rows, and   *)
(* the fused ranking has first what both stages found.  The two share no   *)
(* state.                                                                  *)
(***************************************************************************)
EXTENDS RcaAgent, KnowledgeBase, TLAPS, FiniteSetTheorems, WellFoundedInduction

(***************************************************************************)
(* The inductive invariant                                                 *)
(***************************************************************************)

\* An attempt runs from the call of the LLM to the end of the tail, and has an
\* rca_id; a backoff is followed by one attempt more.
ControlOK ==
    /\ pc \in {"poll", "dead"} => attempt = 0
    /\ pc \in {"llm", "tools", "backoff", "complete", "save", "publish", "saveFailure"} =>
        attempt > 0
    /\ attempt > 0 => Rca > 0
    /\ pc = "tools" => pending > 0 /\ iteration > 0
    /\ pc = "backoff" => attempt < MaxAttempts

IsSentinel(k, r) == stream[k].rca = r /\ stream[k].type = "complete"

\* Nothing tells of a success of r, or may be read so.
NoSuccess(r) ==
    /\ rows[r] # "success"
    /\ \A m \in results : m.rca # r
    /\ \A k \in DOMAIN stream : ~ IsSentinel(k, r)

\* An investigation in hand is on the way to one outcome: until it gets to its
\* tail it may still fail, and it is a dead letter only if it did.
OutcomeOK ==
    attempt > 0 =>
        /\ pc \notin {"save", "publish"} => NoSuccess(Rca)
        /\ pc # "saveFailure" => Rca \notin dlq

\* The agent holds the steps of the attempt it is in, in order.
StepsOK ==
    \A k \in DOMAIN steps :
        /\ steps[k].attempt = attempt
        /\ steps[k].number <= iteration
        /\ k > 1 => steps[k - 1].number <= steps[k].number

\* A sentinel is the last message of its investigation.
StreamOK ==
    \A k \in DOMAIN stream :
        /\ stream[k].rca \in DOMAIN rca
        /\ \A j \in 1 .. k - 1 : ~ IsSentinel(j, stream[k].rca)

\* A browser was shown its investigation's messages up to where the gateway
\* scanned, and the gateway scans no further than a sentinel.
ConnectionOK ==
    \A c \in Client :
        /\ connection[c].scanned <= Len(stream)
        /\ connection[c].shown = {k \in 1 .. connection[c].scanned :
                                    stream[k].rca = connection[c].rca}
        /\ connection[c].end = "complete" =>
            /\ ~ connection[c].open
            /\ connection[c].scanned > 0
            /\ IsSentinel(connection[c].scanned, connection[c].rca)

IInv ==
    /\ TypeOK
    /\ ControlOK
    /\ OutcomeOK
    /\ StepsOK
    /\ StreamOK
    /\ ConnectionOK
    /\ OutcomesAgree

-----------------------------------------------------------------------------
(***************************************************************************)
(* Types and control                                                       *)
(***************************************************************************)

\* What Append does to a sequence.
LEMMA AppendAdds ==
    ASSUME NEW S, NEW s \in Seq(S), NEW e \in S
    PROVE  /\ Append(s, e) \in Seq(S)
           /\ Len(s) \in Nat /\ DOMAIN s = 1 .. Len(s)
           /\ Len(Append(s, e)) = Len(s) + 1
           /\ DOMAIN Append(s, e) = 1 .. Len(s) + 1
           /\ \A k \in 1 .. Len(s) : Append(s, e)[k] = s[k]
           /\ Append(s, e)[Len(s) + 1] = e
OBVIOUS

\* The agent starts with nothing read, written or streamed.
LEMMA TypeInit == Init => TypeOK /\ ControlOK
<1> USE RcaAssumption
<1> SUFFICES ASSUME Init
             PROVE  TypeOK /\ ControlOK
    OBVIOUS
<1>1. NoConnection \in Connection
    BY DEF NoConnection, Connection, NoRca
<1>2. ControlOK
    BY DEF Init, ControlOK
<1>3. Len(Messages) \in Nat
    OBVIOUS
<1>4. /\ rows = << >> /\ rca = << >> /\ steps = << >> /\ stream = << >>
      /\ results = {} /\ dlq = {}
    BY DEF Init
<1>5. running \in BOOLEAN
    BY Zenon DEF Init
<1>6. rows \in [DOMAIN rca -> {"none", "success", "failed"}]
    BY <1>4
<1>7. position = 1 /\ committed = 1 /\ connection \in [Client -> Connection]
    BY <1>1 DEF Init
<1>8. steps \in Seq(ReasoningStep) /\ rca \in Seq(DOMAIN Messages) /\ stream \in Seq(Message)
    BY <1>4
<1> QED
    BY <1>2, <1>3, <1>4, <1>5, <1>6, <1>7, <1>8 DEF Init, TypeOK

\* A new investigation takes the next rca_id.
LEMMA TakeIncidentKeepsTypes ==
    ASSUME TypeOK, ControlOK, TakeIncident
    PROVE  /\ TypeOK' /\ ControlOK'
           /\ Rca' = Rca + 1 /\ rows'[Rca + 1] = "none"
           /\ DOMAIN rca = 1 .. Rca /\ DOMAIN rca' = 1 .. Rca + 1
           /\ \A r \in DOMAIN rca : rows'[r] = rows[r]
<1> USE RcaAssumption
<1>1. /\ position \in DOMAIN Messages /\ rca \in Seq(DOMAIN Messages)
      /\ rca' = Append(rca, position) /\ rows' = Append(rows, "none")
      /\ position' = position + 1
    BY DEF TakeIncident, Take, TypeOK
<1>2. /\ DOMAIN rca = 1 .. Rca /\ DOMAIN rca' = 1 .. Rca + 1 /\ Rca \in Nat
      /\ Rca' = Rca + 1 /\ rca' \in Seq(DOMAIN Messages)
    BY <1>1 DEF Rca
<1>3. rows \in Seq({"none", "success", "failed"}) /\ Len(rows) = Rca
    <2>1. rows \in [1 .. Rca -> {"none", "success", "failed"}]
        BY <1>2 DEF TypeOK
    <2> QED
        BY <1>2, <2>1
<1>4. /\ rows' \in [DOMAIN rca' -> {"none", "success", "failed"}]
      /\ rows'[Rca + 1] = "none"
      /\ \A r \in DOMAIN rca : rows'[r] = rows[r]
    <2>1. /\ Append(rows, "none") \in Seq({"none", "success", "failed"})
          /\ DOMAIN rows = 1 .. Rca
          /\ DOMAIN Append(rows, "none") = 1 .. Rca + 1
          /\ \A r \in 1 .. Rca : Append(rows, "none")[r] = rows[r]
          /\ Append(rows, "none")[Rca + 1] = "none"
        BY <1>3, AppendAdds
    <2>2. rows' \in [1 .. Rca + 1 -> {"none", "success", "failed"}]
        <3>1. \A s \in Seq({"none", "success", "failed"}) :
                s \in [DOMAIN s -> {"none", "success", "failed"}]
            OBVIOUS
        <3> QED
            BY <1>1, <2>1, <3>1
    <2> QED
        BY <1>1, <1>2, <2>1, <2>2
<1>5. /\ attempt' = 1 /\ iteration' = 0 /\ pending' = 0 /\ steps' = << >> /\ pc' = "llm"
      /\ UNCHANGED <<running, committed, ends, results, dlq, stream, connection>>
    BY DEF TakeIncident, Take, FreshRun
<1>6. /\ results' \subseteq
            [rca : DOMAIN rca', offset : DOMAIN Messages, attempt : Nat, steps : Seq(ReasoningStep)]
      /\ dlq' \subseteq {NoRca} \cup DOMAIN rca'
    <2>1. DOMAIN rca \subseteq DOMAIN rca'
        BY <1>2
    <2> QED
        BY <1>5, <2>1 DEF TypeOK
<1>7. position' \in 1 .. Len(Messages) + 1
    BY <1>1
<1>8. steps' \in Seq(ReasoningStep)
    BY <1>5
<1>9. TypeOK'
    BY <1>2, <1>4, <1>5, <1>6, <1>7, <1>8 DEF TypeOK
<1>10. ControlOK'
    BY <1>2, <1>5 DEF ControlOK
<1> QED
    BY <1>2, <1>4, <1>9, <1>10

\* What the loop of the agent leaves alone, and where its step leads.
LEMMA RunKeepsTypes ==
    ASSUME TypeOK, ControlOK, RunAgent \/ PublishComplete
    PROVE  TypeOK' /\ ControlOK'
<1> USE RcaAssumption
<1>1. /\ UNCHANGED <<running, position, committed, ends, rca, rows, results, dlq, connection>>
      /\ Rca' = Rca
    BY DEF RunAgent, AnswerWithToolCalls, RunTool, ParseNoArguments, Accept, AskAgain,
           FinishOtherwise, RunFails, Exhausted, RateLimited, Retry, PublishComplete,
           CallLlm, RunStep, offsetVars, storeVars, Rca
<1>2. attempt > 0 /\ Rca > 0 /\ Rca \in Nat
    <2>1. attempt > 0 /\ Rca > 0
        BY DEF RunAgent, AnswerWithToolCalls, RunTool, ParseNoArguments, Accept, AskAgain,
               FinishOtherwise, RunFails, Exhausted, RateLimited, Retry, PublishComplete,
               CallLlm, RunStep, ControlOK
    <2>2. rca \in Seq(DOMAIN Messages)
        BY DEF TypeOK
    <2> QED
        BY <2>1, <2>2 DEF Rca
<1> DEFINE RunTypes ==
        /\ pc \in {"llm", "tools", "backoff", "complete", "dlq", "save"}
        /\ attempt \in 1 .. MaxAttempts
        /\ iteration \in 0 .. MaxIterations
        /\ pending \in 0 .. MaxCalls
        /\ steps \in Seq(ReasoningStep)
        /\ stream \in Seq(Message)
        /\ pc = "tools" => pending > 0 /\ iteration > 0
        /\ pc = "backoff" => attempt < MaxAttempts
<1>3. SUFFICES RunTypes'
    <2>1. ASSUME RunTypes'
          PROVE  TypeOK' /\ ControlOK'
        <3>1. TypeOK'
            <4>1. /\ rca' \in Seq(DOMAIN Messages)
                  /\ rows' \in [DOMAIN rca' -> {"none", "success", "failed"}]
                  /\ results' \subseteq
                        [rca : DOMAIN rca', offset : DOMAIN Messages, attempt : Nat,
                         steps : Seq(ReasoningStep)]
                  /\ dlq' \subseteq {NoRca} \cup DOMAIN rca'
                BY <1>1 DEF TypeOK
            <4>2. /\ running' \in BOOLEAN /\ position' \in 1 .. Len(Messages) + 1
                  /\ committed' \in 1 .. Len(Messages) + 1 /\ ends' \in 0 .. MaxEnds
                  /\ connection' \in [Client -> Connection]
                BY <1>1 DEF TypeOK
            <4>3. attempt' \in 0 .. MaxAttempts
                BY <2>1
            <4> QED
                BY <2>1, <4>1, <4>2, <4>3 DEF TypeOK
        <3>2. ControlOK'
            BY <1>1, <1>2, <2>1 DEF ControlOK
        <3> QED
            BY <3>1, <3>2
    <2> QED
        BY <2>1
<1>4. ASSUME CallLlm
      PROVE  /\ attempt \in 1 .. MaxAttempts
             /\ iteration' \in 1 .. MaxIterations
             /\ steps' \in Seq(ReasoningStep)
             /\ stream' \in Seq(Message)
             /\ pending \in 0 .. MaxCalls
             /\ pc = "llm"
    BY <1>2, <1>4 DEF CallLlm, TypeOK
<1>5. CASE AnswerWithToolCalls
    BY <1>4, <1>5 DEF AnswerWithToolCalls
<1>6. CASE Accept \/ AskAgain \/ FinishOtherwise \/ RunFails
    BY <1>4, <1>6 DEF Accept, AskAgain, FinishOtherwise, RunFails
<1>7. CASE RateLimited
    BY <1>4, <1>7 DEF RateLimited
<1>8. CASE RunTool
    <2>1. /\ pending \in 1 .. MaxCalls /\ iteration \in 1 .. MaxIterations
          /\ attempt \in 1 .. MaxAttempts
        BY <1>2, <1>8 DEF RunTool, TypeOK, ControlOK
    <2>2. /\ pending' = pending - 1 /\ pc' = IF pending = 1 THEN "llm" ELSE "tools"
          /\ UNCHANGED <<attempt, iteration>>
        BY <1>8 DEF RunTool
    <2>3. [attempt |-> attempt, number |-> iteration] \in ReasoningStep
        BY <2>1 DEF ReasoningStep
    <2>4. [rca |-> Rca, type |-> "step", number |-> iteration] \in Message
        BY <1>2, <2>1 DEF Message
    <2>5. steps' \in Seq(ReasoningStep) /\ stream' \in Seq(Message)
        <3>1. /\ steps' = Append(steps, [attempt |-> attempt, number |-> iteration])
              /\ \/ stream' = Append(stream, [rca |-> Rca, type |-> "step", number |-> iteration])
                 \/ stream' = stream
            BY <1>8 DEF RunTool
        <3>2. steps \in Seq(ReasoningStep) /\ stream \in Seq(Message)
            BY DEF TypeOK
        <3>3. steps' \in Seq(ReasoningStep)
            BY <2>3, <3>1, <3>2, AppendAdds
        <3>4. stream' \in Seq(Message)
            <4>1. ASSUME NEW e \in Message
                  PROVE  Append(stream, e) \in Seq(Message)
                BY <3>2, AppendAdds
            <4>2. Append(stream, [rca |-> Rca, type |-> "step", number |-> iteration])
                    \in Seq(Message)
                BY <2>4, <4>1
            <4> QED
                BY <3>1, <3>2, <4>2
        <3> QED
            BY <3>3, <3>4
    <2> QED
        BY <2>1, <2>2, <2>5
<1>9. CASE ParseNoArguments \/ Exhausted
    BY <1>2, <1>9 DEF ParseNoArguments, Exhausted, TypeOK
<1>10. CASE Retry
    <2>1. attempt' = attempt + 1 /\ attempt < MaxAttempts
        BY <1>10 DEF Retry, ControlOK
    <2>2. pc' = "llm" /\ iteration' = 0 /\ pending' = 0 /\ steps' = << >> /\ stream' = stream
        BY <1>10 DEF Retry, FreshRun
    <2>3. steps' \in Seq(ReasoningStep)
        BY <2>2
    <2> QED
        BY <1>2, <2>1, <2>2, <2>3 DEF TypeOK
<1>11. CASE PublishComplete
    <2>1. Complete(Rca) \in Message
        BY <1>2 DEF Complete, Message
    <2>2. stream' \in Seq(Message)
        <3>1. stream' \in {Append(stream, Complete(Rca)), stream} /\ stream \in Seq(Message)
            BY <1>11 DEF PublishComplete, TypeOK
        <3> QED
            BY <2>1, <3>1, AppendAdds
    <2> QED
        BY <1>2, <1>11, <2>2 DEF PublishComplete, TypeOK, runVars
<1> QED
    BY <1>5, <1>6, <1>7, <1>8, <1>9, <1>10, <1>11 DEF RunAgent

\* The tail of an investigation ends it, or goes to its next step.
LEMMA TailKeepsTypes ==
    ASSUME TypeOK, ControlOK, SaveResult \/ PublishResult \/ PublishDlq \/ SaveFailure
    PROVE  TypeOK' /\ ControlOK'
<1> USE RcaAssumption
<1>1. UNCHANGED <<running, position, committed, ends, rca, stream, connection>> /\ Rca' = Rca
    BY DEF SaveResult, PublishResult, PublishDlq, SaveFailure, TailStep, offsetVars, Rca
<1>2. attempt > 0 => Rca \in DOMAIN rca
    BY DEF TypeOK, ControlOK, Rca
<1>3. CASE SaveResult
    <2>1. /\ pc = "save" /\ pc' = "publish"
          /\ UNCHANGED <<attempt, iteration, pending, steps, results, dlq>>
          /\ rows' \in [DOMAIN rca -> {"none", "success", "failed"}]
        BY <1>3 DEF SaveResult, runVars, TypeOK
    <2> QED
        BY <1>1, <2>1 DEF TypeOK, ControlOK
<1>4. CASE PublishResult
    <2>1. /\ pc = "publish" /\ pc' = "poll" /\ UNCHANGED <<rows, dlq>>
          /\ attempt' = 0 /\ iteration' = 0 /\ pending' = 0 /\ steps' = << >>
        BY <1>4 DEF PublishResult, NoRun, FreshRun
    <2>2. ResultOf \in
            [rca : DOMAIN rca, offset : DOMAIN Messages, attempt : Nat, steps : Seq(ReasoningStep)]
        <3>1. Rca \in DOMAIN rca /\ rca[Rca] \in DOMAIN Messages
            BY <1>2, <2>1 DEF TypeOK, ControlOK
        <3>2. attempt \in Nat /\ steps \in Seq(ReasoningStep)
            BY DEF TypeOK
        <3> QED
            BY <3>1, <3>2 DEF ResultOf
    <2>3. results' \subseteq
            [rca : DOMAIN rca, offset : DOMAIN Messages, attempt : Nat, steps : Seq(ReasoningStep)]
        BY <1>4, <2>2 DEF PublishResult, TypeOK
    <2>4. steps' \in Seq(ReasoningStep)
        BY <2>1
    <2> QED
        BY <1>1, <2>1, <2>3, <2>4 DEF TypeOK, ControlOK
<1>5. CASE PublishDlq
    <2>1. /\ pc = "dlq" /\ UNCHANGED <<rows, results>>
          /\ dlq' \subseteq {NoRca} \cup DOMAIN rca
        BY <1>2, <1>5 DEF PublishDlq, TypeOK
    <2>2. CASE attempt = 0
        <3>1. /\ pc' = "poll" /\ attempt' = 0 /\ iteration' = 0 /\ pending' = 0
              /\ steps' = << >>
            BY <1>5, <2>2 DEF PublishDlq, NoRun, FreshRun
        <3>2. steps' \in Seq(ReasoningStep)
            BY <3>1
        <3> QED
            BY <1>1, <2>1, <3>1, <3>2 DEF TypeOK, ControlOK
    <2>3. CASE attempt # 0
        <3>1. pc' = "saveFailure" /\ UNCHANGED <<attempt, iteration, pending, steps>>
            BY <1>5, <2>3 DEF PublishDlq, runVars
        <3> QED
            BY <1>1, <2>1, <2>3, <3>1 DEF TypeOK, ControlOK
    <2> QED
        BY <2>2, <2>3
<1>6. CASE SaveFailure
    <2>1. /\ pc = "saveFailure" /\ pc' = "poll" /\ UNCHANGED <<results, dlq>>
          /\ attempt' = 0 /\ iteration' = 0 /\ pending' = 0 /\ steps' = << >>
          /\ rows' \in [DOMAIN rca -> {"none", "success", "failed"}]
        BY <1>6 DEF SaveFailure, NoRun, FreshRun, TypeOK
    <2>2. steps' \in Seq(ReasoningStep)
        BY <2>1
    <2> QED
        BY <1>1, <2>1, <2>2 DEF TypeOK, ControlOK
<1> QED
    BY <1>3, <1>4, <1>5, <1>6

\* What stays of the connections when a client's one is replaced.
LEMMA GatewayKeepsTypes ==
    ASSUME TypeOK, ControlOK, NEW c \in Client,
           Gateway(c) \/ BreakStream(c) \/ \E r \in DOMAIN rca : OpenStream(c, r)
    PROVE  /\ TypeOK' /\ ControlOK'
           /\ GatewayStep
           /\ \A d \in Client \ {c} : connection'[d] = connection[d]
<1> USE RcaAssumption
<1>1. GatewayStep
    BY DEF Gateway, ReadStream, TimeOut, ReachLimit, BreakStream, OpenStream, CloseStream
<1>2. connection[c] \in Connection
    BY DEF TypeOK
<1>3. ASSUME NEW d \in Connection, connection' = [connection EXCEPT ![c] = d]
      PROVE  /\ connection' \in [Client -> Connection]
             /\ \A e \in Client \ {c} : connection'[e] = connection[e]
    BY <1>3 DEF TypeOK
<1>4. ASSUME NEW r \in DOMAIN rca, OpenStream(c, r)
      PROVE  \E d \in Connection : connection' = [connection EXCEPT ![c] = d]
    <2>1. r \in Nat
        BY DEF TypeOK
    <2>2. [connection[c] EXCEPT !.rca = r, !.open = TRUE] \in Connection
        BY <1>2, <2>1 DEF Connection
    <2>3. connection' = [connection EXCEPT ![c] = [@ EXCEPT !.rca = r, !.open = TRUE]]
        BY <1>2, <1>4 DEF OpenStream, TypeOK, Connection
    <2> QED
        BY <2>2, <2>3
<1>5. ASSUME NEW end \in {"timeout", "limit", "error"}, CloseStream(c, end)
      PROVE  \E d \in Connection : connection' = [connection EXCEPT ![c] = d]
    <2>1. [NoConnection EXCEPT !.end = end] \in Connection
        BY DEF NoConnection, Connection, NoRca
    <2> QED
        BY <1>5, <2>1 DEF CloseStream
<1>6. ASSUME ReadStream(c)
      PROVE  \E d \in Connection : connection' = [connection EXCEPT ![c] = d]
    <2> DEFINE offset == connection[c].scanned + 1
               own == stream[offset].rca = connection[c].rca
               last == own /\ stream[offset].type = "complete"
               read == [connection[c] EXCEPT
                            !.scanned = offset,
                            !.shown = IF own THEN @ \cup {offset} ELSE @,
                            !.open = ~last,
                            !.end = IF last THEN "complete" ELSE @]
    <2>1. connection' = [connection EXCEPT ![c] = read]
        BY <1>2, <1>6 DEF ReadStream, TypeOK, Connection
    <2>2. offset \in Nat
        BY <1>2 DEF Connection
    <2>3. (~last) \in {TRUE, FALSE}
        <3> HIDE DEF last
        <3> QED
            BY Zenon
    <2>4. read \in Connection
        BY <1>2, <2>2, <2>3 DEF Connection
    <2> QED
        BY <2>1, <2>4
<1>7. \E d \in Connection : connection' = [connection EXCEPT ![c] = d]
    BY <1>4, <1>5, <1>6 DEF Gateway, TimeOut, ReachLimit, BreakStream
<1>8. /\ connection' \in [Client -> Connection]
      /\ \A d \in Client \ {c} : connection'[d] = connection[d]
    BY <1>3, <1>7
<1>9. TypeOK' /\ ControlOK'
    BY <1>1, <1>8 DEF GatewayStep, offsetVars, runVars, storeVars, TypeOK, ControlOK, Rca
<1> QED
    BY <1>1, <1>8, <1>9

\* Every step keeps the types and the control.
LEMMA TypeStep ==
    ASSUME TypeOK, ControlOK, [Next]_vars
    PROVE  TypeOK' /\ ControlOK'
<1> USE RcaAssumption
<1>1. CASE TakeIncident
    BY <1>1, TakeIncidentKeepsTypes
<1>2. CASE TakeInvalid
    <2>1. /\ position' = position + 1 /\ position \in DOMAIN Messages /\ pc = "poll" /\ pc' = "dlq"
          /\ UNCHANGED <<running, committed, ends, attempt, iteration, pending, steps, rca,
                         rows, results, dlq, stream, connection>>
        BY <1>2 DEF TakeInvalid, Take, TypeOK
    <2>2. position' \in 1 .. Len(Messages) + 1
        BY <2>1
    <2> QED
        BY <2>1, <2>2 DEF TypeOK, ControlOK, Rca
<1>3. CASE TakeUndecodable
    <2>1. /\ position' = position + 1 /\ position \in DOMAIN Messages /\ pc = "poll" /\ pc' = "dead"
          /\ UNCHANGED <<running, committed, ends, attempt, iteration, pending, steps, rca,
                         rows, results, dlq, stream, connection>>
        BY <1>3 DEF TakeUndecodable, Take, TypeOK, runVars
    <2>2. position' \in 1 .. Len(Messages) + 1
        BY <2>1
    <2> QED
        BY <2>1, <2>2 DEF TypeOK, ControlOK, Rca
<1>4. CASE RunAgent \/ PublishComplete
    BY <1>4, RunKeepsTypes
<1>5. CASE SaveResult \/ PublishResult \/ PublishDlq \/ SaveFailure
    BY <1>5, TailKeepsTypes
<1>6. CASE End
    <2>1. /\ running' = FALSE /\ pc' = "poll" /\ ends' = ends + 1 /\ ends < MaxEnds
          /\ attempt' = 0 /\ iteration' = 0 /\ pending' = 0 /\ steps' = << >>
          /\ committed' \in committed .. position
          /\ UNCHANGED <<position, rca, rows, results, dlq, stream, connection>>
        BY <1>6 DEF End, NoRun, FreshRun, storeVars
    <2>2. committed' \in 1 .. Len(Messages) + 1
        BY <2>1 DEF TypeOK
    <2>3. steps' \in Seq(ReasoningStep)
        BY <2>1
    <2>4. ends' \in 0 .. MaxEnds
        BY <2>1 DEF TypeOK
    <2>5. running' \in BOOLEAN
        BY <2>1
    <2> QED
        BY <2>1, <2>2, <2>3, <2>4, <2>5 DEF TypeOK, ControlOK
<1>7. CASE Start
    <2>1. /\ running' \in BOOLEAN /\ position' = committed
          /\ UNCHANGED <<committed, ends, pc, attempt, iteration, pending, steps, rca, rows,
                         results, dlq, stream, connection>>
        BY <1>7 DEF Start, runVars, storeVars
    <2> QED
        BY <2>1 DEF TypeOK, ControlOK, Rca
<1>8. ASSUME NEW c \in Client,
             Gateway(c) \/ BreakStream(c) \/ \E r \in DOMAIN rca : OpenStream(c, r)
      PROVE  TypeOK' /\ ControlOK'
    BY <1>8, GatewayKeepsTypes
<1>9. CASE UNCHANGED vars
    BY <1>9 DEF vars, offsetVars, runVars, storeVars, TypeOK, ControlOK, Rca
<1> QED
    BY <1>1, <1>2, <1>3, <1>4, <1>5, <1>6, <1>7, <1>8, <1>9 DEF Next, Agent

-----------------------------------------------------------------------------
(***************************************************************************)
(* The stream and its readers                                              *)
(***************************************************************************)

\* Only the investigation in hand adds to the stream, and its sentinel comes
\* from PublishComplete.
LEMMA StreamGrows ==
    ASSUME TypeOK, ControlOK, [Next]_vars
    PROVE  \/ stream' = stream
           \/ /\ attempt > 0 /\ pc \notin {"save", "publish"} /\ rca' = rca
              /\ \E m \in Message :
                    /\ m.rca = Rca /\ stream' = Append(stream, m)
                    /\ m.type = "complete" => PublishComplete /\ m = Complete(Rca)
<1>1. CASE Agent /\ ~ RunTool /\ ~ PublishComplete
    BY <1>1 DEF Agent, TakeIncident, TakeInvalid, TakeUndecodable, Take, RunAgent,
                AnswerWithToolCalls, ParseNoArguments, Accept, AskAgain, FinishOtherwise,
                RunFails, Exhausted, RateLimited, Retry, CallLlm, SaveResult, PublishResult,
                PublishDlq, SaveFailure, TailStep
<1>2. Rca \in Nat /\ iteration \in Nat
    <2>1. rca \in Seq(DOMAIN Messages)
        BY DEF TypeOK
    <2> QED
        BY <2>1 DEF Rca, TypeOK
<1>3. CASE RunTool
    <2>1. /\ pc = "tools" /\ rca' = rca
          /\ \/ stream' = Append(stream, [rca |-> Rca, type |-> "step", number |-> iteration])
             \/ stream' = stream
        BY <1>3 DEF RunTool, RunStep, storeVars
    <2>2. [rca |-> Rca, type |-> "step", number |-> iteration] \in Message
        BY <1>2 DEF Message
    <2> QED
        BY <2>1, <2>2 DEF ControlOK
<1>4. CASE PublishComplete
    <2>1. pc = "complete" /\ rca' = rca /\ stream' \in {Append(stream, Complete(Rca)), stream}
        BY <1>4 DEF PublishComplete, RunStep, storeVars
    <2>2. Complete(Rca) \in Message /\ Complete(Rca).rca = Rca
        BY <1>2 DEF Complete, Message
    <2> QED
        BY <1>4, <2>1, <2>2 DEF ControlOK
<1>5. CASE End \/ Start \/ UNCHANGED vars
    BY <1>5 DEF End, Start, vars
<1>6. ASSUME NEW c \in Client,
             Gateway(c) \/ BreakStream(c) \/ \E r \in DOMAIN rca : OpenStream(c, r)
      PROVE  stream' = stream
    BY <1>6, GatewayKeepsTypes DEF GatewayStep
<1> QED
    BY <1>1, <1>3, <1>4, <1>5, <1>6 DEF Next

\* rca_ids stay, and only TakeIncident makes one.
LEMMA RcaGrows ==
    ASSUME TypeOK, ControlOK, [Next]_vars
    PROVE  rca' = rca \/ TakeIncident
<1>1. CASE Agent
    BY <1>1 DEF Agent, TakeInvalid, TakeUndecodable, Take, RunAgent, AnswerWithToolCalls,
                RunTool, ParseNoArguments, Accept, AskAgain, FinishOtherwise, RunFails,
                Exhausted, RateLimited, Retry, CallLlm, RunStep, PublishComplete, SaveResult,
                PublishResult, PublishDlq, SaveFailure, TailStep, storeVars
<1>2. CASE End \/ Start \/ UNCHANGED vars
    BY <1>2 DEF End, Start, vars, storeVars
<1>3. ASSUME NEW c \in Client,
             Gateway(c) \/ BreakStream(c) \/ \E r \in DOMAIN rca : OpenStream(c, r)
      PROVE  rca' = rca
    BY <1>3, GatewayKeepsTypes DEF GatewayStep, storeVars
<1> QED
    BY <1>1, <1>2, <1>3 DEF Next

\* What the stream has stays where it is.
LEMMA StreamKept ==
    ASSUME TypeOK, ControlOK, [Next]_vars
    PROVE  /\ Len(stream) \in Nat /\ Len(stream') \in Nat
           /\ DOMAIN stream = 1 .. Len(stream) /\ DOMAIN stream' = 1 .. Len(stream')
           /\ Len(stream) <= Len(stream')
           /\ \A k \in 1 .. Len(stream) : stream'[k] = stream[k]
           /\ DOMAIN rca \subseteq DOMAIN rca'
<1>1. stream \in Seq(Message)
    BY DEF TypeOK
<1>2. DOMAIN rca \subseteq DOMAIN rca'
    <2>1. CASE TakeIncident
        <3>1. DOMAIN rca = 1 .. Rca /\ DOMAIN rca' = 1 .. Rca + 1
            BY <2>1, TakeIncidentKeepsTypes
        <3>2. rca \in Seq(DOMAIN Messages)
            BY DEF TypeOK
        <3> QED
            BY <3>1, <3>2 DEF Rca
    <2> QED
        BY <2>1, RcaGrows
<1>3. CASE stream' = stream
    <2>1. Len(stream) \in Nat /\ DOMAIN stream = 1 .. Len(stream)
        BY <1>1
    <2> QED
        BY <1>3, <1>2, <2>1
<1>4. ASSUME NEW m \in Message, stream' = Append(stream, m)
      PROVE  /\ Len(stream) \in Nat /\ Len(stream') \in Nat
             /\ DOMAIN stream = 1 .. Len(stream) /\ DOMAIN stream' = 1 .. Len(stream')
             /\ Len(stream) <= Len(stream')
             /\ \A k \in 1 .. Len(stream) : stream'[k] = stream[k]
    <2>1. /\ Len(stream) \in Nat /\ DOMAIN stream = 1 .. Len(stream)
          /\ Len(stream') = Len(stream) + 1 /\ DOMAIN stream' = 1 .. Len(stream) + 1
          /\ \A k \in 1 .. Len(stream) : stream'[k] = stream[k]
        BY <1>1, <1>4, AppendAdds
    <2> QED
        BY <2>1
<1> QED
    BY <1>2, <1>3, <1>4, StreamGrows

\* Only the investigation in hand publishes, and its sentinel ends its loop.
LEMMA StreamStep ==
    ASSUME TypeOK, ControlOK, OutcomeOK, StreamOK, [Next]_vars
    PROVE  StreamOK'
<1>1. /\ Len(stream) \in Nat /\ DOMAIN stream = 1 .. Len(stream)
      /\ \A k \in 1 .. Len(stream) : stream'[k] = stream[k]
      /\ DOMAIN rca \subseteq DOMAIN rca'
    BY StreamKept
<1>2. \A k \in 1 .. Len(stream) :
        /\ stream'[k].rca \in DOMAIN rca'
        /\ \A j \in 1 .. k - 1 : ~ (stream'[j].rca = stream'[k].rca /\ stream'[j].type = "complete")
    <2> SUFFICES ASSUME NEW k \in 1 .. Len(stream), NEW j \in 1 .. k - 1
                 PROVE  /\ stream'[k].rca \in DOMAIN rca'
                        /\ ~ (stream'[j].rca = stream'[k].rca /\ stream'[j].type = "complete")
        <3>1. \A k \in 1 .. Len(stream) : stream'[k].rca \in DOMAIN rca'
            BY <1>1 DEF StreamOK
        <3> QED
            BY <3>1
    <2>1. j \in 1 .. Len(stream)
        BY <1>1
    <2>2. stream'[k] = stream[k] /\ stream'[j] = stream[j]
        BY <1>1, <2>1
    <2> QED
        BY <1>1, <2>2 DEF StreamOK, IsSentinel
<1>3. CASE stream' = stream
    BY <1>1, <1>2, <1>3 DEF StreamOK, IsSentinel
<1>4. ASSUME attempt > 0, pc \notin {"save", "publish"}, rca' = rca,
             NEW m \in Message, m.rca = Rca, stream' = Append(stream, m)
      PROVE  StreamOK'
    <2>1. /\ DOMAIN stream' = 1 .. Len(stream) + 1 /\ stream'[Len(stream) + 1] = m
        <3>1. stream \in Seq(Message)
            BY DEF TypeOK
        <3> QED
            BY <1>4, <3>1, AppendAdds
    <2>2. \A j \in 1 .. Len(stream) : ~ (stream'[j].rca = Rca /\ stream'[j].type = "complete")
        BY <1>1, <1>4 DEF OutcomeOK, NoSuccess, IsSentinel
    <2>3. m.rca \in DOMAIN rca'
        <3>1. rca \in Seq(DOMAIN Messages)
            BY DEF TypeOK
        <3> QED
            BY <1>4, <3>1 DEF ControlOK, Rca
    <2> SUFFICES ASSUME NEW k \in 1 .. Len(stream) + 1
                 PROVE  /\ stream'[k].rca \in DOMAIN rca'
                        /\ \A j \in 1 .. k - 1 :
                            ~ (stream'[j].rca = stream'[k].rca /\ stream'[j].type = "complete")
        BY <2>1 DEF StreamOK, IsSentinel
    <2>4. CASE k \in 1 .. Len(stream)
        BY <1>2, <2>4
    <2>5. CASE k = Len(stream) + 1
        <3>1. 1 .. k - 1 = 1 .. Len(stream)
            BY <1>1, <2>5
        <3>2. stream'[k] = m /\ stream'[k].rca = Rca
            BY <1>4, <2>1, <2>5
        <3> QED
            BY <1>4, <2>2, <2>3, <3>1, <3>2
    <2> QED
        BY <1>1, <2>4, <2>5
<1> QED
    BY <1>3, <1>4, StreamGrows

\* The stream grows under the connections without a change of what they saw.
LEMMA ConnectionKept ==
    ASSUME TypeOK, ControlOK, ConnectionOK, [Next]_vars,
           NEW c \in Client, connection'[c] = connection[c]
    PROVE  /\ connection'[c].scanned <= Len(stream')
           /\ connection'[c].shown = {k \in 1 .. connection'[c].scanned :
                                        stream'[k].rca = connection'[c].rca}
           /\ connection'[c].end = "complete" =>
                /\ ~ connection'[c].open
                /\ connection'[c].scanned > 0
                /\ stream'[connection'[c].scanned].rca = connection'[c].rca
                /\ stream'[connection'[c].scanned].type = "complete"
<1>1. /\ Len(stream) \in Nat /\ Len(stream') \in Nat /\ Len(stream) <= Len(stream')
      /\ \A k \in 1 .. Len(stream) : stream'[k] = stream[k]
    BY StreamKept
<1>2. connection[c].scanned \in Nat
    BY DEF TypeOK, Connection
<1>3. connection[c].scanned <= Len(stream)
    BY DEF ConnectionOK
<1>4. \A k \in 1 .. connection[c].scanned : stream'[k] = stream[k]
    BY <1>1, <1>2, <1>3
<1>5. {k \in 1 .. connection[c].scanned : stream'[k].rca = connection[c].rca} =
      {k \in 1 .. connection[c].scanned : stream[k].rca = connection[c].rca}
    BY <1>4
<1>6. ASSUME connection[c].end = "complete"
      PROVE  /\ ~ connection[c].open
             /\ connection[c].scanned > 0
             /\ stream'[connection[c].scanned].rca = connection[c].rca
             /\ stream'[connection[c].scanned].type = "complete"
    <2>1. /\ ~ connection[c].open /\ connection[c].scanned > 0
          /\ IsSentinel(connection[c].scanned, connection[c].rca)
        BY <1>6 DEF ConnectionOK
    <2>2. connection[c].scanned \in 1 .. connection[c].scanned
        BY <1>2, <2>1
    <2>3. stream'[connection[c].scanned] = stream[connection[c].scanned]
        BY <1>4, <2>2
    <2> QED
        BY <2>1, <2>3 DEF IsSentinel
<1>7. connection[c].shown = {k \in 1 .. connection[c].scanned : stream[k].rca = connection[c].rca}
    BY DEF ConnectionOK
<1>8. connection[c].scanned <= Len(stream')
    BY <1>1, <1>2, <1>3
<1> QED
    BY <1>5, <1>6, <1>7, <1>8

\* OpenStream begins with an empty scan, and CloseStream forgets it.
LEMMA ReplacedConnection ==
    ASSUME TypeOK, NEW c \in Client,
           \/ \E r \in DOMAIN rca : OpenStream(c, r)
           \/ \E end \in {"timeout", "limit", "error"} : CloseStream(c, end)
    PROVE  /\ connection'[c].scanned = 0
           /\ connection'[c].shown = {}
           /\ connection'[c].end # "complete"
<1>1. connection \in [Client -> Connection]
    BY DEF TypeOK
<1>2. ASSUME NEW r \in DOMAIN rca, OpenStream(c, r)
      PROVE  /\ connection'[c].scanned = 0 /\ connection'[c].shown = {}
             /\ connection'[c].end # "complete"
    <2>1. connection[c] = NoConnection /\ connection[c] \in Connection
        BY <1>1, <1>2 DEF OpenStream
    <2>2. connection' = [connection EXCEPT ![c] = [@ EXCEPT !.rca = r, !.open = TRUE]]
        BY <1>1, <1>2, <2>1 DEF OpenStream, Connection
    <2> QED
        BY <1>1, <2>1, <2>2 DEF NoConnection
<1>3. ASSUME NEW end \in {"timeout", "limit", "error"}, CloseStream(c, end)
      PROVE  /\ connection'[c].scanned = 0 /\ connection'[c].shown = {}
             /\ connection'[c].end # "complete"
    BY <1>1, <1>3 DEF CloseStream, NoConnection
<1> QED
    BY <1>2, <1>3

\* ReadStream shows the next message if it is of the investigation, and stops
\* at its sentinel.
LEMMA ReadStreamScans ==
    ASSUME TypeOK, ControlOK, ConnectionOK, NEW c \in Client, ReadStream(c)
    PROVE  /\ stream' = stream
           /\ connection'[c].scanned <= Len(stream)
           /\ connection'[c].shown = {k \in 1 .. connection'[c].scanned :
                                        stream[k].rca = connection'[c].rca}
           /\ connection'[c].end = "complete" =>
                /\ ~ connection'[c].open
                /\ connection'[c].scanned > 0
                /\ IsSentinel(connection'[c].scanned, connection'[c].rca)
<1> DEFINE was == connection[c]
           offset == was.scanned + 1
           own == stream[offset].rca = was.rca
           last == own /\ stream[offset].type = "complete"
           now == [was EXCEPT
                    !.scanned = offset,
                    !.shown = IF own THEN @ \cup {offset} ELSE @,
                    !.open = ~last,
                    !.end = IF last THEN "complete" ELSE @]
<1>1. was \in Connection /\ offset \in Nat /\ was.scanned \in Nat
    BY DEF TypeOK, Connection
<1>2. connection' = [connection EXCEPT ![c] = now]
    BY <1>1 DEF ReadStream, TypeOK, Connection
<1>3. /\ was.open /\ was.scanned < Len(stream) /\ stream' = stream
    BY DEF ReadStream, GatewayStep
<1>4. was.end # "complete" /\ was.shown = {k \in 1 .. was.scanned : stream[k].rca = was.rca}
    BY <1>3 DEF ConnectionOK
<1>5. connection'[c] = now
    BY <1>2 DEF TypeOK
<1>6. /\ now.rca = was.rca /\ now.scanned = offset
      /\ now.shown = IF own THEN was.shown \cup {offset} ELSE was.shown
      /\ now.end = IF last THEN "complete" ELSE was.end
      /\ last => ~ now.open
    BY <1>1 DEF Connection
<1>7. Len(stream) \in Nat
    <2>1. stream \in Seq(Message)
        BY DEF TypeOK
    <2> QED
        BY <2>1
<1>8. now.shown = {k \in 1 .. offset : stream[k].rca = was.rca}
    <2>1. 1 .. offset = (1 .. was.scanned) \cup {offset}
        BY <1>1
    <2>2. CASE own
        BY <1>4, <1>6, <2>1, <2>2
    <2>3. CASE ~own
        BY <1>4, <1>6, <2>1, <2>3
    <2> QED
        BY <2>2, <2>3
<1>9. now.end = "complete" => last
    BY <1>4, <1>6
<1>10. now.scanned <= Len(stream) /\ now.scanned > 0
    BY <1>1, <1>3, <1>6, <1>7
<1> HIDE DEF now
<1> QED
    BY <1>3, <1>5, <1>6, <1>8, <1>9, <1>10 DEF IsSentinel

\* A connection that is scanned, opened or closed was shown its own messages.
LEMMA ConnectionStep ==
    ASSUME TypeOK, ControlOK, ConnectionOK, [Next]_vars
    PROVE  ConnectionOK'
<1> SUFFICES ASSUME NEW c \in Client
             PROVE  /\ connection'[c].scanned <= Len(stream')
                    /\ connection'[c].shown = {k \in 1 .. connection'[c].scanned :
                                                 stream'[k].rca = connection'[c].rca}
                    /\ connection'[c].end = "complete" =>
                        /\ ~ connection'[c].open
                        /\ connection'[c].scanned > 0
                        /\ stream'[connection'[c].scanned].rca = connection'[c].rca
                        /\ stream'[connection'[c].scanned].type = "complete"
    BY DEF ConnectionOK, IsSentinel
<1>1. CASE connection'[c] = connection[c]
    BY <1>1, ConnectionKept
<1>2. CASE ReadStream(c)
    BY <1>2, ReadStreamScans DEF IsSentinel
<1>3. CASE \/ \E r \in DOMAIN rca : OpenStream(c, r)
           \/ \E end \in {"timeout", "limit", "error"} : CloseStream(c, end)
    <2>1. /\ connection'[c].scanned = 0 /\ connection'[c].shown = {}
          /\ connection'[c].end # "complete"
        BY <1>3, ReplacedConnection
    <2>2. Len(stream') \in Nat
        BY StreamKept
    <2>3. 1 .. connection'[c].scanned = {}
        BY <2>1
    <2> QED
        BY <2>1, <2>2, <2>3
<1>4. CASE Agent
    <2>1. connection' = connection
        BY <1>4 DEF Agent, TakeIncident, TakeInvalid, TakeUndecodable, Take, RunAgent,
            AnswerWithToolCalls, RunTool, ParseNoArguments, Accept, AskAgain,
            FinishOtherwise, RunFails, Exhausted, RateLimited, Retry, CallLlm, RunStep,
            PublishComplete, SaveResult, PublishResult, PublishDlq, SaveFailure, TailStep
    <2> QED
        BY <1>1, <2>1
<1>5. CASE End \/ Start \/ UNCHANGED vars
    BY <1>1, <1>5 DEF End, Start, vars
<1>6. ASSUME NEW d \in Client,
             Gateway(d) \/ BreakStream(d) \/ \E r \in DOMAIN rca : OpenStream(d, r),
             connection'[c] # connection[c]
      PROVE  \/ ReadStream(c)
             \/ \E r \in DOMAIN rca : OpenStream(c, r)
             \/ \E end \in {"timeout", "limit", "error"} : CloseStream(c, end)
    <2>1. d = c
        BY <1>6, GatewayKeepsTypes
    <2> QED
        BY <1>6, <2>1 DEF Gateway, TimeOut, ReachLimit, BreakStream
<1> QED
    BY <1>1, <1>2, <1>3, <1>4, <1>5, <1>6 DEF Next

-----------------------------------------------------------------------------
(***************************************************************************)
(* The steps of an attempt, and the outcome of an investigation            *)
(***************************************************************************)

\* A new attempt starts without steps, and every iteration adds its own behind.
LEMMA StepsStep ==
    ASSUME TypeOK, ControlOK, StepsOK, [Next]_vars
    PROVE  StepsOK'
<1>1. ASSUME steps' = << >>
      PROVE  StepsOK'
    BY <1>1 DEF StepsOK
<1>2. ASSUME UNCHANGED <<steps, attempt>>, iteration <= iteration'
      PROVE  StepsOK'
    <2>1. \A k \in DOMAIN steps : steps[k].number \in Nat
        <3>1. steps \in Seq(ReasoningStep)
            BY DEF TypeOK
        <3>2. \A k \in DOMAIN steps : steps[k] \in ReasoningStep
            BY <3>1
        <3> QED
            BY <3>2 DEF ReasoningStep
    <2>2. iteration \in Nat /\ iteration' \in Nat
        BY TypeStep DEF TypeOK
    <2> QED
        BY <1>2, <2>1, <2>2 DEF StepsOK
<1>3. iteration \in Nat
    BY DEF TypeOK
<1>4. CASE TakeIncident
    BY <1>1, <1>4 DEF TakeIncident, FreshRun
<1>5. CASE TakeInvalid \/ TakeUndecodable
    BY <1>2, <1>3, <1>5 DEF TakeInvalid, TakeUndecodable, runVars
<1>6. CASE \/ AnswerWithToolCalls \/ Accept \/ AskAgain \/ FinishOtherwise \/ RunFails
           \/ RateLimited
    <2>1. UNCHANGED <<steps, attempt>> /\ iteration' = iteration + 1
        BY <1>6 DEF AnswerWithToolCalls, Accept, AskAgain, FinishOtherwise, RunFails,
                    RateLimited, CallLlm
    <2> QED
        BY <1>2, <1>3, <2>1
<1>7. CASE RunTool
    <2> DEFINE step == [attempt |-> attempt, number |-> iteration]
    <2>1. /\ steps' = Append(steps, step) /\ UNCHANGED <<attempt, iteration>>
        BY <1>7 DEF RunTool
    <2>2. step \in ReasoningStep
        <3>1. attempt \in Nat /\ iteration \in Nat
            BY DEF TypeOK
        <3> QED
            BY <3>1 DEF ReasoningStep
    <2>3. /\ Len(steps) \in Nat /\ DOMAIN steps = 1 .. Len(steps)
          /\ DOMAIN steps' = 1 .. Len(steps) + 1
          /\ \A k \in 1 .. Len(steps) : steps'[k] = steps[k]
          /\ steps'[Len(steps) + 1] = step
        <3>1. steps \in Seq(ReasoningStep)
            BY DEF TypeOK
        <3> QED
            BY <2>1, <2>2, <3>1, AppendAdds
    <2> SUFFICES ASSUME NEW k \in 1 .. Len(steps) + 1
                 PROVE  /\ steps'[k].attempt = attempt
                        /\ steps'[k].number <= iteration
                        /\ k > 1 => steps'[k - 1].number <= steps'[k].number
        BY <2>1, <2>3 DEF StepsOK
    <2>4. CASE k \in 1 .. Len(steps)
        <3>1. steps'[k] = steps[k] /\ (k > 1 => steps'[k - 1] = steps[k - 1])
            BY <2>3, <2>4
        <3> QED
            BY <2>3, <2>4, <3>1 DEF StepsOK
    <2>5. CASE k = Len(steps) + 1
        <3>1. steps'[k] = step
            BY <2>3, <2>5
        <3>2. ASSUME k > 1
              PROVE  steps'[k - 1].number <= iteration
            <4>1. k - 1 \in 1 .. Len(steps)
                BY <2>3, <2>5, <3>2
            <4>2. steps'[k - 1] = steps[k - 1]
                BY <2>3, <4>1
            <4> QED
                BY <2>3, <4>1, <4>2 DEF StepsOK
        <3> QED
            BY <1>3, <3>1, <3>2
    <2> QED
        BY <2>3, <2>4, <2>5
<1>8. CASE ParseNoArguments \/ Exhausted
    BY <1>2, <1>3, <1>8 DEF ParseNoArguments, Exhausted
<1>9. CASE Retry
    BY <1>1, <1>9 DEF Retry, FreshRun
<1>10. CASE PublishComplete \/ SaveResult
    BY <1>2, <1>3, <1>10 DEF PublishComplete, SaveResult, runVars
<1>11. CASE PublishResult \/ SaveFailure \/ End
    BY <1>1, <1>11 DEF PublishResult, SaveFailure, End, NoRun, FreshRun
<1>12. CASE PublishDlq
    BY <1>1, <1>2, <1>3, <1>12 DEF PublishDlq, NoRun, FreshRun, runVars
<1>13. CASE Start \/ UNCHANGED vars
    BY <1>2, <1>3, <1>13 DEF Start, vars, runVars
<1>14. ASSUME NEW c \in Client,
              Gateway(c) \/ BreakStream(c) \/ \E r \in DOMAIN rca : OpenStream(c, r)
       PROVE  StepsOK'
    <2>1. UNCHANGED <<steps, attempt, iteration>>
        BY <1>14, GatewayKeepsTypes DEF GatewayStep, runVars
    <2> QED
        BY <1>2, <1>3, <2>1
<1> QED
    BY <1>4, <1>5, <1>6, <1>7, <1>8, <1>9, <1>10, <1>11, <1>12, <1>13, <1>14
       DEF Next, Agent, RunAgent

\* No outcome changes while what tells of one stays.
LEMMA OutcomeFrame ==
    ASSUME OutcomeOK, OutcomesAgree,
           UNCHANGED <<rca, rows, results, dlq, stream>>,
           attempt' = 0 \/ UNCHANGED <<attempt, pc>>
    PROVE  OutcomeOK' /\ OutcomesAgree'
BY DEF OutcomeOK, OutcomesAgree, NoSuccess, IsSentinel, Rca

\* A fresh rca_id was never told of.
LEMMA TakeIncidentIsFresh ==
    ASSUME TypeOK, ControlOK, StreamOK, OutcomesAgree, TakeIncident
    PROVE  OutcomeOK' /\ OutcomesAgree'
<1>1. /\ Rca' = Rca + 1 /\ rows'[Rca + 1] = "none" /\ Rca \in Nat
      /\ DOMAIN rca = 1 .. Rca
      /\ \A r \in DOMAIN rca : rows'[r] = rows[r]
    <2>1. rca \in Seq(DOMAIN Messages)
        BY DEF TypeOK
    <2> QED
        BY <2>1, TakeIncidentKeepsTypes DEF Rca
<1>2. /\ attempt' = 1 /\ pc' = "llm"
      /\ UNCHANGED <<results, dlq, stream>>
    BY DEF TakeIncident, Take
<1>3. Rca + 1 \notin DOMAIN rca /\ Rca + 1 # NoRca
    BY <1>1 DEF NoRca
<1>4. /\ \A m \in results : m.rca \in DOMAIN rca
      /\ dlq \subseteq {NoRca} \cup DOMAIN rca
    BY DEF TypeOK
<1>5. \A k \in DOMAIN stream : stream[k].rca \in DOMAIN rca
    BY DEF StreamOK
<1>6. OutcomeOK'
    <2>1. /\ rows'[Rca'] # "success"
          /\ \A m \in results' : m.rca # Rca'
          /\ \A k \in DOMAIN stream' : ~ (stream'[k].rca = Rca' /\ stream'[k].type = "complete")
          /\ Rca' \notin dlq'
        BY <1>1, <1>2, <1>3, <1>4, <1>5
    <2> QED
        BY <2>1 DEF OutcomeOK, NoSuccess, IsSentinel
<1>7. OutcomesAgree'
    <2>1. \A r \in dlq \ {NoRca} : rows'[r] = rows[r]
        BY <1>1, <1>4
    <2> QED
        BY <1>2, <2>1 DEF OutcomesAgree
<1> QED
    BY <1>6, <1>7

\* The loop of the agent and publish_complete tell of nothing but a sentinel,
\* at the head of the tail of a success.
LEMMA RunKeepsOutcome ==
    ASSUME TypeOK, ControlOK, OutcomeOK, OutcomesAgree, RunAgent \/ PublishComplete
    PROVE  OutcomeOK' /\ OutcomesAgree'
<1>1. /\ UNCHANGED <<rca, rows, results, dlq>> /\ Rca' = Rca
    BY DEF RunAgent, AnswerWithToolCalls, RunTool, ParseNoArguments, Accept, AskAgain,
           FinishOtherwise, RunFails, Exhausted, RateLimited, Retry, PublishComplete,
           CallLlm, RunStep, storeVars, Rca
<1>2. /\ attempt > 0 /\ pc \notin {"save", "publish", "saveFailure"}
      /\ pc' # "saveFailure"
      /\ pc' \in {"save", "publish"} => PublishComplete
    BY DEF RunAgent, AnswerWithToolCalls, RunTool, ParseNoArguments, Accept, AskAgain,
           FinishOtherwise, RunFails, Exhausted, RateLimited, Retry, PublishComplete,
           CallLlm, RunStep, ControlOK
<1>3. NoSuccess(Rca) /\ Rca \notin dlq
    BY <1>2 DEF OutcomeOK
<1>4. ASSUME NEW k \in DOMAIN stream', stream'[k].type = "complete", stream'[k].rca # Rca
      PROVE  k \in DOMAIN stream /\ stream'[k] = stream[k]
    <2>1. [Next]_vars
        BY DEF Next, Agent
    <2>2. CASE stream' = stream
        BY <1>4, <2>2
    <2>3. ASSUME NEW m \in Message, m.rca = Rca, stream' = Append(stream, m)
          PROVE  k \in DOMAIN stream /\ stream'[k] = stream[k]
        <3>1. stream \in Seq(Message)
            BY DEF TypeOK
        <3>2. /\ DOMAIN stream = 1 .. Len(stream) /\ Len(stream) \in Nat
              /\ DOMAIN stream' = 1 .. Len(stream) + 1
              /\ \A j \in 1 .. Len(stream) : stream'[j] = stream[j]
              /\ stream'[Len(stream) + 1] = m
            BY <2>3, <3>1, AppendAdds
        <3> QED
            BY <1>4, <2>3, <3>2
    <2> QED
        BY <2>1, <2>2, <2>3, StreamGrows
<1>5. OutcomesAgree'
    <2> SUFFICES ASSUME NEW r \in dlq \ {NoRca}, NEW k \in DOMAIN stream'
                 PROVE  stream'[k] # Complete(r)
        BY <1>1 DEF OutcomesAgree
    <2>1. CASE stream'[k].rca = Rca
        BY <1>3, <2>1 DEF Complete
    <2>2. CASE stream'[k].type # "complete"
        BY <2>2 DEF Complete
    <2>3. CASE stream'[k].rca # Rca /\ stream'[k].type = "complete"
        BY <1>4, <2>3 DEF OutcomesAgree
    <2> QED
        BY <2>1, <2>2, <2>3
<1>6. OutcomeOK'
    <2>1. Rca' \notin dlq'
        BY <1>1, <1>3
    <2>2. CASE PublishComplete
        <3>1. pc' = "save"
            BY <2>2 DEF PublishComplete
        <3> QED
            BY <2>1, <3>1 DEF OutcomeOK
    <2>3. CASE ~ PublishComplete
        <3>1. \A k \in DOMAIN stream' :
                ~ (stream'[k].rca = Rca /\ stream'[k].type = "complete")
            <4>1. [Next]_vars
                BY DEF Next, Agent
            <4>2. \A k \in DOMAIN stream :
                    ~ (stream[k].rca = Rca /\ stream[k].type = "complete")
                BY <1>3 DEF NoSuccess, IsSentinel
            <4>3. CASE stream' = stream
                BY <4>2, <4>3
            <4>4. ASSUME NEW m \in Message, m.type # "complete", stream' = Append(stream, m)
                  PROVE  \A k \in DOMAIN stream' :
                            ~ (stream'[k].rca = Rca /\ stream'[k].type = "complete")
                <5>1. stream \in Seq(Message)
                    BY DEF TypeOK
                <5>2. /\ DOMAIN stream = 1 .. Len(stream) /\ Len(stream) \in Nat
                      /\ DOMAIN stream' = 1 .. Len(stream) + 1
                      /\ \A j \in 1 .. Len(stream) : stream'[j] = stream[j]
                      /\ stream'[Len(stream) + 1] = m
                    BY <4>4, <5>1, AppendAdds
                <5> QED
                    BY <4>2, <4>4, <5>2
            <4> QED
                BY <2>3, <4>1, <4>3, <4>4, StreamGrows
        <3>2. rows'[Rca'] # "success" /\ \A m \in results' : m.rca # Rca'
            BY <1>1, <1>3 DEF NoSuccess
        <3> QED
            BY <1>1, <2>1, <3>1, <3>2 DEF OutcomeOK, NoSuccess, IsSentinel
    <2> QED
        BY <2>2, <2>3
<1> QED
    BY <1>5, <1>6

\* The tail writes rows, results and dead letters on one of two ways only.
LEMMA TailKeepsOutcome ==
    ASSUME TypeOK, ControlOK, OutcomeOK, StepsOK, OutcomesAgree,
           SaveResult \/ PublishResult \/ PublishDlq \/ SaveFailure
    PROVE  OutcomeOK' /\ OutcomesAgree'
<1>1. UNCHANGED <<rca, stream>> /\ Rca' = Rca
    BY DEF SaveResult, PublishResult, PublishDlq, SaveFailure, TailStep, Rca
<1>2. \A r \in DOMAIN rca : r # Rca => rows'[r] = rows[r]
    BY DEF SaveResult, PublishResult, PublishDlq, SaveFailure, TypeOK
<1>3. dlq \subseteq {NoRca} \cup DOMAIN rca
    BY DEF TypeOK
<1>4. CASE SaveResult
    <2>1. /\ pc = "save" /\ pc' = "publish" /\ UNCHANGED <<attempt, results, dlq>>
        BY <1>4 DEF SaveResult, runVars
    <2>2. Rca \notin dlq
        BY <2>1 DEF OutcomeOK, ControlOK
    <2>3. \A r \in dlq \ {NoRca} : rows'[r] = rows[r]
        BY <1>2, <1>3, <2>2
    <2> QED
        BY <1>1, <2>1, <2>2, <2>3 DEF OutcomeOK, OutcomesAgree
<1>5. CASE PublishResult
    <2>1. /\ pc = "publish" /\ attempt' = 0 /\ UNCHANGED <<rows, dlq>>
          /\ results' \in {results \union {ResultOf}, results}
        BY <1>5 DEF PublishResult, NoRun
    <2>2. Rca \notin dlq
        BY <2>1 DEF OutcomeOK, ControlOK
    <2>3. /\ ResultOf.rca = Rca /\ ResultOf.attempt = attempt /\ ResultOf.steps = steps
        BY DEF ResultOf
    <2>4. \A k \in DOMAIN steps :
            /\ steps[k].attempt = attempt
            /\ k > 1 => steps[k - 1].number <= steps[k].number
        BY DEF StepsOK
    <2>5. \A m \in results' : \A k \in DOMAIN m.steps :
            /\ m.steps[k].attempt = m.attempt
            /\ k > 1 => m.steps[k - 1].number <= m.steps[k].number
        <3> SUFFICES ASSUME NEW m \in results'
                     PROVE  \A k \in DOMAIN m.steps :
                                /\ m.steps[k].attempt = m.attempt
                                /\ k > 1 => m.steps[k - 1].number <= m.steps[k].number
            OBVIOUS
        <3>1. CASE m \in results
            BY <3>1 DEF OutcomesAgree
        <3>2. CASE m = ResultOf
            BY <2>3, <2>4, <3>2
        <3> QED
            BY <2>1, <3>1, <3>2
    <2>6. \A m \in results' : m \in results \/ m.rca = Rca
        BY <2>1, <2>3
    <2>7. OutcomesAgree'
        BY <1>1, <2>1, <2>2, <2>5, <2>6 DEF OutcomesAgree
    <2> QED
        BY <2>1, <2>7 DEF OutcomeOK
<1>6. CASE PublishDlq
    <2>1. /\ pc = "dlq" /\ UNCHANGED <<rows, results>>
          /\ dlq' \in {dlq \union {IF attempt = 0 THEN NoRca ELSE Rca}, dlq}
        BY <1>6 DEF PublishDlq
    <2>2. CASE attempt = 0
        <3>1. attempt' = 0 /\ dlq' \ {NoRca} = dlq \ {NoRca}
            BY <1>6, <2>1, <2>2 DEF PublishDlq, NoRun
        <3> QED
            BY <1>1, <2>1, <3>1 DEF OutcomeOK, OutcomesAgree
    <2>3. CASE attempt # 0
        <3>1. pc' = "saveFailure" /\ attempt' = attempt
            BY <1>6, <2>3 DEF PublishDlq, runVars
        <3>2. attempt > 0
            BY <2>3 DEF TypeOK
        <3>3. NoSuccess(Rca)
            BY <2>1, <3>2 DEF OutcomeOK
        <3>4. \A r \in dlq' : r \in dlq \/ r = Rca
            BY <2>1, <2>3
        <3>5. OutcomeOK'
            BY <1>1, <2>1, <3>1, <3>3 DEF OutcomeOK, NoSuccess, IsSentinel
        <3>6. OutcomesAgree'
            <4> SUFFICES ASSUME NEW r \in dlq' \ {NoRca}
                         PROVE  /\ rows[r] # "success"
                                /\ \A m \in results : m.rca # r
                                /\ \A k \in DOMAIN stream : stream[k] # Complete(r)
                BY <1>1, <2>1 DEF OutcomesAgree
            <4>1. CASE r \in dlq
                BY <4>1 DEF OutcomesAgree
            <4>2. CASE r = Rca
                BY <3>3, <4>2 DEF NoSuccess, IsSentinel, Complete
            <4> QED
                BY <3>4, <4>1, <4>2
        <3> QED
            BY <3>5, <3>6
    <2> QED
        BY <2>2, <2>3
<1>7. CASE SaveFailure
    <2>1. /\ attempt' = 0 /\ UNCHANGED <<results, dlq>> /\ pc = "saveFailure"
          /\ rows' \in {[rows EXCEPT ![Rca] = "failed"], rows}
        BY <1>7 DEF SaveFailure, NoRun
    <2>2. \A r \in dlq \ {NoRca} : rows'[r] = rows[r] \/ rows'[r] = "failed"
        BY <1>3, <2>1 DEF TypeOK
    <2> QED
        BY <1>1, <2>1, <2>2 DEF OutcomeOK, OutcomesAgree
<1> QED
    BY <1>4, <1>5, <1>6, <1>7

\* An investigation that has succeeded by one of the four tellings never fails
\* by another.
LEMMA OutcomeStep ==
    ASSUME IInv, [Next]_vars
    PROVE  OutcomeOK' /\ OutcomesAgree'
<1> USE DEF IInv
<1>1. CASE TakeIncident
    BY <1>1, TakeIncidentIsFresh
<1>2. CASE TakeInvalid \/ TakeUndecodable
    <2>1. /\ attempt' = attempt /\ UNCHANGED <<rca, rows, results, dlq, stream>>
        BY <1>2 DEF TakeInvalid, TakeUndecodable, Take, runVars
    <2>2. attempt = 0
        BY <1>2 DEF TakeInvalid, TakeUndecodable, Take, ControlOK
    <2> QED
        BY <2>1, <2>2, OutcomeFrame
<1>3. CASE RunAgent \/ PublishComplete
    BY <1>3, RunKeepsOutcome
<1>4. CASE SaveResult \/ PublishResult \/ PublishDlq \/ SaveFailure
    BY <1>4, TailKeepsOutcome
<1>5. CASE End
    <2>1. attempt' = 0 /\ UNCHANGED <<rca, rows, results, dlq, stream>>
        BY <1>5 DEF End, NoRun, storeVars
    <2> QED
        BY <2>1, OutcomeFrame
<1>6. CASE Start \/ UNCHANGED vars
    <2>1. UNCHANGED <<attempt, pc, rca, rows, results, dlq, stream>>
        BY <1>6 DEF Start, vars, runVars, storeVars
    <2> QED
        BY <2>1, OutcomeFrame
<1>7. ASSUME NEW c \in Client,
             Gateway(c) \/ BreakStream(c) \/ \E r \in DOMAIN rca : OpenStream(c, r)
      PROVE  OutcomeOK' /\ OutcomesAgree'
    <2>1. UNCHANGED <<attempt, pc, rca, rows, results, dlq, stream>>
        BY <1>7, GatewayKeepsTypes DEF GatewayStep, runVars, storeVars
    <2> QED
        BY <2>1, OutcomeFrame
<1> QED
    BY <1>1, <1>2, <1>3, <1>4, <1>5, <1>6, <1>7 DEF Next, Agent

-----------------------------------------------------------------------------
(***************************************************************************)
(* Theorems                                                                *)
(***************************************************************************)

\* The strengthened invariant holds in every reachable state.
THEOREM InductiveInvariant == Spec => []IInv
<1>1. Init => IInv
    <2> SUFFICES ASSUME Init
                 PROVE  IInv
        OBVIOUS
    <2>1. /\ attempt = 0 /\ steps = << >> /\ stream = << >> /\ results = {} /\ dlq = {}
          /\ connection = [c \in Client |-> NoConnection]
        BY DEF Init
    <2>2. OutcomeOK /\ StepsOK /\ StreamOK /\ OutcomesAgree
        BY <2>1 DEF OutcomeOK, StepsOK, StreamOK, OutcomesAgree
    <2>3. ConnectionOK
        BY <2>1 DEF ConnectionOK, NoConnection
    <2> QED
        BY <2>2, <2>3, TypeInit DEF IInv
<1>2. IInv /\ [Next]_vars => IInv'
    BY TypeStep, OutcomeStep, StepsStep, StreamStep, ConnectionStep DEF IInv
<1> QED
    BY <1>1, <1>2, PTL DEF Spec

\* _process_message ends an investigation in one way: what the sentinel, the
\* row, the result and the dead letter say of it never contradicts, however
\* calls fail, attempts are repeated and messages delivered again, and a result
\* has the steps of its own attempt only.
THEOREM InvestigationsHaveOneOutcome == Spec => []OutcomesAgree
<1>1. IInv => OutcomesAgree
    BY DEF IInv
<1> QED
    BY <1>1, InductiveInvariant, PTL

\* A browser whose stream ended by the sentinel was sent everything the topic
\* holds of its investigation: nothing follows a sentinel, and event_generator
\* leaves out nothing before it.
THEOREM CompleteStreamsAreWhole == Spec => []CompleteStreamIsWhole
<1>1. IInv => CompleteStreamIsWhole
    <2> SUFFICES ASSUME IInv, NEW c \in Client, connection[c].end = "complete"
                 PROVE  connection[c].shown = Own(connection[c].rca)
        BY DEF CompleteStreamIsWhole
    <2> DEFINE n == connection[c].scanned
               r == connection[c].rca
    <2>1. n \in Nat /\ n > 0 /\ n <= Len(stream) /\ IsSentinel(n, r)
        BY DEF IInv, ConnectionOK, TypeOK, Connection
    <2>2. Len(stream) \in Nat /\ DOMAIN stream = 1 .. Len(stream)
        <3>1. stream \in Seq(Message)
            BY DEF IInv, TypeOK
        <3> QED
            BY <3>1
    <2>3. connection[c].shown = {k \in 1 .. n : stream[k].rca = r}
        BY DEF IInv, ConnectionOK
    <2> HIDE DEF n, r
    <2>4. ASSUME NEW k \in DOMAIN stream, stream[k].rca = r
          PROVE  k \in 1 .. n
        <3>1. \A j \in 1 .. k - 1 : ~ IsSentinel(j, r)
            BY <2>4 DEF IInv, StreamOK
        <3> QED
            BY <2>1, <2>2, <3>1
    <2>5. 1 .. n \subseteq DOMAIN stream
        BY <2>1, <2>2
    <2>6. {k \in 1 .. n : stream[k].rca = r} = {k \in DOMAIN stream : stream[k].rca = r}
        BY <2>4, <2>5
    <2> QED
        BY <2>3, <2>6 DEF Own, r
<1> QED
    BY <1>1, InductiveInvariant, PTL

-----------------------------------------------------------------------------
(*****************************************************************************)
(* Folds of finite sets, and places in an order                              *)
(*****************************************************************************)

\* Every set of naturals has a least element.
LEMMA LeastNatural ==
    ASSUME NEW S \in SUBSET Nat, S # {}
    PROVE  \E x \in S : \A y \in S : x <= y
<1>1. PICK R : IsWellFoundedOn(R, Nat) /\ \A x, y \in Nat : x < y => <<x, y>> \in R
    <2>1. \A x, y \in Nat : x < y => <<x, y>> \in OpToRel(<, Nat)
        BY DEF OpToRel
    <2> QED
        BY <2>1, NatLessThanWellFounded, Zenon
<1>2. IsWellFoundedOn(R, Nat) /\ S \subseteq Nat
    BY <1>1
<1>3. \E x \in S : \A y \in S : ~ (<<y, x>> \in R)
    BY ONLY <1>2, S # {}, WFMin, Zenon
<1>4. PICK x \in S : \A y \in S : ~ (<<y, x>> \in R)
    BY <1>3
<1>5. \A y \in S : ~ (y < x)
    BY <1>1, <1>4
<1>6. \A y \in S : x <= y
    BY <1>5
<1> QED
    BY <1>6

\* Induction, for a set of naturals.
LEMMA AllNaturals ==
    ASSUME NEW N \in SUBSET Nat, 0 \in N, \A n \in N : n + 1 \in N
    PROVE  N = Nat
<1> SUFFICES ASSUME Nat \ N # {}
             PROVE  FALSE
    OBVIOUS
<1>1. PICK n \in Nat \ N : \A m \in Nat \ N : n <= m
    BY LeastNatural
<1>2. n # 0 /\ n - 1 \in Nat /\ (n - 1) + 1 = n
    BY <1>1
<1>3. n - 1 \in N
    BY <1>1, <1>2
<1> QED
    BY <1>1, <1>2, <1>3

\* The element that a fold takes from a set.
Chosen(s) == CHOOSE x \in s : TRUE

\* Induction over the subsets of a finite set, along a fold.
LEMMA AllSubsets ==
    ASSUME NEW S, IsFiniteSet(S), NEW G \in SUBSET SUBSET S, {} \in G,
           \A s \in SUBSET S : s # {} /\ s \ {Chosen(s)} \in G => s \in G
    PROVE  G = SUBSET S
<1> DEFINE N == {n \in Nat : \A s \in SUBSET S : Cardinality(s) <= n => s \in G}
<1>1. \A s \in SUBSET S : IsFiniteSet(s) /\ Cardinality(s) \in Nat
    BY FS_Subset, FS_CardinalityType
<1>2. 0 \in N
    <2>1. \A s \in SUBSET S : Cardinality(s) <= 0 => s = {}
        BY <1>1, FS_EmptySet
    <2> QED
        BY <2>1
<1>3. ASSUME NEW n \in N
      PROVE  n + 1 \in N
    <2> SUFFICES ASSUME NEW s \in SUBSET S, Cardinality(s) <= n + 1
                 PROVE  s \in G
        OBVIOUS
    <2>1. CASE s = {}
        BY <2>1
    <2>2. CASE s # {}
        <3>1. Chosen(s) \in s
            BY <2>2 DEF Chosen
        <3>2. Cardinality(s \ {Chosen(s)}) = Cardinality(s) - 1
            BY <1>1, <3>1, FS_RemoveElement
        <3>3. s \ {Chosen(s)} \in SUBSET S /\ Cardinality(s \ {Chosen(s)}) <= n
            BY <1>1, <3>2
        <3>4. s \ {Chosen(s)} \in G
            BY <3>3
        <3> QED
            BY <2>2, <3>4
    <2> QED
        BY <2>1, <2>2
<1>4. N = Nat
    <2> HIDE DEF N
    <2>1. N \in SUBSET Nat
        BY DEF N
    <2> QED
        BY <1>2, <1>3, <2>1, AllNaturals
<1>5. Cardinality(S) \in N
    BY <1>1, <1>4
<1> QED
    BY <1>1, <1>5, FS_Subset

\* g is what a fold of h over the subsets of S is, from base, in V.
IsFold(g, S, V, base, h) ==
    /\ g \in [SUBSET S -> V]
    /\ \A s \in SUBSET S :
        g[s] = IF s = {} THEN base ELSE h[<<Chosen(s), g[s \ {Chosen(s)}]>>]

\* A fold that stays within a set V is defined.
LEMMA FoldIsDefined ==
    ASSUME NEW S, IsFiniteSet(S), NEW V, NEW base \in V, NEW h \in [S \X V -> V]
    PROVE  \E g : IsFold(g, S, V, base, h)
<1> DEFINE Small(n) == {s \in SUBSET S : Cardinality(s) <= n}
           Step(g, s) == IF s = {} THEN base ELSE h[<<Chosen(s), g[s \ {Chosen(s)}]>>]
           Folds(g, n) == \A s \in Small(n) : g[s] = Step(g, s)
           N == {n \in Nat : \E g \in [Small(n) -> V] : Folds(g, n)}
<1>1. \A s \in SUBSET S : IsFiniteSet(s) /\ Cardinality(s) \in Nat
    BY FS_Subset, FS_CardinalityType
<1>2. ASSUME NEW n \in Nat, NEW s \in Small(n + 1), s # {}
      PROVE  Chosen(s) \in S /\ s \ {Chosen(s)} \in Small(n)
    <2>1. Chosen(s) \in s
        BY <1>2 DEF Chosen
    <2>2. Cardinality(s \ {Chosen(s)}) = Cardinality(s) - 1
        BY <1>1, <2>1, FS_RemoveElement
    <2> QED
        BY <1>1, <2>1, <2>2
<1>3. 0 \in N
    <2>1. \A s \in Small(0) : s = {}
        BY <1>1, FS_EmptySet
    <2>2. Folds([s \in Small(0) |-> base], 0)
        BY <2>1
    <2> QED
        BY <2>2
<1>4. ASSUME NEW n \in N
      PROVE  n + 1 \in N
    <2>1. PICK g \in [Small(n) -> V] : Folds(g, n)
        OBVIOUS
    <2> DEFINE f == [s \in Small(n + 1) |-> Step(g, s)]
    <2>2. Small(n) \subseteq Small(n + 1)
        BY <1>1
    <2>3. f \in [Small(n + 1) -> V]
        <3> SUFFICES ASSUME NEW s \in Small(n + 1)
                     PROVE  Step(g, s) \in V
            OBVIOUS
        <3> QED
            BY <1>2
    <2>4. \A s \in Small(n) : f[s] = g[s]
        BY <2>1, <2>2
    <2>5. Folds(f, n + 1)
        <3> SUFFICES ASSUME NEW s \in Small(n + 1)
                     PROVE  f[s] = Step(f, s)
            OBVIOUS
        <3>1. CASE s = {}
            BY <3>1
        <3>2. CASE s # {}
            BY <1>2, <2>4, <3>2
        <3> QED
            BY <3>1, <3>2
    <2> HIDE DEF f
    <2>6. \E e \in [Small(n + 1) -> V] : Folds(e, n + 1)
        BY <2>3, <2>5
    <2>7. n + 1 \in Nat
        OBVIOUS
    <2> HIDE DEF Small, Folds
    <2> QED
        BY <2>6, <2>7
<1>5. N = Nat
    <2> HIDE DEF N
    <2>1. N \in SUBSET Nat
        BY DEF N
    <2> QED
        BY <1>3, <1>4, <2>1, AllNaturals
<1>6. PICK g \in [Small(Cardinality(S)) -> V] : Folds(g, Cardinality(S))
    BY <1>1, <1>5
<1>7. Small(Cardinality(S)) = SUBSET S
    BY FS_Subset
<1> QED
    BY <1>6, <1>7 DEF IsFold

\* f follows the recursion of the fold, where that stays in V.
Follows(f, S, V, base, h) ==
    /\ f[{}] = base
    /\ \A s \in SUBSET S : s # {} /\ f[s \ {Chosen(s)}] \in V =>
        f[s] = h[<<Chosen(s), f[s \ {Chosen(s)}]>>]

\* What follows the recursion of a fold has its value.
LEMMA FoldIsUnique ==
    ASSUME NEW S, IsFiniteSet(S), NEW V, NEW base \in V, NEW h, NEW g, NEW f,
           IsFold(g, S, V, base, h),
           Follows(f, S, V, base, h)
    PROVE  f[S] = g[S]
<1> DEFINE G == {s \in SUBSET S : f[s] = g[s]}
<1>1. {} \in G
    BY DEF IsFold, Follows
<1>2. ASSUME NEW s \in SUBSET S, s # {}, s \ {Chosen(s)} \in G
      PROVE  s \in G
    <2>1. s \ {Chosen(s)} \in SUBSET S
        OBVIOUS
    <2>2. g[s \ {Chosen(s)}] \in V
        BY <2>1 DEF IsFold
    <2>3. f[s \ {Chosen(s)}] = g[s \ {Chosen(s)}]
        BY <1>2
    <2>4. g[s] = h[<<Chosen(s), g[s \ {Chosen(s)}]>>]
        BY <1>2 DEF IsFold
    <2> QED
        BY <1>2, <2>2, <2>3, <2>4 DEF Follows
<1> HIDE DEF G
<1>3. G \in SUBSET SUBSET S
    BY DEF G
<1>4. G = SUBSET S
    BY <1>1, <1>2, <1>3, AllSubsets
<1> QED
    BY <1>4 DEF G

\* R is a strict total order on I.
StrictOrder(I, R) ==
    /\ R \in SUBSET (I \X I)
    /\ \A i \in I : <<i, i>> \notin R
    /\ \A i, j, k \in I : <<i, j>> \in R /\ <<j, k>> \in R => <<i, k>> \in R
    /\ \A i, j \in I : i = j \/ <<i, j>> \in R \/ <<j, i>> \in R

\* The place of every element: behind all that are before it in R.
Places(I, R) == [i \in I |-> 1 + Cardinality({j \in I : <<j, i>> \in R})]

\* The places in a finite set are 1, 2, ..., each taken once, in that order.
LEMMA PlacesAreTaken ==
    ASSUME NEW I, IsFiniteSet(I), NEW R, StrictOrder(I, R)
    PROVE  /\ Cardinality(I) \in Nat
           /\ \A i \in I : Places(I, R)[i] \in 1 .. Cardinality(I)
           /\ \A i, j \in I : <<i, j>> \in R => Places(I, R)[i] < Places(I, R)[j]
           /\ \A i, j \in I : Places(I, R)[i] = Places(I, R)[j] => i = j
           /\ \A p \in 1 .. Cardinality(I) : \E i \in I : Places(I, R)[i] = p
<1> DEFINE place == Places(I, R)
<1>0. /\ place = [i \in I |-> 1 + Cardinality({j \in I : <<j, i>> \in R})]
      /\ \A i \in I : <<i, i>> \notin R
      /\ \A i, j, k \in I : <<i, j>> \in R /\ <<j, k>> \in R => <<i, k>> \in R
      /\ \A i, j \in I : i = j \/ <<i, j>> \in R \/ <<j, i>> \in R
    BY DEF StrictOrder, Places
<1> HIDE DEF place
<1> DEFINE Below(i) == {j \in I : <<j, i>> \in R}
           n == Cardinality(I)
<1>1. \A T \in SUBSET I : IsFiniteSet(T) /\ Cardinality(T) \in Nat
    BY FS_Subset, FS_CardinalityType
<1>2. ASSUME NEW T \in SUBSET I, NEW U \in SUBSET T, T # U
      PROVE  Cardinality(U) < Cardinality(T)
    <2>1. Cardinality(U) <= Cardinality(T) /\ Cardinality(U) # Cardinality(T)
        BY <1>1, <1>2, FS_Subset
    <2> QED
        BY <1>1, <2>1
<1>3. n \in Nat
    BY <1>1
<1>4. \A i \in I : place[i] = 1 + Cardinality(Below(i)) /\ Cardinality(Below(i)) \in Nat
    BY <1>0, <1>1
<1>5. ASSUME NEW i \in I
      PROVE  place[i] \in 1 .. n
    <2>1. i \notin Below(i) /\ Below(i) \in SUBSET I
        BY <1>0
    <2>2. Cardinality(Below(i)) < n
        BY <1>2, <2>1
    <2> QED
        BY <1>3, <1>4, <2>2
<1>6. ASSUME NEW i \in I, NEW j \in I, <<i, j>> \in R
      PROVE  place[i] < place[j]
    <2>1. Below(i) \in SUBSET Below(j) /\ Below(j) \in SUBSET I
        BY <1>0, <1>6
    <2>2. i \in Below(j) /\ i \notin Below(i)
        BY <1>0, <1>6
    <2>3. Cardinality(Below(i)) < Cardinality(Below(j))
        BY <1>2, <2>1, <2>2
    <2> QED
        BY <1>4, <2>3
<1>7. \A i, j \in I : place[i] = place[j] => i = j
    <2> SUFFICES ASSUME NEW i \in I, NEW j \in I, place[i] = place[j]
                 PROVE  i = j
        OBVIOUS
    <2>1. place[i] \in Nat /\ place[j] \in Nat
        <3> HIDE DEF Below
        <3> QED
            BY <1>4
    <2>2. ~ (place[i] < place[j]) /\ ~ (place[j] < place[i])
        BY <2>1
    <2> QED
        BY <1>0, <1>6, <2>2
<1>8. place \in Injection(I, 1 .. n)
    <2>1. place \in [I -> 1 .. n]
        BY <1>0, <1>5
    <2> QED
        BY <1>7, <2>1 DEF Injection, IsInjective
<1>9. IsFiniteSet(1 .. n) /\ Cardinality(1 .. n) = n
    BY <1>3, FS_Interval
<1>10. place \in Surjection(I, 1 .. n)
    BY <1>8, <1>9, FS_Injection
<1>11. \A p \in 1 .. n : \E i \in I : place[i] = p
    BY <1>10 DEF Surjection
<1> QED
    BY <1>3, <1>5, <1>6, <1>7, <1>11 DEF place

-----------------------------------------------------------------------------
(***************************************************************************)
(* The knowledge base: the inductive invariant                             *)
(***************************************************************************)

\* The first m of the seeded incidents of t, as transaction n inserts them.
Seeded(t, m, n) == {t} \X (1 .. m) \X {n}

\* The script is between two incidents of t.
Midway(t) == Seeding /\ seeder.next > 1 /\ Tenants[seeder.tenant] = t

\* The script has a transaction while it runs, and is midway only through a
\* tenant's incidents.
SeederOK ==
    /\ seeder.tenant = 0 => seeder = NotSeeding
    /\ seeder.tenant # 0 => seeder.tx \in 1 .. begun
    /\ seeder.next \in 1 .. Incidents
    /\ seeder.next > 1 => Seeding

\* Its transaction has all incidents of a tenant, none, or the first ones of
\* the tenant in hand; and only of tenants that have none in the table.
SeederRowsOK ==
    \A t \in Tenant :
        /\ Midway(t) => Of(t, seeder.rows) = Seeded(t, seeder.next - 1, seeder.tx)
        /\ ~ Midway(t) => Of(t, seeder.rows) \in {{}, Seeded(t, Incidents, seeder.tx)}
        /\ Of(t, seeder.rows) # {} => Of(t, pastIncidents) \ Learned = {}

\* A learned document is added after its row, and a corpus was read from the
\* table; rows are never deleted.
BackedOK ==
    /\ learning \subseteq pastIncidents
    /\ docs \cap Learned \subseteq pastIncidents
    /\ \A t \in DOMAIN corpus : corpus[t] \subseteq Of(t, pastIncidents)

\* A hit, as a stage gives it.
Hit == [id : Incident \cup {Nameless}, of : Incident]

\* A list of hits as a stage of the search returns it: at most TopK different
\* incidents, and of those only learned ones go without their id.
Ranking(list) ==
    /\ \E n \in 0 .. TopK : list \in [1 .. n -> Hit]
    /\ \A r \in DOMAIN list :
        list[r].id = list[r].of \/ (list[r].id = Nameless /\ list[r].of \in Learned)
    /\ \A q, r \in DOMAIN list : list[q].of = list[r].of => q = r

\* The lists that an answer was fused from.
RankingsOK == answer # Silent => Ranking(answer.bm25) /\ Ranking(answer.vector)

KnowledgeInv ==
    /\ KnowledgeTypeOK
    /\ SeederOK
    /\ SeederRowsOK
    /\ SeededOnce
    /\ BackedOK
    /\ RankingsOK
    /\ AnswersAreBacked

-----------------------------------------------------------------------------
(***************************************************************************)
(* The knowledge base: sets of incidents and what searches find            *)
(***************************************************************************)

\* Sets of incidents of one tenant are finite.
LEMMA TenantIsFinite ==
    ASSUME NEW t \in Tenant, NEW S \in SUBSET Incident
    PROVE  IsFiniteSet(Of(t, S))
<1> DEFINE P == (0 .. Incidents) \X (1 .. MaxTransactions)
           T == {t} \X (0 .. Incidents) \X (1 .. MaxTransactions)
           f == [p \in P |-> <<t, p[1], p[2]>>]
<1>1. IsFiniteSet(0 .. Incidents) /\ IsFiniteSet(1 .. MaxTransactions)
    BY FS_Interval, KnowledgeBaseAssumption
<1>2. IsFiniteSet(P)
    BY <1>1, FS_Product
<1>3. f \in Surjection(P, T)
    <2>1. f \in [P -> T]
        OBVIOUS
    <2>2. ASSUME NEW x \in T
          PROVE  \E p \in P : f[p] = x
        <3>1. <<x[2], x[3]>> \in P /\ x = <<t, x[2], x[3]>>
            OBVIOUS
        <3>2. f[<<x[2], x[3]>>] = <<t, x[2], x[3]>>
            BY <3>1
        <3> QED
            BY <3>1, <3>2
    <2> QED
        BY <2>1, <2>2 DEF Surjection
<1>4. IsFiniteSet(T)
    <2> HIDE DEF P, T, f
    <2> QED
        BY <1>2, <1>3, FS_Surjection
<1>5. Of(t, S) \in SUBSET T
    BY DEF Of, Incident
<1> QED
    <2> HIDE DEF P, T, f
    <2> QED
        BY <1>4, <1>5, FS_Subset

\* A tenant's seeded incidents are as many as the script's.
LEMMA SeededAreEnough ==
    ASSUME NEW t, NEW n
    PROVE  /\ IsFiniteSet(Seeded(t, Incidents, n))
           /\ Cardinality(Seeded(t, Incidents, n)) = Incidents
<1> DEFINE T == Seeded(t, Incidents, n)
           f == [i \in 1 .. Incidents |-> <<t, i, n>>]
<1>1. f \in Bijection(1 .. Incidents, T)
    <2>1. f \in [1 .. Incidents -> T]
        BY DEF Seeded
    <2>2. \A i, j \in 1 .. Incidents : f[i] = f[j] => i = j
        OBVIOUS
    <2>3. \A x \in T : \E i \in 1 .. Incidents : f[i] = x
        BY DEF Seeded
    <2> QED
        BY <2>1, <2>2, <2>3 DEF Bijection, Injection, Surjection, IsInjective
<1>2. IsFiniteSet(1 .. Incidents) /\ Cardinality(1 .. Incidents) = Incidents
    <2>1. Incidents \in Nat /\ Incidents > 0
        BY KnowledgeBaseAssumption
    <2> QED
        BY <2>1, FS_Interval
<1> HIDE DEF T, f
<1>3. ExistsBijection(1 .. Incidents, T)
    BY <1>1 DEF ExistsBijection
<1>4. IsFiniteSet(T) /\ Cardinality(T) = Incidents
    BY <1>2, <1>3, FS_Bijection
<1> QED
    BY <1>4 DEF T

\* already_seeded misses no complete run of the script.
LEMMA CompleteRunIsNoticed ==
    ASSUME KnowledgeTypeOK, NEW t \in Tenant, NEW n,
           Seeded(t, Incidents, n) \subseteq Of(t, pastIncidents \cup seeder.rows)
    PROVE  AlreadySeeded(t)
<1>1. pastIncidents \cup seeder.rows \in SUBSET Incident
    BY DEF KnowledgeTypeOK
<1>2. IsFiniteSet(Of(t, pastIncidents \cup seeder.rows))
    BY <1>1, TenantIsFinite
<1> DEFINE all == Of(t, pastIncidents \cup seeder.rows)
<1>3. /\ IsFiniteSet(Seeded(t, Incidents, n))
      /\ Cardinality(Seeded(t, Incidents, n)) = Incidents
    BY SeededAreEnough
<1>4. Cardinality(Seeded(t, Incidents, n)) <= Cardinality(all)
    <2> HIDE DEF all
    <2> QED
        BY <1>2, FS_Subset DEF all
<1>5. Cardinality(all) \in Nat
    BY <1>2, FS_CardinalityType
<1>6. Incidents \in Nat /\ SeedThreshold \in Nat /\ SeedThreshold <= Incidents
    BY KnowledgeBaseAssumption
<1> HIDE DEF all
<1>7. Cardinality(all) >= SeedThreshold
    BY <1>3, <1>4, <1>5, <1>6
<1> QED
    BY <1>7 DEF AlreadySeeded, all

\* The hits of BM25 are about the corpus.
LEMMA OrdersAreOf ==
    ASSUME NEW n, NEW S, NEW s \in Orders(n, S), NEW r \in DOMAIN s
    PROVE  s[r] \in S
BY DEF Orders, SetToSeqs, kSubset

\* What BM25 finds is of the corpus, and what Chroma finds of the documents.
LEMMA BM25HitsAreOf ==
    ASSUME NEW C, NEW list \in BM25Hits(C), NEW h \in ToSet(list)
    PROVE  h.of \in C
<1>1. PICK n \in 0 .. TopK :
        \E s \in Orders(n, C) : list = [r \in DOMAIN s |-> [id |-> s[r], of |-> s[r]]]
    BY DEF BM25Hits
<1>2. PICK s \in Orders(n, C) : list = [r \in DOMAIN s |-> [id |-> s[r], of |-> s[r]]]
    BY <1>1
<1>3. PICK r \in DOMAIN s : h = [id |-> s[r], of |-> s[r]]
    BY <1>2 DEF ToSet
<1> QED
    BY <1>3, OrdersAreOf

\* The hits of the vector search are about the documents.
LEMMA VectorHitsAreOf ==
    ASSUME NEW D, NEW list \in VectorHits(D), NEW h \in ToSet(list)
    PROVE  h.of \in D
<1> DEFINE n == IF Cardinality(D) < TopK THEN Cardinality(D) ELSE TopK
<1>1. PICK s \in {<<>>} \cup Orders(n, D) :
        list = [r \in DOMAIN s |-> [id |-> MetaId(s[r]), of |-> s[r]]]
    BY DEF VectorHits
<1>2. PICK r \in DOMAIN s : h = [id |-> MetaId(s[r]), of |-> s[r]]
    BY <1>1 DEF ToSet
<1>3. s \in Orders(n, D)
    BY <1>2
<1> HIDE DEF n
<1> QED
    BY <1>2, <1>3, OrdersAreOf

-----------------------------------------------------------------------------
(*****************************************************************************)
(* The knowledge base: what the fusion of two rankings computes              *)
(*****************************************************************************)

\* A sum of shares is a fold.
LEMMA SharesAreSummed ==
    ASSUME NEW S, IsFiniteSet(S), \A r \in S : Share(r) \in Nat
    PROVE  /\ MapThenSumSet(Share, S) \in Nat
           /\ S = {} => MapThenSumSet(Share, S) = 0
           /\ \A r : S = {r} => MapThenSumSet(Share, S) = Share(r)
<1> DEFINE h == [p \in S \X Nat |-> Share(p[1]) + p[2]]
           Rec(f) == [s \in SUBSET S |->
                        IF s = {} THEN 0
                        ELSE LET x == CHOOSE x \in s : TRUE
                             IN  Share(x) + f[s \ {x}]]
           iter == CHOOSE f : f = Rec(f)
<1>1. h \in [S \X Nat -> Nat]
    OBVIOUS
<1>2. PICK g : IsFold(g, S, Nat, 0, h)
    <2>1. 0 \in Nat
        OBVIOUS
    <2> HIDE DEF h, Rec, iter
    <2> QED
        BY <1>1, <2>1, FoldIsDefined
<1>3. \A s \in SUBSET S : s # {} => Chosen(s) \in S /\ s \ {Chosen(s)} \in SUBSET S
    BY DEF Chosen
<1>4. \A s \in SUBSET S : g[s] = IF s = {} THEN 0 ELSE Share(Chosen(s)) + g[s \ {Chosen(s)}]
    <2> SUFFICES ASSUME NEW s \in SUBSET S, s # {}
                 PROVE  g[s] = Share(Chosen(s)) + g[s \ {Chosen(s)}]
        BY <1>2 DEF IsFold
    <2>1. <<Chosen(s), g[s \ {Chosen(s)}]>> \in S \X Nat
        BY <1>2, <1>3 DEF IsFold
    <2>2. g[s] = h[<<Chosen(s), g[s \ {Chosen(s)}]>>]
        BY <1>2 DEF IsFold
    <2> QED
        BY <2>1, <2>2
<1>5. g \in [SUBSET S -> Nat]
    BY <1>2 DEF IsFold
<1>6. g = Rec(g)
    BY <1>4, <1>5 DEF Chosen
<1>7. iter = Rec(iter)
    <2> HIDE DEF Rec
    <2> QED
        BY <1>6
<1>8. MapThenSumSet(Share, S) = iter[S]
    BY DEF MapThenSumSet, MapThenFoldSet
<1>9. iter[S] = g[S]
    <2>1. \A f : f = Rec(f) => f[{}] = 0
        OBVIOUS
    <2>2. ASSUME NEW f, f = Rec(f), NEW s \in SUBSET S, s # {}, f[s \ {Chosen(s)}] \in Nat
          PROVE  f[s] = h[<<Chosen(s), f[s \ {Chosen(s)}]>>]
        <3>1. f[s] = Share(Chosen(s)) + f[s \ {Chosen(s)}]
            BY <2>2 DEF Chosen
        <3>2. <<Chosen(s), f[s \ {Chosen(s)}]>> \in S \X Nat
            BY <1>3, <2>2
        <3> QED
            BY <3>1, <3>2
    <2> HIDE DEF h, Rec, iter
    <2>3. 0 \in Nat /\ iter[{}] = 0
        BY <1>7, <2>1
    <2>4. \A s \in SUBSET S : s # {} /\ iter[s \ {Chosen(s)}] \in Nat =>
            iter[s] = h[<<Chosen(s), iter[s \ {Chosen(s)}]>>]
        BY <1>7, <2>2
    <2>5. Follows(iter, S, Nat, 0, h)
        BY <2>3, <2>4 DEF Follows
    <2> QED
        BY <1>2, <2>3, <2>5, FoldIsUnique
<1> HIDE DEF iter, Rec, h
<1>10. S = {} => g[S] = 0
    BY <1>4
<1>11. ASSUME NEW r, S = {r}
       PROVE  g[S] = Share(r)
    <2>1. Chosen(S) = r /\ S \ {Chosen(S)} = {} /\ S # {}
        BY <1>11 DEF Chosen
    <2>2. g[{}] = 0
        BY <1>4
    <2>3. g[S] = Share(r) + 0
        BY <1>4, <2>1, <2>2
    <2> QED
        BY <1>11, <2>3
<1> QED
    BY <1>5, <1>8, <1>9, <1>10, <1>11

\* Denominator is a product that each of its factors divides.
LEMMA DenominatorDivides ==
    /\ Denominator \in Nat \ {0}
    /\ \A r \in 1 .. TopK : \E q \in Nat : Denominator = q * (K + r)
<1> DEFINE S == 1 .. TopK
           V == Nat \ {0}
           h == [p \in S \X V |-> (K + p[1]) * p[2]]
           Rec(f) == [s \in SUBSET S |->
                        IF s = {} THEN 1
                        ELSE LET x == CHOOSE x \in s : TRUE
                             IN  (K + x) * f[s \ {x}]]
           iter == CHOOSE f : f = Rec(f)
<1>a. K \in Nat \ {0} /\ TopK \in Nat \ {0}
    BY KnowledgeBaseAssumption
<1>b. IsFiniteSet(S)
    BY <1>a, FS_Interval
<1>0. \A a, b \in V : a * b \in V
    OBVIOUS
<1>1. h \in [S \X V -> V]
    <2> SUFFICES ASSUME NEW p \in S \X V
                 PROVE  (K + p[1]) * p[2] \in V
        OBVIOUS
    <2>1. K + p[1] \in V /\ p[2] \in V
        BY <1>a
    <2> HIDE DEF V
    <2> QED
        BY <1>0, <2>1
<1>2. PICK g : IsFold(g, S, V, 1, h)
    <2>1. 1 \in V
        OBVIOUS
    <2> HIDE DEF h, Rec, iter, S, V
    <2> QED
        BY <1>b, <1>1, <2>1, FoldIsDefined
<1>3. \A s \in SUBSET S : s # {} => Chosen(s) \in S /\ Chosen(s) \in s /\ s \ {Chosen(s)} \in SUBSET S
    BY DEF Chosen
<1>5. g \in [SUBSET S -> V]
    BY <1>2 DEF IsFold
<1>4. \A s \in SUBSET S : g[s] = IF s = {} THEN 1 ELSE (K + Chosen(s)) * g[s \ {Chosen(s)}]
    <2> SUFFICES ASSUME NEW s \in SUBSET S, s # {}
                 PROVE  g[s] = (K + Chosen(s)) * g[s \ {Chosen(s)}]
        BY <1>2 DEF IsFold
    <2> HIDE DEF S, V
    <2>1. <<Chosen(s), g[s \ {Chosen(s)}]>> \in S \X V
        BY <1>3, <1>5
    <2>2. g[s] = h[<<Chosen(s), g[s \ {Chosen(s)}]>>]
        BY <1>2 DEF IsFold
    <2> QED
        BY <2>1, <2>2
<1>6. g = Rec(g)
    BY <1>4, <1>5 DEF Chosen
<1>7. iter = Rec(iter)
    <2> HIDE DEF Rec
    <2> QED
        BY <1>6
<1>8. Denominator = iter[S]
    BY DEF Denominator, FoldSet, MapThenFoldSet
<1>9. iter[S] = g[S]
    <2>1. \A f : f = Rec(f) => f[{}] = 1
        OBVIOUS
    <2>2. ASSUME NEW f, f = Rec(f), NEW s \in SUBSET S, s # {}, f[s \ {Chosen(s)}] \in V
          PROVE  f[s] = h[<<Chosen(s), f[s \ {Chosen(s)}]>>]
        <3> HIDE DEF S, V
        <3>1. f[s] = (K + Chosen(s)) * f[s \ {Chosen(s)}]
            BY <2>2 DEF Chosen
        <3>2. <<Chosen(s), f[s \ {Chosen(s)}]>> \in S \X V
            BY <1>3, <2>2
        <3> QED
            BY <3>1, <3>2
    <2>3. 1 \in V
        OBVIOUS
    <2> HIDE DEF h, Rec, iter, S, V
    <2>4. iter[{}] = 1
        BY <1>7, <2>1
    <2>5. \A s \in SUBSET S : s # {} /\ iter[s \ {Chosen(s)}] \in V =>
            iter[s] = h[<<Chosen(s), iter[s \ {Chosen(s)}]>>]
        BY <1>7, <2>2
    <2>6. Follows(iter, S, V, 1, h)
        BY <2>4, <2>5 DEF Follows
    <2> QED
        BY <1>b, <1>2, <2>3, <2>6, FoldIsUnique
<1>10. \A s \in SUBSET S : \A r \in s : \E q \in Nat : g[s] = q * (K + r)
    <2> DEFINE G == {s \in SUBSET S : \A r \in s : \E q \in Nat : g[s] = q * (K + r)}
    <2>1. {} \in G
        OBVIOUS
    <2>2. ASSUME NEW s \in SUBSET S, s # {}, s \ {Chosen(s)} \in G
          PROVE  s \in G
        <3> SUFFICES ASSUME NEW r \in s
                     PROVE  \E q \in Nat : g[s] = q * (K + r)
            OBVIOUS
        <3> DEFINE x == Chosen(s)
                   m == g[s \ {Chosen(s)}]
        <3>1. g[s] = (K + x) * m
            BY <1>4, <2>2
        <3>2. m \in Nat /\ x \in Nat /\ r \in Nat /\ K \in Nat
            <4>1. s \ {x} \in SUBSET S /\ x \in S /\ r \in S
                BY <1>3, <2>2
            <4>2. m \in V
                <5> HIDE DEF S, V
                <5> QED
                    BY <1>5, <4>1
            <4> HIDE DEF m, x
            <4> QED
                BY <1>a, <4>1, <4>2
        <3>3. CASE r = x
            <4>1. g[s] = m * (K + r)
                <5> HIDE DEF m, x
                <5> QED
                    BY <3>1, <3>2, <3>3
            <4> QED
                BY <3>2, <4>1
        <3>4. CASE r # x
            <4>1. PICK q \in Nat : m = q * (K + r)
                BY <2>2, <3>4
            <4> HIDE DEF m, x
            <4>2. g[s] = (K + x) * (q * (K + r))
                BY <3>1, <4>1
            <4>3. (K + x) * q \in Nat /\ K + r \in Nat /\ K + x \in Nat
                BY <3>2
            <4>4. \A a, b, c \in Nat : a * (b * c) = (a * b) * c
                OBVIOUS
            <4>5. g[s] = ((K + x) * q) * (K + r)
                BY <4>2, <4>3, <4>4
            <4> QED
                BY <4>3, <4>5
        <3> QED
            BY <3>3, <3>4
    <2> HIDE DEF G, S
    <2>3. G \in SUBSET SUBSET S
        BY DEF G
    <2>4. G = SUBSET S
        BY <1>b, <2>1, <2>2, <2>3, AllSubsets
    <2> QED
        BY <2>4 DEF G
<1> HIDE DEF iter, Rec, h
<1>11. S \in SUBSET S
    OBVIOUS
<1> QED
    BY <1>5, <1>8, <1>9, <1>10, <1>11

\* The share of a rank is exact.
LEMMA SharesAreExact ==
    ASSUME NEW r \in 1 .. TopK
    PROVE  Share(r) \in Nat \ {0} /\ Share(r) * (K + r) = Denominator
<1>1. K + r \in Nat \ {0}
    BY KnowledgeBaseAssumption
<1>2. PICK q \in Nat : Denominator = q * (K + r)
    BY DenominatorDivides
<1>3. \A a \in Nat, b \in Nat \ {0} : (a * b) \div b = a
    OBVIOUS
<1>4. Share(r) = q
    BY <1>1, <1>2, <1>3 DEF Share
<1>5. q # 0
    BY <1>1, <1>2, DenominatorDivides
<1> QED
    BY <1>2, <1>4, <1>5

\* Two shares are more than one, whatever the ranks.
LEMMA TwoSharesBeatOne ==
    ASSUME NEW i \in 1 .. TopK, NEW j \in 1 .. TopK, NEW r \in 1 .. TopK
    PROVE  Share(i) + Share(j) > Share(r)
<1> DEFINE a == Share(i)
           b == Share(j)
           c == Share(r)
           D == Denominator
<1>1. K \in Nat /\ TopK \in Nat /\ TopK < K + 2
    BY KnowledgeBaseAssumption
<1>2. a \in Nat \ {0} /\ b \in Nat \ {0} /\ c \in Nat \ {0}
    BY SharesAreExact
<1>3. a * (K + i) = D /\ b * (K + j) = D /\ c * (K + r) = D
    BY SharesAreExact
<1>4. D \in Nat
    BY DenominatorDivides
<1> HIDE DEF a, b, c, D
<1>5. \A x, y, z \in Nat : x <= y => z * x <= z * y
    OBVIOUS
<1>6. a * (K + i) <= a * (K + TopK) /\ b * (K + j) <= b * (K + TopK) /\ c * (K + 1) <= c * (K + r)
    BY <1>1, <1>2, <1>5
<1>7. (a + b) * (K + TopK) = a * (K + TopK) + b * (K + TopK)
    BY <1>1, <1>2
<1>8. 2 * D <= (a + b) * (K + TopK)
    BY <1>1, <1>2, <1>3, <1>4, <1>6, <1>7
<1>9. ASSUME a + b <= c
      PROVE  FALSE
    <2>1. (a + b) * (K + TopK) <= c * (K + TopK)
        BY <1>1, <1>2, <1>9
    <2>2. 2 * D <= c * (K + TopK)
        BY <1>1, <1>2, <1>4, <1>8, <2>1
    <2>3. 2 * (c * (K + 1)) <= c * (K + TopK)
        BY <1>1, <1>2, <1>3, <1>4, <1>6, <2>2
    <2>4. c * (K + TopK) + c <= c * (2 * (K + 1))
        BY <1>1, <1>2
    <2> QED
        BY <1>1, <1>2, <2>3, <2>4
<1> QED
    BY <1>2, <1>9 DEF a, b, c

\* Orders are sequences without repetitions.
LEMMA OrdersAreDistinct ==
    ASSUME NEW S, NEW n \in 0 .. TopK, TopK \in Nat, NEW s \in Orders(n, S)
    PROVE  s \in [1 .. n -> S] /\ \A q, r \in 1 .. n : s[q] = s[r] => q = r
<1>1. PICK T \in SUBSET S : Cardinality(T) = n /\ s \in SetToSeqs(T)
    BY DEF Orders, kSubset
<1>2. s \in [1 .. n -> T] /\ \A q, r \in 1 .. n : q # r => s[q] # s[r]
    BY <1>1 DEF SetToSeqs
<1> QED
    BY <1>2

\* Both stages return such lists.
LEMMA HitsAreRankings ==
    ASSUME TopK \in Nat, NEW C \in SUBSET Incident, IsFiniteSet(C)
    PROVE  /\ \A list \in BM25Hits(C) : Ranking(list)
           /\ \A list \in VectorHits(C) : Ranking(list)
<1>1. ASSUME NEW list \in BM25Hits(C)
      PROVE  Ranking(list)
    <2>1. PICK n \in 0 .. TopK :
            \E s \in Orders(n, C) : list = [r \in DOMAIN s |-> [id |-> s[r], of |-> s[r]]]
        BY DEF BM25Hits
    <2>2. PICK s \in Orders(n, C) : list = [r \in DOMAIN s |-> [id |-> s[r], of |-> s[r]]]
        BY <2>1
    <2>3. s \in [1 .. n -> C] /\ \A q, r \in 1 .. n : s[q] = s[r] => q = r
        BY OrdersAreDistinct
    <2>4. list = [r \in 1 .. n |-> [id |-> s[r], of |-> s[r]]]
        BY <2>2, <2>3
    <2>5. list \in [1 .. n -> Hit]
        BY <2>3, <2>4 DEF Hit
    <2> QED
        BY <2>3, <2>4, <2>5 DEF Ranking
<1>2. ASSUME NEW list \in VectorHits(C)
      PROVE  Ranking(list)
    <2> DEFINE m == IF Cardinality(C) < TopK THEN Cardinality(C) ELSE TopK
    <2>1. m \in 0 .. TopK
        BY FS_CardinalityType
    <2>2. PICK s \in {<<>>} \cup Orders(m, C) :
            list = [r \in DOMAIN s |-> [id |-> MetaId(s[r]), of |-> s[r]]]
        BY DEF VectorHits
    <2> HIDE DEF m
    <2>3. \E n \in 0 .. TopK :
            s \in [1 .. n -> C] /\ \A q, r \in 1 .. n : s[q] = s[r] => q = r
        <3>1. CASE s = <<>>
            <4>1. s \in [1 .. 0 -> C] /\ \A q, r \in 1 .. 0 : s[q] = s[r] => q = r
                BY <3>1
            <4> QED
                BY <4>1
        <3>2. CASE s \in Orders(m, C)
            BY <2>1, <3>2, OrdersAreDistinct
        <3> QED
            BY <3>1, <3>2
    <2>4. PICK n \in 0 .. TopK :
            s \in [1 .. n -> C] /\ \A q, r \in 1 .. n : s[q] = s[r] => q = r
        BY <2>3
    <2>5. list = [r \in 1 .. n |-> [id |-> MetaId(s[r]), of |-> s[r]]]
        BY <2>2, <2>4
    <2>6. \A x \in C : MetaId(x) = x \/ (MetaId(x) = Nameless /\ x \in Learned)
        BY DEF MetaId
    <2>7. list \in [1 .. n -> Hit]
        BY <2>4, <2>5, <2>6 DEF Hit
    <2> QED
        BY <2>4, <2>5, <2>6, <2>7 DEF Ranking
<1> QED
    BY <1>1, <1>2

\* An id other than the default has one rank in a list, or none.
LEMMA RanksAreUnique ==
    ASSUME TopK \in Nat, NEW list, Ranking(list), NEW i
    PROVE  /\ RanksOf(list, i) \in SUBSET (1 .. TopK)
           /\ IsFiniteSet(RanksOf(list, i))
           /\ i \notin Ids(list) => RanksOf(list, i) = {}
           /\ i \in Ids(list) /\ i # Nameless =>
                \E r \in 1 .. TopK : RanksOf(list, i) = {r}
<1>1. PICK n \in 0 .. TopK : list \in [1 .. n -> Hit]
    BY DEF Ranking
<1>2. DOMAIN list = 1 .. n /\ 1 .. n \subseteq 1 .. TopK
    BY <1>1
<1>3. RanksOf(list, i) \in SUBSET (1 .. TopK)
    BY <1>2 DEF RanksOf
<1>4. IsFiniteSet(RanksOf(list, i))
    <2>1. IsFiniteSet(1 .. TopK)
        BY FS_Interval
    <2> QED
        BY <1>3, <2>1, FS_Subset
<1>5. i \notin Ids(list) => RanksOf(list, i) = {}
    BY DEF Ids, RanksOf
<1>6. ASSUME i \in Ids(list), i # Nameless
      PROVE  \E r \in 1 .. TopK : RanksOf(list, i) = {r}
    <2>1. PICK r \in DOMAIN list : list[r].id = i
        BY <1>6 DEF Ids
    <2>2. \A q \in DOMAIN list : list[q].id = i => q = r
        BY <1>6, <2>1 DEF Ranking
    <2>3. RanksOf(list, i) = {r}
        BY <2>1, <2>2 DEF RanksOf
    <2> QED
        BY <1>2, <2>3
<1> QED
    BY <1>3, <1>4, <1>5, <1>6

\* Every id has a score, the default too, which may have many ranks.
LEMMA ScoresAreNumbers ==
    ASSUME NEW bm25, NEW vector, Ranking(bm25), Ranking(vector), NEW i
    PROVE  RrfScore(bm25, vector, i) \in Nat
<1>1. TopK \in Nat
    BY KnowledgeBaseAssumption
<1>2. \A r \in 1 .. TopK : Share(r) \in Nat
    BY SharesAreExact
<1>3. ASSUME NEW list, Ranking(list)
      PROVE  MapThenSumSet(Share, RanksOf(list, i)) \in Nat
    <2>1. RanksOf(list, i) \in SUBSET (1 .. TopK) /\ IsFiniteSet(RanksOf(list, i))
        BY <1>1, <1>3, RanksAreUnique
    <2>2. \A r \in RanksOf(list, i) : Share(r) \in Nat
        BY <1>2, <2>1
    <2> QED
        BY <2>1, <2>2, SharesAreSummed
<1> QED
    BY <1>3 DEF RrfScore

\* An id of both lists has a better score than an id of one list alone.
LEMMA BothScoreHigher ==
    ASSUME NEW bm25, NEW vector, Ranking(bm25), Ranking(vector),
           NEW i, i # Nameless, i \in Ids(bm25) \cap Ids(vector),
           NEW j, j # Nameless, j \notin Ids(bm25) \cap Ids(vector),
           j \in Ids(bm25) \cup Ids(vector)
    PROVE  RrfScore(bm25, vector, i) > RrfScore(bm25, vector, j)
<1> DEFINE Sum(list, x) == MapThenSumSet(Share, RanksOf(list, x))
<1>1. TopK \in Nat
    BY KnowledgeBaseAssumption
<1>2. \A r \in 1 .. TopK : Share(r) \in Nat
    BY SharesAreExact
<1>3. ASSUME NEW list, Ranking(list), NEW x, x # Nameless
      PROVE  /\ x \notin Ids(list) => Sum(list, x) = 0
             /\ x \in Ids(list) => \E r \in 1 .. TopK : Sum(list, x) = Share(r)
    <2>1. RanksOf(list, x) \in SUBSET (1 .. TopK) /\ IsFiniteSet(RanksOf(list, x))
        BY <1>1, <1>3, RanksAreUnique
    <2>2. \A r \in RanksOf(list, x) : Share(r) \in Nat
        BY <1>2, <2>1
    <2>3. /\ RanksOf(list, x) = {} => Sum(list, x) = 0
          /\ \A r : RanksOf(list, x) = {r} => Sum(list, x) = Share(r)
        BY <2>1, <2>2, SharesAreSummed
    <2> HIDE DEF Sum
    <2> QED
        BY <1>1, <1>3, <2>3, RanksAreUnique
<1>4. \A x : RrfScore(bm25, vector, x) = Sum(bm25, x) + Sum(vector, x)
    BY DEF RrfScore
<1> HIDE DEF Sum
<1>5. PICK q \in 1 .. TopK, p \in 1 .. TopK :
        Sum(bm25, i) = Share(q) /\ Sum(vector, i) = Share(p)
    BY <1>3
<1>6. PICK r \in 1 .. TopK : Sum(bm25, j) + Sum(vector, j) = Share(r)
    <2>1. CASE j \in Ids(bm25)
        <3>1. Sum(vector, j) = 0
            BY <1>3, <2>1
        <3>2. PICK r \in 1 .. TopK : Sum(bm25, j) = Share(r)
            BY <1>3, <2>1
        <3> QED
            BY <1>2, <3>1, <3>2
    <2>2. CASE j \notin Ids(bm25)
        <3>1. Sum(bm25, j) = 0
            BY <1>3, <2>2
        <3>2. PICK r \in 1 .. TopK : Sum(vector, j) = Share(r)
            BY <1>3, <2>2
        <3> QED
            BY <1>2, <3>1, <3>2
    <2> QED
        BY <2>1, <2>2
<1> QED
    BY <1>4, <1>5, <1>6, TwoSharesBeatOne

\* Every id has a place of its own in the dict of scores.
LEMMA InsertedOnce ==
    ASSUME NEW bm25, NEW vector, Ranking(bm25), Ranking(vector), TopK \in Nat,
           NEW i \in Ids(bm25) \cup Ids(vector)
    PROVE  /\ Inserted(bm25, vector, i) \in Nat
           /\ (bm25 \o vector)[Inserted(bm25, vector, i)].id = i
<1>1. PICK n \in 0 .. TopK : bm25 \in [1 .. n -> Hit]
    BY DEF Ranking
<1>2. PICK m \in 0 .. TopK : vector \in [1 .. m -> Hit]
    BY DEF Ranking
<1>3. n \in Nat /\ m \in Nat
    OBVIOUS
<1>4. bm25 \in Seq(Hit) /\ vector \in Seq(Hit) /\ Len(bm25) = n /\ Len(vector) = m
    BY <1>1, <1>2, <1>3
<1> DEFINE list == bm25 \o vector
<1>5. DOMAIN list = 1 .. n + m
    BY <1>3, <1>4
<1>6. \A r \in 1 .. n + m : list[r] = IF r <= n THEN bm25[r] ELSE vector[r - n]
    BY <1>3, <1>4
<1>7. \E r \in DOMAIN list : list[r].id = i
    <2>1. CASE i \in Ids(bm25)
        <3>1. PICK r \in 1 .. n : bm25[r].id = i
            BY <1>1, <2>1 DEF Ids
        <3>2. r \in 1 .. n + m /\ r <= n
            BY <1>3
        <3> HIDE DEF list
        <3> QED
            BY <1>5, <1>6, <3>1, <3>2
    <2>2. CASE i \in Ids(vector)
        <3>1. PICK r \in 1 .. m : vector[r].id = i
            BY <1>2, <2>2 DEF Ids
        <3>2. r + n \in 1 .. n + m /\ ~ (r + n <= n) /\ (r + n) - n = r
            BY <1>3
        <3> HIDE DEF list
        <3> QED
            BY <1>5, <1>6, <3>1, <3>2
    <2> QED
        BY <2>1, <2>2
<1> HIDE DEF list
<1> DEFINE ranks == {r \in DOMAIN list : list[r].id = i}
<1>8. ranks \in SUBSET Nat /\ ranks # {}
    BY <1>3, <1>5, <1>7
<1>9. \E x \in ranks : \A y \in ranks : x <= y
    <2> HIDE DEF ranks
    <2> QED
        BY <1>8, LeastNatural
<1>10. Min(ranks) \in ranks
    <2> HIDE DEF ranks
    <2> QED
        BY <1>9 DEF Min
<1>11. Inserted(bm25, vector, i) = Min(ranks)
    BY DEF Inserted, RanksOf, list
<1> QED
    BY <1>8, <1>10, <1>11 DEF list

\* By score, then by turn.
LEMMA LexicographicOrder ==
    ASSUME NEW a \in Nat, NEW b \in Nat, NEW c \in Nat,
           NEW p \in Nat, NEW q \in Nat, NEW r \in Nat,
           a > b \/ (a = b /\ p < q), b > c \/ (b = c /\ q < r)
    PROVE  a > c \/ (a = c /\ p < r)
OBVIOUS

\* Where a ranking has the id i, see Position.
PositionIn(ranking, i) == CHOOSE p \in DOMAIN ranking : ranking[p] = i

\* An id that precedes another has a position before it in the fused ranking.
LEMMA FusedFollowsPrecedes ==
    ASSUME NEW bm25, NEW vector, Ranking(bm25), Ranking(vector),
           NEW i \in Ids(bm25) \cup Ids(vector), NEW j \in Ids(bm25) \cup Ids(vector),
           Precedes(bm25, vector, i, j)
    PROVE  PositionIn(Fused(bm25, vector), i) < PositionIn(Fused(bm25, vector), j)
<1> DEFINE I == Ids(bm25) \cup Ids(vector)
           score == [x \in I |-> RrfScore(bm25, vector, x)]
           turn == [x \in I |-> Inserted(bm25, vector, x)]
           R == {xy \in I \X I : Precedes(bm25, vector, xy[1], xy[2])}
           place == Places(I, R)
           ranking == Fused(bm25, vector)
<1>1. TopK \in Nat
    BY KnowledgeBaseAssumption
<1>2. IsFiniteSet(I)
    <2>1. ASSUME NEW list, Ranking(list)
          PROVE  IsFiniteSet(Ids(list))
        <3>1. PICK n \in 0 .. TopK : list \in [1 .. n -> Hit]
            BY <2>1 DEF Ranking
        <3>2. Ids(list) = {list[r].id : r \in 1 .. n}
            BY <3>1 DEF Ids
        <3>3. IsFiniteSet(1 .. n)
            <4>1. 1 \in Int /\ n \in Int
                BY <1>1
            <4> QED
                BY <4>1, FS_Interval
        <3> DEFINE f == [r \in 1 .. n |-> list[r].id]
        <3>4. f \in Surjection(1 .. n, Ids(list))
            BY <3>2 DEF Surjection
        <3> HIDE DEF f
        <3> QED
            BY <3>3, <3>4, FS_Surjection
    <2> QED
        BY <2>1, FS_Union
<1>3. \A x \in I : score[x] \in Nat /\ turn[x] \in Nat
    BY <1>1, ScoresAreNumbers, InsertedOnce
<1>4. \A x, y \in I : turn[x] = turn[y] => x = y
    <2> SUFFICES ASSUME NEW x \in I, NEW y \in I, turn[x] = turn[y]
                 PROVE  x = y
        OBVIOUS
    <2>1. (bm25 \o vector)[turn[x]].id = x /\ (bm25 \o vector)[turn[y]].id = y
        BY <1>1, InsertedOnce
    <2> HIDE DEF turn
    <2> QED
        BY <2>1
<1>5. \A x, y \in I : <<x, y>> \in R <=>
        \/ score[x] > score[y]
        \/ score[x] = score[y] /\ turn[x] < turn[y]
    BY DEF Precedes
<1>6. R \in SUBSET (I \X I)
    OBVIOUS
<1>7. \A x \in I : Cardinality({y \in I : Precedes(bm25, vector, y, x)})
                     = Cardinality({y \in I : <<y, x>> \in R})
    <2>1. \A x \in I : {y \in I : Precedes(bm25, vector, y, x)} = {y \in I : <<y, x>> \in R}
        OBVIOUS
    <2> QED
        BY <2>1
<1>8. ranking = [p \in 1 .. Cardinality(I) |-> CHOOSE x \in I : place[x] = p]
    <2> DEFINE other == [x \in I |->
                            1 + Cardinality({y \in I : Precedes(bm25, vector, y, x)})]
    <2>1. other = place
        BY <1>7 DEF Places
    <2>2. ranking = [p \in 1 .. Cardinality(I) |-> CHOOSE x \in I : other[x] = p]
        BY DEF Fused
    <2> HIDE DEF place, ranking, other, I
    <2> QED
        BY <2>1, <2>2
<1>9. <<i, j>> \in R
    OBVIOUS
<1> HIDE DEF score, turn, R, I, ranking
<1>10. /\ Cardinality(I) \in Nat
       /\ \A x \in I : place[x] \in 1 .. Cardinality(I)
       /\ \A x, y \in I : <<x, y>> \in R => place[x] < place[y]
       /\ \A x, y \in I : place[x] = place[y] => x = y
       /\ \A p \in 1 .. Cardinality(I) : \E x \in I : place[x] = p
    <2>1. \A x \in I : <<x, x>> \notin R
        BY <1>3, <1>5
    <2>2. \A x, y, z \in I : <<x, y>> \in R /\ <<y, z>> \in R => <<x, z>> \in R
        <3> SUFFICES ASSUME NEW x \in I, NEW y \in I, NEW z \in I,
                            <<x, y>> \in R, <<y, z>> \in R
                     PROVE  <<x, z>> \in R
            OBVIOUS
        <3>1. /\ score[x] \in Nat /\ score[y] \in Nat /\ score[z] \in Nat
              /\ turn[x] \in Nat /\ turn[y] \in Nat /\ turn[z] \in Nat
            BY <1>3
        <3>2. /\ score[x] > score[y] \/ (score[x] = score[y] /\ turn[x] < turn[y])
              /\ score[y] > score[z] \/ (score[y] = score[z] /\ turn[y] < turn[z])
            BY <1>5
        <3>3. score[x] > score[z] \/ (score[x] = score[z] /\ turn[x] < turn[z])
            BY ONLY <3>1, <3>2, LexicographicOrder
        <3> QED
            BY <1>5, <3>3
    <2>3. \A x, y \in I : x = y \/ <<x, y>> \in R \/ <<y, x>> \in R
        <3> SUFFICES ASSUME NEW x \in I, NEW y \in I, x # y
                     PROVE  <<x, y>> \in R \/ <<y, x>> \in R
            OBVIOUS
        <3>1. /\ score[x] \in Nat /\ score[y] \in Nat
              /\ turn[x] \in Nat /\ turn[y] \in Nat /\ turn[x] # turn[y]
            BY <1>3, <1>4
        <3>2. \/ score[x] > score[y] \/ (score[x] = score[y] /\ turn[x] < turn[y])
              \/ score[y] > score[x] \/ (score[y] = score[x] /\ turn[y] < turn[x])
            BY <3>1
        <3> QED
            BY <1>5, <3>2
    <2>4. StrictOrder(I, R)
        BY <1>6, <2>1, <2>2, <2>3 DEF StrictOrder
    <2> QED
        BY <1>2, <2>4, PlacesAreTaken
<1> HIDE DEF place
<1>11. ASSUME NEW x \in I
       PROVE  PositionIn(ranking, x) = place[x]
    <2>1. DOMAIN ranking = 1 .. Cardinality(I)
        BY <1>8
    <2>2. \A p \in 1 .. Cardinality(I) : ranking[p] \in I /\ place[ranking[p]] = p
        BY <1>8, <1>10
    <2>3. place[x] \in DOMAIN ranking /\ ranking[place[x]] = x
        BY <1>10, <2>1, <2>2
    <2>4. \A p \in DOMAIN ranking : ranking[p] = x => p = place[x]
        BY <2>1, <2>2
    <2> QED
        BY <2>3, <2>4 DEF PositionIn
<1>12. place[i] < place[j]
    BY <1>9, <1>10 DEF I
<1> QED
    BY <1>11, <1>12 DEF I, ranking

\* What both stages found has its id in both lists; what one of them found and
\* has an id has it in one list alone.
LEMMA BothHaveIds ==
    ASSUME NEW bm25, NEW vector, Ranking(bm25), Ranking(vector),
           NEW h \in ToSet(bm25) \cup ToSet(vector), h.id # Nameless
    PROVE  /\ h.id \in Incident
           /\ h.id = h.of
           /\ h.id \in Ids(bm25) \cup Ids(vector)
           /\ h.id \in Ids(bm25) \cap Ids(vector) =>
                /\ \E r \in DOMAIN bm25 : bm25[r].of = h.of
                /\ \E r \in DOMAIN vector : vector[r].of = h.of
<1>1. ASSUME NEW list, Ranking(list), NEW r \in DOMAIN list, list[r].id # Nameless
      PROVE  list[r].id \in Incident /\ list[r].id = list[r].of
    BY <1>1 DEF Ranking, Hit
<1>2. \/ \E r \in DOMAIN bm25 : h = bm25[r]
      \/ \E r \in DOMAIN vector : h = vector[r]
    BY DEF ToSet
<1>3. h.id \in Incident /\ h.id = h.of
    BY <1>1, <1>2
<1>4. h.id \in Ids(bm25) \cup Ids(vector)
    BY <1>2 DEF Ids
<1>5. ASSUME NEW list, Ranking(list), h.id \in Ids(list)
      PROVE  \E r \in DOMAIN list : list[r].of = h.of
    <2>1. PICK r \in DOMAIN list : list[r].id = h.id
        BY <1>5 DEF Ids
    <2> QED
        BY <1>1, <1>3, <1>5, <2>1
<1> QED
    BY <1>3, <1>4, <1>5

\* A seeded incident has its id in every list that has it.
LEMMA SeededHaveIds ==
    ASSUME NEW list, Ranking(list), NEW r \in DOMAIN list, list[r].of \notin Learned
    PROVE  list[r].id = list[r].of /\ list[r].id \in Ids(list)
BY DEF Ranking, Ids

\* The default is no incident.
LEMMA NamelessIsNoIncident == Nameless \notin Incident
<1> SUFFICES ASSUME Nameless \in Incident
             PROVE  FALSE
    OBVIOUS
<1>1. PICK a \in Tenant, b \in 0 .. Incidents, c \in 1 .. MaxTransactions :
        Nameless = <<a, b, c>>
    BY DEF Incident
<1>2. Len(Nameless) = 0 /\ Len(<<a, b, c>>) = 3
    BY DEF Nameless
<1> QED
    BY <1>1, <1>2

\* Whatever lists the two stages return, the fused ranking has what both found
\* before what one of them found.
LEMMA RankingsPutBothFirst ==
    ASSUME RankingsOK
    PROVE  BothListsFirst
<1> DEFINE bm25 == answer.bm25
           vector == answer.vector
<1> SUFFICES ASSUME answer # Silent,
                    NEW g \in Hits, NEW h \in Hits,
                    g.of \in FoundByBoth \ Learned,
                    h.of \notin FoundByBoth,
                    h.id # Nameless
             PROVE  Position(g) < Position(h)
    BY DEF BothListsFirst
<1>1. Ranking(bm25) /\ Ranking(vector)
    BY DEF RankingsOK
<1>2. g \in ToSet(bm25) \cup ToSet(vector) /\ h \in ToSet(bm25) \cup ToSet(vector)
    BY DEF Hits
<1>3. /\ g.of \in Incident /\ g.of \notin Learned
      /\ \E r \in DOMAIN bm25 : bm25[r].of = g.of
      /\ \E r \in DOMAIN vector : vector[r].of = g.of
    BY DEF FoundByBoth
<1>4. ~ (/\ h.of \in Incident
         /\ \E r \in DOMAIN bm25 : bm25[r].of = h.of
         /\ \E r \in DOMAIN vector : vector[r].of = h.of)
    BY DEF FoundByBoth
<1>5. Position(g) = PositionIn(Fused(bm25, vector), g.id)
    BY DEF Position, PositionIn
<1>6. Position(h) = PositionIn(Fused(bm25, vector), h.id)
    BY DEF Position, PositionIn
<1> HIDE DEF bm25, vector
<1>7. /\ g.id = g.of
      /\ g.id \in Ids(bm25) \cap Ids(vector)
      /\ g.id # Nameless
    <2>1. g.of \in Ids(bm25) \cap Ids(vector)
        BY <1>1, <1>3, SeededHaveIds
    <2>2. g.id = g.of
        <3>1. \/ \E r \in DOMAIN bm25 : g = bm25[r]
              \/ \E r \in DOMAIN vector : g = vector[r]
            BY <1>2 DEF ToSet
        <3> QED
            BY <1>1, <1>3, <3>1, SeededHaveIds
    <2> QED
        BY <1>3, <2>1, <2>2, NamelessIsNoIncident
<1>8. /\ h.id \in Ids(bm25) \cup Ids(vector)
      /\ h.id \notin Ids(bm25) \cap Ids(vector)
    BY <1>1, <1>2, <1>4, BothHaveIds
<1>9. RrfScore(bm25, vector, g.id) > RrfScore(bm25, vector, h.id)
    BY <1>1, <1>7, <1>8, BothScoreHigher
<1>10. Precedes(bm25, vector, g.id, h.id)
    BY <1>9 DEF Precedes
<1> QED
    BY <1>1, <1>5, <1>6, <1>7, <1>8, <1>10, FusedFollowsPrecedes

-----------------------------------------------------------------------------
(***************************************************************************)
(* The knowledge base: types, and the transaction of the seed script       *)
(***************************************************************************)

\* What a search changes: a corpus that it loads, and the answer.
Searches(t) == SearchCached(t) \/ SearchLoads(t) \/ SearchWithoutRows(t)

\* A search reads both stores, and writes only its cached corpus and its answer.
LEMMA SearchReads ==
    ASSUME KnowledgeTypeOK, BackedOK, NEW t \in Tenant, Searches(t)
    PROVE  /\ UNCHANGED <<pastIncidents, docs, begun, seeder, learning>>
           /\ \E C \in SUBSET Of(t, pastIncidents) :
                /\ Retrieve(t, C)
                /\ \/ corpus' = corpus
                   \/ corpus' = [u \in DOMAIN corpus \cup {t} |-> IF u = t THEN C ELSE corpus[u]]
<1>1. ASSUME NEW C, Retrieve(t, C)
      PROVE  UNCHANGED <<pastIncidents, docs, begun, seeder, learning>>
    BY <1>1 DEF Retrieve, stores
<1>2. CASE SearchCached(t)
    BY <1>1, <1>2 DEF SearchCached, BackedOK
<1>3. CASE SearchLoads(t)
    <2>1. PICK C \in Newest(t) :
            /\ corpus' = [u \in DOMAIN corpus \cup {t} |-> IF u = t THEN C ELSE corpus[u]]
            /\ Retrieve(t, C)
        BY <1>3 DEF SearchLoads
    <2>2. C \in SUBSET Of(t, pastIncidents)
        BY DEF Newest, kSubset
    <2> QED
        BY <1>1, <2>1, <2>2
<1>4. CASE SearchWithoutRows(t)
    BY <1>1, <1>4 DEF SearchWithoutRows
<1> QED
    BY <1>2, <1>3, <1>4 DEF Searches

\* Every step keeps the types and what the script knows of its transaction.
LEMMA KnowledgeTypeStep ==
    ASSUME KnowledgeTypeOK, SeederOK, BackedOK, [KnowledgeNext]_knowledgeVars
    PROVE  KnowledgeTypeOK' /\ SeederOK'
<1>0. /\ Len(Tenants) \in Nat /\ DOMAIN Tenants = 1 .. Len(Tenants)
      /\ \A i \in DOMAIN Tenants : Tenants[i] \in Tenant
      /\ Incidents \in Nat \ {0} /\ MaxTransactions \in Nat /\ begun \in Nat
    BY KnowledgeBaseAssumption DEF KnowledgeTypeOK
<1>l. Len(Tenants) \in Nat /\ Incidents \in Nat
    BY <1>0
<1> DEFINE Record == [tenant : 0 .. Len(Tenants) + 1, next : 1 .. Incidents + 1,
                      tx : 0 .. MaxTransactions, rows : SUBSET Incident]
<1>a. /\ seeder \in Record
      /\ seeder.tx \in 0 .. MaxTransactions /\ seeder.rows \in SUBSET Incident
    BY DEF KnowledgeTypeOK
<1>1. NotSeeding \in Record
    BY <1>0 DEF NotSeeding
<1>2. CASE SeedStart
    <2>1. /\ begun < MaxTransactions /\ begun' = begun + 1
          /\ seeder' = [NotSeeding EXCEPT !.tenant = 1, !.tx = begun + 1]
          /\ UNCHANGED <<pastIncidents, docs, learning, corpus>>
        BY <1>2 DEF SeedStart
    <2>2. seeder' = [tenant |-> 1, next |-> 1, tx |-> begun + 1, rows |-> {}]
        BY <2>1 DEF NotSeeding
    <2>3. seeder' \in [tenant : 0 .. Len(Tenants) + 1, next : 1 .. Incidents + 1,
                       tx : 0 .. MaxTransactions, rows : SUBSET Incident]
        BY <1>0, <2>1, <2>2
    <2>4. begun' \in 0 .. MaxTransactions
        BY <1>0, <2>1
    <2>5. KnowledgeTypeOK'
        BY <2>1, <2>3, <2>4 DEF KnowledgeTypeOK
    <2>6. seeder'.tenant = 1 /\ seeder'.next = 1 /\ seeder'.tx = begun + 1
        BY <2>2
    <2>7. begun + 1 \in 1 .. begun' /\ 1 \in 1 .. Incidents
        BY <1>0, <2>1
    <2>8. SeederOK'
        BY <2>6, <2>7 DEF SeederOK
    <2> QED
        BY <2>5, <2>8
<1>3. CASE SkipTenant
    <2>1. /\ Seeding /\ seeder.next = 1 /\ seeder' = [seeder EXCEPT !.tenant = @ + 1]
          /\ UNCHANGED <<pastIncidents, docs, begun, learning, corpus>>
        BY <1>3 DEF SkipTenant, stores
    <2>2. seeder.tenant \in 1 .. Len(Tenants)
        BY <1>0, <2>1 DEF Seeding
    <2>3. seeder' = [tenant |-> seeder.tenant + 1, next |-> 1, tx |-> seeder.tx,
                     rows |-> seeder.rows]
        BY <1>a, <2>1
    <2>4. seeder.tenant + 1 \in 1 .. Len(Tenants) + 1
        BY <1>0, <2>2
    <2>5. seeder' \in Record
        <3>1. 1 \in 1 .. Incidents + 1 /\ seeder.tenant + 1 \in 0 .. Len(Tenants) + 1
            BY <1>l, <2>4
        <3> QED
            BY <1>a, <2>3, <3>1
    <2>6. KnowledgeTypeOK'
        BY <2>1, <2>5 DEF KnowledgeTypeOK
    <2>7. seeder.tx \in 1 .. begun
        BY <1>0, <2>2 DEF SeederOK
    <2>8. SeederOK'
        BY <1>0, <2>1, <2>3, <2>4, <2>7 DEF SeederOK
    <2> QED
        BY <2>6, <2>8
<1>4. ASSUME NEW embedded \in BOOLEAN, SeedIncident(embedded)
      PROVE  KnowledgeTypeOK' /\ SeederOK'
    <2> DEFINE x == <<Tenants[seeder.tenant], seeder.next, seeder.tx>>
    <2>1. /\ Seeding
          /\ seeder' = IF seeder.next = Incidents
                       THEN [seeder EXCEPT !.rows = @ \cup {x}, !.next = 1, !.tenant = @ + 1]
                       ELSE [seeder EXCEPT !.rows = @ \cup {x}, !.next = @ + 1]
          /\ docs' \in {docs, docs \cup {x}}
          /\ UNCHANGED <<pastIncidents, begun, learning, corpus>>
        BY <1>4 DEF SeedIncident
    <2>2. /\ seeder.tenant \in 1 .. Len(Tenants) /\ seeder.next \in 1 .. Incidents
          /\ seeder.tx \in 1 .. begun /\ Tenants[seeder.tenant] \in Tenant
        BY <1>0, <2>1 DEF SeederOK, Seeding
    <2>3. x \in Incident
        BY <1>0, <2>2 DEF Incident, KnowledgeTypeOK
    <2> HIDE DEF x
    <2>4. CASE seeder.next = Incidents
        <3>1. seeder' = [tenant |-> seeder.tenant + 1, next |-> 1, tx |-> seeder.tx,
                         rows |-> seeder.rows \cup {x}]
            BY <1>a, <2>1, <2>4
        <3>2. seeder.tenant + 1 \in 1 .. Len(Tenants) + 1
            <4>1. seeder.tenant \in 1 .. Len(Tenants)
                BY <2>2
            <4> QED
                BY <1>l, <4>1
        <3>3. seeder' \in Record
            <4>1. 1 \in 1 .. Incidents + 1 /\ seeder.tenant + 1 \in 0 .. Len(Tenants) + 1
                BY <1>l, <3>2
            <4>2. seeder.rows \cup {x} \in SUBSET Incident
                BY <1>a, <2>3
            <4> QED
                BY <1>a, <3>1, <4>1, <4>2
        <3>4. KnowledgeTypeOK'
            BY <2>1, <2>3, <3>3 DEF KnowledgeTypeOK
        <3>5. SeederOK'
            <4>1. /\ seeder'.tenant = seeder.tenant + 1 /\ seeder'.next = 1
                  /\ seeder'.tx = seeder.tx
                BY <3>1
            <4>2. seeder'.tenant # 0 /\ 1 \in 1 .. Incidents
                BY <1>0, <3>2, <4>1
            <4>3. seeder'.tx \in 1 .. begun'
                BY <2>1, <2>2, <4>1
            <4> QED
                BY <4>1, <4>2, <4>3 DEF SeederOK
        <3> QED
            BY <3>4, <3>5
    <2>5. CASE seeder.next # Incidents
        <3>1. seeder' = [tenant |-> seeder.tenant, next |-> seeder.next + 1, tx |-> seeder.tx,
                         rows |-> seeder.rows \cup {x}]
            BY <1>a, <2>1, <2>5
        <3>2. seeder.next + 1 \in 1 .. Incidents
            <4>1. seeder.next \in 1 .. Incidents
                BY <2>2
            <4> QED
                BY <1>l, <2>5, <4>1
        <3>3. seeder' \in Record
            <4>1. seeder.next + 1 \in 1 .. Incidents + 1
                BY <1>l, <3>2
            <4>2. seeder.tenant \in 0 .. Len(Tenants) + 1
                <5>1. seeder.tenant \in 1 .. Len(Tenants)
                    BY <2>2
                <5> QED
                    BY <1>l, <5>1
            <4>3. seeder.rows \cup {x} \in SUBSET Incident
                BY <1>a, <2>3
            <4> QED
                BY <1>a, <3>1, <4>1, <4>2, <4>3
        <3>4. KnowledgeTypeOK'
            BY <2>1, <2>3, <3>3 DEF KnowledgeTypeOK
        <3>5. SeederOK'
            <4>1. /\ seeder'.tenant = seeder.tenant /\ seeder'.next = seeder.next + 1
                  /\ seeder'.tx = seeder.tx
                BY <3>1
            <4>2. seeder'.tx \in 1 .. begun' /\ seeder'.next \in 1 .. Incidents
                BY <2>1, <2>2, <3>2, <4>1
            <4>3. seeder'.tenant # 0 /\ Seeding'
                BY <1>0, <2>1, <2>2, <4>1 DEF Seeding
            <4> QED
                BY <4>2, <4>3 DEF SeederOK
        <3> QED
            BY <3>4, <3>5
    <2> QED
        BY <2>4, <2>5
<1>5. CASE SeedFails \/ SeedCommit
    <2>1. seeder' = NotSeeding /\ UNCHANGED <<docs, begun, learning, corpus>>
        BY <1>5 DEF SeedFails, SeedCommit, stores
    <2>2. pastIncidents' \in {pastIncidents, pastIncidents \cup seeder.rows}
        BY <1>5 DEF SeedFails, SeedCommit, stores
    <2>3. KnowledgeTypeOK'
        BY <1>1, <2>1, <2>2 DEF KnowledgeTypeOK
    <2>4. SeederOK'
        BY <1>0, <2>1 DEF SeederOK, NotSeeding
    <2> QED
        BY <2>3, <2>4
<1>6. ASSUME NEW t \in Tenant, LearnRow(t)
      PROVE  KnowledgeTypeOK' /\ SeederOK'
    <2>1. /\ begun < MaxTransactions /\ begun' = begun + 1
          /\ pastIncidents' = pastIncidents \cup {<<t, 0, begun + 1>>}
          /\ learning' = {<<t, 0, begun + 1>>}
          /\ UNCHANGED <<docs, seeder, corpus>>
        BY <1>6 DEF LearnRow
    <2>2. <<t, 0, begun + 1>> \in Incident /\ <<t, 0, begun + 1>> \in Learned
        BY <1>0, <2>1 DEF Incident, Learned
    <2>3. begun' \in 0 .. MaxTransactions
        BY <1>0, <2>1
    <2>4. KnowledgeTypeOK'
        BY <2>1, <2>2, <2>3 DEF KnowledgeTypeOK
    <2>5. SeederOK'
        BY <1>0, <2>1 DEF SeederOK, Seeding
    <2> QED
        BY <2>4, <2>5
<1>7. CASE LearnDocument \/ LearnFails \/ Observe
    <2>1. /\ UNCHANGED <<pastIncidents, begun, seeder, corpus>>
          /\ docs' \in {docs, docs \cup learning}
          /\ learning' \in {learning, {}}
        BY <1>7 DEF LearnDocument, LearnFails, Observe, stores
    <2>2. Learned \subseteq Incident
        BY <1>0 DEF Learned, Incident
    <2>3. KnowledgeTypeOK'
        BY <2>1, <2>2 DEF KnowledgeTypeOK
    <2> QED
        BY <2>1, <2>3 DEF SeederOK, Seeding
<1>8. ASSUME NEW t \in Tenant, Searches(t)
      PROVE  KnowledgeTypeOK' /\ SeederOK'
    <2>1. /\ UNCHANGED <<pastIncidents, docs, begun, seeder, learning>>
          /\ \E C \in SUBSET Of(t, pastIncidents) :
                \/ corpus' = corpus
                \/ corpus' = [u \in DOMAIN corpus \cup {t} |-> IF u = t THEN C ELSE corpus[u]]
        BY <1>8, SearchReads
    <2>2. /\ DOMAIN corpus' \subseteq Tenant
          /\ \A u \in DOMAIN corpus' : corpus'[u] \subseteq Incident
        <3>1. /\ DOMAIN corpus \subseteq Tenant
              /\ \A u \in DOMAIN corpus : corpus[u] \subseteq Incident
            BY DEF KnowledgeTypeOK
        <3>2. Of(t, pastIncidents) \subseteq Incident
            BY DEF KnowledgeTypeOK, Of
        <3>3. CASE corpus' = corpus
            BY <3>1, <3>3
        <3>4. ASSUME NEW C \in SUBSET Of(t, pastIncidents),
                     corpus' = [u \in DOMAIN corpus \cup {t} |-> IF u = t THEN C ELSE corpus[u]]
              PROVE  /\ DOMAIN corpus' \subseteq Tenant
                     /\ \A u \in DOMAIN corpus' : corpus'[u] \subseteq Incident
            BY <3>1, <3>2, <3>4
        <3> QED
            BY <2>1, <3>3, <3>4
    <2>3. KnowledgeTypeOK'
        BY <2>1, <2>2 DEF KnowledgeTypeOK
    <2> QED
        BY <2>1, <2>3 DEF SeederOK, Seeding
<1>9. ASSUME NEW t \in Tenant, Expire(t)
      PROVE  KnowledgeTypeOK' /\ SeederOK'
    <2>1. /\ UNCHANGED <<pastIncidents, docs, begun, seeder, learning>>
          /\ corpus' = [u \in DOMAIN corpus \ {t} |-> corpus[u]]
        BY <1>9 DEF Expire, stores
    <2>2. KnowledgeTypeOK'
        BY <2>1 DEF KnowledgeTypeOK
    <2> QED
        BY <2>1, <2>2 DEF SeederOK, Seeding
<1>10. CASE UNCHANGED knowledgeVars
    BY <1>10 DEF knowledgeVars, stores, KnowledgeTypeOK, SeederOK, Seeding
<1> QED
    BY <1>2, <1>3, <1>4, <1>5, <1>6, <1>7, <1>8, <1>9, <1>10 DEF KnowledgeNext, Searches

\* A step that leaves the script and its incidents in the table alone.
LEMMA SeedingFrame ==
    ASSUME SeederRowsOK, SeededOnce, seeder' = seeder,
           \A t \in Tenant :
               Of(t, pastIncidents') \ Learned = Of(t, pastIncidents) \ Learned
    PROVE  SeederRowsOK' /\ SeededOnce'
BY DEF SeederRowsOK, SeededOnce, Midway, Seeding, Of

\* The rows of a tenant in two sets.
LEMMA OfUnion ==
    ASSUME NEW t, NEW S, NEW T
    PROVE  Of(t, S \cup T) = Of(t, S) \cup Of(t, T)
BY DEF Of

\* The seeded incidents of a tenant, one after the other.
LEMMA SeededIsSeeded ==
    ASSUME NEW t, NEW n
    PROVE  /\ Seeded(t, 0, n) = {}
           /\ \A m \in Nat \ {0} :
               /\ Seeded(t, m, n) # {}
               /\ Seeded(t, m, n) \ Learned = Seeded(t, m, n)
           /\ \A m \in Nat : Seeded(t, m + 1, n) = Seeded(t, m, n) \cup {<<t, m + 1, n>>}
<1>1. Seeded(t, 0, n) = {}
    BY DEF Seeded
<1>2. ASSUME NEW m \in Nat \ {0}
      PROVE  Seeded(t, m, n) # {} /\ Seeded(t, m, n) \ Learned = Seeded(t, m, n)
    <2>1. <<t, 1, n>> \in Seeded(t, m, n)
        BY DEF Seeded
    <2>2. \A x \in Seeded(t, m, n) : x \notin Learned
        BY DEF Seeded, Learned
    <2> QED
        BY <2>1, <2>2
<1>3. ASSUME NEW m \in Nat
      PROVE  Seeded(t, m + 1, n) = Seeded(t, m, n) \cup {<<t, m + 1, n>>}
    <2>1. 1 .. m + 1 = (1 .. m) \cup {m + 1}
        OBVIOUS
    <2> QED
        BY <2>1 DEF Seeded
<1> QED
    BY <1>1, <1>2, <1>3

\* What SeedIncident finds of the tenant in hand: the incidents before it in
\* its own transaction, none in the table.
LEMMA InHandIsFresh ==
    ASSUME KnowledgeTypeOK, SeederOK, SeederRowsOK, SeededOnce,
           NEW t \in Tenant, Seeding, Tenants[seeder.tenant] = t,
           seeder.next = 1 => ~ AlreadySeeded(t)
    PROVE  /\ Of(t, seeder.rows) = Seeded(t, seeder.next - 1, seeder.tx)
           /\ Of(t, pastIncidents) \ Learned = {}
<1>1. seeder.next \in 1 .. Incidents /\ Incidents \in Nat
    BY KnowledgeBaseAssumption DEF SeederOK
<1>2. CASE seeder.next > 1
    <2>1. Of(t, seeder.rows) = Seeded(t, seeder.next - 1, seeder.tx)
        BY <1>2 DEF SeederRowsOK, Midway
    <2>2. seeder.next - 1 \in Nat \ {0}
        BY <1>1, <1>2
    <2>3. Of(t, seeder.rows) # {}
        <3>1. \A m \in Nat \ {0} : Seeded(t, m, seeder.tx) # {}
            BY SeededIsSeeded
        <3> QED
            BY <2>1, <2>2, <3>1
    <2> QED
        BY <2>1, <2>3 DEF SeederRowsOK
<1>3. CASE seeder.next = 1
    <2>1. ASSUME NEW n,
                 Seeded(t, Incidents, n) \subseteq
                    Of(t, pastIncidents) \cup Of(t, seeder.rows)
          PROVE  FALSE
        <3>1. Of(t, pastIncidents \cup seeder.rows) =
                Of(t, pastIncidents) \cup Of(t, seeder.rows)
            BY OfUnion
        <3>2. Seeded(t, Incidents, n) \subseteq Of(t, pastIncidents \cup seeder.rows)
            BY <2>1, <3>1
        <3>3. AlreadySeeded(t)
            BY <3>2, CompleteRunIsNoticed
        <3> QED
            BY <1>3, <3>3
    <2>2. Of(t, seeder.rows) = {}
        <3>1. Of(t, seeder.rows) \in {{}, Seeded(t, Incidents, seeder.tx)}
            BY <1>3 DEF SeederRowsOK, Midway
        <3> QED
            BY <2>1, <3>1
    <2>3. Of(t, pastIncidents) \ Learned = {}
        <3>1. ASSUME NEW n, Of(t, pastIncidents) \ Learned = {t} \X (1 .. Incidents) \X {n}
              PROVE  FALSE
            <4>1. Seeded(t, Incidents, n) \subseteq Of(t, pastIncidents)
                BY <3>1 DEF Seeded
            <4> QED
                BY <2>1, <4>1
        <3> QED
            BY <3>1 DEF SeededOnce
    <2>4. seeder.next - 1 = 0
        BY <1>3
    <2> QED
        BY <2>2, <2>3, <2>4, SeededIsSeeded
<1> QED
    BY <1>1, <1>2, <1>3

\* The next incident of the tenant in hand joins the ones before it.
LEMMA SeedIncidentSeeds ==
    ASSUME KnowledgeTypeOK, SeederOK, SeederRowsOK, SeededOnce,
           NEW embedded \in BOOLEAN, SeedIncident(embedded)
    PROVE  SeederRowsOK' /\ SeededOnce'
<1> DEFINE t == Tenants[seeder.tenant]
           n == seeder.next
           x == <<t, n, seeder.tx>>
<1>1. /\ Seeding /\ (n = 1 => ~ AlreadySeeded(t)) /\ pastIncidents' = pastIncidents
      /\ seeder' = IF n = Incidents
                   THEN [seeder EXCEPT !.rows = @ \cup {x}, !.next = 1, !.tenant = @ + 1]
                   ELSE [seeder EXCEPT !.rows = @ \cup {x}, !.next = @ + 1]
    BY DEF SeedIncident
<1>2. n \in 1 .. Incidents /\ Incidents \in Nat /\ t \in Tenant
    BY <1>1, KnowledgeBaseAssumption DEF SeederOK, Seeding
<1>3. /\ Of(t, seeder.rows) = Seeded(t, n - 1, seeder.tx)
      /\ Of(t, pastIncidents) \ Learned = {}
    BY <1>1, <1>2, InHandIsFresh
<1>4. /\ seeder'.rows = seeder.rows \cup {x} /\ seeder'.tx = seeder.tx
      /\ n = Incidents => seeder'.next = 1
      /\ n # Incidents => seeder'.next = n + 1 /\ seeder'.tenant = seeder.tenant
    BY <1>1 DEF KnowledgeTypeOK
<1>5. x[1] = t
    OBVIOUS
<1>6. Of(t, seeder'.rows) = Seeded(t, n, seeder.tx)
    <2>1. Of(t, {x}) = {x}
        BY <1>5 DEF Of
    <2>2. Seeded(t, n, seeder.tx) = Seeded(t, n - 1, seeder.tx) \cup {x}
        <3>1. n - 1 \in Nat /\ (n - 1) + 1 = n
            BY <1>2
        <3> HIDE DEF t, n
        <3>2. ASSUME NEW m \in Nat
              PROVE  Seeded(t, m + 1, seeder.tx) =
                        Seeded(t, m, seeder.tx) \cup {<<t, m + 1, seeder.tx>>}
            BY SeededIsSeeded
        <3>3. Seeded(t, (n - 1) + 1, seeder.tx) =
                Seeded(t, n - 1, seeder.tx) \cup {<<t, (n - 1) + 1, seeder.tx>>}
            BY <3>1, <3>2
        <3> QED
            BY <3>1, <3>3
    <2> QED
        BY <1>3, <1>4, <2>1, <2>2, OfUnion
<1>7. \A u \in Tenant \ {t} : Of(u, seeder'.rows) = Of(u, seeder.rows)
    BY <1>4, <1>5 DEF Of
<1>8. SeededOnce'
    BY <1>1 DEF SeededOnce, Of
<1>9. ASSUME NEW u \in Tenant \ {t}
      PROVE  ~ Midway(u) /\ ~ Midway(u)'
    <2>1. ~ Midway(u)
        BY DEF Midway
    <2>2. ~ (seeder'.next > 1 /\ Tenants[seeder'.tenant] = u)
        BY <1>4
    <2> QED
        BY <2>1, <2>2 DEF Midway
<1> HIDE DEF t, n, x
<1> SUFFICES ASSUME NEW u \in Tenant
             PROVE  /\ Midway(u)' =>
                        Of(u, seeder'.rows) = Seeded(u, seeder'.next - 1, seeder'.tx)
                    /\ ~ Midway(u)' =>
                        Of(u, seeder'.rows) \in {{}, Seeded(u, Incidents, seeder'.tx)}
                    /\ Of(u, seeder'.rows) # {} => Of(u, pastIncidents') \ Learned = {}
    BY <1>8 DEF SeederRowsOK, Of
<1>10. CASE u = t
    <2>1. Of(u, pastIncidents') \ Learned = {}
        BY <1>1, <1>3, <1>10
    <2>2. CASE n = Incidents
        <3>1. ~ Midway(u)'
            BY <1>4, <2>2 DEF Midway
        <3> QED
            BY <1>4, <1>6, <1>10, <2>1, <2>2, <3>1
    <2>3. CASE n # Incidents
        <3>1. Midway(u)'
            <4>1. seeder'.next > 1 /\ seeder'.tenant = seeder.tenant
                BY <1>2, <1>4, <2>3
            <4> QED
                BY <1>1, <1>10, <4>1 DEF Midway, Seeding, t
        <3>2. seeder'.next - 1 = n
            BY <1>2, <1>4, <2>3
        <3> QED
            BY <1>4, <1>6, <1>10, <2>1, <3>1, <3>2
    <2> QED
        BY <2>2, <2>3
<1>11. CASE u # t
    <2>1. Of(u, seeder'.rows) = Of(u, seeder.rows) /\ ~ Midway(u) /\ ~ Midway(u)'
        BY <1>7, <1>9, <1>11
    <2>2. /\ Of(u, seeder.rows) \in {{}, Seeded(u, Incidents, seeder.tx)}
          /\ Of(u, seeder.rows) # {} => Of(u, pastIncidents) \ Learned = {}
        BY <2>1 DEF SeederRowsOK
    <2> QED
        BY <1>1, <1>4, <2>1, <2>2
<1> QED
    BY <1>10, <1>11

\* Every step keeps a seeding all or nothing.
LEMMA SeedingStep ==
    ASSUME KnowledgeTypeOK, SeederOK, SeederRowsOK, SeededOnce,
           BackedOK, [KnowledgeNext]_knowledgeVars
    PROVE  SeederRowsOK' /\ SeededOnce'
<1>1. CASE SeedStart
    <2>1. /\ seeder' = [NotSeeding EXCEPT !.tenant = 1, !.tx = begun + 1]
          /\ pastIncidents' = pastIncidents
        BY <1>1 DEF SeedStart
    <2>2. seeder'.next = 1 /\ seeder'.rows = {}
        BY <2>1 DEF NotSeeding
    <2> QED
        BY <2>1, <2>2 DEF SeederRowsOK, SeededOnce, Midway, Of
<1>2. CASE SkipTenant
    <2>1. /\ seeder.next = 1 /\ seeder' = [seeder EXCEPT !.tenant = @ + 1]
          /\ pastIncidents' = pastIncidents
        BY <1>2 DEF SkipTenant, stores
    <2>2. seeder'.next = 1 /\ seeder'.rows = seeder.rows /\ seeder'.tx = seeder.tx
        BY <2>1 DEF KnowledgeTypeOK
    <2>3. \A t \in Tenant : ~ Midway(t) /\ ~ Midway(t)'
        BY <2>1, <2>2 DEF Midway
    <2>4. SeededOnce'
        BY <2>1 DEF SeededOnce, Of
    <2>5. SeederRowsOK'
        <3> SUFFICES ASSUME NEW t \in Tenant
                     PROVE  /\ Of(t, seeder'.rows) \in {{}, Seeded(t, Incidents, seeder'.tx)}
                            /\ Of(t, seeder'.rows) # {} =>
                                Of(t, pastIncidents') \ Learned = {}
            BY <2>3 DEF SeederRowsOK, Of
        <3> QED
            BY <2>1, <2>2, <2>3 DEF SeederRowsOK
    <2> QED
        BY <2>4, <2>5
<1>3. ASSUME NEW embedded \in BOOLEAN, SeedIncident(embedded)
      PROVE  SeederRowsOK' /\ SeededOnce'
    BY <1>3, SeedIncidentSeeds
<1>4. CASE SeedFails
    <2>1. seeder'.next = 1 /\ seeder'.rows = {} /\ pastIncidents' = pastIncidents
        BY <1>4 DEF SeedFails, NotSeeding, stores
    <2> QED
        BY <2>1 DEF SeederRowsOK, SeededOnce, Midway, Of
<1>5. CASE SeedCommit
    <2>1. /\ seeder.tenant = Len(Tenants) + 1 /\ pastIncidents' = pastIncidents \cup seeder.rows
          /\ seeder'.next = 1 /\ seeder'.rows = {}
        BY <1>5 DEF SeedCommit, NotSeeding
    <2>2. SeederRowsOK'
        BY <2>1 DEF SeederRowsOK, Midway, Of
    <2>3. ~ Seeding /\ seeder.tenant # 0
        <3>1. DOMAIN Tenants = 1 .. Len(Tenants) /\ Len(Tenants) \in Nat
            BY KnowledgeBaseAssumption
        <3> QED
            BY <2>1, <3>1 DEF Seeding
    <2>4. seeder.tx \in 1 .. MaxTransactions /\ Incidents \in Nat \ {0}
        BY <2>3, KnowledgeBaseAssumption DEF SeederOK, KnowledgeTypeOK
    <2>5. ASSUME NEW t \in Tenant, Of(t, pastIncidents') \ Learned # {}
          PROVE  \E n \in 1 .. MaxTransactions :
                    Of(t, pastIncidents') \ Learned = {t} \X (1 .. Incidents) \X {n}
        <3>1. Of(t, pastIncidents') = Of(t, pastIncidents) \cup Of(t, seeder.rows)
            BY <2>1, OfUnion
        <3>2. Of(t, seeder.rows) \in {{}, Seeded(t, Incidents, seeder.tx)}
            BY <2>3 DEF SeederRowsOK, Midway
        <3>3. CASE Of(t, seeder.rows) = {}
            BY <2>5, <3>1, <3>3 DEF SeededOnce
        <3>4. CASE Of(t, seeder.rows) # {}
            <4>1. Of(t, pastIncidents) \ Learned = {}
                BY <3>4 DEF SeederRowsOK
            <4>2. Of(t, pastIncidents') \ Learned =
                    Seeded(t, Incidents, seeder.tx) \ Learned
                BY <3>1, <3>2, <3>4, <4>1
            <4>3. Seeded(t, Incidents, seeder.tx) \ Learned = Seeded(t, Incidents, seeder.tx)
                BY <2>4, SeededIsSeeded
            <4> QED
                BY <2>4, <4>2, <4>3 DEF Seeded
        <3> QED
            BY <3>3, <3>4
    <2>6. SeededOnce'
        BY <2>5 DEF SeededOnce, Of
    <2> QED
        BY <2>2, <2>6
<1>6. ASSUME NEW u \in Tenant, LearnRow(u)
      PROVE  SeederRowsOK' /\ SeededOnce'
    <2>1. /\ begun < MaxTransactions /\ seeder' = seeder
          /\ pastIncidents' = pastIncidents \cup {<<u, 0, begun + 1>>}
        BY <1>6 DEF LearnRow
    <2>2. <<u, 0, begun + 1>> \in Learned
        <3>1. begun \in Nat /\ MaxTransactions \in Nat
            BY KnowledgeBaseAssumption DEF KnowledgeTypeOK
        <3>2. begun + 1 \in 1 .. MaxTransactions
            BY <2>1, <3>1
        <3> QED
            BY <3>2 DEF Learned
    <2>3. \A t \in Tenant :
            Of(t, pastIncidents') \ Learned = Of(t, pastIncidents) \ Learned
        BY <2>1, <2>2 DEF Of
    <2> QED
        BY <2>1, <2>3, SeedingFrame
<1>7. CASE LearnDocument \/ LearnFails \/ Observe \/ UNCHANGED knowledgeVars
    <2>1. UNCHANGED <<seeder, pastIncidents>>
        BY <1>7 DEF LearnDocument, LearnFails, Observe, knowledgeVars, stores
    <2> QED
        BY <2>1, SeedingFrame
<1>8. ASSUME NEW t \in Tenant, Searches(t) \/ Expire(t)
      PROVE  SeederRowsOK' /\ SeededOnce'
    <2>1. UNCHANGED <<seeder, pastIncidents>>
        BY <1>8, SearchReads DEF Expire, stores
    <2> QED
        BY <2>1, SeedingFrame
<1> QED
    BY <1>1, <1>2, <1>3, <1>4, <1>5, <1>6, <1>7, <1>8 DEF KnowledgeNext, Searches

-----------------------------------------------------------------------------
(***************************************************************************)
(* The knowledge base: rows behind documents, corpora and answers          *)
(***************************************************************************)

\* Rows are never deleted, and a learned document has its row before it.
LEMMA BackedStep ==
    ASSUME KnowledgeTypeOK, SeederOK, BackedOK, [KnowledgeNext]_knowledgeVars
    PROVE  BackedOK'
<1>1. CASE SeedStart \/ SkipTenant \/ SeedFails \/ Observe \/ UNCHANGED knowledgeVars
    <2>1. UNCHANGED <<pastIncidents, docs, learning, corpus>>
        BY <1>1 DEF SeedStart, SkipTenant, SeedFails, Observe, knowledgeVars, stores
    <2> QED
        BY <2>1 DEF BackedOK, Of
<1>2. CASE SeedCommit
    <2>1. pastIncidents \subseteq pastIncidents' /\ UNCHANGED <<docs, learning, corpus>>
        BY <1>2 DEF SeedCommit
    <2> QED
        BY <2>1 DEF BackedOK, Of
<1>3. ASSUME NEW embedded \in BOOLEAN, SeedIncident(embedded)
      PROVE  BackedOK'
    <2> DEFINE x == <<Tenants[seeder.tenant], seeder.next, seeder.tx>>
    <2>1. docs' \in {docs, docs \cup {x}} /\ UNCHANGED <<pastIncidents, learning, corpus>>
        BY <1>3 DEF SeedIncident
    <2>2. x \notin Learned
        <3>1. seeder.next # 0
            BY KnowledgeBaseAssumption DEF SeederOK
        <3> QED
            BY <3>1 DEF Learned
    <2> HIDE DEF x
    <2> QED
        BY <2>1, <2>2 DEF BackedOK, Of
<1>4. ASSUME NEW t \in Tenant, LearnRow(t)
      PROVE  BackedOK'
    BY <1>4 DEF LearnRow, BackedOK, Of
<1>5. CASE LearnDocument \/ LearnFails
    <2>1. /\ UNCHANGED <<pastIncidents, corpus>> /\ learning' = {}
          /\ docs' \in {docs, docs \cup learning}
        BY <1>5 DEF LearnDocument, LearnFails, stores
    <2> QED
        BY <2>1 DEF BackedOK, Of
<1>6. ASSUME NEW t \in Tenant, Searches(t)
      PROVE  BackedOK'
    <2>1. /\ UNCHANGED <<pastIncidents, docs, learning>>
          /\ \E C \in SUBSET Of(t, pastIncidents) :
                \/ corpus' = corpus
                \/ corpus' = [u \in DOMAIN corpus \cup {t} |-> IF u = t THEN C ELSE corpus[u]]
        BY <1>6, SearchReads
    <2>2. \A u \in DOMAIN corpus' : corpus'[u] \subseteq Of(u, pastIncidents)
        BY <2>1 DEF BackedOK
    <2> QED
        BY <2>1, <2>2 DEF BackedOK, Of
<1>7. ASSUME NEW t \in Tenant, Expire(t)
      PROVE  BackedOK'
    BY <1>7 DEF Expire, stores, BackedOK, Of
<1> QED
    BY <1>1, <1>2, <1>3, <1>4, <1>5, <1>6, <1>7 DEF KnowledgeNext, Searches

\* Every hit of an answer is of its tenant and, unless the script left it in
\* Chroma, of a row.
LEMMA AnswerStep ==
    ASSUME KnowledgeTypeOK, BackedOK, AnswersAreBacked, [KnowledgeNext]_knowledgeVars
    PROVE  AnswersAreBacked'
<1>1. ASSUME answer' = Silent
      PROVE  AnswersAreBacked'
    BY <1>1 DEF AnswersAreBacked
<1>2. CASE UNCHANGED knowledgeVars
    BY <1>2 DEF knowledgeVars, stores, AnswersAreBacked, Hits
<1>3. ASSUME NEW t \in Tenant, Searches(t)
      PROVE  AnswersAreBacked'
    <2>1. PICK C \in SUBSET Of(t, pastIncidents) : Retrieve(t, C)
        BY <1>3, SearchReads
    <2>2. PICK bm25 \in BM25Hits(C), vector \in VectorHits(Of(t, docs)) :
            \E shown \in Reranked(Fused(bm25, vector)) :
                answer' = [tenant |-> t, bm25 |-> bm25, vector |-> vector, shown |-> shown]
        BY <2>1 DEF Retrieve
    <2>3. answer'.tenant = t /\ answer'.bm25 = bm25 /\ answer'.vector = vector
        BY <2>2
    <2>4. pastIncidents' = pastIncidents
        BY <1>3, SearchReads
    <2>5. ASSUME NEW h \in ToSet(bm25)
          PROVE  h.of[1] = t /\ h.of \in pastIncidents
        BY <2>5, BM25HitsAreOf DEF Of
    <2>6. ASSUME NEW h \in ToSet(vector)
          PROVE  h.of[1] = t /\ (h.of \in pastIncidents \/ h.of \notin Learned)
        <3>1. h.of \in Of(t, docs)
            BY <2>6, VectorHitsAreOf
        <3> QED
            BY <3>1 DEF Of, BackedOK
    <2>7. \A h \in ToSet(bm25) \cup ToSet(vector) :
            /\ h.of[1] = t
            /\ \/ h.of \in pastIncidents
               \/ h.of \notin Learned /\ h \notin ToSet(bm25)
        BY <2>5, <2>6
    <2> QED
        BY <2>3, <2>4, <2>7 DEF AnswersAreBacked, Hits, ToSet
<1> QED
    <2>1. CASE SeedStart \/ SkipTenant \/ SeedFails \/ SeedCommit
        BY <1>1, <2>1 DEF SeedStart, SkipTenant, SeedFails, SeedCommit
    <2>2. CASE (\E embedded \in BOOLEAN : SeedIncident(embedded)) \/ Observe
        BY <1>1, <2>2 DEF SeedIncident, Observe
    <2>3. CASE LearnDocument \/ LearnFails \/ \E t \in Tenant : LearnRow(t) \/ Expire(t)
        BY <1>1, <2>3 DEF LearnDocument, LearnFails, LearnRow, Expire
    <2> QED
        BY <1>2, <1>3, <2>1, <2>2, <2>3 DEF KnowledgeNext, Searches

\* An answer is fused from lists that the two stages returned.
LEMMA RankingStep ==
    ASSUME KnowledgeTypeOK, BackedOK, RankingsOK, [KnowledgeNext]_knowledgeVars
    PROVE  RankingsOK'
<1>1. ASSUME answer' = Silent
      PROVE  RankingsOK'
    BY <1>1 DEF RankingsOK
<1>2. CASE UNCHANGED knowledgeVars
    BY <1>2 DEF knowledgeVars, stores, RankingsOK
<1>3. ASSUME NEW t \in Tenant, Searches(t)
      PROVE  RankingsOK'
    <2>1. PICK C \in SUBSET Of(t, pastIncidents) : Retrieve(t, C)
        BY <1>3, SearchReads
    <2>2. PICK bm25 \in BM25Hits(C), vector \in VectorHits(Of(t, docs)) :
            \E shown \in Reranked(Fused(bm25, vector)) :
                answer' = [tenant |-> t, bm25 |-> bm25, vector |-> vector, shown |-> shown]
        BY <2>1 DEF Retrieve
    <2>3. answer'.bm25 = bm25 /\ answer'.vector = vector
        BY <2>2
    <2>4. pastIncidents \in SUBSET Incident /\ docs \in SUBSET Incident
        BY DEF KnowledgeTypeOK
    <2>5. IsFiniteSet(Of(t, pastIncidents)) /\ IsFiniteSet(Of(t, docs))
        BY <2>4, TenantIsFinite
    <2>6. /\ C \in SUBSET Incident /\ IsFiniteSet(C)
          /\ Of(t, docs) \in SUBSET Incident
        BY <2>4, <2>5, FS_Subset DEF Of
    <2>7. TopK \in Nat
        BY KnowledgeBaseAssumption
    <2>8. Ranking(bm25) /\ Ranking(vector)
        BY <2>5, <2>6, <2>7, HitsAreRankings
    <2> QED
        BY <2>3, <2>8 DEF RankingsOK
<1> QED
    <2>1. CASE SeedStart \/ SkipTenant \/ SeedFails \/ SeedCommit
        BY <1>1, <2>1 DEF SeedStart, SkipTenant, SeedFails, SeedCommit
    <2>2. CASE (\E embedded \in BOOLEAN : SeedIncident(embedded)) \/ Observe
        BY <1>1, <2>2 DEF SeedIncident, Observe
    <2>3. CASE LearnDocument \/ LearnFails \/ \E t \in Tenant : LearnRow(t) \/ Expire(t)
        BY <1>1, <2>3 DEF LearnDocument, LearnFails, LearnRow, Expire
    <2> QED
        BY <1>2, <1>3, <2>1, <2>2, <2>3 DEF KnowledgeNext, Searches

-----------------------------------------------------------------------------
(***************************************************************************)
(* The knowledge base: the theorems                                        *)
(***************************************************************************)

\* The script, the self learner, the searches and the two stores keep the
\* invariant in every reachable state.
THEOREM KnowledgeInvariant == KnowledgeSpec => []KnowledgeInv
<1>1. KnowledgeInit => KnowledgeInv
    <2> SUFFICES ASSUME KnowledgeInit
                 PROVE  KnowledgeInv
        OBVIOUS
    <2>0. /\ Len(Tenants) \in Nat /\ Incidents \in Nat \ {0} /\ MaxTransactions \in Nat
        BY KnowledgeBaseAssumption
    <2>1. /\ pastIncidents = {} /\ docs = {} /\ learning = {} /\ corpus = << >> /\ answer = Silent
          /\ begun = 0
          /\ seeder = [tenant |-> 0, next |-> 1, tx |-> 0, rows |-> {}] /\ seeder = NotSeeding
        BY DEF KnowledgeInit, NotSeeding
    <2>2. KnowledgeTypeOK
        BY <2>0, <2>1 DEF KnowledgeTypeOK
    <2>3. SeederOK
        BY <2>0, <2>1 DEF SeederOK
    <2>4. seeder.next = 1 /\ seeder.rows = {}
        BY <2>1
    <2>5. SeederRowsOK /\ SeededOnce
        BY <2>1, <2>4 DEF SeederRowsOK, SeededOnce, Midway, Of
    <2>6. BackedOK /\ RankingsOK /\ AnswersAreBacked
        BY <2>1 DEF BackedOK, RankingsOK, AnswersAreBacked
    <2> QED
        BY <2>2, <2>3, <2>5, <2>6 DEF KnowledgeInv
<1>2. KnowledgeInv /\ [KnowledgeNext]_knowledgeVars => KnowledgeInv'
    BY KnowledgeTypeStep, SeedingStep, BackedStep, RankingStep, AnswerStep DEF KnowledgeInv
<1> QED
    BY <1>1, <1>2, PTL DEF KnowledgeSpec

\* However often the seed script runs, fails midway or runs after the self
\* learner, a tenant's seeded incidents are in past_incidents whole, of one
\* run, or not at all: the script counts a tenant's rows before it inserts
\* them, and one transaction commits them.
THEOREM SeedingIsIdempotent == KnowledgeSpec => []SeededOnce
<1>1. KnowledgeInv => SeededOnce
    BY DEF KnowledgeInv
<1> QED
    BY <1>1, KnowledgeInvariant, PTL

\* A search answers with incidents of its tenant alone, those of BM25 are rows
\* of past_incidents, and a hit of Chroma that the self learner wrote has its
\* row: what has none is of a run of the seed script that did not commit.
THEOREM AnswersHaveRows == KnowledgeSpec => []AnswersAreBacked
<1>1. KnowledgeInv => AnswersAreBacked
    BY DEF KnowledgeInv
<1> QED
    BY <1>1, KnowledgeInvariant, PTL

\* Fusion keeps its promise: in every answer, what both stages found stands
\* before what only one found, whatever the ranks, since two shares of the
\* denominator are more than one as long as TopK < K + 2 (10 and 60 in the
\* code).  Learned documents, whose ids are all empty, are kept out of it.
THEOREM BothListsComeFirst == KnowledgeSpec => []BothListsFirst
<1>1. KnowledgeInv => BothListsFirst
    BY RankingsPutBothFirst DEF KnowledgeInv
<1> QED
    BY <1>1, KnowledgeInvariant, PTL

=============================================================================
