------------------------------ MODULE RcaAgent ------------------------------
(***************************************************************************)
(* The RCA agent and those who watch it.  The agent takes incidents from   *)
(* the topic incidents.ready, asks the LLM in a bounded loop of tool calls *)
(* (ReAct), runs the loop again when the LLM's rate limit is hit, streams  *)
(* its steps to the topic rca.stream, and ends each investigation with a   *)
(* row of rca_results and a message of agent.results, or with a message of *)
(* rca.dlq and a row of status 'failed'.  The API gateway copies the       *)
(* stream of one investigation to a browser (Server-Sent Events).          *)
(*                                                                         *)
(* An rca_id is fresh per message taken (the hint of a manual trigger is   *)
(* never sent: the trigger's INSERT fails); rca_ids are numbered here in   *)
(* the order of their creation.  The offsets of the group are committed in *)
(* the background, whatever has become of the messages.                    *)
(***************************************************************************)
EXTENDS Naturals, Sequences

CONSTANTS
    Messages,       \* topic incidents.ready: a sequence of Kind
    MaxIterations,  \* max_iterations of the ReAct loop
    MaxAttempts,    \* stop_after_attempt
    MaxScanned,     \* MAX_MESSAGES_SCANNED of the gateway
    Client,         \* connections to GET /api/v1/stream/{rca_id}
    MaxCalls,       \* bound of the model: tool calls in one answer of the LLM
    MaxEnds         \* bound of the model: stops and crashes of the agent

Kind == {"valid", "invalid", "undecodable"}

ASSUME RcaAssumption ==
    /\ Messages \in Seq(Kind)
    /\ MaxIterations \in Nat \ {0}
    /\ MaxAttempts \in Nat \ {0}
    /\ MaxScanned \in Nat
    /\ MaxCalls \in Nat \ {0}
    /\ MaxEnds \in Nat

VARIABLES
    (***********************************************************************)
    (* The agent process                                                   *)
    (***********************************************************************)
    running,
    position,       \* the next offset its consumer returns
    committed,      \* the offset of its group, as of the last end
    pc,             \* the await the consume loop is in
    attempt,        \* of tenacity
    iteration,      \* of the ReAct loop
    pending,        \* tool calls of the LLM's answer not yet run
    steps,          \* reasoning_steps of this run of the loop
    ends,           \* stops and crashes so far
    (***********************************************************************)
    (* Kafka and PostgreSQL                                                *)
    (***********************************************************************)
    rca,            \* per rca_id, the offset of its message
    stream,         \* topic rca.stream
    rows,           \* per rca_id, the status of its row of rca_results
    results,        \* messages of agent.results
    dlq,            \* rca_ids of the messages of rca.dlq
    (***********************************************************************)
    (* The gateway                                                         *)
    (***********************************************************************)
    connection      \* per client, its event_generator

runVars == <<attempt, iteration, pending, steps>>
offsetVars == <<running, position, committed, ends>>
storeVars == <<rca, rows, results, dlq>>
vars == <<offsetVars, pc, runVars, storeVars, stream, connection>>

NoRca == 0
Rca == Len(rca)         \* the rca_id in hand, unless pc is "poll"

Complete(r) == [rca |-> r, type |-> "complete", number |-> 0]

\* 'shown' are the offsets of the messages that were yielded to the browser,
\* in the order of the offsets.
NoConnection == [rca |-> NoRca, open |-> FALSE, scanned |-> 0, shown |-> {}, end |-> "none"]

Message == [rca : Nat, type : {"step", "complete"}, number : Nat]

ReasoningStep == [attempt : Nat, number : Nat]

Connection ==
    [rca : Nat, open : BOOLEAN, scanned : Nat, shown : SUBSET Nat,
     end : {"none", "complete", "timeout", "limit", "error"}]

TypeOK ==
    /\ running \in BOOLEAN
    /\ position \in 1 .. Len(Messages) + 1
    /\ committed \in 1 .. Len(Messages) + 1
    /\ pc \in {"poll", "dead", "llm", "tools", "backoff", "complete",
               "save", "publish", "dlq", "saveFailure"}
    /\ attempt \in 0 .. MaxAttempts
    /\ iteration \in 0 .. MaxIterations
    /\ pending \in 0 .. MaxCalls
    /\ steps \in Seq(ReasoningStep)
    /\ ends \in 0 .. MaxEnds
    /\ rca \in Seq(DOMAIN Messages)
    /\ stream \in Seq(Message)
    /\ rows \in [DOMAIN rca -> {"none", "success", "failed"}]
    /\ results \subseteq
        [rca : DOMAIN rca, offset : DOMAIN Messages, attempt : Nat, steps : Seq(ReasoningStep)]
    /\ dlq \subseteq {NoRca} \cup DOMAIN rca
    /\ connection \in [Client -> Connection]

\* What one run of RCAAgent.run starts from.
FreshRun ==
    /\ iteration' = 0
    /\ pending' = 0
    /\ steps' = << >>

NoRun ==
    /\ FreshRun
    /\ attempt' = 0

Init ==
    /\ running = TRUE
    /\ position = 1
    /\ committed = 1
    /\ pc = "poll"
    /\ attempt = 0
    /\ iteration = 0
    /\ pending = 0
    /\ steps = << >>
    /\ ends = 0
    /\ rca = << >>
    /\ stream = << >>
    /\ rows = << >>
    /\ results = {}
    /\ dlq = {}
    /\ connection = [c \in Client |-> NoConnection]

-----------------------------------------------------------------------------
(***************************************************************************)
(* KafkaIncidentHandler.consume_loop and the head of _process_message      *)
(***************************************************************************)

Take(kind) ==
    /\ running
    /\ pc = "poll"
    /\ position <= Len(Messages)
    /\ Messages[position] = kind
    /\ position' = position + 1
    /\ UNCHANGED <<running, committed, ends, results, dlq, stream, connection>>

\* An investigation begins under a fresh rca_id.
TakeIncident ==
    /\ Take("valid")
    /\ rca' = Append(rca, position)
    /\ rows' = Append(rows, "none")
    /\ attempt' = 1
    /\ FreshRun
    /\ pc' = "llm"

\* Not an IncidentPayload: to the DLQ without an rca_id.
TakeInvalid ==
    /\ Take("invalid")
    /\ pc' = "dlq"
    /\ UNCHANGED <<attempt, iteration, pending, steps, rca, rows>>

\* decode raises outside every try: the task ends, and main does not wait
\* for it.
TakeUndecodable ==
    /\ Take("undecodable")
    /\ pc' = "dead"
    /\ UNCHANGED <<runVars, rca, rows>>

-----------------------------------------------------------------------------
(***************************************************************************)
(* RCAAgent.run under _run_with_retry                                      *)
(***************************************************************************)

RunStep == running /\ UNCHANGED <<offsetVars, storeVars, connection>>

\* The next chat.completions.create is answered, or raises.
CallLlm ==
    /\ RunStep
    /\ pc = "llm"
    /\ iteration < MaxIterations
    /\ iteration' = iteration + 1
    /\ UNCHANGED <<steps, stream>>

AnswerWithToolCalls ==
    /\ CallLlm
    /\ \E n \in 1 .. MaxCalls : pending' = n
    /\ pc' = "tools"
    /\ UNCHANGED attempt

\* A tool is run or unknown; either way its step is kept, and emitted by a
\* producer that does not wait for the broker: it may be lost.
RunTool ==
    /\ RunStep
    /\ pc = "tools"
    /\ pending' = pending - 1
    /\ steps' = Append(steps, [attempt |-> attempt, number |-> iteration])
    /\ \/ stream' = Append(stream, [rca |-> Rca, type |-> "step", number |-> iteration])
       \/ UNCHANGED stream
    /\ pc' = IF pending = 1 THEN "llm" ELSE "tools"
    /\ UNCHANGED <<attempt, iteration>>

\* The arguments of the tool call are no JSON.
ParseNoArguments ==
    /\ RunStep
    /\ pc = "tools"
    /\ pc' = "dlq"
    /\ UNCHANGED <<attempt, iteration, pending, steps, stream>>

\* 'stop' with an RCAOutput that is confident, or that comes last.
Accept ==
    /\ CallLlm
    /\ pc' = "complete"
    /\ UNCHANGED <<attempt, pending>>

\* Mutation of AskAgain: the sentinel is published with every final answer.
AskAgainAfterComplete ==
    /\ RunStep
    /\ pc = "llm"
    /\ iteration + 1 < MaxIterations
    /\ iteration' = iteration + 1
    /\ stream' = Append(stream, Complete(Rca))
    /\ UNCHANGED <<pc, attempt, pending, steps>>

\* 'stop' below the confidence threshold, or any other finish_reason before
\* the last iteration.
AskAgain ==
    /\ CallLlm
    /\ iteration' < MaxIterations
    /\ UNCHANGED <<pc, attempt, pending>>

\* The last answer is neither a tool call nor a stop.
FinishOtherwise ==
    /\ CallLlm
    /\ iteration' = MaxIterations
    /\ UNCHANGED <<pc, attempt, pending>>

\* A final answer that is no RCAOutput, an error of the API, or its rate
\* limit once too often: an exception leaves the agent, for the DLQ.
RunFails ==
    /\ CallLlm
    /\ pc' = "dlq"
    /\ UNCHANGED <<attempt, pending>>

\* LowConfidenceError after the loop.
Exhausted ==
    /\ RunStep
    /\ pc = "llm"
    /\ iteration = MaxIterations
    /\ pc' = "dlq"
    /\ UNCHANGED <<attempt, iteration, pending, steps, stream>>

RateLimited ==
    /\ CallLlm
    /\ attempt < MaxAttempts
    /\ pc' = "backoff"
    /\ UNCHANGED <<attempt, pending>>

\* Mutation of Retry: the attempts are not counted.
RetryForever ==
    /\ RunStep
    /\ pc = "backoff"
    /\ pc' = "llm"
    /\ FreshRun
    /\ UNCHANGED <<attempt, stream>>

\* Mutation of Retry: the agent keeps the steps of the attempt before.
RetryWithSteps ==
    /\ RunStep
    /\ pc = "backoff"
    /\ attempt' = attempt + 1
    /\ pc' = "llm"
    /\ iteration' = 0
    /\ UNCHANGED <<pending, steps, stream>>

\* agent.run from its beginning.
Retry ==
    /\ RunStep
    /\ pc = "backoff"
    /\ attempt' = attempt + 1
    /\ pc' = "llm"
    /\ FreshRun
    /\ UNCHANGED stream

-----------------------------------------------------------------------------
(***************************************************************************)
(* The tail of _process_message                                            *)
(***************************************************************************)

\* publish_complete: the sentinel, before the observers; failures are logged.
PublishComplete ==
    /\ RunStep
    /\ pc = "complete"
    /\ stream' \in {Append(stream, Complete(Rca)), stream}
    /\ pc' = "save"
    /\ UNCHANGED runVars

TailStep == running /\ UNCHANGED <<offsetVars, rca, stream, connection>>

\* PostgresResultSaver, whose failure the loop over the observers only logs.
SaveResult ==
    /\ TailStep
    /\ pc = "save"
    /\ rows' \in {[rows EXCEPT ![Rca] = "success"], rows}
    /\ pc' = "publish"
    /\ UNCHANGED <<runVars, results, dlq>>

ResultOf == [rca |-> Rca, offset |-> rca[Rca], attempt |-> attempt, steps |-> steps]

\* KafkaResultPublisher, the last observer.
PublishResult ==
    /\ TailStep
    /\ pc = "publish"
    /\ results' \in {results \union {ResultOf}, results}
    /\ NoRun
    /\ pc' = "poll"
    /\ UNCHANGED <<rows, dlq>>

\* _publish_dlq; the message has an rca_id once an investigation has begun.
PublishDlq ==
    /\ TailStep
    /\ pc = "dlq"
    /\ dlq' \in {dlq \union {IF attempt = 0 THEN NoRca ELSE Rca}, dlq}
    /\ IF attempt = 0
       THEN pc' = "poll" /\ NoRun
       ELSE pc' = "saveFailure" /\ UNCHANGED runVars
    /\ UNCHANGED <<rows, results>>

\* _save_failure.
SaveFailure ==
    /\ TailStep
    /\ pc = "saveFailure"
    /\ rows' \in {[rows EXCEPT ![Rca] = "failed"], rows}
    /\ NoRun
    /\ pc' = "poll"
    /\ UNCHANGED <<results, dlq>>

-----------------------------------------------------------------------------
(***************************************************************************)
(* main: the end of the process, and its next start                        *)
(***************************************************************************)

\* A crash, a stop between two messages, or one that does not get its turn
\* within 30 seconds and cancels the task.  The consumer has committed some
\* offset up to the position, which includes the message in hand.
End ==
    /\ running
    /\ ends < MaxEnds
    /\ running' = FALSE
    /\ committed' \in committed .. position
    /\ pc' = "poll"
    /\ NoRun
    /\ ends' = ends + 1
    /\ UNCHANGED <<position, storeVars, stream, connection>>

Start ==
    /\ ~running
    /\ running' = TRUE
    /\ position' = committed
    /\ UNCHANGED <<committed, ends, pc, runVars, storeVars, stream, connection>>

-----------------------------------------------------------------------------
(***************************************************************************)
(* api-gateway: stream_investigation_steps                                 *)
(***************************************************************************)

GatewayStep == UNCHANGED <<offsetVars, pc, runVars, storeVars, stream>>

\* A consumer group of its own, which begins at the oldest message.
OpenStream(c, r) ==
    /\ connection[c] = NoConnection
    /\ connection' = [connection EXCEPT ![c].rca = r, ![c].open = TRUE]
    /\ GatewayStep

CloseStream(c, end) ==
    /\ connection' = [connection EXCEPT ![c] = [NoConnection EXCEPT !.end = end]]
    /\ GatewayStep

\* The next message of the topic, shown if it is of this investigation.
ReadStream(c) ==
    LET offset == connection[c].scanned + 1
        message == stream[offset]
        own == message.rca = connection[c].rca
        last == own /\ message.type = "complete"
    IN  /\ connection[c].open
        /\ connection[c].scanned < MaxScanned
        /\ connection[c].scanned < Len(stream)
        /\ connection' = [connection EXCEPT
                ![c].scanned = offset,
                ![c].shown = IF own THEN @ \cup {offset} ELSE @,
                ![c].open = ~last,
                ![c].end = IF last THEN "complete" ELSE @]
        /\ GatewayStep

\* No message for 60 seconds.
TimeOut(c) ==
    /\ connection[c].open
    /\ connection[c].scanned = Len(stream)
    /\ connection[c].scanned < MaxScanned
    /\ CloseStream(c, "timeout")

ReachLimit(c) ==
    /\ connection[c].open
    /\ connection[c].scanned = MaxScanned
    /\ CloseStream(c, "limit")

\* The broker fails, or the browser goes away.
BreakStream(c) ==
    /\ connection[c].open
    /\ CloseStream(c, "error")

-----------------------------------------------------------------------------
RunAgent ==
    \/ AnswerWithToolCalls \/ RunTool \/ ParseNoArguments
    \/ Accept \/ AskAgain \/ FinishOtherwise \/ RunFails
    \/ Exhausted \/ RateLimited \/ Retry

Agent ==
    \/ TakeIncident \/ TakeInvalid \/ TakeUndecodable
    \/ RunAgent
    \/ PublishComplete \/ SaveResult \/ PublishResult
    \/ PublishDlq \/ SaveFailure

Gateway(c) == ReadStream(c) \/ TimeOut(c) \/ ReachLimit(c)

Next ==
    \/ Agent
    \/ End
    \/ Start
    \/ \E c \in Client :
         \/ \E r \in DOMAIN rca : OpenStream(c, r)
         \/ Gateway(c)
         \/ BreakStream(c)

Spec == Init /\ [][Next]_vars

\* Calls are answered or time out, the container is restarted, and a stream
\* ends after 60 silent seconds.
FairSpec ==
    /\ Spec
    /\ WF_vars(Agent)
    /\ WF_vars(Start)
    /\ \A c \in Client : WF_vars(Gateway(c))

-----------------------------------------------------------------------------
(***************************************************************************)
(* Properties                                                              *)
(***************************************************************************)

Own(r) == {k \in DOMAIN stream : stream[k].rca = r}

\* A browser that was told 'complete' has seen every step of that
\* investigation the topic has or will ever have: the agent publishes
\* nothing of an investigation after its sentinel, and the gateway skips
\* nothing before it.
CompleteStreamIsWhole ==
    \A c \in Client :
        connection[c].end = "complete" =>
            connection[c].shown = Own(connection[c].rca)

\* The sentinel, the row and the result of an investigation, and its DLQ
\* message, tell of the same outcome, and the result tells the steps of the
\* attempt that succeeded only, however many attempts were streamed.
OutcomesAgree ==
    /\ \A m \in results :
         \A k \in DOMAIN m.steps :
             /\ m.steps[k].attempt = m.attempt
             /\ k > 1 => m.steps[k - 1].number <= m.steps[k].number
    /\ \A r \in dlq \ {NoRca} :
         /\ rows[r] # "success"
         /\ \A m \in results : m.rca # r
         /\ \A k \in DOMAIN stream : stream[k] # Complete(r)

\* The agent gets through its topic however often the LLM asks for tools,
\* lacks confidence or hits its limit, unless a message kills its loop.
EveryIncidentEnds ==
    <>(position > Len(Messages) /\ pc = "poll" /\ running) \/ <>(pc = "dead")
=============================================================================
