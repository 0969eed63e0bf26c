---------------------------- MODULE LogIngestion ----------------------------
(***************************************************************************)
(* The front door: POST /api/v1/logs passes a token bucket, is parsed and  *)
(* validated, and is published to logs.raw before it is answered.  Each    *)
(* request has a goroutine; they share the bucket and the writer of        *)
(* kafka-go, which is external: it collects messages in batches, writes    *)
(* them in goroutines of its own, tries a batch again whose acknowledgement*)
(* is missing, and writes it also when the request that waits for it has   *)
(* gone.  main drains the server for a grace period, closes the writer     *)
(* and returns, which ends every goroutine that is left.                   *)
(*                                                                         *)
(* A client sends a log again when it got no 202 for it.                   *)
(***************************************************************************)
EXTENDS Naturals, FiniteSets, FiniteSetsExt

CONSTANTS
    Log,            \* bodies of requests
    Valid,          \* those that are JSON and pass validateEntry
    Rps,            \* RATE_LIMIT_PER_SECOND: rate and burst of the bucket
    MaxSends,       \* bound of the model: requests for one log
    MaxTicks,       \* bound of the model: seconds
    MaxProbes,      \* bound of the model: requests for /health
    MaxCrashes      \* bound of the model: crashes

ASSUME LogIngestionAssumption ==
    /\ Valid \subseteq Log
    /\ Rps \in Nat \ {0}
    /\ {MaxSends, MaxTicks, MaxProbes, MaxCrashes} \subseteq Nat

\* The n-th request for log l.
Attempt == Log \X (1 .. MaxSends)

VARIABLES
    server,         \* "up", "draining", "closing", "exited"
    tokens,         \* in the bucket
    state,          \* per request, where it is, or how it ended
    queued,         \* messages in the writer's batches
    writerClosed,
    topic,          \* messages of logs.raw, by the request they came with
    ticks,
    probes,
    crashes,
    graceOver,      \* history: Shutdown returned with requests in flight
    turnedAway      \* history: requests the closed writer refused

writerVars == <<queued, writerClosed, topic>>
boundVars == <<ticks, probes, crashes>>
historyVars == <<graceOver, turnedAway>>
ingestionVars == <<server, tokens, state, writerVars, boundVars, historyVars>>

InFlight == {a \in Attempt : state[a] \in {"handling", "waiting"}}

\* The client has no answer to it that it takes for final.
Failed == {"limited", "unavailable", "gone", "lost"}

IngestionTypeOK ==
    /\ server \in {"up", "draining", "closing", "exited"}
    /\ tokens \in 0 .. Rps
    /\ state \in [Attempt -> {"unsent", "handling", "waiting", "accepted", "invalid"} \cup Failed]
    /\ queued \subseteq Attempt
    /\ writerClosed \in BOOLEAN
    /\ topic \subseteq Attempt
    /\ ticks \in 0 .. MaxTicks
    /\ probes \in 0 .. MaxProbes
    /\ crashes \in 0 .. MaxCrashes
    /\ graceOver \in BOOLEAN
    /\ turnedAway \subseteq Attempt

IngestionInit ==
    /\ server = "up"
    /\ tokens = Rps
    /\ state = [a \in Attempt |-> "unsent"]
    /\ queued = {}
    /\ writerClosed = FALSE
    /\ topic = {}
    /\ ticks = 0
    /\ probes = 0
    /\ crashes = 0
    /\ graceOver = FALSE
    /\ turnedAway = {}

Move(a, to) == state' = [state EXCEPT ![a] = to]

-----------------------------------------------------------------------------
(***************************************************************************)
(* RateLimiterMiddleware                                                   *)
(***************************************************************************)

\* A client sends a log for the first time, or once more.
Sendable(a) ==
    /\ server = "up"
    /\ state[a] = "unsent"
    /\ a[2] > 1 => state[<<a[1], a[2] - 1>>] \in Failed

\* The bucket is empty: 429.
Limit(a) ==
    /\ Sendable(a)
    /\ tokens = 0
    /\ Move(a, "limited")
    /\ UNCHANGED <<server, tokens, writerVars, boundVars, historyVars>>

\* A token is taken; the body is parsed and validated, or answered with 400.
Admit(a) ==
    /\ Sendable(a)
    /\ tokens > 0
    /\ tokens' = tokens - 1
    /\ Move(a, IF a[1] \in Valid THEN "handling" ELSE "invalid")
    /\ UNCHANGED <<server, writerVars, boundVars, historyVars>>

\* GET /health and /metrics pass the same bucket.
Probe ==
    /\ server = "up"
    /\ tokens > 0
    /\ probes < MaxProbes
    /\ tokens' = tokens - 1
    /\ probes' = probes + 1
    /\ UNCHANGED <<server, state, writerVars, ticks, crashes, historyVars>>

Refill ==
    /\ ticks < MaxTicks
    /\ server # "exited"
    /\ ticks' = ticks + 1
    /\ tokens' = Rps
    /\ UNCHANGED <<server, state, writerVars, probes, crashes, historyVars>>

-----------------------------------------------------------------------------
(***************************************************************************)
(* Handler.IngestLog, and Publish                                          *)
(***************************************************************************)

\* Mutation of Publish: the writer is asynchronous.
PublishAsync(a) ==
    /\ state[a] = "handling"
    /\ ~ writerClosed
    /\ queued' = queued \cup {a}
    /\ Move(a, "accepted")
    /\ UNCHANGED <<server, tokens, writerClosed, topic, boundVars, historyVars>>

\* WriteMessages puts the message into a batch and waits for it.
Publish(a) ==
    /\ state[a] = "handling"
    /\ ~ writerClosed
    /\ queued' = queued \cup {a}
    /\ Move(a, "waiting")
    /\ UNCHANGED <<server, tokens, writerClosed, topic, boundVars, historyVars>>

\* It fails at once: no metadata, or a closed writer.  503.
PublishFails(a) ==
    /\ state[a] = "handling"
    /\ turnedAway' = IF writerClosed THEN turnedAway \cup {a} ELSE turnedAway
    /\ Move(a, "unavailable")
    /\ UNCHANGED <<server, tokens, writerVars, boundVars, graceOver>>

\* The leader has acknowledged the batch: 202.
Acknowledge(a) ==
    /\ a \in queued
    /\ queued' = queued \ {a}
    /\ topic' = topic \cup {a}
    /\ state' = [state EXCEPT ![a] = IF @ = "waiting" THEN "accepted" ELSE @]
    /\ UNCHANGED <<server, tokens, writerClosed, boundVars, historyVars>>

\* The last try of the batch failed; it may be in the topic all the same.  503.
GiveUp(a) ==
    /\ a \in queued
    /\ queued' = queued \ {a}
    /\ topic' \in {topic, topic \cup {a}}
    /\ state' = [state EXCEPT ![a] = IF @ = "waiting" THEN "unavailable" ELSE @]
    /\ UNCHANGED <<server, tokens, writerClosed, boundVars, historyVars>>

\* The client disconnects, or the write deadline of the response passes: the
\* request ends without an answer, and its message stays where it is.
Disconnect(a) ==
    /\ a \in InFlight
    /\ Move(a, "gone")
    /\ UNCHANGED <<server, tokens, writerVars, boundVars, historyVars>>

-----------------------------------------------------------------------------
(***************************************************************************)
(* main                                                                    *)
(***************************************************************************)

\* SIGTERM: Shutdown takes no more connections.
Signal ==
    /\ server = "up"
    /\ server' = "draining"
    /\ UNCHANGED <<tokens, state, writerVars, boundVars, historyVars>>

\* Shutdown returns: every request is answered, or 10 seconds are over.
Drain ==
    /\ server = "draining"
    /\ server' = "closing"
    /\ graceOver' = (InFlight # {})
    /\ UNCHANGED <<tokens, state, writerVars, boundVars, turnedAway>>

\* Mutation of CloseWriter: the writer is closed before the server is drained.
CloseWriterEarly ==
    /\ server \in {"draining", "closing"}
    /\ ~ writerClosed
    /\ writerClosed' = TRUE
    /\ UNCHANGED <<server, tokens, state, queued, topic, boundVars, historyVars>>

\* producer.Close: no more messages; what is in a batch is written.
CloseWriter ==
    /\ server = "closing"
    /\ ~ writerClosed
    /\ writerClosed' = TRUE
    /\ UNCHANGED <<server, tokens, state, queued, topic, boundVars, historyVars>>

EndRequests == state' = [a \in Attempt |-> IF a \in InFlight THEN "lost" ELSE state[a]]

\* main returns when the batches are written.
Exit ==
    /\ server = "closing"
    /\ writerClosed
    /\ queued = {}
    /\ server' = "exited"
    /\ EndRequests
    /\ UNCHANGED <<tokens, writerVars, boundVars, historyVars>>

Crash ==
    /\ server # "exited"
    /\ crashes < MaxCrashes
    /\ crashes' = crashes + 1
    /\ server' = "exited"
    /\ EndRequests
    /\ queued' = {}
    /\ UNCHANGED <<tokens, writerClosed, topic, ticks, probes, historyVars>>

\* The container is started again.
Start ==
    /\ server = "exited"
    /\ server' = "up"
    /\ tokens' = Rps
    /\ writerClosed' = FALSE
    /\ graceOver' = FALSE
    /\ turnedAway' = {}
    /\ UNCHANGED <<state, queued, topic, boundVars>>

-----------------------------------------------------------------------------
IngestionNext ==
    \/ \E a \in Attempt :
        \/ Limit(a) \/ Admit(a)
        \/ Publish(a) \/ PublishFails(a)
        \/ Acknowledge(a) \/ GiveUp(a)
        \/ Disconnect(a)
    \/ Probe \/ Refill
    \/ Signal \/ Drain \/ CloseWriter \/ Exit
    \/ Crash \/ Start

IngestionSpec == IngestionInit /\ [][IngestionNext]_ingestionVars

-----------------------------------------------------------------------------
(***************************************************************************)
(* Properties                                                              *)
(***************************************************************************)

\* A log that was answered with 202 is in the topic, whatever crashes,
\* disconnects, retries and shutdowns happen meanwhile: the answer waits for
\* the batch, and no end of the process comes between the two.
AcceptedIsPublished == \A a \in Attempt : state[a] = "accepted" => a \in topic

\* A shutdown costs no request its answer as long as the grace period
\* suffices: the writer refuses a request as closed, and main ends one in
\* flight, only after the period is over, or in a crash.
DrainIsGraceful ==
    /\ [](turnedAway # {} => graceOver)
    /\ [][\A a \in InFlight :
            state'[a] = "lost" => graceOver \/ crashes' > crashes]_ingestionVars

=============================================================================
