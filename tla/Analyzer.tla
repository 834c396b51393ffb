------------------------------ MODULE Analyzer ------------------------------
(***************************************************************************)
(* The analyzer service: its consumers take batches of raw emails from     *)
(* RabbitMQ, the workers of each batch ask the language model through one  *)
(* shared circuit breaker, and publish one parsed email per mail; a batch  *)
(* is acknowledged, or returned to the queue as a whole.                   *)
(*                                                                         *)
(* The breaker is module CircuitBreaker; the callers of Execute are the    *)
(* mails in work.  Every critical section of the breaker, every reading of *)
(* its state, every publication and every answer to the broker is a step.  *)
(*                                                                         *)
(* Abstractions.  A mail is its email id, and is in one batch only: core   *)
(* publishes a row at most once.  One process runs (docker-compose.yml     *)
(* names the container), so a mail is in work at one place at a time.      *)
(* Retry is the outcome of its last attempt, which is all that the breaker *)
(* sees of it (module ModelCall).  The four consumer goroutines are alike; *)
(* what counts is how many of them handle a batch.  The queue is a set.    *)
(***************************************************************************)
EXTENDS Naturals, FiniteSets

CONSTANTS
  Batches,        \* messages of the raw_emails exchange
  Mails,          \* email ids
  Content,        \* [Batches -> SUBSET Mails]
  Garbled,        \* batches whose body is not the JSON expected
  NumConsumers,   \* numberOfConsumers
  NumWorkers,     \* numberOfWorkers
  MaxFailures,    \* of the circuit breaker
  ResetTimeout,   \* of the circuit breaker, in ticks
  Faults,         \* which failures may happen: see FaultKinds
  MaxBreaks       \* bound: connections lost, publish errors, signals, crashes

FaultKinds == {"connection", "publish", "stop", "crash"}

ASSUME AnalyzerAssumption ==
  /\ Content \in [Batches -> SUBSET Mails]
  /\ \A b, c \in Batches : b # c => Content[b] \cap Content[c] = {}
  /\ Garbled \subseteq Batches
  /\ NumConsumers \in Nat \ {0}
  /\ NumWorkers \in Nat \ {0}
  /\ MaxFailures \in Nat \ {0}
  /\ ResetTimeout \in Nat
  /\ Faults \subseteq FaultKinds
  /\ MaxBreaks \in Nat
  /\ IsFiniteSet(Mails)

VARIABLES
  place,          \* broker: where a batch is
  bound,          \* broker: the queue exists and is bound to the exchange
  proc,           \* the process
  connected,      \* its AMQP connection, which all channels share, is open
  cancelled,      \* its context is done: a signal came
  held,           \* batches a consumer goroutine is handling
  at,             \* where each mail is in ConvertEmail
  calls,          \* where each mail is in CircuitBreaker.Execute
  state, failureCount, elapsed,  \* the circuit breaker, see there
  modelUp,        \* from now on the model answers every call, and well
  streak,         \* history: see CircuitBreaker
  outage,         \* history: this process saw MaxFailures failures in a row
  copies,         \* history: parsed emails published per mail, up to 2
  nacked,         \* history: batches returned by Nack
  breaks          \* history: failures of Faults so far

breaker == <<calls, state, failureCount, elapsed, streak>>
broker  == <<place, bound>>
process == <<proc, connected, cancelled>>
history == <<copies, nacked, breaks>>
vars    == <<broker, process, held, at, breaker, modelUp, outage, history>>

\* A call fails while the model is unreliable or the context is done.
CB == INSTANCE CircuitBreaker
        WITH Callers <- Mails, pc <- calls, healthy <- modelUp /\ ~cancelled

Places == {"new", "lost", "ready", "unacked", "acked"}
Steps  == {"away", "queued", "execute", "failed", "fallback", "answered", "done", "erred"}

TypeOK ==
  /\ place \in [Batches -> Places]
  /\ bound \in BOOLEAN
  /\ proc \in {"down", "booting", "consuming"}
  /\ connected \in BOOLEAN
  /\ cancelled \in BOOLEAN
  /\ held \subseteq Batches
  /\ at \in [Mails -> Steps]
  /\ CB!TypeOK
  /\ modelUp \in BOOLEAN
  /\ outage \in BOOLEAN
  /\ copies \in [Mails -> 0 .. 2]
  /\ nacked \subseteq Batches
  /\ breaks \in 0 .. MaxBreaks

Init ==
  /\ place = [b \in Batches |-> "new"]
  /\ bound = FALSE
  /\ proc = "down"
  /\ connected = FALSE
  /\ cancelled = FALSE
  /\ held = {}
  /\ at = [m \in Mails |-> "away"]
  /\ calls = [m \in Mails |-> "idle"]
  /\ state = "closed"
  /\ failureCount = 0
  /\ elapsed = ResetTimeout
  /\ modelUp = FALSE
  /\ streak = 0
  /\ outage = FALSE
  /\ copies = [m \in Mails |-> 0]
  /\ nacked = {}
  /\ breaks = 0

Move(m, p) == at' = [at EXCEPT ![m] = p]

\* One more of the failures that MaxBreaks bounds.
Breaks(kind) ==
  /\ kind \in Faults
  /\ breaks < MaxBreaks
  /\ breaks' = breaks + 1

-----------------------------------------------------------------------------
(***************************************************************************)
(* The broker.  The routing key is the exchange's name, and the publication *)
(* not mandatory: without a bound queue a message vanishes.                *)
(***************************************************************************)
Publish(b) ==
  /\ place[b] = "new"
  /\ place' = [place EXCEPT ![b] = IF bound THEN "ready" ELSE "lost"]
  /\ UNCHANGED <<bound, process, held, at, breaker, modelUp, outage, history>>

\* What was delivered on a connection that is gone is ready again.
Requeue == place' = [b \in Batches |-> IF place[b] = "unacked" THEN "ready" ELSE place[b]]

-----------------------------------------------------------------------------
(***************************************************************************)
(* The process.                                                            *)
(***************************************************************************)
\* NewRabbitMQConn and NewMistralConn: a connection and a fresh breaker.
Start ==
  /\ proc = "down"
  /\ proc' = "booting"
  /\ connected' = TRUE
  /\ UNCHANGED <<broker, cancelled, held, at, breaker, modelUp, outage, history>>

\* ConsumeMessage declares the exchange and the queue and binds them.
ConsumeMessage ==
  /\ proc = "booting"
  /\ connected
  /\ proc' = "consuming"
  /\ bound' = TRUE
  /\ UNCHANGED <<place, connected, cancelled, held, at, breaker, modelUp, outage, history>>

\* The connection breaks.  Nothing in the process dials again.
ConnectionLost ==
  /\ Breaks("connection")
  /\ connected
  /\ connected' = FALSE
  /\ Requeue
  /\ UNCHANGED <<bound, proc, cancelled, held, at, breaker, modelUp, outage, copies, nacked>>

\* A signal: NewContext's context is done, and all that watches it runs.
Sigterm ==
  /\ Breaks("stop")
  /\ proc # "down"
  /\ ~cancelled
  /\ cancelled' = TRUE
  /\ UNCHANGED <<broker, proc, connected, held, at, breaker, modelUp, outage, copies, nacked>>

\* The goroutine of NewRabbitMQConn closes the connection.
CloseConnection ==
  /\ cancelled
  /\ connected
  /\ connected' = FALSE
  /\ Requeue
  /\ UNCHANGED <<bound, proc, cancelled, held, at, breaker, modelUp, outage, history>>

\* The process is gone, with its breaker and all work in hand.
Gone ==
  /\ Requeue
  /\ proc' = "down"
  /\ connected' = FALSE
  /\ cancelled' = FALSE
  /\ held' = {}
  /\ at' = [m \in Mails |-> "away"]
  /\ calls' = [m \in Mails |-> "idle"]
  /\ state' = "closed"
  /\ failureCount' = 0
  /\ elapsed' = ResetTimeout
  /\ streak' = 0
  /\ outage' = FALSE
  /\ UNCHANGED <<bound, modelUp, copies, nacked>>

\* fx stops the application at once: OnStop waits for nobody.
Exit ==
  /\ cancelled
  /\ Gone
  /\ UNCHANGED breaks

Crash ==
  /\ Breaks("crash")
  /\ proc # "down"
  /\ Gone

Tick ==
  /\ UNCHANGED <<broker, process, held, at, modelUp, outage, history>>
  /\ CB!Tick

ModelRecovers ==
  /\ ~modelUp
  /\ modelUp' = TRUE
  /\ UNCHANGED <<broker, process, held, at, breaker, outage, history>>

-----------------------------------------------------------------------------
(***************************************************************************)
(* MistralAgent.ConvertEmail, run by a consumer goroutine.                 *)
(***************************************************************************)
\* Mutant: the consumer is registered with autoAck.
Take_AutoAck(b) ==
  /\ proc = "consuming"
  /\ connected
  /\ place[b] = "ready"
  /\ Cardinality(held) < NumConsumers
  /\ place' = [place EXCEPT ![b] = "acked"]
  /\ held' = held \cup {b}
  /\ at' = [m \in Mails |-> IF b \notin Garbled /\ m \in Content[b] THEN "queued" ELSE at[m]]
  /\ UNCHANGED <<bound, process, breaker, modelUp, outage, history>>

\* A delivery; the body is decoded, and its mails go to jobChan.
Take(b) ==
  /\ proc = "consuming"
  /\ connected
  /\ place[b] = "ready"
  /\ Cardinality(held) < NumConsumers
  /\ place' = [place EXCEPT ![b] = "unacked"]
  /\ held' = held \cup {b}
  /\ at' = [m \in Mails |-> IF b \notin Garbled /\ m \in Content[b] THEN "queued" ELSE at[m]]
  /\ UNCHANGED <<bound, process, breaker, modelUp, outage, history>>

Working == {"execute", "failed", "fallback", "answered"}

\* A free worker of the batch takes the mail from jobChan and calls Execute.
ReadState(m) ==
  /\ at[m] = "queued"
  /\ \A b \in held : m \in Content[b]
       => Cardinality({n \in Content[b] : at[n] \in Working}) < NumWorkers
  /\ Move(m, "execute")
  /\ UNCHANGED <<broker, process, held, modelUp, outage, history>>
  /\ CB!ReadState(m)

\* Execute admits the call, or lets it probe, and starts Retry.
Admit(m) ==
  /\ at[m] = "execute"
  /\ UNCHANGED <<broker, process, held, at, modelUp, outage, history>>
  /\ CB!GoHalfOpen(m) \/ CB!Begin(m)

\* Execute returns "circuit breaker is open".
Reject(m) ==
  /\ at[m] = "execute"
  /\ Move(m, "failed")
  /\ UNCHANGED <<broker, process, held, modelUp, outage, history>>
  /\ CB!Reject(m)

\* Retry returns the error of its last attempt, or that of the context.
Fail(m) ==
  /\ at[m] = "execute"
  /\ Move(m, "failed")
  /\ UNCHANGED <<broker, process, held, modelUp, history>>
  /\ CB!Fail(m)
  /\ outage' = (outage \/ streak' = MaxFailures)

Succeed(m) ==
  /\ at[m] = "execute"
  /\ Move(m, "answered")
  /\ UNCHANGED <<broker, process, held, modelUp, outage, history>>
  /\ CB!Succeed(m)

\* Mutant: a fallback for every mail that failed.
CheckState_Any(m) ==
  /\ at[m] = "failed"
  /\ Move(m, "fallback")
  /\ UNCHANGED <<broker, process, held, breaker, modelUp, outage, history>>

\* After an error the state of the breaker is read once more, under a lock of
\* its own: open means a fallback, anything else an error for the batch.
CheckState(m) ==
  /\ at[m] = "failed"
  /\ Move(m, IF state = "open" THEN "fallback" ELSE "erred")
  /\ UNCHANGED <<broker, process, held, breaker, modelUp, outage, history>>

\* No choices in the response, or its content is not the JSON asked for.
BadAnswer(m) ==
  /\ at[m] = "answered"
  /\ ~modelUp
  /\ Move(m, "erred")
  /\ UNCHANGED <<broker, process, held, breaker, modelUp, outage, history>>

Publishing(m) == at[m] \in {"fallback", "answered"}

\* A parsed email, or the fallback, reaches the exchange.
PublishMessage(m) ==
  /\ Publishing(m)
  /\ connected
  /\ copies' = [copies EXCEPT ![m] = IF @ < 2 THEN @ + 1 ELSE @]
  /\ Move(m, "done")
  /\ UNCHANGED <<broker, process, held, breaker, modelUp, outage, nacked, breaks>>

\* Opening the channel, declaring the exchange or publishing fails.
PublishFails(m) ==
  /\ Publishing(m)
  /\ Breaks("publish") \/ (~connected /\ UNCHANGED breaks)
  /\ Move(m, "erred")
  /\ UNCHANGED <<broker, process, held, breaker, modelUp, outage, copies, nacked>>

\* The connection breaks between channel.Publish and the deferred
\* channel.Close, whose error nobody looks at: the message may be lost, and
\* PublishMessage returns nil.
PublishLost(m) ==
  /\ Publishing(m)
  /\ connected
  /\ Breaks("connection")
  /\ connected' = FALSE
  /\ Requeue
  /\ Move(m, "done")
  /\ UNCHANGED <<bound, proc, cancelled, held, breaker, modelUp, outage, copies, nacked>>

Erred(b)    == b \in Garbled \/ \E m \in Content[b] : at[m] = "erred"
Finished(b) == b \in Garbled \/ \A m \in Content[b] : at[m] \in {"done", "erred"}

\* Mutants: errors of single mails are only logged; a batch with an error is
\* not requeued; the handler returns without an Ack.
Answer_IgnoreErrors(b) == "acked"
Answer_Drop(b) == IF Erred(b) THEN "lost" ELSE "acked"
Answer_NoAck(b) == "ready"

\* Nack(false, true) on any error, else Ack.
Answer(b) == IF Erred(b) THEN "ready" ELSE "acked"

\* wg.Wait is over and errChan drained: ConvertEmail returns, and the consumer
\* answers the broker, who on a closed connection does not hear it.
Reply(b) ==
  /\ b \in held
  /\ Finished(b)
  /\ held' = held \ {b}
  /\ at' = [m \in Mails |-> IF m \in Content[b] THEN "away" ELSE at[m]]
  /\ place' = IF connected THEN [place EXCEPT ![b] = Answer(b)] ELSE place
  /\ nacked' = IF Erred(b) THEN nacked \cup {b} ELSE nacked
  /\ UNCHANGED <<bound, process, breaker, modelUp, outage, copies, breaks>>

-----------------------------------------------------------------------------
\* What a worker does before its message reaches the exchange, or instead.
Analyse(m) ==
  \/ ReadState(m)
  \/ Admit(m)
  \/ Reject(m)
  \/ Fail(m)
  \/ Succeed(m)
  \/ CheckState(m)
  \/ BadAnswer(m)
  \/ PublishFails(m)
  \/ PublishLost(m)

MailStep(m) == Analyse(m) \/ PublishMessage(m)

Process ==
  \/ Start
  \/ ConsumeMessage
  \/ ConnectionLost
  \/ Sigterm
  \/ CloseConnection
  \/ Exit
  \/ Crash

Next ==
  \/ \E b \in Batches : Publish(b) \/ Take(b) \/ Reply(b)
  \/ \E m \in Mails : MailStep(m)
  \/ Process
  \/ Tick
  \/ ModelRecovers

Spec == Init /\ [][Next]_vars

(***************************************************************************)
(* The queue hands a ready batch to a free consumer, goroutines run, the   *)
(* model's HTTP client has a timeout, time passes, and docker restarts a   *)
(* process that died (docker-compose.yml:160, restart: on-failure); after  *)
(* a signal whoever sent it starts the service again.                      *)
(***************************************************************************)
Fairness ==
  /\ \A b \in Batches : WF_vars(Take(b)) /\ WF_vars(Reply(b))
  /\ \A m \in Mails : WF_vars(MailStep(m))
  /\ WF_vars(Tick)
  /\ WF_vars(Start)
  /\ WF_vars(ConsumeMessage)
  /\ WF_vars(Exit)

LiveSpec == Spec /\ Fairness

-----------------------------------------------------------------------------
(***************************************************************************)
(* Properties.                                                             *)
(***************************************************************************)
\* A batch is acknowledged only when something was published for each of its
\* mails, whatever failed on the way: an error of one mail, a breaker that
\* rejects, a connection that swallows a publication, a crash
\* (mistral.go:244-268, consumer.go:124-145).
AckedMeansPublished ==
  \A b \in Batches : place[b] = "acked" => \A m \in Content[b] : copies[m] > 0

\* A fallback replaces the analysis only in a process that saw maxFailures
\* calls fail in a row; one bad mail, or failures among successes, are an
\* error and another try (mistral.go:186-206, circuit_breaker.go:73-79).
FallbackNeedsOutage == \A m \in Mails : at[m] = "fallback" => outage

\* Nothing is published twice for a mail unless its batch was returned for an
\* error, or a connection, a process or a publication broke
\* (consumer.go:124-145).
CopiesNeedFailure ==
  breaks = 0 =>
    \A b \in Batches, m \in Mails : m \in Content[b] /\ copies[m] > 1 => b \in nacked

\* What the broker makes of a redelivery is its own affair.
Lifecycle(b) == IF place[b] \in {"ready", "unacked"} THEN "queued" ELSE place[b]

PE == INSTANCE ParsedEmails WITH on <- [b \in Batches |-> Lifecycle(b)]

\* Seen from core and from the collector, a batch is queued until it is
\* acknowledged with all its mails published, and nothing is published for it
\* afterwards: no straggling worker, redelivery or dying process does it
\* (mistral.go:88-111, 244-268, consumer.go:124-145).
MailsAsPromised == PE!Spec

\* How far a mail in hand has come.
Stage(m) ==
  CASE at[m] = "queued"                                    -> 0
    [] at[m] = "execute" /\ calls[m] = "wasOpen"           -> 1
    [] at[m] = "execute" /\ calls[m] = "admitted"          -> 2
    [] at[m] = "execute" /\ calls[m] = "running"           -> 3
    [] at[m] = "failed"                                    -> 4
    [] at[m] \in {"answered", "fallback"}                  -> 5
    [] OTHER                                               -> 6

\* Why wg.Wait returns: no step of any consumer, worker, connection or signal
\* takes a mail in hand back, and a step of its own worker brings it forward,
\* so that after six of them it is done or in error (mistral.go:104-235).
WorkAdvances ==
  [][\A m \in Mails :
       at[m] # "away" /\ at'[m] # "away" =>
         /\ Stage(m)' >= Stage(m)
         /\ MailStep(m) => Stage(m)' > Stage(m)]_vars

\* Once the model answers again, every batch that reached the queue is
\* acknowledged, behind an open breaker too, unless the process lost its
\* connection and waits for somebody to restart it (README.md:85-93).
EveryBatchAcked ==
  \A b \in Batches \ Garbled :
    modelUp /\ place[b] \in {"ready", "unacked"}
      ~> place[b] = "acked" \/ (proc # "down" /\ ~connected)
=============================================================================
