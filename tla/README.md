# Reminder Hub in TLA+

Reminder Hub reads the mail of its users over IMAP, lets a language model find
tasks and deadlines in it, and keeps these tasks as reminders.  This directory
holds TLA+ modules of the program, TLC configurations that check them on small
instances, and proofs of the theorems that hold for every instance.  Paths
below are relative to the repository (`services/...`, `pkg/...`).

## 1. The system

    mailboxes --IMAP--> core --raw_emails--> analyzer --parsed_emails--> collector --> tasks
                         |                      |                            |
              email_integrations,          Mistral API                 users' requests
              emails_raw (PostgreSQL)                                        |
                         +------------- api-gateway (HTTP) ------------------+
                                             |
                                           auth  (users: PostgreSQL, revoked tokens: Redis)

| Component | State it keeps | Operations | Interacts with |
|---|---|---|---|
| core, mail synchronisation (`services/core/internal/{imap,sheduler,rabbitmq,database}`) | tables `email_integrations`, `emails_raw`; per worker a job, the fetched messages, the current batch | ticker cycle, scan, one sync per worker, publish, update of `last_sync_at`, start, graceful stop | IMAP servers (reads, and sets `\Seen`), PostgreSQL, exchange `raw_emails` |
| core, HTTP API (`.../core/internal/api`) | none of its own | create, list, delete an integration, health | the tables of the sync, the gateway |
| core, encryption, configuration, logging | none that changes | encrypt and decrypt the mailbox password, read the environment | the sync |
| analyzer (`services/analyzer`) | unacked batches of four consumers, four goroutines per batch, one circuit breaker | decode a batch, ask the model with retries, publish the parsed mail or a fallback, ack or nack the batch | exchanges `raw_emails`, `parsed_emails`, the Mistral API |
| resilience (`pkg/resilience`) | breaker: state, failure count, time of the last failure | `Execute`, `Retry` | analyzer |
| shared RabbitMQ client (`pkg/rabbitmq`) | a connection | publish, consume with ack, nack with requeue | core, analyzer |
| collector (`services/collector`) | table `tasks`; per instance the message in hand | consume, store a task; list, get, update, complete, delete tasks | exchange `parsed_emails`, PostgreSQL, the gateway |
| auth (`services/auth`) | users with password hash and version; revoked tokens with a TTL | sign up, sign in, refresh, validate, log out, change the password | PostgreSQL, Redis, the gateway |
| api-gateway (`services/api-gateway`) | none | check the token, fill in IMAP settings, rewrite the path, forward | auth, core, collector |
| models, logger, redis and http helpers (`pkg`) | none | data types and wrappers | all |
| migration runner of auth | `schema_migrations` | apply SQL files | PostgreSQL |
| deployment (`docker-compose.yml`, `nginx`) | none | restart policies, routing | all |

### What is hard about it

* **Interleaving.**  `MAX_WORKERS` goroutines sync integrations from one queue
  of jobs while users add and remove integrations, owners read their mail, and
  midnight passes.  The collector runs in as many instances as one starts, each
  with a check-then-insert on a shared table.  Every call of the analyzer goes
  through one breaker that drops its lock around the call.
* **Half-done work.**  A fetched message is `\Seen` before it is saved; a saved
  one is in `emails_raw` before it is published; a task is committed before its
  message is acknowledged.  A failure in between leaves two stores that
  disagree.
* **Delivery.**  RabbitMQ delivers at least once.  The analyzer requeues a whole
  batch when one mail fails, so the collector sees duplicates; the collector
  drops a message for good on any error.
* **Stale state.**  A job is a snapshot of a row; `last_sync_at` is written at
  the end of a sync and bounds the next search by its calendar day; a caller
  acts on a breaker state it read before an unlock.
* **Time.**  A blacklist entry and the token it revokes expire at the same moment,
  and a validation checks one and then the other, without a lock, while the gateway
  in front of it waits for five seconds only.
* **Two of everything.**  Which user a request acts for is decided in the gateway
  and again in the backends, from path and headers; defaults of an integration are
  filled in by one service and validated by another.
* **Liveness.**  `LIMIT` and `ORDER BY last_sync_at` must serve every
  integration; an open breaker must close again; a restarted service must pick
  up what it left.

### What makes each component correct

* *Mail sync*: a row is published at most once; an integration is never synced
  by two workers; a mail is imported once per user; only named failures lose a
  mail; every integration is served again and again; mail reaches the queue.
* *Model call*: attempts, pauses and a signal are one call to the breaker; it ends,
  with an error or a response.
* *Breaker*: it opens at the limit and not before; it stays open for the reset
  timeout; no order of late results makes it wedge; it closes after recovery.
* *Collector*: one task per email; acknowledged means stored; only a database
  error loses an email; no redelivery touches what a user edited or deleted;
  every email becomes a task.
* *Analyzer*: every mail of an acknowledged batch was published; a fallback needs
  an outage; a mail is published twice only after a failure; once the model
  answers, every batch is acknowledged.
* *Auth*: a request that begins after a log-out of its token is refused, whatever
  expires, fails or overlaps; a refresh token is good for the password it was
  obtained with and for no other, and a change of the password ends its session.
* *Gateway*: no revoked token reaches a backend, however late the validation
  answers, and a late answer admits nobody; a backend acts on the data of the token's user only; defaults of two
  services add up to a secure and valid integration; what follows a prefix that
  is replaced survives (it does not: finding 5).
* *Analyzer and collector together*: from core's batch to the task, no mail
  vanishes without a mishap of its own, and every mail becomes a task.

The list of hazards, each at the line where it bites and with the properties
that cover it, is in `PROJECT.json`.

## 2. Modules

| Module | What it is |
|---|---|
| `MailSync` | the mail half of core: world, scheduler, workers, tables, exchange |
| `RawEmails` | what core promises to the analyzer: the table `emails_raw` and the exchange, and nothing else; shown to be implemented by `MailSync` (`RE!Spec`) |
| `MCMailSync` | two integrations of one user, small mailboxes; used by four configurations |
| `MailSync_proofs` | type correctness, all other safety properties of *mail_sync*, the refinement of `RawEmails`, that cycles advance, and the order of the scans |
| `CircuitBreaker` | `pkg/resilience/circuit_breaker.go`, step by step per critical section |
| `MCCircuitBreaker` | four overlapping callers; one caller |
| `CircuitBreaker_proofs` | type correctness, both invariants and both action properties, and that a recovery lasts |
| `Collector` | broker queue, consumer instances, table `tasks`, users' requests |
| `TaskStore` | what the collector promises to its users and to the broker: one list, one task per email, an acknowledgement per message; implemented by `Collector` (`TS!Spec`) |
| `MCCollector` | two instances, duplicates, a malformed message |
| `Collector_proofs` | type correctness and all five invariants, who holds a message, and the refinement of `TaskStore` |
| `Analyzer` | the analyzer: queue, connection, consumers, batches, mails; composes `CircuitBreaker` (`CB!`), whose callers are the mails in work |
| `ParsedEmails` | what the analyzer promises to core before it and the collector behind it: batches queued until all their mails are published; implemented by `Analyzer` (`PE!Spec`) |
| `MCAnalyzer` | a batch of two mails beside an undecodable one |
| `Analyzer_proofs` | type correctness and all three invariants, the refinement of `ParsedEmails`, and that work advances |
| `ModelCall` | `Retry` inside `Execute`: attempts, pauses, the context; shown to implement `CircuitBreaker` (`CB!Spec`) |
| `MCModelCall` | two workers, three attempts, a limit of two |
| `ModelCall_proofs` | the refinement and the breaker's theorems under it, type correctness, both invariants, and that calls advance |
| `Pipeline` | analyzer and collectors on one broker; extends `Analyzer` and composes `Collector` (`C!`), whose messages are the copies of mails that the analyzer publishes |
| `MCPipeline` | one mail, one collector, two copies |
| `Pipeline_proofs` | the composition implements both components and keeps both promises; its own three invariants from theirs |
| `AuthSession` | users, signed tokens, the blacklist in Redis, and the requests to the auth service, query by query |
| `AuthSession_proofs` | type correctness and both invariants, and that ended sessions stay ended |
| `Gateway` | the gateway in front of auth, core and collector; extends `AuthSession`, and has the routes and rewritings as functions |
| `MCGateway` | two requests, one user and the id of another one; all calls the backends have routes for |
| `Gateway_proofs` | the gateway implements `AuthSession`; its type invariant, invariant and four action properties |

No module declares a RECURSIVE operator, so each of them can be proved about.
Operators named `Action_Something` with a comment *Mutant* are deliberate wrong
versions of `Action`; no specification uses them.  Each property of a passing
run has one that breaks it.

### MailSync and the code

| Model | Code |
|---|---|
| `account`, `recency`, `syncDay` | rows of `email_integrations`; `last_sync_at` as a rank (for `ORDER BY`) and as a day (for IMAP `SINCE`) |
| `emails` | `emails_raw` in order of insertion; the index stands for the UUID |
| `sent` | batches given to the exchange by `PublishEmailBatch` |
| `arrived`, `seen`, `today` | the mailboxes and the calendar |
| `sched`, `stopping`, `jobs` | the goroutine of `Scheduler.run`, its `stopChan`, the `jobs` channel of `syncAll` |
| `pc`, `job`, `todo`, `msg`, `batch` | one run of `Syncer.SyncIntegration` per worker |
| `taken`, `unreads` | history and bound, not in the program |

`SyncAll` is `syncAll` up to `close(jobs)`: one query, whose result is any list
the `ORDER BY ... LIMIT` allows, and the job snapshots (`Dispatch`).  `ScanBreaks`
is the query whose rows break off: `rows.Err()` is never asked
(`database.go:100-110`), so any first part of that list is taken for all of it.  `TakeJob`, `Search`,
`Fetch`, `EmailExists`, `SaveEmail`, `LoopEnds`, `PublishEmailBatch` and
`UpdateLastSync` are one remote call each, in the order of `SyncIntegration`;
each has a failing twin that follows the code's error path (log and go on, or
return).  `FetchFails` marks any part of the messages `\Seen`.  `SaveEmailFails`
and `UpdateLastSyncFails` may or may not have written.  `PublishLost` is a
connection that breaks between `channel.Publish` and the deferred `Close`, whose
error is dropped: `PublishMessage` returns nil, and the batch is gone.  `Panic` is line 100 of
`syncer.go` with a nil batch: the process dies with all its workers.  `Sigterm`
and `Halt` are the graceful stop: `run` looks at `stopChan` only between two
cycles, so a cycle is finished first; the HTTP server keeps serving while
`Scheduler.Stop` waits, because it is closed after that.  `Crash` and `Restart`
keep tables, mailboxes and the exchange, and lose everything else.

`Row` is the pair (user, Message-ID), which is what `EmailExists` compares.
Passwords, bodies, dates and senders are left out: no guard depends on them.

### CircuitBreaker and the code

`Execute` takes its lock up to three times.  `ReadState` is the first section;
`GoHalfOpen` and `Reject` are the second one (`case StateOpen`); `Begin` starts
`fn` outside the lock; `Fail` and `Succeed` are the last section.  `elapsed` is
`time.Since(lastFailTime)`, in ticks, and stops at the reset timeout, because
the code only asks whether it is smaller.  `healthy` says that the protected
service is back for good; `streak` is history.  A caller that comes back after
`Execute` stands for the next goroutine.

### Collector and the code

| Model | Code |
|---|---|
| `place` | the broker's view of a message: new, ready, unacked at an instance, acked, dropped |
| `tasks` | table `tasks`; a deleted row keeps its place with status "deleted" |
| `pc`, `cur` | the goroutine of `Consumer.Start` and the message it handles |
| `inbox` | deliveries the client library has buffered, up to the prefetch of 10 (`Prefetch`) |
| `linked`, `stopping` | the channel is open; the context of `main` is cancelled |
| `failed`, `asked`, `breaks` | history (errors of the database; what each user last asked for) and bound |

`Take` is the select of `Start` plus the decoding in `HandleEmailMessage`;
`TaskExists` and `CreateTask` are the two statements of `HandleEmailMessage`, the
second under the unique index on `(email_id, user_id)`, whose violation is an
error and ends in `Nack`; `Nack` is `Nack(false, false)`, and the queue has no
dead-letter exchange, so the message is gone.  On a closed channel `Ack` and
`Nack` change nothing, and the broker has requeued the message already.
`Sigterm`, `Exit`: `cancel()` is the last `defer` of `main`, hence runs first,
and nobody waits for the goroutine, which may be between any two steps, sees
its statement cancelled, and may still nack.  `LoopEnds`: after a closed
channel `Start` returns and the process stays up and consumes nothing.
`SetStatus` serves `UpdateTask`, `CompleteTask` and `DeleteTask`.

### Analyzer and the code

| Model | Code |
|---|---|
| `place`, `bound` | the broker's view of a batch (new, lost, ready, unacked, acked), and whether `raw_emails_queue` exists and is bound |
| `proc`, `connected`, `cancelled` | the process, its one AMQP connection, and the context of `NewContext` |
| `held` | batches in hand of the consumer goroutines of `ConfigConsumers` |
| `at` | a mail in `ConvertEmail`: in `jobChan`, in `Execute`, after an error, about to be published, done or in `errChan` |
| `calls`, `state`, `failureCount`, `elapsed` | the breaker, by `INSTANCE CircuitBreaker` with `Callers <- Mails` |
| `modelUp` | from now on the model answers, and with the JSON asked for |
| `streak`, `outage`, `copies`, `nacked`, `breaks` | history and bound |

`Take` is a delivery with its decoding and the filling of `jobChan`.  `ReadState`
is a worker that takes a mail and enters `Execute`; `Admit` and `Reject` are the
next two sections of the breaker; `Fail` and `Succeed` join the end of `Retry` to the
section that records its outcome.  `CheckState` is the separate call of `State()`
after an error; `BadAnswer` an empty response or one that is not JSON.
`PublishMessage`, `PublishFails` and `PublishLost` are the three outcomes of the
publisher, for a parsed mail or a fallback alike.  `Reply` joins the end of
`ConvertEmail` to the `Ack` or `Nack(false, true)` that follows, which a closed
connection swallows.  `Sigterm`, `CloseConnection` and `Exit`: the context ends,
the goroutine of `NewRabbitMQConn` closes the connection, and `fx` stops the process
without waiting, in any order with the work in hand.  `ConnectionLost` ends all
consumers; `ConsumeMessage` without a connection fails, is logged and never tried
again, which is why `booting` without a connection has no way on but a signal or
a crash.

Abstractions: `Retry` is the outcome of its last attempt, which is all that the
breaker sees of it, as `ModelCall` shows; the consumers are alike, and only how many
are busy counts; the queue is a set; a mail is in one batch (`CoreKeepsPromise`
of `MailSync_proofs` is what justifies this); one process runs, as `container_name` says.

### ModelCall and the code

| Model | Code |
|---|---|
| `calls`, `state`, `failureCount`, `elapsed`, `streak` | the breaker, by `INSTANCE CircuitBreaker` with `Callers <- Workers` |
| `at` | where a worker is: between two mails, in `Execute`, or at a line of `Retry` |
| `attempt`, `delay`, `left`, `err` | the loop's counter, the next pause, what is left of `time.After`, and `lastErr` with what `Retry` returns |
| `resp`, `apiErr` | the variables of `ConvertEmail` that the closure writes |
| `misses` | history: attempts that failed since the breaker's last success or probe |

`CheckContext` is the head of the loop, `Answered` and `Failed` the two outcomes of
`GenerateContent` with what the closure makes of them, `Wake` and `Interrupted` the
two branches of the `select`, either of which it may choose when both are ready.
`Succeed` and `Fail` join the return of `Retry` to the last section of `Execute`, and
`Fail` and `Reject` to the assignment of `circuitErr` to `apiErr`.  `MaxAttempts` is at
least 1 (the code has 3): with 0, `Retry` would return nil without a call.

### Pipeline and the code

`Pipeline` adds two variables to those of its components: `declared`, whether the
collectors' durable queue exists and is bound to `parsed_emails`, and `discarded`,
the mails of which a copy was published before that.  `NewConsumer` is the part of
the collector's `NewConsumer` that declares and binds.  `PublishParsed(m)` is the one
shared step: the analyzer's `PublishMessage(m)` together with the collector's
`Publish` of the next copy `<<m, i>>`, or, without a queue, nothing, because the
publication is not mandatory.  All other steps belong to one component and leave
the other one alone.  Mails of core's batches and emails of the collector are the
same ids, as `email_id` is handed through.

### AuthSession and the code

| Model | Code |
|---|---|
| `users` | table `users`: password hash and version by email |
| `blacklist`, `now` | the keys `blacklist:token:<hash>` of Redis with the end of their TTL; the clock in the seconds of `exp` |
| `issued` | tokens in the hands of clients; a token is its claims (type, user, version, exp) |
| `pc`, `job` | the goroutine of one HTTP request, and the local variables it carries |
| `proven`, `revoked`, `forgotten`, `breaks` | history and bound |

`CheckBlacklist`, `Parse`, `FindUser` and `Accept` or `Grant` are `ValidateToken` and
`RefreshToken` in the order of the code: Redis, then `exp` and `type`, then PostgreSQL,
then (for a refresh) the version.  An error of Redis in the first step refuses the
token and changes nothing, so it is a request that never was.  `Logout` computes two
expirations (for an expired token: as long as a new one would live), `AddAccess` and
`AddRefresh` are the two `SET`s, the second one the return of nil; `AddFails` is an
error of either, with or without effect.  `SignIn` reads the row and `IssuePair` signs
with the version read then; `ChangePassword` and `UpdatePassword` are the check and
the `UPDATE`.  `Tick` is the clock, and Redis dropping keys with it.  `RedisRestarts`
comes back with a snapshot, because `docker-compose.yml` gives Redis a volume and no
append-only file.  `RefreshToken` and `ChangePassword` have no HTTP route at this
commit (`server.go:82-87`); they are modelled as the service offers them.

### Gateway and the code

`hop` and `caller` are where a request is and what `c.Set("user_id")` holds.
`Receive` is the request to `/auth/validate`, `Validated` its answer, which may come
after `GiveUp` (the timeout of five seconds, a client that went, a gateway that died)
and then admits nobody.  `Forward` is the proxied request with the backend's handler;
what it does for every call is the function `Served`: `Rewritten` and `UserHeader`
of `ServiceProxy.Proxy`, `Body` and `AutoIMAP` of the middleware, then `CoreRoute` or
`CollectorRoute`, the routes and checks of the backend, down to whose data the
handler uses.  `CASE` in `ProviderHost` and the two routers follows the `switch` and
the route tables.

A body is what core's decoder finds in it, with two flags.  `read` says whether the
middleware finds an address in it as well: it wants one JSON value with a string under
exactly `email_address` (`imap.go:57-69`), where core ignores the case of keys and what
follows the first value, and reads XML if told to; a body that is not `read` is passed
on as it is.  `valid` says that core decodes it and accepts its address and password.
Names of servers are abstract: `Imap[d]` is `"imap." + d` and `Hostnames` is what core's
validator takes for a hostname, which the known providers' names are, the bridge's
`127.0.0.1` is not, and `Imap[d]` is or is not, as `d` has an underscore, letters
beyond ASCII or a second `@`.  `Accepts` is the validator with the bounds of the port.
Left out are keys spelled with U+017F, which Go takes for an `s`: re-encoded they come
after the middleware's own and win.

## 3. Runs

| Run | Expect | What it shows |
|---|---|---|
| `mail_sync` | pass | with every fault, two workers and two mailboxes of one user: `SentOnce`, `OneWorkerPerIntegration`, `NoDuplicateImport`, that only the failures named in `OnlyFailuresStrand` and `OnlyFailuresDrop` lose a saved or a fetched mail, and that the analyzer sees what `RawEmails` promises (`BatchesAsPromised`) |
| `mail_sync_live` | pass | one worker, `LIMIT 1`: every delivered mail is published and every integration is served for ever, with the panic of `syncer.go:100` and restarts happening |
| `mail_sync_lost` | violation | two workers: a sync with nothing to publish reaches line 100 of `syncer.go` with a nil batch, and the panic of one worker loses the mail of the other |
| `mail_sync_midnight` | violation | a mail that arrives during a sync that ends after midnight is outside every later search |
| `breaker` | pass | four overlapping callers: both invariants, both action properties, and that the breaker closes for good after the service recovered |
| `breaker_wait` | violation | a failed half-open probe does not make the next call wait |
| `collector` | pass | two instances, two copies of one email and a malformed one, every fault, one break: the five invariants, and every email becomes a task |
| `analyzer` | pass | two consumers, a batch of two mails beside one that comes back for ever, an unreliable model, one break: the three invariants, the refinement of `ParsedEmails` (`MailsAsPromised`), and once the model answers the batch is acknowledged, unless the process lost its connection and sits there |
| `model_call` | pass | two workers around one breaker, a signal at any moment: `ErrorOrResponse`, `FruitlessAttemptsBounded`, `CallsAreAtomic` (the refinement), and every call ends |
| `pipeline` | pass | analyzer and collector, one break each, database errors, an unreliable model: `NothingVanishes`, `DeletedComesBackAfterFailureOnly`, and every mail becomes a task, unless a mishap or a service without its connection prevents it |
| `session` | pass | two requests at a time through gateway and auth service, one failure: `RevokedRefused`, `VersionPinsPassword`, `RevokedNotServed`, `EndedForGood`, `LateAnswerAdmitsNobody`; and for each of the calls that is forwarded, `OwnDataOnly`, `TLSByDefault`, `AddressSuffices` |
| `gateway_paths` | violation | what follows `/api/v1/reminders` in a path is lost |

### Bounds, and why they are enough

* *mail_sync*: three messages, two of them with the same Message-ID in two
  mailboxes, so that both integrations race for one row; a batch limit of 1 (the
  code has 7), so that a full batch occurs while fetched mail is still to be
  processed, which is when its failed publish forgets mail.  The rest after the loop
  occurs in *mail_sync_live* and *mail_sync_lost*, whose limit is 2; a limit of 2
  with mail left behind a full batch needs four messages, which is out of reach,
  and the theorems of section 4 hold for every limit;
  `MaxDay = 0` because days matter to `NewMailWithinReach` and
  `MailIsPublished` only, whose runs have two; `MaxUnread = 1` lets a message
  be searched, fetched and compared a second time.  Workers are symmetric; the
  integrations are not, because their mailboxes differ.
* *mail_sync_live*: `ScanLimit = 1` with two integrations is the smallest case
  in which one can starve; no faults, for the reason given with the fairness.
* *breaker*: four callers and a limit of three: the count can pass the limit by
  late failures, and stale reads, probes and late successes overlap.  Two ticks
  tell "just failed", "almost" and "over" apart.
* *collector*: two messages for one email are enough for both instances to hold
  copies; `Prefetch = 2` puts one message in hand and one in the buffer.
  `MaxBreaks = 1` is one lost channel, signal or crash, and with it one
  redelivery; the invariants are proved for any number.
* *analyzer*: a batch of two mails, so that they meet in the breaker and one can
  fail without the other, and one that cannot be decoded and competes for the
  consumers.  A limit of two failures (the code has 5) lets the breaker trip;
  one tick of reset timeout tells "open" from "may probe".  Two consumers and two
  workers (the code has 4 and 4) are as many as the instance can use.
  `MaxBreaks = 1`: as for the collector.  `copies` stops at 2, because the
  properties only ask for "none", "one" and "more".
* *model_call*: with two workers and a limit of two, one call can fail while the other
  is in its last attempt, and `FruitlessAttemptsBounded` is reached exactly (nine
  attempts).  Three attempts as in the code; pauses of 1 and 2, the second at the cap.
* *pipeline*: one mail, since what belongs to several mails is checked in the
  components and the end-to-end properties speak of one mail at a time; one break
  in each service.  `MaxCopies = 2`: with these breaks a mail is never published a
  third time, so the bound blocks no publication and fairness is not made
  vacuous by it.  With two collectors the run passes as well (887,740 states, too
  long for a routine check).
* *session*: two requests overlap in every pair of operations.  An access token
  that expires after one tick and a refresh token that outlives the clock's bound
  are both sides of `exp`; three tokens are two log-ins, or one log-in and a
  refresh.  `MaxVersion = 2` is one change of the password, beside log-ins and
  refreshes; that two changes overlap and both succeed is covered by the theorems only
  (`VersionPinsPasswordAlways`, `EndedSessionsStay`).  The calls are all routes of both
  backends, with and without ids and headers of another user.  Their bodies have a
  known domain, Proton's, one whose server has a hostname and one whose server has
  none; no host or one of their own; ports missing, 0, 65535 and 65536; `use_ssl`
  missing and false; and they are read by the middleware or not.
  Requests and passwords are symmetric.
* *gateway_paths*: one request, no failures; the path alone decides.
* The theorems below hold without any of these bounds.

### Fairness

* `SyncAll`, `CycleEnds`: the ticker fires for ever; `run` loops.
* `SyncStep(w)`, `Handle(c)`, `Execute(c)`: goroutines are scheduled and every
  remote call returns or times out (30 seconds per collector message, an HTTP
  timeout in the model client, the IMAP and database drivers' own).
* `Restart`: `restart: on-failure` (`docker-compose.yml:141` core, `:179`
  collector).  A process that exits with code 0 after a signal is started again
  by whoever stopped it.
* `Deliver`: the broker hands out what is ready to a consumer with capacity.
* Nothing is assumed about users, owners, midnight or new mail.  No fault is
  assumed to stop, hence the live runs leave out the faults after which the code
  provably gives up (a nacked email, a failed publish): `LossNeedsDbError`,
  `OnlyFailuresStrand` and `OnlyFailuresDrop` say which these are.  The liveness
  properties of *collector*, *analyzer* and *pipeline* are checked with every fault,
  and name what excuses them: a recorded error of the database for this very
  message, a publication before there was a queue, or a process that is up without
  its connection, which nothing in the code repairs.
* `Take(b)`, `Reply(b)`, `MailStep(m)`, `Start`, `ConsumeMessage`, `Exit` of the
  analyzer: the broker hands a ready batch to a consumer that stays free.  This is
  weak fairness: with as many batches that come back for ever as consumers, which
  RabbitMQ returns to their place at the head of the queue, others may starve, and
  the run has fewer of them than consumers.  Goroutines run, the model client has
  a timeout; `restart: on-failure` (`docker-compose.yml:160`).  `Tick` is time.
  `ModelRecovers` is not fair: the property only speaks of what follows it.
* `Call(w)` and `Tick` of `ModelCall`: goroutines run, the model's HTTP client has a
  timeout, and time passes.  `Cancel` is not fair.
* *pipeline* has the fairness of its components and no more: `NewConsumer`, the
  first start of a collector, is not fair, and the properties do not need it.
* *session* states no fairness and no liveness: a client may always be told to try
  again.
* Deadlock is not checked in *collector*, *analyzer*, *pipeline* (an instance with a
  lost channel or connection never reconnects, and once all messages are handled
  nothing is left to do), *session* and *gateway_paths* (the clock and the number of
  tokens stop at their bounds).

## 4. Proofs

All theorems are checked by TLAPS (SMT, Zenon, LS4) for every value of the
constants that satisfies the module's assumptions.

`MailSyncAssumption` (finite set of integrations, a batch limit of at least 1,
`None` is nothing else):

* `TypeCorrect` — `[]TypeOK`.
* `NeverSentTwice` — `[]SentOnce`, inductive together with `TypeOK`: a pending or
  published row has an index that exists, so a new row is in neither.
* `ImportInvariant`, `WorkersDisjoint`, `ImportsOnce` — `[]ImportInv`, and from it
  `[]OneWorkerPerIntegration` and `[]NoDuplicateImport`.  `NoDuplicateImport` alone is
  not inductive, since `EmailExists` and `SaveEmail` are two steps.  `StillMissing`
  says what is left of the first step's answer at the second: only another
  integration of the same user that receives the same Message-ID can have
  inserted the row.  That needs `OneWorkerPerIntegration` (no second worker on the
  same integration) and `OwnMail` (a worker handles its own mailbox's mail);
  `OneWorkerPerIntegration` needs `QuietBetweenCycles` (a scan starts only when all
  workers are idle and the queue is empty) and `IdleHasNoJob`.
* `StrandedByFailuresOnly` and `DroppedByFailuresOnly` — the action properties
  `OnlyFailuresStrand` and `OnlyFailuresDrop`, one step at a time, with what a
  return may find: `EmptyHanded` says that a worker has a batch or mail in hand in
  its loop only, so that `ConnectFails`, `UpdateLastSync` and its failure throw
  nothing away.  `Row` and the index of a new row (`NewRow`) show that `SaveEmail`
  hides no other message, and `EmailExists` puts a message away only if its
  Message-ID is in the table.  The proof found an exception that an earlier
  version of `OnlyFailuresDrop`, and an instance in which full batches came last,
  had missed: `PublishFails` of a full batch.
* `CoreKeepsPromise` — `BatchesAsPromised`: `MailSync` implements `RawEmails`.  Of its
  steps `SaveEmail` and `SaveEmailFails` add at most a row, `PublishEmailBatch` is
  `Publish`, and all others are stutters.  Disjoint batches are `SentOnce`; that none
  is empty or larger than `maxBatchSize` is `BatchSizes`, which follows a batch by the
  cardinality of its rows from `SaveEmail` to the exchange.  This is what
  `AnalyzerAssumption` takes for granted when it says that batches share no mail.
* `CycleAlwaysAdvances` — `CycleAdvances`, the part of a cycle's end that needs no
  fairness: during a cycle every step leaves the workers alone, takes a job from a
  queue that gets no new one, or ends one sync or brings it closer to its end (by
  the messages left to process and then the `Phase` of the current one).  It is
  also why the wait of `Scheduler.Stop` is not in vain.
* `ScansInSyncOrder` — `[]SyncOrder`: the rank by which a scan lists an integration is
  that of its last sync, NULL first, and no two synced integrations share one.  The
  lemmas `Touch...` say what `UpdateLastSync` does to the ranks: the integration gets
  the last one and those above its old one move down (`TouchKeepsOrder` counts them).
* `NobodyOvertakes` — `NoOvertaking`, the part of `EveryIntegrationSynced` that needs no
  fairness: until an integration is synced only a new one gets before it, each one
  synced goes behind it, and a cycle without it is full of those before it
  (`ScanInTurn`).

`BreakerAssumption` (`MaxFailures` at least 1, finitely many callers):

* `TypeCorrect`, `OpensAtLimit` (`OpenAtLimit`), `Overshoot` (`CountBounded`, by the
  cardinality of the calls in flight), `OpenUntilTimeout` (`OpenHolds`),
  `TripsOnlyOnStreak` (`TripsOnStreakOnly`, by "the count never exceeds the
  streak").
* `RecoveryAdvances` (`NoWayBack`) and `RecoveryLasts` (`RecoveredForGood`), the part of
  the breaker's closing that needs no fairness: with the service back nothing opens
  it, only a caller that acts on a state it read before takes it from closed to
  half-open, and there are no new ones of these; without them it stays closed.

`CollectorAssumption` (messages carry an email or none, a prefetch of at least 1):

* `TypeCorrect`; `OneTask` (`OneTaskPerEmail`): from the unique index alone,
  whatever the two statements of the handler do.
* `AcksOnlyStored` and `DropsOnlyOnError` through `AnswerInvariant`: a consumer about
  to acknowledge knows that the task is stored; one about to nack has a
  malformed email, an email that is stored, or a recorded database error; and
  rows never disappear from the history.
* `LastWord` (`UsersHaveLastWord`) through `WishInv`: an email without a task has no
  wish on record, so an insertion, which needs that there is no task, cannot
  contradict one.
* `DeletedForGood` (`DeletedStaysDeleted`): as long as nothing broke, an email
  published once is in one place only, in one hand only, and its row is written
  only while that hand holds it; hence at most one row.
* `NothingHandledUnheld` (`HeldWhileHandled`) through `HoldInv`: a message in the hand of
  an instance is not also in its inbox, and an instance that is down, idle or at the
  end of its loop has none in hand.
* `CollectorKeepsPromise` — `TasksAsPromised`: `Collector` implements `TaskStore`.  A
  commit of the handler's INSERT is `Create`, a user's request `Change`, an
  acknowledgement `Acknowledge` (`AckSteps`), and all else a stutter, deliveries, failed
  statements, crashes and restarts included (`PromiseStep`).  `OneTaskPerEmail` makes
  the list a function, `AckedMeansStored` is the guard of `Acknowledge`.

`AnalyzerAssumption` (batches share no mail, finitely many mails, a positive
number of consumers and workers, a limit of at least 1):

* `TypeCorrect`, for the analyzer and the breaker in it.
* `AcksOnlyPublished` (`AckedMeansPublished`) through `AckInv`.  It is not inductive
  because a publication may be lost although `PublishMessage` returned nil.
  `DonePublished` says that this needs a connection that is gone, and
  `HeldIsUnacked` and `DownIsEmpty` that without it nobody can acknowledge: the
  publisher and the consumers share one connection.
* `FallbackOnlyInOutage` (`FallbackNeedsOutage`) through `OpenMeansOutage` (an open
  breaker has seen the outage) and `CountIsStreak` (it never counts more failures
  than the streak has), both about the breaker as the analyzer uses it, restarts
  included.
* `CopiesOnlyAfterFailure` (`CopiesNeedFailure`) through `Steady` (no break, no lost
  connection), `InHand` (a mail in work belongs to a batch in hand) and `OnceSoFar`
  (a batch never returned has published a mail at most once, and not before the
  mail was done).
* `AnalyzerKeepsPromise` — `MailsAsPromised`: `Analyzer` implements `ParsedEmails`.  A mail
  is in `ConvertEmail` only while a consumer handles its batch (`WorkIsHeld`), so a
  worker's publication is a `Parse` of a queued batch; `AckedMeansPublished` is the
  guard of `Acknowledge`; returns and redeliveries are stutters (`SameLifecycle`).
* `WorkAlwaysAdvances` — `WorkAdvances`, why `wg.Wait` returns: no step takes a mail in
  hand back, and each step of its own worker brings it to a later `Stage`.

`ModelCallAssumption` (finitely many workers, at least one attempt, a limit of at least
1):

* `AttemptsAreInvisible` (`CallsAreAtomic`): every step of a call is a step of the
  breaker or leaves it alone.
* `TypeCorrect`, with `LoopInv`: a loop that goes on has attempts left.
* `ErrorOrResponseAlways` through `CallInv`: there is no response before the last
  attempt, `lastErr` is set once an attempt failed (so a loop that ran out cannot
  return nil), and a success has cleared `apiErr`.
* `LimitHoldsUnderRetry` and `BreakerStepsUnderRetry`: `OpenAtLimit`, `CountBounded`,
  `TripsOnStreakOnly` and `OpenHolds` of the breaker as it is used.  As in `Pipeline`,
  `CircuitBreaker_proofs` is instantiated under the substitution of `CB` (as `BP`, the
  lemmas `Same...`), and the refinement hands its theorems on.
* `FruitlessAttemptsAlwaysBounded` (`FruitlessAttemptsBounded`) through `MissesPaid`:
  the attempts that failed since the last success or probe are no more than
  `MaxAttempts` for each failure the breaker counts and one for each member of
  `Spent`, the attempts that calls in flight have behind them.  A failed attempt
  adds a member (`FailedSpends`), the end of a call in an error takes at most
  `MaxAttempts` of them and adds one failure (`FailReleases`), and below the limit
  (`LimitHoldsUnderRetry`) the failures are less than `MaxFailures`.
* `RetryTerminates` — `CallAdvances` and `CallsAreShort`, the part of `EveryCallEnds` that
  needs no fairness: a call has at most `3 * MaxAttempts + 2` steps ahead of it
  (`StepsLeft`), each step of its own makes them fewer, and no step of another
  worker, of the clock or of a signal adds one or prolongs its pause.

`PipelineAssumption` (copies, collectors and bounds are of the right kind), on top of
`AnalyzerAssumption`; `Substitution` derives the collector's assumption from it:

* `PipelineImplementsAnalyzer` and `PipelineImplementsCollector`: every step of the
  composition is a step, or a stutter, of each component.  `Pipeline_proofs`
  instantiates `Collector_proofs` under the same substitution as `C` (the lemmas
  `Same...` say that the two instances agree), so all theorems about the components
  are theorems about the composition.
* `PipelineKeepsPromise`: hence the composition keeps both `MailsAsPromised` and
  `TasksAsPromised`, the latter for the copies the analyzer publishes.
* `PipelineTypeCorrect`; `NothingVanishesAlways` and `DeletedStaysDeletedEndToEnd`
  through `QueueInv`: what the analyzer published is in the queue or was discarded
  (`CopiesArrive`), and two messages of a mail are two copies of it
  (`MessagesCounted`).  With it, `NothingVanishes` follows from
  `AckedMeansPublished`, `AckedMeansStored` and `LossNeedsDbError`, and
  `DeletedComesBackAfterFailureOnly` from `CopiesNeedFailure` and
  `DeletedStaysDeleted`.

`AuthAssumption` (lifetimes of at least one tick) and `NoneAssumption`:

* `TypeCorrect`: a request carries what its next step needs.
* `RevokedRefusedAlways`.  `RevokedRefused` is not inductive: a revoked token must be on
  the blacklist, expired or forgotten at every moment, also while a second log-out
  overwrites or fails to write its entry, and a request that passed the blacklist
  and began after the log-out can only have a token that expired before, which
  `Parse` will see.
* `VersionPinsPasswordAlways`: a password changes together with the version only, and
  no version exceeds the row's, for refresh tokens and for log-ins in between.
* `EndedSessionsStay` (`EndedForGood`) from the same invariant: the row of a refresh
  token's owner is there and only moves to higher versions (`BehindStays`,
  `TableChanges`), and a request comes to its grant only through the comparison of
  versions (`GrantIsCurrent`).

`GatewayAssumption` (calls are under the gateway's prefixes; `None` is nothing else) and
`HostAssumption` (every domain has a server; the known providers' servers have
hostnames and the bridge has none):

* `GatewayImplementsAuth`, and with it `RevokedRefusedBehindGateway`,
  `VersionPinsPasswordBehindGateway` and `EndedSessionsStayBehindGateway`.
* `GatewayTypeCorrect`; `RevokedNotServedAlways` (an admitted caller is the job of an
  accepted validation); `LateAnswerAdmitsNobodyAlways` (only `Receive` opens a request,
  and it needs an auth service that is done with the last one of that name);
  `OwnDataOnlyAlways`, for all paths and headers.
* `TLSByDefaultAlways` and `AddressSufficesAlways`, for all bodies, domains and
  hostnames.  `AutoIMAPFills` says what the middleware leaves of a body that it reads,
  `CreateSettings` what core makes of any body, `ProviderTypes` that only the bridge
  goes without TLS.  Without `read` in its conclusion `TLSByDefault` is false: a body
  that only core can read gets no defaults.

Only proved: `PipelineTypeOK`, `ModelCallTypeOK`, `GatewayTypeOK` and the `TypeOK` of all
other modules but `Collector`; the breaker's properties of `ModelCall`; the refinement
`TasksAsPromised`; `CycleAdvances`, `WorkAdvances`, `CallAdvances`, `CallsAreShort`,
`SyncOrder`, `NoOvertaking`, `NoWayBack`, `RecoveredForGood` and `HeldWhileHandled`; and
the strengthenings named above.  They hold on
the instances of the runs too, but no run repeats them.

Only model-checked: the liveness properties (they need ENABLED and fairness,
out of the prover's reach) and the counterexamples.  `CycleAlwaysAdvances`,
`NobodyOvertakes`, `RecoveryAdvances`, `WorkAlwaysAdvances` and `RetryTerminates` are the
part of five of them that is not: each step the fairness grants comes nearer to the
end, and no other step takes it back.  Every invariant and
action property of a run that passes is a theorem.

## 5. Findings

1. `mail_sync_lost` — `syncer.go:100` reads a nil batch after every sync that
   has messages but nothing left to publish (all known, all failed, or a
   multiple of 7); the process exits.  `producer.go:40` and its test mean the
   empty batch to be a no-op.
2. `mail_sync_lost` — a mail is saved and `\Seen` before its batch is published.
   If the process dies in between, `EmailExists` hides it from every later sync
   and it never reaches the analyzer.
3. `mail_sync_midnight` — `last_sync_at` is taken at the end of a sync although
   the search was at its beginning.
4. `breaker_wait` — going half-open resets the count, so the breaker admits
   `maxFailures` more failing calls without waiting; the comment at
   `mistral.go:70` says five errors in a row, then thirty seconds.
5. `gateway_paths` — a request under `/api/v1/reminders` is sent to exactly
   `/api/v1/tasks` (`service_proxy.go:77`), where the comment two lines above means to
   replace the prefix.  Of the collector's six task routes (`routes.go:38-43`)
   the gateway reaches the listing only.

Noticed while modelling, without a run of their own: `CreateIntegration` answers
409 for a duplicate (`handlers.go:65`), which no unique key can ever report; a
graceful stop of the collector cancels the statement in hand and then drops the
message; a failed publish of a full batch makes a sync return with the rest of what it
fetched, which is `\Seen` and not in `emails_raw` (`syncer.go:90`); a collector that lost its channel stays up without a consumer; a task
that is reopened keeps its `completed_at`; a mail without deadline is stored with
the zero time and gets priority "urgent".  The comment at
`mistral.go:170` says that only retryable errors are repeated, but the closure returns
every error to `Retry`, which repeats after any.  A signal cancels the calls in flight, which count as failures of the model and
may trip the breaker, so that a stopping analyzer may publish fallbacks for mails
the model would have analysed.  A batch that cannot be decoded is requeued
without delay for ever.  An analyzer that lost its connection stays up without a
consumer.  In the same way a DELETE of an integration through the gateway loses its
id and meets no route, and paths under `/internal/reminders` are forwarded as they are,
where the collector has no route either.  README.md:105 puts the blacklist into
PostgreSQL; the code uses Redis.  An access token outlives a change of the password
until it expires.  A log-in within the second of a log-out yields the very token that
was revoked.  ProtonMail's address of the bridge on the user's machine is filled in by
the gateway and rejected by core's validator, and so is the server `imap.<domain>` of a
domain that is no RFC 952 hostname.  A body whose `email_address` is spelled in another
case, or that has something after its JSON value, is not completed by the gateway
(`imap.go:57-69`) and yet accepted by core, then without TLS if `use_ssl` is missing.
A scan whose rows break off is taken for a complete one (`database.go:100-110`).  Two
integrations of one user that receive the same mail may import it twice
(`syncer.go:117`).

## 6. Not modelled

* The HTTP layer beyond routes, the headers and path segments that select the user,
  and the validation of new integrations: binding, other validation, status codes.
* Encryption: `Decrypt` either works or `ConnectFails`.  Configuration and logging:
  read once, or wording.
* The listing of tasks with its filters, the statistics, priorities and
  `completed_at`: they only read, or nothing reads them.  A change of a task's title,
  text, deadline or priority is `UpdateTask` without a status, which is a stutter.
* `IncrementVersion`, `CleanExpiredTokens` and the other operations of the auth
  repositories that nothing calls.
* The bookkeeping of the RabbitMQ client for its tests and the backoff of its first
  dial.
* The classification of errors by their text in `retry.go`: an error has a kind.
* The migration runner (each file in one transaction, before the service starts), nginx.
* Core in the same composition as analyzer and collector: their product is out of
  TLC's reach.  They meet in `RawEmails`, which core implements, and in the
  assumption that a mail is in one batch, which `RawEmails` justifies; from there
  on `ParsedEmails` and `TaskStore` say what happens to a batch.

## 7. Plan

Done: `MailSync`, `CircuitBreaker`, `Collector`, `Analyzer`, `ModelCall`, `Pipeline`,
`AuthSession`, `Gateway`, with runs and proofs, and `RawEmails`, `ParsedEmails` and
`TaskStore`, which they implement.  What could follow, in this order:

1. A `Pipeline` whose batches come from `RawEmails` instead of a constant, so that
   the end-to-end theorems start at `emails_raw`.
2. An abstract breaker (closed, open for the timeout, probing) that
   `CircuitBreaker` implements.
