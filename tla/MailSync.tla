------------------------------ MODULE MailSync ------------------------------
(***************************************************************************)
(* The mail half of the core service: the scheduler, its worker pool, the  *)
(* IMAP mailboxes the workers read, the two tables they share with the     *)
(* HTTP handlers, and the raw_emails exchange they publish to.             *)
(*                                                                         *)
(* A worker runs Syncer.SyncIntegration.  Every call it makes to the IMAP  *)
(* server, to PostgreSQL or to RabbitMQ is a step of its own, because the  *)
(* other workers, the mailbox owner, the HTTP handlers and a crash can     *)
(* come in between.                                                        *)
(*                                                                         *)
(* Abstractions.  Message bodies, senders, passwords and dates are left    *)
(* out; an email is its Message-ID header.  The order inside a batch is    *)
(* left out, so a batch is a set of row ids, and the nil batch pointer of  *)
(* the Go code is the empty set (a non-nil batch is never empty).          *)
(* last_sync_at is kept twice: its calendar day, which is all IMAP SINCE   *)
(* compares, and its rank among the integrations, which is all ORDER BY    *)
(* uses.                                                                   *)
(***************************************************************************)
EXTENDS Integers, Sequences, FiniteSets

CONSTANTS
  Integrations,   \* ids CreateIntegration may hand out
  Workers,        \* the goroutines syncAll starts (MAX_WORKERS of them)
  Messages,       \* the mail that may ever be delivered
  User,           \* [Integrations -> user ids]
  Mailbox,        \* [Integrations -> mailboxes]
  Home,           \* [Messages -> mailboxes], where a message is delivered
  Header,         \* [Messages -> Message-ID headers]
  MaxBatchSize,   \* maxBatchSize in syncer.go
  ScanLimit,      \* BATCH_SIZE, the LIMIT of GetIntegrationsForSync
  Faults,         \* which failures may happen: see FaultKinds
  MaxDay,         \* bound: calendar days that pass
  MaxUnread,      \* bound: how often an owner marks a message unread again
  None            \* no integration, no message

FaultKinds == {"connect", "fetch", "db", "publish", "crash"}

ASSUME MailSyncAssumption ==
  /\ MaxBatchSize \in Nat \ {0}
  /\ ScanLimit \in Nat
  /\ MaxDay \in Nat
  /\ MaxUnread \in Nat
  /\ Faults \subseteq FaultKinds
  /\ IsFiniteSet(Integrations)
  /\ None \notin Integrations \cup Messages
  /\ DOMAIN User = Integrations
  /\ DOMAIN Mailbox = Integrations
  /\ DOMAIN Home = Messages
  /\ DOMAIN Header = Messages

VARIABLES
  account,   \* email_integrations: "new", "active" or "deleted"
  recency,   \* rank of last_sync_at among the integrations, 0 is NULL
  syncDay,   \* calendar day of last_sync_at, Never is NULL
  emails,    \* emails_raw; the index of a row stands for its UUID
  sent,      \* the batches PublishEmailBatch gave to the exchange, in order
  today,     \* the calendar day
  arrived,   \* day a message was delivered, Never if it was not
  seen,      \* messages with the IMAP \Seen flag
  taken,     \* history: messages whose \Seen flag a FETCH of ours set
  unreads,   \* how often an owner marked a message unread
  sched,     \* the process and its scheduler goroutine
  stopping,  \* SIGTERM received, Scheduler.Stop waits
  jobs,      \* syncAll's jobs channel
  pc,        \* where each worker is
  job,       \* the integration it syncs, and its snapshot of last_sync_at
  todo,      \* messages it searched or fetched and has not processed yet
  msg,       \* message between EmailExists and SaveEmail
  batch      \* currentBatch

tables   == <<account, recency, syncDay, emails>>
mailbox  == <<arrived, seen, taken, unreads>>
process  == <<sched, stopping, jobs>>
locals   == <<pc, job, todo, msg, batch>>
vars     == <<tables, sent, today, mailbox, process, locals>>

Never == -1
NoJob == [id |-> None, since |-> Never]
Ids   == 1 .. Len(emails)
Row(i, m) == [user |-> User[i], mid |-> Header[m]]
Ranks == 0 .. Cardinality(Integrations)
Jobs  == [id : Integrations, since : Never .. MaxDay]

PCs == {"idle", "search", "fetch", "loop", "save", "publish", "final", "update"}

Rows  == [user : {User[i] : i \in Integrations}, mid : {Header[m] : m \in Messages}]

TablesOK ==
  /\ account \in [Integrations -> {"new", "active", "deleted"}]
  /\ recency \in [Integrations -> Ranks]
  /\ syncDay \in [Integrations -> Never .. MaxDay]
  /\ emails \in Seq(Rows)

MailboxOK ==
  /\ arrived \in [Messages -> Never .. MaxDay]
  /\ seen \subseteq Messages
  /\ taken \subseteq Messages
  /\ unreads \in 0 .. MaxUnread

ProcessOK ==
  /\ sched \in {"booting", "idle", "cycle", "down"}
  /\ stopping \in BOOLEAN
  /\ jobs \in Seq(Jobs)

LocalsOK ==
  /\ pc \in [Workers -> PCs]
  /\ job \in [Workers -> Jobs \cup {NoJob}]
  /\ todo \in [Workers -> SUBSET Messages]
  /\ msg \in [Workers -> Messages \cup {None}]

\* What is published or pending is a row: SaveEmail comes before publishing.
BatchesOK ==
  /\ sent \in Seq(SUBSET Ids)
  /\ batch \in [Workers -> SUBSET Ids]

TypeOK ==
  /\ TablesOK
  /\ MailboxOK
  /\ ProcessOK
  /\ LocalsOK
  /\ BatchesOK
  /\ today \in 0 .. MaxDay

Init ==
  /\ account = [i \in Integrations |-> "new"]
  /\ recency = [i \in Integrations |-> 0]
  /\ syncDay = [i \in Integrations |-> Never]
  /\ emails = <<>>
  /\ sent = <<>>
  /\ today = 0
  /\ arrived = [m \in Messages |-> Never]
  /\ seen = {}
  /\ taken = {}
  /\ unreads = 0
  /\ sched = "booting"
  /\ stopping = FALSE
  /\ jobs = <<>>
  /\ pc = [w \in Workers |-> "idle"]
  /\ job = [w \in Workers |-> NoJob]
  /\ todo = [w \in Workers |-> {}]
  /\ msg = [w \in Workers |-> None]
  /\ batch = [w \in Workers |-> {}]

-----------------------------------------------------------------------------
(***************************************************************************)
(* The world outside: mail arrives, its owner reads it or marks it unread, *)
(* midnight passes, users add and remove integrations.                     *)
(***************************************************************************)
Deliver(m) ==
  /\ arrived[m] = Never
  /\ arrived' = [arrived EXCEPT ![m] = today]
  /\ UNCHANGED <<tables, sent, today, seen, taken, unreads, process, locals>>

OwnerReads(m) ==
  /\ arrived[m] # Never
  /\ m \notin seen
  /\ seen' = seen \cup {m}
  /\ UNCHANGED <<tables, sent, today, arrived, taken, unreads, process, locals>>

OwnerMarksUnread(m) ==
  /\ m \in seen
  /\ unreads < MaxUnread
  /\ unreads' = unreads + 1
  /\ seen' = seen \ {m}
  /\ UNCHANGED <<tables, sent, today, arrived, taken, process, locals>>

Midnight ==
  /\ today < MaxDay
  /\ today' = today + 1
  /\ UNCHANGED <<tables, sent, mailbox, process, locals>>

\* The HTTP handlers of the same process.  Every request gets a fresh UUID,
\* and the table has no key on the mailbox.
CreateIntegration(i) ==
  /\ sched # "down"
  /\ account[i] = "new"
  /\ account' = [account EXCEPT ![i] = "active"]
  /\ UNCHANGED <<recency, syncDay, emails, sent, today, mailbox, process, locals>>

DeleteIntegration(i) ==
  /\ sched # "down"
  /\ account[i] = "active"
  /\ account' = [account EXCEPT ![i] = "deleted"]
  /\ UNCHANGED <<recency, syncDay, emails, sent, today, mailbox, process, locals>>

-----------------------------------------------------------------------------
(***************************************************************************)
(* Scheduler.                                                              *)
(***************************************************************************)
Active == {i \in Integrations : account[i] = "active"}

\* Mutant: the ORDER BY is lost.
ScanResult_Unordered(s) ==
  LET listed == {s[k] : k \in DOMAIN s}
  IN /\ listed \subseteq Active
     /\ \A k, l \in DOMAIN s : k < l => s[k] # s[l]
     /\ Active \subseteq listed \/ Len(s) = ScanLimit

\* ORDER BY last_sync_at ASC NULLS FIRST: what rows may come first.
FirstRows(s) ==
  LET listed == {s[k] : k \in DOMAIN s}
  IN /\ listed \subseteq Active
     /\ \A k, l \in DOMAIN s : k < l => s[k] # s[l] /\ recency[s[k]] <= recency[s[l]]
     /\ \A i \in listed, j \in Active \ listed : recency[i] <= recency[j]

\* ... LIMIT n: all of them, or as many as the limit.
ScanResult(s) ==
  /\ FirstRows(s)
  /\ Active \subseteq {s[k] : k \in DOMAIN s} \/ Len(s) = ScanLimit

Scans == UNION {[1 .. n -> Integrations] :
                  n \in {k \in 0 .. Cardinality(Integrations) : k <= ScanLimit}}

\* syncAll up to close(jobs), for the integrations s; nothing to do if none.
Dispatch(s) ==
  /\ jobs' = [k \in DOMAIN s |-> [id |-> s[k], since |-> syncDay[s[k]]]]
  /\ sched' = IF s = <<>> THEN "idle" ELSE "cycle"

\* Mutant: the ticker starts syncAll in a goroutine of its own.
SyncAll_Overlapping ==
  /\ sched # "down"
  /\ \E s \in Scans : ScanResult(s) /\ Dispatch(s)
  /\ UNCHANGED <<tables, sent, today, mailbox, stopping, locals>>

\* Once at boot and then once per ticker event.
SyncAll ==
  /\ sched \in {"booting", "idle"}
  /\ \E s \in Scans : ScanResult(s) /\ Dispatch(s)
  /\ UNCHANGED <<tables, sent, today, mailbox, stopping, locals>>

\* The rows break off: rows.Next returns false, nobody asks rows.Err, and the
\* first ones are taken for all.
ScanBreaks ==
  /\ "db" \in Faults
  /\ sched \in {"booting", "idle"}
  /\ \E s \in Scans : FirstRows(s) /\ Dispatch(s)
  /\ UNCHANGED <<tables, sent, today, mailbox, stopping, locals>>

\* GetIntegrationsForSync fails: syncAll returns.
ScanFails ==
  /\ "db" \in Faults
  /\ sched = "booting"
  /\ sched' = "idle"
  /\ UNCHANGED <<tables, sent, today, mailbox, stopping, jobs, locals>>

\* syncAll has received one result per integration; run() is back at select.
CycleEnds ==
  /\ sched = "cycle"
  /\ jobs = <<>>
  /\ \A w \in Workers : pc[w] = "idle"
  /\ sched' = "idle"
  /\ UNCHANGED <<tables, sent, today, mailbox, stopping, jobs, locals>>

\* SIGTERM: main returns and its deferred sched.Stop() closes stopChan.
Sigterm ==
  /\ sched # "down"
  /\ ~stopping
  /\ stopping' = TRUE
  /\ UNCHANGED <<tables, sent, today, mailbox, sched, jobs, locals>>

\* run() takes the stopChan case.  It can only do so between two cycles.
Halt ==
  /\ sched = "idle"
  /\ stopping
  /\ sched' = "down"
  /\ stopping' = FALSE
  /\ UNCHANGED <<tables, sent, today, mailbox, jobs, locals>>

\* The process dies: tables, mailboxes and exchange stay, the rest is gone.
Dies ==
  /\ sched' = "down"
  /\ stopping' = FALSE
  /\ jobs' = <<>>
  /\ pc' = [w \in Workers |-> "idle"]
  /\ job' = [w \in Workers |-> NoJob]
  /\ todo' = [w \in Workers |-> {}]
  /\ msg' = [w \in Workers |-> None]
  /\ batch' = [w \in Workers |-> {}]
  /\ UNCHANGED <<tables, sent, today, mailbox>>

Crash ==
  /\ "crash" \in Faults
  /\ sched # "down"
  /\ Dies

Restart ==
  /\ sched = "down"
  /\ sched' = "booting"
  /\ UNCHANGED <<tables, sent, today, mailbox, stopping, jobs, locals>>

-----------------------------------------------------------------------------
(***************************************************************************)
(* Syncer.SyncIntegration, run by a worker.                                *)
(***************************************************************************)
At(w, p) == pc[w] = p
Goto(w, p) == pc' = [pc EXCEPT ![w] = p]

\* SyncIntegration returns, with or without an error, to the worker's loop.
Return(w) ==
  /\ Goto(w, "idle")
  /\ job' = [job EXCEPT ![w] = NoJob]
  /\ todo' = [todo EXCEPT ![w] = {}]
  /\ msg' = [msg EXCEPT ![w] = None]
  /\ batch' = [batch EXCEPT ![w] = {}]

TakeJob(w) ==
  /\ At(w, "idle")
  /\ jobs # <<>>
  /\ job' = [job EXCEPT ![w] = Head(jobs)]
  /\ jobs' = Tail(jobs)
  /\ Goto(w, "search")
  /\ UNCHANGED <<tables, sent, today, mailbox, sched, stopping, todo, msg, batch>>

\* Decrypt, NewIMAPClient, Login or Select fails.
ConnectFails(w) ==
  /\ "connect" \in Faults
  /\ At(w, "search")
  /\ Return(w)
  /\ UNCHANGED <<tables, sent, today, mailbox, process>>

\* UNSEEN SINCE <day of last_sync_at, or of 24 hours ago>
Since(w) == IF job[w].since = Never THEN today - 1 ELSE job[w].since

Found(w) == {m \in Messages \ seen : /\ Home[m] = Mailbox[job[w].id]
                                     /\ arrived[m] # Never
                                     /\ arrived[m] >= Since(w)}

Search(w) ==
  /\ At(w, "search")
  /\ todo' = [todo EXCEPT ![w] = Found(w)]
  /\ Goto(w, IF Found(w) = {} THEN "update" ELSE "fetch")
  /\ UNCHANGED <<tables, sent, today, mailbox, process, job, msg, batch>>

\* Mutant: FETCH of 1:* instead of the messages the SEARCH found.
Fetch_WholeMailbox(w) ==
  LET all == {m \in Messages \ seen : Home[m] = Mailbox[job[w].id] /\ arrived[m] # Never}
  IN /\ At(w, "fetch")
     /\ seen' = seen \cup all
     /\ taken' = taken \cup all
     /\ Goto(w, "loop")
     /\ UNCHANGED <<tables, sent, today, arrived, unreads, process, job, todo, msg, batch>>

\* FETCH RFC822 in a mailbox selected read-write also sets \Seen.
Fetch(w) ==
  /\ At(w, "fetch")
  /\ seen' = seen \cup todo[w]
  /\ taken' = taken \cup todo[w]
  /\ Goto(w, "loop")
  /\ UNCHANGED <<tables, sent, today, arrived, unreads, process, job, todo, msg, batch>>

\* The FETCH breaks off: what it got so far is dropped, but it is \Seen.
FetchFails(w) ==
  /\ "fetch" \in Faults
  /\ At(w, "fetch")
  /\ \E got \in SUBSET todo[w] :
       /\ seen' = seen \cup got
       /\ taken' = taken \cup got
  /\ Return(w)
  /\ UNCHANGED <<tables, sent, today, arrived, unreads, process>>

\* Mutant: the query gets a wrong argument.
Exists_Never(i, m) == FALSE

Exists(i, m) == \E r \in Ids : emails[r] = Row(i, m)

\* processMessage: the EmailExists query, and `return nil, nil` on a hit.
EmailExists(w, m) ==
  /\ At(w, "loop")
  /\ m \in todo[w]
  /\ todo' = [todo EXCEPT ![w] = @ \ {m}]
  /\ IF Exists(job[w].id, m)
       THEN UNCHANGED <<pc, msg>>
       ELSE Goto(w, "save") /\ msg' = [msg EXCEPT ![w] = m]
  /\ UNCHANGED <<tables, sent, today, mailbox, process, job, batch>>

EmailExistsFails(w, m) ==
  /\ "db" \in Faults
  /\ At(w, "loop")
  /\ m \in todo[w]
  /\ todo' = [todo EXCEPT ![w] = @ \ {m}]
  /\ UNCHANGED <<tables, sent, today, mailbox, process, pc, job, msg, batch>>

\* Mutant: a new currentBatch for every message.
SaveEmail_NewBatch(w) ==
  /\ At(w, "save")
  /\ emails' = Append(emails, Row(job[w].id, msg[w]))
  /\ batch' = [batch EXCEPT ![w] = {Len(emails) + 1}]
  /\ msg' = [msg EXCEPT ![w] = None]
  /\ Goto(w, "loop")
  /\ UNCHANGED <<account, recency, syncDay, sent, today, mailbox, process, job, todo>>

\* processMessage: SaveEmail under a fresh UUID, then append to the batch.
SaveEmail(w) ==
  LET full == batch[w] \cup {Len(emails) + 1}
  IN /\ At(w, "save")
     /\ emails' = Append(emails, Row(job[w].id, msg[w]))
     /\ batch' = [batch EXCEPT ![w] = full]
     /\ msg' = [msg EXCEPT ![w] = None]
     /\ Goto(w, IF Cardinality(full) >= MaxBatchSize THEN "publish" ELSE "loop")
     /\ UNCHANGED <<account, recency, syncDay, sent, today, mailbox, process, job, todo>>

\* Mutant: the mail is put into the batch before the error is looked at.
SaveEmailFails_Batched(w) ==
  LET full == batch[w] \cup {Len(emails) + 1}
  IN /\ "db" \in Faults
     /\ At(w, "save")
     /\ emails' \in {emails, Append(emails, Row(job[w].id, msg[w]))}
     /\ batch' = [batch EXCEPT ![w] = full]
     /\ msg' = [msg EXCEPT ![w] = None]
     /\ Goto(w, IF Cardinality(full) >= MaxBatchSize THEN "publish" ELSE "loop")
     /\ UNCHANGED <<account, recency, syncDay, sent, today, mailbox, process, job, todo>>

\* The INSERT reports an error; if the reply got lost the row is there.
SaveEmailFails(w) ==
  /\ "db" \in Faults
  /\ At(w, "save")
  /\ emails' \in {emails, Append(emails, Row(job[w].id, msg[w]))}
  /\ msg' = [msg EXCEPT ![w] = None]
  /\ Goto(w, "loop")
  /\ UNCHANGED <<account, recency, syncDay, sent, today, mailbox, process, job, todo, batch>>

\* Mutant: only full batches are published.
LoopEnds_DropRest(w) ==
  /\ At(w, "loop")
  /\ todo[w] = {}
  /\ batch[w] # {}
  /\ batch' = [batch EXCEPT ![w] = {}]
  /\ Goto(w, "update")
  /\ UNCHANGED <<tables, sent, today, mailbox, process, job, todo, msg>>

\* The loop is over: line 100 looks into currentBatch ...
LoopEnds(w) ==
  /\ At(w, "loop")
  /\ todo[w] = {}
  /\ batch[w] # {}
  /\ Goto(w, "final")
  /\ UNCHANGED <<tables, sent, today, mailbox, process, job, todo, msg, batch>>

\* ... which is a nil pointer if nothing is pending: the goroutine panics,
\* nobody recovers, and the whole process exits.
Panic(w) ==
  /\ At(w, "loop")
  /\ todo[w] = {}
  /\ batch[w] = {}
  /\ Dies

\* Mutant: currentBatch = nil is forgotten after a full batch.
PublishEmailBatch_KeepBatch(w) ==
  /\ pc[w] \in {"publish", "final"}
  /\ sent' = Append(sent, batch[w])
  /\ Goto(w, IF At(w, "publish") THEN "loop" ELSE "update")
  /\ UNCHANGED <<tables, today, mailbox, process, job, todo, msg, batch>>

\* PublishEmailBatch of a full batch, or of the rest after the loop.
PublishEmailBatch(w) ==
  /\ pc[w] \in {"publish", "final"}
  /\ sent' = Append(sent, batch[w])
  /\ batch' = [batch EXCEPT ![w] = {}]
  /\ Goto(w, IF At(w, "publish") THEN "loop" ELSE "update")
  /\ UNCHANGED <<tables, today, mailbox, process, job, todo, msg>>

PublishFails(w) ==
  /\ "publish" \in Faults
  /\ pc[w] \in {"publish", "final"}
  /\ Return(w)
  /\ UNCHANGED <<tables, sent, today, mailbox, process>>

\* The connection is lost after channel.Publish and before the deferred
\* channel.Close, which would have waited for the broker and whose error
\* nobody looks at: PublishMessage returns nil all the same.
PublishLost(w) ==
  /\ "publish" \in Faults
  /\ pc[w] \in {"publish", "final"}
  /\ batch' = [batch EXCEPT ![w] = {}]
  /\ Goto(w, IF At(w, "publish") THEN "loop" ELSE "update")
  /\ UNCHANGED <<tables, sent, today, mailbox, process, job, todo, msg>>

\* SET last_sync_at = NOW(): i becomes the most recently synced one.  A row
\* deleted meanwhile matches nothing, and that is no error.
Touch(i) ==
  IF account[i] = "active"
    THEN /\ recency' = [j \in Integrations |->
                          IF j = i THEN Cardinality(Integrations)
                          ELSE IF recency[j] > recency[i] THEN recency[j] - 1
                          ELSE recency[j]]
         /\ syncDay' = [syncDay EXCEPT ![i] = today]
    ELSE UNCHANGED <<recency, syncDay>>

UpdateLastSync(w) ==
  /\ At(w, "update")
  /\ Touch(job[w].id)
  /\ Return(w)
  /\ UNCHANGED <<account, emails, sent, today, mailbox, process>>

UpdateLastSyncFails(w) ==
  /\ "db" \in Faults
  /\ At(w, "update")
  /\ Touch(job[w].id) \/ UNCHANGED <<recency, syncDay>>
  /\ Return(w)
  /\ UNCHANGED <<account, emails, sent, today, mailbox, process>>

-----------------------------------------------------------------------------
World ==
  \/ \E m \in Messages : Deliver(m)
  \/ \E m \in Messages : OwnerReads(m)
  \/ \E m \in Messages : OwnerMarksUnread(m)
  \/ Midnight
  \/ \E i \in Integrations : CreateIntegration(i)
  \/ \E i \in Integrations : DeleteIntegration(i)

Scheduler == SyncAll \/ ScanBreaks \/ ScanFails \/ CycleEnds \/ Sigterm \/ Halt \/ Crash \/ Restart

SyncStep(w) ==
  \/ TakeJob(w)
  \/ ConnectFails(w)
  \/ Search(w)
  \/ Fetch(w)
  \/ FetchFails(w)
  \/ \E m \in Messages : EmailExists(w, m)
  \/ \E m \in Messages : EmailExistsFails(w, m)
  \/ SaveEmail(w)
  \/ SaveEmailFails(w)
  \/ LoopEnds(w)
  \/ Panic(w)
  \/ PublishEmailBatch(w)
  \/ PublishFails(w)
  \/ PublishLost(w)
  \/ UpdateLastSync(w)
  \/ UpdateLastSyncFails(w)

Next == World \/ Scheduler \/ \E w \in Workers : SyncStep(w)

Spec == Init /\ [][Next]_vars

(***************************************************************************)
(* The ticker keeps firing, goroutines are scheduled, every remote call    *)
(* returns or times out, and docker restarts a core that exited with an    *)
(* error (docker-compose.yml, restart: on-failure); after a graceful stop  *)
(* the operator starts it again.                                           *)
(***************************************************************************)
Fairness ==
  /\ WF_vars(SyncAll)
  /\ WF_vars(CycleEnds)
  /\ WF_vars(Restart)
  /\ \A w \in Workers : WF_vars(SyncStep(w))

LiveSpec == Spec /\ Fairness

-----------------------------------------------------------------------------
(***************************************************************************)
(* Safety.                                                                 *)
(***************************************************************************)

\* No row of emails_raw goes to the exchange twice, whatever fails, restarts
\* or runs in parallel: published batches are disjoint from each other and
\* from every batch a worker still holds (syncer.go:87-105).
SentOnce ==
  /\ \A p, q \in DOMAIN sent : p # q => sent[p] \cap sent[q] = {}
  /\ \A p \in DOMAIN sent, w \in Workers : sent[p] \cap batch[w] = {}
  /\ \A v, w \in Workers : v # w => batch[v] \cap batch[w] = {}

\* No integration is synced by two workers at a time, or by one while it is
\* queued again: cycles never overlap and a scan lists a row once
\* (sheduler.go:48-102).
OneWorkerPerIntegration ==
  /\ \A v, w \in Workers : v # w /\ job[v] # NoJob => job[v].id # job[w].id
  /\ \A w \in Workers, k \in DOMAIN jobs : jobs[k].id # job[w].id
  /\ \A k, l \in DOMAIN jobs : k # l => jobs[k].id # jobs[l].id

\* The user can be reached through two integrations that both receive h.
Contended(u, h) ==
  \E i, j \in Integrations :
    /\ i # j
    /\ User[i] = u /\ User[j] = u
    /\ \A k \in {i, j} : \E m \in Messages : Home[m] = Mailbox[k] /\ Header[m] = h

\* EmailExists and SaveEmail are two statements and emails_raw has no unique
\* key, yet a user gets one row per Message-ID unless two of the user's
\* integrations receive the same message (syncer.go:117-143).
NoDuplicateImport ==
  \A r, s \in Ids :
    r # s /\ emails[r] = emails[s] => Contended(emails[r].user, emails[r].mid)

\* What makes the two invariants above inductive: between cycles nothing
\* runs, an idle worker has no job, a worker handles its own mailbox's mail,
\* and between EmailExists and SaveEmail only a worker of another integration
\* of that user can insert the row.
QuietBetweenCycles ==
  sched # "cycle" => jobs = <<>> /\ \A w \in Workers : pc[w] = "idle"

IdleHasNoJob == \A w \in Workers : pc[w] = "idle" => job[w] = NoJob

OwnMail ==
  \A w \in Workers, m \in Messages :
    m \in todo[w] \/ m = msg[w] => pc[w] # "idle" /\ Home[m] = Mailbox[job[w].id]

StillMissing ==
  \A w \in Workers :
    pc[w] = "save" /\ Exists(job[w].id, msg[w])
      => Contended(User[job[w].id], Header[msg[w]])

ImportInv ==
  /\ QuietBetweenCycles
  /\ IdleHasNoJob
  /\ OneWorkerPerIntegration
  /\ OwnMail
  /\ StillMissing
  /\ NoDuplicateImport

\* Rows that are in emails_raw but neither published nor in the batch of a
\* running worker.  EmailExists makes every later sync skip them.
Stranded ==
  {r \in Ids : /\ \A p \in DOMAIN sent : r \notin sent[p]
               /\ \A w \in Workers : r \notin batch[w]}

\* A saved email is left unpublished only by a failed publish, a connection
\* lost during one, an INSERT whose reply got lost, or the death of the
\* process; no order of workers, owners and handlers does it, and a graceful
\* stop does not (syncer.go:87-105).
OnlyFailuresStrand ==
  [][Stranded' # Stranded =>
       \/ Crash
       \/ \E w \in Workers : \/ PublishFails(w) \/ PublishLost(w)
                             \/ SaveEmailFails(w) \/ Panic(w)]_vars

\* Messages our FETCH marked \Seen, so no later sync will find them, that no
\* worker still has to process and that are in nobody's emails_raw.
Dropped ==
  {m \in taken : /\ \A w \in Workers : m \notin todo[w] /\ m # msg[w]
                 /\ \A r \in Ids : emails[r].mid # Header[m]}

\* A fetched message is forgotten only by a failure: a broken FETCH, a
\* database error (processMessage logs it and goes on), a failed publish of a
\* full batch (SyncIntegration returns and leaves the rest of what it
\* fetched), or the death of the process (client.go:88-90, syncer.go:78-95).
OnlyFailuresDrop ==
  [][~(Dropped' \subseteq Dropped) =>
       \/ Crash
       \/ \E w \in Workers : \/ FetchFails(w) \/ SaveEmailFails(w)
                             \/ PublishFails(w) \/ Panic(w)
                             \/ \E m \in Messages : EmailExistsFails(w, m)]_vars

\* What makes the two properties above provable: except inside its loop a
\* worker has nothing in hand that a return, with or without an error, could
\* throw away.
EmptyHanded ==
  \A w \in Workers :
    /\ pc[w] \in {"idle", "search", "fetch", "update"} => batch[w] = {}
    /\ pc[w] \in {"idle", "search", "final", "update"} => todo[w] = {}
    /\ pc[w] # "save" => msg[w] = None

(***************************************************************************)
(* What the repository says and the code does not do.                      *)
(***************************************************************************)

\* New mail is received (README.md:73): a delivered message that was never
\* seen stays within reach of the SINCE of the next sync of its mailbox.
NewMailWithinReach ==
  \A i \in Active, m \in Messages \ seen :
    Home[m] = Mailbox[i] /\ arrived[m] # Never /\ unreads = 0
      => syncDay[i] <= arrived[m]

(***************************************************************************)
(* Liveness.                                                               *)
(***************************************************************************)
Imported(m) ==
  \E p \in DOMAIN sent : \E r \in sent[p] : emails[r].mid = Header[m]

Wanted(m) ==
  /\ arrived[m] # Never
  /\ m \notin seen
  /\ \E i \in Active : Mailbox[i] = Home[m]

\* Mail that reaches a mailbox with an integration is handed to the analyzer,
\* unless its owner reads it first, the integration is removed, or midnight
\* passes before (README.md:73-74).
MailIsPublished ==
  \A m \in Messages : Wanted(m) ~> \/ Imported(m)
                                   \/ m \in seen \ taken
                                   \/ \A i \in Active : Mailbox[i] # Home[m]
                                   \/ today > arrived[m]

\* The scan serves every integration again and again, however small LIMIT is:
\* each one becomes the most recently synced one infinitely often
\* (database.go:88-92, 113-117).
EveryIntegrationSynced ==
  \A i \in Integrations :
    []<>(account[i] # "active" \/ recency[i] = Cardinality(Integrations))

\* The scan's order is the order of the last syncs: NULL is the rank of the
\* integrations never synced, deleted or not, and the others have each a rank
\* of their own, counted from the most recent sync downwards
\* (database.go:88-92, 113-117).
Later(i) == {j \in Integrations : recency[j] > recency[i]}

SyncOrder ==
  /\ \A i \in Integrations : recency[i] = 0 <=> syncDay[i] = Never
  /\ \A i, j \in Integrations : recency[i] = recency[j] /\ recency[i] # 0 => i = j
  /\ \A i \in Integrations :
       recency[i] # 0 => recency[i] + Cardinality(Later(i)) = Cardinality(Integrations)

\* The integrations a scan may list before i, or instead of it.
Before(i) == {j \in Active \ {i} : recency[j] <= recency[i]}

\* Why every integration gets its turn: until i is synced, only an
\* integration that is new can come before it, one that is synced goes behind
\* it, and a cycle without i is filled with those before it.  What remains is
\* that syncs succeed (database.go:88-92, 113-117, syncer.go:108-111).
NoOvertaking ==
  [][\A i \in Integrations :
       \/ recency[i] < Cardinality(Integrations) /\ recency'[i] = Cardinality(Integrations)
       \/ /\ Before(i)' \subseteq Before(i) \cup {j \in Integrations : account[j] = "new"}
          /\ \A w \in Workers :
               UpdateLastSync(w) /\ job[w].id # i => job[w].id \notin Before(i)'
          /\ SyncAll /\ i \in Active =>
               \/ \E k \in DOMAIN jobs' : jobs'[k].id = i
               \/ /\ Len(jobs') = ScanLimit
                  /\ \A k \in DOMAIN jobs' : jobs'[k].id \in Before(i)]_vars

\* What the analyzer may rely on: whatever fails or restarts, emails_raw only
\* grows, and every message on the exchange is a batch of at least one and at
\* most maxBatchSize saved mails, each of which was in no batch before
\* (syncer.go:75-107, producer.go:40-43).
RE == INSTANCE RawEmails

BatchesAsPromised == RE!Spec

\* What makes it provable: the batch a worker fills is below the limit, and
\* the one it is about to publish is neither empty nor above it.
BatchSizes ==
  \A w \in Workers :
    /\ pc[w] \in {"loop", "save"} => Cardinality(batch[w]) < MaxBatchSize
    /\ pc[w] \in {"publish", "final"} => Cardinality(batch[w]) \in 1 .. MaxBatchSize

\* Why a cycle ends, and with it the wait of a graceful stop: during a cycle
\* no job is added, each sync goes from its search to its end and with every
\* message it leaves behind has one less to process, and nobody but its own
\* worker moves it (syncer.go:29-113, sheduler.go:64-108).
Phase(w) == CASE pc[w] = "fetch"   -> 1
              [] pc[w] = "save"    -> 2
              [] pc[w] = "publish" -> 3
              [] pc[w] = "loop"    -> 4
              [] pc[w] = "final"   -> 5
              [] pc[w] = "update"  -> 6
              [] OTHER             -> 0

Advances(w) ==
  /\ pc'[w] # "search"
  /\ job'[w] = job[w]
  /\ \/ pc[w] = "search"
     \/ todo'[w] \subseteq todo[w] /\ todo'[w] # todo[w]
     \/ todo'[w] = todo[w] /\ Phase(w)' > Phase(w)

Rests(w) == UNCHANGED <<pc[w], job[w], todo[w]>>

Forward(w) ==
  /\ \A v \in Workers \ {w} : Rests(v)
  /\ \/ pc[w] = "idle" /\ pc'[w] = "search" /\ jobs # <<>> /\ jobs' = Tail(jobs)
     \/ UNCHANGED jobs /\ pc[w] # "idle" /\ (pc'[w] = "idle" \/ Advances(w))

CycleAdvances ==
  [][sched = "cycle" /\ sched' = "cycle" =>
       \/ UNCHANGED jobs /\ \A w \in Workers : Rests(w)
       \/ \E w \in Workers : Forward(w)]_vars
=============================================================================
