----------------------------- MODULE Collector -----------------------------
(***************************************************************************)
(* The collector service: its instances take parsed emails from the        *)
(* RabbitMQ queue, store each one as a task, and serve the users' requests *)
(* on the same table.                                                      *)
(*                                                                         *)
(* Each instance has one goroutine that handles one message at a time      *)
(* (Consumer.Start).  A handler's two statements, its acknowledgement, the *)
(* broker's deliveries, the users' requests, the loss of a channel, SIGTERM *)
(* and a crash are steps of their own.                                     *)
(*                                                                         *)
(* Abstractions.  Of a message only its email_id counts (email ids are     *)
(* unique across users, so the pair (email_id, user_id) of the code is the *)
(* email).  Of a task its email and its status count; a deleted row is     *)
(* kept with status "deleted", to remember that it was there.  The queue   *)
(* may deliver in any order, which several consumers and requeueing make   *)
(* of it anyway.                                                           *)
(***************************************************************************)
EXTENDS Integers, Sequences, FiniteSets

CONSTANTS
  Consumers,   \* collector instances, one consumer goroutine each
  Messages,    \* messages that may be published to parsed_emails
  Emails,      \* email ids
  Email,       \* [Messages -> Emails \cup {None}], None: not valid JSON
  Prefetch,    \* Qos(10, 0, false)
  Faults,      \* which failures may happen: see FaultKinds
  MaxBreaks,   \* bound: channels lost, signals and crashes
  None

FaultKinds == {"db", "channel", "stop", "crash"}
Places     == {"new", "ready", "acked", "dropped"}

ASSUME CollectorAssumption ==
  /\ Email \in [Messages -> Emails \cup {None}]
  /\ None \notin Emails \cup Messages
  /\ Consumers \cap Places = {}
  /\ Prefetch \in Nat \ {0}
  /\ MaxBreaks \in Nat
  /\ Faults \subseteq FaultKinds

VARIABLES
  place,      \* broker: where a message is; a consumer if it is unacked there
  tasks,      \* table tasks, in order of insertion
  pc,         \* where each consumer goroutine is
  cur,        \* the message it handles
  inbox,      \* deliveries the client library holds for it
  linked,     \* its AMQP channel is open
  stopping,   \* its ctx is cancelled: main is returning after a signal
  failed,     \* history: messages whose handler got a database error
  asked,      \* history: what the user last asked of an email's task
  breaks      \* history: channels lost, signals and crashes so far

process == <<pc, cur, inbox, linked, stopping>>
history == <<failed, asked, breaks>>
vars    == <<place, tasks, process, history>>

PCs == {"down", "idle", "exists", "insert", "ack", "nack", "ended"}
\* "other" is in_progress, cancelled or archived: only users write these.
Statuses == {"pending", "completed", "other"}
Tasks == [email : Emails, status : Statuses \cup {"deleted"}]

TypeOK ==
  /\ place \in [Messages -> Places \cup Consumers]
  /\ tasks \in Seq(Tasks)
  /\ pc \in [Consumers -> PCs]
  /\ cur \in [Consumers -> Messages \cup {None}]
  /\ inbox \in [Consumers -> SUBSET Messages]
  /\ linked \in [Consumers -> BOOLEAN]
  /\ stopping \in [Consumers -> BOOLEAN]
  /\ failed \subseteq Messages
  /\ asked \in [Emails -> Statuses \cup {"none"}]
  /\ breaks \in 0 .. MaxBreaks
  /\ \A c \in Consumers :
       /\ pc[c] \in {"exists", "insert"} => cur[c] # None /\ Email[cur[c]] # None
       /\ pc[c] \in {"ack", "nack"} => cur[c] # None

Init ==
  /\ place = [m \in Messages |-> "new"]
  /\ tasks = <<>>
  /\ pc = [c \in Consumers |-> "idle"]
  /\ cur = [c \in Consumers |-> None]
  /\ inbox = [c \in Consumers |-> {}]
  /\ linked = [c \in Consumers |-> TRUE]
  /\ stopping = [c \in Consumers |-> FALSE]
  /\ failed = {}
  /\ asked = [e \in Emails |-> "none"]
  /\ breaks = 0

At(c, p) == pc[c] = p
Goto(c, p) == pc' = [pc EXCEPT ![c] = p]

Rows == 1 .. Len(tasks)
Live == {k \in Rows : tasks[k].status # "deleted"}

-----------------------------------------------------------------------------
(***************************************************************************)
(* The broker.                                                             *)
(***************************************************************************)
Publish(m) ==
  /\ place[m] = "new"
  /\ place' = [place EXCEPT ![m] = "ready"]
  /\ UNCHANGED <<tasks, process, history>>

Unacked(c) == {m \in Messages : place[m] = c}

\* Mutant: Consume with autoAck = true.
Deliver_AutoAck(c, m) ==
  /\ pc[c] \notin {"down", "ended"}
  /\ linked[c]
  /\ place[m] = "ready"
  /\ Cardinality(Unacked(c)) < Prefetch
  /\ place' = [place EXCEPT ![m] = "acked"]
  /\ inbox' = [inbox EXCEPT ![c] = @ \cup {m}]
  /\ UNCHANGED <<tasks, pc, cur, linked, stopping, history>>

Deliver(c, m) ==
  /\ pc[c] \notin {"down", "ended"}
  /\ linked[c]
  /\ place[m] = "ready"
  /\ Cardinality(Unacked(c)) < Prefetch
  /\ place' = [place EXCEPT ![m] = c]
  /\ inbox' = [inbox EXCEPT ![c] = @ \cup {m}]
  /\ UNCHANGED <<tasks, pc, cur, linked, stopping, history>>

\* A closed channel: what was not acknowledged on it is delivered again.
Requeue(c) == place' = [m \in Messages |-> IF place[m] = c THEN "ready" ELSE place[m]]

\* The channel or its connection is lost.  The goroutine notices later.
ChannelCloses(c) ==
  /\ "channel" \in Faults
  /\ breaks < MaxBreaks
  /\ linked[c]
  /\ pc[c] # "down"
  /\ Requeue(c)
  /\ linked' = [linked EXCEPT ![c] = FALSE]
  /\ breaks' = breaks + 1
  /\ UNCHANGED <<tasks, pc, cur, inbox, stopping, failed, asked>>

-----------------------------------------------------------------------------
(***************************************************************************)
(* Consumer.Start and Consumer.processMessage.                             *)
(***************************************************************************)
\* Mutant: the error of json.Unmarshal is ignored.
Take_IgnoreJson(c, m) ==
  /\ At(c, "idle")
  /\ m \in inbox[c]
  /\ inbox' = [inbox EXCEPT ![c] = @ \ {m}]
  /\ cur' = [cur EXCEPT ![c] = m]
  /\ Goto(c, "exists")
  /\ UNCHANGED <<place, tasks, linked, stopping, history>>

\* The select takes a delivery, also if ctx is done or the channel is closed
\* already.  HandleEmailMessage: json.Unmarshal fails, or TaskExists is next.
Take(c, m) ==
  /\ At(c, "idle")
  /\ m \in inbox[c]
  /\ inbox' = [inbox EXCEPT ![c] = @ \ {m}]
  /\ cur' = [cur EXCEPT ![c] = m]
  /\ Goto(c, IF Email[m] = None THEN "nack" ELSE "exists")
  /\ UNCHANGED <<place, tasks, linked, stopping, history>>

\* Mutant: what is still buffered is nacked like the rest.
LoopEnds_NackRest(c) ==
  /\ At(c, "idle")
  /\ stopping[c] \/ ~linked[c]
  /\ Goto(c, "ended")
  /\ place' = [m \in Messages |->
                 IF m \in inbox[c] /\ place[m] = c THEN "dropped" ELSE place[m]]
  /\ UNCHANGED <<tasks, cur, inbox, linked, stopping, history>>

\* ctx is done or the delivery channel is closed: Start returns, for good.
LoopEnds(c) ==
  /\ At(c, "idle")
  /\ stopping[c] \/ ~linked[c]
  /\ Goto(c, "ended")
  /\ UNCHANGED <<place, tasks, cur, inbox, linked, stopping, history>>

HasTask(e) == \E k \in Live : tasks[k].email = e

TaskExists(c) ==
  /\ At(c, "exists")
  /\ Goto(c, IF HasTask(Email[cur[c]]) THEN "ack" ELSE "insert")
  /\ UNCHANGED <<place, tasks, cur, inbox, linked, stopping, history>>

\* A statement fails: an error of the database, 30 seconds are over, or ctx
\* is cancelled because the service stops.
MayFail(c) == "db" \in Faults \/ stopping[c]

TaskExistsFails(c) ==
  /\ At(c, "exists")
  /\ MayFail(c)
  /\ failed' = failed \cup {cur[c]}
  /\ Goto(c, "nack")
  /\ UNCHANGED <<place, tasks, cur, inbox, linked, stopping, asked, breaks>>

\* Mutant: the unique index is not there.
Insert_NoIndex(e) == tasks' = Append(tasks, [email |-> e, status |-> "pending"])

\* Mutant: ON CONFLICT DO UPDATE SET status = 'pending'.
Insert_Upsert(e) ==
  IF HasTask(e)
    THEN tasks' = [k \in Rows |-> IF tasks[k].email = e /\ k \in Live
                                    THEN [tasks[k] EXCEPT !.status = "pending"]
                                    ELSE tasks[k]]
    ELSE tasks' = Append(tasks, [email |-> e, status |-> "pending"])

\* The INSERT, under the unique index on (email_id, user_id).
Insert(e) ==
  IF HasTask(e)
    THEN UNCHANGED tasks
    ELSE tasks' = Append(tasks, [email |-> e, status |-> "pending"])

\* CreateTask: a violated index is an error like any other.
CreateTask(c) ==
  /\ At(c, "insert")
  /\ Insert(Email[cur[c]])
  /\ Goto(c, IF HasTask(Email[cur[c]]) THEN "nack" ELSE "ack")
  /\ UNCHANGED <<place, cur, inbox, linked, stopping, history>>

\* CreateTask reports an error; the row may be there all the same.
CreateTaskFails(c) ==
  /\ At(c, "insert")
  /\ MayFail(c)
  /\ Insert(Email[cur[c]]) \/ UNCHANGED tasks
  /\ failed' = failed \cup {cur[c]}
  /\ Goto(c, "nack")
  /\ UNCHANGED <<place, cur, inbox, linked, stopping, asked, breaks>>

Ack(c) ==
  /\ At(c, "ack")
  /\ place' = IF linked[c] THEN [place EXCEPT ![cur[c]] = "acked"] ELSE place
  /\ cur' = [cur EXCEPT ![c] = None]
  /\ Goto(c, "idle")
  /\ UNCHANGED <<tasks, inbox, linked, stopping, history>>

\* Mutant: Nack(false, true).
Nack_Requeue(c) ==
  /\ At(c, "nack")
  /\ place' = IF linked[c] THEN [place EXCEPT ![cur[c]] = "ready"] ELSE place
  /\ cur' = [cur EXCEPT ![c] = None]
  /\ Goto(c, "idle")
  /\ UNCHANGED <<tasks, inbox, linked, stopping, history>>

\* Nack(false, false): the queue has no dead-letter exchange, so the broker
\* drops the message.
Nack(c) ==
  /\ At(c, "nack")
  /\ place' = IF linked[c] THEN [place EXCEPT ![cur[c]] = "dropped"] ELSE place
  /\ cur' = [cur EXCEPT ![c] = None]
  /\ Goto(c, "idle")
  /\ UNCHANGED <<tasks, inbox, linked, stopping, history>>

-----------------------------------------------------------------------------
(***************************************************************************)
(* Signals, crashes and restarts of an instance.                           *)
(***************************************************************************)
\* A signal: main returns, and its last defer runs first, which is cancel().
Sigterm(c) ==
  /\ "stop" \in Faults
  /\ breaks < MaxBreaks
  /\ pc[c] # "down"
  /\ ~stopping[c]
  /\ stopping' = [stopping EXCEPT ![c] = TRUE]
  /\ breaks' = breaks + 1
  /\ UNCHANGED <<place, tasks, pc, cur, inbox, linked, failed, asked>>

\* The process is gone and the broker notices.
Gone(c) ==
  /\ Requeue(c)
  /\ Goto(c, "down")
  /\ cur' = [cur EXCEPT ![c] = None]
  /\ inbox' = [inbox EXCEPT ![c] = {}]
  /\ linked' = [linked EXCEPT ![c] = FALSE]
  /\ stopping' = [stopping EXCEPT ![c] = FALSE]
  /\ UNCHANGED <<tasks, failed, asked>>

\* The other defers, rabbit.Close() and db.Close(), and the end of main.
\* Nobody waits for the consumer goroutine.
Exit(c) ==
  /\ stopping[c]
  /\ Gone(c)
  /\ UNCHANGED breaks

Crash(c) ==
  /\ "crash" \in Faults
  /\ breaks < MaxBreaks
  /\ pc[c] # "down"
  /\ Gone(c)
  /\ breaks' = breaks + 1

\* NewConsumer opens a channel and Start consumes from it.
Restart(c) ==
  /\ At(c, "down")
  /\ Goto(c, "idle")
  /\ linked' = [linked EXCEPT ![c] = TRUE]
  /\ UNCHANGED <<place, tasks, cur, inbox, stopping, history>>

-----------------------------------------------------------------------------
(***************************************************************************)
(* The users' requests; an instance that is up serves them, whatever       *)
(* became of its consumer.  A row that is gone is ErrTaskNotFound.         *)
(***************************************************************************)
Serving == \E c \in Consumers : pc[c] # "down"

SetStatus(k, s) ==
  /\ Serving
  /\ k \in Live
  /\ tasks' = [tasks EXCEPT ![k].status = s]
  /\ asked' = [asked EXCEPT ![tasks[k].email] = IF s = "deleted" THEN "none" ELSE s]
  /\ UNCHANGED <<place, process, failed, breaks>>

\* An update without a status leaves alone everything modelled here.
UpdateTask(k) == \E s \in Statuses : SetStatus(k, s)
CompleteTask(k) == SetStatus(k, "completed")
DeleteTask(k) == SetStatus(k, "deleted")

-----------------------------------------------------------------------------
Handle(c) ==
  \/ \E m \in Messages : Take(c, m)
  \/ LoopEnds(c)
  \/ TaskExists(c)
  \/ TaskExistsFails(c)
  \/ CreateTask(c)
  \/ CreateTaskFails(c)
  \/ Ack(c)
  \/ Nack(c)

Service(c) ==
  \/ \E m \in Messages : Deliver(c, m)
  \/ Handle(c)
  \/ ChannelCloses(c)
  \/ Sigterm(c)
  \/ Exit(c)
  \/ Crash(c)
  \/ Restart(c)

Request == \E k \in Rows : UpdateTask(k) \/ CompleteTask(k) \/ DeleteTask(k)

Next ==
  \/ \E m \in Messages : Publish(m)
  \/ \E c \in Consumers : Service(c)
  \/ Request

Spec == Init /\ [][Next]_vars

\* The broker delivers what it can, the goroutines run, every statement
\* returns within its 30 seconds, and docker restarts a collector that died
\* (docker-compose.yml:179, restart: on-failure).
Fairness ==
  \A c \in Consumers : /\ WF_vars(\E m \in Messages : Deliver(c, m))
                       /\ WF_vars(Handle(c))
                       /\ WF_vars(Exit(c))
                       /\ WF_vars(Restart(c))

LiveSpec == Spec /\ Fairness

-----------------------------------------------------------------------------
(***************************************************************************)
(* Properties.                                                             *)
(***************************************************************************)
\* An email has at most one task, although TaskExists and CreateTask are two
\* statements and the instances handle copies of one email at the same time
\* (service.go:33-54, 001_create_tasks_table.up.sql:23).
OneTaskPerEmail ==
  \A k, l \in Live : tasks[k].email = tasks[l].email => k = l

\* The emails that have, or had until their user deleted it, a task.
Stored == {tasks[k].email : k \in Rows}

\* A message is acknowledged only when its task is committed: no crash, lost
\* channel or duplicate makes the broker forget a task that is nowhere
\* (consumer.go:152-164).
AckedMeansStored ==
  \A m \in Messages : place[m] = "acked" => Email[m] \in Stored

\* A well-formed email that got no task is only ever dropped after an error
\* of the database or a cancelled statement; a violated unique index, a
\* redelivery or a lost channel does not do it (consumer.go:154-161).
LossNeedsDbError ==
  \A m \in Messages :
    place[m] = "dropped" => \/ Email[m] = None
                            \/ m \in failed
                            \/ Email[m] \in Stored

\* The emails that were published at most once so far.
Copies(e) == {m \in Messages : Email[m] = e /\ place[m] # "new"}
NotDuplicated == {e \in Emails : \A m, n \in Copies(e) : m = n}

\* A task its user deleted does not come back, unless the email was published
\* twice or a lost channel, a signal or a crash caused a redelivery: a handler
\* that fails half-way is not retried (consumer.go:154-161, service.go:33-54).
DeletedStaysDeleted ==
  breaks = 0 =>
    \A k, l \in Rows :
      tasks[k].email = tasks[l].email /\ tasks[k].email \in NotDuplicated => k = l

\* Users have the last word: whatever is redelivered, duplicated, retried or
\* handled by two instances at once, a task shows what its user last asked of
\* it, and is pending until he asks (service.go:33-54, database.go:41-49).
UsersHaveLastWord ==
  \A k \in Live :
    LET wish == asked[tasks[k].email]
    IN  tasks[k].status = IF wish = "none" THEN "pending" ELSE wish

\* What an instance is about to handle or handles is unacknowledged on its own
\* open channel, so its answer can meet no other message and no other
\* instance's copy; only a lost channel leaves a handler with a message that
\* is somebody else's (consumer.go:107-117, 129-139, 154-164).
HeldWhileHandled ==
  \A c \in Consumers : \A m \in inbox[c] \cup ({cur[c]} \ {None}) :
    linked[c] => place[m] = c

\* The list of tasks as the users see it, a deleted row left out.
ShownAs(e) ==
  IF HasTask(e) THEN tasks[CHOOSE k \in Live : tasks[k].email = e].status ELSE "none"

TS == INSTANCE TaskStore
        WITH shown  <- [e \in Emails |-> ShownAs(e)],
             stored <- Stored,
             acked  <- {m \in Messages : place[m] = "acked"}

\* The instances, their duplicates, failures and restarts are invisible from
\* outside: what users and broker see is one list of tasks that is written
\* to by one service (service.go:33-92, database.go:41-49, 139-243,
\* consumer.go:141-169).
TasksAsPromised == TS!Spec

\* Every well-formed parsed email in the queue becomes a task, however often
\* the instances crash on the way: unless the database failed its handler, or
\* every instance is up with its channel lost, which nothing repairs
\* (README.md:79, 83, consumer.go:129-134).
EveryEmailBecomesTask ==
  \A m \in Messages :
    place[m] = "ready" /\ Email[m] # None
      ~> \/ Email[m] \in Stored
         \/ m \in failed
         \/ \A c \in Consumers : pc[c] # "down" /\ ~linked[c]
=============================================================================
