------------------------------ MODULE Pipeline ------------------------------
(***************************************************************************)
(* From batches of raw emails to tasks: the analyzer and the collector on  *)
(* one broker.  What the analyzer publishes to the exchange parsed_emails  *)
(* reaches the collectors' queue, once a collector has declared it and     *)
(* bound it to the exchange; before that the broker discards it.           *)
(*                                                                         *)
(* The analyzer is module Analyzer and the collector module Collector,     *)
(* whose variable place is here parsed.  They share one action, in which a *)
(* publication of the analyzer is an arrival at the collector's queue.     *)
(***************************************************************************)
EXTENDS Analyzer

CONSTANTS
  Collectors,          \* collector instances
  Prefetch,            \* of a collector's channel
  CollectorFaults,     \* which failures collectors may meet
  MaxCollectorBreaks,  \* bound: their channels lost, signals and crashes
  MaxCopies,           \* bound: parsed emails published per mail
  None

\* The parsed emails that may be published: the i-th copy of each mail.
Parsed == Mails \X (1 .. MaxCopies)
MailOf == [p \in Parsed |-> p[1]]

ASSUME PipelineAssumption ==
  /\ MaxCopies \in Nat
  /\ None \notin Mails \cup Parsed
  /\ Collectors \cap {"new", "ready", "acked", "dropped"} = {}
  /\ Prefetch \in Nat \ {0}
  /\ MaxCollectorBreaks \in Nat
  /\ CollectorFaults \subseteq {"db", "channel", "stop", "crash"}

VARIABLES
  parsed,           \* broker: where each parsed email is
  tasks, pc, cur, inbox, linked, stopping, failed, asked,  \* see Collector
  collectorBreaks,  \* history: breaks of Collector
  declared,         \* broker: the queue for parsed emails exists and is bound
  discarded         \* history: mails of which a copy was published before

C == INSTANCE Collector
       WITH Consumers <- Collectors, Messages <- Parsed, Emails <- Mails, Email <- MailOf,
            Faults <- CollectorFaults, MaxBreaks <- MaxCollectorBreaks,
            place <- parsed, breaks <- collectorBreaks

collector == <<parsed, tasks, pc, cur, inbox, linked, stopping, failed, asked, collectorBreaks>>
queue     == <<declared, discarded>>
allVars   == <<vars, collector, queue>>

PipelineInit ==
  /\ Init
  /\ C!Init
  /\ declared = FALSE
  /\ discarded = {}

\* The first NewConsumer of a collector: ExchangeDeclare, QueueDeclare and
\* QueueBind.  The queue is durable and stays.
NewConsumer ==
  /\ ~declared
  /\ declared' = TRUE
  /\ UNCHANGED <<vars, collector, discarded>>

\* The i-th copy is the next one of mail m.
NextCopy(m, i) ==
  /\ parsed[<<m, i>>] = "new"
  /\ \A j \in 1 .. (i - 1) : parsed[<<m, j>>] # "new"

\* Mutant: PublishMessage returns nil before the message is on its way.
PublishParsed_Swallowed(m) ==
  /\ PublishMessage(m)
  /\ UNCHANGED <<collector, queue>>

PublishParsed(m) ==
  /\ PublishMessage(m)
  /\ \E i \in 1 .. MaxCopies : NextCopy(m, i)
  /\ IF declared
       THEN /\ \E i \in 1 .. MaxCopies : NextCopy(m, i) /\ C!Publish(<<m, i>>)
            /\ UNCHANGED discarded
       ELSE /\ discarded' = discarded \cup {m}
            /\ UNCHANGED collector
  /\ UNCHANGED declared

\* The analyzer's other steps.
AnalyzerStep ==
  /\ \/ \E b \in Batches : Publish(b) \/ Take(b) \/ Reply(b)
     \/ \E m \in Mails : Analyse(m)
     \/ Process
     \/ Tick
     \/ ModelRecovers
  /\ UNCHANGED <<collector, queue>>

\* A collector is there once it has declared its queue.
CollectorStep ==
  /\ declared
  /\ (\E c \in Collectors : C!Service(c)) \/ C!Request
  /\ UNCHANGED <<vars, queue>>

PipelineNext ==
  \/ NewConsumer
  \/ \E m \in Mails : PublishParsed(m)
  \/ AnalyzerStep
  \/ CollectorStep

PipelineSpec == PipelineInit /\ [][PipelineNext]_allVars

\* Each component is as fair as it is on its own.
PipelineLiveSpec == PipelineSpec /\ Fairness /\ C!Fairness

-----------------------------------------------------------------------------
(***************************************************************************)
(* Properties.                                                             *)
(***************************************************************************)
PipelineTypeOK ==
  /\ TypeOK
  /\ C!TypeOK
  /\ declared \in BOOLEAN
  /\ discarded \subseteq Mails

\* A copy of the mail is in the queue, or a collector has it.
OnItsWay(m) == \E i \in 1 .. MaxCopies : parsed[<<m, i>>] \in {"ready"} \cup Collectors

\* What the code lets a parsed email perish of: no queue yet, or an error of
\* the database when its handler ran.
Mishap(m) == m \in discarded \/ \E i \in 1 .. MaxCopies : <<m, i>> \in failed

\* When core's batch is acknowledged, each of its mails has, or had until its
\* user deleted it, a task, or is on its way to one, whatever crashed, was
\* redelivered or was published twice in either service; only a mishap of its
\* own loses a mail (mistral.go:237-268 of the analyzer, consumer.go:141-169
\* of the collector).
NothingVanishes ==
  \A b \in Batches, m \in Mails :
    place[b] = "acked" /\ m \in Content[b]
      => m \in C!Stored \/ OnItsWay(m) \/ Mishap(m)

\* A task its user deleted does not come back, unless the analyzer returned
\* the batch for an error or something broke: in an undisturbed run no mail
\* is delivered twice from end to end (consumer.go:122-142 of the shared
\* client, consumer.go:154-161 of the collector).
DeletedComesBackAfterFailureOnly ==
  breaks = 0 /\ collectorBreaks = 0 =>
    \A b \in Batches \ nacked, k, l \in C!Rows :
      tasks[k].email \in Content[b] /\ tasks[k].email = tasks[l].email => k = l

\* A mail whose batch reached the analyzer becomes a task once the model
\* answers, through crashes of both services: unless a mishap loses it, or a
\* service is up without its connection, which nothing repairs
\* (README.md:79, 83, 85-93).
Stranded ==
  \/ proc # "down" /\ ~connected
  \/ \A c \in Collectors : pc[c] # "down" /\ ~linked[c]

EveryMailBecomesTask ==
  \A b \in Batches \ Garbled : \A m \in Content[b] :
    modelUp /\ place[b] \in {"ready", "unacked"}
      ~> m \in C!Stored \/ Mishap(m) \/ Stranded
=============================================================================
