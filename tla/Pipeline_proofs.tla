-------------------------- MODULE Pipeline_proofs --------------------------
(***************************************************************************)
(* Proofs about Pipeline.  The composition implements each of its          *)
(* components, so every theorem about a component holds of it; what the    *)
(* composition adds is how the copies the analyzer published relate to the *)
(* messages of the collector's queue.                                      *)
(***************************************************************************)
EXTENDS Pipeline, Analyzer_proofs

\* The collector's theorems, under the substitution that defines C.
CP == INSTANCE Collector_proofs
        WITH Consumers <- Collectors, Messages <- Parsed, Emails <- Mails, Email <- MailOf,
             Faults <- CollectorFaults, MaxBreaks <- MaxCollectorBreaks,
             place <- parsed, breaks <- collectorBreaks

LEMMA Substitution == CP!CollectorAssumption
<1>1. MailOf \in [Parsed -> Mails \cup {None}]
  BY DEF MailOf, Parsed
<1> QED
  BY <1>1, PipelineAssumption DEF CP!CollectorAssumption, CP!Places, CP!FaultKinds

-----------------------------------------------------------------------------
(***************************************************************************)
(* C and CP are one module under one substitution.                         *)
(***************************************************************************)
LEMMA SameInit == C!Init => CP!Init
BY DEF C!Init, CP!Init

LEMMA SameVars == C!vars = CP!vars /\ C!vars' = CP!vars'
BY DEF C!vars, CP!vars, C!process, CP!process, C!history, CP!history

LEMMA SameType == CP!TypeOK <=> C!TypeOK
BY DEF C!TypeOK, CP!TypeOK, C!Places, CP!Places, C!PCs, CP!PCs, C!Tasks, CP!Tasks,
       C!Statuses, CP!Statuses

LEMMA SamePublish == ASSUME NEW p PROVE C!Publish(p) <=> CP!Publish(p)
BY DEF C!Publish, CP!Publish, C!process, CP!process, C!history, CP!history

LEMMA SameRequest == C!Request <=> CP!Request
BY DEF C!Request, CP!Request, C!UpdateTask, CP!UpdateTask, C!CompleteTask, CP!CompleteTask,
       C!DeleteTask, CP!DeleteTask, C!SetStatus, CP!SetStatus, C!Serving, CP!Serving,
       C!Live, CP!Live, C!Rows, CP!Rows, C!Statuses, CP!Statuses, C!process, CP!process

LEMMA SameService == ASSUME NEW c PROVE C!Service(c) <=> CP!Service(c)
<1> USE DEF C!process, CP!process, C!history, CP!history, C!At, CP!At, C!Goto, CP!Goto
<1>1. \A m : C!Deliver(c, m) <=> CP!Deliver(c, m)
  BY DEF C!Deliver, CP!Deliver, C!Unacked, CP!Unacked, C!Cardinality, CP!Cardinality
<1>2. \A m : C!Take(c, m) <=> CP!Take(c, m)
  BY DEF C!Take, CP!Take
<1>3. (C!LoopEnds(c) <=> CP!LoopEnds(c)) /\ (C!Ack(c) <=> CP!Ack(c)) /\ (C!Nack(c) <=> CP!Nack(c))
  BY DEF C!LoopEnds, CP!LoopEnds, C!Ack, CP!Ack, C!Nack, CP!Nack
<1>4. \A e : C!HasTask(e) <=> CP!HasTask(e)
  BY DEF C!HasTask, CP!HasTask, C!Live, CP!Live, C!Rows, CP!Rows
<1>5. \A e : C!Insert(e) <=> CP!Insert(e)
  BY <1>4 DEF C!Insert, CP!Insert
<1>6. (C!TaskExists(c) <=> CP!TaskExists(c)) /\ (C!CreateTask(c) <=> CP!CreateTask(c))
  BY <1>4, <1>5 DEF C!TaskExists, CP!TaskExists, C!CreateTask, CP!CreateTask
<1>7. /\ C!TaskExistsFails(c) <=> CP!TaskExistsFails(c)
      /\ C!CreateTaskFails(c) <=> CP!CreateTaskFails(c)
  BY <1>5 DEF C!TaskExistsFails, CP!TaskExistsFails, C!CreateTaskFails, CP!CreateTaskFails,
              C!MayFail, CP!MayFail
<1>8. C!Handle(c) <=> CP!Handle(c)
  BY <1>2, <1>3, <1>6, <1>7 DEF C!Handle, CP!Handle
<1>9. (C!ChannelCloses(c) <=> CP!ChannelCloses(c)) /\ (C!Sigterm(c) <=> CP!Sigterm(c))
  BY DEF C!ChannelCloses, CP!ChannelCloses, C!Requeue, CP!Requeue, C!Sigterm, CP!Sigterm
<1>10. /\ C!Exit(c) <=> CP!Exit(c)
       /\ C!Crash(c) <=> CP!Crash(c)
       /\ C!Restart(c) <=> CP!Restart(c)
  BY DEF C!Exit, CP!Exit, C!Crash, CP!Crash, C!Gone, CP!Gone, C!Requeue, CP!Requeue,
         C!Restart, CP!Restart
<1> QED
  BY <1>1, <1>8, <1>9, <1>10 DEF C!Service, CP!Service

LEMMA SameNext == C!Next <=> CP!Next
BY SamePublish, SameRequest, SameService DEF C!Next, CP!Next

LEMMA SameStep == [C!Next]_(C!vars) <=> [CP!Next]_(CP!vars)
BY SameNext, SameVars

LEMMA SameStored == CP!Stored = C!Stored
BY DEF C!Stored, CP!Stored, C!Rows, CP!Rows

-----------------------------------------------------------------------------
(***************************************************************************)
(* Refinement.                                                             *)
(***************************************************************************)
\* To the analyzer the collector is invisible: the composition is an analyzer
\* whose publications have somewhere to go (mistral.go:237-248).
THEOREM PipelineImplementsAnalyzer == PipelineSpec => Spec
<1>1. PipelineInit => Init
  BY DEF PipelineInit
<1>2. [PipelineNext]_allVars => [Next]_vars
  <2> SUFFICES ASSUME [PipelineNext]_allVars PROVE [Next]_vars
    OBVIOUS
  <2>1. CASE NewConsumer \/ CollectorStep \/ UNCHANGED allVars
    BY <2>1 DEF NewConsumer, CollectorStep, allVars
  <2>2. ASSUME NEW m \in Mails, PublishParsed(m) PROVE Next
    BY <2>2 DEF PublishParsed, Next, MailStep
  <2>3. CASE AnalyzerStep
    BY <2>3 DEF AnalyzerStep, Next, MailStep
  <2> QED
    BY <2>1, <2>2, <2>3 DEF PipelineNext
<1> QED
  BY <1>1, <1>2, PTL DEF PipelineSpec, Spec

\* A publication of the analyzer is an arrival at the queue, or nothing.
LEMMA CollectorSteps == [PipelineNext]_allVars => [C!Next]_(C!vars)
<1> SUFFICES ASSUME [PipelineNext]_allVars PROVE C!Next \/ UNCHANGED collector
  BY DEF C!vars, C!process, C!history, collector
<1>1. CASE NewConsumer \/ AnalyzerStep \/ UNCHANGED allVars
  BY <1>1 DEF NewConsumer, AnalyzerStep, allVars
<1>2. ASSUME NEW m \in Mails, PublishParsed(m) PROVE C!Next \/ UNCHANGED collector
  BY <1>2 DEF PublishParsed, C!Next, Parsed
<1>3. CASE CollectorStep
  BY <1>3 DEF CollectorStep, C!Next
<1> QED
  BY <1>1, <1>2, <1>3 DEF PipelineNext

\* To the collectors the analyzer is whoever publishes to their queue: what
\* was proved of them for any publisher holds behind this one
\* (consumer.go:28-92 of the collector).
THEOREM PipelineImplementsCollector == PipelineSpec => C!Spec
<1>1. PipelineInit => C!Init
  BY DEF PipelineInit
<1> QED
  BY <1>1, CollectorSteps, PTL DEF PipelineSpec, C!Spec

LEMMA ImplementsCP == PipelineSpec => CP!Spec
<1>1. PipelineInit => CP!Init
  BY SameInit DEF PipelineInit
<1>2. [PipelineNext]_allVars => [CP!Next]_(CP!vars)
  BY CollectorSteps, SameStep
<1> QED
  BY <1>1, <1>2, PTL DEF PipelineSpec, CP!Spec

\* Both promises hold end to end: a mail's message is acknowledged only when
\* its parsed copy is published, and behind the analyzer, with its copies and
\* redeliveries, users still see one list with one task per message that only
\* they change (mistral.go:237-268 of the analyzer, service.go:33-92 of the
\* collector).
THEOREM PipelineKeepsPromise == PipelineSpec => MailsAsPromised /\ CP!TasksAsPromised
<1>1. CP!Spec => CP!TasksAsPromised
  BY CP!CollectorKeepsPromise, Substitution
<1>2. PipelineSpec => MailsAsPromised
  BY PipelineImplementsAnalyzer, AnalyzerKeepsPromise, PTL
<1> QED
  BY <1>1, <1>2, ImplementsCP, PTL

\* The composition is well typed (mistral.go:88-271, consumer.go:141-169).
THEOREM PipelineTypeCorrect == PipelineSpec => []PipelineTypeOK
<1>1. PipelineSpec => []TypeOK
  BY PipelineImplementsAnalyzer, TypeCorrect, PTL
<1>2. PipelineSpec => []C!TypeOK
  <2>1. CP!Spec => []CP!TypeOK
    BY CP!TypeCorrect, Substitution
  <2> QED
    BY <2>1, ImplementsCP, SameType, PTL
<1>3. PipelineSpec => [](declared \in BOOLEAN /\ discarded \subseteq Mails)
  <2>1. PipelineInit => declared \in BOOLEAN /\ discarded \subseteq Mails
    BY DEF PipelineInit
  <2>2. /\ declared \in BOOLEAN /\ discarded \subseteq Mails
        /\ [PipelineNext]_allVars
        => (declared \in BOOLEAN /\ discarded \subseteq Mails)'
    BY DEF PipelineNext, allVars, queue, NewConsumer, PublishParsed, AnalyzerStep, CollectorStep
  <2> QED
    BY <2>1, <2>2, PTL DEF PipelineSpec
<1> QED
  BY <1>1, <1>2, <1>3, PTL DEF PipelineTypeOK

-----------------------------------------------------------------------------
(***************************************************************************)
(* Copies at the analyzer and messages at the queue.                       *)
(***************************************************************************)
\* What the analyzer published is in the queue, or was discarded before there
\* was one; what is in the queue was published; two messages are two copies.
CopiesArrive ==
  \A m \in Mails :
    copies[m] > 0 => m \in discarded \/ \E i \in 1 .. MaxCopies : parsed[<<m, i>>] # "new"

MessagesCounted ==
  \A m \in Mails : \A i, j \in 1 .. MaxCopies :
    parsed[<<m, i>>] # "new" =>
      /\ copies[m] > 0
      /\ i # j /\ parsed[<<m, j>>] # "new" => copies[m] > 1

QueueInv == CopiesArrive /\ MessagesCounted

LEMMA QueueStep == PipelineTypeOK /\ CP!HasPublished /\ QueueInv /\ [PipelineNext]_allVars => QueueInv'
<1> SUFFICES ASSUME PipelineTypeOK, CP!HasPublished, QueueInv, [PipelineNext]_allVars PROVE QueueInv'
  OBVIOUS
<1> USE DEF QueueInv, CopiesArrive, MessagesCounted
<1>0. TypeOK /\ C!TypeOK /\ CP!TypeOK
  BY SameType DEF PipelineTypeOK
<1>1. CASE NewConsumer \/ UNCHANGED allVars
  BY <1>1 DEF NewConsumer, allVars, vars, history, collector, queue
<1>2. CASE AnalyzerStep
  <2>1. copies' = copies
    BY <1>2 DEF AnalyzerStep, Publish, Take, Reply, Analyse, Process, Tick, ModelRecovers, history,
                ReadState, Admit, Reject, Fail, Succeed, CheckState, BadAnswer, PublishFails,
                PublishLost, Start, ConsumeMessage, ConnectionLost, Sigterm, CloseConnection,
                Exit, Crash, Gone
  <2> QED
    BY <1>2, <2>1 DEF AnalyzerStep, collector, queue
<1>3. CASE CollectorStep
  <2>1. \A p \in Parsed : parsed[p] # "new" => parsed'[p] # "new"
    <3>1. [CP!Next]_(CP!vars)
      BY CollectorSteps, SameStep
    <3> QED
      BY <1>0, <3>1, CP!PublishedStays, Substitution
  <2>2. \A p \in Parsed : parsed[p] = "new" => parsed'[p] = "new"
    <3>1. CP!Request \/ \E c \in Collectors : CP!Service(c)
      BY <1>3, SameRequest, SameService DEF CollectorStep
    <3> QED
      BY <1>0, <3>1, CP!OnlyPublish, Substitution
  <2> QED
    BY <1>3, <2>1, <2>2 DEF CollectorStep, vars, history, queue, Parsed
<1>4. ASSUME NEW m \in Mails, PublishParsed(m) PROVE QueueInv'
  <2>1. CASE ~declared
    BY <1>4, <2>1, <1>0 DEF PublishParsed, PublishMessage, TypeOK, collector
  <2>2. CASE declared
    <3>1. PICK i \in 1 .. MaxCopies : NextCopy(m, i) /\ C!Publish(<<m, i>>)
      BY <1>4, <2>2 DEF PublishParsed
    <3> DEFINE p == <<m, i>>
    <3>2. /\ p \in Parsed /\ parsed[p] = "new" /\ parsed'[p] = "ready"
          /\ \A q \in Parsed : q # p => parsed'[q] = parsed[q]
      BY <1>0, <3>1 DEF C!Publish, C!TypeOK, Parsed
    <3>3. /\ copies[m] \in 0 .. 2
          /\ copies'[m] = IF copies[m] < 2 THEN copies[m] + 1 ELSE copies[m]
          /\ \A n \in Mails : n # m => copies'[n] = copies[n]
          /\ discarded' = discarded
      BY <1>0, <1>4, <2>2 DEF PublishParsed, PublishMessage, TypeOK
    <3>4. ASSUME NEW n \in Mails, n # m, NEW j \in 1 .. MaxCopies
          PROVE  parsed'[<<n, j>>] = parsed[<<n, j>>]
      BY <3>2, <3>4 DEF Parsed
    <3>5. CopiesArrive'
      <4>1. ASSUME NEW n \in Mails, copies'[n] > 0
            PROVE  n \in discarded' \/ \E j \in 1 .. MaxCopies : parsed'[<<n, j>>] # "new"
        <5>1. CASE n = m
          BY <3>2, <5>1
        <5>2. CASE n # m
          BY <3>3, <3>4, <4>1, <5>2
        <5> QED
          BY <5>1, <5>2
      <4> QED
        BY <4>1
    <3>6. MessagesCounted'
      <4>1. ASSUME NEW n \in Mails, NEW j \in 1 .. MaxCopies, NEW k \in 1 .. MaxCopies,
                   parsed'[<<n, j>>] # "new"
            PROVE  /\ copies'[n] > 0
                   /\ j # k /\ parsed'[<<n, k>>] # "new" => copies'[n] > 1
        <5>1. CASE n # m
          BY <3>3, <3>4, <4>1, <5>1
        <5>2. CASE n = m
          <6>1. copies'[n] > 0
            BY <3>3, <5>2
          <6>2. ASSUME NEW l \in 1 .. MaxCopies, l # i, parsed'[<<n, l>>] # "new"
                PROVE  copies'[n] > 1
            <7>1. <<n, l>> \in Parsed /\ <<n, l>> # p
              BY <6>2 DEF Parsed
            <7>2. parsed[<<m, l>>] # "new"
              BY <3>2, <5>2, <6>2, <7>1
            <7> QED
              BY <3>3, <5>2, <7>2
          <6> QED
            BY <4>1, <6>1, <6>2
        <5> QED
          BY <5>1, <5>2
      <4> QED
        BY <4>1
    <3> QED
      BY <3>5, <3>6
  <2> QED
    BY <2>1, <2>2
<1> QED
  BY <1>1, <1>2, <1>3, <1>4 DEF PipelineNext
LEMMA QueueInvariant == PipelineSpec => []QueueInv
<1>1. PipelineInit => QueueInv
  BY DEF PipelineInit, Init, C!Init, QueueInv, CopiesArrive, MessagesCounted, Parsed
<1>2. PipelineSpec => []CP!HasPublished
  <2>1. CP!Spec => []CP!HasPublished
    BY CP!HandlesPublished, Substitution
  <2> QED
    BY <2>1, ImplementsCP, PTL
<1> QED
  BY <1>1, <1>2, QueueStep, PipelineTypeCorrect, PTL DEF PipelineSpec

\* From core's batch to the task, whatever crashes, is redelivered or is
\* published twice in either service: each mail of an acknowledged batch has
\* its task, is on its way to it, or met a mishap of its own.  The analyzer
\* acknowledges what it published, its copy is in the queue, and the
\* collector acknowledges what it stored and drops only what failed
\* (mistral.go:237-268, consumer.go:141-169 of the collector).
THEOREM NothingVanishesAlways == PipelineSpec => []NothingVanishes
<1>1. PipelineSpec => []AckedMeansPublished
  BY PipelineImplementsAnalyzer, AcksOnlyPublished, PTL
<1>2. PipelineSpec => [](CP!AckedMeansStored /\ CP!LossNeedsDbError)
  <2>1. CP!Spec => []CP!AckedMeansStored
    BY CP!AcksOnlyStored, Substitution
  <2>2. CP!Spec => []CP!LossNeedsDbError
    BY CP!DropsOnlyOnError, Substitution
  <2> QED
    BY <2>1, <2>2, ImplementsCP, PTL
<1>3. /\ PipelineTypeOK /\ QueueInv /\ AckedMeansPublished
      /\ CP!AckedMeansStored /\ CP!LossNeedsDbError
      => NothingVanishes
  <2> SUFFICES ASSUME PipelineTypeOK, QueueInv, AckedMeansPublished,
                      CP!AckedMeansStored, CP!LossNeedsDbError,
                      NEW b \in Batches, NEW m \in Content[b], m \in Mails, place[b] = "acked",
                      m \notin discarded
               PROVE  m \in C!Stored \/ OnItsWay(m) \/ Mishap(m)
    BY AnalyzerAssumption DEF NothingVanishes, Mishap
  <2>1. PICK i \in 1 .. MaxCopies : parsed[<<m, i>>] # "new"
    BY DEF AckedMeansPublished, QueueInv, CopiesArrive
  <2> DEFINE p == <<m, i>>
  <2>2. p \in Parsed /\ MailOf[p] = m
    BY DEF Parsed, MailOf
  <2>3. parsed[p] \in {"ready", "acked", "dropped"} \cup Collectors
    BY <2>1, <2>2 DEF PipelineTypeOK, C!TypeOK, C!Places
  <2>4. CASE parsed[p] \in {"ready"} \cup Collectors
    BY <2>4 DEF OnItsWay
  <2>5. CASE parsed[p] = "acked"
    BY <2>2, <2>5, SameStored DEF CP!AckedMeansStored
  <2>6. CASE parsed[p] = "dropped"
    BY <2>2, <2>6, SameStored, PipelineAssumption DEF CP!LossNeedsDbError, Mishap
  <2> QED
    BY <2>3, <2>4, <2>5, <2>6
<1> QED
  BY <1>1, <1>2, <1>3, PipelineTypeCorrect, QueueInvariant, PTL

\* In a run without breaks, a mail whose batch was never returned is
\* published once, so it is in the queue once, so its task is made once
\* (consumer.go:122-142 of the shared client, consumer.go:154-161 of the
\* collector).
THEOREM DeletedStaysDeletedEndToEnd == PipelineSpec => []DeletedComesBackAfterFailureOnly
<1>1. PipelineSpec => []CopiesNeedFailure
  BY PipelineImplementsAnalyzer, CopiesOnlyAfterFailure, PTL
<1>2. PipelineSpec => []CP!DeletedStaysDeleted
  <2>1. CP!Spec => []CP!DeletedStaysDeleted
    BY CP!DeletedForGood, Substitution
  <2> QED
    BY <2>1, ImplementsCP, PTL
<1>3. PipelineTypeOK /\ QueueInv /\ CopiesNeedFailure /\ CP!DeletedStaysDeleted
      => DeletedComesBackAfterFailureOnly
  <2> SUFFICES ASSUME PipelineTypeOK, QueueInv, CopiesNeedFailure, CP!DeletedStaysDeleted,
                      breaks = 0, collectorBreaks = 0,
                      NEW b \in Batches \ nacked, NEW k \in C!Rows, NEW l \in C!Rows,
                      tasks[k].email \in Content[b], tasks[k].email = tasks[l].email
               PROVE  k = l
    BY DEF DeletedComesBackAfterFailureOnly
  <2> DEFINE m == tasks[k].email
  <2>1. m \in Mails /\ ~(copies[m] > 1)
    BY AnalyzerAssumption DEF CopiesNeedFailure
  <2>2. ASSUME NEW p \in CP!Copies(m), NEW q \in CP!Copies(m) PROVE p = q
    <3>1. /\ p \in Parsed /\ MailOf[p] = m /\ parsed[p] # "new"
          /\ q \in Parsed /\ MailOf[q] = m /\ parsed[q] # "new"
      BY <2>2 DEF CP!Copies
    <3>2. PICK i \in 1 .. MaxCopies : p = <<m, i>>
      BY <3>1 DEF Parsed, MailOf
    <3>3. PICK j \in 1 .. MaxCopies : q = <<m, j>>
      BY <3>1 DEF Parsed, MailOf
    <3>4. i = j
      BY <2>1, <3>1, <3>2, <3>3 DEF QueueInv, MessagesCounted
    <3> QED
      BY <3>2, <3>3, <3>4
  <2>3. m \in CP!NotDuplicated
    BY <2>1, <2>2 DEF CP!NotDuplicated
  <2> QED
    BY <2>3 DEF CP!DeletedStaysDeleted, C!Rows, CP!Rows
<1> QED
  BY <1>1, <1>2, <1>3, PipelineTypeCorrect, QueueInvariant, PTL
=============================================================================
