--------------------------- MODULE MailSync_proofs ---------------------------
(***************************************************************************)
(* Proofs about MailSync, for any number of integrations, workers and      *)
(* messages, any batch size and any combination of faults.                 *)
(***************************************************************************)
EXTENDS MailSync, SequenceTheorems, FiniteSetTheorems, TLAPS

LEMMA RowType ==
  ASSUME NEW i \in Integrations, NEW m \in Messages
  PROVE  Row(i, m) \in Rows
BY DEF Row, Rows

LEMMA RowFields ==
  ASSUME NEW i, NEW m
  PROVE  Row(i, m).user = User[i] /\ Row(i, m).mid = Header[m]
BY DEF Row

LEMMA RanksNat == Cardinality(Integrations) \in Nat
BY FS_CardinalityType, MailSyncAssumption

\* A worker that is not idle has a job; one about to save has a message.
Busy ==
  /\ \A w \in Workers : pc[w] # "idle" => job[w] \in Jobs
  /\ \A w \in Workers : pc[w] = "save" => msg[w] \in Messages

TypeInv == TypeOK /\ Busy

LEMMA TypeInit == Init => TypeInv
<1> SUFFICES ASSUME Init PROVE TypeInv
  OBVIOUS
<1> USE MailSyncAssumption, RanksNat
<1>1. TablesOK
  BY EmptySeq DEF Init, TablesOK, Ranks, Never
<1>2. MailboxOK
  BY DEF Init, MailboxOK, Never
<1>3. ProcessOK
  BY EmptySeq DEF Init, ProcessOK
<1>4. LocalsOK
  BY DEF Init, LocalsOK, PCs
<1>5. BatchesOK
  BY EmptySeq DEF Init, BatchesOK
<1>6. Busy /\ today \in 0 .. MaxDay
  BY DEF Init, Busy
<1> QED
  BY <1>1, <1>2, <1>3, <1>4, <1>5, <1>6 DEF TypeInv, TypeOK

LEMMA TypeWorld == TypeInv /\ World => TypeInv'
<1> SUFFICES ASSUME TypeInv, World PROVE TypeInv'
  OBVIOUS
<1> USE MailSyncAssumption DEF TypeInv, TypeOK, tables, mailbox, process, locals
<1>1. ASSUME NEW m \in Messages, Deliver(m) PROVE TypeInv'
  BY <1>1 DEF Deliver, TablesOK, MailboxOK, ProcessOK, LocalsOK, BatchesOK, Busy, Ids, Never
<1>2. ASSUME NEW m \in Messages, OwnerReads(m) PROVE TypeInv'
  BY <1>2 DEF OwnerReads, TablesOK, MailboxOK, ProcessOK, LocalsOK, BatchesOK, Busy, Ids
<1>3. ASSUME NEW m \in Messages, OwnerMarksUnread(m) PROVE TypeInv'
  BY <1>3 DEF OwnerMarksUnread, TablesOK, MailboxOK, ProcessOK, LocalsOK, BatchesOK, Busy, Ids
<1>4. CASE Midnight
  BY <1>4 DEF Midnight, TablesOK, MailboxOK, ProcessOK, LocalsOK, BatchesOK, Busy, Ids
<1>5. ASSUME NEW i \in Integrations, CreateIntegration(i) PROVE TypeInv'
  BY <1>5 DEF CreateIntegration, TablesOK, MailboxOK, ProcessOK, LocalsOK, BatchesOK, Busy, Ids
<1>6. ASSUME NEW i \in Integrations, DeleteIntegration(i) PROVE TypeInv'
  BY <1>6 DEF DeleteIntegration, TablesOK, MailboxOK, ProcessOK, LocalsOK, BatchesOK, Busy, Ids
<1> QED
  BY <1>1, <1>2, <1>3, <1>4, <1>5, <1>6 DEF World

\* The process dies: the shared state stays, every local is reset.
LEMMA TypeDies == TypeInv /\ Dies => TypeInv'
<1> SUFFICES ASSUME TypeInv, Dies PROVE TypeInv'
  OBVIOUS
<1> USE DEF TypeInv, TypeOK, Dies, tables, mailbox
<1>1. TablesOK' /\ MailboxOK' /\ ProcessOK'
  BY EmptySeq DEF TablesOK, MailboxOK, ProcessOK
<1>2. LocalsOK' /\ Busy'
  BY DEF LocalsOK, Busy, PCs
<1>3. BatchesOK' /\ (today \in 0 .. MaxDay)'
  BY DEF BatchesOK, Ids
<1> QED
  BY <1>1, <1>2, <1>3

LEMMA ScanType ==
  ASSUME NEW s \in Scans, TablesOK
  PROVE  [k \in DOMAIN s |-> [id |-> s[k], since |-> syncDay[s[k]]]] \in Seq(Jobs)
<1>1. PICK n \in Nat : s \in [1 .. n -> Integrations]
  BY DEF Scans
<1>2. \A k \in 1 .. n : [id |-> s[k], since |-> syncDay[s[k]]] \in Jobs
  BY <1>1 DEF TablesOK, Jobs
<1>3. [k \in 1 .. n |-> [id |-> s[k], since |-> syncDay[s[k]]]] \in [1 .. n -> Jobs]
  BY <1>2
<1>4. [k \in 1 .. n |-> [id |-> s[k], since |-> syncDay[s[k]]]] \in Seq(Jobs)
  BY <1>3, SeqDef
<1> QED
  BY <1>1, <1>4

LEMMA TypeScheduler == TypeInv /\ Scheduler => TypeInv'
<1> SUFFICES ASSUME TypeInv, Scheduler PROVE TypeInv'
  OBVIOUS
<1> USE DEF TypeInv, TypeOK, tables, mailbox, process, locals
<1>1. CASE SyncAll \/ ScanBreaks
  <2>1. PICK s \in Scans :
          /\ jobs' = [k \in DOMAIN s |-> [id |-> s[k], since |-> syncDay[s[k]]]]
          /\ sched' = IF s = <<>> THEN "idle" ELSE "cycle"
    BY <1>1 DEF SyncAll, ScanBreaks, Dispatch
  <2>2. ProcessOK'
    BY <1>1, <2>1, ScanType DEF SyncAll, ScanBreaks, ProcessOK
  <2> QED
    BY <1>1, <2>2 DEF SyncAll, ScanBreaks, TablesOK, MailboxOK, LocalsOK, BatchesOK, Busy, Ids
<1>2. CASE ScanFails
  BY <1>2 DEF ScanFails, TablesOK, MailboxOK, ProcessOK, LocalsOK, BatchesOK, Busy, Ids
<1>3. CASE CycleEnds
  BY <1>3 DEF CycleEnds, TablesOK, MailboxOK, ProcessOK, LocalsOK, BatchesOK, Busy, Ids
<1>4. CASE Sigterm
  BY <1>4 DEF Sigterm, TablesOK, MailboxOK, ProcessOK, LocalsOK, BatchesOK, Busy, Ids
<1>5. CASE Halt
  BY <1>5 DEF Halt, TablesOK, MailboxOK, ProcessOK, LocalsOK, BatchesOK, Busy, Ids
<1>6. CASE Crash
  BY <1>6, TypeDies DEF Crash
<1>7. CASE Restart
  BY <1>7 DEF Restart, TablesOK, MailboxOK, ProcessOK, LocalsOK, BatchesOK, Busy, Ids
<1> QED
  BY <1>1, <1>2, <1>3, <1>4, <1>5, <1>6, <1>7 DEF Scheduler

\* Returning from SyncIntegration resets the worker.
LEMMA TypeReturn ==
  ASSUME TypeInv, NEW w \in Workers, Return(w), UNCHANGED <<emails, sent>>
  PROVE  LocalsOK' /\ Busy' /\ BatchesOK'
BY DEF TypeInv, TypeOK, Return, Goto, LocalsOK, Busy, BatchesOK, PCs, Ids

\* A row more: what was a row id stays one.
LEMMA NewRow ==
  ASSUME TypeInv, NEW i \in Integrations, NEW m \in Messages,
         emails' = Append(emails, Row(i, m))
  PROVE  /\ (emails \in Seq(Rows))'
         /\ Len(emails) \in Nat
         /\ Ids' = Ids \cup {Len(emails) + 1}
         /\ \A r \in Ids : emails'[r] = emails[r]
         /\ emails'[Len(emails) + 1] = Row(i, m)
         /\ sent \in Seq(SUBSET Ids')
         /\ batch \in [Workers -> SUBSET Ids']
<1>1. emails \in Seq(Rows) /\ Row(i, m) \in Rows
  BY RowType DEF TypeInv, TypeOK, TablesOK
<1>2. /\ emails' \in Seq(Rows)
      /\ Len(emails) \in Nat
      /\ Len(emails') = Len(emails) + 1
      /\ \A r \in 1 .. Len(emails) : emails'[r] = emails[r]
      /\ emails'[Len(emails) + 1] = Row(i, m)
  BY <1>1
<1>3. Ids' = Ids \cup {Len(emails) + 1}
  BY <1>2 DEF Ids
<1>4. (SUBSET Ids) \subseteq (SUBSET Ids')
  BY <1>3
<1>5. sent \in Seq(SUBSET Ids')
  BY <1>4, SeqMonotonic DEF TypeInv, TypeOK, BatchesOK
<1>6. batch \in [Workers -> SUBSET Ids']
  BY <1>4 DEF TypeInv, TypeOK, BatchesOK
<1> QED
  BY <1>2, <1>3, <1>5, <1>6 DEF Ids

LEMMA TouchType ==
  ASSUME TablesOK, today \in 0 .. MaxDay, NEW i \in Integrations,
         Touch(i) \/ UNCHANGED <<recency, syncDay>>
  PROVE  /\ recency' \in [Integrations -> Ranks]
         /\ syncDay' \in [Integrations -> Never .. MaxDay]
<1> USE RanksNat, MailSyncAssumption
<1>1. CASE Touch(i) /\ account[i] = "active"
  <2> DEFINE next(j) == IF j = i THEN Cardinality(Integrations)
                        ELSE IF recency[j] > recency[i] THEN recency[j] - 1
                        ELSE recency[j]
  <2>1. ASSUME NEW j \in Integrations PROVE next(j) \in Ranks
    BY DEF TablesOK, Ranks
  <2>2. recency' = [j \in Integrations |-> next(j)]
    BY <1>1 DEF Touch
  <2>3. recency' \in [Integrations -> Ranks]
    <3> HIDE DEF next
    <3> QED
      BY <2>1, <2>2
  <2>4. today \in Never .. MaxDay
    BY DEF Never
  <2>5. syncDay' = [syncDay EXCEPT ![i] = today]
    BY <1>1 DEF Touch
  <2>6. syncDay' \in [Integrations -> Never .. MaxDay]
    BY <2>4, <2>5 DEF TablesOK
  <2> QED
    BY <2>3, <2>6
<1>2. CASE UNCHANGED <<recency, syncDay>>
  BY <1>2 DEF TablesOK
<1> QED
  BY <1>1, <1>2 DEF Touch

LEMMA TypeSyncStep ==
  ASSUME TypeInv, NEW w \in Workers, SyncStep(w)
  PROVE  TypeInv'
<1> USE DEF TypeInv, TypeOK, tables, mailbox, process, locals, At, Goto
<1>1. CASE TakeJob(w)
  <2>1. Head(jobs) \in Jobs /\ Tail(jobs) \in Seq(Jobs)
    BY <1>1, HeadTailProperties DEF TakeJob, ProcessOK
  <2>2. ProcessOK' /\ LocalsOK' /\ Busy'
    BY <1>1, <2>1 DEF TakeJob, ProcessOK, LocalsOK, Busy, PCs
  <2> QED
    BY <1>1, <2>2 DEF TakeJob, TablesOK, MailboxOK, BatchesOK, Ids
<1>2. CASE ConnectFails(w)
  BY <1>2, TypeReturn DEF ConnectFails, TablesOK, MailboxOK, ProcessOK
<1>3. CASE Search(w)
  <2>1. Found(w) \subseteq Messages
    BY DEF Found
  <2> QED
    BY <1>3, <2>1 DEF Search, TablesOK, MailboxOK, ProcessOK, LocalsOK, BatchesOK, Busy, Ids, PCs
<1>4. CASE Fetch(w)
  BY <1>4 DEF Fetch, TablesOK, MailboxOK, ProcessOK, LocalsOK, BatchesOK, Busy, Ids, PCs
<1>5. CASE FetchFails(w)
  <2>1. MailboxOK'
    BY <1>5 DEF FetchFails, MailboxOK, LocalsOK
  <2> QED
    BY <1>5, <2>1, TypeReturn DEF FetchFails, TablesOK, ProcessOK
<1>6. ASSUME NEW m \in Messages, EmailExists(w, m) PROVE TypeInv'
  <2>1. LocalsOK' /\ Busy'
    BY <1>6 DEF EmailExists, LocalsOK, Busy, PCs
  <2> QED
    BY <1>6, <2>1 DEF EmailExists, TablesOK, MailboxOK, ProcessOK, BatchesOK, Ids
<1>7. ASSUME NEW m \in Messages, EmailExistsFails(w, m) PROVE TypeInv'
  BY <1>7 DEF EmailExistsFails, TablesOK, MailboxOK, ProcessOK, LocalsOK, BatchesOK, Busy, Ids
<1>8. CASE SaveEmail(w)
  <2>1. job[w].id \in Integrations /\ msg[w] \in Messages
    BY <1>8 DEF SaveEmail, Busy, Jobs
  <2>2. emails' = Append(emails, Row(job[w].id, msg[w]))
    BY <1>8 DEF SaveEmail
  <2>3. TablesOK' /\ BatchesOK'
    BY <1>8, <2>1, <2>2, NewRow DEF SaveEmail, TablesOK, BatchesOK
  <2>4. LocalsOK' /\ Busy'
    BY <1>8 DEF SaveEmail, LocalsOK, Busy, PCs
  <2> QED
    BY <1>8, <2>3, <2>4 DEF SaveEmail, MailboxOK, ProcessOK
<1>9. CASE SaveEmailFails(w)
  <2>1. job[w].id \in Integrations /\ msg[w] \in Messages
    BY <1>9 DEF SaveEmailFails, Busy, Jobs
  <2>2. TablesOK' /\ BatchesOK'
    <3>1. CASE emails' = emails
      BY <1>9, <3>1 DEF SaveEmailFails, TablesOK, BatchesOK, Ids
    <3>2. CASE emails' = Append(emails, Row(job[w].id, msg[w]))
      BY <1>9, <2>1, <3>2, NewRow DEF SaveEmailFails, TablesOK, BatchesOK
    <3> QED
      BY <1>9, <3>1, <3>2 DEF SaveEmailFails
  <2>3. LocalsOK' /\ Busy'
    BY <1>9 DEF SaveEmailFails, LocalsOK, Busy, PCs
  <2> QED
    BY <1>9, <2>2, <2>3 DEF SaveEmailFails, MailboxOK, ProcessOK
<1>10. CASE LoopEnds(w)
  BY <1>10 DEF LoopEnds, TablesOK, MailboxOK, ProcessOK, LocalsOK, BatchesOK, Busy, Ids, PCs
<1>11. CASE Panic(w)
  BY <1>11, TypeDies DEF Panic
<1>12. CASE PublishEmailBatch(w)
  <2>1. BatchesOK'
    BY <1>12 DEF PublishEmailBatch, BatchesOK, Ids
  <2> QED
    BY <1>12, <2>1 DEF PublishEmailBatch, TablesOK, MailboxOK, ProcessOK, LocalsOK, Busy, PCs
<1>13. CASE PublishFails(w)
  BY <1>13, TypeReturn DEF PublishFails, TablesOK, MailboxOK, ProcessOK
<1>14. CASE UpdateLastSync(w)
  <2>1. job[w].id \in Integrations
    BY <1>14 DEF UpdateLastSync, Busy, Jobs
  <2> QED
    BY <1>14, <2>1, TouchType, TypeReturn DEF UpdateLastSync, TablesOK, MailboxOK, ProcessOK
<1>15. CASE UpdateLastSyncFails(w)
  <2>1. job[w].id \in Integrations
    BY <1>15 DEF UpdateLastSyncFails, Busy, Jobs
  <2> QED
    BY <1>15, <2>1, TouchType, TypeReturn DEF UpdateLastSyncFails, TablesOK, MailboxOK, ProcessOK
<1>16. CASE PublishLost(w)
  <2>1. BatchesOK'
    BY <1>16 DEF PublishLost, BatchesOK, Ids
  <2> QED
    BY <1>16, <2>1 DEF PublishLost, TablesOK, MailboxOK, ProcessOK, LocalsOK, Busy, PCs
<1> QED
  BY <1>1, <1>2, <1>3, <1>4, <1>5, <1>6, <1>7, <1>8, <1>9, <1>10, <1>11, <1>12,
     <1>13, <1>14, <1>15, <1>16 DEF SyncStep

LEMMA TypeStep == TypeInv /\ [Next]_vars => TypeInv'
<1> SUFFICES ASSUME TypeInv, [Next]_vars PROVE TypeInv'
  OBVIOUS
<1>1. CASE World
  BY <1>1, TypeWorld
<1>2. CASE Scheduler
  BY <1>2, TypeScheduler
<1>3. ASSUME NEW w \in Workers, SyncStep(w) PROVE TypeInv'
  BY <1>3, TypeSyncStep
<1>4. CASE UNCHANGED vars
  BY <1>4 DEF vars, tables, mailbox, process, locals, TypeInv, TypeOK, TablesOK,
              MailboxOK, ProcessOK, LocalsOK, BatchesOK, Busy, Ids
<1> QED
  BY <1>1, <1>2, <1>3, <1>4 DEF Next

LEMMA TypeInvariant == Spec => []TypeInv
<1>1. TypeInv /\ [Next]_vars => TypeInv'
  BY TypeStep
<1> QED
  BY TypeInit, <1>1, PTL DEF Spec

\* Every state of the core service is well typed; above all, an id that is
\* published or pending is the id of a saved row: SaveEmail comes first
\* (syncer.go:141-153).
THEOREM TypeCorrect == Spec => []TypeOK
<1>1. TypeInv => TypeOK
  BY DEF TypeInv
<1> QED
  BY TypeInvariant, <1>1, PTL

-----------------------------------------------------------------------------
(***************************************************************************)
(* No row is published twice.                                              *)
(***************************************************************************)

\* Publishing nothing and dropping batches, or parts of them, is harmless.
LEMMA SentShrink ==
  ASSUME SentOnce, UNCHANGED sent, \A w \in Workers : batch'[w] \subseteq batch[w]
  PROVE  SentOnce'
BY DEF SentOnce

LEMMA SentDies == ASSUME TypeInv, SentOnce, Dies PROVE SentOnce'
BY SentShrink DEF Dies, TypeInv, TypeOK, BatchesOK

LEMMA SentReturn ==
  ASSUME TypeInv, SentOnce, NEW v \in Workers, Return(v), UNCHANGED sent
  PROVE  SentOnce'
BY SentShrink DEF Return, TypeInv, TypeOK, BatchesOK

LEMMA SentSyncStep ==
  ASSUME TypeInv, SentOnce, NEW w \in Workers, SyncStep(w)
  PROVE  SentOnce'
<1>1. CASE SaveEmail(w)
  <2>1. job[w].id \in Integrations /\ msg[w] \in Messages
    BY <1>1 DEF SaveEmail, At, TypeInv, Busy, Jobs
  <2>2. Len(emails) + 1 \notin Ids
    BY <1>1, <2>1, NewRow DEF SaveEmail, Ids
  <2>3. /\ \A p \in DOMAIN sent : Len(emails) + 1 \notin sent[p]
        /\ \A v \in Workers : Len(emails) + 1 \notin batch[v]
    BY <2>2 DEF TypeInv, TypeOK, BatchesOK
  <2>4. /\ UNCHANGED sent
        /\ batch' = [batch EXCEPT ![w] = @ \cup {Len(emails) + 1}]
    BY <1>1 DEF SaveEmail
  <2> QED
    BY <2>3, <2>4 DEF SentOnce, TypeInv, TypeOK, BatchesOK
<1>2. CASE PublishEmailBatch(w)
  <2>1. /\ batch' = [batch EXCEPT ![w] = {}]
        /\ DOMAIN sent' = DOMAIN sent \cup {Len(sent) + 1}
        /\ \A p \in DOMAIN sent : sent'[p] = sent[p]
        /\ sent'[Len(sent) + 1] = batch[w]
    BY <1>2 DEF PublishEmailBatch, TypeInv, TypeOK, BatchesOK
  <2> QED
    BY <2>1 DEF SentOnce, TypeInv, TypeOK, BatchesOK
<1>3. CASE UNCHANGED <<sent, batch>>
  BY <1>3 DEF SentOnce
<1>4. CASE ConnectFails(w) \/ FetchFails(w) \/ PublishFails(w)
             \/ UpdateLastSync(w) \/ UpdateLastSyncFails(w)
  BY <1>4, SentReturn DEF ConnectFails, FetchFails, PublishFails, UpdateLastSync, UpdateLastSyncFails
<1>5. CASE Panic(w)
  BY <1>5, SentDies DEF Panic
<1>6. CASE PublishLost(w)
  BY <1>6 DEF PublishLost, SentOnce, TypeInv, TypeOK, BatchesOK
<1> QED
  BY <1>1, <1>2, <1>3, <1>4, <1>5, <1>6
  DEF SyncStep, TakeJob, Search, Fetch, EmailExists, EmailExistsFails, SaveEmailFails, LoopEnds

\* A saved email reaches the exchange at most once, for any number of
\* workers, restarts and failures (syncer.go:87-105).
THEOREM NeverSentTwice == Spec => []SentOnce
<1>1. Init => SentOnce
  BY DEF Init, SentOnce
<1>2. TypeInv /\ SentOnce /\ [Next]_vars => SentOnce'
  <2> SUFFICES ASSUME TypeInv, SentOnce, [Next]_vars PROVE SentOnce'
    OBVIOUS
  <2>1. CASE World \/ UNCHANGED vars
    BY <2>1 DEF World, Deliver, OwnerReads, OwnerMarksUnread, Midnight, CreateIntegration,
                DeleteIntegration, vars, locals, SentOnce
  <2>2. CASE Scheduler
    BY <2>2, SentDies DEF Scheduler, SyncAll, ScanBreaks, ScanFails, CycleEnds, Sigterm, Halt, Crash,
                          Restart, locals, SentOnce
  <2>3. ASSUME NEW w \in Workers, SyncStep(w) PROVE SentOnce'
    BY <2>3, SentSyncStep
  <2> QED
    BY <2>1, <2>2, <2>3 DEF Next
<1> QED
  BY <1>1, <1>2, TypeInvariant, PTL DEF Spec

-----------------------------------------------------------------------------
(***************************************************************************)
(* No integration is synced twice at a time.                               *)
(***************************************************************************)
CycleInv == QuietBetweenCycles /\ IdleHasNoJob /\ OneWorkerPerIntegration

\* Steps inside SyncIntegration: the job stays, the worker stays busy.
LEMMA CycleBusy ==
  ASSUME TypeInv, CycleInv, NEW w \in Workers, pc[w] # "idle",
         NEW p \in PCs \ {"idle"}, Goto(w, p), UNCHANGED <<sched, jobs, job>>
  PROVE  CycleInv'
BY DEF CycleInv, QuietBetweenCycles, IdleHasNoJob, OneWorkerPerIntegration, Goto,
       TypeInv, TypeOK, LocalsOK

LEMMA CycleReturn ==
  ASSUME TypeInv, CycleInv, NEW w \in Workers, pc[w] # "idle", Return(w),
         UNCHANGED <<sched, jobs>>
  PROVE  CycleInv'
<1>1. \A k \in DOMAIN jobs : jobs[k].id # None
  <2>1. jobs \in Seq(Jobs)
    BY DEF TypeInv, TypeOK, ProcessOK
  <2>2. \A k \in DOMAIN jobs : jobs[k] \in Jobs
    BY <2>1, LenProperties, ElementOfSeq
  <2>3. \A j \in Jobs : j.id # None
    BY MailSyncAssumption DEF Jobs
  <2> QED
    BY <2>2, <2>3
<1>2. sched = "cycle"
  BY DEF CycleInv, QuietBetweenCycles
<1>3. /\ pc' = [pc EXCEPT ![w] = "idle"]
      /\ job' = [job EXCEPT ![w] = NoJob]
  BY DEF Return, Goto
<1>4. \A v \in Workers : job[v] # NoJob => job[v].id # None
  BY MailSyncAssumption DEF TypeInv, TypeOK, LocalsOK, Jobs
<1> QED
  BY <1>1, <1>2, <1>3, <1>4
  DEF CycleInv, QuietBetweenCycles, IdleHasNoJob, OneWorkerPerIntegration, NoJob,
      TypeInv, TypeOK, LocalsOK

LEMMA CycleDies ==
  ASSUME TypeInv, Dies
  PROVE  CycleInv'
BY DEF Dies, CycleInv, QuietBetweenCycles, IdleHasNoJob, OneWorkerPerIntegration, NoJob

LEMMA CycleTakeJob ==
  ASSUME TypeInv, CycleInv, NEW w \in Workers, TakeJob(w)
  PROVE  CycleInv'
<1>1. /\ jobs \in Seq(Jobs) /\ jobs # <<>>
      /\ jobs' = Tail(jobs)
      /\ job' = [job EXCEPT ![w] = jobs[1]]
      /\ pc' = [pc EXCEPT ![w] = "search"]
      /\ UNCHANGED sched
  BY DEF TakeJob, TypeInv, TypeOK, ProcessOK, Goto
<1>2. sched = "cycle"
  BY <1>1 DEF CycleInv, QuietBetweenCycles
<1>3. /\ DOMAIN jobs' = 1 .. Len(jobs) - 1
      /\ \A k \in DOMAIN jobs' : k + 1 \in DOMAIN jobs /\ jobs'[k] = jobs[k + 1] /\ k + 1 # 1
      /\ 1 \in DOMAIN jobs
      /\ jobs[1] \in Jobs
  <2>1. /\ Len(jobs) \in Nat \ {0}
        /\ DOMAIN jobs = 1 .. Len(jobs)
    BY <1>1, EmptySeq, LenProperties
  <2>2. /\ Tail(jobs) \in Seq(Jobs)
        /\ Len(Tail(jobs)) = Len(jobs) - 1
        /\ \A k \in 1 .. Len(Tail(jobs)) : Tail(jobs)[k] = jobs[k + 1]
    BY <1>1, HeadTailProperties
  <2>3. DOMAIN Tail(jobs) = 1 .. Len(jobs) - 1
    BY <2>2, LenProperties
  <2> QED
    BY <1>1, <2>1, <2>2, <2>3, ElementOfSeq
<1>4. \A k, l \in DOMAIN jobs' : k # l => jobs'[k].id # jobs'[l].id
  BY <1>3 DEF CycleInv, OneWorkerPerIntegration
<1>5. \A v \in Workers, k \in DOMAIN jobs' : jobs'[k].id # job'[v].id
  BY <1>1, <1>3 DEF CycleInv, OneWorkerPerIntegration, TypeInv, TypeOK, LocalsOK
<1>6. \A u, v \in Workers : u # v /\ job'[u] # NoJob => job'[u].id # job'[v].id
  BY <1>1, <1>3 DEF CycleInv, OneWorkerPerIntegration, TypeInv, TypeOK, LocalsOK
<1>7. IdleHasNoJob'
  BY <1>1 DEF CycleInv, IdleHasNoJob, TypeInv, TypeOK, LocalsOK
<1> QED
  BY <1>1, <1>2, <1>4, <1>5, <1>6, <1>7
  DEF CycleInv, QuietBetweenCycles, OneWorkerPerIntegration

LEMMA CycleSyncStep ==
  ASSUME TypeInv, CycleInv, NEW w \in Workers, SyncStep(w)
  PROVE  CycleInv'
<1> USE DEF At, PCs, process
<1>1. CASE TakeJob(w)
  BY <1>1, CycleTakeJob
<1>2. CASE ConnectFails(w) \/ FetchFails(w) \/ PublishFails(w)
             \/ UpdateLastSync(w) \/ UpdateLastSyncFails(w)
  BY <1>2, CycleReturn DEF ConnectFails, FetchFails, PublishFails, UpdateLastSync, UpdateLastSyncFails
<1>3. CASE Search(w) \/ Fetch(w)
  BY <1>3, CycleBusy DEF Search, Fetch
<1>4. ASSUME NEW m \in Messages, EmailExists(w, m) \/ EmailExistsFails(w, m) PROVE CycleInv'
  <2>1. CASE Goto(w, "save")
    BY <1>4, <2>1, CycleBusy DEF EmailExists, EmailExistsFails
  <2>2. CASE UNCHANGED pc
    BY <1>4, <2>2 DEF EmailExists, EmailExistsFails, CycleInv, QuietBetweenCycles, IdleHasNoJob,
                      OneWorkerPerIntegration
  <2> QED
    BY <1>4, <2>1, <2>2 DEF EmailExists, EmailExistsFails
<1>5. CASE SaveEmail(w) \/ SaveEmailFails(w)
  BY <1>5, CycleBusy DEF SaveEmail, SaveEmailFails
<1>6. CASE LoopEnds(w) \/ PublishEmailBatch(w) \/ PublishLost(w)
  BY <1>6, CycleBusy DEF LoopEnds, PublishEmailBatch, PublishLost
<1>7. CASE Panic(w)
  BY <1>7, CycleDies DEF Panic
<1> QED
  BY <1>1, <1>2, <1>3, <1>4, <1>5, <1>6, <1>7 DEF SyncStep

LEMMA CycleScheduler ==
  ASSUME TypeInv, CycleInv, Scheduler
  PROVE  CycleInv'
<1>1. CASE SyncAll \/ ScanBreaks
  <2>1. PICK s \in Scans :
          /\ FirstRows(s)
          /\ jobs' = [k \in DOMAIN s |-> [id |-> s[k], since |-> syncDay[s[k]]]]
          /\ sched' = IF s = <<>> THEN "idle" ELSE "cycle"
    BY <1>1 DEF SyncAll, ScanBreaks, ScanResult, Dispatch
  <2>2. PICK n \in Nat : s \in [1 .. n -> Integrations]
    BY DEF Scans
  <2>3. \A v \in Workers : pc[v] = "idle" /\ job[v] = NoJob
    BY <1>1 DEF SyncAll, ScanBreaks, CycleInv, QuietBetweenCycles, IdleHasNoJob
  <2>4. UNCHANGED <<pc, job>>
    BY <1>1 DEF SyncAll, ScanBreaks, locals
  <2>5. \A k, l \in DOMAIN s : k # l => s[k] # s[l]
    BY <2>1, <2>2 DEF FirstRows
  <2>6. OneWorkerPerIntegration'
    BY <2>1, <2>2, <2>3, <2>4, <2>5, MailSyncAssumption DEF OneWorkerPerIntegration, NoJob
  <2>7. s = <<>> => jobs' = <<>>
    BY <2>1
  <2> QED
    BY <2>1, <2>3, <2>4, <2>6, <2>7 DEF CycleInv, QuietBetweenCycles, IdleHasNoJob
<1>2. CASE Crash
  BY <1>2, CycleDies DEF Crash
<1>3. CASE ScanFails \/ CycleEnds \/ Sigterm \/ Halt \/ Restart
  BY <1>3 DEF ScanFails, CycleEnds, Sigterm, Halt, Restart, locals, CycleInv,
              QuietBetweenCycles, IdleHasNoJob, OneWorkerPerIntegration
<1> QED
  BY <1>1, <1>2, <1>3 DEF Scheduler

LEMMA CycleWorld ==
  ASSUME CycleInv, World \/ UNCHANGED vars
  PROVE  CycleInv'
BY DEF World, Deliver, OwnerReads, OwnerMarksUnread, Midnight, CreateIntegration,
       DeleteIntegration, vars, process, locals, CycleInv, QuietBetweenCycles, IdleHasNoJob,
       OneWorkerPerIntegration

LEMMA CycleInit == Init => CycleInv
BY DEF Init, CycleInv, QuietBetweenCycles, IdleHasNoJob, OneWorkerPerIntegration, NoJob

LEMMA CycleInvariant == Spec => []CycleInv
<1>1. TypeInv /\ CycleInv /\ [Next]_vars => CycleInv'
  BY CycleWorld, CycleScheduler, CycleSyncStep DEF Next
<1> QED
  BY CycleInit, <1>1, TypeInvariant, PTL DEF Spec

\* Two workers never sync the same integration, whatever the size of the
\* pool and of the scan (sheduler.go:48-108).
THEOREM WorkersDisjoint == Spec => []OneWorkerPerIntegration
<1>1. CycleInv => OneWorkerPerIntegration
  BY DEF CycleInv
<1> QED
  BY CycleInvariant, <1>1, PTL

-----------------------------------------------------------------------------
(***************************************************************************)
(* One row per user and Message-ID.                                        *)
(***************************************************************************)
MailInv == OwnMail /\ StillMissing /\ NoDuplicateImport

\* Two workers with the same row in hand work for two integrations of one
\* user, and both mailboxes received the message.
LEMMA SameRow ==
  ASSUME TypeInv, CycleInv, MailInv, NEW v \in Workers, NEW w \in Workers, v # w,
         pc[v] = "save", pc[w] = "save",
         Row(job[v].id, msg[v]) = Row(job[w].id, msg[w])
  PROVE  Contended(User[job[w].id], Header[msg[w]])
<1>1. /\ job[v] \in Jobs /\ job[w] \in Jobs
      /\ msg[v] \in Messages /\ msg[w] \in Messages
  BY DEF TypeInv, Busy
<1>2. job[v].id \in Integrations /\ job[w].id \in Integrations
  BY <1>1 DEF Jobs
<1>3. job[v].id # job[w].id
  <2>1. job[v] # NoJob
    BY <1>2, MailSyncAssumption DEF NoJob
  <2> QED
    BY <2>1 DEF CycleInv, OneWorkerPerIntegration
<1>4. User[job[v].id] = User[job[w].id] /\ Header[msg[v]] = Header[msg[w]]
  BY DEF Row
<1>5. Home[msg[v]] = Mailbox[job[v].id] /\ Home[msg[w]] = Mailbox[job[w].id]
  BY <1>1 DEF MailInv, OwnMail
<1> QED
  BY <1>1, <1>2, <1>3, <1>4, <1>5 DEF Contended

\* The INSERT of a worker at "save", whatever else the step does to it.
LEMMA MailNewRow ==
  ASSUME TypeInv, CycleInv, MailInv, NEW w \in Workers, pc[w] = "save",
         emails' = Append(emails, Row(job[w].id, msg[w])),
         NEW p \in PCs \ {"idle", "save"}, Goto(w, p),
         msg' = [msg EXCEPT ![w] = None], UNCHANGED <<job, todo>>
  PROVE  MailInv'
<1>1. job[w].id \in Integrations /\ msg[w] \in Messages
  BY DEF TypeInv, Busy, Jobs
<1>2. /\ Len(emails) \in Nat
      /\ Ids' = Ids \cup {Len(emails) + 1}
      /\ \A r \in Ids : emails'[r] = emails[r]
      /\ emails'[Len(emails) + 1] = Row(job[w].id, msg[w])
  BY <1>1, NewRow
<1>3. /\ pc' = [pc EXCEPT ![w] = p] /\ p \notin {"idle", "save"}
      /\ pc \in [Workers -> PCs] /\ msg \in [Workers -> Messages \cup {None}]
  BY DEF Goto, TypeInv, TypeOK, LocalsOK
<1>4. OwnMail'
  BY <1>3, MailSyncAssumption DEF MailInv, OwnMail
<1>5. StillMissing'
  <2> SUFFICES ASSUME NEW v \in Workers, pc'[v] = "save",
                      NEW r \in Ids', emails'[r] = Row(job[v].id, msg'[v])
               PROVE  Contended(User[job[v].id], Header[msg'[v]])
    BY DEF StillMissing, Exists, Row
  <2>1. v # w /\ pc[v] = "save" /\ msg'[v] = msg[v]
    BY <1>3
  <2>2. CASE r \in Ids
    BY <1>2, <2>1, <2>2 DEF MailInv, StillMissing, Exists
  <2>3. CASE r = Len(emails) + 1
    BY <1>2, <2>1, <2>3, SameRow
  <2> QED
    BY <1>2, <2>2, <2>3
<1>6. NoDuplicateImport'
  <2> SUFFICES ASSUME NEW r \in Ids', NEW s \in Ids', r # s, emails'[r] = emails'[s]
               PROVE  Contended(emails'[r].user, emails'[r].mid)
    BY DEF NoDuplicateImport
  <2>1. CASE r \in Ids /\ s \in Ids
    BY <1>2, <2>1 DEF MailInv, NoDuplicateImport
  <2>2. CASE r = Len(emails) + 1 \/ s = Len(emails) + 1
    <3>1. Exists(job[w].id, msg[w])
      BY <1>2, <2>2 DEF Exists
    <3>2. emails'[r] = Row(job[w].id, msg[w])
      BY <1>2, <2>2
    <3>3. Contended(User[job[w].id], Header[msg[w]])
      BY <3>1 DEF MailInv, StillMissing
    <3>4. emails'[r].user = User[job[w].id] /\ emails'[r].mid = Header[msg[w]]
      BY <3>2, RowFields
    <3> QED
      BY <3>3, <3>4
  <2> QED
    BY <1>2, <2>1, <2>2
<1> QED
  BY <1>4, <1>5, <1>6 DEF MailInv

\* A step of a worker to a point other than "save" that adds no row and takes
\* at most mail of its mailbox in hand.
LEMMA MailMoves ==
  ASSUME TypeInv, MailInv, NEW w \in Workers, NEW p \in PCs \ {"idle", "save"}, Goto(w, p),
         UNCHANGED emails, pc[w] # "save",
         \A v \in Workers \ {w} : job'[v] = job[v] /\ todo'[v] = todo[v] /\ msg'[v] = msg[v],
         \A m \in Messages : m \in todo'[w] \/ m = msg'[w] => Home[m] = Mailbox[job'[w].id]
  PROVE  MailInv'
<1>1. pc' = [pc EXCEPT ![w] = p] /\ pc \in [Workers -> PCs]
  BY DEF Goto, TypeInv, TypeOK, LocalsOK
<1>2. OwnMail'
  BY <1>1 DEF MailInv, OwnMail
<1>3. StillMissing'
  BY <1>1 DEF MailInv, StillMissing, Exists, Ids, Row
<1>4. NoDuplicateImport'
  BY DEF MailInv, NoDuplicateImport, Ids
<1> QED
  BY <1>2, <1>3, <1>4 DEF MailInv

LEMMA MailReturn ==
  ASSUME TypeInv, MailInv, NEW w \in Workers, Return(w), UNCHANGED emails
  PROVE  MailInv'
<1>1. /\ pc' = [pc EXCEPT ![w] = "idle"]
      /\ job' = [job EXCEPT ![w] = NoJob]
      /\ todo' = [todo EXCEPT ![w] = {}]
      /\ msg' = [msg EXCEPT ![w] = None]
  BY DEF Return, Goto
<1>2. /\ pc \in [Workers -> PCs] /\ todo \in [Workers -> SUBSET Messages]
      /\ msg \in [Workers -> Messages \cup {None}] /\ job \in [Workers -> Jobs \cup {NoJob}]
  BY DEF TypeInv, TypeOK, LocalsOK
<1>3. OwnMail'
  BY <1>1, <1>2, MailSyncAssumption DEF MailInv, OwnMail
<1>4. StillMissing'
  BY <1>1, <1>2 DEF MailInv, StillMissing, Exists, Ids, Row
<1>5. NoDuplicateImport'
  BY DEF MailInv, NoDuplicateImport, Ids
<1> QED
  BY <1>3, <1>4, <1>5 DEF MailInv

LEMMA MailDies ==
  ASSUME TypeInv, MailInv, Dies
  PROVE  MailInv'
BY MailSyncAssumption
DEF Dies, tables, MailInv, OwnMail, StillMissing, NoDuplicateImport, Ids

\* Steps that touch neither emails_raw nor what the workers have in hand.
LEMMA MailQuiet ==
  ASSUME MailInv, UNCHANGED <<emails, pc, job, todo, msg>>
  PROVE  MailInv'
BY DEF MailInv, OwnMail, StillMissing, NoDuplicateImport, Exists, Ids, Row

LEMMA MailExists ==
  ASSUME TypeInv, CycleInv, MailInv, NEW w \in Workers, NEW m \in Messages,
         EmailExists(w, m) \/ EmailExistsFails(w, m)
  PROVE  MailInv'
<1>1. /\ pc[w] = "loop" /\ m \in todo[w]
      /\ todo' = [todo EXCEPT ![w] = @ \ {m}]
      /\ UNCHANGED <<emails, job>>
      /\ \/ UNCHANGED <<pc, msg>>
         \/ /\ ~Exists(job[w].id, m)
            /\ pc' = [pc EXCEPT ![w] = "save"]
            /\ msg' = [msg EXCEPT ![w] = m]
  BY DEF EmailExists, EmailExistsFails, At, Goto, tables
<1>2. /\ pc \in [Workers -> PCs] /\ todo \in [Workers -> SUBSET Messages]
      /\ msg \in [Workers -> Messages \cup {None}]
  BY DEF TypeInv, TypeOK, LocalsOK
<1>3. OwnMail'
  BY <1>1, <1>2 DEF MailInv, OwnMail
<1>4. StillMissing'
  BY <1>1, <1>2 DEF MailInv, StillMissing, Exists, Ids, Row
<1>5. NoDuplicateImport'
  BY <1>1 DEF MailInv, NoDuplicateImport, Ids
<1> QED
  BY <1>3, <1>4, <1>5 DEF MailInv

LEMMA MailSyncStep ==
  ASSUME TypeInv, CycleInv, MailInv, NEW w \in Workers, SyncStep(w)
  PROVE  MailInv'
<1> USE DEF At, PCs, tables
<1>1. CASE TakeJob(w)
  <2>1. \A m \in Messages : m \notin todo[w] /\ m # msg[w]
    BY <1>1 DEF TakeJob, MailInv, OwnMail
  <2> QED
    BY <1>1, <2>1, MailMoves DEF TakeJob, TypeInv, TypeOK, LocalsOK
<1>2. CASE ConnectFails(w) \/ FetchFails(w) \/ PublishFails(w)
             \/ UpdateLastSync(w) \/ UpdateLastSyncFails(w)
  BY <1>2, MailReturn DEF ConnectFails, FetchFails, PublishFails, UpdateLastSync, UpdateLastSyncFails
<1>3. CASE Search(w)
  <2>1. \A m \in Messages : m = msg[w] => Home[m] = Mailbox[job[w].id]
    BY DEF MailInv, OwnMail
  <2>2. \A m \in Found(w) : Home[m] = Mailbox[job[w].id]
    BY DEF Found
  <2>3. /\ todo' = [todo EXCEPT ![w] = Found(w)]
        /\ todo \in [Workers -> SUBSET Messages]
        /\ UNCHANGED <<emails, job, msg>>
        /\ pc[w] = "search"
        /\ Goto(w, "update") \/ Goto(w, "fetch")
    BY <1>3 DEF Search, TypeInv, TypeOK, LocalsOK
  <2> QED
    BY <2>1, <2>2, <2>3, MailMoves
<1>4. CASE Fetch(w) \/ LoopEnds(w) \/ PublishEmailBatch(w) \/ PublishLost(w)
  <2>1. \A m \in Messages : m \in todo[w] \/ m = msg[w] => Home[m] = Mailbox[job[w].id]
    BY DEF MailInv, OwnMail
  <2> QED
    BY <1>4, <2>1, MailMoves DEF Fetch, LoopEnds, PublishEmailBatch, PublishLost
<1>5. ASSUME NEW m \in Messages, EmailExists(w, m) \/ EmailExistsFails(w, m) PROVE MailInv'
  BY <1>5, MailExists
<1>6. CASE (SaveEmail(w) \/ SaveEmailFails(w)) /\ emails' # emails
  BY <1>6, MailNewRow DEF SaveEmail, SaveEmailFails
<1>7. CASE (SaveEmail(w) \/ SaveEmailFails(w)) /\ emails' = emails
  <2>1. /\ pc[w] = "save"
        /\ msg' = [msg EXCEPT ![w] = None]
        /\ UNCHANGED <<emails, job, todo>>
    BY <1>7 DEF SaveEmail, SaveEmailFails
  <2>2. PICK p \in PCs \ {"idle", "save"} : pc' = [pc EXCEPT ![w] = p]
    BY <1>7 DEF SaveEmail, SaveEmailFails, Goto
  <2>3. /\ pc \in [Workers -> PCs] /\ msg \in [Workers -> Messages \cup {None}]
    BY DEF TypeInv, TypeOK, LocalsOK
  <2>4. OwnMail'
    BY <2>1, <2>2, <2>3, MailSyncAssumption DEF MailInv, OwnMail
  <2>5. StillMissing'
    BY <2>1, <2>2, <2>3 DEF MailInv, StillMissing, Exists, Ids, Row
  <2>6. NoDuplicateImport'
    BY <2>1 DEF MailInv, NoDuplicateImport, Ids
  <2> QED
    BY <2>4, <2>5, <2>6 DEF MailInv
<1>8. CASE Panic(w)
  BY <1>8, MailDies DEF Panic
<1> QED
  BY <1>1, <1>2, <1>3, <1>4, <1>5, <1>6, <1>7, <1>8 DEF SyncStep

LEMMA MailInit == Init => MailInv
BY MailSyncAssumption DEF Init, MailInv, OwnMail, StillMissing, NoDuplicateImport, Ids

LEMMA MailStep == TypeInv /\ CycleInv /\ MailInv /\ [Next]_vars => MailInv'
<1> SUFFICES ASSUME TypeInv, CycleInv, MailInv, [Next]_vars PROVE MailInv'
  OBVIOUS
<1>1. CASE World \/ UNCHANGED vars
  BY <1>1, MailQuiet DEF World, Deliver, OwnerReads, OwnerMarksUnread, Midnight,
     CreateIntegration, DeleteIntegration, vars, tables, locals
<1>2. CASE Crash
  BY <1>2, MailDies DEF Crash
<1>3. CASE SyncAll \/ ScanBreaks \/ ScanFails \/ CycleEnds \/ Sigterm \/ Halt \/ Restart
  BY <1>3, MailQuiet DEF SyncAll, ScanBreaks, ScanFails, CycleEnds, Sigterm, Halt, Restart, tables, locals
<1>4. ASSUME NEW w \in Workers, SyncStep(w) PROVE MailInv'
  BY <1>4, MailSyncStep
<1> QED
  BY <1>1, <1>2, <1>3, <1>4 DEF Next, Scheduler

\* The inductive invariant behind the next theorem, for every instance.
THEOREM ImportInvariant == Spec => []ImportInv
<1>1. CycleInv /\ MailInv => ImportInv
  BY DEF CycleInv, MailInv, ImportInv
<1> QED
  BY CycleInvariant, TypeInvariant, MailInit, MailStep, <1>1, PTL DEF Spec

\* A user has one emails_raw row per Message-ID unless two of the user's
\* integrations receive that message: the check-then-insert of
\* processMessage needs no unique key within one integration, even across
\* crashes, lost replies and mail marked unread again (syncer.go:117-143).
THEOREM ImportsOnce == Spec => []NoDuplicateImport
<1>1. ImportInv => NoDuplicateImport
  BY DEF ImportInv
<1> QED
  BY ImportInvariant, <1>1, PTL

-----------------------------------------------------------------------------
(***************************************************************************)
(* Only failures lose mail.  The steps that throw away what a worker holds *)
(* are the returns from SyncIntegration; EmptyHanded says that those which *)
(* are no failure, and those before the first message, throw nothing away. *)
(***************************************************************************)
LEMMA HandsInit == Init => EmptyHanded
BY DEF Init, EmptyHanded

LEMMA HandsSyncStep ==
  ASSUME TypeInv, EmptyHanded, NEW w \in Workers, SyncStep(w)
  PROVE  EmptyHanded'
<1> USE DEF At, Goto, EmptyHanded, TypeInv, TypeOK, LocalsOK, BatchesOK
<1>1. CASE ConnectFails(w) \/ FetchFails(w) \/ PublishFails(w)
             \/ UpdateLastSync(w) \/ UpdateLastSyncFails(w)
  BY <1>1 DEF Return, ConnectFails, FetchFails, PublishFails, UpdateLastSync, UpdateLastSyncFails
<1>2. CASE TakeJob(w) \/ Search(w) \/ Fetch(w)
  BY <1>2 DEF TakeJob, Search, Fetch
<1>3. ASSUME NEW m \in Messages, EmailExists(w, m) \/ EmailExistsFails(w, m) PROVE EmptyHanded'
  BY <1>3 DEF EmailExists, EmailExistsFails
<1>4. CASE SaveEmail(w)
  BY <1>4 DEF SaveEmail
<1>5. CASE SaveEmailFails(w)
  BY <1>5 DEF SaveEmailFails
<1>6. CASE LoopEnds(w)
  BY <1>6 DEF LoopEnds
<1>7. CASE PublishEmailBatch(w) \/ PublishLost(w)
  BY <1>7 DEF PublishEmailBatch, PublishLost
<1>8. CASE Panic(w)
  BY <1>8 DEF Panic, Dies
<1> QED
  BY <1>1, <1>2, <1>3, <1>4, <1>5, <1>6, <1>7, <1>8 DEF SyncStep

\* Outside SyncIntegration only a crash touches what the workers hold, and
\* nothing but a crash or a worker touches rows, batches or the exchange.
LEMMA HandsOff ==
  ASSUME World \/ Scheduler \/ UNCHANGED vars, ~Crash
  PROVE  UNCHANGED <<emails, sent, taken, locals>>
BY DEF World, Deliver, OwnerReads, OwnerMarksUnread, Midnight, CreateIntegration,
       DeleteIntegration, Scheduler, SyncAll, ScanBreaks, ScanFails, CycleEnds, Sigterm, Halt, Restart,
       vars, tables, mailbox

LEMMA HandsStep == TypeInv /\ EmptyHanded /\ [Next]_vars => EmptyHanded'
<1> SUFFICES ASSUME TypeInv, EmptyHanded, [Next]_vars PROVE EmptyHanded'
  OBVIOUS
<1>1. CASE (World \/ Scheduler \/ UNCHANGED vars) /\ ~Crash
  BY <1>1, HandsOff DEF locals, EmptyHanded
<1>2. CASE Crash
  BY <1>2 DEF Crash, Dies, EmptyHanded
<1>3. ASSUME NEW w \in Workers, SyncStep(w) PROVE EmptyHanded'
  BY <1>3, HandsSyncStep
<1> QED
  BY <1>1, <1>2, <1>3 DEF Next

LEMMA HandsInvariant == Spec => []EmptyHanded
BY HandsInit, HandsStep, TypeInvariant, PTL DEF Spec

\* A worker that returns with empty hands loses no batch and no mail.
LEMMA ReturnEmpty ==
  ASSUME TypeInv, EmptyHanded, NEW w \in Workers, Return(w),
         pc[w] \in {"search", "update"}
  PROVE  UNCHANGED <<batch, todo, msg>>
BY DEF Return, EmptyHanded, TypeInv, TypeOK, LocalsOK, BatchesOK

LEMMA ReturnNoBatch ==
  ASSUME TypeInv, EmptyHanded, NEW w \in Workers, Return(w), pc[w] = "fetch"
  PROVE  UNCHANGED batch
BY DEF Return, EmptyHanded, TypeInv, TypeOK, BatchesOK

LEMMA StrandedSame ==
  ASSUME UNCHANGED <<emails, sent, batch>>
  PROVE  Stranded' = Stranded
BY DEF Stranded, Ids

\* A saved row goes into the batch of its worker ...
LEMMA SaveStrandsNone ==
  ASSUME TypeInv, NEW w \in Workers, SaveEmail(w)
  PROVE  Stranded' = Stranded
<1> DEFINE new == Len(emails) + 1
<1>1. job[w].id \in Integrations /\ msg[w] \in Messages
  BY DEF SaveEmail, At, TypeInv, Busy, Jobs
<1>2. Ids' = Ids \cup {new}
  BY <1>1, NewRow DEF SaveEmail
<1>3. UNCHANGED sent
  BY DEF SaveEmail
<1>4. new \in batch'[w] /\ batch[w] \subseteq batch'[w] /\ batch'[w] \subseteq batch[w] \cup {new}
  BY DEF SaveEmail, TypeInv, TypeOK, BatchesOK
<1>5. \A v \in Workers \ {w} : batch'[v] = batch[v]
  BY DEF SaveEmail, TypeInv, TypeOK, BatchesOK
<1>6. new \notin Ids
  BY <1>1, NewRow DEF SaveEmail, Ids
<1> HIDE DEF new
<1>7. \A r \in Ids, v \in Workers : r \in batch'[v] <=> r \in batch[v]
  BY <1>4, <1>5, <1>6
<1>8. new \notin Stranded'
  BY <1>4 DEF Stranded
<1>9. \A r \in Ids : r \in Stranded' <=> r \in Stranded
  BY <1>2, <1>3, <1>7 DEF Stranded
<1>10. Stranded \subseteq Ids /\ Stranded' \subseteq Ids'
  BY DEF Stranded
<1> QED
  BY <1>2, <1>6, <1>8, <1>9, <1>10

\* ... and from there to the exchange.
LEMMA PublishStrandsNone ==
  ASSUME TypeInv, NEW w \in Workers, PublishEmailBatch(w)
  PROVE  Stranded' = Stranded
<1>1. /\ DOMAIN sent' = DOMAIN sent \cup {Len(sent) + 1}
      /\ \A p \in DOMAIN sent : sent'[p] = sent[p]
      /\ sent'[Len(sent) + 1] = batch[w]
  BY DEF PublishEmailBatch, TypeInv, TypeOK, BatchesOK
<1>2. /\ batch'[w] = {}
      /\ \A v \in Workers \ {w} : batch'[v] = batch[v]
      /\ Ids' = Ids
  BY DEF PublishEmailBatch, TypeInv, TypeOK, BatchesOK, tables, Ids
<1>3. \A r \in Ids :
        (\A p \in DOMAIN sent' : r \notin sent'[p])
          <=> (\A p \in DOMAIN sent : r \notin sent[p]) /\ r \notin batch[w]
  BY <1>1
<1>4. \A r \in Ids :
        (\A v \in Workers : r \notin batch[v])
          <=> (\A v \in Workers : r \notin batch'[v]) /\ r \notin batch[w]
  BY <1>2
<1> QED
  BY <1>2, <1>3, <1>4 DEF Stranded

LEMMA StrandedSyncStep ==
  ASSUME TypeInv, EmptyHanded, NEW w \in Workers, SyncStep(w),
         ~PublishFails(w), ~PublishLost(w), ~SaveEmailFails(w), ~Panic(w)
  PROVE  Stranded' = Stranded
<1> USE DEF At
<1>1. CASE ConnectFails(w) \/ UpdateLastSync(w) \/ UpdateLastSyncFails(w)
  <2>1. UNCHANGED <<emails, sent>>
    BY <1>1 DEF ConnectFails, UpdateLastSync, UpdateLastSyncFails, tables
  <2>2. UNCHANGED batch
    BY <1>1, ReturnEmpty DEF ConnectFails, UpdateLastSync, UpdateLastSyncFails
  <2> QED
    BY <2>1, <2>2, StrandedSame
<1>2. CASE FetchFails(w)
  <2>1. UNCHANGED <<emails, sent>>
    BY <1>2 DEF FetchFails, tables
  <2>2. UNCHANGED batch
    BY <1>2, ReturnNoBatch DEF FetchFails
  <2> QED
    BY <2>1, <2>2, StrandedSame
<1>3. CASE SaveEmail(w)
  BY <1>3, SaveStrandsNone
<1>4. CASE PublishEmailBatch(w)
  BY <1>4, PublishStrandsNone
<1>5. CASE \/ TakeJob(w) \/ Search(w) \/ Fetch(w) \/ LoopEnds(w)
           \/ \E m \in Messages : EmailExists(w, m) \/ EmailExistsFails(w, m)
  BY <1>5, StrandedSame DEF TakeJob, Search, Fetch, LoopEnds, EmailExists, EmailExistsFails, tables
<1> QED
  BY <1>1, <1>2, <1>3, <1>4, <1>5 DEF SyncStep

\* A saved email is left unpublished by a failed or lost publish, a lost
\* INSERT reply or the death of the process, and by nothing else: no order of
\* workers, owners, handlers and scans, and no graceful stop
\* (syncer.go:87-105).
THEOREM StrandedByFailuresOnly == Spec => OnlyFailuresStrand
<1> DEFINE Kept == Stranded' # Stranded =>
                     \/ Crash
                     \/ \E w \in Workers : \/ PublishFails(w) \/ PublishLost(w)
                                           \/ SaveEmailFails(w) \/ Panic(w)
<1>1. TypeInv /\ EmptyHanded /\ [Next]_vars => [Kept]_vars
  <2> SUFFICES ASSUME TypeInv, EmptyHanded, Next, Stranded' # Stranded, ~Crash
               PROVE  \E w \in Workers : \/ PublishFails(w) \/ PublishLost(w)
                                         \/ SaveEmailFails(w) \/ Panic(w)
    OBVIOUS
  <2>1. CASE World \/ Scheduler
    BY <2>1, HandsOff, StrandedSame DEF locals
  <2>2. ASSUME NEW w \in Workers, SyncStep(w)
        PROVE  PublishFails(w) \/ PublishLost(w) \/ SaveEmailFails(w) \/ Panic(w)
    BY <2>2, StrandedSyncStep
  <2> QED
    BY <2>1, <2>2 DEF Next
<1>2. Spec => [][Kept]_vars
  BY <1>1, TypeInvariant, HandsInvariant, PTL DEF Spec
<1> QED
  BY <1>2 DEF OnlyFailuresStrand

\* No fetched mail is forgotten if rows stay, a FETCH takes what its worker
\* has still to do, and what a worker puts away is in emails_raw.
LEMMA DroppedKept ==
  ASSUME \A r \in Ids : r \in Ids' /\ emails'[r] = emails[r],
         \A m \in taken' : m \in taken \/ \E v \in Workers : m \in todo'[v],
         \A v \in Workers, m \in taken :
           m \in todo[v] \/ m = msg[v] => \/ m \in todo'[v] \/ m = msg'[v]
                                          \/ \E r \in Ids' : emails'[r].mid = Header[m]
  PROVE  Dropped' \subseteq Dropped
BY DEF Dropped

LEMMA DroppedSame ==
  ASSUME UNCHANGED <<emails, todo, msg, taken>>
  PROVE  Dropped' \subseteq Dropped
BY DEF Dropped, Ids

LEMMA SearchDropsNone ==
  ASSUME TypeInv, EmptyHanded, NEW w \in Workers, Search(w)
  PROVE  Dropped' \subseteq Dropped
<1>1. todo[w] = {} /\ \A v \in Workers \ {w} : todo'[v] = todo[v]
  BY DEF Search, At, EmptyHanded, TypeInv, TypeOK, LocalsOK
<1>2. UNCHANGED <<emails, msg, taken>>
  BY DEF Search, tables, mailbox
<1> QED
  BY <1>1, <1>2 DEF Dropped, Ids

LEMMA FetchDropsNone ==
  ASSUME NEW w \in Workers, Fetch(w)
  PROVE  Dropped' \subseteq Dropped
<1>1. /\ taken' = taken \cup todo[w]
      /\ UNCHANGED <<emails, todo, msg>>
  BY DEF Fetch, tables
<1> QED
  BY <1>1 DEF Dropped, Ids

LEMMA ExistsDropsNone ==
  ASSUME TypeInv, EmptyHanded, NEW w \in Workers, NEW m \in Messages, EmailExists(w, m)
  PROVE  Dropped' \subseteq Dropped
<1>1. /\ \A v \in Workers \ {w} : todo'[v] = todo[v]
      /\ todo'[w] = todo[w] \ {m}
      /\ UNCHANGED <<emails, taken>>
  BY DEF EmailExists, TypeInv, TypeOK, LocalsOK, tables, mailbox
<1>2. CASE Exists(job[w].id, m)
  <2>1. UNCHANGED msg
    BY <1>2 DEF EmailExists
  <2>2. \E r \in Ids : emails[r].mid = Header[m]
    BY <1>2, RowFields DEF Exists
  <2> QED
    BY <1>1, <2>1, <2>2 DEF Dropped, Ids
<1>3. CASE ~Exists(job[w].id, m)
  <2>1. /\ msg'[w] = m
        /\ \A v \in Workers \ {w} : msg'[v] = msg[v]
    BY <1>3 DEF EmailExists, TypeInv, TypeOK, LocalsOK
  <2>2. msg[w] = None
    BY DEF EmailExists, At, EmptyHanded
  <2>3. taken \subseteq Messages
    BY DEF TypeInv, TypeOK, MailboxOK
  <2>4. \A x \in taken : x # msg[w]
    BY <2>2, <2>3, MailSyncAssumption
  <2> QED
    BY <1>1, <2>1, <2>4 DEF Dropped, Ids
<1> QED
  BY <1>2, <1>3

LEMMA SaveDropsNone ==
  ASSUME TypeInv, NEW w \in Workers, SaveEmail(w)
  PROVE  Dropped' \subseteq Dropped
<1>1. job[w].id \in Integrations /\ msg[w] \in Messages
  BY DEF SaveEmail, At, TypeInv, Busy, Jobs
<1>2. /\ Ids' = Ids \cup {Len(emails) + 1}
      /\ \A r \in Ids : emails'[r] = emails[r]
      /\ emails'[Len(emails) + 1] = Row(job[w].id, msg[w])
  BY <1>1, NewRow DEF SaveEmail
<1>3. UNCHANGED <<taken, todo>> /\ \A v \in Workers \ {w} : msg'[v] = msg[v]
  BY DEF SaveEmail, mailbox, TypeInv, TypeOK, LocalsOK
<1>4. emails'[Len(emails) + 1].mid = Header[msg[w]]
  BY <1>2, RowFields
<1> QED
  BY <1>2, <1>3, <1>4, DroppedKept

LEMMA DroppedSyncStep ==
  ASSUME TypeInv, EmptyHanded, NEW w \in Workers, SyncStep(w),
         ~FetchFails(w), ~SaveEmailFails(w), ~PublishFails(w), ~Panic(w),
         \A m \in Messages : ~EmailExistsFails(w, m)
  PROVE  Dropped' \subseteq Dropped
<1> USE DEF At
<1>1. CASE ConnectFails(w) \/ UpdateLastSync(w) \/ UpdateLastSyncFails(w)
  <2>1. UNCHANGED <<emails, taken>>
    BY <1>1 DEF ConnectFails, UpdateLastSync, UpdateLastSyncFails, tables, mailbox
  <2>2. UNCHANGED <<todo, msg>>
    BY <1>1, ReturnEmpty DEF ConnectFails, UpdateLastSync, UpdateLastSyncFails
  <2> QED
    BY <2>1, <2>2, DroppedSame
<1>2. CASE TakeJob(w) \/ LoopEnds(w) \/ PublishEmailBatch(w) \/ PublishLost(w)
  BY <1>2, DroppedSame DEF TakeJob, LoopEnds, PublishEmailBatch, PublishLost, tables, mailbox
<1>3. CASE Search(w)
  BY <1>3, SearchDropsNone
<1>4. CASE Fetch(w)
  BY <1>4, FetchDropsNone
<1>5. ASSUME NEW m \in Messages, EmailExists(w, m) PROVE Dropped' \subseteq Dropped
  BY <1>5, ExistsDropsNone
<1>6. CASE SaveEmail(w)
  BY <1>6, SaveDropsNone
<1> QED
  BY <1>1, <1>2, <1>3, <1>4, <1>5, <1>6 DEF SyncStep

\* A mail our FETCH marked \Seen is forgotten by a failure only: a broken
\* FETCH, a database error, a failed publish, or the death of the process
\* (client.go:88-90, syncer.go:78-95).
THEOREM DroppedByFailuresOnly == Spec => OnlyFailuresDrop
<1> DEFINE Kept == ~(Dropped' \subseteq Dropped) =>
                     \/ Crash
                     \/ \E w \in Workers : \/ FetchFails(w) \/ SaveEmailFails(w)
                                           \/ PublishFails(w) \/ Panic(w)
                                           \/ \E m \in Messages : EmailExistsFails(w, m)
<1>1. TypeInv /\ EmptyHanded /\ [Next]_vars => [Kept]_vars
  <2> SUFFICES ASSUME TypeInv, EmptyHanded, Next, ~(Dropped' \subseteq Dropped), ~Crash
               PROVE  \E w \in Workers : \/ FetchFails(w) \/ SaveEmailFails(w)
                                         \/ PublishFails(w) \/ Panic(w)
                                         \/ \E m \in Messages : EmailExistsFails(w, m)
    OBVIOUS
  <2>1. CASE World \/ Scheduler
    BY <2>1, HandsOff, DroppedSame DEF locals
  <2>2. ASSUME NEW w \in Workers, SyncStep(w)
        PROVE  \/ FetchFails(w) \/ SaveEmailFails(w) \/ PublishFails(w) \/ Panic(w)
               \/ \E m \in Messages : EmailExistsFails(w, m)
    BY <2>2, DroppedSyncStep
  <2> QED
    BY <2>1, <2>2 DEF Next
<1>2. Spec => [][Kept]_vars
  BY <1>1, TypeInvariant, HandsInvariant, PTL DEF Spec
<1> QED
  BY <1>2 DEF OnlyFailuresDrop

-----------------------------------------------------------------------------
(***************************************************************************)
(* The end of a cycle.                                                     *)
(***************************************************************************)
LEMMA ForwardSyncStep ==
  ASSUME TypeInv, NEW w \in Workers, SyncStep(w), ~Panic(w)
  PROVE  Forward(w)
<1> USE DEF At, Goto, Return, process, TypeInv, TypeOK, LocalsOK, Forward, Rests
<1>1. CASE TakeJob(w)
  BY <1>1 DEF TakeJob
<1>2. CASE ConnectFails(w) \/ FetchFails(w) \/ PublishFails(w)
  BY <1>2 DEF ConnectFails, FetchFails, PublishFails
<1>3. CASE UpdateLastSync(w) \/ UpdateLastSyncFails(w)
  BY <1>3 DEF UpdateLastSync, UpdateLastSyncFails
<1>4. CASE Search(w)
  BY <1>4 DEF Search, Advances
<1>5. ASSUME NEW m \in Messages, EmailExists(w, m) \/ EmailExistsFails(w, m)
      PROVE  Forward(w)
  <2>1. /\ pc[w] = "loop" /\ m \in todo[w]
        /\ todo' = [todo EXCEPT ![w] = @ \ {m}]
        /\ UNCHANGED <<jobs, job>>
        /\ pc' \in {pc, [pc EXCEPT ![w] = "save"]}
    BY <1>5 DEF EmailExists, EmailExistsFails
  <2>2. todo'[w] \subseteq todo[w] /\ todo'[w] # todo[w]
    BY <2>1
  <2> QED
    BY <2>1, <2>2 DEF Advances
<1>6. CASE SaveEmail(w) \/ SaveEmailFails(w)
  BY <1>6 DEF SaveEmail, SaveEmailFails, Advances, Phase
<1>7. CASE Fetch(w) \/ LoopEnds(w)
  BY <1>7 DEF Fetch, LoopEnds, Advances, Phase
<1>8. CASE PublishEmailBatch(w) \/ PublishLost(w)
  BY <1>8 DEF PublishEmailBatch, PublishLost, Advances, Phase
<1> QED
  BY <1>1, <1>2, <1>3, <1>4, <1>5, <1>6, <1>7, <1>8 DEF SyncStep

\* A cycle cannot go on for ever, nor can the graceful stop that waits for
\* it: whatever fails, and whoever delivers mail or changes the integrations
\* meanwhile, every step of a cycle takes a job from a queue that gets no new
\* one or brings the sync of one worker closer to its end
\* (syncer.go:29-113, sheduler.go:64-108).
THEOREM CycleAlwaysAdvances == Spec => CycleAdvances
<1> DEFINE Onward ==
      sched = "cycle" /\ sched' = "cycle" =>
        \/ UNCHANGED jobs /\ \A w \in Workers : Rests(w)
        \/ \E w \in Workers : Forward(w)
<1>1. TypeInv /\ [Next]_vars => [Onward]_vars
  <2> SUFFICES ASSUME TypeInv, Next, sched = "cycle", sched' = "cycle"
               PROVE  Onward
    OBVIOUS
  <2>1. CASE World
    BY <2>1 DEF World, Deliver, OwnerReads, OwnerMarksUnread, Midnight,
                CreateIntegration, DeleteIntegration, process, locals, Rests
  <2>2. CASE Scheduler
    BY <2>2 DEF Scheduler, SyncAll, ScanBreaks, ScanFails, CycleEnds, Sigterm, Halt, Crash, Dies,
                Restart, locals, Rests
  <2>3. ASSUME NEW w \in Workers, SyncStep(w) PROVE Onward
    <3>1. ~Panic(w)
      BY DEF Panic, Dies
    <3> QED
      BY <2>3, <3>1, ForwardSyncStep
  <2> QED
    BY <2>1, <2>2, <2>3 DEF Next
<1>2. Spec => [][Onward]_vars
  BY <1>1, TypeInvariant, PTL DEF Spec
<1> QED
  BY <1>2 DEF CycleAdvances

-----------------------------------------------------------------------------
(***************************************************************************)
(* What the analyzer may rely on.                                          *)
(***************************************************************************)
LEMMA BatchFinite ==
  ASSUME TypeInv, NEW w \in Workers
  PROVE  IsFiniteSet(batch[w]) /\ Cardinality(batch[w]) \in Nat
<1>1. Len(emails) \in Nat
  BY DEF TypeInv, TypeOK, TablesOK
<1>2. IsFiniteSet(Ids)
  BY <1>1, FS_Interval DEF Ids
<1>3. batch[w] \in SUBSET Ids
  BY DEF TypeInv, TypeOK, BatchesOK
<1> QED
  BY <1>2, <1>3, FS_Subset, FS_CardinalityType

\* The new row was in no batch, so the batch grows by one.
LEMMA SizeSaveEmail ==
  ASSUME TypeInv, BatchSizes, NEW w \in Workers, SaveEmail(w)
  PROVE  BatchSizes'
<1> USE MailSyncAssumption
<1> DEFINE full == batch[w] \cup {Len(emails) + 1}
<1>1. Len(emails) + 1 \notin batch[w]
  <2>1. job[w].id \in Integrations /\ msg[w] \in Messages
    BY DEF SaveEmail, At, TypeInv, Busy, Jobs
  <2>2. Len(emails) + 1 \notin Ids
    BY <2>1, NewRow DEF SaveEmail, Ids
  <2> QED
    BY <2>2 DEF TypeInv, TypeOK, BatchesOK
<1>2. Cardinality(full) = Cardinality(batch[w]) + 1
  BY <1>1, BatchFinite, FS_AddElement
<1>3. Cardinality(batch[w]) \in Nat /\ Cardinality(batch[w]) < MaxBatchSize
  BY BatchFinite DEF SaveEmail, At, BatchSizes
<1>4. /\ batch'[w] = full
      /\ pc'[w] = IF Cardinality(full) >= MaxBatchSize THEN "publish" ELSE "loop"
      /\ \A v \in Workers \ {w} : batch'[v] = batch[v] /\ pc'[v] = pc[v]
  BY DEF SaveEmail, Goto, TypeInv, TypeOK, LocalsOK, BatchesOK
<1> HIDE DEF full
<1> QED
  BY <1>2, <1>3, <1>4 DEF BatchSizes

LEMMA SizeSyncStep ==
  ASSUME TypeInv, EmptyHanded, BatchSizes, NEW w \in Workers, SyncStep(w)
  PROVE  BatchSizes'
<1> USE MailSyncAssumption DEF At, Goto, BatchSizes, TypeInv, TypeOK, LocalsOK, BatchesOK
<1>0. Cardinality({}) < MaxBatchSize
  BY FS_EmptySet
<1>1. CASE ConnectFails(w) \/ FetchFails(w) \/ PublishFails(w)
             \/ UpdateLastSync(w) \/ UpdateLastSyncFails(w)
  BY <1>1 DEF Return, ConnectFails, FetchFails, PublishFails, UpdateLastSync, UpdateLastSyncFails
<1>2. CASE TakeJob(w) \/ Search(w)
  BY <1>2 DEF TakeJob, Search
<1>3. CASE Fetch(w)
  <2>1. batch' = batch /\ batch[w] = {} /\ pc' = [pc EXCEPT ![w] = "loop"]
    BY <1>3 DEF Fetch, EmptyHanded
  <2> QED
    BY <1>0, <2>1
<1>4. ASSUME NEW m \in Messages, EmailExists(w, m) \/ EmailExistsFails(w, m) PROVE BatchSizes'
  BY <1>4 DEF EmailExists, EmailExistsFails
<1>5. CASE SaveEmail(w)
  BY <1>5, SizeSaveEmail
<1>6. CASE SaveEmailFails(w)
  BY <1>6 DEF SaveEmailFails
<1>7. CASE LoopEnds(w)
  <2>1. Cardinality(batch[w]) # 0 /\ Cardinality(batch[w]) \in Nat
    BY <1>7, BatchFinite, FS_EmptySet DEF LoopEnds
  <2> QED
    BY <1>7, <2>1 DEF LoopEnds
<1>8. CASE PublishEmailBatch(w) \/ PublishLost(w)
  <2>1. /\ batch'[w] = {} /\ pc'[w] \in {"loop", "update"}
        /\ \A v \in Workers \ {w} : batch'[v] = batch[v] /\ pc'[v] = pc[v]
    BY <1>8 DEF PublishEmailBatch, PublishLost
  <2> QED
    BY <1>0, <2>1
<1>9. CASE Panic(w)
  BY <1>9 DEF Panic, Dies
<1> QED
  BY <1>1, <1>2, <1>3, <1>4, <1>5, <1>6, <1>7, <1>8, <1>9 DEF SyncStep

LEMMA SizeInvariant == Spec => []BatchSizes
<1>1. Init => BatchSizes
  BY DEF Init, BatchSizes
<1>2. TypeInv /\ EmptyHanded /\ BatchSizes /\ [Next]_vars => BatchSizes'
  <2> SUFFICES ASSUME TypeInv, EmptyHanded, BatchSizes, [Next]_vars PROVE BatchSizes'
    OBVIOUS
  <2>1. CASE (World \/ Scheduler \/ UNCHANGED vars) /\ ~Crash
    BY <2>1, HandsOff DEF locals, BatchSizes
  <2>2. CASE Crash
    BY <2>2 DEF Crash, Dies, BatchSizes
  <2>3. ASSUME NEW w \in Workers, SyncStep(w) PROVE BatchSizes'
    BY <2>3, SizeSyncStep
  <2> QED
    BY <2>1, <2>2, <2>3 DEF Next
<1> QED
  BY <1>1, <1>2, TypeInvariant, HandsInvariant, PTL DEF Spec

LEMMA RowsAppear ==
  ASSUME TypeInv, NEW w \in Workers, SaveEmail(w) \/ SaveEmailFails(w)
  PROVE  [RE!Next]_(RE!vars)
<1>1. UNCHANGED sent
  BY DEF SaveEmail, SaveEmailFails
<1>2. Row(job[w].id, msg[w]) \in Rows
  BY RowType DEF SaveEmail, SaveEmailFails, At, TypeInv, Busy, Jobs
<1>3. emails' = emails \/ emails' = Append(emails, Row(job[w].id, msg[w]))
  BY DEF SaveEmail, SaveEmailFails
<1> QED
  BY <1>1, <1>2, <1>3 DEF RE!Next, RE!Save, RE!vars

LEMMA BatchesAppear ==
  ASSUME TypeInv, SentOnce, BatchSizes, NEW w \in Workers, PublishEmailBatch(w)
  PROVE  RE!Publish
<1>1. batch[w] \in SUBSET (1 .. Len(emails))
  BY DEF TypeInv, TypeOK, BatchesOK, Ids
<1>2. Cardinality(batch[w]) \in 1 .. MaxBatchSize
  BY DEF PublishEmailBatch, BatchSizes
<1>3. \A p \in DOMAIN sent : sent[p] \cap batch[w] = {}
  BY DEF SentOnce
<1>4. sent' = Append(sent, batch[w]) /\ UNCHANGED emails
  BY DEF PublishEmailBatch, tables
<1>5. RE!Cardinality(batch[w]) = Cardinality(batch[w])
  BY DEF RE!Cardinality, Cardinality
<1> QED
  BY <1>1, <1>2, <1>3, <1>4, <1>5 DEF RE!Publish

\* All that core does amounts, for those who read the exchange, to adding rows
\* and publishing batches of one to maxBatchSize rows never published before,
\* for any workers, mailboxes, faults and restarts (syncer.go:75-107,
\* producer.go:40-43).
THEOREM CoreKeepsPromise == Spec => BatchesAsPromised
<1>1. Init => RE!Init
  BY DEF Init, RE!Init
<1>2. TypeInv /\ SentOnce /\ BatchSizes /\ [Next]_vars => [RE!Next]_(RE!vars)
  <2> SUFFICES ASSUME TypeInv, SentOnce, BatchSizes, [Next]_vars
               PROVE  [RE!Next]_(RE!vars)
    OBVIOUS
  <2>1. CASE UNCHANGED <<emails, sent>>
    BY <2>1 DEF RE!vars
  <2>2. CASE World \/ Scheduler \/ UNCHANGED vars
    <3>1. UNCHANGED <<emails, sent>>
      BY <2>2, HandsOff DEF Crash, Dies, tables
    <3> QED
      BY <3>1, <2>1
  <2>3. ASSUME NEW w \in Workers, SyncStep(w) PROVE [RE!Next]_(RE!vars)
    <3>1. CASE SaveEmail(w) \/ SaveEmailFails(w)
      BY <3>1, RowsAppear
    <3>2. CASE PublishEmailBatch(w)
      BY <3>2, BatchesAppear DEF RE!Next
    <3>3. CASE ~SaveEmail(w) /\ ~SaveEmailFails(w) /\ ~PublishEmailBatch(w)
      <4>1. UNCHANGED <<emails, sent>>
        BY <2>3, <3>3 DEF SyncStep, TakeJob, ConnectFails, Search, Fetch, FetchFails,
           EmailExists, EmailExistsFails, LoopEnds, Panic, Dies, PublishFails, PublishLost,
           UpdateLastSync, UpdateLastSyncFails, tables
      <4> QED
        BY <2>1, <4>1
    <3> QED
      BY <3>1, <3>2, <3>3
  <2> QED
    BY <2>2, <2>3 DEF Next
<1> QED
  BY <1>1, <1>2, TypeInvariant, NeverSentTwice, SizeInvariant, PTL
  DEF Spec, BatchesAsPromised, RE!Spec
-----------------------------------------------------------------------------
(***************************************************************************)
(* The order of the scans.                                                 *)
(***************************************************************************)
\* Next to an integration that was never synced, no rank is the lowest one.
LEMMA RankAboveNull ==
  ASSUME TablesOK, SyncOrder, NEW i \in Integrations, NEW j \in Integrations,
         recency[i] = 0, recency[j] # 0
  PROVE  recency[j] >= 2
<1> DEFINE N == Cardinality(Integrations)
<1>1. Later(j) \subseteq (Integrations \ {i}) \ {j}
  BY RanksNat DEF Later, TablesOK, Ranks
<1>2. /\ IsFiniteSet(Integrations \ {i})
      /\ Cardinality(Integrations \ {i}) = N - 1
  BY FS_RemoveElement, MailSyncAssumption
<1>3. /\ IsFiniteSet((Integrations \ {i}) \ {j})
      /\ Cardinality((Integrations \ {i}) \ {j}) = N - 2
  <2>1. j \in Integrations \ {i}
    OBVIOUS
  <2>2. /\ IsFiniteSet((Integrations \ {i}) \ {j})
        /\ Cardinality((Integrations \ {i}) \ {j}) = Cardinality(Integrations \ {i}) - 1
    BY <1>2, <2>1, FS_RemoveElement
  <2> HIDE DEF N
  <2>3. N \in Nat
    BY RanksNat DEF N
  <2> QED
    BY <1>2, <2>2, <2>3
<1>4. Cardinality(Later(j)) <= N - 2 /\ Cardinality(Later(j)) \in Nat
  BY <1>1, <1>3, FS_Subset, FS_CardinalityType
<1>5. recency[j] + Cardinality(Later(j)) = N /\ recency[j] \in Nat
  BY DEF SyncOrder, TablesOK, Ranks
<1> QED
  BY <1>4, <1>5, RanksNat

\* What an UPDATE of last_sync_at does to the ranks.
LEMMA TouchRanks ==
  ASSUME TablesOK, SyncOrder, today \in 0 .. MaxDay,
         NEW t \in Integrations, account[t] = "active", Touch(t)
  PROVE  /\ recency'[t] = Cardinality(Integrations) /\ recency'[t] # 0
         /\ syncDay'[t] # Never
         /\ \A j \in Integrations \ {t} :
              /\ syncDay'[j] = syncDay[j]
              /\ recency[j] > recency[t] => recency'[j] = recency[j] - 1
              /\ ~(recency[j] > recency[t]) => recency'[j] = recency[j]
              /\ recency'[j] < Cardinality(Integrations)
              /\ recency[j] # 0 => recency'[j] # 0
<1> DEFINE N == Cardinality(Integrations)
<1>1. N \in Nat /\ N # 0
  <2>1. Integrations # {}
    OBVIOUS
  <2> QED
    BY <2>1, FS_EmptySet, RanksNat, MailSyncAssumption
<1>2. \A j \in Integrations : recency[j] \in 0 .. N
  BY DEF TablesOK, Ranks
<1>3. recency'[t] = N /\ syncDay'[t] = today
  BY DEF Touch, TablesOK
<1>4. today # Never
  BY DEF Never
<1>5. ASSUME NEW j \in Integrations \ {t}
      PROVE  /\ syncDay'[j] = syncDay[j]
             /\ recency[j] > recency[t] => recency'[j] = recency[j] - 1
             /\ ~(recency[j] > recency[t]) => recency'[j] = recency[j]
  BY DEF Touch, TablesOK
<1>6. ASSUME NEW j \in Integrations \ {t}
      PROVE  /\ recency'[j] < N
             /\ recency[j] # 0 => recency'[j] # 0
  <2>1. recency[j] = recency[t] => recency[j] = 0
    BY <1>6 DEF SyncOrder
  <2>2. recency[t] = 0 /\ recency[j] # 0 => recency[j] >= 2
    BY RankAboveNull
  <2> HIDE DEF N
  <2> QED
    BY <1>1, <1>2, <1>5, <2>1, <2>2
<1> QED
  BY <1>1, <1>3, <1>4, <1>5, <1>6

\* Who may come before whom after it: what came before it already.
LEMMA TouchKeepsOrder ==
  ASSUME TablesOK, SyncOrder, today \in 0 .. MaxDay,
         NEW t \in Integrations, account[t] = "active", Touch(t),
         NEW i \in Integrations \ {t}, NEW j \in Integrations
  PROVE  /\ j # t /\ recency[j] > recency[i] => recency'[j] > recency'[i]
         /\ j # t /\ recency[j] <= recency[i] => recency'[j] <= recency'[i]
<1>1. CASE j = t
  BY <1>1
<1>2. CASE j # t
  <2>1. /\ recency[i] \in Nat /\ recency[j] \in Nat /\ recency[t] \in Nat
    BY DEF TablesOK, Ranks
  <2>2. /\ recency[j] > recency[t] => recency'[j] = recency[j] - 1
        /\ ~(recency[j] > recency[t]) => recency'[j] = recency[j]
        /\ recency[i] > recency[t] => recency'[i] = recency[i] - 1
        /\ ~(recency[i] > recency[t]) => recency'[i] = recency[i]
    BY <1>2, TouchRanks
  <2>3. recency[i] = recency[t] => recency[i] = 0
    BY DEF SyncOrder
  <2>4. recency[t] = 0 /\ recency[j] # 0 => recency[j] >= 2
    BY RankAboveNull
  <2> QED
    BY <2>1, <2>2, <2>3, <2>4
<1> QED
  BY <1>1, <1>2

LEMMA TouchOrder ==
  ASSUME TablesOK, SyncOrder, today \in 0 .. MaxDay,
         NEW t \in Integrations, account[t] = "active", Touch(t)
  PROVE  SyncOrder'
<1> DEFINE N == Cardinality(Integrations)
<1>0. /\ \A j \in Integrations : recency[j] \in 0 .. N
      /\ \A j \in Integrations : recency'[j] \in 0 .. N
      /\ N \in Nat
  BY TouchType, RanksNat DEF TablesOK, Ranks
<1>1. \A i \in Integrations : recency'[i] = 0 <=> syncDay'[i] = Never
  <2> SUFFICES ASSUME NEW i \in Integrations PROVE recency'[i] = 0 <=> syncDay'[i] = Never
    OBVIOUS
  <2>1. CASE i = t
    BY <2>1, TouchRanks
  <2>2. CASE i # t
    BY <1>0, <2>2, TouchRanks DEF SyncOrder
  <2> QED
    BY <2>1, <2>2
<1>2. \A i, j \in Integrations : recency'[i] = recency'[j] /\ recency'[i] # 0 => i = j
  <2>1. ASSUME NEW i \in Integrations \ {t}, NEW j \in Integrations \ {t},
               recency'[i] = recency'[j], recency'[i] # 0
        PROVE  i = j
    <3>1. ~(recency[j] > recency[i]) /\ ~(recency[i] > recency[j])
      BY <1>0, <2>1, TouchKeepsOrder
    <3>2. recency[i] = recency[j] /\ recency[i] # 0
      BY <1>0, <2>1, <3>1, TouchRanks
    <3> QED
      BY <3>2 DEF SyncOrder
  <2>2. \A i \in Integrations \ {t} : recency'[i] # recency'[t]
    BY <1>0, TouchRanks
  <2> QED
    BY <2>1, <2>2
<1>3. ASSUME NEW i \in Integrations, recency'[i] # 0
      PROVE  recency'[i] + Cardinality(Later(i)') = N
  <2>1. CASE i = t
    <3>1. Later(i)' = {}
      BY <1>0, <2>1, TouchRanks DEF Later
    <3> QED
      BY <1>0, <2>1, <3>1, TouchRanks, FS_EmptySet
  <2>2. CASE i # t
    <3>1. recency[i] # 0 /\ recency[i] + Cardinality(Later(i)) = N
      <4>1. recency[i] # 0
        BY <1>0, <1>3, <2>2, TouchRanks
      <4> QED
        BY <4>1 DEF SyncOrder
    <3>2. IsFiniteSet(Later(i)) /\ Cardinality(Later(i)) \in Nat
      BY FS_Subset, FS_CardinalityType, MailSyncAssumption DEF Later
    <3>3. Later(i)' = Later(i) \cup {t}
      <4>1. t \in Later(i)'
        BY <2>2, TouchRanks DEF Later
      <4>2. ASSUME NEW j \in Integrations, j # t
            PROVE  recency'[j] > recency'[i] <=> recency[j] > recency[i]
        BY <1>0, <2>2, <4>2, TouchKeepsOrder
      <4> QED
        BY <4>1, <4>2 DEF Later
    <3>4. Cardinality(Later(i)') =
            IF t \in Later(i) THEN Cardinality(Later(i)) ELSE Cardinality(Later(i)) + 1
      BY <3>2, <3>3, FS_AddElement
    <3>5. t \in Later(i) <=> recency[t] > recency[i]
      BY DEF Later
    <3>6. recency[i] # recency[t]
      BY <2>2, <3>1 DEF SyncOrder
    <3>7. recency'[i] = IF recency[i] > recency[t] THEN recency[i] - 1 ELSE recency[i]
      BY <2>2, TouchRanks
    <3> HIDE DEF N
    <3> QED
      BY <1>0, <3>1, <3>2, <3>4, <3>5, <3>6, <3>7
  <2> QED
    BY <2>1, <2>2
<1> QED
  BY <1>1, <1>2, <1>3 DEF SyncOrder

\* last_sync_at is written by the end of a sync and by nothing else.
Touches(w) ==
  /\ UpdateLastSync(w) \/ UpdateLastSyncFails(w)
  /\ job[w].id \in Integrations
  /\ account[job[w].id] = "active"
  /\ Touch(job[w].id)

LEMMA TouchSteps ==
  ASSUME TypeInv, [Next]_vars
  PROVE  UNCHANGED <<recency, syncDay>> \/ \E w \in Workers : Touches(w)
<1>1. CASE World \/ UNCHANGED vars
  BY <1>1 DEF World, Deliver, OwnerReads, OwnerMarksUnread, Midnight, CreateIntegration,
              DeleteIntegration, vars, tables
<1>2. CASE Scheduler
  BY <1>2 DEF Scheduler, SyncAll, ScanBreaks, ScanFails, CycleEnds, Sigterm, Halt, Crash, Dies, Restart,
              tables
<1>3. ASSUME NEW w \in Workers, SyncStep(w)
      PROVE  UNCHANGED <<recency, syncDay>> \/ Touches(w)
  <2>1. CASE UpdateLastSync(w) \/ UpdateLastSyncFails(w)
    <3>1. job[w].id \in Integrations
      BY <2>1 DEF UpdateLastSync, UpdateLastSyncFails, At, TypeInv, Busy, Jobs
    <3>2. Touch(job[w].id) \/ UNCHANGED <<recency, syncDay>>
      BY <2>1 DEF UpdateLastSync, UpdateLastSyncFails
    <3> QED
      BY <2>1, <3>1, <3>2 DEF Touches, Touch
  <2>2. CASE ~(UpdateLastSync(w) \/ UpdateLastSyncFails(w))
    BY <1>3, <2>2 DEF SyncStep, TakeJob, ConnectFails, Search, Fetch, FetchFails, EmailExists,
         EmailExistsFails, SaveEmail, SaveEmailFails, LoopEnds, Panic, Dies,
         PublishEmailBatch, PublishFails, PublishLost, tables
  <2> QED
    BY <2>1, <2>2
<1> QED
  BY <1>1, <1>2, <1>3 DEF Next

LEMMA OrderStep == TypeInv /\ SyncOrder /\ [Next]_vars => SyncOrder'
<1> SUFFICES ASSUME TypeInv, SyncOrder, [Next]_vars PROVE SyncOrder'
  OBVIOUS
<1>1. CASE UNCHANGED <<recency, syncDay>>
  BY <1>1 DEF SyncOrder, Later
<1>2. ASSUME NEW w \in Workers, Touches(w) PROVE SyncOrder'
  BY <1>2, TouchOrder DEF Touches, TypeInv, TypeOK
<1> QED
  BY <1>1, <1>2, TouchSteps

\* The order in which the scans list the integrations is the order of their
\* last syncs, through failed updates, deletions and restarts
\* (database.go:88-92, 113-117).
THEOREM ScansInSyncOrder == Spec => []SyncOrder
<1>1. Init => SyncOrder
  BY DEF Init, SyncOrder
<1> QED
  BY <1>1, OrderStep, TypeInvariant, PTL DEF Spec

LEMMA ActiveSteps ==
  ASSUME TypeInv, [Next]_vars
  PROVE  /\ Active' \subseteq Active \cup {j \in Integrations : account[j] = "new"}
         /\ \A w \in Workers : UpdateLastSync(w) \/ Touches(w) => UNCHANGED account
<1>1. UNCHANGED account \/ \E i \in Integrations : CreateIntegration(i) \/ DeleteIntegration(i)
  BY DEF Next, World, Deliver, OwnerReads, OwnerMarksUnread, Midnight, vars, tables,
         Scheduler, SyncAll, ScanBreaks, ScanFails, CycleEnds, Sigterm, Halt, Crash, Dies, Restart,
         SyncStep, TakeJob, ConnectFails, Search, Fetch, FetchFails, EmailExists,
         EmailExistsFails, SaveEmail, SaveEmailFails, LoopEnds, Panic, PublishEmailBatch,
         PublishFails, PublishLost, UpdateLastSync, UpdateLastSyncFails
<1>2. Active' \subseteq Active \cup {j \in Integrations : account[j] = "new"}
  BY <1>1 DEF Active, CreateIntegration, DeleteIntegration, TypeInv, TypeOK, TablesOK
<1> QED
  BY <1>2 DEF UpdateLastSync, UpdateLastSyncFails, Touches

\* A scan that leaves an integration out is full of others before it.
LEMMA ScanInTurn ==
  ASSUME TypeInv, NEW i \in Active, SyncAll
  PROVE  \/ \E k \in DOMAIN jobs' : jobs'[k].id = i
         \/ /\ Len(jobs') = ScanLimit
            /\ \A k \in DOMAIN jobs' : jobs'[k].id \in Before(i)
<1>1. PICK s \in Scans :
        /\ ScanResult(s)
        /\ jobs' = [k \in DOMAIN s |-> [id |-> s[k], since |-> syncDay[s[k]]]]
  BY DEF SyncAll, Dispatch
<1>2. PICK n \in Nat : s \in [1 .. n -> Integrations]
  BY <1>1 DEF Scans
<1>3. /\ DOMAIN s = 1 .. n /\ DOMAIN jobs' = 1 .. n
      /\ Len(s) = n /\ Len(jobs') = n
      /\ \A k \in 1 .. n : jobs'[k].id = s[k] /\ s[k] \in Integrations
  BY <1>1, <1>2
<1>4. CASE \E k \in 1 .. n : s[k] = i
  BY <1>3, <1>4
<1>5. CASE \A k \in 1 .. n : s[k] # i
  <2>1. n = ScanLimit
    BY <1>1, <1>3, <1>5 DEF ScanResult
  <2>2. \A k \in 1 .. n : s[k] \in Active /\ recency[s[k]] <= recency[i]
    BY <1>1, <1>3, <1>5 DEF ScanResult, FirstRows
  <2>3. \A k \in 1 .. n : s[k] \in Before(i)
    BY <1>5, <2>2 DEF Before
  <2> QED
    BY <1>3, <2>1, <2>3
<1> QED
  BY <1>4, <1>5

\* Until an integration is synced, nothing but a new one gets before it, each
\* one synced goes behind it, and every cycle takes it or is full of those
\* before it, for any LIMIT and number of workers: the part of the scan's
\* fairness that needs no assumption (database.go:88-92, 113-117).
THEOREM NobodyOvertakes == Spec => NoOvertaking
<1> DEFINE New == {j \in Integrations : account[j] = "new"}
           N == Cardinality(Integrations)
           Behind(w, i) == UpdateLastSync(w) /\ job[w].id # i => job[w].id \notin Before(i)'
           Turn(i) == SyncAll /\ i \in Active =>
                        \/ \E k \in DOMAIN jobs' : jobs'[k].id = i
                        \/ /\ Len(jobs') = ScanLimit
                           /\ \A k \in DOMAIN jobs' : jobs'[k].id \in Before(i)
           Waits(i) == \/ recency[i] < N /\ recency'[i] = N
                       \/ /\ Before(i)' \subseteq Before(i) \cup New
                          /\ \A w \in Workers : Behind(w, i)
                          /\ Turn(i)
           InOrder == \A i \in Integrations : Waits(i)
<1>1. TypeInv /\ SyncOrder /\ [Next]_vars => [InOrder]_vars
  <2> SUFFICES ASSUME TypeInv, SyncOrder, [Next]_vars, NEW i \in Integrations,
                      ~(recency[i] < N /\ recency'[i] = N)
               PROVE  /\ Before(i)' \subseteq Before(i) \cup New
                      /\ \A w \in Workers : Behind(w, i)
                      /\ Turn(i)
    OBVIOUS
  <2>0. TablesOK /\ today \in 0 .. MaxDay
    BY DEF TypeInv, TypeOK
  <2>1. ASSUME UNCHANGED recency PROVE Before(i)' \subseteq Before(i) \cup New
    BY <2>1, ActiveSteps DEF Before, Active
  <2>2. ASSUME NEW t \in Integrations, account[t] = "active", Touch(t), UNCHANGED account
        PROVE  /\ Before(i)' \subseteq Before(i) \cup New
               /\ t # i => t \notin Before(i)'
    <3>1. CASE t = i
      <4>1. recency[i] = N
        BY <2>0, <2>2, <3>1, TouchRanks, RanksNat DEF TablesOK, Ranks
      <4>2. \A j \in Integrations : recency'[j] = recency[j]
        BY <2>0, <2>2, <3>1, <4>1, TouchRanks, RanksNat DEF TablesOK, Ranks
      <4> QED
        BY <2>2, <3>1, <4>2 DEF Before, Active
    <3>2. CASE t # i
      <4>1. t \notin Before(i)'
        <5>1. recency'[t] = N /\ recency'[i] < N
          BY <2>0, <2>2, <3>2, TouchRanks
        <5>2. recency'[i] \in Nat
          BY <2>0, <2>2, TouchType, RanksNat DEF Ranks
        <5> QED
          BY <5>1, <5>2, RanksNat DEF Before
      <4>2. ASSUME NEW j \in Before(i)' PROVE j \in Before(i)
        <5>1. j # t /\ j \in Active \ {i} /\ recency'[j] <= recency'[i]
          BY <2>2, <4>1, <4>2 DEF Before, Active
        <5>2. recency'[i] \in Nat /\ recency'[j] \in Nat /\ recency[i] \in Nat /\ recency[j] \in Nat
          BY <2>0, <2>2, <5>1, TouchType, RanksNat DEF TablesOK, Ranks, Active
        <5>3. ~(recency[j] > recency[i])
          BY <2>0, <2>2, <3>2, <5>1, <5>2, TouchKeepsOrder DEF Active
        <5> QED
          BY <5>1, <5>2, <5>3 DEF Before
      <4> QED
        BY <4>1, <4>2
    <3> QED
      BY <3>1, <3>2
  <2>3. Before(i)' \subseteq Before(i) \cup New
    <3>1. ASSUME NEW w \in Workers, Touches(w) PROVE Before(i)' \subseteq Before(i) \cup New
      BY <2>2, <3>1, ActiveSteps DEF Touches
    <3> QED
      BY <2>1, <3>1, TouchSteps
  <2>4. ASSUME NEW w \in Workers, UpdateLastSync(w), job[w].id # i
        PROVE  job[w].id \notin Before(i)'
    <3>1. job[w].id \in Integrations /\ Touch(job[w].id) /\ UNCHANGED account
      BY <2>4, ActiveSteps DEF UpdateLastSync, At, TypeInv, Busy, Jobs
    <3>2. CASE account[job[w].id] = "active"
      BY <2>2, <2>4, <3>1, <3>2
    <3>3. CASE account[job[w].id] # "active"
      BY <3>1, <3>3 DEF Before, Active
    <3> QED
      BY <3>2, <3>3
  <2>5. Turn(i)
    BY ScanInTurn
  <2> QED
    BY <2>3, <2>4, <2>5
<1>2. Spec => [][InOrder]_vars
  BY <1>1, TypeInvariant, ScansInSyncOrder, PTL DEF Spec
<1> QED
  BY <1>2 DEF NoOvertaking
=============================================================================
