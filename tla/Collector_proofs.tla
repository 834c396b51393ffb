-------------------------- MODULE Collector_proofs --------------------------
(***************************************************************************)
(* Proofs about Collector, for any number of instances and messages, any   *)
(* prefetch count and any combination of faults.                           *)
(***************************************************************************)
EXTENDS Collector, SequenceTheorems, TLAPS

LEMMA NewTaskType ==
  ASSUME NEW e \in Emails
  PROVE  [email |-> e, status |-> "pending"] \in Tasks
BY DEF Tasks, Statuses

\* What the INSERT does to the table.
LEMMA InsertEffect ==
  ASSUME tasks \in Seq(Tasks), NEW e \in Emails, Insert(e)
  PROVE  /\ tasks' \in Seq(Tasks)
         /\ Rows \subseteq Rows'
         /\ \A k \in Rows : tasks'[k] = tasks[k]
         /\ \A k \in Rows' \ Rows : /\ k = Len(tasks) + 1
                                    /\ tasks'[k].email = e
                                    /\ ~HasTask(e)
         /\ ~HasTask(e) => Len(tasks) + 1 \in Rows' \ Rows
<1>1. CASE HasTask(e)
  BY <1>1 DEF Insert, Rows
<1>2. CASE ~HasTask(e)
  <2> DEFINE row == [email |-> e, status |-> "pending"]
  <2>1. tasks' = Append(tasks, row)
    BY <1>2 DEF Insert
  <2>2. row \in Tasks
    BY NewTaskType
  <2> HIDE DEF row
  <2>3. /\ tasks' \in Seq(Tasks)
        /\ Len(tasks') = Len(tasks) + 1
        /\ Len(tasks) \in Nat
        /\ \A k \in 1 .. Len(tasks) : tasks'[k] = tasks[k]
        /\ tasks'[Len(tasks) + 1] = row
    BY <2>1, <2>2
  <2>4. /\ Rows' = Rows \cup {Len(tasks) + 1}
        /\ Len(tasks) + 1 \notin Rows
    BY <2>3 DEF Rows
  <2>5. row.email = e
    BY DEF row
  <2> QED
    BY <1>2, <2>3, <2>4, <2>5 DEF Rows
<1> QED
  BY <1>1, <1>2

\* What a user's request does to the table.
LEMMA SetStatusEffect ==
  ASSUME tasks \in Seq(Tasks), NEW k \in Rows,
         NEW s \in Statuses \cup {"deleted"}, SetStatus(k, s)
  PROVE  /\ tasks' \in Seq(Tasks)
         /\ Rows' = Rows
         /\ \A l \in Rows : tasks'[l].email = tasks[l].email
         /\ Live' \subseteq Live
<1>1. tasks' = [tasks EXCEPT ![k].status = s] /\ k \in Live
  BY DEF SetStatus
<1>2. /\ Len(tasks) \in Nat
      /\ tasks \in [1 .. Len(tasks) -> Tasks]
  OBVIOUS
<1>3. k \in 1 .. Len(tasks)
  BY DEF Rows
<1>4. tasks[k] \in Tasks
  BY <1>2, <1>3
<1>5. [tasks[k] EXCEPT !.status = s] \in Tasks
  BY <1>4 DEF Tasks
<1>6. tasks' \in [1 .. Len(tasks) -> Tasks]
  BY <1>1, <1>2, <1>3, <1>5
<1>7. /\ tasks' \in Seq(Tasks)
      /\ Len(tasks') = Len(tasks)
  BY <1>2, <1>6
<1>8. Rows' = Rows
  BY <1>7 DEF Rows
<1>9. \A l \in Rows : tasks'[l].email = tasks[l].email
  <2> SUFFICES ASSUME NEW l \in Rows PROVE tasks'[l].email = tasks[l].email
    OBVIOUS
  <2>1. l \in 1 .. Len(tasks) /\ tasks[l] \in Tasks
    BY <1>2 DEF Rows
  <2>2. CASE l = k
    BY <1>1, <1>2, <1>4, <2>1, <2>2 DEF Tasks
  <2>3. CASE l # k
    BY <1>1, <1>2, <2>1, <2>3
  <2> QED
    BY <2>2, <2>3
<1>10. Live' \subseteq Live
  <2> SUFFICES ASSUME NEW l \in Live', l # k PROVE l \in Live
    BY <1>1
  <2>1. l \in Rows /\ tasks'[l] = tasks[l]
    BY <1>1, <1>2, <1>8 DEF Live, Rows
  <2> QED
    BY <2>1 DEF Live
<1> QED
  BY <1>7, <1>8, <1>9, <1>10

\* The requests are status changes.
LEMMA Requests ==
  ASSUME NEW k \in Rows, UpdateTask(k) \/ CompleteTask(k) \/ DeleteTask(k)
  PROVE  \E s \in Statuses \cup {"deleted"} : SetStatus(k, s)
BY DEF UpdateTask, CompleteTask, DeleteTask, Statuses

-----------------------------------------------------------------------------
(***************************************************************************)
(* Type correctness.                                                       *)
(***************************************************************************)
LEMMA TypeInit == Init => TypeOK
<1> SUFFICES ASSUME Init PROVE TypeOK
  OBVIOUS
<1>1. tasks \in Seq(Tasks)
  BY EmptySeq DEF Init
<1> QED
  BY <1>1, CollectorAssumption DEF Init, TypeOK, Places, PCs

LEMMA TypeStep == TypeOK /\ [Next]_vars => TypeOK'
<1> SUFFICES ASSUME TypeOK, [Next]_vars PROVE TypeOK'
  OBVIOUS
<1> USE CollectorAssumption DEF TypeOK
<1>1. ASSUME NEW m \in Messages, Publish(m) PROVE TypeOK'
  BY <1>1 DEF Publish, Places, process, history
<1>2. ASSUME NEW c \in Consumers, NEW m \in Messages, Deliver(c, m) PROVE TypeOK'
  BY <1>2 DEF Deliver, history
<1>3. ASSUME NEW c \in Consumers, Handle(c) PROVE TypeOK'
  <2>1. ASSUME NEW m \in Messages, Take(c, m) PROVE TypeOK'
    BY <2>1 DEF Take, At, Goto, PCs, history
  <2>2. CASE LoopEnds(c)
    BY <2>2 DEF LoopEnds, At, Goto, PCs, history
  <2>3. CASE TaskExists(c)
    BY <2>3 DEF TaskExists, At, Goto, PCs, history
  <2>4. CASE TaskExistsFails(c)
    BY <2>4 DEF TaskExistsFails, At, Goto, PCs
  <2>5. CASE CreateTask(c)
    <3>1. Email[cur[c]] \in Emails
      BY <2>5 DEF CreateTask, At
    <3>2. tasks' \in Seq(Tasks)
      BY <2>5, <3>1, InsertEffect DEF CreateTask
    <3> QED
      BY <2>5, <3>2 DEF CreateTask, At, Goto, PCs, history
  <2>6. CASE CreateTaskFails(c)
    <3>1. Email[cur[c]] \in Emails
      BY <2>6 DEF CreateTaskFails, At
    <3>2. tasks' \in Seq(Tasks)
      BY <2>6, <3>1, InsertEffect DEF CreateTaskFails
    <3> QED
      BY <2>6, <3>2 DEF CreateTaskFails, At, Goto, PCs
  <2>7. CASE Ack(c)
    BY <2>7 DEF Ack, At, Goto, PCs, Places, history
  <2>8. CASE Nack(c)
    BY <2>8 DEF Nack, At, Goto, PCs, Places, history
  <2> QED
    BY <1>3, <2>1, <2>2, <2>3, <2>4, <2>5, <2>6, <2>7, <2>8 DEF Handle
<1>4. ASSUME NEW c \in Consumers, ChannelCloses(c) PROVE TypeOK'
  BY <1>4 DEF ChannelCloses, Requeue, Places
<1>5. ASSUME NEW c \in Consumers, Sigterm(c) PROVE TypeOK'
  BY <1>5 DEF Sigterm
<1>6. ASSUME NEW c \in Consumers, Exit(c) \/ Crash(c) PROVE TypeOK'
  <2>1. Gone(c) /\ breaks' \in 0 .. MaxBreaks
    BY <1>6 DEF Exit, Crash
  <2>2. place' \in [Messages -> Places \cup Consumers]
    BY <2>1 DEF Gone, Requeue, Places
  <2>3. /\ pc' \in [Consumers -> PCs]
        /\ pc'[c] = "down"
        /\ \A d \in Consumers \ {c} : pc'[d] = pc[d]
    BY <2>1 DEF Gone, Goto, PCs
  <2>4. /\ cur' \in [Consumers -> Messages \cup {None}]
        /\ \A d \in Consumers \ {c} : cur'[d] = cur[d]
    BY <2>1 DEF Gone
  <2> QED
    BY <2>1, <2>2, <2>3, <2>4 DEF Gone
<1>7. ASSUME NEW c \in Consumers, Restart(c) PROVE TypeOK'
  BY <1>7 DEF Restart, At, Goto, PCs, history
<1>8. ASSUME NEW k \in Rows, UpdateTask(k) \/ CompleteTask(k) \/ DeleteTask(k)
      PROVE TypeOK'
  <2>1. PICK s \in Statuses \cup {"deleted"} : SetStatus(k, s)
    BY <1>8, Requests
  <2>2. tasks' \in Seq(Tasks)
    BY <2>1, SetStatusEffect
  <2> QED
    BY <2>1, <2>2 DEF SetStatus, process, history
<1>9. CASE UNCHANGED vars
  BY <1>9 DEF vars, process, history
<1> QED
  BY <1>1, <1>2, <1>3, <1>4, <1>5, <1>6, <1>7, <1>8, <1>9 DEF Next, Service, Request

\* The variables keep their types, and a handler always has its message.
THEOREM TypeCorrect == Spec => []TypeOK
<1>1. Init => TypeOK
  BY TypeInit
<1>2. TypeOK /\ [Next]_vars => TypeOK'
  BY TypeStep
<1> QED
  BY <1>1, <1>2, PTL DEF Spec

-----------------------------------------------------------------------------
(***************************************************************************)
(* What a step does to the table: the users' requests change statuses and  *)
(* nothing else, and every row more is an INSERT of a handler.             *)
(***************************************************************************)
Inserts(c) ==
  /\ pc[c] = "insert"
  /\ Insert(Email[cur[c]])
  /\ CreateTask(c) \/ CreateTaskFails(c)

LEMMA TableSteps ==
  ASSUME TypeOK, [Next]_vars
  PROVE  \/ UNCHANGED <<tasks, asked>>
         \/ \E c \in Consumers : Inserts(c)
         \/ /\ UNCHANGED <<place, process, failed, breaks>>
            /\ \E k \in Rows, s \in Statuses \cup {"deleted"} : SetStatus(k, s)
<1>1. ASSUME NEW c \in Consumers, Handle(c)
      PROVE  UNCHANGED <<tasks, asked>> \/ Inserts(c)
  BY <1>1 DEF Handle, Inserts, Take, LoopEnds, TaskExists, TaskExistsFails,
              CreateTask, CreateTaskFails, Ack, Nack, At, history
<1>2. ASSUME NEW c \in Consumers,
             \/ ChannelCloses(c) \/ Sigterm(c) \/ Exit(c) \/ Crash(c) \/ Restart(c)
             \/ \E m \in Messages : Publish(m) \/ Deliver(c, m)
      PROVE  UNCHANGED <<tasks, asked>>
  BY <1>2 DEF ChannelCloses, Sigterm, Exit, Crash, Gone, Restart, Publish, Deliver, history
<1>3. ASSUME NEW m \in Messages, Publish(m) PROVE UNCHANGED <<tasks, asked>>
  BY <1>3 DEF Publish, history
<1>4. ASSUME NEW k \in Rows, UpdateTask(k) \/ CompleteTask(k) \/ DeleteTask(k)
      PROVE  /\ UNCHANGED <<place, process, failed, breaks>>
             /\ \E s \in Statuses \cup {"deleted"} : SetStatus(k, s)
  BY <1>4, Requests DEF SetStatus
<1>5. CASE UNCHANGED vars
  BY <1>5 DEF vars, history
<1> QED
  BY <1>1, <1>2, <1>3, <1>4, <1>5 DEF Next, Service, Request

\* A row keeps its email for ever.
LEMMA RowsStay ==
  ASSUME TypeOK, [Next]_vars
  PROVE  /\ Rows \subseteq Rows'
         /\ \A k \in Rows : tasks'[k].email = tasks[k].email
<1>1. ASSUME UNCHANGED tasks
      PROVE  Rows \subseteq Rows' /\ \A k \in Rows : tasks'[k].email = tasks[k].email
  BY <1>1 DEF Rows
<1>2. ASSUME NEW c \in Consumers, Inserts(c)
      PROVE  Rows \subseteq Rows' /\ \A k \in Rows : tasks'[k].email = tasks[k].email
  BY <1>2, InsertEffect, CollectorAssumption DEF Inserts, TypeOK
<1>3. ASSUME NEW k \in Rows, NEW s \in Statuses \cup {"deleted"}, SetStatus(k, s)
      PROVE  Rows \subseteq Rows' /\ \A l \in Rows : tasks'[l].email = tasks[l].email
  BY <1>3, SetStatusEffect DEF TypeOK
<1> QED
  BY <1>1, <1>2, <1>3, TableSteps

LEMMA StoredStays ==
  ASSUME TypeOK, [Next]_vars
  PROVE  Stored \subseteq Stored'
BY RowsStay DEF Stored

-----------------------------------------------------------------------------
(***************************************************************************)
(* One task per email: only an INSERT can break it, and the index stops    *)
(* the INSERT.                                                             *)
(***************************************************************************)
LEMMA OneTaskStep == TypeOK /\ OneTaskPerEmail /\ [Next]_vars => OneTaskPerEmail'
<1> SUFFICES ASSUME TypeOK, OneTaskPerEmail, [Next]_vars PROVE OneTaskPerEmail'
  OBVIOUS
<1>1. CASE UNCHANGED tasks
  BY <1>1 DEF OneTaskPerEmail, Live, Rows
<1>2. ASSUME NEW c \in Consumers, Inserts(c) PROVE OneTaskPerEmail'
  <2> DEFINE e == Email[cur[c]]
  <2>1. e \in Emails
    BY <1>2, CollectorAssumption DEF Inserts, TypeOK
  <2>2. Insert(e) /\ tasks \in Seq(Tasks)
    BY <1>2 DEF Inserts, TypeOK
  <2> HIDE DEF e
  <2> SUFFICES ASSUME NEW k \in Live', NEW l \in Live',
                      tasks'[k].email = tasks'[l].email
               PROVE  k = l
    BY DEF OneTaskPerEmail
  <2>3. ASSUME NEW j \in Live' PROVE j \in Live \/ j \in Rows' \ Rows
    BY <2>1, <2>2, <2>3, InsertEffect DEF Live
  <2>4. ASSUME NEW i \in Rows' \ Rows, NEW j \in Live
        PROVE  tasks'[i].email # tasks'[j].email
    <3>1. tasks'[i].email = e /\ ~HasTask(e)
      BY <2>1, <2>2, InsertEffect
    <3>2. tasks'[j] = tasks[j]
      BY <2>1, <2>2, InsertEffect DEF Live
    <3> QED
      BY <3>1, <3>2 DEF HasTask
  <2>5. CASE k \in Live /\ l \in Live
    BY <2>1, <2>2, <2>5, InsertEffect DEF OneTaskPerEmail, Live
  <2>6. CASE k \in Rows' \ Rows /\ l \in Rows' \ Rows
    BY <2>1, <2>2, <2>6, InsertEffect
  <2> QED
    BY <2>3, <2>4, <2>5, <2>6
<1>3. ASSUME NEW k \in Rows, NEW s \in Statuses \cup {"deleted"}, SetStatus(k, s)
      PROVE  OneTaskPerEmail'
  BY <1>3, SetStatusEffect DEF TypeOK, OneTaskPerEmail, Live
<1> QED
  BY <1>1, <1>2, <1>3, TableSteps

\* An email has at most one task at a time.
THEOREM OneTask == Spec => []OneTaskPerEmail
<1>1. Init => OneTaskPerEmail
  BY DEF Init, OneTaskPerEmail, Live, Rows
<1> QED
  BY <1>1, OneTaskStep, TypeCorrect, PTL DEF Spec

-----------------------------------------------------------------------------
(***************************************************************************)
(* The last word is the user's.  An email without a task has no wish, so a *)
(* new row, which is pending, contradicts none; and a wish is changed      *)
(* together with the only row it is about.                                 *)
(***************************************************************************)
NoTaskNoWish == \A e \in Emails : ~HasTask(e) => asked[e] = "none"

WishInv == NoTaskNoWish /\ UsersHaveLastWord

LEMMA WishStep ==
  TypeOK /\ OneTaskPerEmail /\ WishInv /\ [Next]_vars => WishInv'
<1> SUFFICES ASSUME TypeOK, OneTaskPerEmail, WishInv, [Next]_vars PROVE WishInv'
  OBVIOUS
<1> USE DEF WishInv
<1>1. CASE UNCHANGED <<tasks, asked>>
  BY <1>1 DEF NoTaskNoWish, UsersHaveLastWord, HasTask, Live, Rows
<1>2. ASSUME NEW c \in Consumers, Inserts(c) PROVE WishInv'
  <2> DEFINE e == Email[cur[c]]
  <2>1. e \in Emails /\ tasks \in Seq(Tasks) /\ Insert(e)
    BY <1>2, CollectorAssumption DEF Inserts, TypeOK
  <2>2. UNCHANGED asked
    BY <1>2 DEF Inserts, CreateTask, CreateTaskFails, history
  <2>3. CASE HasTask(e)
    BY <1>1, <2>1, <2>2, <2>3 DEF Insert
  <2>4. CASE ~HasTask(e)
    <3>1. /\ asked[e] = "none"
          /\ tasks' = Append(tasks, [email |-> e, status |-> "pending"])
      BY <2>1, <2>4 DEF NoTaskNoWish, Insert
    <3> HIDE DEF e
    <3>2. /\ Len(tasks) \in Nat
          /\ Rows' = Rows \cup {Len(tasks) + 1}
          /\ \A k \in Rows : tasks'[k] = tasks[k]
          /\ tasks'[Len(tasks) + 1] = [email |-> e, status |-> "pending"]
      BY <2>1, <3>1, NewTaskType DEF Rows
    <3>3. Live' = Live \cup {Len(tasks) + 1}
      BY <3>2 DEF Live
    <3>4. UsersHaveLastWord'
      <4> SUFFICES ASSUME NEW k \in Live'
                   PROVE  tasks'[k].status = IF asked[tasks'[k].email] = "none"
                                               THEN "pending" ELSE asked[tasks'[k].email]
        BY <2>2 DEF UsersHaveLastWord
      <4>1. CASE k \in Live
        BY <3>2, <4>1 DEF UsersHaveLastWord, Live
      <4>2. CASE k = Len(tasks) + 1
        BY <3>1, <3>2, <4>2
      <4> QED
        BY <3>3, <4>1, <4>2
    <3>5. \A d \in Emails : HasTask(d) => HasTask(d)'
      BY <3>2, <3>3 DEF HasTask, Live
    <3> QED
      BY <2>2, <3>4, <3>5 DEF NoTaskNoWish
  <2> QED
    BY <2>3, <2>4
<1>3. ASSUME NEW k \in Rows, NEW s \in Statuses \cup {"deleted"}, SetStatus(k, s)
      PROVE  WishInv'
  <2> DEFINE e == tasks[k].email
             wish == IF s = "deleted" THEN "none" ELSE s
  <2>1. /\ k \in Live
        /\ tasks' = [tasks EXCEPT ![k].status = s]
        /\ asked' = [asked EXCEPT ![e] = wish]
    BY <1>3 DEF SetStatus
  <2>2. /\ Len(tasks) \in Nat
        /\ tasks \in [1 .. Len(tasks) -> Tasks]
        /\ k \in 1 .. Len(tasks)
        /\ tasks[k] \in Tasks
    BY DEF TypeOK, Rows
  <2>3. /\ Rows' = Rows
        /\ \A l \in Rows : tasks'[l].email = tasks[l].email
        /\ Live' \subseteq Live
    BY <1>3, SetStatusEffect DEF TypeOK
  <2>4. /\ \A l \in Rows \ {k} : tasks'[l] = tasks[l]
        /\ tasks'[k].status = s
    BY <2>1, <2>2 DEF Rows, Tasks
  <2>5. /\ e \in Emails
        /\ asked'[e] = wish
        /\ \A d \in Emails \ {e} : asked'[d] = asked[d]
    BY <2>1, <2>2 DEF TypeOK, Tasks
  <2>6. "none" \notin Statuses /\ "deleted" \notin Statuses
    BY DEF Statuses
  <2> HIDE DEF e, wish
  <2>7. UsersHaveLastWord'
    <3> SUFFICES ASSUME NEW l \in Live'
                 PROVE  tasks'[l].status = IF asked'[tasks'[l].email] = "none"
                                             THEN "pending" ELSE asked'[tasks'[l].email]
      BY DEF UsersHaveLastWord
    <3>1. l \in Live /\ l \in Rows /\ tasks[l].email \in Emails
      BY <2>2, <2>3 DEF Live, Rows, Tasks
    <3>2. CASE l = k
      <4>1. s # "deleted"
        BY <2>4, <3>2 DEF Live
      <4>2. tasks'[l].email = e
        BY <2>3, <3>1, <3>2 DEF e
      <4> QED
        BY <2>4, <2>5, <2>6, <3>2, <4>1, <4>2 DEF wish
    <3>3. CASE l # k
      <4>1. tasks'[l] = tasks[l]
        BY <2>4, <3>1, <3>3
      <4>2. tasks[l].email # e
        BY <2>1, <3>1, <3>3 DEF OneTaskPerEmail, e
      <4> QED
        BY <2>5, <3>1, <4>1, <4>2 DEF UsersHaveLastWord
    <3> QED
      BY <3>2, <3>3
  <2>8. NoTaskNoWish'
    <3> SUFFICES ASSUME NEW d \in Emails, ~HasTask(d)' PROVE asked'[d] = "none"
      BY DEF NoTaskNoWish
    <3>1. CASE d = e
      <4>1. k \notin Live'
        BY <2>3, <3>1 DEF HasTask, e
      <4>2. s = "deleted"
        BY <2>3, <2>4, <4>1 DEF Live
      <4> QED
        BY <2>5, <3>1, <4>2 DEF wish
    <3>2. CASE d # e
      <4>1. ~HasTask(d)
        BY <2>3, <2>4, <3>2 DEF HasTask, Live, e
      <4> QED
        BY <2>5, <3>2, <4>1 DEF NoTaskNoWish
    <3> QED
      BY <3>1, <3>2
  <2> QED
    BY <2>7, <2>8
<1> QED
  BY <1>1, <1>2, <1>3, TableSteps

\* No redelivery, duplicate or overlap of handlers undoes what a user asked.
THEOREM LastWord == Spec => []UsersHaveLastWord
<1>1. Init => WishInv
  BY DEF Init, WishInv, NoTaskNoWish, UsersHaveLastWord, Live, Rows
<1>2. WishInv => UsersHaveLastWord
  BY DEF WishInv
<1> QED
  BY <1>1, <1>2, WishStep, TypeCorrect, OneTask, PTL DEF Spec

-----------------------------------------------------------------------------
(***************************************************************************)
(* Acknowledged and dropped messages.  The inductive invariant says what a *)
(* handler knows when it is about to answer the broker.                    *)
(***************************************************************************)
AckKnows == \A c \in Consumers : pc[c] = "ack" => Email[cur[c]] \in Stored

NackKnows ==
  \A c \in Consumers :
    pc[c] = "nack" => \/ Email[cur[c]] = None
                      \/ cur[c] \in failed
                      \/ Email[cur[c]] \in Stored

AnswerInv == AckKnows /\ NackKnows /\ AckedMeansStored /\ LossNeedsDbError

LEMMA AnswerStep == TypeOK /\ AnswerInv /\ [Next]_vars => AnswerInv'
<1> SUFFICES ASSUME TypeOK, AnswerInv, [Next]_vars PROVE AnswerInv'
  OBVIOUS
<1> USE CollectorAssumption DEF TypeOK
<1>0. Stored \subseteq Stored'
  BY StoredStays
\* A step that finishes no handler's work and answers no message.
<1>a. ASSUME failed \subseteq failed',
             \A m \in Messages : place'[m] \in {"acked", "dropped"} => place'[m] = place[m],
             \A c \in Consumers : pc'[c] \in {"ack", "nack"} => pc'[c] = pc[c] /\ cur'[c] = cur[c]
      PROVE  AnswerInv'
  <2>1. AckKnows' /\ NackKnows'
    BY <1>a, <1>0 DEF AnswerInv, AckKnows, NackKnows
  <2>2. AckedMeansStored' /\ LossNeedsDbError'
    BY <1>a, <1>0 DEF AnswerInv, AckedMeansStored, LossNeedsDbError
  <2> QED
    BY <2>1, <2>2 DEF AnswerInv
\* A step of consumer c that answers no message.
<1>b. ASSUME NEW c \in Consumers, failed \subseteq failed', UNCHANGED place,
             \A d \in Consumers \ {c} : pc'[d] = pc[d] /\ cur'[d] = cur[d],
             pc'[c] = "ack" => Email[cur'[c]] \in Stored',
             pc'[c] = "nack" => \/ Email[cur'[c]] = None
                                \/ cur'[c] \in failed'
                                \/ Email[cur'[c]] \in Stored'
      PROVE  AnswerInv'
  <2>1. AckKnows'
    BY <1>b, <1>0 DEF AnswerInv, AckKnows
  <2>2. NackKnows'
    BY <1>b, <1>0 DEF AnswerInv, NackKnows
  <2>3. AckedMeansStored' /\ LossNeedsDbError'
    BY <1>b, <1>0 DEF AnswerInv, AckedMeansStored, LossNeedsDbError
  <2> QED
    BY <2>1, <2>2, <2>3 DEF AnswerInv
\* Consumer c answers its message.
<1>c. ASSUME NEW c \in Consumers, NEW m \in Messages, UNCHANGED failed,
             pc'[c] = "idle",
             \A d \in Consumers \ {c} : pc'[d] = pc[d] /\ cur'[d] = cur[d],
             \A n \in Messages \ {m} : place'[n] = place[n],
             \/ place'[m] = place[m]
             \/ place'[m] = "acked" /\ Email[m] \in Stored
             \/ place'[m] = "dropped" /\ (Email[m] = None \/ m \in failed \/ Email[m] \in Stored)
      PROVE  AnswerInv'
  <2>1. AckKnows' /\ NackKnows'
    BY <1>c, <1>0 DEF AnswerInv, AckKnows, NackKnows
  <2>2. AckedMeansStored'
    BY <1>c, <1>0 DEF AnswerInv, AckedMeansStored
  <2>3. LossNeedsDbError'
    BY <1>c, <1>0 DEF AnswerInv, LossNeedsDbError
  <2> QED
    BY <2>1, <2>2, <2>3 DEF AnswerInv
<1>1. ASSUME NEW m \in Messages, Publish(m) PROVE AnswerInv'
  <2>1. \A n \in Messages : place'[n] \in {"acked", "dropped"} => place'[n] = place[n]
    BY <1>1 DEF Publish
  <2> QED
    BY <1>1, <1>a, <2>1 DEF Publish, process, history
<1>2. ASSUME NEW c \in Consumers, NEW m \in Messages, Deliver(c, m) PROVE AnswerInv'
  <2>1. \A n \in Messages : place'[n] \in {"acked", "dropped"} => place'[n] = place[n]
    BY <1>2 DEF Deliver, Places
  <2> QED
    BY <1>2, <1>a, <2>1 DEF Deliver, history
<1>3. ASSUME NEW c \in Consumers, Handle(c) PROVE AnswerInv'
  <2>1. ASSUME NEW m \in Messages, Take(c, m) PROVE AnswerInv'
    BY <2>1, <1>b DEF Take, At, Goto, PCs, history
  <2>2. CASE LoopEnds(c)
    BY <2>2, <1>b DEF LoopEnds, At, Goto, history
  <2>3. CASE TaskExists(c)
    <3>1. HasTask(Email[cur[c]]) => Email[cur[c]] \in Stored
      BY DEF HasTask, Stored, Live
    <3> QED
      BY <2>3, <3>1, <1>0, <1>b DEF TaskExists, At, Goto, history
  <2>4. CASE TaskExistsFails(c)
    BY <2>4, <1>b DEF TaskExistsFails, At, Goto
  <2>5. CASE CreateTask(c)
    <3>1. Email[cur[c]] \in Emails
      BY <2>5 DEF CreateTask, At
    <3>2. Email[cur[c]] \in Stored'
      <4>1. CASE HasTask(Email[cur[c]])
        BY <4>1, <1>0 DEF HasTask, Stored, Live
      <4>2. CASE ~HasTask(Email[cur[c]])
        <5>1. PICK k \in Rows' : tasks'[k].email = Email[cur[c]]
          BY <2>5, <3>1, <4>2, InsertEffect DEF CreateTask
        <5> QED
          BY <5>1 DEF Stored
      <4> QED
        BY <4>1, <4>2
    <3> QED
      BY <2>5, <3>1, <3>2, <1>b DEF CreateTask, At, Goto, history
  <2>6. CASE CreateTaskFails(c)
    BY <2>6, <1>b DEF CreateTaskFails, At, Goto
  <2>7. CASE Ack(c)
    <3>1. cur[c] \in Messages /\ Email[cur[c]] \in Stored
      BY <2>7 DEF Ack, At, AnswerInv, AckKnows
    <3>2. /\ \A n \in Messages \ {cur[c]} : place'[n] = place[n]
          /\ place'[cur[c]] \in {place[cur[c]], "acked"}
      BY <2>7, <3>1 DEF Ack
    <3> QED
      BY <2>7, <3>1, <3>2, <1>c DEF Ack, At, Goto, history
  <2>8. CASE Nack(c)
    <3>1. /\ cur[c] \in Messages
          /\ Email[cur[c]] = None \/ cur[c] \in failed \/ Email[cur[c]] \in Stored
      BY <2>8 DEF Nack, At, AnswerInv, NackKnows
    <3>2. /\ \A n \in Messages \ {cur[c]} : place'[n] = place[n]
          /\ place'[cur[c]] \in {place[cur[c]], "dropped"}
      BY <2>8, <3>1 DEF Nack
    <3> QED
      BY <2>8, <3>1, <3>2, <1>c DEF Nack, At, Goto, history
  <2> QED
    BY <1>3, <2>1, <2>2, <2>3, <2>4, <2>5, <2>6, <2>7, <2>8 DEF Handle
<1>4. ASSUME NEW c \in Consumers, ChannelCloses(c) PROVE AnswerInv'
  BY <1>4, <1>a DEF ChannelCloses, Requeue
<1>5. ASSUME NEW c \in Consumers, Sigterm(c) PROVE AnswerInv'
  BY <1>5, <1>a DEF Sigterm
<1>6. ASSUME NEW c \in Consumers, Exit(c) \/ Crash(c) PROVE AnswerInv'
  <2>1. Gone(c)
    BY <1>6 DEF Exit, Crash
  <2> QED
    BY <2>1, <1>a DEF Gone, Requeue, Goto
<1>7. ASSUME NEW c \in Consumers, Restart(c) PROVE AnswerInv'
  BY <1>7, <1>a DEF Restart, At, Goto, history
<1>8. ASSUME UNCHANGED <<place, process, failed>> PROVE AnswerInv'
  BY <1>8, <1>a DEF process
<1>9. ASSUME NEW k \in Rows, UpdateTask(k) \/ CompleteTask(k) \/ DeleteTask(k)
      PROVE  AnswerInv'
  BY <1>8, <1>9, Requests DEF SetStatus
<1> QED
  BY <1>1, <1>2, <1>3, <1>4, <1>5, <1>6, <1>7, <1>8, <1>9 DEF Next, Service, Request, vars, history

THEOREM AnswerInvariant == Spec => []AnswerInv
<1>1. Init => AnswerInv
  BY DEF Init, AnswerInv, AckKnows, NackKnows, AckedMeansStored, LossNeedsDbError
<1> QED
  BY <1>1, AnswerStep, TypeCorrect, PTL DEF Spec

\* The broker forgets a message for good only once its task is committed.
THEOREM AcksOnlyStored == Spec => []AckedMeansStored
BY AnswerInvariant, PTL DEF AnswerInv

\* The broker drops a message without a task only after a database error.
THEOREM DropsOnlyOnError == Spec => []LossNeedsDbError
BY AnswerInvariant, PTL DEF AnswerInv

-----------------------------------------------------------------------------
(***************************************************************************)
(* A deleted task stays deleted.  As long as nothing broke, what a         *)
(* consumer has it holds at the broker too, no two consumers have the same *)
(* message, and a message nobody inserted yet has no row.                  *)
(***************************************************************************)
\* Published, and no INSERT was tried for it.
Fresh ==
  {m \in Messages : \/ place[m] = "ready"
                    \/ \E c \in Consumers :
                         \/ m \in inbox[c]
                         \/ m = cur[c] /\ pc[c] \in {"exists", "insert"}}

Calm ==
  \A c \in Consumers : linked[c] /\ ~stopping[c] /\ pc[c] \notin {"down", "ended"}

Held ==
  \A c \in Consumers :
    /\ \A m \in Messages : m \in inbox[c] \/ m = cur[c] => place[m] = c
    /\ cur[c] \notin inbox[c]
    /\ pc[c] = "idle" => cur[c] = None

StoredPublished == \A e \in Stored : \E m \in Messages : Email[m] = e /\ place[m] # "new"

FreshUnstored == \A m \in Fresh : Email[m] \in NotDuplicated => Email[m] \notin Stored

OneRow ==
  \A k, l \in Rows :
    tasks[k].email = tasks[l].email /\ tasks[k].email \in NotDuplicated => k = l

OnceBody == Calm /\ Held /\ StoredPublished /\ FreshUnstored /\ OneRow
OnceInv == breaks = 0 => OnceBody

LEMMA OnceInit == Init => OnceInv
<1> SUFFICES ASSUME Init PROVE OnceBody
  BY DEF OnceInv
<1>1. Calm /\ Held
  BY CollectorAssumption DEF Init, Calm, Held
<1>2. Stored = {} /\ Rows = {}
  BY DEF Init, Stored, Rows
<1> QED
  BY <1>1, <1>2 DEF OnceBody, StoredPublished, FreshUnstored, OneRow

\* Only published messages are fresh, and publishing cannot be undone.
LEMMA FreshPublished ==
  ASSUME TypeOK, OnceBody
  PROVE  \A m \in Fresh : place[m] # "new"
<1> SUFFICES ASSUME NEW m \in Fresh, place[m] # "ready" PROVE place[m] # "new"
  OBVIOUS
<1>1. m \in Messages /\ \E c \in Consumers : m \in inbox[c] \/ m = cur[c]
  BY DEF Fresh
<1>2. place[m] \in Consumers
  BY <1>1 DEF OnceBody, Held
<1> QED
  BY <1>2, CollectorAssumption DEF Places

LEMMA NotDuplicatedShrinks ==
  ASSUME \A m \in Messages : place[m] # "new" => place'[m] # "new"
  PROVE  NotDuplicated' \subseteq NotDuplicated
BY DEF NotDuplicated, Copies

\* A step that leaves the table alone and makes nothing fresh.
LEMMA QuietStep ==
  ASSUME TypeOK, OnceBody, Rows' = Rows,
         \A k \in Rows : tasks'[k].email = tasks[k].email,
         \A m \in Messages : place[m] # "new" => place'[m] # "new",
         Fresh' \subseteq Fresh, Calm', Held'
  PROVE  OnceBody'
<1>1. NotDuplicated' \subseteq NotDuplicated
  BY NotDuplicatedShrinks
<1>2. Stored' = Stored
  BY DEF Stored
<1>3. StoredPublished' /\ FreshUnstored'
  BY <1>1, <1>2 DEF OnceBody, StoredPublished, FreshUnstored
<1>4. OneRow'
  BY <1>1 DEF OnceBody, OneRow
<1> QED
  BY <1>3, <1>4 DEF OnceBody

LEMMA PublishOnce ==
  ASSUME TypeOK, OnceBody, NEW m \in Messages, Publish(m)
  PROVE  OnceBody'
<1>1. /\ place[m] = "new" /\ place'[m] = "ready"
      /\ \A n \in Messages \ {m} : place'[n] = place[n]
      /\ UNCHANGED <<tasks, process, history>>
  BY DEF Publish, TypeOK
<1>2. NotDuplicated' \subseteq NotDuplicated
  BY <1>1, NotDuplicatedShrinks
<1>3. Stored' = Stored /\ Rows' = Rows
  BY <1>1 DEF Stored, Rows
<1>4. Calm' /\ OneRow' /\ StoredPublished'
  BY <1>1, <1>2, <1>3 DEF OnceBody, Calm, OneRow, StoredPublished, process
<1>5. Held'
  BY <1>1, CollectorAssumption DEF OnceBody, Held, process, TypeOK, Places
<1>6. Fresh' \subseteq Fresh \cup {m}
  BY <1>1 DEF Fresh, process
<1>7. FreshUnstored'
  <2>1. Email[m] \in NotDuplicated' => Email[m] \notin Stored
    BY <1>1 DEF OnceBody, StoredPublished, NotDuplicated, Copies
  <2> QED
    BY <1>2, <1>3, <1>6, <2>1 DEF OnceBody, FreshUnstored
<1> QED
  BY <1>4, <1>5, <1>7 DEF OnceBody

\* The handler's INSERT: the only message of its email is the one it handles.
LEMMA InsertOnce ==
  ASSUME TypeOK, OnceBody, NEW c \in Consumers, Inserts(c)
  PROVE  OnceBody'
<1> DEFINE m == cur[c]
           e == Email[m]
<1>1. /\ m \in Messages /\ e \in Emails /\ m \in Fresh
      /\ pc[c] = "insert"
  BY CollectorAssumption DEF Inserts, TypeOK, Fresh
<1>2. /\ UNCHANGED <<place, cur, inbox, linked, stopping>>
      /\ pc' = [pc EXCEPT ![c] = pc'[c]] /\ pc'[c] \in {"ack", "nack"}
  BY DEF Inserts, CreateTask, CreateTaskFails, Goto, TypeOK
<1>3. Insert(e) /\ tasks \in Seq(Tasks)
  BY DEF Inserts, TypeOK
<1>4. Calm' /\ Held'
  BY <1>1, <1>2 DEF OnceBody, Calm, Held, TypeOK
<1>5. Fresh' \subseteq Fresh \ {m}
  <2>1. Fresh' \subseteq Fresh
    BY <1>1, <1>2 DEF Fresh, TypeOK
  <2>2. place[m] = c /\ c \notin Places /\ m \notin inbox[c]
    BY <1>1, CollectorAssumption DEF OnceBody, Held
  <2>3. \A d \in Consumers : m \in inbox[d] \/ m = cur[d] => d = c
    BY <1>1, <2>2 DEF OnceBody, Held
  <2>4. m \notin Fresh'
    BY <1>2, <2>2, <2>3 DEF Fresh, Places
  <2> QED
    BY <2>1, <2>4
<1>6. NotDuplicated' = NotDuplicated
  BY <1>2 DEF NotDuplicated, Copies
<1>7. \A n \in Fresh' : Email[n] \in NotDuplicated => Email[n] # e
  BY <1>1, <1>5, FreshPublished DEF NotDuplicated, Copies, Fresh
<1>8. e \in NotDuplicated => e \notin Stored
  BY <1>1 DEF OnceBody, FreshUnstored
<1>9. place[m] # "new"
  BY <1>1, FreshPublished
<1> HIDE DEF m, e
<1>10. Stored' \subseteq Stored \cup {e}
  BY <1>1, <1>3, InsertEffect DEF Stored
<1>11. StoredPublished'
  BY <1>1, <1>2, <1>9, <1>10 DEF OnceBody, StoredPublished, e
<1>12. FreshUnstored'
  BY <1>5, <1>6, <1>7, <1>10 DEF OnceBody, FreshUnstored
<1>13. OneRow'
  <2> SUFFICES ASSUME NEW k \in Rows', NEW l \in Rows',
                      tasks'[k].email = tasks'[l].email,
                      tasks'[k].email \in NotDuplicated
               PROVE  k = l
    BY <1>6 DEF OneRow
  <2>1. ASSUME NEW i \in Rows' \ Rows, NEW j \in Rows,
               tasks'[i].email \in NotDuplicated
        PROVE  tasks'[i].email # tasks'[j].email
    BY <1>1, <1>3, <1>8, <2>1, InsertEffect DEF Stored
  <2>2. CASE k \in Rows /\ l \in Rows
    BY <1>1, <1>3, <2>2, InsertEffect DEF OnceBody, OneRow
  <2>3. CASE k \notin Rows /\ l \notin Rows
    BY <1>1, <1>3, <2>3, InsertEffect
  <2> QED
    BY <2>1, <2>2, <2>3
<1> QED
  BY <1>4, <1>11, <1>12, <1>13 DEF OnceBody

LEMMA OnceStep == TypeOK /\ OnceInv /\ [Next]_vars => OnceInv'
<1> SUFFICES ASSUME TypeOK, OnceInv, [Next]_vars, breaks' = 0 PROVE OnceBody'
  BY DEF OnceInv
<1> USE CollectorAssumption
<1>a. breaks \in Nat /\ breaks + 1 # 0
  BY DEF TypeOK
<1>1. ASSUME NEW m \in Messages, Publish(m) PROVE OnceBody'
  BY <1>1, PublishOnce DEF Publish, history, OnceInv
<1>2. ASSUME NEW c \in Consumers, NEW m \in Messages, Deliver(c, m) PROVE OnceBody'
  <2>1. OnceBody /\ UNCHANGED <<tasks, pc, cur, linked, stopping>>
    BY <1>2 DEF Deliver, history, OnceInv
  <2>2. /\ place[m] = "ready" /\ place'[m] = c
        /\ \A n \in Messages \ {m} : place'[n] = place[n]
        /\ inbox'[c] = inbox[c] \cup {m}
        /\ \A d \in Consumers \ {c} : inbox'[d] = inbox[d]
    BY <1>2 DEF Deliver, TypeOK
  <2>3. \A d \in Consumers : cur[d] # m /\ m \notin inbox[d]
    BY <2>1, <2>2 DEF OnceBody, Held, Places
  <2>4. Held'
    BY <2>1, <2>2, <2>3 DEF OnceBody, Held
  <2>5. Fresh' \subseteq Fresh
    BY <2>1, <2>2 DEF Fresh, Places
  <2>6. Calm' /\ Rows' = Rows
    BY <2>1 DEF OnceBody, Calm, Rows
  <2>7. \A n \in Messages : place[n] # "new" => place'[n] # "new"
    BY <2>2 DEF Places
  <2> QED
    BY <2>1, <2>4, <2>5, <2>6, <2>7, QuietStep
<1>3. ASSUME NEW c \in Consumers, Handle(c) PROVE OnceBody'
  <2>0. OnceBody
    BY <1>3, <1>a DEF OnceInv, Handle, Take, LoopEnds, TaskExists, TaskExistsFails,
                      CreateTask, CreateTaskFails, Ack, Nack, history
  <2>1. ASSUME NEW m \in Messages, Take(c, m) PROVE OnceBody'
    <3>1. /\ UNCHANGED <<place, tasks, linked, stopping>>
          /\ pc[c] = "idle" /\ m \in inbox[c]
          /\ inbox'[c] = inbox[c] \ {m} /\ cur'[c] = m
          /\ pc'[c] \in {"nack", "exists"}
          /\ \A d \in Consumers \ {c} : /\ inbox'[d] = inbox[d]
                                        /\ cur'[d] = cur[d] /\ pc'[d] = pc[d]
      BY <2>1 DEF Take, At, Goto, TypeOK
    <3>2. Calm' /\ Held' /\ Fresh' \subseteq Fresh
      BY <2>0, <3>1 DEF OnceBody, Calm, Held, Fresh
    <3> QED
      BY <2>0, <3>1, <3>2, QuietStep DEF Rows
  <2>2. CASE LoopEnds(c)
    BY <2>0, <2>2 DEF LoopEnds, OnceBody, Calm
  <2>3. CASE TaskExists(c) \/ TaskExistsFails(c)
    <3>1. /\ UNCHANGED <<place, tasks, cur, inbox, linked, stopping>>
          /\ pc[c] = "exists" /\ pc'[c] \in {"ack", "insert", "nack"}
          /\ \A d \in Consumers \ {c} : pc'[d] = pc[d]
      BY <2>3 DEF TaskExists, TaskExistsFails, At, Goto, TypeOK
    <3>2. Calm' /\ Held' /\ Fresh' \subseteq Fresh
      BY <2>0, <3>1 DEF OnceBody, Calm, Held, Fresh
    <3> QED
      BY <2>0, <3>1, <3>2, QuietStep DEF Rows
  <2>4. CASE Inserts(c)
    BY <2>0, <2>4, InsertOnce
  <2>5. CASE CreateTaskFails(c) /\ UNCHANGED tasks
    <3>1. /\ UNCHANGED <<place, cur, inbox, linked, stopping>>
          /\ pc[c] = "insert" /\ pc'[c] = "nack"
          /\ \A d \in Consumers \ {c} : pc'[d] = pc[d]
      BY <2>5 DEF CreateTaskFails, At, Goto, TypeOK
    <3>2. Calm' /\ Held' /\ Fresh' \subseteq Fresh
      BY <2>0, <3>1 DEF OnceBody, Calm, Held, Fresh
    <3> QED
      BY <2>0, <2>5, <3>1, <3>2, QuietStep DEF Rows
  <2>6. CASE Ack(c) \/ Nack(c)
    <3>1. /\ UNCHANGED <<tasks, inbox, linked, stopping>>
          /\ pc[c] \in {"ack", "nack"} /\ pc'[c] = "idle" /\ cur'[c] = None
          /\ \A d \in Consumers \ {c} : pc'[d] = pc[d] /\ cur'[d] = cur[d]
      BY <2>6 DEF Ack, Nack, At, Goto, TypeOK
    <3>2. cur[c] \in Messages /\ place[cur[c]] = c
      BY <2>0, <3>1 DEF TypeOK, OnceBody, Held
    <3>3. /\ place'[cur[c]] \in {"acked", "dropped"}
          /\ \A n \in Messages \ {cur[c]} : place'[n] = place[n]
      BY <2>0, <2>6, <3>2 DEF Ack, Nack, TypeOK, OnceBody, Calm
    <3>4. Calm'
      BY <2>0, <3>1 DEF OnceBody, Calm
    <3>5. Held'
      <4> SUFFICES ASSUME NEW d \in Consumers
                   PROVE  /\ \A m \in Messages : m \in inbox'[d] \/ m = cur'[d] => place'[m] = d
                          /\ cur'[d] \notin inbox'[d]
                          /\ pc'[d] = "idle" => cur'[d] = None
        BY DEF Held
      <4>1. \A m \in Messages : m \in inbox'[d] \/ m = cur'[d] => place[m] = d /\ m # cur[c]
        BY <2>0, <3>1, <3>2 DEF OnceBody, Held
      <4> QED
        BY <2>0, <3>1, <3>3, <4>1 DEF OnceBody, Held, TypeOK
    <3>6. Fresh' \subseteq Fresh
      BY <3>1, <3>2, <3>3 DEF Fresh
    <3>7. \A n \in Messages : place[n] # "new" => place'[n] # "new"
      BY <3>3
    <3> QED
      BY <2>0, <3>1, <3>4, <3>5, <3>6, <3>7, QuietStep DEF Rows
  <2> QED
    BY <1>3, <2>1, <2>2, <2>3, <2>4, <2>5, <2>6
       DEF Handle, Inserts, CreateTask, CreateTaskFails, At
<1>4. ASSUME NEW c \in Consumers, ChannelCloses(c) \/ Sigterm(c) \/ Crash(c)
      PROVE  OnceBody'
  BY <1>4, <1>a DEF ChannelCloses, Sigterm, Crash
<1>5. ASSUME NEW c \in Consumers, Exit(c) \/ Restart(c) PROVE OnceBody'
  BY <1>5 DEF Exit, Restart, At, history, OnceInv, OnceBody, Calm
<1>6. ASSUME NEW k \in Rows, UpdateTask(k) \/ CompleteTask(k) \/ DeleteTask(k)
      PROVE  OnceBody'
  <2>1. PICK s \in Statuses \cup {"deleted"} : SetStatus(k, s)
    BY <1>6, Requests
  <2>2. OnceBody /\ UNCHANGED <<place, pc, cur, inbox, linked, stopping>>
    BY <2>1 DEF SetStatus, process, history, OnceInv
  <2>3. Calm' /\ Held' /\ Fresh' = Fresh
    BY <2>2 DEF OnceBody, Calm, Held, Fresh
  <2>4. Rows' = Rows /\ \A l \in Rows : tasks'[l].email = tasks[l].email
    BY <2>1, SetStatusEffect DEF TypeOK
  <2> QED
    BY <2>2, <2>3, <2>4, QuietStep
<1>7. CASE UNCHANGED vars
  <2>1. OnceBody /\ UNCHANGED <<place, tasks, pc, cur, inbox, linked, stopping>>
    BY <1>7 DEF vars, process, history, OnceInv
  <2>2. Calm' /\ Held' /\ Fresh' = Fresh /\ Rows' = Rows
    BY <2>1 DEF OnceBody, Calm, Held, Fresh, Rows
  <2> QED
    BY <2>1, <2>2, QuietStep
<1> QED
  BY <1>1, <1>2, <1>3, <1>4, <1>5, <1>6, <1>7 DEF Next, Service, Request

\* No deleted task comes back unless something broke or was published twice.
THEOREM DeletedForGood == Spec => []DeletedStaysDeleted
<1>1. OnceInv => DeletedStaysDeleted
  BY DEF OnceInv, OnceBody, OneRow, DeletedStaysDeleted
<1> QED
  BY <1>1, OnceInit, OnceStep, TypeCorrect, PTL DEF Spec

-----------------------------------------------------------------------------
(***************************************************************************)
(* What the composition with the analyzer needs to know of a step.         *)
(***************************************************************************)
\* What was published once never becomes unpublished.
LEMMA PublishedStays ==
  ASSUME TypeOK, [Next]_vars
  PROVE  \A m \in Messages : place[m] # "new" => place'[m] # "new"
<1> USE CollectorAssumption DEF TypeOK, Places
<1>1. ASSUME NEW m \in Messages, Publish(m)
      PROVE  \A n \in Messages : place[n] # "new" => place'[n] # "new"
  BY <1>1 DEF Publish
<1>2. ASSUME NEW c \in Consumers, Service(c)
      PROVE  \A n \in Messages : place[n] # "new" => place'[n] # "new"
  <2>1. ASSUME NEW m \in Messages, Deliver(c, m)
        PROVE  \A n \in Messages : place[n] # "new" => place'[n] # "new"
    BY <2>1 DEF Deliver
  <2>2. CASE Handle(c)
    BY <2>2 DEF Handle, Take, LoopEnds, TaskExists, TaskExistsFails, CreateTask, CreateTaskFails,
                Ack, Nack
  <2>3. CASE ChannelCloses(c) \/ Exit(c) \/ Crash(c)
    BY <2>3 DEF ChannelCloses, Exit, Crash, Gone, Requeue
  <2>4. CASE Sigterm(c) \/ Restart(c)
    BY <2>4 DEF Sigterm, Restart
  <2> QED
    BY <1>2, <2>1, <2>2, <2>3, <2>4 DEF Service
<1>3. CASE Request
  BY <1>3 DEF Request, UpdateTask, CompleteTask, DeleteTask, SetStatus
<1>4. CASE UNCHANGED vars
  BY <1>4 DEF vars
<1> QED
  BY <1>1, <1>2, <1>3, <1>4 DEF Next
\* What an instance has was published.
HasPublished ==
  \A c \in Consumers, m \in Messages : m \in inbox[c] \/ m = cur[c] => place[m] # "new"

\* Only Publish publishes.
LEMMA OnlyPublish ==
  ASSUME TypeOK, HasPublished, Request \/ \E c \in Consumers : Service(c)
  PROVE  \A m \in Messages : place[m] = "new" => place'[m] = "new"
<1> USE CollectorAssumption DEF TypeOK, Places, HasPublished
<1>1. ASSUME NEW c \in Consumers, Service(c)
      PROVE  \A n \in Messages : place[n] = "new" => place'[n] = "new"
  <2>1. ASSUME NEW m \in Messages, Deliver(c, m)
        PROVE  \A n \in Messages : place[n] = "new" => place'[n] = "new"
    BY <2>1 DEF Deliver
  <2>2. CASE Handle(c)
    BY <2>2 DEF Handle, Take, LoopEnds, TaskExists, TaskExistsFails, CreateTask, CreateTaskFails,
                Ack, Nack
  <2>3. CASE ChannelCloses(c) \/ Exit(c) \/ Crash(c)
    BY <2>3 DEF ChannelCloses, Exit, Crash, Gone, Requeue
  <2>4. CASE Sigterm(c) \/ Restart(c)
    BY <2>4 DEF Sigterm, Restart
  <2> QED
    BY <1>1, <2>1, <2>2, <2>3, <2>4 DEF Service
<1>2. CASE Request
  BY <1>2 DEF Request, UpdateTask, CompleteTask, DeleteTask, SetStatus
<1> QED
  BY <1>1, <1>2

\* An instance is given a message only by the queue (consumer.go:81-92).
THEOREM HandlesPublished == Spec => []HasPublished
<1>1. Init => HasPublished
  BY CollectorAssumption DEF Init, HasPublished
<1>2. TypeOK /\ HasPublished /\ [Next]_vars => HasPublished'
  <2> SUFFICES ASSUME TypeOK, HasPublished, [Next]_vars PROVE HasPublished'
    OBVIOUS
  <2> USE CollectorAssumption DEF HasPublished, process
  <2>0. \A m \in Messages : place[m] # "new" => place'[m] # "new"
    BY PublishedStays
  <2>1. ASSUME NEW c \in Consumers, Service(c) PROVE HasPublished'
    <3>1. ASSUME NEW m \in Messages, Deliver(c, m) PROVE HasPublished'
      <4>1. place[m] # "new"
        BY <3>1 DEF Deliver
      <4> QED
        BY <2>0, <3>1, <4>1 DEF Deliver, TypeOK
    <3>2. CASE Handle(c)
      BY <2>0, <3>2 DEF Handle, Take, LoopEnds, TaskExists, TaskExistsFails, CreateTask,
                        CreateTaskFails, Ack, Nack, TypeOK
    <3>3. CASE Exit(c) \/ Crash(c)
      BY <2>0, <3>3 DEF Exit, Crash, Gone, TypeOK
    <3>4. CASE ChannelCloses(c) \/ Sigterm(c) \/ Restart(c)
      BY <2>0, <3>4 DEF ChannelCloses, Sigterm, Restart
    <3> QED
      BY <2>1, <3>1, <3>2, <3>3, <3>4 DEF Service
  <2>2. CASE Request
    BY <2>0, <2>2 DEF Request, UpdateTask, CompleteTask, DeleteTask, SetStatus
  <2>3. ASSUME NEW m \in Messages, Publish(m) PROVE HasPublished'
    BY <2>0, <2>3 DEF Publish
  <2>4. CASE UNCHANGED vars
    BY <2>0, <2>4 DEF vars
  <2> QED
    BY <2>1, <2>2, <2>3, <2>4 DEF Next
<1> QED
  BY <1>1, <1>2, TypeCorrect, PTL DEF Spec
-----------------------------------------------------------------------------
(***************************************************************************)
(* Who holds a message: what makes the answers of an instance meet the     *)
(* message they are meant for.                                             *)
(***************************************************************************)
HoldInv ==
  /\ HeldWhileHandled
  /\ \A c \in Consumers :
       /\ cur[c] \notin inbox[c]
       /\ pc[c] \in {"down", "idle", "ended"} => cur[c] = None
       /\ pc[c] = "down" => inbox[c] = {}

LEMMA HoldStep == TypeOK /\ HoldInv /\ [Next]_vars => HoldInv'
<1> SUFFICES ASSUME TypeOK, HoldInv, [Next]_vars PROVE HoldInv'
  OBVIOUS
<1> USE CollectorAssumption DEF HoldInv, HeldWhileHandled, Places, process, history
\* A step of consumer c that moves no message of another one.
<1>a. ASSUME NEW c \in Consumers,
             \A d \in Consumers \ {c} : /\ UNCHANGED <<pc[d], cur[d], inbox[d], linked[d]>>
                                        /\ \A m \in Messages : place[m] = d => place'[m] = d,
             cur'[c] \notin inbox'[c],
             pc'[c] \in {"down", "idle", "ended"} => cur'[c] = None,
             pc'[c] = "down" => inbox'[c] = {},
             linked'[c] => \A m \in inbox'[c] \cup ({cur'[c]} \ {None}) : place'[m] = c
      PROVE  HoldInv'
  BY <1>a DEF TypeOK
<1>1. ASSUME NEW m \in Messages, Publish(m) PROVE HoldInv'
  BY <1>1 DEF Publish, TypeOK
<1>2. ASSUME NEW c \in Consumers, NEW m \in Messages, Deliver(c, m) PROVE HoldInv'
  <2>1. /\ place[m] = "ready" /\ place' = [place EXCEPT ![m] = c]
        /\ inbox' = [inbox EXCEPT ![c] = @ \cup {m}]
        /\ linked[c]
        /\ UNCHANGED <<pc, cur, linked>>
        /\ pc[c] # "down"
    BY <1>2 DEF Deliver
  <2>2. cur[c] # m
    BY <2>1 DEF TypeOK
  <2> QED
    BY <1>a, <2>1, <2>2 DEF TypeOK
<1>3. ASSUME NEW c \in Consumers, NEW m \in Messages, Take(c, m) PROVE HoldInv'
  <2>1. /\ pc[c] = "idle" /\ cur[c] = None /\ m \in inbox[c]
        /\ inbox' = [inbox EXCEPT ![c] = @ \ {m}]
        /\ cur' = [cur EXCEPT ![c] = m]
        /\ UNCHANGED <<place, linked>>
    BY <1>3 DEF Take, At
  <2>2. /\ pc'[c] \in {"nack", "exists"}
        /\ \A d \in Consumers \ {c} : pc'[d] = pc[d]
    BY <1>3 DEF Take, Goto, TypeOK
  <2> QED
    BY <1>a, <2>1, <2>2 DEF TypeOK
<1>4. ASSUME NEW c \in Consumers,
             \/ LoopEnds(c) \/ TaskExists(c) \/ TaskExistsFails(c) \/ CreateTask(c)
             \/ CreateTaskFails(c)
      PROVE  HoldInv'
  <2>1. UNCHANGED <<place, cur, inbox, linked>>
    BY <1>4 DEF LoopEnds, TaskExists, TaskExistsFails, CreateTask, CreateTaskFails
  <2>2. /\ \A d \in Consumers \ {c} : pc'[d] = pc[d]
        /\ pc'[c] # "down"
        /\ pc'[c] \in {"idle", "ended"} => pc[c] = "idle"
    BY <1>4 DEF LoopEnds, TaskExists, TaskExistsFails, CreateTask, CreateTaskFails, At, Goto,
                TypeOK
  <2> QED
    BY <1>a, <2>1, <2>2 DEF TypeOK
<1>5. ASSUME NEW c \in Consumers, Ack(c) \/ Nack(c) PROVE HoldInv'
  <2>1. /\ cur' = [cur EXCEPT ![c] = None]
        /\ pc' = [pc EXCEPT ![c] = "idle"]
        /\ UNCHANGED <<inbox, linked>>
        /\ cur[c] \in Messages
    BY <1>5 DEF Ack, Nack, At, Goto, TypeOK
  <2>2. \A m \in Messages : m # cur[c] => place'[m] = place[m]
    BY <1>5 DEF Ack, Nack, TypeOK
  <2>3. \A d \in Consumers \ {c}, m \in Messages : place[m] = d => place'[m] = d
    BY <1>5 DEF Ack, Nack, TypeOK
  <2> QED
    BY <1>a, <2>1, <2>2, <2>3 DEF TypeOK
<1>6. ASSUME NEW c \in Consumers, ChannelCloses(c) PROVE HoldInv'
  BY <1>6, <1>a DEF ChannelCloses, Requeue, TypeOK
<1>7. ASSUME NEW c \in Consumers, Exit(c) \/ Crash(c) PROVE HoldInv'
  BY <1>7, <1>a DEF Exit, Crash, Gone, Goto, Requeue, TypeOK
<1>8. ASSUME NEW c \in Consumers, Sigterm(c) \/ Restart(c) PROVE HoldInv'
  BY <1>8, <1>a DEF Sigterm, Restart, At, Goto, TypeOK
<1>9. CASE Request \/ UNCHANGED vars
  <2>1. UNCHANGED <<place, pc, cur, inbox, linked>>
    BY <1>9 DEF Request, UpdateTask, CompleteTask, DeleteTask, SetStatus, vars
  <2> QED
    BY <2>1
<1> QED
  BY <1>1, <1>2, <1>3, <1>4, <1>5, <1>6, <1>7, <1>8, <1>9 DEF Next, Service, Handle

LEMMA HoldInvariant == Spec => []HoldInv
<1>1. Init => HoldInv
  BY DEF Init, HoldInv, HeldWhileHandled
<1> QED
  BY <1>1, HoldStep, TypeCorrect, PTL DEF Spec

\* What an instance with an open channel handles, and what waits in its
\* client library, is unacknowledged on that channel and nowhere else.
THEOREM NothingHandledUnheld == Spec => []HeldWhileHandled
BY HoldInvariant, PTL DEF HoldInv

\* No answer takes an acknowledgement back: a nack meets only what is still
\* unacknowledged.
LEMMA AckSteps ==
  ASSUME TypeOK, HoldInv, [Next]_vars
  PROVE  \/ \A n \in Messages : place'[n] = "acked" <=> place[n] = "acked"
         \/ /\ UNCHANGED tasks
            /\ \E m \in Messages :
                 /\ place[m] # "acked" /\ place'[m] = "acked"
                 /\ \A n \in Messages \ {m} : place'[n] = place[n]
<1> USE CollectorAssumption DEF TypeOK, Places
<1> DEFINE Same == \A n \in Messages : place'[n] = "acked" <=> place[n] = "acked"
<1>1. ASSUME NEW m \in Messages, Publish(m) PROVE Same
  BY <1>1 DEF Publish
<1>2. ASSUME NEW c \in Consumers, NEW m \in Messages, Deliver(c, m) PROVE Same
  BY <1>2 DEF Deliver
<1>3. ASSUME NEW c \in Consumers, Handle(c), ~Ack(c), ~Nack(c) PROVE Same
  BY <1>3 DEF Handle, Take, LoopEnds, TaskExists, TaskExistsFails, CreateTask, CreateTaskFails
<1>4. ASSUME NEW c \in Consumers, Ack(c) \/ Nack(c), ~Same
      PROVE  /\ UNCHANGED tasks
             /\ \E m \in Messages :
                  /\ place[m] # "acked" /\ place'[m] = "acked"
                  /\ \A n \in Messages \ {m} : place'[n] = place[n]
  <2>1. cur[c] \in Messages /\ cur[c] # None /\ UNCHANGED tasks
    BY <1>4 DEF Ack, Nack, At
  <2>2. linked[c]
    BY <1>4 DEF Ack, Nack
  <2>3. place[cur[c]] = c
    BY <2>1, <2>2 DEF HoldInv, HeldWhileHandled
  <2>4. Ack(c)
    BY <1>4, <2>1, <2>2, <2>3 DEF Nack
  <2> QED
    BY <2>1, <2>2, <2>3, <2>4 DEF Ack
<1>5. ASSUME NEW c \in Consumers, ChannelCloses(c) \/ Exit(c) \/ Crash(c) PROVE Same
  BY <1>5 DEF ChannelCloses, Exit, Crash, Gone, Requeue
<1>6. ASSUME NEW c \in Consumers, Sigterm(c) \/ Restart(c) PROVE Same
  BY <1>6 DEF Sigterm, Restart
<1>7. CASE Request \/ UNCHANGED vars
  BY <1>7 DEF Request, UpdateTask, CompleteTask, DeleteTask, SetStatus, vars
<1> QED
  BY <1>1, <1>2, <1>3, <1>4, <1>5, <1>6, <1>7 DEF Next, Service

-----------------------------------------------------------------------------
(***************************************************************************)
(* The list that users and broker see.  It is well defined because an      *)
(* email has one task, and a step of an instance changes it where the      *)
(* index lets the INSERT through, and nowhere else.                        *)
(***************************************************************************)
LEMMA TheOnlyRow ==
  ASSUME NEW t, NEW S, NEW k \in S, \A j, l \in S : t[j].email = t[l].email => j = l
  PROVE  (CHOOSE j \in S : t[j].email = t[k].email) = k
OBVIOUS

LEMMA ShownTask ==
  ASSUME OneTaskPerEmail
  PROVE  \A e \in Emails, k \in Live :
           tasks[k].email = e => ShownAs(e) = tasks[k].status
BY TheOnlyRow DEF OneTaskPerEmail, ShownAs, HasTask

LEMMA ShownTaskNext ==
  ASSUME OneTaskPerEmail'
  PROVE  \A e \in Emails, k \in Live' :
           tasks'[k].email = e => ShownAs(e)' = tasks'[k].status
BY TheOnlyRow DEF OneTaskPerEmail, ShownAs, HasTask

LEMMA NotShown ==
  /\ \A e \in Emails : ~HasTask(e) => ShownAs(e) = "none"
  /\ \A e \in Emails : ~HasTask(e)' => ShownAs(e)' = "none"
BY DEF ShownAs
LEMMA PromiseStep ==
  TypeOK /\ HoldInv /\ OneTaskPerEmail /\ OneTaskPerEmail' /\ AckedMeansStored'
    /\ [Next]_vars => [TS!Next]_(TS!vars)
<1> SUFFICES ASSUME TypeOK, HoldInv, OneTaskPerEmail, OneTaskPerEmail', AckedMeansStored',
                    [Next]_vars
             PROVE  [TS!Next]_(TS!vars)
  OBVIOUS
<1> DEFINE List == [e \in Emails |-> ShownAs(e)]
           Acked == {m \in Messages : place[m] = "acked"}
<1>1. ASSUME UNCHANGED tasks PROVE UNCHANGED <<List, Stored>>
  BY <1>1 DEF ShownAs, HasTask, Live, Rows, Stored
<1>2. ASSUME \A n \in Messages : place'[n] = "acked" <=> place[n] = "acked"
      PROVE  UNCHANGED Acked
  BY <1>2
\* An answer of an instance.
<1>3. ASSUME UNCHANGED tasks, NEW m \in Messages,
             place[m] # "acked", place'[m] = "acked",
             \A n \in Messages \ {m} : place'[n] = place[n]
      PROVE  TS!Acknowledge(m)
  <2>1. m \notin Acked /\ Acked' = Acked \cup {m}
    BY <1>3
  <2>2. Email[m] \in Stored'
    BY <1>3 DEF AckedMeansStored
  <2> HIDE DEF List, Acked
  <2>3. m \notin Acked /\ Email[m] \in Stored /\ Acked' = Acked \cup {m}
        /\ UNCHANGED <<List, Stored>>
    BY <1>1, <1>3, <2>1, <2>2
  <2> QED
    BY <2>3 DEF TS!Acknowledge, List, Acked
\* An INSERT.
<1>4. ASSUME NEW c \in Consumers, Inserts(c), UNCHANGED Acked
      PROVE  [TS!Next]_(TS!vars)
  <2>1. PICK e \in Emails : Insert(e) /\ tasks \in Seq(Tasks)
    BY <1>4, CollectorAssumption DEF Inserts, TypeOK
  <2>2. CASE HasTask(e)
    <3>1. UNCHANGED <<List, Stored>>
      BY <1>1, <2>1, <2>2 DEF Insert
    <3> QED
      BY <1>4, <3>1 DEF TS!vars
  <2>3. CASE ~HasTask(e)
    <3> DEFINE n == Len(tasks) + 1
    <3>1. /\ Rows' = Rows \cup {n}
          /\ n \notin Rows
          /\ \A k \in Rows : tasks'[k] = tasks[k]
          /\ tasks'[n].email = e
      BY <2>1, <2>3, InsertEffect DEF Rows, TypeOK
    <3>2. tasks'[n].status = "pending"
      BY <2>1, <2>3, NewTaskType DEF Insert
    <3> HIDE DEF n
    <3>3. Live' = Live \cup {n}
      BY <3>1, <3>2 DEF Live
    <3>4. Stored' = Stored \cup {e}
      BY <3>1 DEF Stored
    <3>5. ShownAs(e) = "none" /\ ShownAs(e)' = "pending"
      BY <2>1, <2>3, <3>1, <3>2, <3>3, NotShown, ShownTaskNext
    <3>6. ASSUME NEW d \in Emails, d # e PROVE ShownAs(d)' = ShownAs(d)
      <4>1. CASE HasTask(d)
        <5>1. PICK k \in Live : tasks[k].email = d
          BY <4>1 DEF HasTask
        <5>2. k \in Live' /\ tasks'[k] = tasks[k]
          BY <3>1, <3>3 DEF Live
        <5> QED
          BY <5>1, <5>2, ShownTask, ShownTaskNext
      <4>2. CASE ~HasTask(d)
        <5>1. ~HasTask(d)'
          BY <3>1, <3>3, <3>6, <4>2 DEF HasTask, Live
        <5> QED
          BY <4>2, <5>1, NotShown
      <4> QED
        BY <4>1, <4>2
    <3>7. List' = [List EXCEPT ![e] = "pending"] /\ List[e] = "none"
      BY <2>1, <3>5, <3>6
    <3> HIDE DEF List, Acked
    <3>8. TS!Create(e)
      BY <1>4, <3>4, <3>7 DEF TS!Create, List, Acked
    <3> QED
      BY <2>1, <3>8 DEF TS!Next
  <2> QED
    BY <2>2, <2>3
\* A request of a user.
<1>5. ASSUME NEW k \in Rows, NEW s \in Statuses \cup {"deleted"}, SetStatus(k, s),
             UNCHANGED Acked
      PROVE  TS!Next
  <2> DEFINE w == IF s = "deleted" THEN "none" ELSE s
  <2>1. /\ k \in Live
        /\ tasks' = [tasks EXCEPT ![k].status = s]
    BY <1>5 DEF SetStatus
  <2>2. /\ Len(tasks) \in Nat
        /\ tasks \in [1 .. Len(tasks) -> Tasks]
        /\ k \in 1 .. Len(tasks)
        /\ tasks[k] \in Tasks
    BY DEF TypeOK, Rows
  <2>0. PICK e \in Emails : e = tasks[k].email
    BY <2>2 DEF Tasks
  <2>3. /\ Rows' = Rows
        /\ \A l \in Rows : tasks'[l].email = tasks[l].email
        /\ Live' \subseteq Live
    BY <1>5, SetStatusEffect DEF TypeOK
  <2>4. /\ \A l \in Rows \ {k} : tasks'[l] = tasks[l]
        /\ tasks'[k].status = s
    BY <2>1, <2>2 DEF Rows, Tasks
  <2>5. Stored' = Stored
    BY <2>3 DEF Stored
  <2>6. ShownAs(e) # "none"
    <3>1. tasks[k].status \in Statuses
      BY <2>1, <2>2 DEF Live, Tasks
    <3> QED
      BY <2>0, <2>1, <3>1, ShownTask DEF Statuses
  <2>7. ShownAs(e)' = w
    <3>1. CASE s = "deleted"
      <4>1. ~HasTask(e)'
        BY <2>0, <2>1, <2>3, <2>4, <3>1 DEF HasTask, Live, OneTaskPerEmail
      <4> QED
        BY <3>1, <4>1, NotShown
    <3>2. CASE s # "deleted"
      <4>1. k \in Live'
        BY <2>1, <2>3, <2>4, <3>2 DEF Live
      <4> QED
        BY <2>0, <2>3, <2>4, <3>2, <4>1, ShownTaskNext
    <3> QED
      BY <3>1, <3>2
  <2>8. ASSUME NEW d \in Emails, d # e PROVE ShownAs(d)' = ShownAs(d)
    <3>1. CASE HasTask(d)
      <4>1. PICK l \in Live : tasks[l].email = d
        BY <3>1 DEF HasTask
      <4>2. l \in Live' /\ tasks'[l] = tasks[l]
        BY <2>0, <2>3, <2>4, <2>8, <4>1 DEF Live
      <4> QED
        BY <4>1, <4>2, ShownTask, ShownTaskNext
    <3>2. CASE ~HasTask(d)
      <4>1. ~HasTask(d)'
        BY <2>3, <3>2 DEF HasTask, Live
      <4> QED
        BY <3>2, <4>1, NotShown
    <3> QED
      BY <3>1, <3>2
  <2>9. List' = [List EXCEPT ![e] = w] /\ List[e] # "none"
    BY <2>6, <2>7, <2>8
  <2>10. w \in Statuses \cup {"none"}
    OBVIOUS
  <2> HIDE DEF List, Acked, w
  <2>11. TS!Change(e)
    BY <1>5, <2>5, <2>9, <2>10 DEF TS!Change, List, Acked
  <2> QED
    BY <2>11 DEF TS!Next
<1>6. CASE \A n \in Messages : place'[n] = "acked" <=> place[n] = "acked"
  <2>1. UNCHANGED Acked
    BY <1>2, <1>6
  <2>2. CASE UNCHANGED <<tasks, asked>>
    BY <1>1, <2>1, <2>2 DEF TS!vars
  <2> HIDE DEF Acked, List
  <2> QED
    BY <1>4, <1>5, <2>1, <2>2, TableSteps
<1> QED
  BY <1>3, <1>6, AckSteps DEF TS!Next

\* Whatever the instances do to each other and whatever fails, users and
\* broker see one list of tasks with a single writer (service.go:33-92,
\* database.go:41-49, consumer.go:141-169).
THEOREM CollectorKeepsPromise == Spec => TasksAsPromised
<1>1. Init => TS!Init
  BY DEF Init, TS!Init, ShownAs, HasTask, Live, Stored, Rows
<1> QED
  BY <1>1, PromiseStep, TypeCorrect, HoldInvariant, OneTask, AcksOnlyStored, PTL
     DEF Spec, TasksAsPromised, TS!Spec
=============================================================================
