-------------------------- MODULE Analyzer_proofs --------------------------
(***************************************************************************)
(* Proofs about Analyzer, for any number of batches, mails, consumers and  *)
(* workers, any breaker, and any number of failures.                       *)
(***************************************************************************)
EXTENDS Analyzer, FiniteSetTheorems, TLAPS

-----------------------------------------------------------------------------
(***************************************************************************)
(* Types.                                                                  *)
(***************************************************************************)
LEMMA TypeInit == Init => TypeOK
<1> SUFFICES ASSUME Init PROVE TypeOK
  OBVIOUS
<1> USE AnalyzerAssumption DEF Init
<1>1. CB!TypeOK
  BY DEF CB!TypeOK
<1>2. place \in [Batches -> Places] /\ at \in [Mails -> Steps]
  BY DEF Places, Steps
<1>3. copies \in [Mails -> 0 .. 2] /\ breaks \in 0 .. MaxBreaks
  OBVIOUS
<1> QED
  BY <1>1, <1>2, <1>3 DEF TypeOK

LEMMA TypeGone == TypeOK /\ Gone /\ breaks' \in 0 .. MaxBreaks => TypeOK'
<1> SUFFICES ASSUME TypeOK, Gone, breaks' \in 0 .. MaxBreaks PROVE TypeOK'
  OBVIOUS
<1> USE AnalyzerAssumption DEF TypeOK, Gone
<1>1. CB!TypeOK'
  BY DEF CB!TypeOK
<1>2. place' \in [Batches -> Places]
  BY DEF Requeue, Places
<1> QED
  BY <1>1, <1>2 DEF Steps

\* A step that leaves the breaker and the health of the model alone.
LEMMA TypeBreaker ==
  ASSUME CB!TypeOK, UNCHANGED breaker, modelUp' \in BOOLEAN, cancelled' \in BOOLEAN
  PROVE  CB!TypeOK'
BY DEF CB!TypeOK, breaker

LEMMA TypeProcess == TypeOK /\ Process => TypeOK'
<1> SUFFICES ASSUME TypeOK, Process PROVE TypeOK'
  OBVIOUS
<1> USE AnalyzerAssumption DEF broker, process, history
<1>0. CASE Start \/ ConsumeMessage \/ ConnectionLost \/ Sigterm \/ CloseConnection
  <2>1. CB!TypeOK'
    BY <1>0, TypeBreaker DEF TypeOK, Start, ConsumeMessage, ConnectionLost, Sigterm, CloseConnection
  <2>2. place' \in [Batches -> Places]
    BY <1>0 DEF TypeOK, Start, ConsumeMessage, ConnectionLost, Sigterm, CloseConnection, Requeue, Places
  <2>3. breaks' \in 0 .. MaxBreaks
    BY <1>0 DEF TypeOK, Start, ConsumeMessage, ConnectionLost, Sigterm, CloseConnection, Breaks
  <2> QED
    BY <1>0, <2>1, <2>2, <2>3
    DEF TypeOK, Start, ConsumeMessage, ConnectionLost, Sigterm, CloseConnection
<1>1. CASE Exit
  BY <1>1, TypeGone DEF Exit, TypeOK
<1>2. CASE Crash
  BY <1>2, TypeGone DEF Crash, Breaks, TypeOK
<1> QED
  BY <1>0, <1>1, <1>2 DEF Process

LEMMA TypeCall ==
  ASSUME TypeOK, NEW m \in Mails,
         ReadState(m) \/ Admit(m) \/ Reject(m) \/ Fail(m) \/ Succeed(m)
  PROVE  TypeOK'
<1> USE AnalyzerAssumption DEF TypeOK, broker, process, history
<1>1. CB!TypeOK'
  <2> USE DEF CB!TypeOK, CB!Goto
  <2>1. CASE ReadState(m)
    BY <2>1 DEF ReadState, CB!ReadState
  <2>2. CASE Admit(m)
    BY <2>2 DEF Admit, CB!GoHalfOpen, CB!Begin
  <2>3. CASE Reject(m)
    BY <2>3 DEF Reject, CB!Reject
  <2>4. CASE Fail(m)
    BY <2>4 DEF Fail, CB!Fail, CB!Capped
  <2>5. CASE Succeed(m)
    BY <2>5 DEF Succeed, CB!Succeed
  <2> QED
    BY <2>1, <2>2, <2>3, <2>4, <2>5
<1>2. at' \in [Mails -> Steps]
  BY DEF ReadState, Admit, Reject, Fail, Succeed, Move, Steps
<1>3. outage' \in BOOLEAN
  BY DEF ReadState, Admit, Reject, Fail, Succeed
<1>4. UNCHANGED <<broker, process, held, modelUp, history>>
  BY DEF ReadState, Admit, Reject, Fail, Succeed
<1> QED
  BY <1>1, <1>2, <1>3, <1>4

LEMMA TypeMail ==
  ASSUME TypeOK, NEW m \in Mails,
         \/ CheckState(m) \/ BadAnswer(m) \/ PublishMessage(m)
         \/ PublishFails(m) \/ PublishLost(m)
  PROVE  TypeOK'
<1> USE AnalyzerAssumption
    DEF TypeOK, broker, process, history, CheckState, BadAnswer, PublishMessage,
        PublishFails, PublishLost
<1>1. CB!TypeOK'
  BY TypeBreaker
<1>2. place' \in [Batches -> Places]
  BY DEF Requeue, Places
<1>3. at' \in [Mails -> Steps]
  BY DEF Move, Steps
<1>4. copies' \in [Mails -> 0 .. 2]
  OBVIOUS
<1>5. breaks' \in 0 .. MaxBreaks
  BY DEF Breaks
<1> QED
  BY <1>1, <1>2, <1>3, <1>4, <1>5

LEMMA TypeBatch ==
  ASSUME TypeOK, NEW b \in Batches, Publish(b) \/ Take(b) \/ Reply(b)
  PROVE  TypeOK'
<1> USE AnalyzerAssumption DEF TypeOK, broker, process, history, Publish, Take, Reply
<1>1. CB!TypeOK'
  BY TypeBreaker
<1>2. place' \in [Batches -> Places]
  BY DEF Answer, Places
<1>3. at' \in [Mails -> Steps]
  BY DEF Steps
<1> QED
  BY <1>1, <1>2, <1>3

LEMMA TypeStep == TypeOK /\ [Next]_vars => TypeOK'
<1> SUFFICES ASSUME TypeOK, [Next]_vars PROVE TypeOK'
  OBVIOUS
<1>1. CASE \E b \in Batches : Publish(b) \/ Take(b) \/ Reply(b)
  BY <1>1, TypeBatch
<1>2. CASE \E m \in Mails : MailStep(m)
  BY <1>2, TypeCall, TypeMail DEF MailStep, Analyse
<1>3. CASE Process
  BY <1>3, TypeProcess
<1>4. CASE Tick
  <2>1. CB!TypeOK'
    BY <1>4, AnalyzerAssumption DEF Tick, CB!Tick, CB!TypeOK, TypeOK
  <2> QED
    BY <1>4, <2>1 DEF Tick, TypeOK, broker, process, history
<1>5. CASE ModelRecovers
  <2>1. CB!TypeOK'
    BY <1>5, TypeBreaker DEF ModelRecovers, TypeOK, process
  <2> QED
    BY <1>5, <2>1 DEF ModelRecovers, TypeOK, broker, process, history
<1>6. CASE UNCHANGED vars
  <2>1. CB!TypeOK'
    BY <1>6, TypeBreaker DEF vars, TypeOK, process
  <2> QED
    BY <1>6, <2>1 DEF vars, TypeOK, broker, process, history
<1> QED
  BY <1>1, <1>2, <1>3, <1>4, <1>5, <1>6 DEF Next

\* Every state of the analyzer and of its breaker is well typed
\* (mistral.go:88-271, consumer.go:94-150, circuit_breaker.go:20-27).
THEOREM TypeCorrect == Spec => []TypeOK
BY TypeInit, TypeStep, PTL DEF Spec

-----------------------------------------------------------------------------
(***************************************************************************)
(* An acknowledged batch is published.                                     *)
(***************************************************************************)
\* A batch in hand is unacknowledged at the broker as long as the connection
\* lives; a process that is down has nothing in hand and no connection.
HeldIsUnacked == connected => \A b \in held : place[b] = "unacked"

DownIsEmpty == proc = "down" => held = {} /\ ~connected /\ \A m \in Mails : at[m] = "away"

\* PublishMessage may return nil for nothing, but then there is no connection
\* left to send the Ack on.
DonePublished == connected => \A m \in Mails : at[m] = "done" => copies[m] > 0

AckInv ==
  /\ HeldIsUnacked
  /\ DownIsEmpty
  /\ DonePublished
  /\ AckedMeansPublished

LEMMA AckGone == TypeOK /\ AckInv /\ Gone => AckInv'
<1> SUFFICES ASSUME TypeOK, AckInv, Gone PROVE AckInv'
  OBVIOUS
<1>1. \A b \in Batches : place'[b] = "acked" => place[b] = "acked"
  BY DEF Gone, Requeue, TypeOK
<1> QED
  BY <1>1 DEF AckInv, HeldIsUnacked, DownIsEmpty, DonePublished, AckedMeansPublished, Gone

LEMMA AckProcess == TypeOK /\ AckInv /\ Process => AckInv'
<1> SUFFICES ASSUME TypeOK, AckInv, Process PROVE AckInv'
  OBVIOUS
<1> USE DEF AckInv, HeldIsUnacked, DownIsEmpty, DonePublished, AckedMeansPublished, broker, process, history
<1>1. CASE Start \/ ConsumeMessage \/ Sigterm
  BY <1>1 DEF Start, ConsumeMessage, Sigterm
<1>2. CASE ConnectionLost \/ CloseConnection
  <2>1. \A b \in Batches : place'[b] = "acked" => place[b] = "acked"
    BY <1>2 DEF ConnectionLost, CloseConnection, Requeue, TypeOK
  <2> QED
    BY <1>2, <2>1 DEF ConnectionLost, CloseConnection
<1>3. CASE Exit \/ Crash
  BY <1>3, AckGone DEF Exit, Crash
<1> QED
  BY <1>1, <1>2, <1>3 DEF Process

LEMMA AckMail ==
  ASSUME TypeOK, AckInv, NEW m \in Mails, MailStep(m)
  PROVE  AckInv'
<1> USE DEF AckInv, HeldIsUnacked, DownIsEmpty, DonePublished, AckedMeansPublished, broker, process, history,
            Move, Publishing
<1>1. CASE PublishMessage(m)
  <2>1. \A n \in Mails : copies'[n] >= copies[n]
    BY <1>1 DEF PublishMessage, TypeOK
  <2>2. copies'[m] > 0
    BY <1>1 DEF PublishMessage, TypeOK
  <2>3. at' = [at EXCEPT ![m] = "done"] /\ at[m] # "away"
    BY <1>1 DEF PublishMessage
  <2>4. DonePublished'
    <3> SUFFICES ASSUME connected', NEW n \in Mails, at'[n] = "done" PROVE copies'[n] > 0
      OBVIOUS
    <3> QED
      BY <1>1, <2>1, <2>2, <2>3 DEF PublishMessage, TypeOK
  <2>5. AckedMeansPublished'
    BY <1>1, <2>1, AnalyzerAssumption DEF PublishMessage, TypeOK
  <2> QED
    BY <1>1, <2>3, <2>4, <2>5 DEF PublishMessage
<1>2. CASE PublishLost(m)
  <2>1. \A b \in Batches : place'[b] = "acked" => place[b] = "acked"
    BY <1>2 DEF PublishLost, Requeue, TypeOK
  <2>2. proc # "down"
    BY <1>2 DEF PublishLost
  <2> QED
    BY <1>2, <2>1, <2>2 DEF PublishLost
<1>3. CASE \/ ReadState(m) \/ Admit(m) \/ Reject(m) \/ Fail(m) \/ Succeed(m)
           \/ CheckState(m) \/ BadAnswer(m) \/ PublishFails(m)
  <2>1. UNCHANGED <<place, held, connected, proc, copies>>
    BY <1>3 DEF ReadState, Admit, Reject, Fail, Succeed, CheckState, BadAnswer, PublishFails
  <2>2. at[m] # "away" /\ \E p \in Steps \ {"done"} : at' = at \/ at' = [at EXCEPT ![m] = p]
    BY <1>3 DEF ReadState, Admit, Reject, Fail, Succeed, CheckState, BadAnswer, PublishFails, Steps
  <2> QED
    BY <2>1, <2>2 DEF TypeOK
<1> QED
  BY <1>1, <1>2, <1>3 DEF MailStep, Analyse

LEMMA AckBatch ==
  ASSUME TypeOK, AckInv, NEW b \in Batches, Publish(b) \/ Take(b) \/ Reply(b)
  PROVE  AckInv'
<1> USE DEF AckInv, HeldIsUnacked, DownIsEmpty, DonePublished, AckedMeansPublished, broker, process, history
<1>1. CASE Publish(b)
  BY <1>1 DEF Publish, TypeOK
<1>2. CASE Take(b)
  BY <1>2 DEF Take, TypeOK
<1>3. CASE Reply(b)
  <2>1. connected /\ Answer(b) = "acked" => \A m \in Content[b] : copies[m] > 0
    BY <1>3, AnalyzerAssumption DEF Reply, Answer, Erred, Finished
  <2>2. AckedMeansPublished'
    BY <1>3, <2>1 DEF Reply, TypeOK
  <2>3. HeldIsUnacked'
    BY <1>3 DEF Reply, TypeOK
  <2>4. DonePublished'
    BY <1>3 DEF Reply, TypeOK
  <2>5. DownIsEmpty'
    BY <1>3 DEF Reply, TypeOK
  <2> QED
    BY <2>2, <2>3, <2>4, <2>5
<1> QED
  BY <1>1, <1>2, <1>3

LEMMA AckInvariant == Spec => []AckInv
<1>1. Init => AckInv
  BY DEF Init, AckInv, HeldIsUnacked, DownIsEmpty, DonePublished, AckedMeansPublished
<1>2. TypeOK /\ AckInv /\ [Next]_vars => AckInv'
  <2> SUFFICES ASSUME TypeOK, AckInv, [Next]_vars PROVE AckInv'
    OBVIOUS
  <2>1. CASE Tick \/ ModelRecovers \/ UNCHANGED vars
    BY <2>1 DEF Tick, ModelRecovers, vars, broker, process, history, AckInv, HeldIsUnacked,
                DownIsEmpty, DonePublished, AckedMeansPublished
  <2> QED
    BY <2>1, AckProcess, AckMail, AckBatch DEF Next
<1> QED
  BY <1>1, <1>2, TypeCorrect, PTL DEF Spec

\* The analyzer never acknowledges a mail away: with any number of workers
\* and failures, an acknowledged batch has been published mail by mail
\* (mistral.go:244-268, consumer.go:124-145).
THEOREM AcksOnlyPublished == Spec => []AckedMeansPublished
<1>1. AckInv => AckedMeansPublished
  BY DEF AckInv
<1> QED
  BY <1>1, AckInvariant, PTL

-----------------------------------------------------------------------------
(***************************************************************************)
(* Fallbacks.                                                              *)
(***************************************************************************)
\* The breaker counts no more failures than the current streak has, and it
\* opens with the streak complete; a process that ends forgets all of it.
OpenMeansOutage == state = "open" => outage

CountIsStreak == state # "open" => failureCount <= streak

FallbackInv == OpenMeansOutage /\ CountIsStreak /\ FallbackNeedsOutage

LEMMA FallbackStep == TypeOK /\ FallbackInv /\ [Next]_vars => FallbackInv'
<1> SUFFICES ASSUME TypeOK, FallbackInv, [Next]_vars PROVE FallbackInv'
  OBVIOUS
<1> USE AnalyzerAssumption
    DEF FallbackInv, OpenMeansOutage, CountIsStreak, FallbackNeedsOutage, breaker, Move
<1>1. ASSUME NEW b \in Batches, Publish(b) \/ Take(b) \/ Reply(b) PROVE FallbackInv'
  <2>1. \A m \in Mails : at'[m] = "fallback" => at[m] = "fallback"
    BY <1>1 DEF Publish, Take, Reply, TypeOK
  <2> QED
    BY <1>1, <2>1 DEF Publish, Take, Reply
<1>2. CASE Process
  <2>1. CASE Exit \/ Crash
    BY <2>1 DEF Exit, Crash, Gone
  <2>2. CASE ~(Exit \/ Crash)
    BY <1>2, <2>2 DEF Process, Start, ConsumeMessage, ConnectionLost, Sigterm, CloseConnection
  <2> QED
    BY <2>1, <2>2
<1>3. ASSUME NEW m \in Mails, MailStep(m) PROVE FallbackInv'
  <2>1. CASE Fail(m)
    <3>1. /\ failureCount \in Nat /\ streak \in 0 .. MaxFailures
          /\ failureCount' = failureCount + 1
          /\ streak' = IF streak + 1 < MaxFailures THEN streak + 1 ELSE MaxFailures
          /\ state' = IF failureCount + 1 >= MaxFailures THEN "open" ELSE state
      BY <2>1 DEF Fail, CB!Fail, CB!Capped, TypeOK, CB!TypeOK
    <3>2. state' = "open" => state = "open" \/ streak' = MaxFailures
      BY <3>1
    <3>3. (outage => outage') /\ (streak' = MaxFailures => outage')
      BY <2>1 DEF Fail
    <3>4. OpenMeansOutage'
      BY <3>2, <3>3
    <3>5. CountIsStreak'
      BY <3>1
    <3>6. OpenMeansOutage' /\ CountIsStreak'
      BY <3>4, <3>5
    <3>7. FallbackNeedsOutage'
      BY <2>1, <3>3 DEF Fail, TypeOK
    <3> QED
      BY <3>6, <3>7
  <2>2. CASE ReadState(m) \/ Admit(m) \/ Reject(m) \/ Succeed(m)
    <3>1. OpenMeansOutage' /\ CountIsStreak'
      BY <2>2 DEF ReadState, Admit, Reject, Succeed, CB!ReadState, CB!GoHalfOpen, CB!Begin,
                  CB!Reject, CB!Succeed, TypeOK, CB!TypeOK
    <3>2. FallbackNeedsOutage'
      BY <2>2 DEF ReadState, Admit, Reject, Succeed, TypeOK
    <3> QED
      BY <3>1, <3>2
  <2>3. CASE CheckState(m)
    BY <2>3 DEF CheckState, TypeOK
  <2>4. CASE BadAnswer(m) \/ PublishMessage(m) \/ PublishFails(m) \/ PublishLost(m)
    BY <2>4 DEF BadAnswer, PublishMessage, PublishFails, PublishLost, TypeOK
  <2> QED
    BY <1>3, <2>1, <2>2, <2>3, <2>4 DEF MailStep, Analyse
<1>4. CASE Tick \/ ModelRecovers \/ UNCHANGED vars
  BY <1>4 DEF Tick, CB!Tick, ModelRecovers, vars
<1> QED
  BY <1>1, <1>2, <1>3, <1>4 DEF Next

\* However the calls of all batches overlap, a mail is given a fallback only
\* by a process that saw maxFailures failures in a row (mistral.go:186-206).
THEOREM FallbackOnlyInOutage == Spec => []FallbackNeedsOutage
<1>1. Init => FallbackInv
  BY AnalyzerAssumption DEF Init, FallbackInv, OpenMeansOutage, CountIsStreak, FallbackNeedsOutage
<1>2. FallbackInv => FallbackNeedsOutage
  BY DEF FallbackInv
<1> QED
  BY <1>1, <1>2, FallbackStep, TypeCorrect, PTL DEF Spec

-----------------------------------------------------------------------------
(***************************************************************************)
(* Duplicates.                                                             *)
(***************************************************************************)
\* As long as nothing broke, a process keeps its connection and its work ...
Steady == breaks = 0 => ~cancelled /\ (proc # "down" => connected)

\* ... a mail in work belongs to a batch in hand ...
InHand == \A m \in Mails : at[m] # "away" => \E b \in held : m \in Content[b]

\* ... and a batch that was never returned has published a mail at most once:
\* not before it was taken, and once it was taken only if the mail is done.
OnceSoFar ==
  breaks = 0 =>
    \A b \in Batches \ nacked : \A m \in Content[b] :
      /\ copies[m] <= 1
      /\ copies[m] = 1 => place[b] = "acked" \/ (place[b] = "unacked" /\ at[m] = "done")

CopyInv == Steady /\ InHand /\ OnceSoFar

LEMMA CopyGone == TypeOK /\ Gone /\ breaks' # 0 => CopyInv'
BY DEF CopyInv, Steady, InHand, OnceSoFar, Gone

LEMMA CopyProcess == TypeOK /\ AckInv /\ CopyInv /\ Process => CopyInv'
<1> SUFFICES ASSUME TypeOK, AckInv, CopyInv, Process PROVE CopyInv'
  OBVIOUS
<1> USE DEF CopyInv, Steady, InHand, OnceSoFar, process, history
<1>1. CASE Start \/ ConsumeMessage
  BY <1>1 DEF Start, ConsumeMessage, broker
<1>2. CASE ConnectionLost \/ Sigterm
  BY <1>2 DEF ConnectionLost, Sigterm, Breaks, TypeOK
<1>3. CASE CloseConnection
  BY <1>3 DEF CloseConnection, TypeOK
<1>4. CASE Exit \/ Crash
  BY <1>4, CopyGone DEF Exit, Crash, Breaks, TypeOK
<1> QED
  BY <1>1, <1>2, <1>3, <1>4 DEF Process

LEMMA CopyMail ==
  ASSUME TypeOK, AckInv, CopyInv, NEW m \in Mails, MailStep(m)
  PROVE  CopyInv'
<1> USE DEF CopyInv, Steady, InHand, OnceSoFar, Move
<1>1. CASE PublishMessage(m)
  <2>1. PICK c \in held : m \in Content[c]
    BY <1>1 DEF PublishMessage, Publishing
  <2>2. place[c] = "unacked"
    BY <1>1, <2>1 DEF PublishMessage, AckInv, HeldIsUnacked
  <2>3. Steady' /\ InHand'
    BY <1>1 DEF PublishMessage, Publishing, process, TypeOK
  <2>4. OnceSoFar'
    <3> SUFFICES ASSUME breaks' = 0, NEW b \in Batches \ nacked', NEW n \in Content[b]
                 PROVE  /\ copies'[n] <= 1
                        /\ copies'[n] = 1 => \/ place'[b] = "acked"
                                             \/ place'[b] = "unacked" /\ at'[n] = "done"
      OBVIOUS
    <3>0. n \in Mails /\ breaks = 0 /\ b \in Batches \ nacked /\ place' = place
      BY <1>1, AnalyzerAssumption DEF PublishMessage, broker
    <3>1. CASE n # m
      BY <1>1, <3>0, <3>1 DEF PublishMessage, TypeOK
    <3>2. CASE n = m
      <4>1. b = c
        BY <2>1, <3>2, AnalyzerAssumption DEF TypeOK
      <4>2. copies[m] = 0
        BY <1>1, <2>2, <3>0, <3>2, <4>1 DEF PublishMessage, Publishing, TypeOK
      <4> QED
        BY <1>1, <2>2, <3>0, <3>2, <4>1, <4>2 DEF PublishMessage, TypeOK
    <3> QED
      BY <3>1, <3>2
  <2> QED
    BY <2>3, <2>4
<1>2. CASE PublishLost(m)
  <2>1. breaks' # 0
    BY <1>2 DEF PublishLost, Breaks, TypeOK
  <2> QED
    BY <1>2, <2>1 DEF PublishLost, Publishing, TypeOK
<1>3. CASE \/ ReadState(m) \/ Admit(m) \/ Reject(m) \/ Fail(m) \/ Succeed(m)
           \/ CheckState(m) \/ BadAnswer(m) \/ PublishFails(m)
  <2>1. UNCHANGED <<place, process, held, copies, nacked>>
    BY <1>3 DEF ReadState, Admit, Reject, Fail, Succeed, CheckState, BadAnswer, PublishFails,
                broker, process, history
  <2>2. at[m] \notin {"away", "done"} /\ \E p \in Steps : at' = at \/ at' = [at EXCEPT ![m] = p]
    BY <1>3 DEF ReadState, Admit, Reject, Fail, Succeed, CheckState, BadAnswer, PublishFails,
                Publishing, Steps
  <2>3. breaks' = 0 => breaks = 0
    BY <1>3 DEF ReadState, Admit, Reject, Fail, Succeed, CheckState, BadAnswer, PublishFails,
                Breaks, history, TypeOK
  <2>4. Steady' /\ InHand'
    BY <2>1, <2>2, <2>3 DEF process, TypeOK
  <2>5. OnceSoFar'
    BY <2>1, <2>2, <2>3, AnalyzerAssumption DEF TypeOK
  <2> QED
    BY <2>4, <2>5
<1> QED
  BY <1>1, <1>2, <1>3 DEF MailStep, Analyse

LEMMA CopyBatch ==
  ASSUME TypeOK, AckInv, CopyInv, NEW b \in Batches, Publish(b) \/ Take(b) \/ Reply(b)
  PROVE  CopyInv'
<1> USE DEF CopyInv, Steady, InHand, OnceSoFar, process, history
<1>1. CASE Publish(b)
  BY <1>1 DEF Publish, TypeOK
<1>2. CASE Take(b)
  <2>1. \A n \in Mails : at'[n] = at[n] \/ n \in Content[b]
    BY <1>2 DEF Take
  <2>2. \A c \in Batches : c # b => place'[c] = place[c]
    BY <1>2 DEF Take, TypeOK
  <2>3. held' = held \cup {b} /\ place[b] = "ready"
    BY <1>2 DEF Take
  <2>4. UNCHANGED <<proc, connected, cancelled, copies, nacked, breaks>>
    BY <1>2 DEF Take
  <2>5. Steady' /\ InHand'
    BY <2>1, <2>3, <2>4
  <2>6. OnceSoFar'
    BY <2>1, <2>2, <2>3, <2>4, AnalyzerAssumption
  <2> QED
    BY <2>5, <2>6
<1>3. CASE Reply(b)
  <2>1. \A n \in Mails : at'[n] = IF n \in Content[b] THEN "away" ELSE at[n]
    BY <1>3 DEF Reply
  <2>2. \A c \in Batches : c # b => place'[c] = place[c]
    BY <1>3 DEF Reply, TypeOK
  <2>3. /\ held' = held \ {b}
        /\ UNCHANGED <<proc, connected, cancelled, copies, breaks>>
        /\ nacked \subseteq nacked'
        /\ ~Erred(b) \/ b \in nacked'
    BY <1>3 DEF Reply
  <2>4. Steady' /\ InHand'
    BY <2>1, <2>3
  <2>5. breaks = 0 => connected
    BY <1>3 DEF Reply, AckInv, DownIsEmpty, TypeOK
  <2>6. breaks = 0 /\ ~Erred(b) => place'[b] = "acked"
    BY <1>3, <2>5 DEF Reply, Answer, TypeOK
  <2>7. OnceSoFar'
    <3> SUFFICES ASSUME breaks' = 0, NEW c \in Batches \ nacked', NEW n \in Content[c]
                 PROVE  /\ copies'[n] <= 1
                        /\ copies'[n] = 1 => \/ place'[c] = "acked"
                                             \/ place'[c] = "unacked" /\ at'[n] = "done"
      OBVIOUS
    <3>1. c \in Batches \ nacked /\ n \in Mails /\ breaks = 0
      BY <2>3, AnalyzerAssumption
    <3>2. CASE c = b
      BY <2>3, <2>6, <3>1, <3>2
    <3>3. CASE c # b
      <4>1. n \notin Content[b]
        BY <3>3, AnalyzerAssumption
      <4> QED
        BY <2>1, <2>2, <2>3, <3>1, <3>3, <4>1
    <3> QED
      BY <3>2, <3>3
  <2> QED
    BY <2>4, <2>7
<1> QED
  BY <1>1, <1>2, <1>3

\* In every run without a broken connection, process or publication, a mail
\* is published once, or its batch was returned for an error
\* (consumer.go:124-145).
THEOREM CopiesOnlyAfterFailure == Spec => []CopiesNeedFailure
<1>1. Init => CopyInv
  BY AnalyzerAssumption DEF Init, CopyInv, Steady, InHand, OnceSoFar
<1>2. TypeOK /\ AckInv /\ CopyInv /\ [Next]_vars => CopyInv'
  <2> SUFFICES ASSUME TypeOK, AckInv, CopyInv, [Next]_vars PROVE CopyInv'
    OBVIOUS
  <2>1. CASE Tick \/ ModelRecovers \/ UNCHANGED vars
    BY <2>1 DEF Tick, ModelRecovers, vars, broker, process, history, CopyInv, Steady, InHand, OnceSoFar
  <2> QED
    BY <2>1, CopyProcess, CopyMail, CopyBatch DEF Next
<1>3. TypeOK /\ CopyInv => CopiesNeedFailure
  BY AnalyzerAssumption DEF CopyInv, OnceSoFar, CopiesNeedFailure, TypeOK
<1> QED
  BY <1>1, <1>2, <1>3, TypeCorrect, AckInvariant, PTL DEF Spec

-----------------------------------------------------------------------------
(***************************************************************************)
(* What is in hand: a mail is somewhere in ConvertEmail only while a       *)
(* consumer handles its batch.                                             *)
(***************************************************************************)
WorkIsHeld == \A m \in Mails : at[m] # "away" => \E b \in held \ Garbled : m \in Content[b]

\* A worker's step leaves the others' mails alone, and starts with a mail in
\* hand.
LEMMA MailInPlace ==
  ASSUME TypeOK, NEW m \in Mails, MailStep(m)
  PROVE  /\ at[m] # "away"
         /\ \A n \in Mails \ {m} : UNCHANGED <<at[n], calls[n]>>
         /\ UNCHANGED held
<1> USE DEF TypeOK, CB!TypeOK, CB!Goto, Move
<1>1. CASE ReadState(m)
  BY <1>1 DEF ReadState, CB!ReadState
<1>2. CASE Admit(m)
  BY <1>2 DEF Admit, CB!GoHalfOpen, CB!Begin
<1>3. CASE Reject(m) \/ Fail(m) \/ Succeed(m)
  BY <1>3 DEF Reject, CB!Reject, Fail, CB!Fail, Succeed, CB!Succeed
<1>4. CASE CheckState(m) \/ BadAnswer(m) \/ PublishMessage(m) \/ PublishFails(m) \/ PublishLost(m)
  BY <1>4 DEF CheckState, BadAnswer, PublishMessage, PublishFails, PublishLost, Publishing, breaker
<1> QED
  BY <1>1, <1>2, <1>3, <1>4 DEF MailStep, Analyse

\* A step of the process keeps what is in hand, or all of it is gone.
LEMMA ProcessInPlace ==
  ASSUME Process \/ Tick \/ ModelRecovers \/ UNCHANGED vars
  PROVE  \/ UNCHANGED <<held, at, calls>>
         \/ \A m \in Mails : at'[m] = "away"
BY DEF Process, Start, ConsumeMessage, ConnectionLost, Sigterm, CloseConnection, Exit, Crash,
       Gone, Tick, CB!Tick, ModelRecovers, vars, breaker

LEMMA WorkIsHeldStep == TypeOK /\ WorkIsHeld /\ [Next]_vars => WorkIsHeld'
<1> SUFFICES ASSUME TypeOK, WorkIsHeld, [Next]_vars PROVE WorkIsHeld'
  OBVIOUS
<1> USE DEF WorkIsHeld
<1>1. ASSUME NEW b \in Batches, Publish(b) PROVE WorkIsHeld'
  BY <1>1 DEF Publish
<1>2. ASSUME NEW b \in Batches, Take(b) PROVE WorkIsHeld'
  BY <1>2 DEF Take
<1>3. ASSUME NEW b \in Batches, Reply(b) PROVE WorkIsHeld'
  BY <1>3 DEF Reply
<1>4. ASSUME NEW m \in Mails, MailStep(m) PROVE WorkIsHeld'
  BY <1>4, MailInPlace
<1>5. CASE Process \/ Tick \/ ModelRecovers \/ UNCHANGED vars
  BY <1>5, ProcessInPlace
<1> QED
  BY <1>1, <1>2, <1>3, <1>4, <1>5 DEF Next

LEMMA WorkIsHeldAlways == Spec => []WorkIsHeld
<1>1. Init => WorkIsHeld
  BY DEF Init, WorkIsHeld
<1> QED
  BY <1>1, WorkIsHeldStep, TypeCorrect, PTL DEF Spec

-----------------------------------------------------------------------------
(***************************************************************************)
(* What core and the collector see of the analyzer.                        *)
(***************************************************************************)
\* A step that the broker answers with a redelivery at most.
LEMMA SameLifecycle ==
  ASSUME Requeue \/ UNCHANGED place
  PROVE  \A b \in Batches : Lifecycle(b)' = Lifecycle(b)
BY DEF Requeue, Lifecycle

LEMMA LifecycleSteps ==
  ASSUME TypeOK, AckInv, WorkIsHeld, AckedMeansPublished', [Next]_vars
  PROVE  [PE!Next]_(PE!vars)
<1> DEFINE On == [b \in Batches |-> Lifecycle(b)]
           Same == \A b \in Batches : Lifecycle(b)' = Lifecycle(b)
<1>1. Same => UNCHANGED On
  OBVIOUS
<1>2. ASSUME NEW b \in Batches, Publish(b) PROVE PE!Next
  <2>1. UNCHANGED copies
    BY <1>2 DEF Publish, history
  <2>2. /\ On[b] = "new"
        /\ \E p \in {"queued", "lost"} : On' = [On EXCEPT ![b] = p]
    BY <1>2 DEF Publish, Lifecycle, TypeOK
  <2> HIDE DEF On
  <2>3. PE!Publish(b)
    BY <2>1, <2>2 DEF PE!Publish, On
  <2> QED
    BY <2>3 DEF PE!Next
<1>3. ASSUME NEW b \in Batches, Take(b) PROVE Same /\ UNCHANGED copies
  BY <1>3 DEF Take, Lifecycle, TypeOK, history
<1>4. ASSUME NEW b \in Batches, Reply(b) PROVE PE!Next \/ (Same /\ UNCHANGED copies)
  <2>1. UNCHANGED copies
    BY <1>4 DEF Reply
  <2>2. CASE ~connected
    BY <1>4, <2>1, <2>2 DEF Reply, Lifecycle
  <2>3. CASE connected
    <3>1. place[b] = "unacked" /\ place' = [place EXCEPT ![b] = Answer(b)]
      BY <1>4, <2>3 DEF Reply, AckInv, HeldIsUnacked
    <3>2. CASE Erred(b)
      BY <2>1, <3>1, <3>2 DEF Answer, Lifecycle, TypeOK
    <3>3. CASE ~Erred(b)
      <4>1. place'[b] = "acked"
        BY <3>1, <3>3 DEF Answer, TypeOK
      <4>2. \A m \in Content[b] : copies[m] > 0
        BY <2>1, <4>1 DEF AckedMeansPublished
      <4>3. On[b] = "queued" /\ On' = [On EXCEPT ![b] = "acked"]
        BY <3>1, <4>1 DEF Lifecycle, TypeOK
      <4> HIDE DEF On
      <4>4. PE!Acknowledge(b)
        BY <2>1, <4>2, <4>3 DEF PE!Acknowledge, On
      <4> QED
        BY <4>4 DEF PE!Next
    <3> QED
      BY <3>2, <3>3
  <2> QED
    BY <2>2, <2>3
<1>5. ASSUME NEW m \in Mails, PublishMessage(m) PROVE PE!Next
  <2>1. at[m] # "away" /\ connected /\ Same
    BY <1>5, SameLifecycle DEF PublishMessage, Publishing, broker
  <2>2. PICK b \in Batches : b \in held /\ m \in Content[b]
    BY <2>1 DEF WorkIsHeld, TypeOK
  <2>3. On[b] = "queued"
    BY <2>1, <2>2 DEF AckInv, HeldIsUnacked, Lifecycle
  <2>4. copies' = [copies EXCEPT ![m] = IF @ < 2 THEN @ + 1 ELSE @]
    BY <1>5 DEF PublishMessage
  <2>5. UNCHANGED On
    BY <1>1, <2>1
  <2> HIDE DEF On
  <2>6. PE!Parse(m)
    BY <2>2, <2>3, <2>4, <2>5 DEF PE!Parse, On
  <2> QED
    BY <2>6 DEF PE!Next
<1>6. ASSUME NEW m \in Mails, Analyse(m) PROVE Same /\ UNCHANGED copies
  <2>1. Requeue \/ UNCHANGED place
    BY <1>6 DEF Analyse, ReadState, Admit, Reject, Fail, Succeed, CheckState, BadAnswer,
                PublishFails, PublishLost, broker
  <2>2. UNCHANGED copies
    BY <1>6 DEF Analyse, ReadState, Admit, Reject, Fail, Succeed, CheckState, BadAnswer,
                PublishFails, PublishLost, history
  <2> QED
    BY <2>1, <2>2, SameLifecycle
<1>7. ASSUME Process \/ Tick \/ ModelRecovers \/ UNCHANGED vars
      PROVE  Same /\ UNCHANGED copies
  <2>1. Requeue \/ UNCHANGED place
    BY <1>7 DEF Process, Start, ConsumeMessage, ConnectionLost, Sigterm, CloseConnection, Exit,
                Crash, Gone, Tick, ModelRecovers, vars, broker
  <2>2. UNCHANGED copies
    BY <1>7 DEF Process, Start, ConsumeMessage, ConnectionLost, Sigterm, CloseConnection, Exit,
                Crash, Gone, Tick, ModelRecovers, vars, history
  <2> QED
    BY <2>1, <2>2, SameLifecycle
<1> HIDE DEF Same
<1>8. Same /\ UNCHANGED copies => UNCHANGED PE!vars
  BY <1>1 DEF PE!vars
<1> QED
  BY <1>2, <1>3, <1>4, <1>5, <1>6, <1>7, <1>8 DEF Next, MailStep

\* Whatever its workers, its breaker and its connections do, core and the
\* collector see batches that are acknowledged once with every mail
\* published, and no mail of a batch after that (mistral.go:88-111, 244-268,
\* consumer.go:124-145).
THEOREM AnalyzerKeepsPromise == Spec => MailsAsPromised
<1>1. Init => PE!Init
  BY DEF Init, PE!Init, Lifecycle
<1> QED
  BY <1>1, LifecycleSteps, TypeCorrect, AckInvariant, WorkIsHeldAlways, AcksOnlyPublished, PTL
     DEF Spec, MailsAsPromised, PE!Spec

-----------------------------------------------------------------------------
(***************************************************************************)
(* The end of ConvertEmail.                                                *)
(***************************************************************************)
LEMMA StageRises ==
  ASSUME TypeOK, NEW m \in Mails, MailStep(m)
  PROVE  Stage(m)' > Stage(m)
<1> USE DEF TypeOK, CB!TypeOK, CB!Goto, Move, Stage
<1>1. CASE ReadState(m)
  BY <1>1 DEF ReadState, CB!ReadState
<1>2. CASE Admit(m)
  BY <1>2 DEF Admit, CB!GoHalfOpen, CB!Begin
<1>3. CASE Reject(m)
  BY <1>3 DEF Reject, CB!Reject
<1>4. CASE Fail(m)
  BY <1>4 DEF Fail, CB!Fail
<1>5. CASE Succeed(m)
  BY <1>5 DEF Succeed, CB!Succeed
<1>6. CASE CheckState(m)
  BY <1>6 DEF CheckState
<1>7. CASE BadAnswer(m) \/ PublishMessage(m) \/ PublishFails(m) \/ PublishLost(m)
  BY <1>7 DEF BadAnswer, PublishMessage, PublishFails, PublishLost, Publishing
<1> QED
  BY <1>1, <1>2, <1>3, <1>4, <1>5, <1>6, <1>7 DEF MailStep, Analyse

LEMMA StageNat ==
  \A m \in Mails : Stage(m) \in Nat
BY DEF Stage

\* The handler of a batch waits for its workers only as long as they have
\* steps to take: with any number of workers, whatever fails, a mail in hand
\* is at most six steps of its own from done or in error, and no other step
\* takes it back (mistral.go:104-235).
THEOREM WorkAlwaysAdvances == Spec => WorkAdvances
<1> DEFINE Onward(m) ==
      at[m] # "away" /\ at'[m] # "away" =>
        /\ Stage(m)' >= Stage(m)
        /\ MailStep(m) => Stage(m)' > Stage(m)
           AllOnward == \A m \in Mails : Onward(m)
<1>1. TypeOK /\ AckInv /\ WorkIsHeld /\ [Next]_vars => [AllOnward]_vars
  <2> SUFFICES ASSUME TypeOK, AckInv, WorkIsHeld, [Next]_vars, NEW m \in Mails,
                      at[m] # "away", at'[m] # "away", ~MailStep(m)
               PROVE  Stage(m)' >= Stage(m)
    <3>1. ASSUME NEW m \in Mails, MailStep(m), TypeOK
          PROVE  Stage(m)' > Stage(m) /\ Stage(m)' >= Stage(m)
      <4>1. Stage(m) \in Nat /\ Stage(m)' \in Nat
        BY StageNat DEF Stage
      <4> HIDE DEF Stage
      <4> QED
        BY <3>1, <4>1, StageRises
    <3> QED
      BY <3>1
  <2>1. ASSUME UNCHANGED <<at[m], calls[m]>> PROVE Stage(m)' >= Stage(m)
    BY <2>1 DEF Stage
  <2>2. ASSUME NEW b \in Batches, Publish(b) \/ Take(b) \/ Reply(b)
        PROVE  UNCHANGED <<at[m], calls[m]>>
    <3>1. CASE Publish(b)
      BY <3>1 DEF Publish, breaker
    <3>2. CASE Take(b)
      <4>1. PICK c \in held : m \in Content[c]
        BY DEF WorkIsHeld
      <4>2. c # b
        BY <3>2, <4>1 DEF Take, AckInv, HeldIsUnacked
      <4>3. m \notin Content[b]
        BY <4>1, <4>2, AnalyzerAssumption DEF TypeOK
      <4> QED
        BY <3>2, <4>3 DEF Take, breaker
    <3>3. CASE Reply(b)
      BY <3>3 DEF Reply, breaker
    <3> QED
      BY <2>2, <3>1, <3>2, <3>3
  <2>3. ASSUME NEW n \in Mails, MailStep(n) PROVE UNCHANGED <<at[m], calls[m]>>
    BY <2>3, MailInPlace
  <2>4. CASE Process \/ Tick \/ ModelRecovers \/ UNCHANGED vars
    BY <2>1, <2>4, ProcessInPlace
  <2> QED
    BY <2>1, <2>2, <2>3, <2>4 DEF Next
<1>2. Spec => [][AllOnward]_vars
  BY <1>1, TypeCorrect, AckInvariant, WorkIsHeldAlways, PTL DEF Spec
<1> QED
  BY <1>2 DEF WorkAdvances
=============================================================================
