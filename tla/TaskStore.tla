----------------------------- MODULE TaskStore -----------------------------
(***************************************************************************)
(* What the collector promises to its users and to the broker: a list with *)
(* at most one task per email, without instances, handlers, channels,      *)
(* failures and rows.  A task appears as pending, and only where there is  *)
(* none; from then on its user alone changes or deletes it; a message is   *)
(* acknowledged once, and not before its email has got a task.             *)
(***************************************************************************)
CONSTANTS
  Messages,   \* messages on the queue parsed_emails
  Emails,     \* email ids
  Email,      \* the email in a message
  Statuses    \* what a task's status may be

VARIABLES
  shown,      \* GET /tasks: the status of each email's task, or "none"
  stored,     \* the emails that have, or once had, a task
  acked       \* what the broker need not deliver again

vars == <<shown, stored, acked>>

Init ==
  /\ shown = [e \in Emails |-> "none"]
  /\ stored = {}
  /\ acked = {}

\* HandleEmailMessage, for a message about e.
Create(e) ==
  /\ shown[e] = "none"
  /\ shown' = [shown EXCEPT ![e] = "pending"]
  /\ stored' = stored \cup {e}
  /\ UNCHANGED acked

\* UpdateTask, CompleteTask and, to "none", DeleteTask.
Change(e) ==
  /\ shown[e] # "none"
  /\ \E s \in Statuses \cup {"none"} : shown' = [shown EXCEPT ![e] = s]
  /\ UNCHANGED <<stored, acked>>

\* Ack.
Acknowledge(m) ==
  /\ m \notin acked
  /\ Email[m] \in stored
  /\ acked' = acked \cup {m}
  /\ UNCHANGED <<shown, stored>>

Next ==
  \/ \E e \in Emails : Create(e) \/ Change(e)
  \/ \E m \in Messages : Acknowledge(m)

Spec == Init /\ [][Next]_vars
=============================================================================
