---------------------------- MODULE ParsedEmails ----------------------------
(***************************************************************************)
(* What the analyzer promises to core before it and to the collector       *)
(* behind it, without consumers, workers, breaker, model and failures.  A  *)
(* batch is lost or queued when it is published, and stays queued until it *)
(* is acknowledged, once, with something published for each of its mails.  *)
(* A mail is published while its batch is queued, and never after that.    *)
(***************************************************************************)
EXTENDS Naturals

CONSTANTS
  Batches,   \* messages of the raw_emails exchange
  Mails,     \* email ids
  Content    \* [Batches -> SUBSET Mails]

VARIABLES
  on,        \* where each batch is; lost: there was no queue for it yet
  copies     \* parsed emails published per mail, up to 2

vars == <<on, copies>>

Init ==
  /\ on = [b \in Batches |-> "new"]
  /\ copies = [m \in Mails |-> 0]

\* core's PublishEmailBatch.
Publish(b) ==
  /\ on[b] = "new"
  /\ \E p \in {"queued", "lost"} : on' = [on EXCEPT ![b] = p]
  /\ UNCHANGED copies

\* The analyzer's PublishMessage.
Parse(m) ==
  /\ \E b \in Batches : m \in Content[b] /\ on[b] = "queued"
  /\ copies' = [copies EXCEPT ![m] = IF @ < 2 THEN @ + 1 ELSE @]
  /\ UNCHANGED on

\* Ack.
Acknowledge(b) ==
  /\ on[b] = "queued"
  /\ \A m \in Content[b] : copies[m] > 0
  /\ on' = [on EXCEPT ![b] = "acked"]
  /\ UNCHANGED copies

Next ==
  \/ \E b \in Batches : Publish(b) \/ Acknowledge(b)
  \/ \E m \in Mails : Parse(m)

Spec == Init /\ [][Next]_vars
=============================================================================
