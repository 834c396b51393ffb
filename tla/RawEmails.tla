----------------------------- MODULE RawEmails -----------------------------
(***************************************************************************)
(* What core promises to those behind it: the table emails_raw and the     *)
(* exchange raw_emails, without mailboxes, workers, syncs and failures.    *)
(* Rows are added one by one and stay; what is published is a batch of     *)
(* rows, at least one and at most MaxBatchSize, none of which was          *)
(* published before.  Module Analyzer takes from here that a mail is in    *)
(* one batch.                                                              *)
(***************************************************************************)
EXTENDS Naturals, Sequences, FiniteSets

CONSTANTS
  Rows,          \* what a row of emails_raw may say
  MaxBatchSize   \* maxBatchSize in syncer.go

VARIABLES
  emails,        \* emails_raw; the index of a row stands for its UUID
  sent           \* the batches on the exchange, in order

vars == <<emails, sent>>

Init ==
  /\ emails = <<>>
  /\ sent = <<>>

\* INSERT INTO emails_raw, under a fresh UUID.
Save ==
  /\ \E row \in Rows : emails' = Append(emails, row)
  /\ UNCHANGED sent

\* PublishEmailBatch.
Publish ==
  /\ \E batch \in SUBSET (1 .. Len(emails)) :
       /\ Cardinality(batch) \in 1 .. MaxBatchSize
       /\ \A p \in DOMAIN sent : sent[p] \cap batch = {}
       /\ sent' = Append(sent, batch)
  /\ UNCHANGED emails

Next == Save \/ Publish

Spec == Init /\ [][Next]_vars
=============================================================================
