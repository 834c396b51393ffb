----------------------------- MODULE MCMailSync -----------------------------
(***************************************************************************)
(* Small instances of MailSync.  i1 and i2 belong to one user and read two *)
(* mailboxes; m1 and m2 arrive in the first, m3 in the second, and m3 is   *)
(* m1 again: the same mail, sent to both addresses.                        *)
(***************************************************************************)
EXTENDS MailSync, TLC

CONSTANTS i1, i2, w1, w2, m1, m2, m3, u1, box1, box2, h1, h2

MCUser == i1 :> u1 @@ i2 :> u1
MCMailbox == i1 :> box1 @@ i2 :> box2
MCHome == m1 :> box1 @@ m2 :> box1 @@ m3 :> box2
MCHeader == m1 :> h1 @@ m2 :> h2 @@ m3 :> h1

\* Two messages only.
MCHome2 == m1 :> box1 @@ m2 :> box1
MCHeader2 == m1 :> h1 @@ m2 :> h2

MCHomeTwoBoxes == m1 :> box1 @@ m2 :> box2

NoFault == {}
AllFaults == FaultKinds

WorkerSymmetry == Permutations(Workers)
=============================================================================
