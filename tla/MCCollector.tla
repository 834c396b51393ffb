---------------------------- MODULE MCCollector ----------------------------
(***************************************************************************)
(* A small instance of Collector: two instances of the service; m1 and m2  *)
(* are two copies of one parsed email, m3 is not valid JSON.               *)
(***************************************************************************)
EXTENDS Collector, TLC

CONSTANTS c1, c2, m1, m2, m3, e1

MCEmail == m1 :> e1 @@ m2 :> e1 @@ m3 :> None

AllFaults == FaultKinds
=============================================================================
