----------------------------- MODULE MCAnalyzer -----------------------------
(***************************************************************************)
(* A small instance of Analyzer: b1 has two mails, and b2 cannot be        *)
(* decoded.                                                                *)
(***************************************************************************)
EXTENDS Analyzer, TLC

CONSTANTS b1, b2, m1, m2

MCContent == b1 :> {m1, m2} @@ b2 :> {}

AllFaults == FaultKinds
=============================================================================
