----------------------------- MODULE MCPipeline -----------------------------
(***************************************************************************)
(* A small instance of Pipeline: one batch of one mail.                    *)
(***************************************************************************)
EXTENDS Pipeline, TLC

CONSTANTS b1, m1, c1

MCContent == b1 :> {m1}

AllFaults == FaultKinds
AllCollectorFaults == {"db", "channel", "stop", "crash"}
=============================================================================
