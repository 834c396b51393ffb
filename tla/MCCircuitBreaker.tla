-------------------------- MODULE MCCircuitBreaker --------------------------
(***************************************************************************)
(* Four callers, the size of the analyzer's worker pool, and a limit of    *)
(* three: enough for stale readers, calls that were in flight at the trip, *)
(* and a probe, all at once.                                               *)
(***************************************************************************)
EXTENDS CircuitBreaker

CONSTANTS c1, c2, c3, c4
=============================================================================
