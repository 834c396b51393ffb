---------------------------- MODULE MCModelCall ----------------------------
(***************************************************************************)
(* Two workers, three attempts with growing pauses, a limit of two.        *)
(***************************************************************************)
EXTENDS ModelCall

CONSTANTS w1, w2
=============================================================================
