----------------------------- MODULE MCPrediction -----------------------------
(***************************************************************************)
(* A small instance of Prediction for TLC.                                 *)
(***************************************************************************)
EXTENDS Prediction

CONSTANTS job, page, g1, a1, a2, l1, none

=============================================================================
