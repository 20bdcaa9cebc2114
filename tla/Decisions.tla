------------------------------ MODULE Decisions ------------------------------
(***************************************************************************)
(* The four uses of internal/decision side by side: recommendations,       *)
(* calibration reports, the monitoring pages and the backtest.  They share *)
(* no state.                                                               *)
(***************************************************************************)
EXTENDS Picks, Reports, Outcomes, Replay

ReplaySpec == ReplayInit /\ [][ReplayNext]_replayVars

DecisionSpec == PickSpec /\ ReportSpec /\ OutSpec /\ ReplaySpec

-----------------------------------------------------------------------------
(* Picks, rows of the log and replays are what they should look like. *)
DecisionTypeOK == PickTypeOK /\ OutTypeOK /\ ReplayTypeOK

(* Neither recommendations nor reports depend on the order in which what   *)
(* they are made of is listed.                                             *)
OrderFree == PicksOrderFree /\ ReportOrderFree

=============================================================================
