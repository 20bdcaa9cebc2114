------------------------------ MODULE Ingestion ------------------------------
(***************************************************************************)
(* What brings data in, side by side: the odds pollers, the import jobs    *)
(* and the import of files.  They write tables of their own.               *)
(***************************************************************************)
EXTENDS OddsPoll, Ingest, Import

IngestionSpec == Spec /\ IngestSpec /\ ImportSpec

(* Polls, runs and files in progress are what they should look like, and   *)
(* so is every row they have stored.                                       *)
IngestionTypeOK == OddsTypeOK /\ IngestTypeOK /\ ImportTypeOK

=============================================================================
