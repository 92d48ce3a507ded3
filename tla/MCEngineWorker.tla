--------------------------- MODULE MCEngineWorker ---------------------------
(***************************************************************************)
(* Instances of EngineWorker for TLC.                                      *)
(***************************************************************************)
EXTENDS EngineWorker
=============================================================================
