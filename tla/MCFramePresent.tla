--------------------------- MODULE MCFramePresent ---------------------------
(***************************************************************************)
(* Instances of FramePresent for TLC.                                      *)
(***************************************************************************)
EXTENDS FramePresent
=============================================================================
