--------------------------- MODULE MCChildFrames ---------------------------
(***************************************************************************)
(* An instance of ChildFrames for TLC.                                     *)
(***************************************************************************)
EXTENDS ChildFrames

MCPages ==
  {<<"a", "a">>, <<"a", Absent>>, <<Absent, Absent>>, <<"a", Unsized>>}
=============================================================================
