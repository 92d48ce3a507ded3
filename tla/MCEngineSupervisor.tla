------------------------- MODULE MCEngineSupervisor -------------------------
(***************************************************************************)
(* An instance of EngineSupervisor: every event is one unit of the byte    *)
(* budget, except a URL, which takes two.                                  *)
(***************************************************************************)
EXTENDS EngineSupervisor

MCWireBytes == [k \in EventKinds |-> IF k = "UrlChanged" THEN 2 ELSE 1]
=============================================================================
