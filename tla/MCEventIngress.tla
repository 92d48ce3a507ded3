--------------------------- MODULE MCEventIngress ---------------------------
(***************************************************************************)
(* An instance of EventIngress: three sizes of event, the largest of them  *)
(* alone filling the byte budget as one maximal envelope does.             *)
(***************************************************************************)
EXTENDS EventIngress

MCWireBytes ==
  [k \in EventKinds |->
     CASE k = "UrlChanged" -> 3
       [] k \in {"Error", "Started"} -> 2
       [] OTHER -> 1]
=============================================================================
