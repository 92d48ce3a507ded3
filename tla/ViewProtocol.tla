---------------------------- MODULE ViewProtocol ----------------------------
(***************************************************************************)
(* What the engine worker promises a shell that only sees its events: the  *)
(* life of each view as ViewCreated, ViewClosed and LoadStateChanged tell  *)
(* it (LoadState in engine_protocol/message.rs).                           *)
(*                                                                         *)
(*   Absent -> Idle -> Loading -> Committed -> Interactive -> Complete     *)
(*                       |  \-> Failed                                     *)
(*                       \-> Idle (stopped)                                *)
(*                                                                         *)
(* A load starts only from rest, at most one view of the worker loads at a *)
(* time, and once a load commits nothing comes between its three events.   *)
(***************************************************************************)
CONSTANT Views

VARIABLE shown

AtRest(v) == shown[v] \in {"Idle", "Complete", "Failed"}

InBurst(v) == shown[v] \in {"Committed", "Interactive"}

Move(v, from, to) == shown[v] \in from /\ shown' = [shown EXCEPT ![v] = to]

Init == shown = [v \in Views |-> "Absent"]

Create(v) == Move(v, {"Absent"}, "Idle")

Start(v) ==
  /\ AtRest(v)
  /\ \A w \in Views : shown[w] # "Loading"
  /\ shown' = [shown EXCEPT ![v] = "Loading"]

Stop(v) == Move(v, {"Loading"}, "Idle")

Fail(v) == Move(v, {"Loading"}, "Failed")

Commit(v) ==
  \/ Move(v, {"Loading"}, "Committed")
  \/ Move(v, {"Committed"}, "Interactive")
  \/ Move(v, {"Interactive"}, "Complete")

Close(v) == Move(v, {"Idle", "Loading", "Complete", "Failed"}, "Absent")

Step(v) == Create(v) \/ Start(v) \/ Stop(v) \/ Fail(v) \/ Commit(v) \/ Close(v)

Next ==
  \E v \in Views :
    /\ \A w \in Views \ {v} : ~InBurst(w)
    /\ Step(v)

Spec == Init /\ [][Next]_shown
=============================================================================
