---------------------------- MODULE MCPageEvents ----------------------------
(***************************************************************************)
(* How a page's scripts are told what happened: events along the tree of   *)
(* one document (EventDispatch, a document with one element) and messages  *)
(* between documents (WindowMessages).  A delivered message is dispatched  *)
(* as the gesture "message" of EventDispatch; the two share no state, so   *)
(* each is explored while the other rests: focus, fixed by the initial     *)
(* state, names the one that moves.                                        *)
(***************************************************************************)
EXTENDS EventDispatch, WindowMessages, TLC

CONSTANTS f, g

MCFirstParent == (0 :> NoTarget) @@ (1 :> 0)

Listener(node, type, capture, callback, once) ==
  [node |-> node, type |-> type, capture |-> capture, callback |-> callback,
   once |-> once]

MCAdds ==
  {Listener(1, "click", FALSE, f, once) : once \in BOOLEAN}
  \cup {Listener(1, "click", TRUE, g, FALSE), Listener(0, "click", FALSE, g, FALSE)}
MCRemoves ==
  {[node |-> 1, type |-> "click", capture |-> FALSE, callback |-> f]}
MCSends ==
  {[node |-> 1, type |-> "click", bubbles |-> TRUE, cancelable |-> TRUE]}
MCMoves == {[node |-> 1, to |-> NoTarget]}
MCGestures == {[kind |-> "click", node |-> 1], [kind |-> "key", node |-> 1],
               [kind |-> "message", node |-> Window]}

VARIABLE focus

eventsVars == <<dispatchVars, vars, focus>>

EventsInit == DispatchInit /\ Init /\ focus \in {"dispatch", "messages"}

EventsNext ==
  \/ focus = "dispatch" /\ DispatchNext /\ UNCHANGED <<vars, focus>>
  \/ focus = "messages" /\ Next /\ UNCHANGED <<dispatchVars, focus>>

EventsSpec == EventsInit /\ [][EventsNext]_eventsVars
=============================================================================
