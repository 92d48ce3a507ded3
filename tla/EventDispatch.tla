--------------------------- MODULE EventDispatch ---------------------------
(***************************************************************************)
(* DOM event dispatch of the script host: boa_backend/event_dispatch.rs,   *)
(* the addEventListener family of dom_bridge.rs, and the synthesis of      *)
(* trusted events from native input in silksurf-app/src/js_events.rs.      *)
(*                                                                         *)
(* A dispatch is a loop of the host that calls back into the page at every *)
(* listener, so it is modelled as a stack of frames: a listener that is    *)
(* running may register and remove listeners, move nodes, raise the flags  *)
(* of any event it can name, and dispatch again, the event being           *)
(* dispatched included.  A frame keeps exactly what the loop keeps across  *)
(* a call: the path, the type and the bubbles flag read at the start, the  *)
(* position, and the entries of the list it copied on arrival.             *)
(*                                                                         *)
(* Callbacks are identities.  What an event carries besides its flags, the *)
(* wrapper objects that currentTarget names, and the repaint that follows  *)
(* a native event (MutationObservers has the dirty nodes) are left out.    *)
(***************************************************************************)
EXTENDS Lists, FiniteSetsExt, SequencesExt

CONSTANTS
  Elements,     \* the nodes of the document
  Window,       \* WINDOW_TARGET, above every path
  NoTarget,     \* the null of parent and of currentTarget
  FirstParent,  \* the tree a page starts with
  Adds,         \* the registrations a script may make
  Removes,      \* the removals a script may make
  Sends,        \* the events a script may dispatch
  Moves,        \* the nodes a script may move or detach
  Gestures,     \* the native inputs that may arrive
  MaxSteps,     \* model bound: steps scripts take
  MaxEvents     \* model bound: event objects

Targets == Elements \cup {Window}

\* The types native input is turned into, and the one of window messages.
Types == {"mousedown", "mouseup", "click", "keydown", "input", "keyup",
          "submit", "message"}

\* A node of the first tree lies deeper than its parent, which rules out cycles.
ASSUME TreeAssumption ==
  /\ IsFiniteSet(Elements) /\ Window \notin Elements /\ NoTarget \notin Targets
  /\ FirstParent \in [Elements -> Elements \cup {NoTarget}]
  /\ \E depth \in [Elements -> 0..Cardinality(Elements)] :
       \A n \in Elements : FirstParent[n] # NoTarget => depth[FirstParent[n]] < depth[n]

ASSUME DispatchAssumption ==
  /\ \A a \in Adds : /\ a.node \in Targets /\ a.type \in Types
                     /\ a.capture \in BOOLEAN /\ a.once \in BOOLEAN
  /\ \A r \in Removes : r.node \in Targets /\ r.type \in Types /\ r.capture \in BOOLEAN
  /\ \A s \in Sends : /\ s.node \in Targets /\ s.type \in Types
                      /\ s.bubbles \in BOOLEAN /\ s.cancelable \in BOOLEAN
  /\ \A m \in Moves : m.node \in Elements /\ m.to \in Elements \cup {NoTarget}
  /\ \A g \in Gestures : /\ g.kind \in {"click", "key", "submit", "message"}
                         /\ g.node \in Targets
  /\ MaxSteps \in Nat /\ MaxEvents \in Nat

VARIABLES
  parent,     \* the tree
  listeners,  \* __silksurfEventListeners: a list per target, type and phase
  counts,     \* __silksurfListenerTypeCounts
  events,     \* the event objects made so far
  stack,      \* the dispatches in progress, innermost first
  native,     \* the native input being turned into events
  steps,      \* steps scripts have taken; numbers the registrations
  fired       \* history: the registrations that have been called

dispatchVars == <<parent, listeners, counts, events, stack, native, steps,
                  fired>>

Lists == Targets \X Types \X BOOLEAN
NoEntry == [callback |-> NoTarget, once |-> FALSE, id |-> 0]
Idle == [queue |-> << >>, target |-> NoTarget, edits |-> FALSE,
         prevented |-> FALSE, asked |-> FALSE, done |-> TRUE]

DispatchInit ==
  /\ parent = FirstParent
  /\ listeners = [l \in Lists |-> << >>]
  /\ counts = [t \in Types |-> 0]
  /\ events = << >>
  /\ stack = << >>
  /\ native = Idle
  /\ steps = 0
  /\ fired = {}

-----------------------------------------------------------------------------
(* What a script does: at the top level, or inside the listener that runs. *)

ScriptRuns == IF stack = << >> THEN TRUE ELSE Head(stack).calling # NoEntry
ScriptStep == ScriptRuns /\ steps < MaxSteps /\ steps' = steps + 1

Holds(list, callback) == \E i \in DOMAIN list : list[i].callback = callback
Dropping(list, callback) ==
  Retain(list, {e \in ToSet(list) : e.callback # callback})

\* bump_listener_type_count downwards never passes zero.
Lowered(count, by) == IF count >= by THEN count - by ELSE 0

\* A listener that leaves its list is no longer owed to any dispatch.
Forgiven(node, type, capture, callback) ==
  [i \in DOMAIN stack |-> IF stack[i].type # type THEN stack[i] ELSE
     [stack[i] EXCEPT !.due = @ \ {[node |-> node, capture |-> capture,
                                     callback |-> callback]}]]

add_listener(a) ==
  LET l == <<a.node, a.type, a.capture>> IN
  /\ ScriptStep
  /\ IF Holds(listeners[l], a.callback)
     THEN UNCHANGED <<listeners, counts>>
     ELSE /\ listeners' = [listeners EXCEPT ![l] = Append(@,
               [callback |-> a.callback, once |-> a.once, id |-> steps + 1])]
          /\ counts' = [counts EXCEPT ![a.type] = @ + 1]
  /\ UNCHANGED <<parent, events, stack, native, fired>>

remove_listener(r) ==
  LET l    == <<r.node, r.type, r.capture>>
      kept == Dropping(listeners[l], r.callback)
  IN
  /\ ScriptStep
  /\ listeners' = [listeners EXCEPT ![l] = kept]
  /\ counts' = [counts EXCEPT ![r.type] = Lowered(@, Len(listeners[l]) - Len(kept))]
  /\ stack' = Forgiven(r.node, r.type, r.capture, r.callback)
  /\ UNCHANGED <<parent, events, native, fired>>

\* A script moves a node, or detaches it; a node never goes below itself.
PathUp(n) ==
  LET up[k \in 0..Cardinality(Elements)] ==
        IF k = 0 THEN <<n>>
        ELSE IF parent[Last(up[k - 1])] = NoTarget THEN up[k - 1]
        ELSE Append(up[k - 1], parent[Last(up[k - 1])])
  IN  up[Cardinality(Elements)]

MoveNode(m) ==
  /\ ScriptStep
  /\ m.to # NoTarget => m.node \notin ToSet(PathUp(m.to))
  /\ parent' = [parent EXCEPT ![m.node] = m.to]
  /\ UNCHANGED <<listeners, counts, events, stack, native, fired>>

\* stopPropagation, stopImmediatePropagation and preventDefault.
Visiting(i) == stack[i].stops[stack[i].at].node

RaiseFlag(e, immediate) ==
  LET inside == {i \in DOMAIN stack : stack[i].event = e /\ stack[i].at > 0} IN
  /\ ScriptStep
  /\ events' = [events EXCEPT ![e].stop = TRUE, ![e].immediate = @ \/ immediate,
                  ![e].stoppedIn = IF events[e].stop THEN @
                                   ELSE {Visiting(i) : i \in inside}]
  /\ UNCHANGED <<parent, listeners, counts, stack, native, fired>>

\* Mutant: an event that is not cancelable is prevented as well.
PreventAny(e) ==
  /\ ScriptStep
  /\ events' = [events EXCEPT ![e].prevented = TRUE]
  /\ UNCHANGED <<parent, listeners, counts, stack, native, fired>>

preventDefault(e) ==
  /\ ScriptStep
  /\ events' = [events EXCEPT ![e].prevented = @ \/ events[e].cancelable]
  /\ native' = [native EXCEPT !.asked =
                  @ \/ (events[e].cancelable /\ stack # << >> /\
                        Last(stack).event = e /\ Last(stack).trusted)]
  /\ UNCHANGED <<parent, listeners, counts, stack, fired>>

-----------------------------------------------------------------------------
(* propagate_event.                                                        *)

\* ancestor_path: window closes every path, and is all of its own.
ancestor_path(n) == IF n = Window THEN <<Window>> ELSE Append(PathUp(n), Window)

StopsAt(nodes, capture, phase) ==
  [i \in DOMAIN nodes |-> [node |-> nodes[i], capture |-> capture, phase |-> phase]]

\* Mutant: the target is left out of the target phase's capture list.
StopsSkippingCapture(n, bubbles) ==
  LET above == Tail(ancestor_path(n)) IN
    StopsAt(Reverse(above), TRUE, 1)
    \o <<[node |-> n, capture |-> FALSE, phase |-> 2]>>
    \o (IF bubbles THEN StopsAt(above, FALSE, 3) ELSE << >>)

\* The lists a dispatch visits: down the path, both lists of the target, and
\* up again when the event bubbles.
Stops(n, bubbles) ==
  LET above == Tail(ancestor_path(n)) IN
    StopsAt(Reverse(above), TRUE, 1)
    \o <<[node |-> n, capture |-> TRUE, phase |-> 2],
         [node |-> n, capture |-> FALSE, phase |-> 2]>>
    \o (IF bubbles THEN StopsAt(above, FALSE, 3) ELSE << >>)

ListOf(frame, k) ==
  listeners[<<frame.stops[k].node, frame.type, frame.stops[k].capture>>]

\* due is a history: the listeners on the path when the dispatch began.
Owed(n, event) ==
  UNION {{[node |-> at[1], capture |-> at[2], callback |-> en.callback]
            : en \in ToSet(listeners[<<at[1], event.type, at[2]>>])}
         : at \in {p \in ToSet(ancestor_path(n)) \X BOOLEAN :
                     p[1] = n \/ p[2] \/ event.bubbles}}

FrameOf(e, event, n, trusted, handler) ==
  [event |-> e, type |-> event.type, stops |-> Stops(n, event.bubbles), at |-> 0,
   entries |-> << >>, calling |-> NoEntry, trusted |-> trusted,
   handler |-> handler, due |-> Owed(n, event), heard |-> << >>]

NewEvent(type, bubbles, cancelable) ==
  [type |-> type, bubbles |-> bubbles, cancelable |-> cancelable,
   prevented |-> FALSE, stop |-> FALSE, immediate |-> FALSE, phase |-> 0,
   current |-> NoTarget, stoppedIn |-> {}]

\* dispatchEvent with a new object, and with one that was dispatched before
\* or is being dispatched: its flags are left as they are.
dispatch_event(s) ==
  LET event == NewEvent(s.type, s.bubbles, s.cancelable)
      e     == Len(events) + 1
  IN
  /\ ScriptStep /\ e <= MaxEvents
  /\ events' = Append(events, event)
  /\ stack' = <<FrameOf(e, event, s.node, FALSE, FALSE)>> \o stack
  /\ UNCHANGED <<parent, listeners, counts, native, fired>>

DispatchAgain(e, n) ==
  /\ ScriptStep
  /\ stack' = <<FrameOf(e, events[e], n, FALSE, FALSE)>> \o stack
  /\ UNCHANGED <<parent, listeners, counts, events, native, fired>>

Top == Head(stack)
TopEvent == events[Top.event]
WithTop(frame) == <<frame>> \o Tail(stack)
Between == stack # << >> /\ Top.calling = NoEntry

\* Mutant: only the immediate flag halts the walk.
AheadImmediateOnly(frame, event) ==
  {k \in frame.at + 1 .. Len(frame.stops) :
     ~event.immediate /\ ListOf(frame, k) # << >>}

\* The lists still to visit: none after stopImmediatePropagation, and after
\* stopPropagation only the second list of the target whose first one ran.
Ahead(frame, event) ==
  {k \in frame.at + 1 .. Len(frame.stops) :
     /\ ~event.immediate
     /\ event.stop => /\ frame.at > 0 /\ k = frame.at + 1
                      /\ frame.stops[frame.at].phase = 2
                      /\ frame.stops[k].phase = 2
     /\ ListOf(frame, k) # << >>}

\* invoke_listeners_at copies the list, empty ones have no effect.
Arrive ==
  LET ahead == Ahead(Top, TopEvent) IN
  /\ Between /\ Top.entries = << >> /\ ahead # {}
  /\ LET k == Min(ahead) IN
     /\ stack' = WithTop([Top EXCEPT !.at = k, !.entries = ListOf(Top, k)])
     /\ events' = [events EXCEPT ![Top.event].current = Top.stops[k].node,
                                 ![Top.event].phase = Top.stops[k].phase]
  /\ UNCHANGED <<parent, listeners, counts, native, steps, fired>>

Call ==
  /\ Between /\ Top.entries # << >> /\ ~TopEvent.immediate
  /\ LET entry == Head(Top.entries) IN
     /\ stack' = WithTop([Top EXCEPT !.calling = entry, !.entries = Tail(@),
                            !.heard = Append(@, [node |-> Top.stops[Top.at].node,
                                                 capture |-> Top.stops[Top.at].capture,
                                                 callback |-> entry.callback])])
     /\ fired' = fired \cup {entry.id}
  /\ UNCHANGED <<parent, listeners, counts, events, native, steps>>

\* Mutant: a spent entry is dropped without its place in the counter.
OnceUncounted(node, type, capture, callback) ==
  LET l == <<node, type, capture>> IN
  /\ listeners' = [listeners EXCEPT ![l] = Dropping(@, callback)]
  /\ UNCHANGED counts
  /\ stack' = WithTop([Top EXCEPT !.calling = NoEntry])

remove_once_entry(node, type, capture, callback) ==
  LET l    == <<node, type, capture>>
      kept == Dropping(listeners[l], callback)
  IN
  /\ listeners' = [listeners EXCEPT ![l] = kept]
  /\ counts' = [counts EXCEPT ![type] = Lowered(@, Len(listeners[l]) - Len(kept))]
  /\ stack' = LET rest == Forgiven(node, type, capture, callback)
              IN  <<[rest[1] EXCEPT !.calling = NoEntry]>> \o Tail(rest)

\* Mutant: only a listener that returns normally is taken for spent.
KeepOnce ==
  /\ stack # << >> /\ Top.calling # NoEntry
  /\ stack' = WithTop([Top EXCEPT !.calling = NoEntry])
  /\ UNCHANGED <<parent, listeners, counts, events, native, steps, fired>>

\* The listener returns, or throws: the loop goes on either way.
CallbackEnds ==
  /\ stack # << >> /\ Top.calling # NoEntry
  /\ IF Top.calling.once
     THEN remove_once_entry(Top.stops[Top.at].node, Top.type,
                            Top.stops[Top.at].capture, Top.calling.callback)
     ELSE /\ stack' = WithTop([Top EXCEPT !.calling = NoEntry])
          /\ UNCHANGED <<listeners, counts>>
  /\ UNCHANGED <<parent, events, native, steps, fired>>

Finished == /\ Between
            /\ TopEvent.immediate \/ (Top.entries = << >> /\ Ahead(Top, TopEvent) = {})

\* dispatch_window_message: the page's onmessage handler comes after every
\* listener of the window, if the page has one.
CallOnmessage ==
  /\ Finished /\ Top.handler /\ ~TopEvent.immediate
  /\ stack' = WithTop([Top EXCEPT !.handler = FALSE, !.at = Len(Top.stops),
                         !.calling = [NoEntry EXCEPT !.callback = Window]])
  /\ events' = [events EXCEPT ![Top.event].current = Window, ![Top.event].phase = 2]
  /\ UNCHANGED <<parent, listeners, counts, native, steps, fired>>

\* Mutant: the outcome of every dispatch counts for the native input.
EndAnyDispatch ==
  /\ Finished
  /\ stack' = Tail(stack)
  /\ events' = [events EXCEPT ![Top.event].current = NoTarget, ![Top.event].phase = 0]
  /\ native' = [native EXCEPT !.prevented = @ \/ TopEvent.prevented]
  /\ UNCHANGED <<parent, listeners, counts, steps, fired>>

EndDispatch ==
  /\ Finished
  /\ stack' = Tail(stack)
  /\ events' = [events EXCEPT ![Top.event].current = NoTarget, ![Top.event].phase = 0]
  /\ native' = IF Top.trusted
               THEN [native EXCEPT !.prevented =
                       @ \/ (TopEvent.cancelable /\ TopEvent.prevented)]
               ELSE native
  /\ UNCHANGED <<parent, listeners, counts, steps, fired>>

-----------------------------------------------------------------------------
(* Native input: one gesture is a sequence of trusted events, each sent    *)
(* only when some listener of its type exists (has_dom_listeners).         *)

Cancelable == {"click", "keydown", "submit"}
any_listener_for_type(type) == counts[type] >= 1

EventsOf(kind) ==
  CASE kind = "click"   -> <<"mousedown", "mouseup", "click">>
    [] kind = "key"     -> <<"keydown">>
    [] kind = "submit"  -> <<"submit">>
    [] kind = "message" -> <<"message">>

\* dispatch_native_click gives up when none of its three types is listened to.
Listened(kind) ==
  kind = "click" => \E i \in 1..3 : any_listener_for_type(EventsOf("click")[i])

BeginGesture(g) ==
  /\ stack = << >> /\ native.done /\ steps < MaxSteps
  /\ g.kind = "message" => g.node = Window
  /\ native' = [queue |-> IF Listened(g.kind) THEN EventsOf(g.kind) ELSE << >>,
                target |-> g.node, edits |-> g.kind = "key",
                prevented |-> FALSE, asked |-> FALSE, done |-> FALSE]
  /\ steps' = steps + 1
  /\ UNCHANGED <<parent, listeners, counts, events, stack, fired>>

\* dispatch_synthetic_event; a window message is sent whether or not anybody
\* listens, does not bubble, and its onmessage handler follows.
SendNative ==
  LET type == Head(native.queue) IN
  /\ stack = << >> /\ native.queue # << >>
  /\ native' = [native EXCEPT !.queue = Tail(@)]
  /\ IF any_listener_for_type(type) \/ type = "message"
     THEN /\ Len(events) < MaxEvents
          /\ LET event == NewEvent(type, type # "message", type \in Cancelable) IN
             /\ events' = Append(events, event)
             /\ stack' = <<FrameOf(Len(events) + 1, event, native.target, TRUE,
                                   type = "message")>>
     ELSE UNCHANGED <<events, stack>>
  /\ UNCHANGED <<parent, listeners, counts, steps, fired>>

\* The default action, unless the page prevented it: a key that is not
\* prevented may edit the field, and input and keyup follow if it does.
Decide ==
  /\ stack = << >> /\ native.queue = << >> /\ ~native.done
  /\ \/ /\ native.edits /\ ~native.prevented
        /\ native' = [native EXCEPT !.queue = <<"input", "keyup">>, !.edits = FALSE]
     \/ native' = [native EXCEPT !.done = TRUE]
  /\ UNCHANGED <<parent, listeners, counts, events, stack, steps, fired>>

ScriptActs ==
  \/ \E a \in Adds : add_listener(a)
  \/ \E r \in Removes : remove_listener(r)
  \/ \E m \in Moves : MoveNode(m)
  \/ \E s \in Sends : dispatch_event(s)
  \/ \E e \in DOMAIN events, s \in Sends : DispatchAgain(e, s.node)
  \/ \E e \in DOMAIN events, immediate \in BOOLEAN : RaiseFlag(e, immediate)
  \/ \E e \in DOMAIN events : preventDefault(e)

HostActs == Arrive \/ Call \/ CallbackEnds \/ CallOnmessage \/ EndDispatch
            \/ SendNative \/ Decide

DispatchNext == ScriptActs \/ HostActs \/ \E g \in Gestures : BeginGesture(g)

DispatchSpec == DispatchInit /\ [][DispatchNext]_dispatchVars

-----------------------------------------------------------------------------
(* Properties.                                                             *)

Entry == [callback : {en.callback : en \in Adds} \cup {NoTarget, Window},
          once : BOOLEAN, id : 0..MaxSteps]

\* The state has its shape: lists of entries, flags of events, frames whose
\* position is on their path (event_dispatch.rs).
DispatchTypeOK ==
  /\ parent \in [Elements -> Elements \cup {NoTarget}]
  /\ \A l \in Lists : \A i \in DOMAIN listeners[l] : listeners[l][i] \in Entry
  /\ counts \in [Types -> 0..MaxSteps]
  /\ Len(events) <= MaxEvents /\ steps \in 0..MaxSteps
  /\ \A e \in DOMAIN events :
       /\ events[e].current \in Targets \cup {NoTarget}
       /\ events[e].phase \in 0..3
       /\ events[e].immediate => events[e].stop
       /\ events[e].prevented => events[e].cancelable
  /\ \A i \in DOMAIN stack :
       /\ stack[i].event \in DOMAIN events
       /\ stack[i].at \in 0..Len(stack[i].stops)
       /\ stack[i].calling \in Entry

\* The registrations of a type, one for each place in each of its lists.
Registered(t) ==
  UNION {{<<p, i>> : i \in DOMAIN listeners[<<p[1], t, p[2]>>]} : p \in Targets \X BOOLEAN}

\* The counter that decides whether native input is turned into events at all
\* is the number of registered listeners of the type, whatever listeners do
\* to each other and to themselves while they run (bump_listener_type_count).
CountsExact == \A t \in Types : counts[t] = Cardinality(Registered(t))

\* A once listener that has been called is in its list only while it is still
\* running: remove_once_entry comes after the call, and before the next one.
SpentGone ==
  \A l \in Lists : \A i \in DOMAIN listeners[l] :
    LET entry == listeners[l][i] IN
      entry.once /\ entry.id \in fired =>
        \E k \in DOMAIN stack : stack[k].calling.id = entry.id

\* A dispatch that nobody stopped has called every listener that was on its
\* path when it began and was not removed since, and none twice, although the
\* tree, the lists and other dispatches change under it (propagate_event).
HearsExactlyOnce ==
  [][Len(stack') < Len(stack) =>
       /\ IsInjective(Top.heard)
       /\ ~TopEvent.stop => Top.due \subseteq ToSet(Top.heard)]_dispatchVars

\* After stopPropagation no listener of another node hears the event, in the
\* dispatch where it was called and in every other one of the same object.
StopHolds ==
  [][\A i \in DOMAIN stack' :
       (/\ Len(stack') = Len(stack) /\ stack'[i].heard # stack[i].heard
        /\ events[stack[i].event].stop) =>
           Visiting(i) \in events[stack[i].event].stoppedIn]_dispatchVars

\* Whoever listens hears an event once, until somebody stops it.
HeardOnceUntilStopped == HearsExactlyOnce /\ StopHolds

\* The default action of a native input is suppressed exactly when a listener
\* called preventDefault on the cancelable event of that input, and not on an
\* event a listener dispatched meanwhile (dispatch_native_click and others).
PreventedAsAsked ==
  stack = << >> /\ native.queue = << >> => native.prevented = native.asked

\* The bookkeeping of a page's listeners and of the events under way.
DispatchInv == DispatchTypeOK /\ CountsExact /\ SpentGone /\ PreventedAsAsked
=============================================================================
