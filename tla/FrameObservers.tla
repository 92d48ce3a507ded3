--------------------------- MODULE FrameObservers ---------------------------
(***************************************************************************)
(* What a page is told about its own frames: ResizeObserver and            *)
(* IntersectionObserver (layout_observers.rs) and PerformanceObserver      *)
(* (performance_timeline.rs), both in silksurf-js/src/boa_backend, as the  *)
(* window's tick delivers them (repaint_runtime_host_callbacks in          *)
(* silksurf-app/src/runtime_repaint.rs).                                   *)
(*                                                                         *)
(* A tick does the pending work, which may complete a layout, then calls   *)
(* the layout observers whose measure changed, then the performance        *)
(* observers with the entries recorded since the last pass, and repaints   *)
(* once more when one was called.  Callbacks are script: they observe,     *)
(* unobserve, disconnect, take records and record entries, for themselves  *)
(* and for the observers further down.  Two flags say whether a pass has   *)
(* anything to do; the event loop sleeps when neither is set.              *)
(*                                                                         *)
(* Boxes are measured along the axis of scrolling only.  The order of the  *)
(* entries in one call is left out: a queue of the timeline is a bag.      *)
(***************************************************************************)
EXTENDS Integers, FiniteSets
LOCAL INSTANCE Sequences
LOCAL INSTANCE SequencesExt
LOCAL INSTANCE FiniteSetsExt

CONSTANTS
  Resizers,     \* ResizeObservers
  Onlookers,    \* IntersectionObservers, with the viewport as root
  Clockers,     \* PerformanceObservers
  Watched,      \* elements scripts observe
  Boxes,        \* border boxes of a layout: [y, height, edge]
  ViewHeight,   \* height of the viewport
  Wishes,       \* options of observe: [types, threshold, buffered]
  Marks,        \* thresholds of the onlookers, as <<numerator, denominator>>
  MaxMoves,     \* model bound: layouts and scrolls of one behaviour
  MaxObserves,  \* model bound: calls of layout observers by scripts
  MaxAsks,      \* model bound: calls by scripts
  MaxEntries    \* model bound: entries of the timeline

\* Boxes have a size, edges (border and padding) no larger, thresholds are in [0, 1].
ASSUME ObserversAssumption ==
  /\ \A b \in Boxes : b.height \in Nat /\ b.edge \in 0..b.height /\ b.y \in Int
  /\ ViewHeight \in Nat
  /\ \A m \in Marks : m[1] \in 0..m[2] /\ m[2] > 0
  /\ \A w \in Wishes : w.types # {} /\ w.threshold \in Nat /\ w.buffered \in BOOLEAN
  /\ {MaxMoves, MaxObserves, MaxAsks, MaxEntries} \subseteq Nat

VARIABLES
  boxes,         \* PageGeometry::boxes; NoBox for an element without one
  scrollY,       \* PageGeometry::scroll_y
  observations,  \* the registry of layout observations
  layoutQueue,   \* _queue of each layout observer
  obsCount,      \* observation_count
  obsPending,    \* observation_pending
  made,          \* every entry of the timeline, in the order of recording
  sink,          \* performance_sink: entries the engine recorded, by number
  timeline,      \* entries of the JS half, by number
  undelivered,   \* entries awaiting routing, by number
  watches,       \* registrations of performance observers
  perfQueue,     \* _queue of each performance observer
  perfPending,   \* performance_pending
  pass,          \* where the tick is
  due,           \* layout observers collected and not yet called
  cursor,        \* index of the delivery loop of the timeline
  called,        \* the observer whose callback runs, or Nobody
  ran,           \* whether this tick has called an observer
  moves, asks,   \* model bounds
  told,          \* history: the last measure an observer got of a target
  wanted,        \* history: entries recorded for a registration that stands
  heard,         \* history: how often an observer was given an entry
  buffered,      \* history: how often an observer asked for the buffer
  reordered      \* history: a callback changed the registrations of this pass

layoutVars == <<boxes, scrollY, observations, layoutQueue, obsCount, obsPending, told>>
perfVars == <<made, sink, timeline, undelivered, watches, perfQueue, perfPending,
              wanted, heard, buffered, reordered>>
passVars == <<pass, due, cursor, called, ran>>
observerVars == <<layoutVars, perfVars, passVars, moves, asks>>

NoBox == [y |-> 0, height |-> 0, edge |-> 0]
Nobody == "nobody"
Nothing == <<"nothing">>
LayoutObservers == Resizers \cup Onlookers
Entries == 1..MaxEntries
NoRecords == [e \in Entries |-> 0]
Sizes == {"content-box", "border-box"}

FrameObserversInit ==
  /\ boxes = [t \in Watched |-> NoBox] /\ scrollY = 0
  /\ observations = << >>
  /\ layoutQueue = [o \in LayoutObservers |-> << >>]
  /\ obsCount = 0 /\ obsPending = FALSE
  /\ made = << >> /\ sink = {} /\ timeline = {} /\ undelivered = {}
  /\ watches = << >> /\ perfQueue = [c \in Clockers |-> NoRecords]
  /\ perfPending = FALSE
  /\ pass = "rest" /\ due = << >> /\ cursor = 1 /\ called = Nobody
  /\ ran = FALSE
  /\ moves = 0 /\ asks = 0
  /\ told = [o \in LayoutObservers |-> [t \in Watched |-> Nothing]]
  /\ wanted = [c \in Clockers |-> {}]
  /\ heard = [c \in Clockers |-> NoRecords]
  /\ buffered = [c \in Clockers |-> 0] /\ reordered = FALSE

-----------------------------------------------------------------------------
(***************************************************************************)
(* Geometry.                                                               *)
(***************************************************************************)
\* PageGeometry::get: an element without a box measures zero, at the origin
\* whatever the scroll.
Top(t) == IF boxes[t] = NoBox THEN 0 ELSE boxes[t].y - scrollY

\* intersection and thresholdIndex against the viewport.  A target without area
\* intersects when it lies within, edges included, with a ratio of one.
Band(t) ==
  LET height == boxes[t].height
      top == Max({Top(t), 0})
      bottom == Min({Top(t) + height, ViewHeight})
      overlaps == IF height > 0 THEN bottom > top ELSE bottom >= top
      Reached(m) == height = 0 \/ (bottom - top) * m[2] >= m[1] * height
  IN  <<"band", overlaps, IF overlaps THEN Cardinality({m \in Marks : Reached(m)}) ELSE 0>>

\* What resizeEntry and intersectionEntry compare with their last report.
Measure(o, t, box) ==
  IF o \in Onlookers THEN Band(t)
  ELSE <<"size", IF box = "border-box" THEN boxes[t].height
                 ELSE boxes[t].height - boxes[t].edge>>

MeasureNow(n) == Measure(n.observer, n.target, n.box)

\* request_layout_observation: a page without an observation is not marked.
Requested == obsPending \/ obsCount # 0

Scroll(y) ==
  /\ pass = "rest" /\ moves < MaxMoves /\ y # scrollY
  /\ scrollY' = y /\ moves' = moves + 1
  /\ obsPending' = Requested
  /\ UNCHANGED <<boxes, observations, layoutQueue, obsCount, told, perfVars, passVars, asks>>

\* A repaint of the tick's pending work completes a layout.
Relayout(laid) ==
  /\ pass \in {"work", "again"} /\ moves < MaxMoves /\ laid # boxes
  /\ boxes' = laid /\ moves' = moves + 1
  /\ obsPending' = Requested
  /\ UNCHANGED <<scrollY, observations, layoutQueue, obsCount, told, perfVars, passVars, asks>>

-----------------------------------------------------------------------------
(***************************************************************************)
(* Calls of scripts: event handlers and host callbacks outside the two     *)
(* passes, the callback that runs within one.                              *)
(***************************************************************************)
ByScript ==
  /\ pass \in {"rest", "work", "again"} \/ called # Nobody
  /\ asks < MaxAsks /\ asks' = asks + 1
  /\ UNCHANGED <<passVars, moves>>

Of(o, t) == {i \in DOMAIN observations :
               observations[i].observer = o /\ observations[i].target = t}
NewObservation(o, t, box) ==
  [observer |-> o, target |-> t, box |-> box, reported |-> FALSE, last |-> Nothing]

\* Mutant: the count is taken before the list changes.
CountBefore(list) == Len(observations)

\* __silksurfSyncLayoutObservationCount
SyncCount(list) == Len(list)

\* observe.  Observing again restarts a resize observation for another box and is
\* ignored by an IntersectionObserver.
ObserveBox(o, t, box) ==
  /\ ByScript
  /\ o \in Onlookers => box = "border-box"
  /\ IF Of(o, t) = {}
     THEN /\ observations' = Append(observations, NewObservation(o, t, box))
          /\ obsCount' = SyncCount(observations')
          /\ obsPending' = TRUE
     ELSE /\ o \in Resizers
          /\ observations' = [i \in DOMAIN observations |->
                 IF i \in Of(o, t) /\ observations[i].box # box
                 THEN [observations[i] EXCEPT !.box = box, !.reported = FALSE]
                 ELSE observations[i]]
          /\ obsPending' = TRUE
          /\ UNCHANGED obsCount
  /\ UNCHANGED <<boxes, scrollY, layoutQueue, told, perfVars>>

Unobserve(o, t) ==
  /\ ByScript
  /\ observations' = SelectSeq(observations,
                       LAMBDA n : ~(n.observer = o /\ n.target = t))
  /\ obsCount' = SyncCount(observations')
  /\ UNCHANGED <<boxes, scrollY, layoutQueue, obsPending, told, perfVars>>

DisconnectLayout(o) ==
  /\ ByScript
  /\ observations' = SelectSeq(observations, LAMBDA n : n.observer # o)
  /\ obsCount' = SyncCount(observations')
  /\ layoutQueue' = [layoutQueue EXCEPT ![o] = << >>]
  /\ UNCHANGED <<boxes, scrollY, obsPending, told, perfVars>>

\* The entries of a queue reach the script, the later of one target last.
Hear(o) ==
  told' = [told EXCEPT ![o] = [t \in Watched |->
             LET of == {i \in DOMAIN layoutQueue[o] : layoutQueue[o][i].target = t}
             IN  IF of = {} THEN told[o][t] ELSE layoutQueue[o][Max(of)].measure]]

TakeLayoutRecords(o) ==
  /\ ByScript /\ o \in Onlookers
  /\ Hear(o)
  /\ layoutQueue' = [layoutQueue EXCEPT ![o] = << >>]
  /\ UNCHANGED <<boxes, scrollY, observations, obsCount, obsPending, perfVars>>

-----------------------------------------------------------------------------
(***************************************************************************)
(* The timeline.                                                           *)
(***************************************************************************)
\* Whether a registration asks for an entry.
Matches(w, e) == e.type \in w.types /\ e.duration >= w.threshold

\* history: the registrations an entry is recorded under.
Want(e) ==
  wanted' = [c \in Clockers |->
    IF \E i \in DOMAIN watches : watches[i].observer = c /\ Matches(watches[i], e)
    THEN wanted[c] \cup {Len(made) + 1} ELSE wanted[c]]

\* performance.mark, measure: append
Mark ==
  LET e == [type |-> "mark", duration |-> 0] IN
  /\ ByScript /\ Len(made) < MaxEntries
  /\ made' = Append(made, e) /\ Want(e)
  /\ timeline' = timeline \cup {Len(made')}
  /\ undelivered' = undelivered \cup {Len(made')}
  /\ perfPending' = TRUE
  /\ UNCHANGED <<layoutVars, sink, watches, perfQueue, heard, buffered, reordered>>

\* record_long_task and the end of a fetch: record, while the engine runs the
\* tick's callbacks.
Record(duration) ==
  LET e == [type |-> "longtask", duration |-> duration] IN
  /\ pass \in {"work", "again"} /\ Len(made) < MaxEntries
  /\ made' = Append(made, e) /\ Want(e)
  /\ sink' = sink \cup {Len(made')}
  /\ perfPending' = TRUE
  /\ UNCHANGED <<layoutVars, passVars, moves, asks, timeline, undelivered, watches,
                 perfQueue, heard, buffered, reordered>>

\* Mutant: what is cleared from the buffer is not routed either.
ClearedUnrouted ==
  /\ ByScript
  /\ timeline' = {e \in timeline : made[e].type # "mark"}
  /\ undelivered' = undelivered \cap timeline'
  /\ UNCHANGED <<layoutVars, made, sink, watches, perfQueue, perfPending, wanted, heard,
                 buffered, reordered>>

\* clearMarks: the buffer forgets, the routing set does not.
ClearMarks ==
  /\ ByScript
  /\ timeline' = {e \in timeline : made[e].type # "mark"}
  /\ UNCHANGED <<layoutVars, made, sink, undelivered, watches, perfQueue, perfPending,
                 wanted, heard, buffered, reordered>>

Others(c) == SelectSeq(watches, LAMBDA w : w.observer # c)
InDelivery == pass = "timeline"

\* PerformanceObserver.observe: replaces the registration; buffered asks for what
\* the buffer holds, whatever its duration.
Watch(c, wish) ==
  LET old == {e \in timeline : wish.buffered /\ made[e].type \in wish.types} IN
  /\ ByScript
  /\ watches' = Append(Others(c), [observer |-> c, types |-> wish.types,
                                   threshold |-> wish.threshold])
  /\ perfQueue' = [perfQueue EXCEPT ![c] =
                     [e \in Entries |-> @[e] + IF e \in old THEN 1 ELSE 0]]
  /\ perfPending' = (perfPending \/ old # {})
  /\ wanted' = [wanted EXCEPT ![c] = {}]
  /\ buffered' = [buffered EXCEPT ![c] = @ + IF wish.buffered THEN 1 ELSE 0]
  /\ reordered' = (reordered \/ InDelivery)
  /\ UNCHANGED <<layoutVars, made, sink, timeline, undelivered, heard>>

\* PerformanceObserver.disconnect
Unwatch(c) ==
  /\ ByScript
  /\ watches' = Others(c)
  /\ perfQueue' = [perfQueue EXCEPT ![c] = NoRecords]
  /\ wanted' = [wanted EXCEPT ![c] = {}]
  /\ reordered' = (reordered \/ InDelivery)
  /\ UNCHANGED <<layoutVars, made, sink, timeline, undelivered, perfPending, heard,
                 buffered>>

\* Mutant: the records stay in the queue.
RecordsCopied(c) ==
  /\ heard' = [heard EXCEPT ![c] = [e \in Entries |-> @[e] + perfQueue[c][e]]]
  /\ UNCHANGED perfQueue

\* takeRecords, as scripts and the delivery call it
HearRecords(c) ==
  /\ heard' = [heard EXCEPT ![c] = [e \in Entries |-> @[e] + perfQueue[c][e]]]
  /\ perfQueue' = [perfQueue EXCEPT ![c] = NoRecords]

\* PerformanceObserver.takeRecords
TakeEntries(c) ==
  /\ ByScript
  /\ HearRecords(c)
  /\ UNCHANGED <<layoutVars, made, sink, timeline, undelivered, watches, perfPending,
                 wanted, buffered, reordered>>

-----------------------------------------------------------------------------
(***************************************************************************)
(* The tick.                                                               *)
(***************************************************************************)
\* The event loop wakes for a flag; other wake-ups tick as well.
BeginFrame ==
  /\ pass = "rest" /\ pass' = "work"
  /\ UNCHANGED <<layoutVars, perfVars, due, cursor, called, ran, moves, asks>>

\* A host callback throws: the tick ends without a delivery, the flags stay.
WorkFails ==
  /\ pass \in {"work", "again"} /\ pass' = "rest"
  /\ UNCHANGED <<layoutVars, perfVars, due, cursor, called, ran, moves, asks>>

Changed == {i \in DOMAIN observations :
              LET n == observations[i] IN ~n.reported \/ n.last # MeasureNow(n)}

EntriesOf(o) ==
  LET mine == SelectSeq([i \in DOMAIN observations |-> i],
                        LAMBDA i : i \in Changed /\ observations[i].observer = o)
  IN  [k \in DOMAIN mine |-> [target |-> observations[mine[k]].target,
                              measure |-> MeasureNow(observations[mine[k]])]]

\* The observers with a changed observation, in the order of the registry.
Collected ==
  LET first(o) == Min({i \in Changed : observations[i].observer = o})
  IN  SetToSortSeq({observations[i].observer : i \in Changed},
                   LAMBDA o, p : first(o) < first(p))

\* Mutant: an observer's queue starts anew with every entry.
QueuesRestarted ==
  [o \in LayoutObservers |->
     IF EntriesOf(o) = << >> THEN layoutQueue[o] ELSE <<Last(EntriesOf(o))>>]

\* The queues once the pass has collected: an observer's queue starts anew with
\* its first entry.
QueuesCollected ==
  [o \in LayoutObservers |->
     IF EntriesOf(o) = << >> THEN layoutQueue[o] ELSE EntriesOf(o)]

\* deliver_layout_observations: the flag is taken down before the pass collects.
CollectLayout ==
  /\ pass = "work" /\ pass' = "layout" /\ ran' = FALSE
  /\ obsPending' = FALSE
  /\ IF obsPending
     THEN /\ due' = Collected
          /\ layoutQueue' = QueuesCollected
          /\ observations' = [i \in DOMAIN observations |->
               IF i \notin Changed THEN observations[i]
               ELSE [observations[i] EXCEPT !.reported = TRUE,
                                            !.last = MeasureNow(observations[i])]]
     ELSE UNCHANGED <<due, layoutQueue, observations>>
  /\ UNCHANGED <<boxes, scrollY, obsCount, told, perfVars, cursor, called, moves, asks>>

CallLayoutObserver ==
  /\ pass = "layout" /\ called = Nobody /\ due # << >>
  /\ due' = Tail(due)
  /\ called' = IF layoutQueue[Head(due)] = << >> THEN Nobody ELSE Head(due)
  /\ ran' = (ran \/ called' # Nobody)
  /\ Hear(Head(due))
  /\ layoutQueue' = [layoutQueue EXCEPT ![Head(due)] = << >>]
  /\ UNCHANGED <<boxes, scrollY, observations, obsCount, obsPending, perfVars, pass,
                 cursor, moves, asks>>

\* A callback returns or throws: the pass goes on either way.
ReturnCalled ==
  /\ called # Nobody /\ called' = Nobody
  /\ cursor' = IF InDelivery THEN cursor + 1 ELSE cursor
  /\ UNCHANGED <<layoutVars, perfVars, pass, due, ran, moves, asks>>

\* The tick repaints once more when an observer was called.
AfterPasses == IF ran THEN "again" ELSE "rest"

\* How often a registration gets an entry of this pass.
RoutedTo(c, e, fresh) ==
  IF \E i \in DOMAIN watches :
       watches[i].observer = c /\ e \in fresh /\ Matches(watches[i], made[e])
  THEN 1 ELSE 0

\* deliver_performance_entries: drains the sink and routes what is undelivered.
RouteEntries ==
  LET fresh == undelivered \cup sink IN
  /\ pass = "layout" /\ called = Nobody /\ due = << >>
  /\ perfPending' = FALSE
  /\ IF perfPending
     THEN /\ pass' = "timeline" /\ cursor' = 1
          /\ timeline' = timeline \cup sink
          /\ sink' = {} /\ undelivered' = {}
          /\ perfQueue' = [c \in Clockers |-> [e \in Entries |->
                             perfQueue[c][e] + RoutedTo(c, e, fresh)]]
          /\ reordered' = FALSE
     ELSE /\ pass' = AfterPasses
          /\ UNCHANGED <<cursor, timeline, sink, undelivered, perfQueue, reordered>>
  /\ UNCHANGED <<layoutVars, made, watches, wanted, heard, buffered, due, called, ran,
                 moves, asks>>

\* The loop reads the list of registrations by index, as callbacks leave it.
CallClocker ==
  LET c == watches[cursor].observer IN
  /\ InDelivery /\ called = Nobody /\ cursor <= Len(watches)
  /\ IF perfQueue[c] = NoRecords
     THEN cursor' = cursor + 1 /\ UNCHANGED <<called, ran, heard, perfQueue>>
     ELSE called' = c /\ ran' = TRUE /\ HearRecords(c) /\ UNCHANGED cursor
  /\ UNCHANGED <<layoutVars, made, sink, timeline, undelivered, watches, perfPending,
                 wanted, buffered, reordered, pass, due, moves, asks>>

\* Mutant: the loop ends before the last registration.
EndsEarly ==
  /\ InDelivery /\ called = Nobody /\ cursor >= Len(watches)
  /\ pass' = AfterPasses
  /\ UNCHANGED <<layoutVars, perfVars, due, cursor, called, ran, moves, asks>>

EndTimeline ==
  /\ InDelivery /\ called = Nobody /\ cursor > Len(watches)
  /\ pass' = AfterPasses
  /\ UNCHANGED <<layoutVars, perfVars, due, cursor, called, ran, moves, asks>>

\* The work the callbacks left, and the end of the tick.
EndFrame ==
  /\ pass = "again" /\ pass' = "rest"
  /\ UNCHANGED <<layoutVars, perfVars, due, cursor, called, ran, moves, asks>>

GeometryCalls ==
  /\ asks < MaxObserves
  /\ \/ \E o \in LayoutObservers, t \in Watched :
          Unobserve(o, t) \/ \E box \in Sizes : ObserveBox(o, t, box)
     \/ \E o \in LayoutObservers : DisconnectLayout(o) \/ TakeLayoutRecords(o)

TimelineCalls ==
  \/ Mark \/ ClearMarks
  \/ \E c \in Clockers :
       (\E wish \in Wishes : Watch(c, wish)) \/ Unwatch(c) \/ TakeEntries(c)

\* What makes either registry move besides the tick.
GeometryMoves ==
  \/ \E y \in {0, ViewHeight} : Scroll(y)
  \/ \E laid \in [Watched -> Boxes \cup {NoBox}] : Relayout(laid)
  \/ GeometryCalls

TimelineMoves == TimelineCalls \/ \E duration \in {1, 2} : Record(duration)

FrameSteps ==
  \/ BeginFrame \/ WorkFails \/ CollectLayout \/ CallLayoutObserver \/ ReturnCalled
  \/ RouteEntries \/ CallClocker \/ EndTimeline \/ EndFrame

-----------------------------------------------------------------------------
FrameObserversTypeOK ==
  /\ boxes \in [Watched -> Boxes \cup {NoBox}] /\ scrollY \in Int
  /\ \A i \in DOMAIN observations :
       /\ observations[i].observer \in LayoutObservers
       /\ observations[i].target \in Watched /\ observations[i].box \in Sizes
  /\ obsCount \in Nat /\ obsPending \in BOOLEAN /\ perfPending \in BOOLEAN
  /\ sink \cup timeline \cup undelivered \subseteq DOMAIN made
  /\ \A i \in DOMAIN watches : watches[i].observer \in Clockers
  /\ perfQueue \in [Clockers -> [Entries -> Nat]]
  /\ pass \in {"rest", "work", "layout", "timeline", "again"}
  /\ due \in Seq(LayoutObservers) /\ cursor \in Nat \ {0}
  /\ called \in LayoutObservers \cup Clockers \cup {Nobody}

\* When the event loop may sleep, every observation has been reported and measures
\* what it reported: no layout, scroll or observe is forgotten between two passes.
SleepsUpToDate ==
  pass = "rest" /\ ~obsPending =>
    \A i \in DOMAIN observations :
      observations[i].reported /\ observations[i].last = MeasureNow(observations[i])

\* What an observation has recorded as reported is what its observer has last been
\* given of the target, or is about to be: recording ahead of the call loses nothing.
ReportedIsTold ==
  \A i \in DOMAIN observations :
    LET n == observations[i]
        waiting == {k \in DOMAIN layoutQueue[n.observer] :
                      layoutQueue[n.observer][k].target = n.target}
    IN  n.reported =>
          n.last = IF waiting = {} THEN told[n.observer][n.target]
                   ELSE layoutQueue[n.observer][Max(waiting)].measure

\* An entry recorded while a registration asked for it is never lost: as long as the
\* registration stands it is on its way to the observer or has been given to it,
\* whatever scripts clear from the buffer.
RecordedIsGiven ==
  \A c \in Clockers : \A e \in wanted[c] :
    e \in sink \cup undelivered \/ perfQueue[c][e] + heard[c][e] > 0

\* An observer gets an entry once, and once more for each time it asks for the buffer.
GivenOnce ==
  \A c \in Clockers, e \in Entries :
    perfQueue[c][e] + heard[c][e] <= 1 + buffered[c]

\* When the event loop may sleep, no entry is undelivered and no registered observer
\* has records waiting, unless a callback changed the registrations in mid-delivery.
SleepsDelivered ==
  pass = "rest" /\ ~perfPending =>
    /\ sink = {} /\ undelivered = {}
    /\ ~reordered => \A i \in DOMAIN watches : perfQueue[watches[i].observer] = NoRecords

\* The two observer registries: neither sleeps on what a page is owed.
FrameObserversInv ==
  /\ FrameObserversTypeOK
  /\ SleepsUpToDate /\ ReportedIsTold
  /\ RecordedIsGiven /\ GivenOnce /\ SleepsDelivered
=============================================================================
