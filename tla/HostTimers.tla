----------------------------- MODULE HostTimers -----------------------------
(***************************************************************************)
(* The host callback scheduler of a page (HostScheduler in silksurf-js/src *)
(* /boa_backend/mod.rs): setTimeout, setInterval, requestAnimationFrame    *)
(* and the three ways to clear them, run in ticks by run_host_callbacks.   *)
(*                                                                         *)
(* A tick takes a batch out of the queues and then calls it one callback   *)
(* at a time.  A callback is script: it registers and clears callbacks of  *)
(* every kind, those further down the batch included, and it may throw,    *)
(* which ends the tick.  An id is the number of its registration; the u32  *)
(* of the code does not wrap below 2^32 of them.                           *)
(***************************************************************************)
EXTENDS Lists, SequencesExt

CONSTANTS
  Delays,        \* the delays scripts ask for
  Budget,        \* max_timer_callbacks of one tick
  MaxCallbacks,  \* model bound: registrations of one behaviour
  MaxTime        \* model bound: the last instant

ASSUME TimersAssumption ==
  /\ Delays \subseteq Nat
  /\ Budget \in Nat \ {0}
  /\ MaxCallbacks \in Nat /\ MaxTime \in Nat

VARIABLES
  now,        \* Instant::now()
  timeouts,   \* HostScheduler::timeout_callbacks
  intervals,  \* HostScheduler::interval_callbacks
  frames,     \* HostScheduler::animation_frame_callbacks
  registry,   \* ids that have a callable in the host callback registry
  phase,      \* where run_host_callbacks is
  batch,      \* callbacks taken and not yet called
  running,    \* the callback whose script runs, or NoCallback
  registered, \* history: what was registered, by id
  runs,       \* history: how often each callback was started, up to RunsCap
  cleared,    \* history: ids that script cleared while they had a callable
  lost        \* history: callbacks a throw dropped from their batch

timerVars == <<now, timeouts, intervals, frames, registry, phase, batch, running,
          registered, runs, cleared, lost>>

Ids == 1..MaxCallbacks
NoCallback == 0
Kinds == {"timeout", "interval", "frame"}
Registered == DOMAIN registered

\* No callback with a positive delay starts this often in MaxTime.
RunsCap == MaxTime + 1

TimersInit ==
  /\ now = 0
  /\ timeouts = << >> /\ intervals = << >> /\ frames = << >>
  /\ registry = {}
  /\ phase = "idle" /\ batch = << >> /\ running = NoCallback
  /\ registered = << >>
  /\ runs = [id \in Ids |-> 0]
  /\ cleared = {} /\ lost = {}

-----------------------------------------------------------------------------
(***************************************************************************)
(* Script: page scripts and event handlers between ticks, the running      *)
(* callback within one.                                                    *)
(***************************************************************************)
ScriptRuns == phase = "idle" \/ running # NoCallback

\* register_host_callback and HostScheduler::schedule
Register(kind, delay) ==
  LET id == Len(registered) + 1 IN
  /\ ScriptRuns
  /\ id \in Ids /\ now + delay <= MaxTime
  /\ kind = "frame" => delay = 0
  /\ timeouts' = IF kind # "timeout" THEN timeouts
                 ELSE Append(timeouts, [id |-> id, due |-> now + delay])
  /\ intervals' = IF kind # "interval" THEN intervals
                  ELSE Append(intervals, [id |-> id, period |-> delay,
                                          next |-> now + delay])
  /\ frames' = IF kind # "frame" THEN frames ELSE Append(frames, id)
  /\ registry' = registry \cup {id}
  /\ registered' = Append(registered, [kind |-> kind, born |-> now, delay |-> delay])
  /\ UNCHANGED <<now, phase, batch, running, runs, cleared, lost>>

Without(queue, id) == Retain(queue, {e \in ToSet(queue) : e.id # id})

\* clear_host_callback and HostScheduler::cancel: any clear function takes an
\* id of any kind, waiting, taken or over.
ClearQueuesOnly(id) ==
  /\ ScriptRuns
  /\ timeouts' = Without(timeouts, id)
  /\ intervals' = Without(intervals, id)
  /\ frames' = Retain(frames, Ids \ {id})
  /\ cleared' = cleared \cup ({id} \cap registry)
  /\ UNCHANGED <<now, registry, phase, batch, running, registered, runs, lost>>

Clear(id) ==
  /\ ScriptRuns
  /\ timeouts' = Without(timeouts, id)
  /\ intervals' = Without(intervals, id)
  /\ frames' = Retain(frames, Ids \ {id})
  /\ registry' = registry \ {id}
  /\ cleared' = cleared \cup ({id} \cap registry)
  /\ UNCHANGED <<now, phase, batch, running, registered, runs, lost>>

-----------------------------------------------------------------------------
(***************************************************************************)
(* take_timer_callbacks.  pos is the place in the vector the sort starts   *)
(* from, and breaks its ties.                                              *)
(***************************************************************************)
DueTimeouts ==
  { [id |-> timeouts[i].id, repeat |-> FALSE, due |-> timeouts[i].due,
     pos |-> i] : i \in {j \in DOMAIN timeouts : timeouts[j].due <= now} }

DueIntervals ==
  { [id |-> intervals[i].id, repeat |-> TRUE, due |-> intervals[i].next,
     pos |-> Len(timeouts) + i]
      : i \in {j \in DOMAIN intervals : intervals[j].next <= now} }

EarlierRegistered(a, b) == a.pos < b.pos
Earlier(a, b) == a.due < b.due \/ (a.due = b.due /\ a.pos < b.pos)

Due == InOrder(DueTimeouts \cup DueIntervals, Earlier)

Callbacks(due) ==
  [i \in DOMAIN due |-> [id |-> due[i].id, repeat |-> due[i].repeat]]
Unlimited(due) == Callbacks(due)
WithinBudget(due) == Callbacks(SubSeq(due, 1, Min({Budget, Len(due)})))
Clipped(due) == SubSeq(due, Budget + 1, Len(due))

\* One-shots over the budget go back as due now; intervals have been re-armed.
NotRequeued(due) == << >>
Requeued(due) ==
  LET oneShots == Retain(Clipped(due), {c \in ToSet(due) : ~c.repeat})
  IN [i \in DOMAIN oneShots |-> [id |-> oneShots[i].id, due |-> now]]

NotRearmed(e) == e
Rearmed(e) == IF e.next <= now THEN [e EXCEPT !.next = now + e.period] ELSE e

\* next_deadline: what the event loop sleeps until.
DeadlinesOfIntervals ==
  {intervals[i].next : i \in DOMAIN intervals}
    \cup (IF frames = << >> THEN {} ELSE {now})
Deadlines ==
  {timeouts[i].due : i \in DOMAIN timeouts}
    \cup {intervals[i].next : i \in DOMAIN intervals}
    \cup (IF frames = << >> THEN {} ELSE {now})

WakeDue == \E d \in Deadlines : d <= now

\* has_pending_callbacks
Pending == timeouts # << >> \/ intervals # << >> \/ frames # << >>

\* run_host_callbacks up to its first call.  Input, network and other work
\* also tick the runtime, before any deadline.
BeginTick ==
  /\ phase = "idle" /\ Pending
  /\ batch' = WithinBudget(Due)
  /\ timeouts' = Retain(timeouts, {t \in ToSet(timeouts) : t.due > now}) \o Requeued(Due)
  /\ intervals' = [i \in DOMAIN intervals |-> Rearmed(intervals[i])]
  /\ phase' = "timers"
  /\ UNCHANGED <<now, frames, registry, running, registered, runs, cleared, lost>>

\* call_registered_callback: an id without a callable is skipped, a one-shot
\* gives up its callable before it is called.
CallNext ==
  /\ phase # "idle" /\ running = NoCallback /\ batch # << >>
  /\ LET c == Head(batch) IN
       \/ /\ c.id \notin registry
          /\ UNCHANGED <<registry, running, runs>>
       \/ /\ c.id \in registry
          /\ registry' = IF c.repeat THEN registry ELSE registry \ {c.id}
          /\ running' = c.id
          /\ runs' = [runs EXCEPT ![c.id] = IF @ = RunsCap THEN @ ELSE @ + 1]
  /\ batch' = Tail(batch)
  /\ UNCHANGED <<now, timeouts, intervals, frames, phase, registered, cleared, lost>>

CallbackReturns ==
  /\ running # NoCallback
  /\ running' = NoCallback
  /\ UNCHANGED <<now, timeouts, intervals, frames, registry, phase, batch,
                 registered, runs, cleared, lost>>

\* The error leaves run_host_callbacks and with it the rest of the batch.
CallbackThrows ==
  /\ running # NoCallback
  /\ running' = NoCallback
  /\ batch' = << >>
  /\ phase' = "idle"
  /\ lost' = lost \cup {c.id : c \in {d \in ToSet(batch) : ~d.repeat}}
  /\ UNCHANGED <<now, timeouts, intervals, frames, registry, registered, runs,
                 cleared>>

\* take_animation_frame_callbacks
BeginFrames ==
  /\ phase = "timers" /\ running = NoCallback /\ batch = << >>
  /\ batch' = [i \in DOMAIN frames |->
                 [id |-> frames[i], repeat |-> FALSE]]
  /\ frames' = << >>
  /\ phase' = "frames"
  /\ UNCHANGED <<now, timeouts, intervals, registry, running, registered, runs,
                 cleared, lost>>

EndTick ==
  /\ phase = "frames" /\ running = NoCallback /\ batch = << >>
  /\ phase' = "idle"
  /\ UNCHANGED <<now, timeouts, intervals, frames, registry, batch, running,
                 registered, runs, cleared, lost>>

TimePasses ==
  /\ now < MaxTime /\ now' = now + 1
  /\ UNCHANGED <<timeouts, intervals, frames, registry, phase, batch, running,
                 registered, runs, cleared, lost>>

-----------------------------------------------------------------------------
Script ==
  \/ \E kind \in Kinds, delay \in Delays : Register(kind, delay)
  \/ \E id \in Registered : Clear(id)

CallbackEnds == CallbackReturns \/ CallbackThrows

TimersNext ==
  \/ Script \/ BeginTick \/ CallNext \/ CallbackEnds
  \/ BeginFrames \/ EndTick \/ TimePasses

TimersSpec == TimersInit /\ [][TimersNext]_timerVars

(***************************************************************************)
(* The event loop wakes at its deadline, a tick goes on, the script of a   *)
(* callback ends, time passes.                                             *)
(***************************************************************************)
TimersFairSpec ==
  /\ TimersSpec
  /\ WF_timerVars(BeginTick /\ WakeDue)
  /\ WF_timerVars(CallNext) /\ WF_timerVars(CallbackEnds)
  /\ WF_timerVars(BeginFrames) /\ WF_timerVars(EndTick)
  /\ WF_timerVars(TimePasses)

-----------------------------------------------------------------------------
(***************************************************************************)
(* Properties.                                                             *)
(***************************************************************************)
Callback == [id : Ids, repeat : BOOLEAN]

\* Type invariant; a tick never takes more timers than its budget.
TimersTypeOK ==
  /\ now \in 0..MaxTime
  /\ timeouts \in Seq([id : Ids, due : 0..MaxTime])
  /\ intervals \in Seq([id : Ids, period : Delays, next : Nat])
  /\ frames \in Seq(Ids)
  /\ registry \subseteq Ids
  /\ phase \in {"idle", "timers", "frames"}
  /\ batch \in Seq(Callback)
  /\ phase = "timers" => Len(batch) <= Budget
  /\ running \in Ids \cup {NoCallback}
  /\ registered \in Seq([kind : Kinds, born : 0..MaxTime, delay : Delays])
  /\ runs \in [Ids -> 0..RunsCap]
  /\ cleared \subseteq Ids /\ lost \subseteq Ids

Starts(id) == running = NoCallback /\ running' = id

\* A one-shot runs once and not before its delay; the k-th run of an interval
\* comes no earlier than k periods after its registration.
OnSchedule ==
  \A id \in Registered :
    /\ runs[id] * registered[id].delay <= now - registered[id].born
    /\ registered[id].kind # "interval" => runs[id] <= 1

\* A one-shot that script still waits for.
Waiting(id) == runs[id] = 0 /\ id \notin cleared \cup lost

DueTime(id) == registered[id].born + registered[id].delay

IsTimeout(id) == registered[id].kind = "timeout"

\* host_timers: "HTML timers order by deadline, not registration".  A callback
\* that starts was not cleared, not even by an earlier callback of the batch it
\* was already taken into; and a timeout starts only when no other waiting
\* timeout has an earlier deadline, or the same one and an earlier
\* registration, although ticks clip and requeue.
StartsInTurn ==
  [][/\ \A id \in cleared : ~Starts(id)
     /\ \A id, other \in Registered :
          /\ IsTimeout(id) /\ Starts(id)
          /\ IsTimeout(other) /\ other # id /\ Waiting(other)
          => \/ DueTime(id) < DueTime(other)
             \/ DueTime(id) = DueTime(other) /\ id < other]_timerVars

\* Nothing is forgotten: a one-shot waits in its queue or in the batch, an
\* interval that was not cleared stays armed; both keep their callable.
Queued(queue, id) == \E i \in DOMAIN queue : queue[i].id = id
NothingForgotten ==
  \A id \in Registered :
    CASE registered[id].kind = "interval" ->
           id \notin cleared => Queued(intervals, id) /\ id \in registry
      [] OTHER ->
           Waiting(id) => /\ id \in registry
                          /\ \/ Queued(timeouts, id) \/ Queued(batch, id)
                             \/ \E i \in DOMAIN frames : frames[i] = id

\* The queues, the batch under way and the registry of callables agree: the
\* budget is kept, nothing runs early or twice, nothing is forgotten.
TimersInv == TimersTypeOK /\ OnSchedule /\ NothingForgotten

\* Every timeout that is not cleared starts, unless a throw dropped it: the
\* deadline the event loop sleeps until covers it, and neither the budget nor
\* an interval without a delay starves it.  Registrations are bounded, so this
\* is a state the page reaches for good.
TimeoutsRun ==
  <>[](\A id \in Registered : IsTimeout(id) => ~Waiting(id))
=============================================================================
