----------------------------- MODULE PageTickProofs -----------------------------
(***************************************************************************)
(* Proofs about the host queues of a page's tick, for every budget, every  *)
(* set of delays and every number of callbacks.                            *)
(*                                                                         *)
(* HostTimers.  That a timeout starts only when none that waits is due     *)
(* before it rests on the order the next tick will sort its queue in:      *)
(* a timeout a tick put back is due now, not at its own deadline, and      *)
(* still sorts where its deadline belongs (SortIsDue), and every timeout   *)
(* in the batch comes before those in the queue (BatchIsDue).  That an     *)
(* interval never runs ahead of its periods needs its next turn to count   *)
(* the run its batch still holds (IntervalsPaced).                         *)
(***************************************************************************)
EXTENDS HostTimers, ListFacts

\* The order timeouts are due in.
SoonerDue(a, b) == DueTime(a) < DueTime(b) \/ (DueTime(a) = DueTime(b) /\ a < b)
Kind(id) == registered[id].kind

\* What callbacks wait for: their kind's queue, a deadline that is their own or
\* the instant a tick put them back, and their next turn.
QueuesKnown ==
  /\ \A i \in DOMAIN timeouts :
       LET e == timeouts[i] IN
       /\ e.id \in Registered /\ IsTimeout(e.id)
       /\ e.due = DueTime(e.id) \/ (DueTime(e.id) <= e.due /\ e.due <= now)
  /\ \A i \in DOMAIN intervals :
       LET e == intervals[i] IN
       /\ e.id \in Registered /\ Kind(e.id) = "interval"
       /\ e.period = registered[e.id].delay
  /\ \A i \in DOMAIN frames : frames[i] \in Registered /\ Kind(frames[i]) = "frame"

SortsBefore(i, j) ==
  \/ timeouts[i].due < timeouts[j].due
  \/ timeouts[i].due = timeouts[j].due /\ i < j

\* The sort of the next tick puts the timeouts in the order they are due.
SortIsDue ==
  \A i, j \in DOMAIN timeouts :
    i # j /\ SortsBefore(i, j) => SoonerDue(timeouts[i].id, timeouts[j].id)

IntervalsOnce ==
  \A i, j \in DOMAIN intervals : i # j => intervals[i].id # intervals[j].id

Began(id, times) == registered[id].born + times * registered[id].delay

IntervalsPaced ==
  \A i \in DOMAIN intervals :
    LET id == intervals[i].id IN
    Began(id, runs[id] + IF Queued(batch, id) THEN 2 ELSE 1) <= intervals[i].next

BatchKnown ==
  /\ phase = "idle" => batch = << >> /\ running = NoCallback
  /\ \A k \in DOMAIN batch :
       LET c == batch[k] IN
       /\ c.id \in Registered
       /\ c.repeat <=> Kind(c.id) = "interval"
       /\ Kind(c.id) = "frame" <=> phase = "frames"
       /\ Began(c.id, IF c.repeat THEN runs[c.id] + 1 ELSE 1) <= now

BatchOnce ==
  \A k, l \in DOMAIN batch :
    k # l /\ batch[k].repeat /\ batch[l].repeat => batch[k].id # batch[l].id

BatchIsDue ==
  \A k \in DOMAIN batch : IsTimeout(batch[k].id) =>
    /\ \A l \in DOMAIN batch :
         k < l /\ IsTimeout(batch[l].id) => SoonerDue(batch[k].id, batch[l].id)
    /\ \A i \in DOMAIN timeouts : SoonerDue(batch[k].id, timeouts[i].id)

RegistryKnown ==
  /\ Registered \subseteq Ids
  /\ registry \subseteq Registered /\ cleared \subseteq Registered
  /\ cleared \cap registry = {}
  /\ \A id \in registry : Kind(id) # "interval" => runs[id] = 0
  /\ \A id \in Ids \ Registered : runs[id] = 0
  /\ \A id \in Registered :
       registered[id].born <= now /\ (Kind(id) = "frame" => registered[id].delay = 0)

\* The inductive invariant.
TimersIInv ==
  /\ TimersInv
  /\ QueuesKnown /\ SortIsDue /\ IntervalsOnce /\ IntervalsPaced
  /\ BatchKnown /\ BatchOnce /\ BatchIsDue /\ RegistryKnown

-----------------------------------------------------------------------------
(***************************************************************************)
(* Every step keeps the invariant.                                         *)
(***************************************************************************)
LEMMA TimersStart == TimersInit => TimersIInv
<1> SUFFICES ASSUME TimersInit PROVE TimersIInv
  OBVIOUS
<1> USE TimersAssumption DEF TimersInit
<1>1. TimersTypeOK
  BY DEF TimersTypeOK, Ids, NoCallback, RunsCap
<1>2. Registered = {}
  BY DEF Registered
<1>3. OnSchedule /\ NothingForgotten
  BY <1>2 DEF OnSchedule, NothingForgotten
<1>4. QueuesKnown /\ SortIsDue /\ IntervalsOnce /\ IntervalsPaced
  BY DEF QueuesKnown, SortIsDue, IntervalsOnce, IntervalsPaced
<1>5. BatchKnown /\ BatchOnce /\ BatchIsDue
  BY DEF BatchKnown, BatchOnce, BatchIsDue
<1>6. RegistryKnown
  BY <1>2 DEF RegistryKnown
<1> QED
  BY <1>1, <1>3, <1>4, <1>5, <1>6 DEF TimersIInv, TimersInv

LEMMA TimersRests == ASSUME TimersIInv, UNCHANGED timerVars PROVE TimersIInv'
BY DEF timerVars, TimersIInv, TimersInv, TimersTypeOK, OnSchedule, NothingForgotten, Queued,
   Waiting, QueuesKnown, SortIsDue, SortsBefore, SoonerDue, DueTime, IsTimeout, Kind,
   IntervalsOnce, IntervalsPaced, Began, BatchKnown, BatchOnce, BatchIsDue, RegistryKnown,
   Registered, Ids, Callback

Timeout == [id : Ids, due : 0..MaxTime]
Interval == [id : Ids, period : Delays, next : Nat]

\* What the queues hold.
LEMMA TimersQueues ==
  ASSUME TimersIInv
  PROVE  /\ timeouts \in Seq(Timeout) /\ DOMAIN timeouts = 1..Len(timeouts)
         /\ intervals \in Seq(Interval) /\ DOMAIN intervals = 1..Len(intervals)
         /\ frames \in Seq(Ids) /\ DOMAIN frames = 1..Len(frames)
         /\ batch \in Seq(Callback) /\ DOMAIN batch = 1..Len(batch)
         /\ Len(timeouts) \in Nat /\ Len(intervals) \in Nat
         /\ Len(frames) \in Nat /\ Len(batch) \in Nat
         /\ \A i \in DOMAIN timeouts :
              /\ timeouts[i] = [id |-> timeouts[i].id, due |-> timeouts[i].due]
              /\ timeouts[i].id \in Ids /\ timeouts[i].due \in 0..MaxTime /\ timeouts[i].due \in Nat
         /\ \A i \in DOMAIN intervals :
              /\ intervals[i].id \in Ids /\ intervals[i].next \in Nat
              /\ intervals[i].period \in Delays /\ intervals[i].period \in Nat
         /\ \A i \in DOMAIN frames : frames[i] \in Ids
         /\ \A i \in DOMAIN batch : batch[i].id \in Ids /\ batch[i].repeat \in BOOLEAN
<1>1. /\ timeouts \in Seq(Timeout) /\ intervals \in Seq(Interval)
      /\ frames \in Seq(Ids) /\ batch \in Seq(Callback)
  BY DEF TimersIInv, TimersInv, TimersTypeOK, Timeout, Interval
<1>2. /\ DOMAIN timeouts = 1..Len(timeouts) /\ DOMAIN intervals = 1..Len(intervals)
      /\ DOMAIN frames = 1..Len(frames) /\ DOMAIN batch = 1..Len(batch)
      /\ Len(timeouts) \in Nat /\ Len(intervals) \in Nat
      /\ Len(frames) \in Nat /\ Len(batch) \in Nat
  BY <1>1, SeqElements
<1>3. /\ \A i \in DOMAIN timeouts : timeouts[i] \in Timeout
      /\ \A i \in DOMAIN intervals : intervals[i] \in Interval
      /\ \A i \in DOMAIN frames : frames[i] \in Ids
      /\ \A i \in DOMAIN batch : batch[i] \in Callback
  BY <1>1, SeqElements, Zenon
<1>4. \A i \in DOMAIN timeouts :
        /\ timeouts[i] = [id |-> timeouts[i].id, due |-> timeouts[i].due]
        /\ timeouts[i].id \in Ids /\ timeouts[i].due \in 0..MaxTime /\ timeouts[i].due \in Nat
  BY <1>3, TimersAssumption DEF Timeout
<1>5. \A i \in DOMAIN intervals :
        /\ intervals[i].id \in Ids /\ intervals[i].next \in Nat
        /\ intervals[i].period \in Delays /\ intervals[i].period \in Nat
  BY <1>3, TimersAssumption DEF Interval
<1>6. \A i \in DOMAIN batch : batch[i].id \in Ids /\ batch[i].repeat \in BOOLEAN
  BY <1>3 DEF Callback
<1> QED
  BY <1>1, <1>2, <1>3, <1>4, <1>5, <1>6

\* What the numbers of the state are.
LEMMA TimersNumbers ==
  ASSUME TimersIInv
  PROVE  /\ now \in Nat /\ Registered = 1..Len(registered) /\ Len(registered) \in Nat
         /\ Registered \subseteq Ids /\ Ids \subseteq Nat
         /\ \A id \in Registered :
              /\ registered[id].delay \in Delays /\ registered[id].delay \in Nat
              /\ registered[id].born \in 0..MaxTime /\ registered[id].born <= now
              /\ registered[id].kind \in Kinds
              /\ DueTime(id) \in Nat
         /\ \A id \in Ids : runs[id] \in Nat
<1> USE TimersAssumption
<1>1. registered \in Seq([kind : Kinds, born : 0..MaxTime, delay : Delays])
  BY DEF TimersIInv, TimersInv, TimersTypeOK
<1>2. now \in Nat /\ Ids \subseteq Nat /\ \A id \in Ids : runs[id] \in Nat
  BY DEF TimersIInv, TimersInv, TimersTypeOK, Ids, RunsCap
<1>3. Registered \subseteq Ids /\ \A id \in Registered : registered[id].born <= now
  BY DEF TimersIInv, RegistryKnown
<1>4. Registered = 1..Len(registered) /\ Len(registered) \in Nat
  BY <1>1 DEF Registered
<1>5. ASSUME NEW id \in Registered
      PROVE  /\ registered[id].delay \in Delays /\ registered[id].delay \in Nat
             /\ registered[id].born \in 0..MaxTime /\ registered[id].kind \in Kinds
  <2>1. registered[id] \in [kind : Kinds, born : 0..MaxTime, delay : Delays]
    BY <1>1, SeqElements, Zenon DEF Registered
  <2> QED
    BY <2>1
<1>6. \A id \in Registered : DueTime(id) \in Nat
  BY <1>5 DEF DueTime
<1> QED
  BY <1>2, <1>3, <1>4, <1>5, <1>6

LEMMA OnceMore ==
  ASSUME NEW m \in Nat, NEW d \in Nat
  PROVE  m * d \in Nat /\ (m + 1) * d = m * d + d
OBVIOUS

LEMMA BeganInteger ==
  ASSUME TimersIInv, NEW id \in Registered, NEW n \in Nat
  PROVE  /\ Began(id, n) \in Nat /\ Began(id, n + 1) = Began(id, n) + registered[id].delay
         /\ Began(id, n) <= Began(id, n + 1)
<1>1. registered[id].delay \in Nat /\ registered[id].born \in Nat
  BY TimersNumbers, TimersAssumption
<1>2. n * registered[id].delay \in Nat
  BY <1>1, OnceMore
<1>3. (n + 1) * registered[id].delay = n * registered[id].delay + registered[id].delay
  BY <1>1, OnceMore
<1> QED
  BY <1>1, <1>2, <1>3 DEF Began

LEMMA IntervalKnown ==
  ASSUME TimersIInv, NEW i \in DOMAIN intervals
  PROVE  /\ intervals[i].id \in Registered /\ intervals[i].id \in Ids
         /\ Kind(intervals[i].id) = "interval"
         /\ intervals[i].period = registered[intervals[i].id].delay
         /\ runs[intervals[i].id] \in Nat
         /\ intervals[i].next \in Nat /\ intervals[i].period \in Nat
         /\ Began(intervals[i].id, runs[intervals[i].id] + 1) <= intervals[i].next
<1>1. /\ intervals[i].id \in Registered /\ Kind(intervals[i].id) = "interval"
      /\ intervals[i].period = registered[intervals[i].id].delay
  BY DEF TimersIInv, QueuesKnown
<1>2. /\ runs[intervals[i].id] \in Nat /\ intervals[i].id \in Ids
      /\ intervals[i].next \in Nat /\ intervals[i].period \in Nat
  BY <1>1, TimersNumbers, TimersQueues
<1> DEFINE id == intervals[i].id
           n == runs[id] + 1
<1>3. Began(id, n) <= Began(id, n + 1) /\ Began(id, n) \in Nat /\ Began(id, n + 1) \in Nat
  BY <1>1, <1>2, BeganInteger
<1>4. n + 1 = runs[id] + 2
  BY <1>2
<1>5. Began(id, runs[id] + IF Queued(batch, id) THEN 2 ELSE 1) <= intervals[i].next
  BY DEF TimersIInv, IntervalsPaced
<1>6. Began(id, n) <= intervals[i].next
  BY <1>2, <1>3, <1>4, <1>5
<1> QED
  BY <1>1, <1>2, <1>6

\* Nothing is due any more for time that passes.
LEMMA TimersWait == ASSUME TimersIInv, TimePasses PROVE TimersIInv'
<1>0. now \in Nat /\ now' = now + 1 /\ now' \in 0..MaxTime
  BY TimersAssumption DEF TimersIInv, TimersInv, TimersTypeOK, TimePasses
<1>1. UNCHANGED <<timeouts, intervals, frames, registry, phase, batch, running,
                  registered, runs, cleared, lost>>
  BY DEF TimePasses
<1>2. TimersTypeOK'
  BY <1>0, <1>1 DEF TimersIInv, TimersInv, TimersTypeOK, Callback
<1>3. OnSchedule'
  <2> SUFFICES ASSUME NEW id \in Registered
               PROVE  /\ runs[id] * registered[id].delay <= now' - registered[id].born
                      /\ registered[id].kind # "interval" => runs[id] <= 1
    BY <1>1 DEF OnSchedule, Registered
  <2>1. /\ runs[id] * registered[id].delay <= now - registered[id].born
        /\ registered[id].kind # "interval" => runs[id] <= 1
    BY DEF TimersIInv, TimersInv, OnSchedule
  <2>2. runs[id] * registered[id].delay \in Int /\ registered[id].born \in Int
    BY TimersNumbers
  <2> QED
    BY <1>0, <2>1, <2>2
<1>4. NothingForgotten'
  <2>1. NothingForgotten
    BY DEF TimersIInv, TimersInv
  <2> QED
    BY <1>1, <2>1 DEF NothingForgotten, Queued, Waiting, Registered
<1>5. QueuesKnown'
  <2>1. QueuesKnown
    BY DEF TimersIInv
  <2>2. \A i \in DOMAIN timeouts : timeouts[i].due <= now => timeouts[i].due <= now'
    <3>1. \A i \in DOMAIN timeouts : timeouts[i].due \in Nat
      BY TimersQueues
    <3> QED
      BY <1>0, <3>1
  <2> QED
    BY <1>1, <2>1, <2>2 DEF QueuesKnown, DueTime, IsTimeout, Kind, Registered
<1>6. SortIsDue' /\ IntervalsOnce' /\ IntervalsPaced' /\ BatchOnce' /\ BatchIsDue'
  <2>1. SortIsDue /\ IntervalsOnce /\ IntervalsPaced /\ BatchOnce /\ BatchIsDue
    BY DEF TimersIInv
  <2> QED
    BY <1>1, <2>1 DEF SortIsDue, SortsBefore, SoonerDue, DueTime, IntervalsOnce, IntervalsPaced,
       Began, Queued, BatchOnce, BatchIsDue, IsTimeout
<1>7. BatchKnown'
  <2>1. BatchKnown
    BY DEF TimersIInv
  <2>2. \A id \in Registered, n \in Nat : Began(id, n) <= now => Began(id, n) <= now'
    <3>1. \A id \in Registered, n \in Nat : Began(id, n) \in Int
      BY TimersNumbers DEF Began
    <3> QED
      BY <1>0, <3>1
  <2>3. \A id \in Registered : \A n : Began(id, n)' = Began(id, n)
    BY <1>1 DEF Began
  <2>4. Registered' = Registered /\ \A id : Kind(id)' = Kind(id)
    BY <1>1 DEF Registered, Kind
  <2>5. \A k \in DOMAIN batch : runs[batch[k].id] + 1 \in Nat
    BY <2>1, TimersNumbers DEF BatchKnown
  <2> QED
    BY <1>1, <2>1, <2>2, <2>3, <2>4, <2>5 DEF BatchKnown
<1>8. RegistryKnown'
  <2>1. RegistryKnown
    BY DEF TimersIInv
  <2>2. \A id \in Registered : registered[id].born <= now'
    BY <1>0, TimersNumbers
  <2> QED
    BY <1>1, <2>1, <2>2 DEF RegistryKnown, Kind, Registered
<1> QED
  BY <1>2, <1>3, <1>4, <1>5, <1>6, <1>7, <1>8 DEF TimersIInv, TimersInv

\* What depends only on registrations.
LEMMA RegisteredStays ==
  ASSUME UNCHANGED registered
  PROVE  /\ Registered' = Registered
         /\ \A id : /\ DueTime(id)' = DueTime(id) /\ IsTimeout(id)' = IsTimeout(id)
                    /\ Kind(id)' = Kind(id)
         /\ \A id, n : Began(id, n)' = Began(id, n)
         /\ \A a, b : SoonerDue(a, b)' = SoonerDue(a, b)
BY DEF Registered, DueTime, IsTimeout, Kind, Began, SoonerDue

\* A callback ends, or the tick does.
LEMMA TimersGoOn ==
  ASSUME TimersIInv, CallbackReturns \/ EndTick
  PROVE  TimersIInv'
<1>1. /\ UNCHANGED <<now, timeouts, intervals, frames, registry, batch, registered, runs,
                     cleared, lost>>
      /\ running' \in Ids \cup {NoCallback}
      /\ phase' \in {"idle", "timers", "frames"}
      /\ phase' = "timers" => phase = "timers"
      /\ (phase' = "frames" <=> phase = "frames") \/ batch = << >>
      /\ phase' = "idle" => batch = << >> /\ running' = NoCallback
  <2>1. CASE CallbackReturns
    BY <2>1 DEF CallbackReturns, TimersIInv, TimersInv, TimersTypeOK, BatchKnown, NoCallback
  <2>2. CASE EndTick
    BY <2>2 DEF EndTick, NoCallback
  <2> QED
    BY <2>1, <2>2
<1>2. TimersTypeOK'
  BY <1>1 DEF TimersIInv, TimersInv, TimersTypeOK, Callback
<1>3. OnSchedule' /\ NothingForgotten'
  <2>1. OnSchedule /\ NothingForgotten
    BY DEF TimersIInv, TimersInv
  <2>2. OnSchedule'
    BY <1>1, <2>1 DEF OnSchedule, Registered
  <2>3. NothingForgotten'
    BY <1>1, <2>1 DEF NothingForgotten, Queued, Waiting, Registered
  <2> QED
    BY <2>2, <2>3
<1>4. QueuesKnown' /\ RegistryKnown'
  <2>1. QueuesKnown /\ RegistryKnown
    BY DEF TimersIInv
  <2> QED
    BY <1>1, <2>1 DEF QueuesKnown, DueTime, IsTimeout, Kind, Registered, RegistryKnown
<1>5. SortIsDue' /\ IntervalsOnce' /\ IntervalsPaced' /\ BatchOnce' /\ BatchIsDue'
  <2>1. SortIsDue /\ IntervalsOnce /\ IntervalsPaced /\ BatchOnce /\ BatchIsDue
    BY DEF TimersIInv
  <2> QED
    BY <1>1, <2>1 DEF SortIsDue, SortsBefore, SoonerDue, DueTime, IntervalsOnce, IntervalsPaced,
       Began, Queued, BatchOnce, BatchIsDue, IsTimeout
<1>6. BatchKnown'
  <2>1. BatchKnown
    BY DEF TimersIInv
  <2> QED
    BY <1>1, <2>1, RegisteredStays DEF BatchKnown
<1> QED
  BY <1>2, <1>3, <1>4, <1>5, <1>6 DEF TimersIInv, TimersInv

\* A throw ends the tick and drops the rest of its batch.
LEMMA TimersThrow ==
  ASSUME TimersIInv, CallbackThrows
  PROVE  TimersIInv'
<1>1. /\ UNCHANGED <<now, timeouts, intervals, frames, registry, registered, runs, cleared>>
      /\ running' = NoCallback /\ batch' = << >> /\ phase' = "idle"
      /\ lost' = lost \cup {c.id : c \in {d \in ToSet(batch) : ~d.repeat}}
  BY DEF CallbackThrows
<1>2. DOMAIN batch' = {}
  BY <1>1
<1>3. \A k \in DOMAIN batch : batch[k] \in ToSet(batch) /\ batch[k] \in Callback
  BY TimersQueues, SeqElements DEF ToSet
<1>4. ToSet(batch) \subseteq Callback
  BY TimersQueues, SeqElements DEF ToSet
<1>5. TimersTypeOK'
  <2>1. lost' \subseteq Ids
    BY <1>1, <1>4 DEF Callback, TimersIInv, TimersInv, TimersTypeOK
  <2> QED
    BY <1>1, <2>1 DEF TimersIInv, TimersInv, TimersTypeOK, Callback, NoCallback
<1>6. OnSchedule'
  BY <1>1 DEF TimersIInv, TimersInv, OnSchedule, Registered
<1>7. NothingForgotten'
  <2>1. NothingForgotten
    BY DEF TimersIInv, TimersInv
  <2>2. ASSUME NEW id \in Registered, Kind(id) = "interval", id \notin cleared
        PROVE  Queued(intervals, id) /\ id \in registry
    BY <2>1, <2>2 DEF NothingForgotten, Kind
  <2>3. ASSUME NEW id \in Registered, Kind(id) # "interval", runs[id] = 0, id \notin cleared \cup lost'
        PROVE  id \in registry /\ (Queued(timeouts, id) \/ \E i \in DOMAIN frames : frames[i] = id)
    <3>1. id \in registry /\ (Queued(timeouts, id) \/ Queued(batch, id)
                                \/ \E i \in DOMAIN frames : frames[i] = id)
      BY <1>1, <2>1, <2>3 DEF NothingForgotten, Kind, Waiting
    <3>2. ASSUME NEW k \in DOMAIN batch, batch[k].id = id PROVE FALSE
      <4>1. ~batch[k].repeat
        BY <2>3, <3>2 DEF TimersIInv, BatchKnown
      <4> QED
        BY <1>1, <1>3, <2>3, <3>2, <4>1
    <3> QED
      BY <3>1, <3>2 DEF Queued
  <2> QED
    BY <1>1, <2>2, <2>3 DEF NothingForgotten, Registered, Waiting, Queued, Kind
<1>8. QueuesKnown' /\ RegistryKnown'
  <2>1. QueuesKnown /\ RegistryKnown
    BY DEF TimersIInv
  <2> QED
    BY <1>1, <2>1 DEF QueuesKnown, DueTime, IsTimeout, Kind, Registered, RegistryKnown
<1>9. SortIsDue' /\ IntervalsOnce'
  <2>1. SortIsDue /\ IntervalsOnce
    BY DEF TimersIInv
  <2> QED
    BY <1>1, <2>1 DEF SortIsDue, SortsBefore, SoonerDue, DueTime, IntervalsOnce
<1>10. IntervalsPaced'
  <2> SUFFICES ASSUME NEW i \in DOMAIN intervals
               PROVE  Began(intervals[i].id, runs[intervals[i].id] + 1) <= intervals[i].next
    BY <1>1, <1>2, RegisteredStays DEF IntervalsPaced, Queued
  <2> QED
    BY IntervalKnown
<1>11. BatchKnown' /\ BatchOnce' /\ BatchIsDue'
  BY <1>1, <1>2 DEF BatchKnown, BatchOnce, BatchIsDue
<1> QED
  BY <1>5, <1>6, <1>7, <1>8, <1>9, <1>10, <1>11 DEF TimersIInv, TimersInv

\* The frames become the batch.
LEMMA TimersFrames ==
  ASSUME TimersIInv, BeginFrames
  PROVE  TimersIInv'
<1>1. /\ UNCHANGED <<now, timeouts, intervals, registry, running, registered, runs, cleared, lost>>
      /\ phase = "timers" /\ phase' = "frames" /\ frames' = << >> /\ batch = << >>
      /\ batch' = [i \in DOMAIN frames |-> [id |-> frames[i], repeat |-> FALSE]]
  BY DEF BeginFrames
<1>2. /\ DOMAIN frames' = {} /\ DOMAIN batch = {} /\ DOMAIN batch' = DOMAIN frames
      /\ \A i \in DOMAIN frames : batch'[i].id = frames[i] /\ batch'[i].repeat = FALSE
  BY <1>1
<1>3. TimersTypeOK'
  <2>1. batch' \in Seq(Callback)
    <3>1. \A i \in 1..Len(frames) : [id |-> frames[i], repeat |-> FALSE] \in Callback
      BY TimersQueues DEF Callback
    <3> QED
      BY <1>1, <3>1, TimersQueues
  <2> QED
    BY <1>1, <2>1 DEF TimersIInv, TimersInv, TimersTypeOK, Callback
<1>4. OnSchedule'
  BY <1>1 DEF TimersIInv, TimersInv, OnSchedule, Registered
<1>5. NothingForgotten'
  <2>1. NothingForgotten
    BY DEF TimersIInv, TimersInv
  <2>2. \A id : Queued(batch, id) => FALSE
    BY <1>2 DEF Queued
  <2>3. \A id : (\E i \in DOMAIN frames : frames[i] = id) => \E i \in DOMAIN batch' : batch'[i].id = id
    BY <1>2
  <2> QED
    BY <1>1, <2>1, <2>2, <2>3 DEF NothingForgotten, Queued, Waiting, Registered
<1>6. QueuesKnown' /\ RegistryKnown'
  <2>1. QueuesKnown /\ RegistryKnown
    BY DEF TimersIInv
  <2> QED
    BY <1>1, <1>2, <2>1 DEF QueuesKnown, DueTime, IsTimeout, Kind, Registered, RegistryKnown
<1>7. SortIsDue' /\ IntervalsOnce'
  <2>1. SortIsDue /\ IntervalsOnce
    BY DEF TimersIInv
  <2> QED
    BY <1>1, <2>1 DEF SortIsDue, SortsBefore, SoonerDue, DueTime, IntervalsOnce
<1>8. \A i \in DOMAIN frames : /\ frames[i] \in Registered /\ Kind(frames[i]) = "frame"
                               /\ Began(frames[i], 1) <= now
  <2> SUFFICES ASSUME NEW i \in DOMAIN frames
               PROVE  /\ frames[i] \in Registered /\ Kind(frames[i]) = "frame"
                      /\ Began(frames[i], 1) <= now
    OBVIOUS
  <2>1. frames[i] \in Registered /\ Kind(frames[i]) = "frame"
    BY DEF TimersIInv, QueuesKnown
  <2>2. /\ registered[frames[i]].delay = 0 /\ registered[frames[i]].born <= now
        /\ registered[frames[i]].born \in Nat
    BY <2>1, TimersNumbers, TimersAssumption DEF TimersIInv, RegistryKnown
  <2>3. Began(frames[i], 1) = registered[frames[i]].born
    BY <2>2 DEF Began
  <2> QED
    BY <2>1, <2>2, <2>3
<1>9. IntervalsPaced'
  <2>1. ASSUME NEW i \in DOMAIN intervals
        PROVE  Began(intervals[i].id, runs[intervals[i].id] + 1) <= intervals[i].next
               /\ ~Queued(batch', intervals[i].id)
    <3>1. Kind(intervals[i].id) # "frame"
      BY IntervalKnown
    <3> QED
      BY <1>2, <1>8, <3>1, IntervalKnown DEF Queued
  <2> QED
    BY <1>1, <2>1, RegisteredStays DEF IntervalsPaced, Queued
<1>10. BatchKnown' /\ BatchOnce' /\ BatchIsDue'
  <2>1. BatchKnown' /\ BatchOnce'
    BY <1>1, <1>2, <1>8, RegisteredStays DEF BatchKnown, BatchOnce
  <2>2. BatchIsDue'
    BY <1>1, <1>2, <1>8, RegisteredStays DEF BatchIsDue, IsTimeout, Kind
  <2> QED
    BY <2>1, <2>2
<1> QED
  BY <1>3, <1>4, <1>5, <1>6, <1>7, <1>9, <1>10 DEF TimersIInv, TimersInv

-----------------------------------------------------------------------------
\* What is called next: it gives up its callable unless it repeats.
CallsHead ==
  LET c == Head(batch) IN
  /\ c.id \in registry
  /\ registry' = IF c.repeat THEN registry ELSE registry \ {c.id}
  /\ running' = c.id
  /\ runs' = [runs EXCEPT ![c.id] = IF @ = RunsCap THEN @ ELSE @ + 1]

LEMMA TimersCall ==
  ASSUME TimersIInv, CallNext
  PROVE  TimersIInv'
<1> DEFINE c == Head(batch)
<1>1. /\ UNCHANGED <<now, timeouts, intervals, frames, phase, registered, cleared, lost>>
      /\ phase # "idle" /\ running = NoCallback /\ batch # << >>
      /\ batch' = Tail(batch)
      /\ \/ c.id \notin registry /\ UNCHANGED <<registry, running, runs>>
         \/ CallsHead
  BY DEF CallNext, CallsHead
<1>2. /\ Len(batch) \in Nat \ {0} /\ c = batch[1] /\ c \in Callback /\ 1 \in DOMAIN batch
      /\ batch' \in Seq(Callback) /\ Len(batch') = Len(batch) - 1
      /\ DOMAIN batch' = 1..(Len(batch) - 1)
      /\ \A k \in DOMAIN batch' : batch'[k] = batch[k + 1] /\ k + 1 \in DOMAIN batch
      /\ \A k \in DOMAIN batch : k = 1 \/ (k - 1 \in DOMAIN batch' /\ batch'[k - 1] = batch[k])
  BY <1>1, TimersQueues, HeadAndTail
<1>3. /\ c.id \in Registered /\ c.id \in Ids /\ c.repeat \in BOOLEAN
      /\ c.repeat <=> Kind(c.id) = "interval"
      /\ Began(c.id, IF c.repeat THEN runs[c.id] + 1 ELSE 1) <= now
  <2>1. BatchKnown
    BY DEF TimersIInv
  <2>2. batch[1].id \in Ids /\ batch[1].repeat \in BOOLEAN
    BY <1>2, TimersQueues
  <2> QED
    BY <1>2, <2>1, <2>2 DEF BatchKnown
<1> HIDE DEF c
<1>4. \A id \in Ids : runs[id] \in 0..RunsCap /\ runs[id] \in Nat
  BY TimersNumbers DEF TimersIInv, TimersInv, TimersTypeOK
<1>5. /\ registry' \subseteq registry
      /\ \A id \in registry : id \in registry' \/ (id = c.id /\ Kind(id) # "interval" /\ runs'[id] # 0)
      /\ runs' \in [Ids -> 0..RunsCap]
      /\ \A id \in Ids : id # c.id => runs'[id] = runs[id]
      /\ runs'[c.id] \in {runs[c.id], runs[c.id] + 1}
      /\ runs'[c.id] # runs[c.id] => c.id \in registry
      /\ c.id \in registry' => c.repeat
      /\ running' \in Ids \cup {NoCallback}
  <2>0. runs \in [Ids -> 0..RunsCap] /\ running \in Ids \cup {NoCallback} /\ RunsCap \in Nat
    BY TimersAssumption DEF TimersIInv, TimersInv, TimersTypeOK, RunsCap
  <2>1. CASE c.id \notin registry /\ UNCHANGED <<registry, running, runs>>
    BY <1>3, <2>0, <2>1
  <2>2. CASE CallsHead
    <3>1. /\ c.id \in registry
          /\ registry' = IF c.repeat THEN registry ELSE registry \ {c.id}
          /\ running' = c.id
          /\ runs' = [runs EXCEPT ![c.id] = IF runs[c.id] = RunsCap THEN runs[c.id] ELSE runs[c.id] + 1]
      BY <2>2 DEF CallsHead, c
    <3>2. runs[c.id] \in 0..RunsCap
      BY <1>3, <1>4
    <3>3. runs'[c.id] = IF runs[c.id] = RunsCap THEN runs[c.id] ELSE runs[c.id] + 1
      BY <1>3, <2>0, <3>1
    <3>4. runs' \in [Ids -> 0..RunsCap]
      <4>1. (IF runs[c.id] = RunsCap THEN runs[c.id] ELSE runs[c.id] + 1) \in 0..RunsCap
        BY <2>0, <3>2
      <4> QED
        BY <2>0, <3>1, <4>1
    <3>5. runs'[c.id] # 0
      BY <2>0, <3>2, <3>3, TimersAssumption DEF RunsCap
    <3> QED
      BY <1>3, <2>0, <3>1, <3>3, <3>4, <3>5
  <2> QED
    BY <1>1, <2>1, <2>2
<1>6. TimersTypeOK'
  <2>1. registry' \subseteq Ids
    BY <1>5 DEF TimersIInv, TimersInv, TimersTypeOK
  <2>2. phase' = "timers" => Len(batch') <= Budget
    <3>1. phase = "timers" => Len(batch) <= Budget
      BY DEF TimersIInv, TimersInv, TimersTypeOK
    <3> QED
      BY <1>1, <1>2, <3>1, TimersAssumption
  <2> QED
    BY <1>1, <1>2, <1>5, <2>1, <2>2 DEF TimersIInv, TimersInv, TimersTypeOK, Callback
<1>7. RegistryKnown'
  <2>1. RegistryKnown
    BY DEF TimersIInv
  <2>2. \A id \in registry' : Kind(id) # "interval" => runs'[id] = 0
    BY <1>3, <1>5, <2>1 DEF RegistryKnown
  <2>3. \A id \in Ids \ Registered : runs'[id] = 0
    BY <1>3, <1>5, <2>1 DEF RegistryKnown
  <2> QED
    BY <1>1, <1>5, <2>1, <2>2, <2>3 DEF RegistryKnown, Kind, Registered
<1>8. OnSchedule'
  <2> SUFFICES ASSUME NEW id \in Registered
               PROVE  /\ runs'[id] * registered[id].delay <= now - registered[id].born
                      /\ registered[id].kind # "interval" => runs'[id] <= 1
    BY <1>1 DEF OnSchedule, Registered
  <2>1. /\ runs[id] * registered[id].delay <= now - registered[id].born
        /\ registered[id].kind # "interval" => runs[id] <= 1
    BY DEF TimersIInv, TimersInv, OnSchedule
  <2>2. CASE runs'[id] = runs[id]
    BY <2>1, <2>2
  <2>3. CASE runs'[id] # runs[id]
    <3>1. id = c.id /\ runs'[id] = runs[id] + 1 /\ id \in registry /\ runs[id] \in Nat
      BY <1>3, <1>4, <1>5, <2>3, TimersNumbers
    <3>2. registered[id].kind # "interval" => runs[id] = 0
      BY <3>1 DEF TimersIInv, RegistryKnown, Kind
    <3>3. Began(id, runs[id] + 1) <= now
      BY <1>3, <3>1, <3>2 DEF Kind
    <3>4. /\ (runs[id] + 1) * registered[id].delay \in Nat /\ registered[id].born \in Nat
          /\ now \in Nat
      BY <3>1, TimersNumbers, TimersAssumption, OnceMore
    <3>5. (runs[id] + 1) * registered[id].delay <= now - registered[id].born
      BY <3>3, <3>4 DEF Began
    <3> QED
      BY <3>1, <3>2, <3>5
  <2> QED
    BY <2>2, <2>3
<1>9. NothingForgotten'
  <2>1. NothingForgotten
    BY DEF TimersIInv, TimersInv
  <2>2. ASSUME NEW id \in Registered, Kind(id) = "interval", id \notin cleared
        PROVE  Queued(intervals, id) /\ id \in registry'
    BY <1>5, <2>1, <2>2 DEF NothingForgotten, Kind
  <2>3. ASSUME NEW id \in Registered, Kind(id) # "interval", runs'[id] = 0, id \notin cleared \cup lost
        PROVE  id \in registry' /\ (Queued(timeouts, id) \/ Queued(batch', id)
                                     \/ \E i \in DOMAIN frames : frames[i] = id)
    <3>0. id \in Ids /\ runs[id] = 0
      BY <1>4, <1>5, <2>3, TimersNumbers
    <3>1. id \in registry /\ (Queued(timeouts, id) \/ Queued(batch, id)
                                \/ \E i \in DOMAIN frames : frames[i] = id)
      BY <2>1, <2>3, <3>0 DEF NothingForgotten, Kind, Waiting
    <3>2. id \in registry'
      BY <1>5, <2>3, <3>1
    <3>3. id # c.id
      BY <1>3, <1>5, <2>3, <3>2
    <3>4. ASSUME NEW k \in DOMAIN batch, batch[k].id = id PROVE \E l \in DOMAIN batch' : batch'[l].id = id
      <4>1. k # 1
        BY <1>2, <3>3, <3>4
      <4> QED
        BY <1>2, <3>4, <4>1
    <3> QED
      BY <3>1, <3>2, <3>4 DEF Queued
  <2> QED
    BY <1>1, <2>2, <2>3 DEF NothingForgotten, Registered, Waiting, Queued, Kind
<1>10. QueuesKnown' /\ SortIsDue' /\ IntervalsOnce'
  <2>1. QueuesKnown /\ SortIsDue /\ IntervalsOnce
    BY DEF TimersIInv
  <2> QED
    BY <1>1, <2>1 DEF QueuesKnown, DueTime, IsTimeout, Kind, Registered, SortIsDue, SortsBefore,
       SoonerDue, IntervalsOnce
<1>11. IntervalsPaced'
  <2> SUFFICES ASSUME NEW i \in DOMAIN intervals
               PROVE  Began(intervals[i].id, runs'[intervals[i].id]
                        + IF Queued(batch', intervals[i].id) THEN 2 ELSE 1) <= intervals[i].next
    BY <1>1, RegisteredStays DEF IntervalsPaced, Queued
  <2> DEFINE id == intervals[i].id
  <2>1. /\ Began(id, runs[id] + IF Queued(batch, id) THEN 2 ELSE 1) <= intervals[i].next
        /\ id \in Registered /\ id \in Ids /\ runs[id] \in Nat /\ intervals[i].next \in Nat
        /\ Kind(id) = "interval"
    BY IntervalKnown DEF TimersIInv, IntervalsPaced
  <2>2. Queued(batch', id) => Queued(batch, id)
    BY <1>2 DEF Queued
  <2>3. /\ Began(id, runs[id] + 1) <= Began(id, (runs[id] + 1) + 1)
        /\ Began(id, runs[id] + 1) \in Nat /\ Began(id, (runs[id] + 1) + 1) \in Nat
        /\ (runs[id] + 1) + 1 = runs[id] + 2
    <3>1. runs[id] + 1 \in Nat /\ (runs[id] + 1) + 1 \in Nat /\ (runs[id] + 1) + 1 = runs[id] + 2
      BY <2>1
    <3> QED
      BY <2>1, <3>1, BeganInteger
  <2> HIDE DEF id
  <2>6. /\ Began(id, runs[id] + 1) <= intervals[i].next
        /\ Queued(batch, id) => Began(id, runs[id] + 2) <= intervals[i].next
    <3>1. CASE Queued(batch, id)
      <4>1. Began(id, runs[id] + 2) <= intervals[i].next
        BY <2>1, <3>1
      <4>2. Began(id, runs[id] + 2) \in Nat /\ Began(id, runs[id] + 1) <= Began(id, runs[id] + 2)
        BY <2>3
      <4> QED
        BY <2>1, <2>3, <4>1, <4>2
    <3>2. CASE ~Queued(batch, id)
      BY <2>1, <3>2
    <3> QED
      BY <3>1, <3>2
  <2>4. ASSUME runs'[id] = runs[id]
        PROVE  Began(id, runs'[id] + IF Queued(batch', id) THEN 2 ELSE 1) <= intervals[i].next
    BY <2>2, <2>4, <2>6
  <2>5. ASSUME runs'[id] # runs[id]
        PROVE  Began(id, runs'[id] + IF Queued(batch', id) THEN 2 ELSE 1) <= intervals[i].next
    <3>1. id = c.id /\ runs'[id] = runs[id] + 1
      BY <1>5, <2>1, <2>5
    <3>2. Queued(batch, id)
      BY <1>2, <3>1 DEF Queued
    <3>3. ~Queued(batch', id)
      <4> SUFFICES ASSUME NEW k \in DOMAIN batch', batch'[k].id = id PROVE FALSE
        BY DEF Queued
      <4>1. k + 1 \in DOMAIN batch /\ batch[k + 1].id = id /\ k + 1 # 1
        BY <1>2
      <4>2. batch[k + 1].repeat /\ batch[1].repeat /\ batch[1].id = id
        BY <1>2, <1>3, <2>1, <3>1, <4>1 DEF TimersIInv, BatchKnown
      <4> QED
        BY <1>2, <4>1, <4>2 DEF TimersIInv, BatchOnce
    <3>4. Began(id, runs'[id] + 1) <= intervals[i].next
      <4>1. runs'[id] + 1 = runs[id] + 2
        BY <2>1, <3>1
      <4> QED
        BY <2>6, <3>2, <4>1
    <3> QED
      BY <3>3, <3>4
  <2> QED
    BY <2>4, <2>5 DEF id
<1>12. BatchKnown'
  <2>1. ASSUME NEW k \in DOMAIN batch'
        PROVE  LET d == batch'[k] IN
               /\ d.id \in Registered
               /\ d.repeat <=> Kind(d.id) = "interval"
               /\ Kind(d.id) = "frame" <=> phase = "frames"
               /\ Began(d.id, IF d.repeat THEN runs'[d.id] + 1 ELSE 1) <= now
    <3> DEFINE d == batch[k + 1]
    <3>1. batch'[k] = d /\ k + 1 \in DOMAIN batch /\ k + 1 # 1
      BY <1>2
    <3>2. /\ d.id \in Registered
          /\ d.repeat <=> Kind(d.id) = "interval"
          /\ Kind(d.id) = "frame" <=> phase = "frames"
          /\ Began(d.id, IF d.repeat THEN runs[d.id] + 1 ELSE 1) <= now
      BY <3>1 DEF TimersIInv, BatchKnown
    <3>3. d.repeat => d.id # c.id
      <4> SUFFICES ASSUME d.repeat, d.id = c.id PROVE FALSE
        OBVIOUS
      <4>1. c.repeat
        BY <1>3, <3>2
      <4> QED
        BY <1>2, <3>1, <4>1 DEF TimersIInv, BatchOnce
    <3>4. d.repeat => runs'[d.id] = runs[d.id]
      BY <1>5, <3>2, <3>3, TimersNumbers
    <3> QED
      BY <3>1, <3>2, <3>4
  <2> QED
    BY <1>1, <2>1, RegisteredStays DEF BatchKnown
<1>13. BatchOnce'
  <2> SUFFICES ASSUME NEW k \in DOMAIN batch', NEW l \in DOMAIN batch', k # l,
                      batch'[k].repeat, batch'[l].repeat
               PROVE  batch'[k].id # batch'[l].id
    BY DEF BatchOnce
  <2>1. k + 1 # l + 1
    BY <1>2
  <2> QED
    BY <1>2, <2>1 DEF TimersIInv, BatchOnce
<1>14. BatchIsDue'
  <2>1. ASSUME NEW k \in DOMAIN batch', IsTimeout(batch'[k].id)
        PROVE  /\ \A l \in DOMAIN batch' :
                    k < l /\ IsTimeout(batch'[l].id) => SoonerDue(batch'[k].id, batch'[l].id)
               /\ \A i \in DOMAIN timeouts : SoonerDue(batch'[k].id, timeouts[i].id)
    <3>1. \A l \in DOMAIN batch' : k < l => k + 1 < l + 1
      BY <1>2
    <3> QED
      BY <1>2, <2>1, <3>1 DEF TimersIInv, BatchIsDue
  <2> QED
    BY <1>1, <2>1, RegisteredStays DEF BatchIsDue
<1> QED
  BY <1>6, <1>7, <1>8, <1>9, <1>10, <1>11, <1>12, <1>13, <1>14 DEF TimersIInv, TimersInv

\* kept is the places in q of the elements of r, in their order.
Sublist(r, q, kept) ==
  /\ kept \in [DOMAIN r -> DOMAIN q]
  /\ \A j, k \in DOMAIN r : j < k => kept[j] < kept[k]
  /\ \A j \in DOMAIN r : r[j] = q[kept[j]]

LEMMA SublistApart ==
  ASSUME NEW M, NEW r \in Seq(M), NEW q \in Seq(M), NEW kept, Sublist(r, q, kept),
         NEW j \in DOMAIN r, NEW k \in DOMAIN r, j # k
  PROVE  kept[j] # kept[k] /\ kept[j] \in DOMAIN q /\ kept[k] \in DOMAIN q
<1>1. DOMAIN r \subseteq Nat /\ DOMAIN q \subseteq Nat
  BY SeqElements
<1>2. kept[j] \in DOMAIN q /\ kept[k] \in DOMAIN q
  BY DEF Sublist
<1>3. j < k \/ k < j
  BY <1>1
<1> QED
  BY <1>1, <1>2, <1>3 DEF Sublist

LEMMA RetainSublist ==
  ASSUME NEW M, NEW q \in Seq(M), NEW S
  PROVE  /\ Retain(q, S) \in Seq(M)
         /\ \E kept :
              /\ Sublist(Retain(q, S), q, kept)
              /\ \A j \in DOMAIN Retain(q, S) : Retain(q, S)[j] \in S
              /\ \A i \in DOMAIN q : q[i] \in S => \E j \in DOMAIN Retain(q, S) : kept[j] = i
<1> DEFINE r == Retain(q, S)
<1>1. PICK kept : Embeds(r, q, Len(q), S, kept)
  BY RetainEmbeds
<1>2. r \in Seq(M)
  BY RetainType
<1>3. DOMAIN r = 1..Len(r) /\ DOMAIN q = 1..Len(q)
  BY <1>2, SeqElements
<1> HIDE DEF r
<1>4. /\ Sublist(r, q, kept)
      /\ \A j \in DOMAIN r : r[j] \in S
      /\ \A i \in DOMAIN q : q[i] \in S => \E j \in DOMAIN r : kept[j] = i
  BY <1>1, <1>3 DEF Embeds, Sublist
<1> QED
  BY <1>2, <1>4 DEF r

LEMMA WithoutSublist ==
  ASSUME NEW M, NEW q \in Seq(M), NEW id
  PROVE  /\ Without(q, id) \in Seq(M)
         /\ \E kept :
              /\ Sublist(Without(q, id), q, kept)
              /\ \A i \in DOMAIN q : q[i].id # id => \E j \in DOMAIN Without(q, id) : kept[j] = i
<1> DEFINE S == {e \in ToSet(q) : e.id # id}
<1>1. Without(q, id) = Retain(q, S)
  BY DEF Without
<1>2. \A i \in DOMAIN q : q[i].id # id => q[i] \in S
  BY DEF ToSet
<1> HIDE DEF S
<1> QED
  BY <1>1, <1>2, RetainSublist

LEMMA TimersClear ==
  ASSUME TimersIInv, NEW id \in Registered, Clear(id)
  PROVE  TimersIInv'
<1>1. /\ UNCHANGED <<now, phase, batch, running, registered, runs, lost>>
      /\ timeouts' = Without(timeouts, id) /\ intervals' = Without(intervals, id)
      /\ frames' = Retain(frames, Ids \ {id})
      /\ registry' = registry \ {id} /\ cleared' = cleared \cup ({id} \cap registry)
  BY DEF Clear
<1>2. /\ timeouts' \in Seq(Timeout) /\ intervals' \in Seq(Interval) /\ frames' \in Seq(Ids)
      /\ DOMAIN timeouts' \subseteq Nat /\ DOMAIN intervals' \subseteq Nat
  BY <1>1, TimersQueues, WithoutSublist, RetainType, SeqElements
<1>3. PICK late : /\ Sublist(timeouts', timeouts, late)
                  /\ \A i \in DOMAIN timeouts : timeouts[i].id # id =>
                       \E j \in DOMAIN timeouts' : late[j] = i
  <2>1. timeouts \in Seq(Timeout)
    BY TimersQueues
  <2>2. \E kept : /\ Sublist(Without(timeouts, id), timeouts, kept)
                  /\ \A i \in DOMAIN timeouts : timeouts[i].id # id => \E j \in DOMAIN Without(timeouts, id) : kept[j] = i
    BY <2>1, WithoutSublist
  <2>3. timeouts' = Without(timeouts, id)
    BY <1>1
  <2> QED
    BY <2>2, <2>3, Zenon
<1>4. PICK turn : /\ Sublist(intervals', intervals, turn)
                  /\ \A i \in DOMAIN intervals : intervals[i].id # id =>
                       \E j \in DOMAIN intervals' : turn[j] = i
  <2>1. intervals \in Seq(Interval)
    BY TimersQueues
  <2>2. \E kept : /\ Sublist(Without(intervals, id), intervals, kept)
                  /\ \A i \in DOMAIN intervals : intervals[i].id # id => \E j \in DOMAIN Without(intervals, id) : kept[j] = i
    BY <2>1, WithoutSublist
  <2>3. intervals' = Without(intervals, id)
    BY <1>1
  <2> QED
    BY <2>2, <2>3, Zenon
<1>5. PICK seen : /\ Sublist(frames', frames, seen)
                  /\ \A i \in DOMAIN frames : frames[i] \in Ids \ {id} =>
                       \E j \in DOMAIN frames' : seen[j] = i
  <2>1. frames \in Seq(Ids)
    BY TimersQueues
  <2>2. \E kept : /\ Sublist(Retain(frames, Ids \ {id}), frames, kept)
                  /\ \A i \in DOMAIN frames : frames[i] \in Ids \ {id} => \E j \in DOMAIN Retain(frames, Ids \ {id}) : kept[j] = i
    <3> DEFINE S == Ids \ {id}
    <3> HIDE DEF S
    <3>1. \E kept :
            /\ Sublist(Retain(frames, S), frames, kept)
            /\ \A j \in DOMAIN Retain(frames, S) : Retain(frames, S)[j] \in S
            /\ \A i \in DOMAIN frames : frames[i] \in S => \E j \in DOMAIN Retain(frames, S) : kept[j] = i
      BY <2>1, RetainSublist
    <3> QED
      BY <3>1, Zenon DEF S
  <2>3. frames' = Retain(frames, Ids \ {id})
    BY <1>1
  <2> QED
    BY <2>2, <2>3, Zenon
<1>6. /\ \A j \in DOMAIN timeouts' : late[j] \in DOMAIN timeouts /\ timeouts'[j] = timeouts[late[j]]
      /\ \A j \in DOMAIN intervals' : turn[j] \in DOMAIN intervals /\ intervals'[j] = intervals[turn[j]]
      /\ \A j \in DOMAIN frames' : seen[j] \in DOMAIN frames /\ frames'[j] = frames[seen[j]]
  BY <1>3, <1>4, <1>5 DEF Sublist
<1>7. /\ \A other : other # id /\ Queued(timeouts, other) => Queued(timeouts', other)
      /\ \A other : other # id /\ Queued(intervals, other) => Queued(intervals', other)
      /\ \A other : other # id /\ (\E i \in DOMAIN frames : frames[i] = other)
                      => \E i \in DOMAIN frames' : frames'[i] = other
  <2>1. \A other : other # id /\ Queued(timeouts, other) => Queued(timeouts', other)
    BY <1>3, <1>6 DEF Queued
  <2>2. \A other : other # id /\ Queued(intervals, other) => Queued(intervals', other)
    BY <1>4, <1>6 DEF Queued
  <2>3. ASSUME NEW i \in DOMAIN frames, frames[i] # id PROVE \E j \in DOMAIN frames' : frames'[j] = frames[i]
    <3>1. frames[i] \in Ids \ {id}
      BY <2>3, TimersQueues
    <3> QED
      BY <1>5, <1>6, <3>1
  <2> QED
    BY <2>1, <2>2, <2>3
<1>8. TimersTypeOK'
  <2>1. registry' \subseteq Ids /\ cleared' \subseteq Ids
    BY <1>1, TimersNumbers DEF TimersIInv, TimersInv, TimersTypeOK
  <2> QED
    BY <1>1, <1>2, <2>1 DEF TimersIInv, TimersInv, TimersTypeOK, Callback, Timeout, Interval
<1>9. OnSchedule'
  BY <1>1 DEF TimersIInv, TimersInv, OnSchedule, Registered
<1>10. NothingForgotten'
  <2>1. NothingForgotten
    BY DEF TimersIInv, TimersInv
  <2>2. ASSUME NEW other \in Registered, Kind(other) = "interval", other \notin cleared'
        PROVE  Queued(intervals', other) /\ other \in registry'
    <3>1. Queued(intervals, other) /\ other \in registry
      BY <1>1, <2>1, <2>2 DEF NothingForgotten, Kind
    <3>2. other # id
      BY <1>1, <2>2, <3>1
    <3> QED
      BY <1>1, <1>7, <3>1, <3>2
  <2>3. ASSUME NEW other \in Registered, Kind(other) # "interval", runs[other] = 0,
               other \notin cleared' \cup lost
        PROVE  other \in registry' /\ (Queued(timeouts', other) \/ Queued(batch, other)
                                        \/ \E i \in DOMAIN frames' : frames'[i] = other)
    <3>1. other \in registry /\ (Queued(timeouts, other) \/ Queued(batch, other)
                                  \/ \E i \in DOMAIN frames : frames[i] = other)
      BY <1>1, <2>1, <2>3 DEF NothingForgotten, Kind, Waiting
    <3>2. other # id
      BY <1>1, <2>3, <3>1
    <3> QED
      BY <1>1, <1>7, <3>1, <3>2
  <2> QED
    BY <1>1, <2>2, <2>3 DEF NothingForgotten, Registered, Waiting, Queued, Kind
<1>11. QueuesKnown'
  <2>1. QueuesKnown
    BY DEF TimersIInv
  <2>2. /\ \A i \in DOMAIN timeouts' :
             LET e == timeouts'[i] IN
             /\ e.id \in Registered /\ IsTimeout(e.id)
             /\ e.due = DueTime(e.id) \/ (DueTime(e.id) <= e.due /\ e.due <= now)
        /\ \A i \in DOMAIN intervals' :
             LET e == intervals'[i] IN
             /\ e.id \in Registered /\ Kind(e.id) = "interval"
             /\ e.period = registered[e.id].delay
        /\ \A i \in DOMAIN frames' : frames'[i] \in Registered /\ Kind(frames'[i]) = "frame"
    BY <1>6, <2>1 DEF QueuesKnown
  <2> QED
    BY <1>1, <2>2, RegisteredStays DEF QueuesKnown
<1>12. SortIsDue'
  <2> SUFFICES ASSUME NEW i \in DOMAIN timeouts', NEW j \in DOMAIN timeouts', i # j,
                      SortsBefore(i, j)'
               PROVE  SoonerDue(timeouts'[i].id, timeouts'[j].id)
    BY <1>1, RegisteredStays DEF SortIsDue
  <2>1. late[i] # late[j] /\ late[i] \in DOMAIN timeouts /\ late[j] \in DOMAIN timeouts
    BY <1>2, <1>3, TimersQueues, SublistApart
  <2>2. i < j => late[i] < late[j]
    BY <1>3 DEF Sublist
  <2>3. SortsBefore(late[i], late[j])
    BY <1>6, <2>2 DEF SortsBefore
  <2> QED
    BY <1>6, <2>1, <2>3 DEF TimersIInv, SortIsDue
<1>13. IntervalsOnce'
  <2> SUFFICES ASSUME NEW i \in DOMAIN intervals', NEW j \in DOMAIN intervals', i # j
               PROVE  intervals'[i].id # intervals'[j].id
    BY DEF IntervalsOnce
  <2>1. turn[i] # turn[j] /\ turn[i] \in DOMAIN intervals /\ turn[j] \in DOMAIN intervals
    BY <1>2, <1>4, TimersQueues, SublistApart
  <2> QED
    BY <1>6, <2>1 DEF TimersIInv, IntervalsOnce
<1>14. IntervalsPaced'
  <2>1. \A j \in DOMAIN intervals' :
          LET other == intervals'[j].id IN
          Began(other, runs[other] + IF Queued(batch, other) THEN 2 ELSE 1) <= intervals'[j].next
    BY <1>6 DEF TimersIInv, IntervalsPaced
  <2> QED
    BY <1>1, <2>1, RegisteredStays DEF IntervalsPaced, Queued
<1>15. BatchKnown' /\ BatchOnce'
  <2>1. BatchKnown /\ BatchOnce
    BY DEF TimersIInv
  <2> QED
    BY <1>1, <2>1, RegisteredStays DEF BatchKnown, BatchOnce
<1>16. BatchIsDue'
  <2>1. BatchIsDue
    BY DEF TimersIInv
  <2> QED
    BY <1>1, <1>6, <2>1, RegisteredStays DEF BatchIsDue
<1>17. RegistryKnown'
  <2>1. RegistryKnown
    BY DEF TimersIInv
  <2> QED
    BY <1>1, <2>1 DEF RegistryKnown, Registered, Kind
<1> QED
  BY <1>8, <1>9, <1>10, <1>11, <1>12, <1>13, <1>14, <1>15, <1>16, <1>17 DEF TimersIInv, TimersInv

LEMMA TimersRegister ==
  ASSUME TimersIInv, NEW kind \in Kinds, NEW delay \in Delays, Register(kind, delay)
  PROVE  TimersIInv'
<1> DEFINE id == Len(registered) + 1
           rec == [kind |-> kind, born |-> now, delay |-> delay]
           te == [id |-> id, due |-> now + delay]
           ie == [id |-> id, period |-> delay, next |-> now + delay]
           KindN(x) == registered'[x].kind
           DueN(x) == registered'[x].born + registered'[x].delay
           IsTimeoutN(x) == KindN(x) = "timeout"
           BeganN(x, n) == registered'[x].born + n * registered'[x].delay
           SoonerN(x, y) == DueN(x) < DueN(y) \/ (DueN(x) = DueN(y) /\ x < y)
<1>1. /\ id \in Ids /\ now + delay <= MaxTime /\ (kind = "frame" => delay = 0)
      /\ timeouts' = (IF kind # "timeout" THEN timeouts ELSE Append(timeouts, te))
      /\ intervals' = (IF kind # "interval" THEN intervals ELSE Append(intervals, ie))
      /\ frames' = (IF kind # "frame" THEN frames ELSE Append(frames, id))
      /\ registry' = registry \cup {id} /\ registered' = Append(registered, rec)
      /\ UNCHANGED <<now, phase, batch, running, runs, cleared, lost>>
  BY DEF Register
<1>2. delay \in Nat /\ now \in Nat /\ now \in 0..MaxTime /\ now + delay \in 0..MaxTime
  BY <1>1, TimersNumbers, TimersAssumption DEF TimersIInv, TimersInv, TimersTypeOK
<1>3. /\ registered \in Seq([kind : Kinds, born : 0..MaxTime, delay : Delays])
      /\ rec \in [kind : Kinds, born : 0..MaxTime, delay : Delays]
  BY <1>2 DEF TimersIInv, TimersInv, TimersTypeOK
<1>4. /\ registered' \in Seq([kind : Kinds, born : 0..MaxTime, delay : Delays])
      /\ Registered' = Registered \cup {id} /\ id \notin Registered /\ id \in Nat
      /\ \A x \in Registered : registered'[x] = registered[x] /\ x < id /\ x \in Nat
      /\ registered'[id] = rec
      /\ rec.kind = kind /\ rec.born = now /\ rec.delay = delay
  <2> HIDE DEF rec
  <2>1. /\ registered' \in Seq([kind : Kinds, born : 0..MaxTime, delay : Delays])
        /\ Registered' = Registered \cup {id} /\ id \notin Registered /\ id \in Nat
        /\ \A x \in Registered : registered'[x] = registered[x] /\ x < id /\ x \in Nat
        /\ registered'[id] = rec
    BY <1>1, <1>3 DEF Registered
  <2> QED
    BY <2>1 DEF rec
<1> HIDE DEF id, rec
<1>5. /\ \A x \in Registered : /\ KindN(x) = Kind(x) /\ DueN(x) = DueTime(x)
                               /\ IsTimeoutN(x) = IsTimeout(x)
                               /\ \A n : BeganN(x, n) = Began(x, n)
      /\ \A x, y \in Registered : SoonerN(x, y) = SoonerDue(x, y)
  BY <1>4 DEF Kind, DueTime, IsTimeout, Began, SoonerDue
<1>6. /\ KindN(id) = kind /\ DueN(id) = now + delay /\ (IsTimeoutN(id) <=> kind = "timeout")
      /\ \A n : BeganN(id, n) = now + n * delay
  BY <1>4 DEF Kind, DueTime, IsTimeout, Began
<1> HIDE DEF KindN, DueN, IsTimeoutN, BeganN, SoonerN
<1>7. /\ \A i \in DOMAIN timeouts : /\ timeouts[i].id \in Registered /\ IsTimeout(timeouts[i].id)
                                    /\ timeouts[i].due = DueTime(timeouts[i].id)
                                         \/ (DueTime(timeouts[i].id) <= timeouts[i].due /\ timeouts[i].due <= now)
      /\ \A i \in DOMAIN intervals : intervals[i].id \in Registered
      /\ \A i \in DOMAIN frames : frames[i] \in Registered
      /\ \A k \in DOMAIN batch : batch[k].id \in Registered
  BY DEF TimersIInv, QueuesKnown, BatchKnown
<1>8. te \in Timeout /\ ie \in Interval /\ te.id = id /\ te.due = now + delay
      /\ ie.id = id /\ ie.period = delay /\ ie.next = now + delay
  BY <1>1, <1>2 DEF Timeout, Interval
<1> HIDE DEF te, ie
<1>t. /\ timeouts' \in Seq(Timeout) /\ DOMAIN timeouts = 1..Len(timeouts)
      /\ \A i \in DOMAIN timeouts : i \in DOMAIN timeouts' /\ timeouts'[i] = timeouts[i]
      /\ \A i \in DOMAIN timeouts' :
           i \in DOMAIN timeouts \/ (kind = "timeout" /\ i = Len(timeouts) + 1 /\ timeouts'[i] = te)
      /\ kind = "timeout" => Len(timeouts) + 1 \in DOMAIN timeouts' /\ timeouts'[Len(timeouts) + 1] = te
  <2>1. CASE kind = "timeout"
    <3>1. timeouts \in Seq(Timeout)
      BY TimersQueues
    <3>2. timeouts' = Append(timeouts, te)
      BY <1>1, <2>1
    <3>3. Len(timeouts) + 1 \in 1..(Len(timeouts) + 1)
      BY <3>1
    <3> QED
      BY <1>8, <2>1, <3>1, <3>2, <3>3, AppendElements
  <2>2. CASE kind # "timeout"
    BY <1>1, <2>2, TimersQueues
  <2> QED
    BY <2>1, <2>2
<1>i. /\ intervals' \in Seq(Interval) /\ DOMAIN intervals = 1..Len(intervals)
      /\ \A i \in DOMAIN intervals : i \in DOMAIN intervals' /\ intervals'[i] = intervals[i]
      /\ \A i \in DOMAIN intervals' :
           i \in DOMAIN intervals \/ (kind = "interval" /\ i = Len(intervals) + 1 /\ intervals'[i] = ie)
      /\ kind = "interval" => Len(intervals) + 1 \in DOMAIN intervals' /\ intervals'[Len(intervals) + 1] = ie
  <2>1. CASE kind = "interval"
    <3>1. intervals \in Seq(Interval)
      BY TimersQueues
    <3>2. intervals' = Append(intervals, ie)
      BY <1>1, <2>1
    <3>3. Len(intervals) + 1 \in 1..(Len(intervals) + 1)
      BY <3>1
    <3> QED
      BY <1>8, <2>1, <3>1, <3>2, <3>3, AppendElements
  <2>2. CASE kind # "interval"
    BY <1>1, <2>2, TimersQueues
  <2> QED
    BY <2>1, <2>2
<1>f. /\ frames' \in Seq(Ids)
      /\ \A i \in DOMAIN frames : i \in DOMAIN frames' /\ frames'[i] = frames[i]
      /\ \A i \in DOMAIN frames' : i \in DOMAIN frames \/ (kind = "frame" /\ frames'[i] = id)
      /\ kind = "frame" => \E i \in DOMAIN frames' : frames'[i] = id
  <2>1. CASE kind = "frame"
    <3>1. frames \in Seq(Ids)
      BY TimersQueues
    <3>2. frames' = Append(frames, id)
      BY <1>1, <2>1
    <3>3. Len(frames) + 1 \in 1..(Len(frames) + 1)
      BY <3>1
    <3> QED
      BY <1>1, <2>1, <3>1, <3>2, <3>3, AppendElements
  <2>2. CASE kind # "frame"
    BY <1>1, <2>2, TimersQueues
  <2> QED
    BY <2>1, <2>2
<1>9. TimersTypeOK'
  <2>1. registry' \subseteq Ids
    BY <1>1 DEF TimersIInv, TimersInv, TimersTypeOK
  <2> QED
    BY <1>1, <1>4, <1>t, <1>i, <1>f, <2>1 DEF TimersIInv, TimersInv, TimersTypeOK, Callback, Timeout, Interval
<1>10. runs[id] = 0 /\ id \notin cleared
  BY <1>1, <1>4 DEF TimersIInv, RegistryKnown
<1>11. OnSchedule'
  <2> SUFFICES ASSUME NEW x \in Registered \cup {id}
               PROVE  /\ runs[x] * registered'[x].delay <= now - registered'[x].born
                      /\ registered'[x].kind # "interval" => runs[x] <= 1
    BY <1>1, <1>4 DEF OnSchedule
  <2>1. CASE x \in Registered
    BY <1>4, <2>1 DEF TimersIInv, TimersInv, OnSchedule
  <2>2. CASE x = id
    <3>1. 0 * delay = 0
      BY <1>2
    <3> QED
      BY <1>2, <1>4, <1>10, <2>2, <3>1
  <2> QED
    BY <2>1, <2>2
<1>12. NothingForgotten'
  <2>1. NothingForgotten
    BY DEF TimersIInv, TimersInv
  <2>2. /\ \A x : Queued(timeouts, x) => Queued(timeouts', x)
        /\ \A x : Queued(intervals, x) => Queued(intervals', x)
        /\ \A x : (\E i \in DOMAIN frames : frames[i] = x) => \E i \in DOMAIN frames' : frames'[i] = x
    BY <1>t, <1>i, <1>f DEF Queued
  <2>3. /\ kind = "timeout" => Queued(timeouts', id)
        /\ kind = "interval" => Queued(intervals', id)
    BY <1>8, <1>t, <1>i DEF Queued
  <2>4. ASSUME NEW x \in Registered \cup {id}, KindN(x) = "interval", x \notin cleared
        PROVE  Queued(intervals', x) /\ x \in registry'
    <3>1. CASE x = id
      BY <1>1, <1>6, <2>3, <2>4, <3>1
    <3>2. CASE x \in Registered
      <4>1. Queued(intervals, x) /\ x \in registry
        BY <1>5, <2>1, <2>4, <3>2 DEF NothingForgotten, Kind
      <4> QED
        BY <1>1, <2>2, <4>1
    <3> QED
      BY <3>1, <3>2
  <2>5. ASSUME NEW x \in Registered \cup {id}, KindN(x) # "interval", runs[x] = 0,
               x \notin cleared \cup lost
        PROVE  x \in registry' /\ (Queued(timeouts', x) \/ Queued(batch, x)
                                     \/ \E i \in DOMAIN frames' : frames'[i] = x)
    <3>1. CASE x = id
      BY <1>1, <1>6, <1>f, <2>3, <2>5, <3>1 DEF Kinds
    <3>2. CASE x \in Registered
      <4>1. x \in registry /\ (Queued(timeouts, x) \/ Queued(batch, x)
                                     \/ \E i \in DOMAIN frames : frames[i] = x)
        BY <1>5, <2>1, <2>5, <3>2 DEF NothingForgotten, Kind, Waiting
      <4> QED
        BY <1>1, <2>2, <4>1
    <3> QED
      BY <3>1, <3>2
  <2> QED
    <3> SUFFICES ASSUME NEW x \in Registered \cup {id}
                 PROVE  CASE KindN(x) = "interval" ->
                               x \notin cleared => Queued(intervals', x) /\ x \in registry'
                          [] OTHER ->
                               runs[x] = 0 /\ x \notin cleared \cup lost =>
                                 /\ x \in registry'
                                 /\ \/ Queued(timeouts', x) \/ Queued(batch, x)
                                    \/ \E i \in DOMAIN frames' : frames'[i] = x
      BY <1>1, <1>4 DEF NothingForgotten, Waiting, Queued, KindN
    <3> QED
      BY <2>4, <2>5
<1>13. QueuesKnown'
  <2>0. QueuesKnown
    BY DEF TimersIInv
  <2>1. ASSUME NEW i \in DOMAIN timeouts'
        PROVE  LET e == timeouts'[i] IN
               /\ e.id \in Registered' /\ IsTimeoutN(e.id)
               /\ e.due = DueN(e.id) \/ (DueN(e.id) <= e.due /\ e.due <= now)
    <3>1. CASE i \in DOMAIN timeouts
      BY <1>4, <1>5, <1>t, <1>7, <3>1
    <3>2. CASE kind = "timeout" /\ timeouts'[i] = te
      BY <1>4, <1>6, <1>8, <3>2
    <3> QED
      BY <1>t, <3>1, <3>2
  <2>2. ASSUME NEW i \in DOMAIN intervals'
        PROVE  LET e == intervals'[i] IN
               /\ e.id \in Registered' /\ KindN(e.id) = "interval"
               /\ e.period = registered'[e.id].delay
    <3>1. CASE i \in DOMAIN intervals
      BY <1>4, <1>5, <1>i, <2>0, <3>1 DEF QueuesKnown
    <3>2. CASE kind = "interval" /\ intervals'[i] = ie
      BY <1>4, <1>6, <1>8, <3>2
    <3> QED
      BY <1>i, <3>1, <3>2
  <2>3. ASSUME NEW i \in DOMAIN frames'
        PROVE  frames'[i] \in Registered' /\ KindN(frames'[i]) = "frame"
    <3>1. CASE i \in DOMAIN frames
      BY <1>4, <1>5, <1>f, <2>0, <3>1 DEF QueuesKnown
    <3>2. CASE kind = "frame" /\ frames'[i] = id
      BY <1>4, <1>6, <3>2
    <3> QED
      BY <1>f, <3>1, <3>2
  <2> QED
    BY <1>1, <2>1, <2>2, <2>3 DEF QueuesKnown, Kind, DueTime, IsTimeout, KindN, DueN, IsTimeoutN
<1>14. SortIsDue'
  <2> SUFFICES ASSUME NEW i \in DOMAIN timeouts', NEW j \in DOMAIN timeouts', i # j,
                      SortsBefore(i, j)'
               PROVE  SoonerN(timeouts'[i].id, timeouts'[j].id)
    BY DEF SortIsDue, SoonerDue, DueTime, SoonerN, DueN
  <2>1. \A k \in DOMAIN timeouts : /\ timeouts[k].due \in Nat /\ DueTime(timeouts[k].id) \in Nat
                                   /\ k <= Len(timeouts) /\ k \in Nat /\ Len(timeouts) \in Nat
    BY <1>7, TimersQueues, TimersNumbers
  <2>2. CASE i \in DOMAIN timeouts /\ j \in DOMAIN timeouts
    <3>1. SortsBefore(i, j)
      BY <1>t, <2>2 DEF SortsBefore
    <3>2. SoonerDue(timeouts[i].id, timeouts[j].id)
      BY <2>2, <3>1 DEF TimersIInv, SortIsDue
    <3> QED
      BY <1>5, <1>7, <1>t, <2>2, <3>2
  <2>3. CASE i \in DOMAIN timeouts /\ kind = "timeout" /\ j = Len(timeouts) + 1 /\ timeouts'[j] = te
    <3> DEFINE x == timeouts[i].id
    <3>1. x \in Registered /\ x < id /\ DueTime(x) \in Nat /\ DueN(x) = DueTime(x)
          /\ timeouts'[i] = timeouts[i]
      BY <1>4, <1>5, <1>7, <1>t, <2>1, <2>3
    <3>2. timeouts[i].due <= now + delay
      BY <1>8, <1>2, <2>1, <2>3, <3>1 DEF SortsBefore
    <3>3. DueTime(x) <= timeouts[i].due
      BY <1>2, <1>7, <2>1, <2>3
    <3>4. DueTime(x) <= now + delay
      BY <1>2, <2>1, <2>3, <3>1, <3>2, <3>3
    <3>5. SoonerN(x, id)
      BY <1>2, <1>6, <3>1, <3>4 DEF SoonerN
    <3> QED
      BY <1>8, <2>3, <3>1, <3>5
  <2>4. CASE j \in DOMAIN timeouts /\ kind = "timeout" /\ i = Len(timeouts) + 1 /\ timeouts'[i] = te
    <3> DEFINE x == timeouts[j].id
    <3>1. x \in Registered /\ DueTime(x) \in Nat /\ DueN(x) = DueTime(x)
          /\ timeouts'[j] = timeouts[j]
      BY <1>4, <1>5, <1>7, <1>t, <2>1, <2>4
    <3>2. now + delay < timeouts[j].due
      BY <1>8, <1>2, <2>1, <2>4, <3>1 DEF SortsBefore
    <3>3. timeouts[j].due = DueTime(x)
      BY <1>2, <1>7, <2>1, <2>4, <3>2
    <3>5. SoonerN(id, x)
      BY <1>2, <1>6, <3>1, <3>2, <3>3 DEF SoonerN
    <3> QED
      BY <1>8, <2>4, <3>1, <3>5
  <2> QED
    BY <1>t, <2>2, <2>3, <2>4
<1>15. IntervalsOnce'
  <2> SUFFICES ASSUME NEW i \in DOMAIN intervals', NEW j \in DOMAIN intervals', i # j
               PROVE  intervals'[i].id # intervals'[j].id
    BY DEF IntervalsOnce
  <2>1. IntervalsOnce
    BY DEF TimersIInv
  <2> QED
    BY <1>4, <1>7, <1>8, <1>i, <2>1 DEF IntervalsOnce
<1>16. IntervalsPaced'
  <2> SUFFICES ASSUME NEW i \in DOMAIN intervals'
               PROVE  BeganN(intervals'[i].id, runs[intervals'[i].id]
                        + IF Queued(batch, intervals'[i].id) THEN 2 ELSE 1) <= intervals'[i].next
    BY <1>1 DEF IntervalsPaced, Queued, Began, BeganN
  <2>1. CASE i \in DOMAIN intervals
    <3>1. IntervalsPaced
      BY DEF TimersIInv
    <3> QED
      BY <1>1, <1>5, <1>7, <1>i, <2>1, <3>1 DEF IntervalsPaced, Queued
  <2>2. CASE kind = "interval" /\ intervals'[i] = ie
    <3>1. ~Queued(batch, id)
      BY <1>4, <1>7 DEF Queued
    <3>2. BeganN(id, 1) = now + 1 * delay /\ 1 * delay = delay
      BY <1>2, <1>6
    <3>3. 0 + 1 = 1
      OBVIOUS
    <3> QED
      BY <1>1, <1>2, <1>8, <1>10, <2>2, <3>1, <3>2, <3>3 DEF Queued
  <2> QED
    BY <1>i, <2>1, <2>2
<1>17. BatchKnown' /\ BatchOnce'
  <2>1. BatchKnown /\ BatchOnce
    BY DEF TimersIInv
  <2>2. \A k \in DOMAIN batch :
          LET c == batch[k] IN
          /\ c.id \in Registered'
          /\ c.repeat <=> KindN(c.id) = "interval"
          /\ KindN(c.id) = "frame" <=> phase = "frames"
          /\ BeganN(c.id, IF c.repeat THEN runs[c.id] + 1 ELSE 1) <= now
    BY <1>1, <1>4, <1>5, <2>1 DEF BatchKnown
  <2>3. BatchKnown'
    BY <1>1, <2>1, <2>2 DEF BatchKnown, Kind, Began, KindN, BeganN
  <2>4. BatchOnce'
    BY <1>1, <2>1 DEF BatchOnce
  <2> QED
    BY <2>3, <2>4
<1>18. BatchIsDue'
  <2>0. BatchIsDue
    BY DEF TimersIInv
  <2>1. ASSUME NEW k \in DOMAIN batch, IsTimeout(batch[k].id)
        PROVE  /\ \A l \in DOMAIN batch :
                    k < l /\ IsTimeoutN(batch[l].id) => SoonerN(batch[k].id, batch[l].id)
               /\ \A i \in DOMAIN timeouts' : SoonerN(batch[k].id, timeouts'[i].id)
    <3>1. \A l \in DOMAIN batch :
            k < l /\ IsTimeoutN(batch[l].id) => SoonerN(batch[k].id, batch[l].id)
      BY <1>5, <1>7, <2>0, <2>1 DEF BatchIsDue
    <3>2. ASSUME NEW i \in DOMAIN timeouts PROVE SoonerN(batch[k].id, timeouts'[i].id)
      BY <1>5, <1>7, <1>t, <2>0, <2>1 DEF BatchIsDue
    <3>3. SoonerN(batch[k].id, id)
      <4> DEFINE x == batch[k].id
      <4>1. x \in Registered /\ ~batch[k].repeat /\ Began(x, 1) <= now
        BY <2>1 DEF TimersIInv, BatchKnown, IsTimeout, Kind
      <4>2. Began(x, 1) = DueTime(x) /\ DueTime(x) \in Nat
        BY <4>1, TimersNumbers, TimersAssumption DEF Began, DueTime
      <4>3. DueN(x) <= now + delay /\ x < id
        BY <1>2, <1>4, <1>5, <4>1, <4>2
      <4>4. DueN(x) \in Nat /\ DueN(id) = now + delay /\ now + delay \in Nat
        BY <1>2, <1>5, <1>6, <4>1, <4>2
      <4> QED
        BY <4>3, <4>4 DEF SoonerN
    <3> QED
      BY <1>8, <1>t, <3>1, <3>2, <3>3
  <2>2. \A k \in DOMAIN batch : IsTimeoutN(batch[k].id) => IsTimeout(batch[k].id)
    BY <1>5, <1>7
  <2> QED
    <3>1. \A k \in DOMAIN batch : IsTimeoutN(batch[k].id) =>
            /\ \A l \in DOMAIN batch :
                 k < l /\ IsTimeoutN(batch[l].id) => SoonerN(batch[k].id, batch[l].id)
            /\ \A i \in DOMAIN timeouts' : SoonerN(batch[k].id, timeouts'[i].id)
      BY <2>1, <2>2
    <3>2. batch' = batch
      BY <1>1
    <3> USE DEF IsTimeoutN, SoonerN, DueN, KindN
    <3>3. /\ \A x : IsTimeout(x)' <=> IsTimeoutN(x)
          /\ \A x, y : SoonerDue(x, y)' <=> SoonerN(x, y)
      BY DEF IsTimeout, SoonerDue, DueTime
    <3> HIDE DEF IsTimeoutN, SoonerN, DueN, KindN
    <3> QED
      BY <3>1, <3>2, <3>3 DEF BatchIsDue
<1>19. RegistryKnown'
  <2>0. RegistryKnown
    BY DEF TimersIInv
  <2>1. /\ Registered' \subseteq Ids
        /\ registry' \subseteq Registered' /\ cleared' \subseteq Registered'
        /\ cleared' \cap registry' = {}
    BY <1>1, <1>4, <1>10, <2>0 DEF RegistryKnown
  <2>2. \A x \in registry' : KindN(x) # "interval" => runs[x] = 0
    BY <1>1, <1>5, <1>10, <2>0 DEF RegistryKnown
  <2>3. \A x \in Ids \ Registered' : runs[x] = 0
    BY <1>4, <2>0 DEF RegistryKnown
  <2>4. \A x \in Registered' :
          registered'[x].born <= now /\ (KindN(x) = "frame" => registered'[x].delay = 0)
    <3>1. \A x \in Registered :
            registered[x].born <= now /\ (Kind(x) = "frame" => registered[x].delay = 0)
      BY <2>0 DEF RegistryKnown
    <3>2. \A x \in Registered :
            registered'[x].born <= now /\ (KindN(x) = "frame" => registered'[x].delay = 0)
      BY <1>4, <1>5, <3>1
    <3>3. registered'[id].born <= now /\ (KindN(id) = "frame" => registered'[id].delay = 0)
      BY <1>1, <1>2, <1>4, <1>6
    <3> QED
      BY <1>4, <3>2, <3>3
  <2> QED
    BY <1>1, <2>1, <2>2, <2>3, <2>4 DEF RegistryKnown, Kind, KindN
<1> QED
  BY <1>9, <1>11, <1>12, <1>13, <1>14, <1>15, <1>16, <1>17, <1>18, <1>19 DEF TimersIInv, TimersInv

-----------------------------------------------------------------------------
(* What a tick takes.                                                      *)

DueNow == DueTimeouts \cup DueIntervals

\* Where a due timeout or interval comes from.
LEMMA DueSources ==
  ASSUME TimersIInv
  PROVE  /\ IsFiniteSet(DueNow)
         /\ \A x \in DueNow :
              /\ x.pos \in Nat /\ x.due \in Nat /\ x.repeat \in BOOLEAN /\ x.id \in Ids
              /\ ~x.repeat => /\ x.pos \in DOMAIN timeouts
                              /\ x.id = timeouts[x.pos].id /\ x.due = timeouts[x.pos].due
                              /\ x.due <= now
              /\ x.repeat => \E i \in DOMAIN intervals :
                              /\ x.pos = Len(timeouts) + i /\ x.id = intervals[i].id
                              /\ x.due = intervals[i].next /\ x.due <= now
         /\ \A i \in DOMAIN timeouts : timeouts[i].due <= now =>
              \E x \in DueNow : x.pos = i /\ ~x.repeat
         /\ \A x, y \in DueNow : x.pos = y.pos => x = y
<1> DEFINE tdom == {j \in DOMAIN timeouts : timeouts[j].due <= now}
           idom == {j \in DOMAIN intervals : intervals[j].next <= now}
           t(i) == [id |-> timeouts[i].id, repeat |-> FALSE, due |-> timeouts[i].due, pos |-> i]
           v(i) == [id |-> intervals[i].id, repeat |-> TRUE, due |-> intervals[i].next,
                    pos |-> Len(timeouts) + i]
<1>1. DueTimeouts = {t(i) : i \in tdom} /\ DueIntervals = {v(i) : i \in idom}
  BY DEF DueTimeouts, DueIntervals
<1>2. /\ DOMAIN timeouts = 1..Len(timeouts) /\ DOMAIN intervals = 1..Len(intervals)
      /\ Len(timeouts) \in Nat /\ Len(intervals) \in Nat
      /\ \A i \in DOMAIN timeouts : timeouts[i].id \in Ids /\ timeouts[i].due \in Nat
      /\ \A i \in DOMAIN intervals : intervals[i].id \in Ids /\ intervals[i].next \in Nat
  BY TimersQueues
<1>3. IsFiniteSet(tdom) /\ IsFiniteSet(idom)
  <2>1. IsFiniteSet(1..Len(timeouts)) /\ IsFiniteSet(1..Len(intervals))
    BY <1>2, FS_Interval
  <2>2. tdom \subseteq 1..Len(timeouts) /\ idom \subseteq 1..Len(intervals)
    BY <1>2
  <2> QED
    BY <2>1, <2>2, FS_Subset
<1>4. IsFiniteSet({t(i) : i \in tdom}) /\ IsFiniteSet({v(i) : i \in idom})
  <2> HIDE DEF tdom, idom
  <2> DEFINE ft == [i \in tdom |-> t(i)]
             fv == [i \in idom |-> v(i)]
  <2>1. ft \in Surjection(tdom, {t(i) : i \in tdom}) /\ fv \in Surjection(idom, {v(i) : i \in idom})
    BY DEF Surjection
  <2> HIDE DEF ft, fv
  <2> QED
    BY <1>3, <2>1, FS_Surjection
<1>5. IsFiniteSet(DueNow)
  BY <1>1, <1>4, FS_Union DEF DueNow
<1>6. \A x \in DueNow : (\E i \in tdom : x = t(i)) \/ (\E i \in idom : x = v(i))
  BY <1>1 DEF DueNow
<1>7. \A i \in tdom : t(i) \in DueNow
  BY <1>1 DEF DueNow
<1>8. \A x \in DueNow :
        /\ x.pos \in Nat /\ x.due \in Nat /\ x.repeat \in BOOLEAN /\ x.id \in Ids
        /\ ~x.repeat => /\ x.pos \in DOMAIN timeouts
                        /\ x.id = timeouts[x.pos].id /\ x.due = timeouts[x.pos].due
                        /\ x.due <= now
        /\ x.repeat => \E i \in DOMAIN intervals :
                        /\ x.pos = Len(timeouts) + i /\ x.id = intervals[i].id
                        /\ x.due = intervals[i].next /\ x.due <= now
  <2> SUFFICES ASSUME NEW x \in DueNow
               PROVE
        /\ x.pos \in Nat /\ x.due \in Nat /\ x.repeat \in BOOLEAN /\ x.id \in Ids
        /\ ~x.repeat => /\ x.pos \in DOMAIN timeouts
                        /\ x.id = timeouts[x.pos].id /\ x.due = timeouts[x.pos].due
                        /\ x.due <= now
        /\ x.repeat => \E i \in DOMAIN intervals :
                        /\ x.pos = Len(timeouts) + i /\ x.id = intervals[i].id
                        /\ x.due = intervals[i].next /\ x.due <= now
    OBVIOUS
  <2>1. CASE \E i \in tdom : x = t(i)
    BY <1>2, <2>1
  <2>2. CASE \E i \in idom : x = v(i)
    BY <1>2, <2>2
  <2> QED
    BY <1>6, <2>1, <2>2
<1>9. \A i \in DOMAIN timeouts : timeouts[i].due <= now =>
        \E x \in DueNow : x.pos = i /\ ~x.repeat
  <2> SUFFICES ASSUME NEW i \in DOMAIN timeouts, timeouts[i].due <= now
               PROVE  \E x \in DueNow : x.pos = i /\ ~x.repeat
    OBVIOUS
  <2>1. t(i) \in DueNow /\ t(i).pos = i /\ ~t(i).repeat
    BY <1>7
  <2> QED
    BY <2>1
<1>10. ASSUME NEW x \in DueNow, NEW y \in DueNow, x.pos = y.pos PROVE x = y
  <2>1. CASE (\E i \in tdom : x = t(i)) /\ (\E i \in tdom : y = t(i))
    BY <1>10, <2>1
  <2>2. CASE (\E i \in idom : x = v(i)) /\ (\E i \in idom : y = v(i))
    <3>1. PICK i \in idom : x = v(i)
      BY <2>2
    <3>2. PICK j \in idom : y = v(j)
      BY <2>2
    <3>3. i = j
      BY <1>2, <1>10, <3>1, <3>2
    <3> QED
      BY <3>1, <3>2, <3>3
  <2>3. CASE (\E i \in tdom : x = t(i)) /\ (\E i \in idom : y = v(i))
    BY <1>2, <1>10, <2>3
  <2>4. CASE (\E i \in idom : x = v(i)) /\ (\E i \in tdom : y = t(i))
    BY <1>2, <1>10, <2>4
  <2> QED
    BY <1>6, <2>1, <2>2, <2>3, <2>4
<1> QED
  BY <1>5, <1>8, <1>9, <1>10

\* They are taken in the order of their deadlines, each once.
LEMMA DueInOrder ==
  ASSUME TimersIInv
  PROVE  /\ Due \in Seq(DueNow) /\ DOMAIN Due = 1..Len(Due) /\ Len(Due) \in Nat
         /\ \A i, j \in DOMAIN Due : i < j => Earlier(Due[i], Due[j])
         /\ \A x \in DueNow : \E i \in DOMAIN Due : Due[i] = x
<1> DEFINE R == {p \in DueNow \X DueNow : Earlier(p[1], p[2])}
           Ordered(list) == \A i, j \in DOMAIN list : i < j => Earlier(list[i], list[j])
           n == Cardinality(DueNow)
<1>1. \A x, y \in DueNow : <<x, y>> \in R <=> Earlier(x, y)
  OBVIOUS
<1>2. \A x \in DueNow : x.pos \in Nat /\ x.due \in Nat
  BY DueSources
<1>3. \A x, y \in DueNow : x.pos = y.pos => x = y
  BY DueSources
<1> HIDE DEF R
<1>4. StrictOrder(DueNow, R)
  <2>1. \A x \in DueNow : <<x, x>> \notin R
    BY <1>1, <1>2 DEF Earlier
  <2>2. \A x, y \in DueNow : x # y => <<x, y>> \in R \/ <<y, x>> \in R
    BY <1>1, <1>2, <1>3 DEF Earlier
  <2>3. \A x, y, z \in DueNow : <<x, y>> \in R /\ <<y, z>> \in R => <<x, z>> \in R
    BY <1>1, <1>2 DEF Earlier
  <2> QED
    BY <2>1, <2>2, <2>3 DEF StrictOrder
<1>5. IsFiniteSet(DueNow)
  BY DueSources
<1>6. \A list \in [1..n -> DueNow] : Ordered(list) <=> Rising(list, R)
  BY <1>1 DEF Rising
<1>7. \E list \in [1..n -> DueNow] : Ordered(list)
  BY <1>4, <1>5, <1>6, RisingExists
<1>8. Due = CHOOSE list \in [1..n -> DueNow] : Ordered(list)
  BY DEF Due, InOrder, DueNow
<1>9. Due \in [1..n -> DueNow] /\ Ordered(Due)
  BY <1>7, <1>8
<1>10. Rising(Due, R)
  BY <1>6, <1>9
<1>11. /\ Due \in Seq(DueNow) /\ \A x \in DueNow : \E i \in 1..Len(Due) : Due[i] = x
  BY <1>4, <1>5, <1>9, <1>10, RisingFacts
<1>12. DOMAIN Due = 1..Len(Due) /\ Len(Due) \in Nat
  BY <1>11, SeqElements
<1> QED
  BY <1>9, <1>11, <1>12

LEMMA MinOfTwo ==
  ASSUME NEW a \in Nat, NEW b \in Nat
  PROVE  Min({a, b}) \in {a, b} /\ Min({a, b}) <= a /\ Min({a, b}) <= b
<1>1. \E x \in {a, b} : \A y \in {a, b} : x <= y
  <2>1. CASE a <= b
    BY <2>1
  <2>2. CASE b <= a
    BY <2>2
  <2> QED
    BY <2>1, <2>2
<1> QED
  BY <1>1 DEF Min

\* A list cut after its first b elements.
LEMMA CutList ==
  ASSUME NEW M, NEW d \in Seq(M), NEW b \in Nat \ {0}
  PROVE  LET m == Min({b, Len(d)})
             s == SubSeq(d, 1, m)
             o == SubSeq(d, b + 1, Len(d))
         IN  /\ m \in Nat /\ m <= b /\ 1..m \subseteq DOMAIN d
             /\ DOMAIN s = 1..m /\ \A k \in 1..m : s[k] = d[k]
             /\ o \in Seq(M) /\ DOMAIN o \subseteq Nat
             /\ \A k \in DOMAIN o : b + k \in DOMAIN d /\ o[k] = d[b + k] /\ m < b + k
             /\ \A i \in DOMAIN d : i \in 1..m \/ (i - b \in DOMAIN o /\ o[i - b] = d[i])
<1> DEFINE n == Len(d)
           m == Min({b, n})
           s == SubSeq(d, 1, m)
           o == SubSeq(d, b + 1, n)
<1>1. n \in Nat /\ DOMAIN d = 1..n /\ \A i \in 1..n : d[i] \in M
  BY SeqElements
<1>2. m \in Nat /\ m <= b /\ m <= n /\ (m = b \/ m = n)
  <2> HIDE DEF n
  <2> QED
    BY <1>1, MinOfTwo
<1> HIDE DEF m, n
<1>3. 1..m \subseteq DOMAIN d
  BY <1>1, <1>2
<1>4. DOMAIN s = 1..m /\ \A k \in 1..m : s[k] = d[k]
  <2>1. \A i \in 1..m : d[i] \in M
    BY <1>1, <1>3
  <2>2. /\ s \in Seq(M) /\ Len(s) = IF 1 <= m THEN m - 1 + 1 ELSE 0
        /\ \A i \in 1..(m - 1 + 1) : s[i] = d[1 + i - 1]
    BY <1>2, <2>1, SubSeqProperties
  <2> HIDE DEF s
  <2>3. Len(s) = m /\ m - 1 + 1 = m /\ \A i \in 1..m : 1 + i - 1 = i
    BY <1>2, <2>2
  <2>4. DOMAIN s = 1..m
    BY <2>2, <2>3, SeqElements
  <2> QED
    BY <2>2, <2>3, <2>4
<1>5. CASE b < n
  <2>1. \A i \in (b + 1)..n : d[i] \in M
    BY <1>1
  <2>2. /\ o \in Seq(M)
        /\ Len(o) = IF b + 1 <= n THEN n - (b + 1) + 1 ELSE 0
        /\ \A i \in 1..(n - (b + 1) + 1) : o[i] = d[(b + 1) + i - 1]
    BY <1>1, <2>1, SubSeqProperties
  <2> HIDE DEF o
  <2>3. DOMAIN o = 1..(n - b)
    <3>1. Len(o) = n - b
      BY <1>1, <1>5, <2>2
    <3> QED
      BY <2>2, <3>1, SeqElements
  <2>4. \A k \in 1..(n - b) :
          /\ k \in 1..(n - (b + 1) + 1) /\ (b + 1) + k - 1 = b + k /\ b + k \in 1..n
    BY <1>1, <1>5
  <2>5. m = b
    BY <1>1, <1>2, <1>5
  <2>6. \A k \in DOMAIN o : b + k \in DOMAIN d /\ o[k] = d[b + k] /\ m < b + k /\ k \in Nat
    BY <1>1, <2>2, <2>3, <2>4, <2>5
  <2>7. ASSUME NEW i \in DOMAIN d, i \notin 1..m
        PROVE  i - b \in DOMAIN o /\ o[i - b] = d[i]
    <3>1. i - b \in DOMAIN o /\ b + (i - b) = i
      BY <1>1, <2>3, <2>5, <2>7
    <3> QED
      BY <2>6, <3>1
  <2>8. /\ m \in Nat /\ m <= b /\ 1..m \subseteq DOMAIN d
        /\ DOMAIN s = 1..m /\ \A k \in 1..m : s[k] = d[k]
        /\ o \in Seq(M) /\ DOMAIN o \subseteq Nat
        /\ \A k \in DOMAIN o : b + k \in DOMAIN d /\ o[k] = d[b + k] /\ m < b + k
        /\ \A i \in DOMAIN d : i \in 1..m \/ (i - b \in DOMAIN o /\ o[i - b] = d[i])
    BY <1>2, <1>3, <1>4, <2>2, <2>6, <2>7
  <2> QED
    BY <2>8 DEF o, m, n
<1>6. CASE ~(b < n)
  <2>1. o = << >> /\ m = n
    <3>1. n < b + 1
      BY <1>1, <1>6
    <3> QED
      BY <1>1, <1>2, <1>6, <3>1, SubSeqEmpty
  <2>2. o \in Seq(M) /\ DOMAIN o = {}
    <3>1. << >> \in Seq(M) /\ DOMAIN << >> = {}
      OBVIOUS
    <3> QED
      BY <2>1, <3>1, Zenon
  <2> HIDE DEF o
  <2>3. /\ m \in Nat /\ m <= b /\ 1..m \subseteq DOMAIN d
        /\ DOMAIN s = 1..m /\ \A k \in 1..m : s[k] = d[k]
        /\ o \in Seq(M) /\ DOMAIN o \subseteq Nat
        /\ \A k \in DOMAIN o : b + k \in DOMAIN d /\ o[k] = d[b + k] /\ m < b + k
        /\ \A i \in DOMAIN d : i \in 1..m \/ (i - b \in DOMAIN o /\ o[i - b] = d[i])
    BY <1>1, <1>2, <1>3, <1>4, <2>1, <2>2
  <2> QED
    BY <2>3 DEF o, m, n
<1> QED
  BY <1>5, <1>6

\* timeouts[from[j]] is the timeout that is in place j of the queue after the
\* tick has begun, put back or not due; timeouts[took[k]] or intervals[took[k]]
\* is what is in place k of the batch.
PutBack(from, j) == timeouts[from[j]].due <= now

Taken(from, took) ==
  /\ from \in [DOMAIN timeouts' -> DOMAIN timeouts]
  /\ \A j \in DOMAIN timeouts' :
       /\ timeouts'[j].id = timeouts[from[j]].id
       /\ timeouts'[j].due = IF PutBack(from, j) THEN now ELSE timeouts[from[j]].due
  /\ \A i, j \in DOMAIN timeouts' : i < j =>
       /\ ~PutBack(from, i) /\ ~PutBack(from, j) => from[i] < from[j]
       /\ PutBack(from, i) /\ PutBack(from, j) => SortsBefore(from[i], from[j])
  /\ DOMAIN took = DOMAIN batch'
  /\ \A k \in DOMAIN batch' :
       IF batch'[k].repeat
       THEN /\ took[k] \in DOMAIN intervals /\ intervals[took[k]].next <= now
            /\ batch'[k].id = intervals[took[k]].id
       ELSE /\ took[k] \in DOMAIN timeouts /\ timeouts[took[k]].due <= now
            /\ batch'[k].id = timeouts[took[k]].id
            /\ \A j \in DOMAIN timeouts' : PutBack(from, j) => SortsBefore(took[k], from[j])
  /\ \A k, l \in DOMAIN batch' : k < l =>
       /\ ~batch'[k].repeat /\ ~batch'[l].repeat => SortsBefore(took[k], took[l])
       /\ batch'[k].repeat /\ batch'[l].repeat => took[k] # took[l]
  /\ \A i \in DOMAIN timeouts :
       \/ \E j \in DOMAIN timeouts' : from[j] = i
       \/ \E k \in DOMAIN batch' : ~batch'[k].repeat /\ took[k] = i

LEMMA TickTakes ==
  ASSUME TimersIInv, BeginTick
  PROVE  /\ timeouts' \in Seq(Timeout) /\ batch' \in Seq(Callback) /\ Len(batch') <= Budget
         /\ \E from, took : Taken(from, took)
<1> DEFINE m == Min({Budget, Len(Due)})
           later == Retain(timeouts, {t \in ToSet(timeouts) : t.due > now})
           over == Clipped(Due)
           oneShots == Retain(over, {c \in ToSet(Due) : ~c.repeat})
           back == Requeued(Due)
<1>1. /\ Due \in Seq(DueNow) /\ DOMAIN Due = 1..Len(Due) /\ Len(Due) \in Nat
      /\ \A i, j \in DOMAIN Due : i < j => Earlier(Due[i], Due[j])
      /\ \A x \in DueNow : \E i \in DOMAIN Due : Due[i] = x
      /\ \A i \in DOMAIN Due : Due[i] \in DueNow
  BY DueInOrder, SeqElements
<1>2. Budget \in Nat \ {0}
  BY TimersAssumption
<1> DEFINE s == SubSeq(Due, 1, m)
<1>c. /\ m \in Nat /\ m <= Budget /\ 1..m \subseteq DOMAIN Due
      /\ DOMAIN s = 1..m /\ \A k \in 1..m : s[k] = Due[k]
      /\ over \in Seq(DueNow) /\ DOMAIN over \subseteq Nat
      /\ \A k \in DOMAIN over : /\ Budget + k \in DOMAIN Due /\ over[k] = Due[Budget + k]
                                /\ m < Budget + k
      /\ \A i \in DOMAIN Due :
           i \in 1..m \/ (i - Budget \in DOMAIN over /\ over[i - Budget] = Due[i])
  <2>1. Due \in Seq(DueNow)
    BY <1>1
  <2> QED
    BY <1>2, <2>1, CutList DEF Clipped
<1>3. timeouts' = later \o back /\ batch' = WithinBudget(Due)
  BY DEF BeginTick
<1> HIDE DEF m
\* The batch.
<1>4. /\ DOMAIN batch' = 1..m /\ batch' \in Seq(Callback) /\ Len(batch') = m
      /\ \A k \in 1..m : /\ k \in DOMAIN Due
                          /\ batch'[k].id = Due[k].id /\ batch'[k].repeat = Due[k].repeat
  <2>2. batch' = [k \in DOMAIN s |-> [id |-> s[k].id, repeat |-> s[k].repeat]]
    BY <1>3 DEF WithinBudget, Callbacks, m
  <2> HIDE DEF s
  <2>3. batch' = [k \in 1..m |-> [id |-> Due[k].id, repeat |-> Due[k].repeat]]
    BY <1>c, <2>2
  <2>4. \A k \in 1..m : k \in DOMAIN Due
    BY <1>c
  <2>5. \A k \in 1..m : [id |-> Due[k].id, repeat |-> Due[k].repeat] \in Callback
    BY <1>1, <2>4, DueSources DEF Callback
  <2>6. batch' \in Seq(Callback)
    BY <1>c, <2>3, <2>5
  <2>7. DOMAIN batch' = 1..m /\ Len(batch') = m
    BY <1>c, <2>3, <2>6
  <2> QED
    BY <2>3, <2>4, <2>6, <2>7
\* What stays in the queue.
<1>5. /\ later \in Seq(Timeout)
      /\ \E kept :
           /\ Sublist(later, timeouts, kept)
           /\ \A j \in DOMAIN later : later[j].due > now
           /\ \A i \in DOMAIN timeouts : timeouts[i].due > now => \E j \in DOMAIN later : kept[j] = i
  <2> DEFINE S == {t \in ToSet(timeouts) : t.due > now}
  <2>1. \A i \in DOMAIN timeouts : timeouts[i].due > now => timeouts[i] \in S
    BY DEF ToSet
  <2>2. \A t \in S : t.due > now
    OBVIOUS
  <2> HIDE DEF S
  <2>3. timeouts \in Seq(Timeout)
    BY TimersQueues
  <2>4. /\ Retain(timeouts, S) \in Seq(Timeout)
        /\ \E kept :
              /\ Sublist(Retain(timeouts, S), timeouts, kept)
              /\ \A j \in DOMAIN Retain(timeouts, S) : Retain(timeouts, S)[j] \in S
              /\ \A i \in DOMAIN timeouts : timeouts[i] \in S => \E j \in DOMAIN Retain(timeouts, S) : kept[j] = i
    BY <2>3, RetainSublist
  <2>5. later = Retain(timeouts, S)
    BY DEF S
  <2> HIDE DEF later
  <2> QED
    BY <2>1, <2>2, <2>4, <2>5
\* What goes back.
<1>7. /\ oneShots \in Seq(DueNow)
      /\ \E kept :
           /\ Sublist(oneShots, over, kept)
           /\ \A j \in DOMAIN oneShots : ~oneShots[j].repeat
           /\ \A i \in DOMAIN over : ~over[i].repeat => \E j \in DOMAIN oneShots : kept[j] = i
  <2> DEFINE S == {c \in ToSet(Due) : ~c.repeat}
  <2>1. \A i \in DOMAIN over : ~over[i].repeat => over[i] \in S
    BY <1>c DEF ToSet
  <2>2. \A c \in S : ~c.repeat
    OBVIOUS
  <2> HIDE DEF S
  <2>3. over \in Seq(DueNow)
    BY <1>c
  <2>5. oneShots = Retain(over, S)
    BY DEF S
  <2> HIDE DEF oneShots, over
  <2>4. /\ Retain(over, S) \in Seq(DueNow)
        /\ \E kept :
              /\ Sublist(Retain(over, S), over, kept)
              /\ \A j \in DOMAIN Retain(over, S) : Retain(over, S)[j] \in S
              /\ \A i \in DOMAIN over : over[i] \in S => \E j \in DOMAIN Retain(over, S) : kept[j] = i
    BY <2>3, RetainSublist
  <2> QED
    BY <2>1, <2>2, <2>4, <2>5
<1>8. /\ back = [i \in DOMAIN oneShots |-> [id |-> oneShots[i].id, due |-> now]]
      /\ back \in Seq(Timeout) /\ DOMAIN back = DOMAIN oneShots
      /\ \A j \in DOMAIN oneShots : back[j].id = oneShots[j].id /\ back[j].due = now
  <2>1. back = [i \in DOMAIN oneShots |-> [id |-> oneShots[i].id, due |-> now]]
    BY DEF Requeued
  <2>2. DOMAIN oneShots = 1..Len(oneShots) /\ Len(oneShots) \in Nat
        /\ \A j \in DOMAIN oneShots : oneShots[j] \in DueNow
    BY <1>7, SeqElements
  <2> HIDE DEF back, oneShots
  <2>3. \A j \in DOMAIN oneShots : [id |-> oneShots[j].id, due |-> now] \in Timeout
    <3>1. now \in 0..MaxTime
      BY DEF TimersIInv, TimersInv, TimersTypeOK
    <3> QED
      BY <2>2, <3>1, DueSources DEF Timeout
  <2> QED
    BY <2>1, <2>2, <2>3
<1>9. /\ timeouts' \in Seq(Timeout) /\ DOMAIN timeouts' = 1..(Len(later) + Len(back))
      /\ Len(later) \in Nat /\ Len(back) \in Nat
      /\ DOMAIN later = 1..Len(later) /\ DOMAIN back = 1..Len(back)
      /\ \A j \in DOMAIN timeouts' :
           timeouts'[j] = IF j <= Len(later) THEN later[j] ELSE back[j - Len(later)]
  <2> HIDE DEF later, back
  <2>1. later \in Seq(Timeout) /\ back \in Seq(Timeout)
    BY <1>5, <1>8
  <2>2. /\ timeouts' \in Seq(Timeout) /\ Len(timeouts') = Len(later) + Len(back)
        /\ \A j \in 1..(Len(later) + Len(back)) :
             timeouts'[j] = IF j <= Len(later) THEN later[j] ELSE back[j - Len(later)]
    BY <1>3, <2>1, ConcatProperties
  <2>3. /\ DOMAIN later = 1..Len(later) /\ DOMAIN back = 1..Len(back)
        /\ Len(later) \in Nat /\ Len(back) \in Nat /\ DOMAIN timeouts' = 1..Len(timeouts')
    BY <2>1, <2>2, SeqElements
  <2> QED
    BY <2>2, <2>3
<1> DEFINE ll == Len(later)
<1>10. PICK kl : /\ Sublist(later, timeouts, kl)
                 /\ \A j \in DOMAIN later : later[j].due > now
                 /\ \A i \in DOMAIN timeouts : timeouts[i].due > now => \E j \in DOMAIN later : kl[j] = i
  BY <1>5
<1>11. PICK kb : /\ Sublist(oneShots, over, kb)
                 /\ \A j \in DOMAIN oneShots : ~oneShots[j].repeat
                 /\ \A i \in DOMAIN over : ~over[i].repeat => \E j \in DOMAIN oneShots : kb[j] = i
  BY <1>7
<1> HIDE DEF later, over, oneShots, back, s
\* back[j] is at Due[Budget + kb[j]].
<1>12. \A j \in DOMAIN back :
         /\ kb[j] \in DOMAIN over /\ Budget + kb[j] \in DOMAIN Due
         /\ back[j].id = Due[Budget + kb[j]].id /\ back[j].due = now
         /\ ~Due[Budget + kb[j]].repeat /\ m < Budget + kb[j] /\ kb[j] \in Nat
  BY <1>8, <1>11, <1>c DEF Sublist
<1>13. \A i, j \in DOMAIN back : i < j => kb[i] < kb[j]
  BY <1>8, <1>11 DEF Sublist
<1>14. /\ \A x \in DueNow : ~x.repeat => /\ x.pos \in DOMAIN timeouts /\ x.id = timeouts[x.pos].id
                                         /\ timeouts[x.pos].due <= now /\ x.due = timeouts[x.pos].due
       /\ \A x, y \in DueNow : ~x.repeat /\ ~y.repeat /\ Earlier(x, y) => SortsBefore(x.pos, y.pos)
  <2>1. \A x \in DueNow : ~x.repeat => /\ x.pos \in DOMAIN timeouts /\ x.id = timeouts[x.pos].id
                                       /\ timeouts[x.pos].due <= now /\ x.due = timeouts[x.pos].due
    BY DueSources
  <2> QED
    BY <2>1 DEF Earlier, SortsBefore
<1> DEFINE from == [j \in DOMAIN timeouts' |->
                      IF j <= ll THEN kl[j] ELSE Due[Budget + kb[j - ll]].pos]
           took == [k \in DOMAIN batch' |->
                      IF Due[k].repeat THEN Due[k].pos - Len(timeouts) ELSE Due[k].pos]
<1>15. \A j \in DOMAIN timeouts' :
         \/ /\ j \in DOMAIN later /\ from[j] = kl[j] /\ kl[j] \in DOMAIN timeouts
            /\ timeouts'[j] = timeouts[kl[j]] /\ timeouts[kl[j]].due > now
         \/ /\ j > ll /\ j - ll \in DOMAIN back /\ from[j] = Due[Budget + kb[j - ll]].pos
            /\ timeouts'[j] = back[j - ll]
            /\ from[j] \in DOMAIN timeouts /\ timeouts[from[j]].due <= now
            /\ timeouts'[j].id = timeouts[from[j]].id
  <2> SUFFICES ASSUME NEW j \in DOMAIN timeouts'
               PROVE
         \/ /\ j \in DOMAIN later /\ from[j] = kl[j] /\ kl[j] \in DOMAIN timeouts
            /\ timeouts'[j] = timeouts[kl[j]] /\ timeouts[kl[j]].due > now
         \/ /\ j > ll /\ j - ll \in DOMAIN back /\ from[j] = Due[Budget + kb[j - ll]].pos
            /\ timeouts'[j] = back[j - ll]
            /\ from[j] \in DOMAIN timeouts /\ timeouts[from[j]].due <= now
            /\ timeouts'[j].id = timeouts[from[j]].id
    OBVIOUS
  <2>1. CASE j <= ll
    <3>1. j \in DOMAIN later /\ timeouts'[j] = later[j]
      BY <1>9, <2>1
    <3>2. from[j] = kl[j]
      BY <2>1
    <3>3. kl[j] \in DOMAIN timeouts /\ later[j] = timeouts[kl[j]] /\ later[j].due > now
      BY <1>10, <3>1 DEF Sublist
    <3> HIDE DEF from
    <3> QED
      BY <3>1, <3>2, <3>3
  <2>2. CASE ~(j <= ll)
    <3>1. j > ll /\ j - ll \in DOMAIN back /\ timeouts'[j] = back[j - ll]
      BY <1>9, <2>2
    <3>2. from[j] = Due[Budget + kb[j - ll]].pos
      BY <2>2
    <3> DEFINE x == Due[Budget + kb[j - ll]]
    <3>3. x \in DueNow /\ ~x.repeat /\ back[j - ll].id = x.id
      BY <1>1, <1>12, <3>1
    <3>4. x.pos \in DOMAIN timeouts /\ timeouts[x.pos].due <= now /\ x.id = timeouts[x.pos].id
      BY <1>14, <3>3
    <3> HIDE DEF from
    <3> QED
      BY <3>1, <3>2, <3>3, <3>4
  <2> QED
    BY <2>1, <2>2
<1>16. \A k \in DOMAIN batch' :
         IF batch'[k].repeat
         THEN /\ took[k] \in DOMAIN intervals /\ intervals[took[k]].next <= now
              /\ batch'[k].id = intervals[took[k]].id
              /\ Due[k].pos = Len(timeouts) + took[k]
         ELSE /\ took[k] \in DOMAIN timeouts /\ timeouts[took[k]].due <= now
              /\ batch'[k].id = timeouts[took[k]].id
              /\ took[k] = Due[k].pos
  <2> SUFFICES ASSUME NEW k \in DOMAIN batch'
               PROVE
         IF batch'[k].repeat
         THEN /\ took[k] \in DOMAIN intervals /\ intervals[took[k]].next <= now
              /\ batch'[k].id = intervals[took[k]].id
              /\ Due[k].pos = Len(timeouts) + took[k]
         ELSE /\ took[k] \in DOMAIN timeouts /\ timeouts[took[k]].due <= now
              /\ batch'[k].id = timeouts[took[k]].id
              /\ took[k] = Due[k].pos
    OBVIOUS
  <2>1. /\ Due[k] \in DueNow /\ batch'[k].id = Due[k].id /\ batch'[k].repeat = Due[k].repeat
    BY <1>1, <1>4
  <2>2. took[k] = IF Due[k].repeat THEN Due[k].pos - Len(timeouts) ELSE Due[k].pos
    OBVIOUS
  <2> HIDE DEF took
  <2>3. CASE Due[k].repeat
    <3>1. PICK i \in DOMAIN intervals : /\ Due[k].pos = Len(timeouts) + i /\ Due[k].id = intervals[i].id
                                        /\ Due[k].due = intervals[i].next /\ Due[k].due <= now
      BY <2>1, <2>3, DueSources
    <3>2. Len(timeouts) \in Nat /\ i \in Nat
      BY TimersQueues
    <3>3. took[k] = i
      BY <2>2, <2>3, <3>1, <3>2
    <3> QED
      BY <2>1, <2>3, <3>1, <3>3
  <2>4. CASE ~Due[k].repeat
    BY <1>14, <2>1, <2>2, <2>4
  <2> QED
    BY <2>3, <2>4
<1>17. from \in [DOMAIN timeouts' -> DOMAIN timeouts]
  <2>1. \A j \in DOMAIN timeouts' : from[j] \in DOMAIN timeouts
    BY <1>15
  <2> QED
    BY <2>1
<1>d. DOMAIN took = DOMAIN batch'
  OBVIOUS
<1> HIDE DEF from, took, ll
<1>n. now \in Nat /\ \A i \in DOMAIN timeouts : timeouts[i].due \in Nat
  BY TimersNumbers, TimersQueues
<1>18. \A j \in DOMAIN timeouts' : PutBack(from, j) <=> j > ll
  <2>1. \A j \in DOMAIN later : ~(j > ll)
    BY <1>9 DEF ll
  <2> QED
    BY <1>15, <1>n, <2>1 DEF PutBack
<1>19. \A j \in DOMAIN timeouts' :
         /\ timeouts'[j].id = timeouts[from[j]].id
         /\ timeouts'[j].due = IF PutBack(from, j) THEN now ELSE timeouts[from[j]].due
  BY <1>12, <1>15, <1>n DEF PutBack
<1>20. \A i, j \in DOMAIN timeouts' : i < j =>
         /\ ~PutBack(from, i) /\ ~PutBack(from, j) => from[i] < from[j]
         /\ PutBack(from, i) /\ PutBack(from, j) => SortsBefore(from[i], from[j])
  <2> SUFFICES ASSUME NEW i \in DOMAIN timeouts', NEW j \in DOMAIN timeouts', i < j
               PROVE
         /\ ~PutBack(from, i) /\ ~PutBack(from, j) => from[i] < from[j]
         /\ PutBack(from, i) /\ PutBack(from, j) => SortsBefore(from[i], from[j])
    OBVIOUS
  <2>1. ASSUME ~(i > ll), ~(j > ll) PROVE from[i] < from[j]
    <3>1. i \in DOMAIN later /\ j \in DOMAIN later /\ from[i] = kl[i] /\ from[j] = kl[j]
      BY <1>15, <2>1
    <3> QED
      BY <1>10, <3>1 DEF Sublist
  <2>2. ASSUME i > ll, j > ll PROVE SortsBefore(from[i], from[j])
    <3> DEFINE x == Due[Budget + kb[i - ll]]
               y == Due[Budget + kb[j - ll]]
    <3>1. /\ i - ll \in DOMAIN back /\ from[i] = x.pos
          /\ j - ll \in DOMAIN back /\ from[j] = y.pos
      <4>1. \A k \in DOMAIN later : ~(k > ll)
        BY <1>9 DEF ll
      <4> QED
        BY <1>15, <2>2, <4>1
    <3>2. kb[i - ll] < kb[j - ll]
      <4>1. i - ll < j - ll
        BY <1>9 DEF ll
      <4> QED
        BY <1>13, <3>1, <4>1
    <3>3. /\ Budget + kb[i - ll] \in DOMAIN Due /\ Budget + kb[j - ll] \in DOMAIN Due
          /\ ~x.repeat /\ ~y.repeat /\ kb[i - ll] \in Nat /\ kb[j - ll] \in Nat
      BY <1>12, <3>1
    <3>4. Budget + kb[i - ll] < Budget + kb[j - ll]
      BY <1>2, <3>2, <3>3
    <3>5. Earlier(x, y) /\ x \in DueNow /\ y \in DueNow
      BY <1>1, <3>3, <3>4
    <3> QED
      BY <1>14, <3>1, <3>3, <3>5
  <2> QED
    BY <1>18, <2>1, <2>2
<1>21. ASSUME NEW k \in DOMAIN batch', ~batch'[k].repeat, NEW j \in DOMAIN timeouts', PutBack(from, j)
       PROVE  SortsBefore(took[k], from[j])
  <2> DEFINE y == Due[Budget + kb[j - ll]]
  <2>1. j > ll
    BY <1>18, <1>21
  <2>2. j - ll \in DOMAIN back /\ from[j] = y.pos
    <3>1. \A i \in DOMAIN later : ~(i > ll)
      BY <1>9 DEF ll
    <3> QED
      BY <1>15, <2>1, <3>1
  <2>3. Budget + kb[j - ll] \in DOMAIN Due /\ ~y.repeat /\ m < Budget + kb[j - ll]
        /\ kb[j - ll] \in Nat
    BY <1>12, <2>2
  <2>4. k \in DOMAIN Due /\ k <= m /\ k \in Nat /\ ~Due[k].repeat /\ took[k] = Due[k].pos
    BY <1>4, <1>16, <1>21, <1>c
  <2>5. k < Budget + kb[j - ll]
    BY <1>2, <1>c, <2>3, <2>4
  <2>6. Earlier(Due[k], y) /\ Due[k] \in DueNow /\ y \in DueNow
    BY <1>1, <2>3, <2>4, <2>5
  <2> QED
    BY <1>14, <2>2, <2>3, <2>4, <2>6
<1>22. \A k, l \in DOMAIN batch' : k < l =>
         /\ ~batch'[k].repeat /\ ~batch'[l].repeat => SortsBefore(took[k], took[l])
         /\ batch'[k].repeat /\ batch'[l].repeat => took[k] # took[l]
  <2> SUFFICES ASSUME NEW k \in DOMAIN batch', NEW l \in DOMAIN batch', k < l
               PROVE
         /\ ~batch'[k].repeat /\ ~batch'[l].repeat => SortsBefore(took[k], took[l])
         /\ batch'[k].repeat /\ batch'[l].repeat => took[k] # took[l]
    OBVIOUS
  <2>1. /\ k \in DOMAIN Due /\ l \in DOMAIN Due /\ Due[k] \in DueNow /\ Due[l] \in DueNow
        /\ batch'[k].repeat = Due[k].repeat /\ batch'[l].repeat = Due[l].repeat
    BY <1>1, <1>4
  <2>2. Earlier(Due[k], Due[l])
    BY <1>1, <2>1
  <2>3. ~batch'[k].repeat /\ ~batch'[l].repeat => SortsBefore(took[k], took[l])
    BY <1>14, <1>16, <2>1, <2>2
  <2>4. Due[k].pos # Due[l].pos
    <3>1. Due[k].pos = Due[l].pos => Due[k] = Due[l]
      BY <2>1, DueSources
    <3>2. Due[k].pos \in Nat /\ Due[k].due \in Nat
      BY <2>1, DueSources
    <3> QED
      BY <2>2, <3>1, <3>2 DEF Earlier
  <2>5. batch'[k].repeat /\ batch'[l].repeat => took[k] # took[l]
    BY <1>16, <2>4
  <2> QED
    BY <2>3, <2>5
<1>23. ASSUME NEW i \in DOMAIN timeouts
       PROVE  \/ \E j \in DOMAIN timeouts' : from[j] = i
              \/ \E k \in DOMAIN batch' : ~batch'[k].repeat /\ took[k] = i
  <2>1. CASE timeouts[i].due > now
    <3>1. PICK j \in DOMAIN later : kl[j] = i
      BY <1>10, <2>1
    <3>2. j \in DOMAIN timeouts' /\ j <= ll
      BY <1>9, <3>1 DEF ll
    <3>3. from[j] = kl[j]
      BY <3>2 DEF from
    <3> QED
      BY <3>1, <3>2, <3>3
  <2>2. CASE timeouts[i].due <= now
    <3>1. PICK x \in DueNow : x.pos = i /\ ~x.repeat
      BY <2>2, DueSources
    <3>2. PICK d \in DOMAIN Due : Due[d] = x
      BY <1>1, <3>1
    <3>3. CASE d \in 1..m
      BY <1>4, <1>16, <3>1, <3>2, <3>3
    <3>4. CASE d - Budget \in DOMAIN over /\ over[d - Budget] = Due[d]
      <4>1. PICK j \in DOMAIN oneShots : kb[j] = d - Budget
        BY <1>11, <3>1, <3>2, <3>4
      <4>2. j \in DOMAIN back /\ ll + j \in DOMAIN timeouts' /\ ~(ll + j <= ll) /\ (ll + j) - ll = j
        BY <1>8, <1>9, <4>1 DEF ll
      <4>3. Budget + kb[j] = d
        BY <1>1, <1>2, <3>2, <4>1
      <4>4. from[ll + j] = Due[d].pos
        BY <4>2, <4>3 DEF from
      <4> QED
        BY <3>1, <3>2, <4>2, <4>4
    <3> QED
      BY <1>c, <3>2, <3>3, <3>4
  <2> QED
    BY <1>n, <2>1, <2>2
<1>24. Taken(from, took)
  BY <1>16, <1>17, <1>d, <1>19, <1>20, <1>21, <1>22, <1>23 DEF Taken
<1>25. Len(batch') <= Budget
  BY <1>4, <1>c
<1> QED
  BY <1>4, <1>9, <1>24, <1>25

-----------------------------------------------------------------------------
(***************************************************************************)
(* A tick begins.                                                          *)
(***************************************************************************)
\* What a tick does to the intervals: those that are due are armed again.
LEMMA TickRearms ==
  ASSUME TimersIInv, BeginTick
  PROVE  /\ intervals' \in Seq(Interval) /\ DOMAIN intervals' = DOMAIN intervals
         /\ \A i \in DOMAIN intervals :
              /\ intervals'[i].id = intervals[i].id /\ intervals'[i].period = intervals[i].period
              /\ intervals'[i].next = IF intervals[i].next <= now
                                      THEN now + intervals[i].period ELSE intervals[i].next
<1>1. intervals' = [i \in DOMAIN intervals |-> Rearmed(intervals[i])]
  BY DEF BeginTick
<1>2. DOMAIN intervals = 1..Len(intervals) /\ Len(intervals) \in Nat /\ intervals \in Seq(Interval)
  BY TimersQueues
<1>3. \A i \in DOMAIN intervals : intervals[i] \in Interval
  BY <1>2, SeqElements, Zenon
<1>4. \A i \in DOMAIN intervals :
        /\ Rearmed(intervals[i]) \in Interval
        /\ Rearmed(intervals[i]).id = intervals[i].id
        /\ Rearmed(intervals[i]).period = intervals[i].period
        /\ Rearmed(intervals[i]).next = IF intervals[i].next <= now
                                        THEN now + intervals[i].period ELSE intervals[i].next
  BY <1>3, TimersNumbers, TimersAssumption DEF Rearmed, Interval
<1>5. intervals' \in [1..Len(intervals) -> Interval]
  BY <1>1, <1>2, <1>4
<1>6. intervals' \in Seq(Interval)
  BY <1>2, <1>5
<1> QED
  BY <1>1, <1>4, <1>6

\* A tick begins.
LEMMA TimersBegin == ASSUME TimersIInv, BeginTick PROVE TimersIInv'
<1>1. /\ UNCHANGED <<now, frames, registry, running, registered, runs, cleared, lost>>
      /\ phase' = "timers" /\ batch = << >> /\ running = NoCallback
  BY DEF BeginTick, TimersIInv, BatchKnown
<1>2. /\ timeouts' \in Seq(Timeout) /\ batch' \in Seq(Callback) /\ Len(batch') <= Budget
      /\ \E from, took : Taken(from, took)
  BY TickTakes
<1>3. PICK from, took : Taken(from, took)
  BY <1>2
<1>4. /\ intervals' \in Seq(Interval) /\ DOMAIN intervals' = DOMAIN intervals
      /\ \A i \in DOMAIN intervals :
           /\ intervals'[i].id = intervals[i].id /\ intervals'[i].period = intervals[i].period
           /\ intervals'[i].next = IF intervals[i].next <= now
                                   THEN now + intervals[i].period ELSE intervals[i].next
  BY TickRearms
<1>5. /\ now \in Nat
      /\ \A i \in DOMAIN timeouts :
           /\ timeouts[i].due \in Nat /\ i \in Nat
           /\ timeouts[i].id \in Registered /\ IsTimeout(timeouts[i].id)
           /\ DueTime(timeouts[i].id) \in Nat
           /\ DueTime(timeouts[i].id) <= timeouts[i].due
           /\ timeouts[i].due = DueTime(timeouts[i].id) \/ timeouts[i].due <= now
  <2>1. now \in Nat /\ \A i \in DOMAIN timeouts : timeouts[i].due \in Nat /\ i \in Nat
    BY TimersQueues, TimersNumbers
  <2>2. \A i \in DOMAIN timeouts :
           /\ timeouts[i].id \in Registered /\ IsTimeout(timeouts[i].id)
           /\ timeouts[i].due = DueTime(timeouts[i].id)
                \/ (DueTime(timeouts[i].id) <= timeouts[i].due /\ timeouts[i].due <= now)
    BY DEF TimersIInv, QueuesKnown
  <2>3. \A i \in DOMAIN timeouts : DueTime(timeouts[i].id) \in Nat
    BY <2>2, TimersNumbers
  <2> QED
    BY <2>1, <2>2, <2>3
<1>6. /\ \A j \in DOMAIN timeouts' :
           /\ from[j] \in DOMAIN timeouts
           /\ timeouts'[j].id = timeouts[from[j]].id
           /\ timeouts'[j].due = IF timeouts[from[j]].due <= now THEN now ELSE timeouts[from[j]].due
           /\ j \in Nat
      /\ \A i, j \in DOMAIN timeouts' : i < j =>
           /\ timeouts[from[i]].due > now /\ timeouts[from[j]].due > now => from[i] < from[j]
           /\ timeouts[from[i]].due <= now /\ timeouts[from[j]].due <= now
                => SortsBefore(from[i], from[j])
  <2>1. \A j \in DOMAIN timeouts' : j \in Nat
    BY <1>2, SeqElements
  <2>2. \A j \in DOMAIN timeouts' : from[j] \in DOMAIN timeouts
    BY <1>3 DEF Taken
  <2>3. \A j \in DOMAIN timeouts' : timeouts[from[j]].due > now <=> ~PutBack(from, j)
    BY <1>5, <2>2 DEF PutBack
  <2> QED
    BY <1>3, <2>1, <2>2, <2>3 DEF Taken, PutBack
<1>7. /\ \A k \in DOMAIN batch' : batch'[k].repeat =>
           /\ took[k] \in DOMAIN intervals /\ intervals[took[k]].next <= now
           /\ batch'[k].id = intervals[took[k]].id
      /\ \A k \in DOMAIN batch' : ~batch'[k].repeat =>
           /\ took[k] \in DOMAIN timeouts /\ timeouts[took[k]].due <= now
           /\ batch'[k].id = timeouts[took[k]].id
           /\ \A j \in DOMAIN timeouts' :
                timeouts[from[j]].due <= now => SortsBefore(took[k], from[j])
      /\ \A k, l \in DOMAIN batch' : k < l =>
           /\ ~batch'[k].repeat /\ ~batch'[l].repeat => SortsBefore(took[k], took[l])
           /\ batch'[k].repeat /\ batch'[l].repeat => took[k] # took[l]
      /\ \A i \in DOMAIN timeouts :
           \/ \E j \in DOMAIN timeouts' : from[j] = i
           \/ \E k \in DOMAIN batch' : ~batch'[k].repeat /\ took[k] = i
  BY <1>3 DEF Taken, PutBack
<1>8. \A i, j \in DOMAIN timeouts : SortsBefore(i, j) =>
        i # j /\ SoonerDue(timeouts[i].id, timeouts[j].id)
  <2>1. SortIsDue
    BY DEF TimersIInv
  <2>2. \A i, j \in DOMAIN timeouts : SortsBefore(i, j) => i # j
    BY <1>5 DEF SortsBefore
  <2> QED
    BY <2>1, <2>2 DEF SortIsDue
<1>9. \A k \in DOMAIN batch' :
        LET c == batch'[k] IN
        /\ c.id \in Registered
        /\ c.repeat <=> Kind(c.id) = "interval"
        /\ Kind(c.id) # "frame"
        /\ Began(c.id, IF c.repeat THEN runs[c.id] + 1 ELSE 1) <= now
  <2> SUFFICES ASSUME NEW k \in DOMAIN batch'
               PROVE  LET c == batch'[k] IN
                      /\ c.id \in Registered
                      /\ c.repeat <=> Kind(c.id) = "interval"
                      /\ Kind(c.id) # "frame"
                      /\ Began(c.id, IF c.repeat THEN runs[c.id] + 1 ELSE 1) <= now
    OBVIOUS
  <2>0. batch'[k].repeat \in BOOLEAN
    <3>1. batch'[k] \in Callback
      BY <1>2, SeqElements, Zenon
    <3> QED
      BY <3>1 DEF Callback
  <2>1. CASE batch'[k].repeat
    <3>1. took[k] \in DOMAIN intervals /\ intervals[took[k]].next <= now
          /\ batch'[k].id = intervals[took[k]].id
      BY <1>7, <2>1
    <3> DEFINE id == intervals[took[k]].id
    <3>2. /\ id \in Registered /\ Kind(id) = "interval" /\ runs[id] \in Nat
          /\ intervals[took[k]].next \in Nat
          /\ Began(id, runs[id] + 1) <= intervals[took[k]].next
      BY <3>1, IntervalKnown
    <3>3. Began(id, runs[id] + 1) \in Nat
      BY <3>2, BeganInteger
    <3> HIDE DEF id
    <3>4. Began(id, runs[id] + 1) <= now
      BY <1>5, <3>1, <3>2, <3>3 DEF id
    <3> QED
      BY <2>1, <3>1, <3>2, <3>4 DEF id
  <2>2. CASE ~batch'[k].repeat
    <3>1. took[k] \in DOMAIN timeouts /\ timeouts[took[k]].due <= now
          /\ batch'[k].id = timeouts[took[k]].id
      BY <1>7, <2>2
    <3> DEFINE id == timeouts[took[k]].id
    <3>2. id \in Registered /\ IsTimeout(id) /\ DueTime(id) <= now
      BY <1>5, <3>1
    <3>3. Began(id, 1) = DueTime(id)
      BY <3>2, TimersNumbers, TimersAssumption DEF Began, DueTime
    <3> QED
      BY <2>2, <3>1, <3>2, <3>3 DEF IsTimeout, Kind
  <2> QED
    BY <2>0, <2>1, <2>2
<1>10. TimersTypeOK'
  BY <1>1, <1>2, <1>4 DEF TimersIInv, TimersInv, TimersTypeOK, Callback, Timeout, Interval
<1>11. OnSchedule'
  BY <1>1 DEF TimersIInv, TimersInv, OnSchedule, Registered
<1>12. NothingForgotten'
  <2>1. NothingForgotten
    BY DEF TimersIInv, TimersInv
  <2>2. \A id : Queued(intervals, id) => Queued(intervals', id)
    BY <1>4 DEF Queued
  <2>3. ~\E id : Queued(batch, id)
    BY <1>1 DEF Queued
  <2>4. \A id : Queued(timeouts, id) => Queued(timeouts', id) \/ Queued(batch', id)
    <3> SUFFICES ASSUME NEW i \in DOMAIN timeouts
                 PROVE  Queued(timeouts', timeouts[i].id) \/ Queued(batch', timeouts[i].id)
      BY DEF Queued
    <3> QED
      BY <1>6, <1>7 DEF Queued
  <2> DEFINE after(id) ==
        CASE registered[id].kind = "interval" ->
               id \notin cleared => Queued(intervals', id) /\ id \in registry
          [] OTHER ->
               Waiting(id) => /\ id \in registry
                              /\ \/ Queued(timeouts', id) \/ Queued(batch', id)
                                 \/ \E i \in DOMAIN frames : frames[i] = id
  <2>5. \A id \in Registered : after(id)
    BY <2>1, <2>2, <2>3, <2>4 DEF NothingForgotten
  <2> QED
    BY <1>1, <2>5 DEF NothingForgotten, Waiting, Queued, Registered
<1>13. QueuesKnown'
  <2>0. QueuesKnown
    BY DEF TimersIInv
  <2>1. ASSUME NEW j \in DOMAIN timeouts'
        PROVE  LET e == timeouts'[j] IN
               /\ e.id \in Registered /\ IsTimeout(e.id)
               /\ e.due = DueTime(e.id) \/ (DueTime(e.id) <= e.due /\ e.due <= now)
    <3>1. /\ from[j] \in DOMAIN timeouts /\ timeouts'[j].id = timeouts[from[j]].id
          /\ timeouts'[j].due = IF timeouts[from[j]].due <= now THEN now ELSE timeouts[from[j]].due
      BY <1>6
    <3> QED
      BY <1>5, <3>1
  <2>2. ASSUME NEW i \in DOMAIN intervals'
        PROVE  LET e == intervals'[i] IN
               /\ e.id \in Registered /\ Kind(e.id) = "interval"
               /\ e.period = registered[e.id].delay
    BY <1>4, <2>0 DEF QueuesKnown
  <2>3. \A i \in DOMAIN frames : frames[i] \in Registered /\ Kind(frames[i]) = "frame"
    BY <2>0 DEF QueuesKnown
  <2> QED
    BY <1>1, <2>1, <2>2, <2>3 DEF QueuesKnown, Kind, DueTime, IsTimeout, Registered
<1>14. SortIsDue'
  <2> SUFFICES ASSUME NEW i \in DOMAIN timeouts', NEW j \in DOMAIN timeouts', i # j,
                      SortsBefore(i, j)'
               PROVE  SoonerDue(timeouts'[i].id, timeouts'[j].id)
    BY <1>1, RegisteredStays DEF SortIsDue, SoonerDue, DueTime
  <2>1. \/ timeouts'[i].due < timeouts'[j].due
        \/ timeouts'[i].due = timeouts'[j].due /\ i < j
    BY DEF SortsBefore
  <2> DEFINE a == from[i]
             b == from[j]
  <2>2. /\ a \in DOMAIN timeouts /\ b \in DOMAIN timeouts
        /\ timeouts'[i].due = IF timeouts[a].due <= now THEN now ELSE timeouts[a].due
        /\ timeouts'[j].due = IF timeouts[b].due <= now THEN now ELSE timeouts[b].due
        /\ timeouts'[i].id = timeouts[a].id /\ timeouts'[j].id = timeouts[b].id
        /\ i < j =>
           /\ timeouts[a].due > now /\ timeouts[b].due > now => a < b
           /\ timeouts[a].due <= now /\ timeouts[b].due <= now => SortsBefore(a, b)
    BY <1>6
  <2> HIDE DEF a, b
  <2>3. timeouts[a].due \in Nat /\ timeouts[b].due \in Nat
    BY <1>5, <2>2
  <2>4. SortsBefore(a, b)
    <3>1. CASE timeouts[a].due <= now /\ timeouts[b].due <= now
      BY <1>5, <2>1, <2>2, <3>1
    <3>2. CASE timeouts[a].due <= now /\ timeouts[b].due > now
      BY <1>5, <2>3, <3>2 DEF SortsBefore
    <3>3. CASE timeouts[a].due > now /\ timeouts[b].due <= now
      BY <1>5, <2>1, <2>2, <2>3, <3>3
    <3>4. CASE timeouts[a].due > now /\ timeouts[b].due > now
      BY <1>5, <2>1, <2>2, <2>3, <3>4 DEF SortsBefore
    <3> QED
      BY <1>5, <2>3, <3>1, <3>2, <3>3, <3>4
  <2> QED
    BY <1>8, <2>2, <2>4
<1>15. IntervalsOnce'
  BY <1>4 DEF TimersIInv, IntervalsOnce
<1>16. IntervalsPaced'
  <2> SUFFICES ASSUME NEW i \in DOMAIN intervals
               PROVE  Began(intervals[i].id, runs[intervals[i].id]
                        + IF Queued(batch', intervals[i].id) THEN 2 ELSE 1) <= intervals'[i].next
    BY <1>1, <1>4, RegisteredStays DEF IntervalsPaced, Queued
  <2> DEFINE id == intervals[i].id
  <2>1. /\ id \in Registered /\ Kind(id) = "interval" /\ runs[id] \in Nat
        /\ intervals[i].period = registered[id].delay
        /\ intervals[i].next \in Nat /\ intervals[i].period \in Nat
        /\ Began(id, runs[id] + 1) <= intervals[i].next
    BY IntervalKnown
  <2>2. /\ Began(id, runs[id] + 1) \in Nat
        /\ Began(id, runs[id] + 2) = Began(id, runs[id] + 1) + intervals[i].period
    <3>1. runs[id] + 1 \in Nat /\ (runs[id] + 1) + 1 = runs[id] + 2
      BY <2>1
    <3>2. Began(id, (runs[id] + 1) + 1) = Began(id, runs[id] + 1) + registered[id].delay
          /\ Began(id, runs[id] + 1) \in Nat
      BY <2>1, <3>1, BeganInteger
    <3> QED
      BY <2>1, <3>1, <3>2
  <2> HIDE DEF id
  <2>3. CASE intervals[i].next <= now
    <3>1. intervals'[i].next = now + intervals[i].period
      BY <1>4, <2>3
    <3>2. Began(id, runs[id] + 1) <= now
      BY <1>5, <2>1, <2>2, <2>3
    <3>3. Began(id, runs[id] + 2) <= now + intervals[i].period
          /\ Began(id, runs[id] + 1) <= now + intervals[i].period
      BY <1>5, <2>1, <2>2, <3>2
    <3> QED
      BY <3>1, <3>3 DEF id
  <2>4. CASE intervals[i].next > now
    <3>1. intervals'[i].next = intervals[i].next
      BY <1>4, <1>5, <2>1, <2>4
    <3>2. ASSUME NEW k \in DOMAIN batch', batch'[k].id = id PROVE FALSE
      <4>1. batch'[k].repeat
        BY <1>9, <2>1, <3>2
      <4>2. took[k] \in DOMAIN intervals /\ intervals[took[k]].next <= now
            /\ intervals[took[k]].id = intervals[i].id
        BY <1>7, <3>2, <4>1 DEF id
      <4>3. took[k] = i
        BY <4>2 DEF TimersIInv, IntervalsOnce
      <4> QED
        BY <1>5, <2>1, <2>4, <4>2, <4>3
    <3>3. ~Queued(batch', id)
      BY <3>2 DEF Queued
    <3> QED
      BY <2>1, <3>1, <3>3 DEF id
  <2> QED
    BY <1>5, <2>1, <2>3, <2>4
<1>17. BatchKnown'
  BY <1>1, <1>9, RegisteredStays DEF BatchKnown
<1>18. BatchOnce'
  <2> SUFFICES ASSUME NEW k \in DOMAIN batch', NEW l \in DOMAIN batch', k # l,
                      batch'[k].repeat, batch'[l].repeat
               PROVE  batch'[k].id # batch'[l].id
    BY DEF BatchOnce
  <2>1. k \in Nat /\ l \in Nat
    BY <1>2, SeqElements
  <2>2. took[k] # took[l]
    <3>1. CASE k < l
      BY <1>7, <3>1
    <3>2. CASE l < k
      BY <1>7, <3>2
    <3> QED
      BY <2>1, <3>1, <3>2
  <2> QED
    BY <1>7, <2>2 DEF TimersIInv, IntervalsOnce
<1>19. BatchIsDue'
  <2>1. ASSUME NEW k \in DOMAIN batch', IsTimeout(batch'[k].id)
        PROVE  /\ \A l \in DOMAIN batch' :
                    k < l /\ IsTimeout(batch'[l].id) => SoonerDue(batch'[k].id, batch'[l].id)
               /\ \A i \in DOMAIN timeouts' : SoonerDue(batch'[k].id, timeouts'[i].id)
    <3>1. \A l \in DOMAIN batch' : IsTimeout(batch'[l].id) => ~batch'[l].repeat
      BY <1>9 DEF IsTimeout, Kind
    <3>2. /\ took[k] \in DOMAIN timeouts /\ timeouts[took[k]].due <= now
          /\ batch'[k].id = timeouts[took[k]].id
          /\ \A j \in DOMAIN timeouts' :
               timeouts[from[j]].due <= now => SortsBefore(took[k], from[j])
      BY <1>7, <2>1, <3>1
    <3>3. \A l \in DOMAIN batch' :
            k < l /\ IsTimeout(batch'[l].id) => SoonerDue(batch'[k].id, batch'[l].id)
      BY <1>7, <1>8, <2>1, <3>1, <3>2
    <3>4. ASSUME NEW i \in DOMAIN timeouts' PROVE SoonerDue(batch'[k].id, timeouts'[i].id)
      <4>1. from[i] \in DOMAIN timeouts /\ timeouts'[i].id = timeouts[from[i]].id
        BY <1>6
      <4>2. SortsBefore(took[k], from[i])
        <5>1. CASE timeouts[from[i]].due <= now
          BY <3>2, <5>1
        <5>2. CASE ~(timeouts[from[i]].due <= now)
          BY <1>5, <3>2, <4>1, <5>2 DEF SortsBefore
        <5> QED
          BY <5>1, <5>2
      <4> QED
        BY <1>8, <3>2, <4>1, <4>2
    <3> QED
      BY <3>3, <3>4
  <2> QED
    BY <1>1, <2>1, RegisteredStays DEF BatchIsDue
<1>20. RegistryKnown'
  BY <1>1, RegisteredStays DEF TimersIInv, RegistryKnown
<1> QED
  BY <1>10, <1>11, <1>12, <1>13, <1>14, <1>15, <1>16, <1>17, <1>18, <1>19, <1>20
     DEF TimersIInv, TimersInv

-----------------------------------------------------------------------------
(***************************************************************************)
(* The theorems.                                                           *)
(***************************************************************************)
LEMMA TimersStep == TimersIInv /\ [TimersNext]_timerVars => TimersIInv'
<1> SUFFICES ASSUME TimersIInv, [TimersNext]_timerVars PROVE TimersIInv'
  OBVIOUS
<1>1. ASSUME NEW kind \in Kinds, NEW delay \in Delays, Register(kind, delay) PROVE TimersIInv'
  BY <1>1, TimersRegister
<1>2. ASSUME NEW id \in Registered, Clear(id) PROVE TimersIInv'
  BY <1>2, TimersClear
<1>3. CASE BeginTick
  BY <1>3, TimersBegin
<1>4. CASE CallNext
  BY <1>4, TimersCall
<1>5. CASE CallbackReturns \/ EndTick
  BY <1>5, TimersGoOn
<1>6. CASE CallbackThrows
  BY <1>6, TimersThrow
<1>7. CASE BeginFrames
  BY <1>7, TimersFrames
<1>8. CASE TimePasses
  BY <1>8, TimersWait
<1>9. CASE UNCHANGED timerVars
  BY <1>9, TimersRests
<1> QED
  BY <1>1, <1>2, <1>3, <1>4, <1>5, <1>6, <1>7, <1>8, <1>9 DEF TimersNext, Script, CallbackEnds

\* What starts is the head of the batch, and it still has its callable.
LEMMA StartIsHead ==
  ASSUME TimersIInv, [TimersNext]_timerVars, NEW id \in Ids, Starts(id)
  PROVE  batch # << >> /\ Head(batch).id = id /\ id \in registry
<1>1. running' # running
  BY DEF Starts, NoCallback, Ids
<1>2. CallNext
  BY <1>1 DEF TimersNext, Script, Register, Clear, BeginTick, CallbackEnds, CallbackReturns,
     CallbackThrows, BeginFrames, EndTick, TimePasses, timerVars, Starts, NoCallback
<1> QED
  BY <1>1, <1>2 DEF CallNext, Starts

\* A timeout that starts is due before every other that waits.
LEMMA TurnStep ==
  ASSUME TimersIInv, [TimersNext]_timerVars, NEW id \in Registered, NEW other \in Registered,
         IsTimeout(id), Starts(id), IsTimeout(other), other # id, Waiting(other)
  PROVE  SoonerDue(id, other)
<1>1. id \in Ids /\ other \in Ids
  BY TimersNumbers
<1>2. batch # << >> /\ Head(batch).id = id
  BY <1>1, StartIsHead
<1>3. batch[1].id = id /\ 1 \in DOMAIN batch
  BY <1>2, TimersQueues, HeadAndTail
<1>4. \/ Queued(timeouts, other) \/ Queued(batch, other) \/ \E i \in DOMAIN frames : frames[i] = other
  BY DEF TimersIInv, TimersInv, NothingForgotten, IsTimeout
<1>5. ~\E i \in DOMAIN frames : frames[i] = other
  BY DEF TimersIInv, QueuesKnown, IsTimeout, Kind
<1>6. BatchIsDue
  BY DEF TimersIInv
<1>7. CASE Queued(timeouts, other)
  BY <1>3, <1>6, <1>7 DEF BatchIsDue, Queued
<1>8. CASE Queued(batch, other)
  <2>1. PICK k \in DOMAIN batch : batch[k].id = other
    BY <1>8 DEF Queued
  <2>2. 1 < k
    <3>1. k \in Nat /\ k # 0 /\ k # 1
      BY <1>3, <2>1, TimersQueues
    <3> QED
      BY <3>1
  <2> QED
    BY <1>3, <1>6, <2>1, <2>2 DEF BatchIsDue
<1> QED
  BY <1>4, <1>5, <1>7, <1>8

\* In every behaviour of HostScheduler the queues, the batch under way and the
\* registry of callables agree: a tick stays in its budget, no callback runs
\* early, no one-shot twice, and none that was neither cleared nor dropped by
\* a throw is forgotten.
THEOREM TimersSafe == TimersSpec => []TimersInv
<1>1. TimersInit => TimersIInv
  BY TimersStart
<1>2. TimersIInv /\ [TimersNext]_timerVars => TimersIInv'
  BY TimersStep
<1>3. TimersIInv => TimersInv
  BY DEF TimersIInv
<1> QED
  BY <1>1, <1>2, <1>3, PTL DEF TimersSpec

\* No cleared callback starts, and timeouts start in the order of their
\* deadlines and, within one deadline, of their registrations, however ticks
\* clip their batches and put timeouts back.
THEOREM TimersInTurn == TimersSpec => StartsInTurn
<1> DEFINE InTurn == /\ \A id \in cleared : ~Starts(id)
                     /\ \A id, other \in Registered :
                          /\ IsTimeout(id) /\ Starts(id)
                          /\ IsTimeout(other) /\ other # id /\ Waiting(other)
                          => \/ DueTime(id) < DueTime(other)
                             \/ DueTime(id) = DueTime(other) /\ id < other
<1>1. TimersInit => TimersIInv
  BY TimersStart
<1>2. TimersIInv /\ [TimersNext]_timerVars => TimersIInv'
  BY TimersStep
<1>3. TimersIInv /\ [TimersNext]_timerVars => InTurn
  <2> SUFFICES ASSUME TimersIInv, [TimersNext]_timerVars PROVE InTurn
    OBVIOUS
  <2>1. ASSUME NEW id \in cleared, Starts(id) PROVE FALSE
    <3>1. id \in Ids /\ id \notin registry
      BY DEF TimersIInv, TimersInv, TimersTypeOK, RegistryKnown
    <3> QED
      BY <2>1, <3>1, StartIsHead
  <2>2. \A id, other \in Registered :
          /\ IsTimeout(id) /\ Starts(id)
          /\ IsTimeout(other) /\ other # id /\ Waiting(other)
          => \/ DueTime(id) < DueTime(other)
             \/ DueTime(id) = DueTime(other) /\ id < other
    BY TurnStep DEF SoonerDue
  <2> QED
    BY <2>1, <2>2
<1>4. TimersIInv /\ [TimersNext]_timerVars => [InTurn]_timerVars
  BY <1>3
<1> HIDE DEF InTurn
<1>5. TimersSpec => [][InTurn]_timerVars
  BY <1>1, <1>2, <1>4, PTL DEF TimersSpec
<1> QED
  BY <1>5 DEF InTurn, StartsInTurn

=============================================================================
