---------------------------- MODULE EngineWorker ----------------------------
(***************************************************************************)
(* The native engine worker of crates/silksurf-app/src/engine_process.rs:  *)
(* the command reader thread, the navigation fetch threads and the runtime *)
(* actor that consumes what both put on one bounded queue.                 *)
(*                                                                         *)
(* A handler changes the worker's state, then writes its events one by one *)
(* to a pipe that may be full or broken, so a handler here fills outbox    *)
(* and the actor takes no further message until outbox is written.         *)
(***************************************************************************)
EXTENDS EnginePipes, FiniteSets

CONSTANTS
  QueueDepth,     \* WORKER_QUEUE_DEPTH
  MaxGeneration   \* the largest navigation generation, u64::MAX in the code

ASSUME WorkerAssumption ==
  /\ Views \subseteq Nat
  /\ QueueDepth \in Nat \ {0}
  /\ MaxGeneration \in Nat \ {0}

VARIABLES
  readerDone,  \* the command reader thread has returned
  queue,       \* the WorkerMessage channel
  views,       \* NativeEngineWorker::views
  profiles,    \* NativeEngineWorker::profiles
  inflight,    \* NativeEngineWorker::inflight_navigations
  fetches,     \* fetch threads that have not sent NavigationComplete
  spawning,    \* the fetch start_navigation has still to spawn
  building,    \* the completion whose page is being built
  outbox,      \* events the current handler has still to write
  draining,    \* the actor is inside close_all_views
  starts,      \* history: navigations started, the identity of the next one
  announced    \* history: the load state each view has in the written events

workerVars == <<readerDone, queue, views, profiles, inflight, fetches,
                spawning, building, outbox, draining, starts, announced>>
vars == <<pipeVars, workerVars>>

-----------------------------------------------------------------------------
(***************************************************************************)
(* State.  Generation 0 is never active: the first navigation of a view    *)
(* has generation 1.  nav is the history identity of a navigation, which   *)
(* the code does not have; a generation alone is not one, because a view   *)
(* that is closed and created again starts from 0.                         *)
(***************************************************************************)
NoNavigation == 0

\* A URL or a page the view has or has not.
Option == {"None", "Some"}

Entry == [status : {"absent", "open"}, generation : 0..MaxGeneration,
          active : 0..MaxGeneration, requested : Option, page : Option,
          nav : Nat]

Absent == [status |-> "absent", generation |-> 0, active |-> NoNavigation,
           requested |-> "None", page |-> "None", nav |-> 0]

NewView == [status |-> "open", generation |-> 0, active |-> NoNavigation,
            requested |-> "None", page |-> "None", nav |-> 0]

Present(v) == views[v].status = "open"

Fetch == [view : Views, generation : 1..MaxGeneration, nav : Nat]

\* What the loader returns: a payload, a payload whose final URL is too long
\* for an event, or an error (a panic is caught and becomes an error).
Results == {"payload", "longUrlPayload", "error"}

CommandMessage == [kind : {"Command"}, cmd : Command]
StreamMessage == [kind : {"CommandStreamClosed", "CommandStreamFailed"}]
CompleteMessage ==
  [kind : {"NavigationComplete"}, fetch : Fetch, result : Results]
Message == CommandMessage \cup StreamMessage \cup CompleteMessage

LoadStates == {"Absent", "Idle", "Loading", "Committed", "Interactive",
               "Complete", "Failed"}

\* MAX_INFLIGHT_NAVIGATIONS
MaxInflightTwo == 2
MaxInflight == 1

Init ==
  /\ PipesInit
  /\ readerDone = FALSE
  /\ queue = << >>
  /\ views = [v \in Views |-> Absent]
  /\ profiles = {}
  /\ inflight = 0
  /\ fetches = {} /\ spawning = {} /\ building = {}
  /\ outbox = << >>
  /\ draining = FALSE
  /\ starts = 0
  /\ announced = [v \in Views |-> "Absent"]

-----------------------------------------------------------------------------
(***************************************************************************)
(* The producers of the queue.  Both block in send while it is full.       *)
(***************************************************************************)

\* read_commands_until_closed: one turn of the loop.  End of file and a
\* malformed envelope enqueue a terminal message and end the thread.
CommandMessageFor(c) ==
  IF c.op = "Malformed" THEN [kind |-> "CommandStreamFailed"]
                        ELSE [kind |-> "Command", cmd |-> c]

ReadCommand ==
  /\ Running /\ ~readerDone /\ cmdPipe # << >>
  /\ Len(queue) < QueueDepth
  /\ queue' = Append(queue, CommandMessageFor(Head(cmdPipe)))
  /\ readerDone' = (Head(cmdPipe).op = "Malformed")
  /\ cmdPipe' = Tail(cmdPipe)
  /\ UNCHANGED <<cmdOpen, evPipe, evOpen, child, sent, views, profiles,
                 inflight, fetches, spawning, building, outbox, draining,
                 starts, announced>>

ReadEndOfFile ==
  /\ Running /\ ~readerDone /\ cmdPipe = << >> /\ ~cmdOpen
  /\ Len(queue) < QueueDepth
  /\ queue' = Append(queue, [kind |-> "CommandStreamClosed"])
  /\ readerDone' = TRUE
  /\ UNCHANGED <<pipeVars, views, profiles, inflight, fetches, spawning,
                 building, outbox, draining, starts, announced>>

\* The body of a silksurf-navigation-fetch thread.
FetchReturnsUncaught(f, r) ==
  /\ Running
  /\ Len(queue) < QueueDepth
  /\ fetches' = fetches \ {f}
  /\ queue' = IF r = "error" THEN queue
              ELSE Append(queue, [kind |-> "NavigationComplete",
                                  fetch |-> f, result |-> r])
  /\ UNCHANGED <<pipeVars, readerDone, views, profiles, inflight, spawning,
                 building, outbox, draining, starts, announced>>

FetchReturns(f, r) ==
  /\ Running
  /\ Len(queue) < QueueDepth
  /\ fetches' = fetches \ {f}
  /\ queue' = Append(queue, [kind |-> "NavigationComplete",
                             fetch |-> f, result |-> r])
  /\ UNCHANGED <<pipeVars, readerDone, views, profiles, inflight, spawning,
                 building, outbox, draining, starts, announced>>

-----------------------------------------------------------------------------
(***************************************************************************)
(* The runtime actor.  Each handler starts from Receive, which is one      *)
(* message taken by the `for message in receiver` loop, and ends by naming *)
(* the events it writes.                                                   *)
(***************************************************************************)
ActorIdle ==
  /\ Running /\ ~draining
  /\ outbox = << >> /\ spawning = {} /\ building = {}

Receive(kind) ==
  /\ ActorIdle
  /\ queue # << >>
  /\ Head(queue).kind = kind
  /\ queue' = Tail(queue)

ReceiveCommand(op) ==
  /\ Receive("Command")
  /\ Head(queue).cmd.op = op

Cmd == Head(queue).cmd

Emit(events) == outbox' = events

ProtocolViolation(v) == Emit(<<Ev("Crashed", v)>>)

\* create_view
CreateView ==
  /\ ReceiveCommand("CreateView")
  /\ \/ /\ Present(Cmd.view)
        /\ ProtocolViolation(Cmd.view)
        /\ UNCHANGED <<views, profiles>>
     \/ /\ ~Present(Cmd.view)
        /\ views' = [views EXCEPT ![Cmd.view] = NewView]
        /\ profiles' = profiles \cup {Cmd.profile}
        /\ Emit(<<Ev("ViewCreated", Cmd.view)>>)
  /\ UNCHANGED <<pipeVars, readerDone, inflight, fetches, spawning,
                 building, draining, starts, announced>>

\* close_view.  A navigation of the closed view stays in flight.
CloseView ==
  /\ ReceiveCommand("CloseView")
  /\ \/ /\ ~Present(Cmd.view)
        /\ ProtocolViolation(Cmd.view)
        /\ UNCHANGED views
     \/ /\ Present(Cmd.view)
        /\ views' = [views EXCEPT ![Cmd.view] = Absent]
        /\ Emit(<<Ev("ViewClosed", Cmd.view)>>)
  /\ UNCHANGED <<pipeVars, readerDone, profiles, inflight, fetches, spawning,
                 building, draining, starts, announced>>

\* u64::saturating_add(1) on a generation.
NextGenerationUnbounded(g) == g + 1
NextGeneration(g) == IF g = MaxGeneration THEN g ELSE g + 1

\* start_navigation on an existing view with a free slot.
BeginNavigation(v) ==
  LET g == NextGeneration(views[v].generation) IN
  /\ views' = [views EXCEPT ![v].generation = g, ![v].active = g,
                            ![v].requested = "Some", ![v].nav = starts + 1]
  /\ starts' = starts + 1
  /\ spawning' = {[view |-> v, generation |-> g, nav |-> starts + 1]}
  /\ Emit(<<Ev("Started", v)>>)

\* start_navigation
StartNavigation(v) ==
  \/ /\ ~Present(v)
     /\ ProtocolViolation(v)
     /\ UNCHANGED <<views, starts, spawning>>
  \/ /\ Present(v)
     /\ inflight >= MaxInflight
     /\ Emit(<<Ev("Busy", v)>>)
     /\ UNCHANGED <<views, starts, spawning>>
  \/ /\ Present(v)
     /\ inflight < MaxInflight
     /\ BeginNavigation(v)

Navigate ==
  /\ ReceiveCommand("Navigate")
  /\ StartNavigation(Cmd.view)
  /\ UNCHANGED <<pipeVars, readerDone, profiles, inflight, fetches, building,
                 draining, announced>>

\* reload_url is the committed page's URL or else the requested one.
HasReloadUrl(v) == views[v].page = "Some" \/ views[v].requested = "Some"

Reload ==
  /\ ReceiveCommand("Reload")
  /\ \/ /\ ~HasReloadUrl(Cmd.view)
        /\ ProtocolViolation(Cmd.view)
        /\ UNCHANGED <<views, starts, spawning>>
     \/ /\ HasReloadUrl(Cmd.view)
        /\ StartNavigation(Cmd.view)
  /\ UNCHANGED <<pipeVars, readerDone, profiles, inflight, fetches, building,
                 draining, announced>>

\* stop_navigation.  The fetch keeps running; only its generation is
\* invalidated.
Stop ==
  /\ ReceiveCommand("Stop")
  /\ \/ /\ ~Present(Cmd.view)
        /\ ProtocolViolation(Cmd.view)
        /\ UNCHANGED views
     \/ /\ Present(Cmd.view)
        /\ views[Cmd.view].active = NoNavigation
        /\ UNCHANGED <<views, outbox>>
     \/ /\ Present(Cmd.view)
        /\ views[Cmd.view].active # NoNavigation
        /\ views' = [views EXCEPT ![Cmd.view].active = NoNavigation]
        /\ Emit(<<Ev("Idle", Cmd.view), Ev("Stopped", Cmd.view)>>)
  /\ UNCHANGED <<pipeVars, readerDone, profiles, inflight, fetches, spawning,
                 building, draining, starts, announced>>

\* UnsupportedCommand: the actor returns an error and the process exits 2.
UnboundCommand ==
  /\ ReceiveCommand("Unbound")
  /\ child' = "failed"
  /\ UNCHANGED <<cmdPipe, cmdOpen, evPipe, evOpen, sent, readerDone, views,
                 profiles, inflight, fetches, spawning, building, outbox,
                 draining, starts, announced>>

StreamEnds ==
  /\ \/ Receive("CommandStreamClosed") /\ child' = "exited"
     \/ Receive("CommandStreamFailed") /\ child' = "failed"
  /\ UNCHANGED <<cmdPipe, cmdOpen, evPipe, evOpen, sent, readerDone, views,
                 profiles, inflight, fetches, spawning, building, outbox,
                 draining, starts, announced>>

Shutdown ==
  /\ ReceiveCommand("Shutdown")
  /\ draining' = TRUE
  /\ UNCHANGED <<pipeVars, readerDone, views, profiles, inflight, fetches,
                 spawning, building, outbox, starts, announced>>

\* close_all_views: one view per turn, in ascending id order, its event
\* written before the next view is drained.
CloseNextView ==
  /\ Running /\ draining /\ outbox = << >>
  /\ \E v \in Views :
       /\ Present(v)
       /\ \A w \in Views : Present(w) => v <= w
       /\ views' = [views EXCEPT ![v] = Absent]
       /\ Emit(<<Ev("ViewClosed", v)>>)
  /\ UNCHANGED <<pipeVars, readerDone, queue, profiles, inflight, fetches,
                 spawning, building, draining, starts, announced>>

DrainStopsEarly ==
  /\ Running /\ draining /\ outbox = << >>
  /\ profiles' = {}
  /\ child' = "exited"
  /\ UNCHANGED <<cmdPipe, cmdOpen, evPipe, evOpen, sent, readerDone, queue,
                 views, inflight, fetches, spawning, building, outbox,
                 draining, starts, announced>>

DrainDone ==
  /\ Running /\ draining /\ outbox = << >>
  /\ \A v \in Views : ~Present(v)
  /\ profiles' = {}
  /\ child' = "exited"
  /\ UNCHANGED <<cmdPipe, cmdOpen, evPipe, evOpen, sent, readerDone, queue,
                 views, inflight, fetches, spawning, building, outbox,
                 draining, starts, announced>>

\* handle_navigation_complete accepts a completion only for the generation
\* that is still active in a view that still exists.
Accepts(f) ==
  /\ Present(f.view)
  /\ views[f.view].active = f.generation

\* usize::saturating_sub(1)
SlotFreedIfAccepted ==
  IF Accepts(Head(queue).fetch) THEN inflight - 1 ELSE inflight
SlotFreed == IF inflight = 0 THEN 0 ELSE inflight - 1

ErrorOnly(v) == <<Ev("Error", v)>>
FailureEvents(v) == <<Ev("Failed", v), Ev("Error", v)>>

\* handle_navigation_complete up to the page build, which starts by taking
\* the old page out of the view.
NavigationComplete ==
  /\ Receive("NavigationComplete")
  /\ inflight' = SlotFreed
  /\ LET f == Head(queue).fetch
         r == Head(queue).result
     IN \/ /\ ~Accepts(f)
           /\ UNCHANGED <<views, building, outbox>>
        \/ /\ Accepts(f)
           /\ r = "error"
           /\ views' = [views EXCEPT ![f.view].active = NoNavigation]
           /\ Emit(FailureEvents(f.view))
           /\ UNCHANGED building
        \/ /\ Accepts(f)
           /\ r # "error"
           /\ views' = [views EXCEPT ![f.view].active = NoNavigation,
                                     ![f.view].page = "None"]
           /\ building' = {Head(queue)}
           /\ UNCHANGED outbox
  /\ UNCHANGED <<pipeVars, readerDone, profiles, fetches, spawning, draining,
                 starts, announced>>

CommitEvents(m) ==
  LET v == m.fetch.view IN
  <<Ev(IF m.result = "longUrlPayload" THEN "LongUrl" ELSE "UrlChanged", v),
    Ev("Committed", v), Ev("Interactive", v), Ev("Complete", v)>>

\* build_browser_page_with_buffers_for_window returns.  A failed build keeps
\* the buffers but not the page it replaced.
BuildReturns ==
  /\ Running
  /\ building # {}
  /\ \E m \in building :
       \/ /\ views' = [views EXCEPT ![m.fetch.view].page = "Some"]
          /\ Emit(CommitEvents(m))
       \/ /\ Emit(FailureEvents(m.fetch.view))
          /\ UNCHANGED views
  /\ building' = {}
  /\ UNCHANGED <<pipeVars, readerDone, queue, profiles, inflight, fetches,
                 spawning, draining, starts, announced>>

-----------------------------------------------------------------------------
(***************************************************************************)
(* write_event and the thread spawn that follows the Started event.        *)
(***************************************************************************)

\* The load state the shell has for a view after one more event.
LoadStateAfter(k, s) ==
  CASE k = "ViewCreated" -> "Idle"
    [] k = "ViewClosed"  -> "Absent"
    [] k = "Started"     -> "Loading"
    [] k \in {"Idle", "Committed", "Interactive", "Complete", "Failed"} -> k
    [] OTHER -> s

WriteEvent ==
  /\ Running /\ outbox # << >>
  /\ Head(outbox).kind # "LongUrl"
  /\ evOpen /\ Len(evPipe) < PipeDepth
  /\ evPipe' = Append(evPipe, Head(outbox))
  /\ outbox' = Tail(outbox)
  /\ announced' = [announced EXCEPT ![Head(outbox).view] =
                     LoadStateAfter(Head(outbox).kind, @)]
  /\ UNCHANGED <<cmdPipe, cmdOpen, evOpen, child, sent, readerDone, queue,
                 views, profiles, inflight, fetches, spawning, building,
                 draining, starts>>

\* The event does not encode, or the read end of the pipe is closed: the
\* error leaves the actor and the process exits 2.
WriteFails ==
  /\ Running /\ outbox # << >>
  /\ Head(outbox).kind = "LongUrl" \/ ~evOpen
  /\ child' = "failed"
  /\ UNCHANGED <<cmdPipe, cmdOpen, evPipe, evOpen, sent, workerVars>>

SpawnFetch ==
  /\ Running /\ outbox = << >> /\ spawning # {}
  /\ fetches' = fetches \cup spawning
  /\ spawning' = {}
  /\ inflight' = inflight + 1
  /\ UNCHANGED <<pipeVars, readerDone, queue, views, profiles, building,
                 outbox, draining, starts, announced>>

SpawnFails ==
  /\ Running /\ outbox = << >> /\ spawning # {}
  /\ child' = "failed"
  /\ UNCHANGED <<cmdPipe, cmdOpen, evPipe, evOpen, sent, workerVars>>

-----------------------------------------------------------------------------
CommandReader == ReadCommand \/ ReadEndOfFile

Fetching == \E f \in fetches, r \in Results : FetchReturns(f, r)

Actor ==
  \/ CreateView \/ CloseView \/ Navigate \/ Reload \/ Stop
  \/ UnboundCommand \/ StreamEnds \/ Shutdown
  \/ CloseNextView \/ DrainDone
  \/ NavigationComplete
  \/ WriteEvent \/ WriteFails \/ SpawnFetch \/ SpawnFails

WorkerNext == CommandReader \/ Fetching \/ Actor \/ BuildReturns

(***************************************************************************)
(* The worker on its own, facing any shell: one that sends any commands,   *)
(* reads events at any pace, closes its command stream or stops reading.   *)
(***************************************************************************)
ShellSends == \E c \in Command : SendCommand(c) /\ UNCHANGED workerVars

ShellClosesCommands ==
  /\ cmdOpen /\ cmdOpen' = FALSE
  /\ UNCHANGED <<cmdPipe, evPipe, evOpen, child, sent, workerVars>>

ShellReadsEvent ==
  /\ evOpen /\ evPipe # << >>
  /\ evPipe' = Tail(evPipe)
  /\ UNCHANGED <<cmdPipe, cmdOpen, evOpen, child, sent, workerVars>>

ShellStopsReading ==
  /\ evOpen /\ evOpen' = FALSE
  /\ UNCHANGED <<cmdPipe, cmdOpen, evPipe, child, sent, workerVars>>

Shell == ShellSends \/ ShellClosesCommands \/ ShellReadsEvent
           \/ ShellStopsReading

Next == WorkerNext \/ Shell

Spec == Init /\ [][Next]_vars

(***************************************************************************)
(* The scheduler runs every thread.  The loader returns: the HTTP client's *)
(* connect and read timeouts end a stalled fetch and a panic is caught.    *)
(* Nothing bounds a page build, so BuildReturns is not fair; a property    *)
(* that needs builds to end says so with BuildsReturn.                     *)
(***************************************************************************)
WorkerFairness ==
  /\ WF_vars(CommandReader)
  /\ WF_vars(Fetching)
  /\ WF_vars(Actor)
  /\ WF_vars(ShellReadsEvent)

FairSpec == Spec /\ WorkerFairness

BuildsReturn == []<>(building = {})

-----------------------------------------------------------------------------
(***************************************************************************)
(* Properties.                                                             *)
(***************************************************************************)

\* Type invariant of the worker's state and of both pipes.
TypeOK ==
  /\ PipesTypeOK
  /\ readerDone \in BOOLEAN
  /\ queue \in Seq(Message) /\ Len(queue) <= QueueDepth
  /\ views \in [Views -> Entry]
  /\ profiles \subseteq Profiles
  /\ inflight \in 0..MaxInflight
  /\ fetches \subseteq Fetch
  /\ spawning \subseteq Fetch
  /\ building \subseteq CompleteMessage
  /\ outbox \in Seq(Event)
  /\ draining \in BOOLEAN
  /\ starts \in Nat
  /\ announced \in [Views -> LoadStates]

\* Fetches whose result has not been handled: still loading, or queued.
Queued == {i \in 1..Len(queue) : queue[i].kind = "NavigationComplete"}
Outstanding == fetches \cup {queue[i].fetch : i \in Queued}

\* The part of the inductive invariant about the slot: at most one fetch is
\* about to start, running or queued, and inflight counts the last two.
IsComplete(i) == queue[i].kind = "NavigationComplete"

SlotInv ==
  /\ \A f, g \in fetches : f = g
  /\ \A f, g \in spawning : f = g
  /\ \A i, j \in 1..Len(queue) : IsComplete(i) /\ IsComplete(j) => i = j
  /\ fetches # {} => \A i \in 1..Len(queue) : ~IsComplete(i)
  /\ fetches # {} => inflight = 1
  /\ \A i \in 1..Len(queue) : IsComplete(i) => inflight = 1
  /\ spawning # {} => inflight = 0

\* The part about identity: the fetch that is about to start, running or
\* queued while a view waits is the one that view waits for.
Awaited(v, f) ==
  /\ f.view = v
  /\ f.generation = views[v].active
  /\ f.nav = views[v].nav

Linked(v) ==
  /\ Present(v)
  /\ inflight = 0 => spawning # {}
  /\ \A f \in spawning \cup fetches : Awaited(v, f)
  /\ \A i \in 1..Len(queue) : IsComplete(i) => Awaited(v, queue[i].fetch)

LinkInv == \A v \in Views : views[v].active # NoNavigation => Linked(v)

\* A completion that handle_navigation_complete would accept belongs to the
\* navigation its view is waiting for.  Generations restart when a view is
\* closed and created again and saturate at the top, so equality of
\* generations does not give this: the single fetch slot does.
NoStaleCommit ==
  \A f \in Outstanding : Accepts(f) => views[f.view].nav = f.nav

\* The slot counter is exact: a leak would answer "busy" for ever, an
\* undercount would admit a second fetch.
SlotCountExact ==
  Running => inflight = Cardinality(fetches) + Cardinality(Queued)

\* Between two messages the written events and the worker's views agree: a
\* view is Loading for the shell exactly while it has an active navigation.
AnnouncedMatchesActive ==
  ActorIdle =>
    \A v \in Views :
      /\ announced[v] = "Absent" <=> ~Present(v)
      /\ announced[v] = "Loading" <=> views[v].active # NoNavigation

\* The event stream keeps the promise of ViewProtocol.
Protocol == INSTANCE ViewProtocol WITH shown <- announced
ImplementsViewProtocol == Protocol!Spec

\* If page builds return, every load the shell saw start is settled, unless
\* the worker ends: no order of Stop, CloseView and the late completion leaves
\* a view Loading for ever.
LoadsSettle ==
  BuildsReturn => \A v \in Views : []<>(announced[v] # "Loading" \/ ~Running)
=============================================================================
