# SilkSurf: TLA+ models, checks and proofs

SilkSurf is a browser engine in Rust: a shell that owns the window, an engine worker
process driven over two pipes, a network client with a cookie jar and a cache on disk,
and a page runtime that runs scripts, timers, requests, iframes, events and observers
on the window's thread while worker threads answer it. This directory models the parts
that have state, concurrency or a protocol; TLC checks the models on small instances
and TLAPS proves the safety of the engine process, the response cache, the HTTP client
with its cookie jar, the timers, the page resources, event dispatch, the message hub, the
browser window, the child frames and the frame presentation for every instance.
`PROJECT.json` maps every definition to the source lines it models and lists the
runs, the mutants that show each property can fail, the findings and the hazards.

Run a model with `tlc -config <Run>.cfg <Module>` (the runs are listed in section 3)
and the proofs of a group of components with `tlapm <Group>Proofs.tla` (listed in section 4).

## 1. Inventory

| Part | State | Operations | Interaction | What is hard |
|---|---|---|---|---|
| Engine worker (`silksurf-app/src/engine_process.rs`) | views with a generation, the active navigation, a page; the one fetch slot; profiles | the commands of the protocol, completions, draining | command reader and fetch threads put messages on one bounded queue, an actor consumes it and writes events to a pipe | late completions, reused view ids, saturating generations, a pipe that blocks or breaks in the middle of a handler |
| Event ingress (same file) | bounded channel, byte charge, failure slot | reserve, try_send, dequeue, release, terminal failure | reader thread between the pipe and the shell | charge and channel change in separate steps; the cause and the disconnection travel separately |
| Supervisor (same file) | child process, pipe ends, ingress | send, receive, shutdown with a deadline, kill, Drop | composes the two above | both sides write to bounded pipes; a worker that does not answer |
| Browser window (`browser_types.rs`, `input.rs`, `window_frame.rs`, `runtime_repaint.rs`) | navigation generation, receiver, history and cursor, address bar, focus | input handlers, wake handler, history intents | navigation workers answer through channels and wake the loop | superseded workers that still answer, history rewritten while a traversal loads |
| Frame presentation (`redraw_geometry.rs`, `window_frame.rs`, `winit_backend.rs`, `wayland_shm.rs`) | redraw mode, retained images, buffers with their ages, retry deadlines | mark, draw, seed, attach, release, retry | the compositor holds buffers the shell wants | several changes folded into one mode, every buffer busy, a retained image that stands in for a frame |
| Page resources (`stylesheet_set.rs`, `link_preload.rs`, `runtime_repaint.rs`, `silksurf-css/src/cssom.rs`) | sources, bodies, preloads, the sheet set and its generation | collect, refresh, fetch, dispatch load, splice, rebuild | fetch threads post no wake; scripts edit links and sheets anywhere | a change noticed by one of three signals, events that drain the dirty nodes first |
| Child frames (`child_frames.rs`) | a tree of frames, fetch permits, a frame budget | the walk of each tick, fetch threads | scripts change iframes, threads answer late, load events go bottom up | frames removed while they load, a budget shared by a recursive walk |
| Timers (`silksurf-js/src/boa_backend/mod.rs`) | three queues, a registry of callables | register, clear, tick | scripts register and clear while a batch runs | a batch taken before it is called, a budget that requeues, throwing callbacks |
| Network channels (`net_queue.rs`, `websocket_session.rs`, `sse.rs`, `mod.rs`) | requests in flight, sessions, subscriptions, ready states | fetch, connect, send, close, drain | one thread each, channels to the tick | a tick that copies a batch out before it calls handlers; sleeping on what arrived |
| Events (`event_dispatch.rs`, `js_events.rs`, `dom_bridge.rs`) | listener lists, counters, event flags | add, remove, dispatch, stop, prevent, native input | listeners run inside the dispatch loop | lists that change under the loop, dispatch again of an event in flight |
| Window messages (`window_messages.rs`) | contexts, frame mappings, queues, a store for frames without a document | create, drop, post, deliver | every document of every page shares a hub | contexts replaced and dropped in any order, origins that change while messages wait |
| DOM and mutation observers (`silksurf-dom/src`, `mutation_observer.rs`) | tree arena, mutation log, dirty nodes, generations; registrations and queues | the mutators, observe, disconnect, deliver | script, parser and shell share a tree | moves across shadow roots and templates, batches, a delivery whose list callbacks splice |
| Layout and performance observers (`layout_observers.rs`, `performance_timeline.rs`) | observations, queues, two counters and two flags; the timeline | observe, unobserve, disconnect, takeRecords, mark, clear, two passes per tick | callbacks act on the registries the passes walk | a flag taken down before the callbacks run, measures recorded before they are told |
| Response cache and speculative renderer (`silksurf-net/src/cache.rs`, `silksurf-engine/src/speculative.rs`) | memory entry per renderer, one file per URL | load, get, put, refresh, remove, revalidation | concurrent navigations share a directory without a lock | crash in a write, age over restarts, late answers |
| HTTP client and cookie jar (`silksurf-net/src/lib.rs`, `cookie.rs`) | redirect chain and posture, batches; partitioned stores | fetch, batch, redirect, store, send, `document.cookie` | fetch threads and scripts share the jar, locked per request and response | postures that change along a chain, identity of a cookie, answers out of order |
| Engine protocol (`silksurf-core/src/engine_protocol`) | message types, lifecycle tables | encode, decode | the wire between shell and worker | abstracted to whole, torn and undecodable envelopes |
| HTML parser, CSS, layout, text, painting, images, interning | trees and tables | sequential transformations | called by the page runtime | data, not protocol |

The components list in `PROJECT.json` gives the status of each.

## 2. Modules

| Module | Models | Role |
|---|---|---|
| `EnginePipes` | command and event pipes, the child's life | shared by the next three |
| `EngineWorker` | `NativeEngineWorker`, its threads and handlers | component |
| `ViewProtocol` | what the events promise about a view | abstract specification |
| `EventIngress` | `EventIngress`, `QueueCharge`, `read_events_until_closed` | component |
| `EventStream` | ordered events without a gap, then the cause | abstract specification |
| `EngineSupervisor` | `NativeEngineProcess` over worker and ingress | composition |
| `BrowserShell` | `BrowserState`: navigation, history, address bar, focus, wakes | component |
| `FramePresent` | redraw modes, the redraw loop, shared-memory buffers | component |
| `PageResources` | stylesheet sources, preloads, the CSSOM set and the cascade | component |
| `ChildFrames` | `sync_child_frames` and the fetch threads | component |
| `HostTimers` | `HostScheduler`, `run_host_callbacks` | component |
| `HostChannels` | `NetQueue`, WebSocket sessions, EventSource subscriptions, their drains | component |
| `EventDispatch` | listener lists, dispatch, trusted events | component |
| `WindowMessages` | `WindowMessageHub` and its contexts | component |
| `DomTree` | the DOM arena's mutators and mutation log, as operators on a tree | operators |
| `MutationObservers` | DOM natives, observer registry and delivery, over `DomTree` | component |
| `FrameObservers` | Resize-, Intersection- and PerformanceObserver and their passes | component |
| `HttpCache` | `ResponseCache` as `SpeculativeRenderer` drives it, one URL | component |
| `HttpDate` | the date conversions against a day-by-day calendar | algorithm and reference |
| `HttpClient` | `BasicClient`, the cookie jar and their callers | component |
| `Lists` | `Retain`: `Vec::retain`, a filter of a list as a function on its positions | operators |
| `ListFacts` | what `Retain`, appending and taking the head do to lists and counts | lemmas |
| `EngineProofs` | `EngineWorker`, `EventIngress`, `EngineSupervisor` | theorems |
| `HttpProofs` | `HttpCache`, `HttpDate`, `HttpClient` | theorems |
| `PageTickProofs` | `HostTimers` | theorems |
| `PageEventsProofs` | `WindowMessages`, `EventDispatch` | theorems |
| `PageFrameProofs` | `FramePresent`, `PageResources` | theorems |
| `BrowserShellProofs`, `ChildFramesProofs` | the module they are named for | theorems |
| `MC...` | | instances for TLC |

**Sums.** Some MC modules run several components: `MCPageTick` (timers, channels, layout observers, timeline),
`MCPageEvents` (events, messages) and `MCHttpCache` (cache, dates, client). These components are served by one thread or
called by one caller but share no state, so a variable `focus`, fixed in the initial
state, names the one that moves. `EngineSupervisor` is a composition in the full sense:
worker, ingress and shell step in any order.

**How state and actions correspond to the code.**

* `EngineWorker`: one action per command handler, one for a completion, one for the end
  of a page build. The code writes its events one by one to a pipe that can block, so a
  handler fills `outbox` and `WriteEvent` writes it; the actor takes no message until it
  is empty. The fetch thread is spawned after the event `Loading` is written and only
  then is the slot counted, as in `start_navigation`. `starts`, `nav` and `announced`
  are history: the identity of a navigation, which the code does not have, and the
  load state a shell has read from the events.
* `EventIngress`: the reader thread reserves bytes, tries to send, records a failure
  and returns, each in a step; the shell dequeues in one step and releases the bytes
  in another. On its own the module faces any peer; `EngineSupervisor` replaces
  the peer by the worker.
* `EngineSupervisor`: the shell's calls as program counters `open`, `sending`,
  `reaping`, `joining`, `done`; the deadline is an action that may come at any time.
* `BrowserShell`: one action per input handler; `Wake` is the wake handler, which takes
  at most one answer of the receiver or ticks the page. A worker's generation also names
  its channel. Pages are numbers, addresses members of a small set with a redirect.
* `FramePresent`: a buffer is the set of window parts whose pixels in it are current, a
  mode what it draws and what it damages. Only the shared-memory presenter is modelled
  (frame pacing is off there), with a page loaded throughout. `held` is the compositor's
  side: the buffer attached last is shown, those before it are replaced, the others free.
  It may release any buffer the code marked busy, and need only release replaced ones.
* `PageResources`: the walk for sources, the three change signals (structure counter,
  generation, dirty nodes), bodies and preloads with their threads, script edits at
  start-up, in ticks, in load handlers and in listeners, the CSSOM's own generation.
* `ChildFrames`: the recursion of `sync_child_frames_inner` is an explicit stack
  (`walk`), one step per candidate, so that fetch threads interleave with it.
  `remaining_frames` wraps at `Word`, as in the release profile.
* `HostTimers`: `BeginTick` is `take_timer_callbacks`, `CallNext` is one call; scripts
  act between ticks and inside the running callback.
* `HostChannels`: every request and stream has a thread; a tick copies what arrived out
  of the sessions and calls one handler per step. A throwing handler drops the rest of
  the batch. `close()` of an EventSource leaves its registered object, so the rest of
  a batch is still delivered, as in the code.
* `EventDispatch`: a stack of dispatch frames with exactly what the Rust loop keeps
  across a call. Listeners are nondeterministic scripts. Microtasks are script
  steps at an empty stack; hit testing, wrappers and the repaint are left out.
* `WindowMessages`: one action per hub operation, since each holds the mutex.
* `DomTree`, `MutationObservers`: every mutator returns whether it succeeded and the
  tree it leaves; the natives compose them as the bindings do. An attribute list or a
  text is a version. Generation counters are the set of those that moved since a
  reader looked.
* `FrameObservers`: one action per script call, one per pass, call and return. A layout
  observation's measure is its box along the scroll axis (`Band`, with thresholds as
  fractions) or its content or border size. `told`, `wanted`, `heard` are history.
* `HttpCache`: a response is the version the origin had when it answered, with a
  lifetime and flags for text and storability. A write to the file is two steps, because
  `std::fs::write` truncates first; a crash may come between, or the write may end torn.
  Every file operation may also fail before it changes anything (`Failures`): the file
  cannot be opened, read or unlinked, and the code discards that result. `seen`, `vouched`
  and `apart` are history: the newest version received, when the origin last spoke for
  each, and whether the file may hold an earlier response than memory.
* `HttpDate`: the era formulas of `cache.rs` and `cookie.rs` (one saturates before
  1970, the other refuses) against a calendar that counts day by day. Splitting the
  header and the time of day are left out; days are real and years positive.
* `HttpClient`: a chain of hops with its posture (navigation, resource, script with its
  credentials mode), HTTP/2 batches and their fallback, the jar's stores keyed by site
  and partition. The lock is held per request and per response, so scripts act between
  hops. At most one `Set-Cookie` per response; ports, explicit Cookie headers, codings
  and sockets are left out. `purge_expired` has no caller.

## 3. Runs

Bounds are the constants of each cfg; every one is named in its module. Component
invariants (`...Inv`) are conjunctions of the named parts in brackets, the first of
which is the type invariant; where a component has several parts that could fail there
is a mutant for each of those that matter.

| Run (module) | Shows | Bounds and why they are enough |
|---|---|---|
| `EngineWorker` (`MCEngineWorker`) | `TypeOK`; `AnnouncedMatchesActive`: events and views agree between messages; `NoStaleCommit`: only the awaited navigation is committed; `SlotCountExact`; `ImplementsViewProtocol` | two views, queue and pipe of one, five commands: create, navigate, close, create, navigate with the first fetch still out; generations saturate at 2 |
| `EventIngress` (`MCEventIngress`) | `IngressInv` (`IngressTypeOK`, `ChargeExact`), `ImplementsEventStream`, `EndIsHeard` | two events, three bytes, five envelopes of three sizes, one torn: both overflows, end of file and garbage occur |
| `Supervisor` (`MCEngineSupervisor`) | `SupInv` (`SupTypeOK`, `ReapsEveryPath`, `CleanExitClosesViews`), `CommandsAreRead`, `ReapIsBounded`, `LoadsSettle` | one view, four commands before Shutdown, queues of one: every queue fills |
| `BrowserShell` (`MCBrowserShell`) | `ShellInv` (`ShellTypeOK`, `LoadingIsAwaited`, `CursorNamesPage`, `KeysHaveOneTaker`), `SupersededNeverLands`, `NavigationSettles` | three navigations, one history intent, a redirect: two superseded workers can answer while a third loads |
| `FramePresent` (`MCFramePresent`) | `FrameInv` (`FrameTypeOK`, `ChangesStayMarked`, `RetainedCoversMode`, `NoGarbage`, `WillWake`), `BusyNotWritten`, `FrameComes` | two buffers, soon both busy; two changes, so that modes are joined; two resizes |
| `PageResources` (`MCPageResources`) | `ResourcesInv` (`ResourcesTypeOK`, `CascadeReadsSet`, `PollingAwaits`, `HeardAtMostOnce`), `ChangesAreNoticed`, `StyledAtLast` | a style element and two links, two edits, caps of two sources and one preload, both reached |
| `ChildFrames` (`MCChildFrames`) | `FramesInv` (`FramesTypeOK`, `PermitsExact`, `LoadBottomUp`), `FramesSettle` | two levels of two iframes, one permit, a cap of two, one change: crowding, waiting for permits, removal during a fetch |
| `PageTick` (`MCPageTick`) | `TimersInv` (`TimersTypeOK`, `OnSchedule`, `NothingForgotten`), `StartsInTurn`, `TimeoutsRun`; `ChannelsInv` (`ChannelsTypeOK`, `InFlightExact`, `EndedReleased`, `StoryInOrder`, `SentInOrder`), `ArrivalsAreHeard`; `FrameObserversInv` (`FrameObserversTypeOK`, `SleepsUpToDate`, `ReportedIsTold`, `RecordedIsGiven`, `GivenOnce`, `SleepsDelivered`) | three callbacks and a budget of one: every tick with two due timers clips; one fetch, socket and source, three calls; two layout observers of two elements, two layouts or scrolls, three calls; two performance observers, an entry and four calls: both registered, both owed the entry, and one gone in the other's callback |
| `PageEvents` (`MCPageEvents`) | `DispatchInv` (`DispatchTypeOK`, `CountsExact`, `SpentGone`, `PreventedAsAsked`), `HeardOnceUntilStopped`; `HubInv` (`HubTypeOK`, `ReleasesDropped`, `FrameReachesNewest`), `OnlyItsOrigin` | two nodes, two callbacks, five script steps: a listener that removes the next, re-registers itself and dispatches again; three documents, three messages, all bounds of the store reached |
| `MutationObservers` (`MCMutationObservers`) | `ObserversInv` (`ObserversTypeOK`, `TreeConsistent`, `RecordingFollowsObservers`, `NobodyStranded`), `ReadersNotice`, `RecordsReplay` | eight nodes with a shadow root or a template, two observers, two edits in a task or a callback |
| `Cache` (`MCHttpCache`) | `CacheInv` (`TypeOK`, `ServedWithinLifetime`), `ReplacedStaysGone`; `CivilExact`; `ClientInv` (`ClientTypeOK`, `JarIsLatest`, `SentAsAllowed`, `RoundTrip`, `ChainsBounded`, `AnswersPlaced`) | two renderers on one directory, two versions, three instants, file operations that fail: a text loses its file to a later one, or keeps it, and is loaded while still fresh; every day from 1967 to 2104 (leap years before the epoch, 2000, 2100); three addresses on two sites, one redirect, two cookie writes, two instants |
| `ViolationShutdown` (`MCEngineSupervisor`) | the finding below | as `Supervisor`, builds need not return |

`CHECK_DEADLOCK FALSE` is set where the bounded environment stops: all commands sent,
all time passed, the process ended. Symmetry (`Cache`: renderers) is used only in a run
without liveness.

**Fairness.** Weak fairness of threads that can run, as the operating system
schedules them: command reader, fetch threads, actor, ingress thread, the shutdown
call, navigation workers, stream threads. A fetch ends because the network client reads
with a timeout (`silksurf-net/src/lib.rs`). Page builds run scripts and are *not*
assumed to return: `LoadsSettle` and `CommandsAreRead` say `BuildsReturn` where they
need it, `ReapIsBounded` holds without it. In the ingress run the shell keeps
receiving; in the supervisor run it need not.
The page runs assume that the event loop wakes at the deadline it was given, that a
begun tick and its callbacks end, and that time passes; the loop ticks only while the
code's own condition (`has_pending_host_callbacks`, the poll of `main.rs`, a wake)
holds, which is what the liveness properties test. `PageResources` needs strong
fairness of the tick and of its drains, since input events may keep interposing.
`FramePresent` needs strong fairness of serving a requested redraw, and one assumption
about the compositor, which is what the Wayland protocol owes: it releases a buffer once
another one is *attached* and committed. It may release the shown one before that, and
owes no second release for a buffer that is only committed again
(`wayland_shm.rs:383-384`), so the model assumes none. `FrameComes` therefore says that
a frame comes or the buffers are used up (`Starved`, below). Because script
calls are bounded, eventual delivery is stated as a state that is reached for good.

**Finding.** `ViolationShutdown`: `shutdown_within` writes to the command pipe before
its deadline starts. A page build that does not return with the queue and the pipe
behind it full blocks that write, and shutdown never returns, although
`docs/STATUS.md:69` says that it has a deadline.

**Known disagreements.** Met while modelling; the models follow the code, and the
properties say where they excuse it.

* The comment of `put` says that "the cache never answers with a representation the
  origin has replaced" (`cache.rs:166`). A stored response that is not decoded text
  replaces a text in memory, but `put_to_disk` returns before it touches the text's file
  (`cache.rs:354`); the next renderer loads the text and, while it is fresh, serves it.
  One renderer at a time is enough, and no operation has to fail.
* A write that cannot open its file (a read-only directory, no descriptors left) and an
  unlink that fails leave the file of the replaced text intact (`cache.rs:377`, `:424`;
  the comment at 169 allows it for a write), and the next renderer serves that text
  within its lifetime. `ReplacedStaysGone` excuses this, the case above and
  renderers open at once (`apart`), from the response that leaves the file behind until a
  renderer alone in the directory puts a response that writes or removes the file.
* A buffer the compositor released while it was the last presented one is marked busy
  and committed again without being attached, so no release is owed for it
  (`wayland_shm.rs:383-384`). A recommit of every buffer but the one shown leaves all busy
  for good and the window undrawn; a resize that allocates new buffers ends it. The
  model reaches this with two buffers; `FrameComes` excuses it by name (`Starved`).
* Nested documents spend the frame budget after the count of a parent's accepted iframes
  is fixed: `remaining_frames` is decremented at zero and wraps in release builds
  (`child_frames.rs:161`, `:196`); `ARCHITECTURE-DECISIONS.md:3817` caps it at sixteen.
* `page_build.rs:419` says that the stylesheet set collects after scripts; it collects
  at 427, before they run, and the marks are dropped at 604.
* Two links with one address in the same refresh both fetch (`stylesheet_set.rs:403`);
  the last answer wins, an empty one too.
* A moved node is in the added set, so later records about it are suppressed
  (`silksurf-dom/src/mutation.rs:49`, `:86`).
* A retained page bitmap has no chrome drawn and is presented with partial damage
  (`window_frame.rs:405`, `docs/PERFORMANCE.md:117`); aged warm buffers likewise. A
  focus ring may be lost when typing follows before the focus frame.
* `remove_once_entry` matches by callback only and may remove an entry registered anew
  while the listener ran (`event_dispatch.rs:235`).
* A throwing handler loses the end of a socket in the same batch: the session stays
  bound and polled (`boa_backend/mod.rs:1899`, `:1992`).
* A document in a frame of another site reads `document.cookie` from another partition
  than its responses write (`mod.rs:2168`, `cookie.rs:483`), and a frame's document is
  fetched with the posture of a top-level navigation (`page_build.rs:69`,
  `cookie.rs:148`).
* A performance observer that disconnects, or observes again, in its own callback makes
  the delivery loop skip the observer after it, whose records wait for the next entry
  (`performance_timeline.rs:459`, against "Whether the timeline holds an entry no
  observer has seen" of `performance_delivery_pending`); `SleepsDelivered` excuses that
  pass. An entry that is still unrouted when a buffered observer registers reaches it
  twice; `GivenOnce` allows one more per buffered registration. The mutation
  observers' loop has the same skip.

Smaller holes no property covers: `close_view` accepts views in any state
(`engine_process.rs:678`) and profiles are never dropped (603); the re-render after a
revalidation reads the cache again (`page_build.rs:1226`); callback ids wrap after 2^32
registrations (`mod.rs:254`); messages for a frame that never gets a document stay
counted (`window_messages.rs:271`); crowded pages do not walk nested documents
(`child_frames.rs:156`); a request thread that panics is never counted down
(`net_queue.rs:141`; release builds abort); `pushState` overwrites a half-typed address
(`runtime_repaint.rs:79`); a stylesheet thread that is not spawned leaves no body
(`stylesheet_set.rs:432`); replacing the sheet set drops spliced rules
(`runtime_repaint.rs:214`); mutation records are routed at delivery
(`mutation_observer.rs:258`); a busy buffer retry can spin (`winit_backend.rs:1386`); a
target without a box counts as intersecting (`layout_observers.rs:348`); a date of day
zero underflows.

**Mutants.** Each property of each passing run has at least one, in the module as an
operator beside the one it replaces (`SlotFreedIfAccepted`, `ClearQueuesOnly`,
`RecordsCopied`, ...), a plausible slip in that code.

## 4. Proofs

Every theorem holds for all values of the constants that satisfy the named assumption
of its module. The assumptions say what the code fixes: depths and limits are numbers,
bounds that must leave room are not zero, the value that stands for "none" is no
address, iframe elements are finitely many.

| Theorem (module) | States | Assumes |
|---|---|---|
| `TypeCorrect`, `NeverStale`, `SlotNeverLeaks`, `EventsTellTheState` (`EngineProofs`) | `TypeOK`, `NoStaleCommit`, `SlotCountExact`, `AnnouncedMatchesActive` | `PipeAssumption`, `WorkerAssumption` |
| `WorkerImplementsViewProtocol` (same) | `ImplementsViewProtocol` | as above |
| `ChargeNeverLeaks`, `IngressImplementsEventStream` (same) | `IngressInv`, `ImplementsEventStream` | `PipeAssumption`, `IngressAssumption` |
| `EveryEndIsOrderly` (same) | `SupInv` | those three and `SupAssumption` (there is a view and a profile) |
| `ComposedImplementsViewProtocol`, `ComposedImplementsEventStream` (same) | both refinements, of the composition | as above |
| `NeverServedTooOld`, `NeverServedReplaced` (`HttpProofs`) | `CacheInv`, `ReplacedStaysGone` | `CacheAssumption` (the clock is not zero) |
| `CalendarCounted` (same) | `CivilExact`, on every day of a calendar without bound | `DateAssumption` (the calendar holds the epoch) |
| `ClientSafe` (same) | `ClientInv` | `ClientAssumption`, `AddressAssumption` (addresses, documents and cookies have their parts; a document's page has a site) |
| `TimersSafe`, `TimersInTurn` (`PageTickProofs`) | `TimersInv`, `StartsInTurn` | `TimersAssumption` (delays are naturals, the budget is not zero) |
| `HubStaysClean`, `NoOtherOriginHears` (`PageEventsProofs`) | `HubInv`, `OnlyItsOrigin` | `HubAssumption` (finitely many iframe elements) |
| `DispatchSafe`, `EventsHeardOnce` (same) | `DispatchInv`, `HeardOnceUntilStopped` | `TreeAssumption` (the first tree is finite and has no cycle), `DispatchAssumption` (calls name targets and event types) |
| `WindowAgrees`, `OnlyTheWantedLands` (`BrowserShellProofs`) | `ShellInv`, `SupersededNeverLands` | `ShellAssumption` (redirects end, the empty address is none) |
| `LoadsGoBottomUp` (`ChildFramesProofs`) | `FramesInv` | `FramesAssumption` (the counter holds the cap) |
| `ChangesReachTheWindow`, `BusyStaysUnwritten` (`PageFrameProofs`) | `FrameInv`, `BusyNotWritten` | `FrameAssumption` (there are at least two buffers) |
| `ResourcesSafe`, `ResourcesNoticed` (same) | `ResourcesInv`, `ChangesAreNoticed` | `ResourcesAssumption` (the tree lists each element once), `PagesAssumption` |

Each proof has a lemma per part of the inductive invariant with one step per action,
over lemmas on the operators the actions are built from. What has to be added to the
property, and why:

* **Worker.** What makes `NoStaleCommit` true is not in the function that decides:
  `handle_navigation_complete` compares generations, which restart at zero when a view
  is created again and saturate at the top. The single fetch slot carries the
  argument. `IInv == TypeOK /\ SlotInv /\ LinkInv`: at most one fetch is about to be
  spawned, running or queued, and `inflight` counts the last two; that fetch is the one
  any waiting view waits for, in view, generation and identity. With two slots the
  property fails: that is its mutant. `SlotUsed`, the converse (a slot in use has its
  fetch), makes the count exact. `EventInv` says for each view what the unwritten
  events still have to announce; between messages nothing is unwritten, which gives
  `AnnouncedMatchesActive`, and with it every handler maps to a step of `ViewProtocol`
  per event written.
* **Ingress.** `ChargedInv` speaks of the envelopes in transit as one sequence (taken,
  channel, held): every step moves an envelope inside it, adds one at the end or takes
  one from either end, and running totals witness the charge without a sum over a
  sequence, which would need induction over data. `OutcomeInv` orders the reader's
  place, its outcome, the slot and the shell's verdict: the cause is in the slot before
  the sender is dropped.
* **Supervisor.** A step of worker or ingress keeps the other's invariant, since only
  the pipes are shared; so the two parts' lemmas are cited, not repeated, and the
  refinements carry over to the composition. `ReapInv` is new: the child is dead before
  the thread is joined, and nobody writes after the end of file was read.
* **Cache.** `ServedWithinLifetime` speaks of memories, `AgeInv` of every entry, the
  file too: each is as old as the word of the origin it rests on (a truncated file is no
  entry). `ReplacedStaysGone` holds while memory and disk have not parted, so its
  invariant is conditional on that history (`TurnInv`, `NewestInv`, `SeenInv`): unless
  `apart`, one renderer is open and both entries are the newest response or none. Every
  file operation is proved for both outcomes. `PutNewest` is the step that matters: a
  response that leaves no earlier file behind gives the newest entries again, whatever
  came before, if its renderer is alone.
* **Dates.** A day-by-day calendar determines the count, so the induction is over the
  behaviour and not over data: turning a page adds one to both sides. What has to be
  shown is that `CivilDays` grows by one over each of the four kinds of page (within a
  month, over a month's end, over a February's, over New Year). Each is linear
  once the quotients by 5, 4, 100 and 400 are named and bounded.
* **Client.** `JarKnown` says that a store keeps, of the writes to its partition, each
  identity's last one and nothing else. `FetchOK` bounds what a chain asked by its
  redirects and keeps count of the requests that still run, so no answer is lost.
  `Carries` says of a request already built that each cookie in it was a write and was
  allowed for its hop, so it stays true while scripts write to the unlocked jar.
* **Timers.** `TimersInv` sees deadlines, but the code forgets them: a timeout that the
  budget clipped is put back as due *now*. `QueuesKnown` therefore lets a queued deadline
  lie anywhere from its own to the present, and `SortIsDue` says that sorting by it, ties
  in queue order, still gives the order of the true deadlines and registrations. That
  yields `StartsInTurn`. `IntervalsPaced` counts a run the batch still holds.
* **Hub.** `HubInv` and `OnlyItsOrigin` are inductive together with `IdsInv`, that
  context ids are handed out in order and never again. `create_context` delivers what
  waited for a document: the queue of a fresh id is empty because a context that is not
  live is named nowhere.
* **Events.** `FrameOK` says what one dispatch may rely on although the listener it calls
  changes the lists, the tree and the events and dispatches again. An entry of its copied
  list is in the list it was copied from or nowhere (`Known`), so removing it by callback
  removes the right one; each stop is a list of its own, so what waits was not heard
  (`Hears`); a listener it owes was heard, waits in the copy, or is in a list ahead
  (`Owes`); and the node of the current stop is where the event was stopped (`Stopped`).
  No conjunct relates two frames, so every step is a lemma about one frame, carried over
  the stack. The path is finite because some depth falls along it (`TreeOK`), which
  `appendChild`'s refusal to put a node below itself keeps. The counter is the cardinality
  of the set of places, and a list that is replaced moves its places only.
* **Window.** That an older worker's page never lands rests on three handlers
  (`start_navigation_worker`, `stop_navigation`, `handle_browser_wake`); `LoadsInv` says
  what they keep together: a channel of the current generation is the pending
  navigation's. `ActionInv` bounds a traversal that was overtaken by a `pushState`.
* **Child frames.** `StackOK` says that the calls of the walk are of documents around
  one another and update children of their own, so a call that drops a document never
  drops one a caller still walks; `TreeInv` that nothing lives in a document that is
  gone. The permits are counted by the cardinality of a set that each step changes by
  one frame or by a finite subset.
* **Frame presentation.** `SurfaceOK` is kept by each operation on the buffers in turn:
  an age is only given to a buffer just drawn whole or copied from one, a tag only to an
  aged one, so a retained image may be presented for its tag alone. `Kept` (what the
  compositor may read keeps its pixels; only those of a page that moved go out of date)
  composes along the same operations and gives
  `BusyNotWritten`. `AppOK` says what the two `retained_sent` flags mean: an image counts
  as sent only while nothing but its own damage is marked, and never over a moved scroll
  offset. `LoopInv` adds that a dirty window with nothing marked, one that was resized or
  found its buffers busy, has a request or a pending redraw. The proof showed that a
  change stays marked while the window is resized too, so `ChangesStayMarked` no longer
  excuses a window that is to be repainted.
* **Page resources.** `RIInv` has `CountersBehind` (what a consumer saw is behind what it
  will look at, so comparing for equality misses nothing), `SourcesInv`,
  `CascadeReadsSet`, and what makes polling end: unless an address was fetched twice it
  has one thread, or one answer, or a body (`FetchedOnce`); unless a thread was not
  started, whatever was requested comes (`RequestedComes`); a link is at one point of its
  preload (`PreloadedOnce`). The three conditions are the disagreements below section 3.

Induction over data is avoided where it can be. Where the model folds over a sequence
(`Retain` of the hub, a batch of history intents, `Candidates` of a document), the
function is defined on the naturals and what is needed of it is proved by taking the
least argument at which it fails, from the well-foundedness of `<` on `Nat`; no theorem
with an operator parameter is used.

Only model-checked: every liveness property (fairness and `ENABLED` are out of the
prover's reach), and of the remaining components `ChannelsInv`, `FrameObserversInv` and
its action properties, `ObserversInv`, `ReadersNotice` and
`RecordsReplay`. These models fold, select from or flatten sequences with operators of
the community modules, which the provers cannot open; the models proved so far use
`Retain` and set comprehensions there. `RecordsReplay` would also need induction over a
record list. No module declares a RECURSIVE operator, so all of
them can be proved about.

## 5. Not modelled, and why

The byte format of the protocol, header and cookie syntax, SSE and WebSocket framing
(sequential, tested by round trips and tables); HTML, CSS, layout, text, images and
painting (pure transformations over domains too large for TLC); sockets, TLS and the
window system (I/O, represented by their results); script evaluation (the
nondeterministic environment of the page models). These parts hold most of the
implementation's lines (style resolution, layout, rasters, fonts, data tables, test
runners), which is why the map covers about an eighth of them. Within modelled parts: the
softbuffer presenter, scroll and focus viewport images, hit testing, form values, XHR,
canvas, cloning and DOM queries. Release builds abort on panic, so unwinding in threads
is modelled only where the code catches it (the fetch threads of the worker). The
repository's early formal notes under `silksurf-specification` are not code of the
program.

## 6. Plan

1. Proofs. Channels: `InFlightExact`, `EndedReleased`; observers: `SleepsUpToDate`.
2. Composition of `ChildFrames` and `WindowMessages`: contexts created and dropped by
   the walk.
3. The module loader's fetch budget and import map (`module_loader.rs`), the DOM
   comparison of `silksurf-dom/src/diff.rs`.
4. `HttpCache`: which version the file keeps while two navigations of one URL race.
