---------------------------- MODULE BrowserShell ----------------------------
(***************************************************************************)
(* The browser window's own state (BrowserState of silksurf-app): one      *)
(* navigation at a time on a worker thread, the session history, the       *)
(* address bar and the keyboard focus, and the wake handler that takes a   *)
(* worker's result or runs a tick of the page (input.rs, window_frame.rs,  *)
(* runtime_repaint.rs, main.rs).                                           *)
(*                                                                         *)
(* Input handlers and wakes run one at a time on the window's thread; the  *)
(* navigation workers run beside it.  A worker's generation names its      *)
(* channel too: each start opens one and forgets the one before.  A page   *)
(* is its number in order of arrival, its address a member of Urls; the    *)
(* text of the address bar is a url, or NoUrl for a text that names none,  *)
(* and is left out while it is not edited: focus_address_bar sets it anew. *)
(***************************************************************************)
EXTENDS Naturals, Sequences, SequencesExt

CONSTANTS
  Urls,           \* addresses, as normalize_address_input returns them
  Named,          \* those that users, links, forms and scripts name
  HomeUrl,        \* browser_home_url
  FirstUrl,       \* the address on the command line
  Land,           \* external: where the server of an address redirects to
  MaxNavigations, \* model bound: the last generation
  MaxIntents      \* model bound: history intents of one behaviour

NoUrl == "no url"

ASSUME ShellAssumption ==
  /\ Named \subseteq Urls /\ HomeUrl \in Named /\ FirstUrl \in Named
  /\ Land \in [Urls -> Urls]
  /\ \A u \in Urls : Land[Land[u]] = Land[u]
  /\ NoUrl \notin Urls
  /\ MaxNavigations \in Nat /\ MaxIntents \in Nat

VARIABLES
  page,       \* frame.url and the number of the runtime, 0 for no runtime
  history,    \* history
  index,      \* history_index
  pending,    \* navigation_pending
  action,     \* pending_history, or NoAction
  gen,        \* navigation_generation
  rx,         \* generation whose channel navigation_rx holds, or NoChannel
  loads,      \* the workers by generation: what they load, how far they are
  wake,       \* a wake is on its way to the window's thread
  status,     \* status_text
  bar,        \* address_editing, and what is edited: Closed, or text and caret
  focused,    \* focused_input: the page the input belongs to, or NoPage
  intents,    \* the page's history intents not drained yet
  started,    \* the first frame was presented
  wanted,     \* history: what the last accepted navigation asked for, or NoUrl
  crossed,    \* history: the entry the pending traversal goes to was rewritten
  drift,      \* history: the page came from such a traversal
  made        \* history: intents queued so far

navVars == <<pending, action, gen, rx, loads, wanted, crossed>>
pageVars == <<page, history, index, drift>>
vars == <<navVars, bar, pageVars, wake, status, focused, intents, started, made>>

NoPage == 0
NoChannel == 0
NoAction == [kind |-> "none", to |-> 0]
Push == [kind |-> "push", to |-> 0]
MoveTo(i) == [kind |-> "move", to |-> i]

Texts == Urls \cup {NoUrl}
Carets == {"all", "start", "inside"}   \* address_select_all, address_cursor
Open(t, c) == [editing |-> TRUE, text |-> t, caret |-> c]
Closed == [editing |-> FALSE, text |-> NoUrl, caret |-> "start"]
Statuses == {"loading", "message"}   \* "ready", an error, a failed load
Intents == [replace : BOOLEAN, url : Named]

\* A worker: what it loads while its channel is held, how far it is.
Load(u, s) == [url |-> u, step |-> s, ok |-> FALSE]

\* History entries are numbered from 0, as in the code.
Entry(i) == history[i + 1]

Init ==
  /\ page = [url |-> FirstUrl, runtime |-> NoPage]
  /\ history = << >> /\ index = 0
  /\ pending = FALSE /\ action = NoAction /\ gen = 0 /\ rx = NoChannel
  /\ loads = << >>
  /\ wake = FALSE /\ status = "loading"
  /\ bar = Closed
  /\ focused = NoPage /\ intents = << >> /\ started = FALSE
  /\ wanted = NoUrl /\ crossed = FALSE /\ drift = FALSE /\ made = 0

-----------------------------------------------------------------------------
\* Mutant: the receiver of the load before it stays in place.
StartKeepsChannel(g, a, u) ==
  /\ g + 1 <= MaxNavigations
  /\ gen' = g + 1 /\ pending' = TRUE /\ action' = a
  /\ rx' = IF rx = NoChannel THEN g + 1 ELSE rx
  /\ loads' = [i \in 1..(g + 1) |->
                 IF i = g + 1 THEN Load(u, "loading")
                 ELSE IF i <= Len(loads) THEN Load(NoUrl, loads[i].step)
                 ELSE Load(NoUrl, "none")]
  /\ status' = "loading"
  /\ wanted' = u
  /\ crossed' = (drift /\ a = MoveTo(index))

\* start_navigation_worker once the pending check is passed, from generation g.
StartFrom(g, a, u) ==
  /\ g + 1 <= MaxNavigations
  /\ gen' = g + 1 /\ pending' = TRUE /\ action' = a /\ rx' = g + 1
  /\ loads' = [i \in 1..(g + 1) |->
                 IF i = g + 1 THEN Load(u, "loading")
                 ELSE IF i <= Len(loads) THEN Load(NoUrl, loads[i].step)
                 ELSE Load(NoUrl, "none")]
  /\ status' = "loading"
  /\ wanted' = u
  /\ crossed' = (drift /\ a = MoveTo(index))

\* start_navigation_worker: a pending navigation refuses another.
Start(a, u) ==
  IF pending THEN UNCHANGED <<navVars, status>> ELSE StartFrom(gen, a, u)

Untouched == UNCHANGED <<pageVars, wake, intents, started, made>>

\* The window's first present starts the first navigation and wakes.
FirstPresent ==
  /\ ~started
  /\ started' = TRUE /\ wake' = TRUE
  /\ Start(Push, FirstUrl)
  /\ UNCHANGED <<bar, pageVars, focused, intents, made>>

\* Mutant: a stop that leaves the generation alone.
StopKeepsGeneration ==
  /\ pending' = FALSE /\ action' = NoAction
  /\ status' = "message"
  /\ wanted' = NoUrl
  /\ UNCHANGED <<gen, rx, loads, crossed>>

\* stop_navigation: the worker runs on, its result is of another generation.
StopNavigation ==
  /\ gen' = gen + 1 /\ pending' = FALSE /\ action' = NoAction
  /\ status' = "message"
  /\ wanted' = NoUrl
  /\ UNCHANGED <<rx, loads, crossed>>

\* The stop key, or the stop button, which clears the focus and ends editing.
Stop ==
  /\ pending /\ gen < MaxNavigations
  /\ StopNavigation
  /\ \/ UNCHANGED <<focused, bar>>
     \/ focused' = NoPage /\ bar' = Closed
  /\ Untouched

-----------------------------------------------------------------------------
\* Session history.

BackTarget == IF index >= 1 /\ index - 1 < Len(history) THEN {index - 1} ELSE {}
ForwardTarget == IF index + 1 < Len(history) THEN {index + 1} ELSE {}

\* The back and forward keys clear the focus even when a load is pending.
TraverseByKey ==
  \E i \in BackTarget \cup ForwardTarget :
    /\ focused' = NoPage
    /\ Start(MoveTo(i), Entry(i))
    /\ UNCHANGED bar
    /\ Untouched

ReloadByKey ==
  /\ focused' = NoPage
  /\ Start(MoveTo(index), page.url)
  /\ UNCHANGED bar
  /\ Untouched

\* The chrome's buttons and the home key: disabled while a load is pending,
\* and an enabled one ends editing.
ChromeButton ==
  \E a \in {MoveTo(i) : i \in BackTarget \cup ForwardTarget}
             \cup {MoveTo(index), Push} :
    LET u == IF a = Push THEN HomeUrl
             ELSE IF a.to = index THEN page.url ELSE Entry(a.to)
    IN /\ focused' = NoPage
       /\ IF pending
            THEN UNCHANGED <<navVars, status, bar>>
            ELSE StartFrom(gen, a, u) /\ bar' = Closed
       /\ Untouched

\* apply_history_success for the page at u.
Kept == SubSeq(history, 1, IF index + 1 < Len(history) THEN index + 1 ELSE Len(history))

HistoryPushed(u) ==
  IF Kept # << >> /\ Last(Kept) = u THEN Kept ELSE Append(Kept, u)

\* Mutant: the cursor is set to the length, not to the last entry.
HistoryOffByOne(u) ==
  /\ history' = IF action = Push \/ history = << >> THEN HistoryPushed(u) ELSE history
  /\ index' = IF action = Push THEN Len(history') ELSE action.to
  /\ drift' = FALSE

HistorySuccess(u) ==
  /\ history' = CASE action = Push -> HistoryPushed(u)
                 [] action.kind = "move" /\ history = << >> -> <<u>>
                 [] OTHER -> history
  /\ index' = CASE action = Push -> Len(history') - 1
               [] action.kind = "move" /\ action.to < Len(history) -> action.to
               [] OTHER -> index
  /\ drift' = (action.kind = "move" /\ crossed /\ history # << >>)

-----------------------------------------------------------------------------
\* Links, forms and the address bar.

\* follow_hit_link, once the click's listeners let it through.
FollowLink ==
  \E u \in Named :
    /\ page.runtime # NoPage
    /\ bar' = Closed /\ focused' = NoPage
    /\ Start(Push, u)
    /\ Untouched

\* A click on the page whose listeners run script, and whose default is
\* prevented, or that lands on nothing.
ClickPage ==
  /\ page.runtime # NoPage
  /\ bar' = Closed
  /\ \/ focused' = focused
     \/ focused' = NoPage
  /\ \/ UNCHANGED <<intents, made>>
     \/ /\ made < MaxIntents
        /\ \E i \in Intents : intents' = Append(intents, i)
        /\ made' = made + 1
  /\ UNCHANGED <<navVars, pageVars, wake, status, started>>

\* A click on an input, or the tab key: focus_page_input.
FocusInput ==
  /\ page.runtime # NoPage
  /\ bar' = Closed /\ focused' = page.runtime
  /\ UNCHANGED <<navVars, status>>
  /\ Untouched

\* Enter in a form's field: a GET form goes through the address path, a POST
\* form through navigate_form_request; both refuse while a load is pending.
SubmitForm ==
  /\ ~bar.editing /\ focused # NoPage
  /\ \/ /\ ~pending
        /\ \E u \in Named : StartFrom(gen, Push, u)
        /\ focused' = NoPage
        /\ UNCHANGED bar
     \/ /\ status' = "message"      \* a method the shell does not know
        /\ UNCHANGED <<navVars, bar, focused>>
  /\ Untouched

FocusAddress ==
  /\ focused' = NoPage
  /\ bar' = Open(page.url, "all")
  /\ UNCHANGED <<navVars, status>>
  /\ Untouched

\* Typing, pasting, cutting and moving the caret.
EditAddress ==
  /\ bar.editing
  /\ \/ \E t \in Named \cup {NoUrl} : bar' = Open(t, "inside")
     \/ bar' = Open(NoUrl, "start")
     \/ \E c \in {"start", "inside"} : bar' = Open(bar.text, c)
  /\ UNCHANGED <<navVars, status, focused>>
  /\ Untouched

\* Backspace: the address bar first, then the focused field, and a key that
\* neither takes goes back in the history.
Backspace ==
  \/ /\ bar.editing /\ bar.caret # "start"
     /\ \/ bar.caret = "all" /\ bar' = Open(NoUrl, "start")
        \/ /\ bar.caret = "inside"
           /\ \E t \in Named \cup {NoUrl}, c \in {"start", "inside"} : bar' = Open(t, c)
     /\ UNCHANGED <<navVars, status, focused>>
     /\ Untouched
  \/ /\ ~(bar.editing /\ bar.caret # "start")
     /\ \E i \in BackTarget :
          /\ focused' = NoPage
          /\ Start(MoveTo(i), Entry(i))
     /\ UNCHANGED bar
     /\ Untouched

\* Enter in the address bar: what is typed replaces a pending navigation.
SubmitAddress ==
  /\ bar.editing
  /\ \/ /\ bar.text = NoUrl
        /\ status' = "message"
        /\ UNCHANGED <<navVars, bar, focused>>
     \/ /\ bar.text # NoUrl
        /\ StartFrom(IF pending THEN gen + 1 ELSE gen, Push, bar.text)
        /\ bar' = Closed /\ focused' = NoPage
  /\ Untouched

-----------------------------------------------------------------------------
\* The workers and the wake handler.

\* load_navigation_payload ends and its result is sent; a channel that was
\* replaced drops it.
WorkerSends(g) ==
  /\ loads[g].step = "loading"
  /\ \E ok \in IF rx = g THEN BOOLEAN ELSE {FALSE} :
       loads' = [loads EXCEPT ![g].step = "sent", ![g].ok = ok]
  /\ UNCHANGED <<bar, pageVars, pending, action, gen, rx, wanted, crossed,
                 wake, status, focused, intents, started, made>>

\* Mutant: a worker that wakes the window for a page only.
WorkerWakesIfLoaded(g) ==
  /\ loads[g].step = "sent"
  /\ loads' = [loads EXCEPT ![g].step = "woke"]
  /\ wake' = (wake \/ loads[g].ok)
  /\ UNCHANGED <<bar, pageVars, pending, action, gen, rx, wanted, crossed,
                 status, focused, intents, started, made>>

WorkerWakes(g) ==
  /\ loads[g].step = "sent"
  /\ loads' = [loads EXCEPT ![g].step = "woke"]
  /\ wake' = TRUE
  /\ UNCHANGED <<bar, pageVars, pending, action, gen, rx, wanted, crossed,
                 status, focused, intents, started, made>>

\* What try_recv finds.
Arrived == rx # NoChannel /\ loads[rx].step \in {"sent", "woke"}

\* The window's thread wakes: for a worker, or for the page's own deadline.
Woken == wake' = FALSE \/ (page.runtime # NoPage /\ UNCHANGED wake)

\* The result is out of its channel, which goes with it.
Taken ==
  /\ rx' = NoChannel
  /\ loads' = [loads EXCEPT ![rx] = Load(NoUrl, loads[rx].step)]

\* A result of a generation that was stopped or replaced.
WakeStale ==
  /\ wake \/ page.runtime # NoPage
  /\ Arrived /\ rx # gen
  /\ Woken
  /\ Taken
  /\ UNCHANGED <<bar, pageVars, pending, action, gen, wanted, crossed, status,
                 focused, intents, started, made>>

\* Mutant: the focus of the page before stays.
TakesKeysOnly == bar' = Closed /\ UNCHANGED focused

\* A page that arrives ends the editing of the address and takes the keys.
TakesKeys == bar' = Closed /\ focused' = NoPage

\* apply_navigation_payload: the page is built and takes the frame over.
WakeLoaded ==
  /\ wake \/ page.runtime # NoPage
  /\ Arrived /\ rx = gen /\ loads[rx].ok
  /\ Woken
  /\ LET u == Land[loads[rx].url]
     IN /\ HistorySuccess(u)
        /\ page' = [url |-> u, runtime |-> gen]
  /\ Taken /\ pending' = FALSE /\ action' = NoAction
  /\ TakesKeys /\ status' = "message"
  /\ \/ intents' = << >> /\ UNCHANGED made
     \/ /\ made < MaxIntents
        /\ \E i \in Intents : intents' = <<i>>
        /\ made' = made + 1
  /\ wanted' = NoUrl
  /\ UNCHANGED <<gen, crossed, started>>

\* The load failed, or the page could not be built: mark_navigation_error.
WakeFailed ==
  /\ wake \/ page.runtime # NoPage
  /\ Arrived /\ rx = gen
  /\ Woken
  /\ Taken /\ pending' = FALSE /\ action' = NoAction
  /\ status' = "message"
  /\ wanted' = NoUrl
  /\ UNCHANGED <<bar, pageVars, gen, crossed, focused, intents, started, made>>

\* Mutant: a replaced entry keeps its address.
AppliedKeepsEntry(s, i) ==
  [history |-> IF i.replace
                 THEN s.history
                 ELSE Append(SubSeq(s.history, 1, s.index + 1), i.url),
   index |-> IF i.replace THEN s.index ELSE s.index + 1,
   url |-> i.url]

\* tick_browser_runtime: one intent applied to what the ones before it left.
Applied(s, i) ==
  [history |-> IF i.replace
                 THEN [s.history EXCEPT ![s.index + 1] = i.url]
                 ELSE Append(SubSeq(s.history, 1, s.index + 1), i.url),
   index |-> IF i.replace THEN s.index ELSE s.index + 1,
   url |-> i.url]

Drained ==
  LET upTo[n \in 0..Len(intents)] ==
        IF n = 0 THEN [history |-> history, index |-> index, url |-> page.url]
        ELSE Applied(upTo[n - 1], intents[n])
  IN  upTo[Len(intents)]

\* The entry at i holds what it held.
Intact(h, i) == i < Len(history) => i < Len(h) /\ h[i + 1] = Entry(i)

WakeTick ==
  /\ wake \/ page.runtime # NoPage
  /\ ~Arrived
  /\ Woken
  /\ \/ page.runtime = NoPage /\ UNCHANGED <<pageVars, bar, status, intents, crossed>>
     \/ /\ page.runtime # NoPage
        /\ history' = Drained.history /\ index' = Drained.index
        /\ page' = [page EXCEPT !.url = Drained.url]
        /\ bar' = IF intents # << >> /\ bar.editing
                    THEN [bar EXCEPT !.text = Drained.url] ELSE bar
        /\ drift' = (drift /\ intents = << >>)
        /\ crossed' = \/ crossed
                      \/ action.kind = "move" /\ ~Intact(Drained.history, action.to)
        /\ intents' = << >>
        /\ UNCHANGED status
     \/ /\ page.runtime # NoPage      \* a callback threw: the intents stay
        /\ status' = "message"
        /\ UNCHANGED <<pageVars, bar, intents, crossed>>
  /\ UNCHANGED <<pending, action, gen, rx, loads, wanted, focused, started, made>>

-----------------------------------------------------------------------------
Input ==
  \/ Stop \/ TraverseByKey \/ ReloadByKey \/ ChromeButton
  \/ FollowLink \/ ClickPage \/ FocusInput \/ SubmitForm
  \/ FocusAddress \/ EditAddress \/ Backspace \/ SubmitAddress

Worker == \E g \in 1..Len(loads) : WorkerSends(g) \/ WorkerWakes(g)

Wake == WakeStale \/ WakeLoaded \/ WakeFailed \/ WakeTick

Next == FirstPresent \/ Input \/ Worker \/ Wake

Spec == Init /\ [][Next]_vars

\* A loader thread ends, by its timeouts at the latest, and the window's
\* thread handles the wakes that are sent to it.
ShellFairSpec ==
  /\ Spec
  /\ \A g \in 1..MaxNavigations :
       /\ WF_vars(g <= Len(loads) /\ WorkerSends(g))
       /\ WF_vars(g <= Len(loads) /\ WorkerWakes(g))
  /\ WF_vars(wake /\ Wake /\ ~wake')

-----------------------------------------------------------------------------
\* The state has its type; the history cursor is inside the history.
ShellTypeOK ==
  /\ page \in [url : Urls, runtime : 0..MaxNavigations]
  /\ history \in Seq(Urls)
  /\ index \in Nat /\ (history = << >> => index = 0)
  /\ (history # << >> => index < Len(history))
  /\ pending \in BOOLEAN /\ gen \in 0..MaxNavigations /\ rx \in 0..Len(loads)
  /\ action \in {NoAction, Push} \cup {MoveTo(i) : i \in 0..Len(history)}
  /\ Len(loads) <= gen
  /\ wake \in BOOLEAN /\ status \in Statuses
  /\ bar \in [editing : BOOLEAN, text : Texts, caret : Carets]
  /\ focused \in 0..MaxNavigations /\ intents \in Seq(Intents)
  /\ wanted \in Texts /\ crossed \in BOOLEAN /\ drift \in BOOLEAN

\* A window that shows "loading" is waiting for something that comes: the
\* channel it holds is the newest worker's, the worker's result is not lost,
\* and a result that was announced still has its wake (start_navigation_worker,
\* stop_navigation, handle_browser_wake).
LoadingIsAwaited ==
  /\ pending = (action # NoAction)
  /\ pending => /\ rx = gen
                /\ loads[gen].step # "none"
                /\ loads[gen].step = "woke" => wake
  /\ started /\ status = "loading" => pending

\* The history cursor names the page on the screen, or an address that is
\* redirected to it, through pushes, moves, reloads, failures and the page's own
\* pushState and replaceState.
\* The exception is a traversal whose entry the page rewrote while it was
\* loading: apply_history_success moves the cursor to it all the same.
CursorNamesPage ==
  /\ (page.runtime # NoPage) = (history # << >>)
  /\ history # << >> /\ ~drift => page.url \in {Entry(index), Land[Entry(index)]}

\* The keys have one taker: an input of the page on the screen, never of the
\* page before it, or the address bar, not both.
KeysHaveOneTaker ==
  /\ focused # NoPage => focused = page.runtime
  /\ ~(bar.editing /\ focused # NoPage)

\* What the window shows and holds agrees: the channel it waits on, the history
\* cursor and the taker of the keys.
ShellInv == ShellTypeOK /\ LoadingIsAwaited /\ CursorNamesPage /\ KeysHaveOneTaker

\* A page comes on the screen only for the navigation that was accepted last
\* and not stopped since, whatever older workers deliver.
SupersededNeverLands ==
  [][page'.runtime # page.runtime =>
       wanted # NoUrl /\ page'.url = Land[wanted]]_vars

\* A navigation that is pending ends: its page, an error, a stop.
NavigationSettles == []<>~pending
=============================================================================
