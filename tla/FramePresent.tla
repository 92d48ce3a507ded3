---------------------------- MODULE FramePresent ----------------------------
(***************************************************************************)
(* From a changed browser state to a committed Wayland frame: the redraw   *)
(* mode the shell accumulates (redraw_geometry.rs, window_frame.rs), the   *)
(* event loop that requests and retries a redraw (winit_backend.rs)        *)
(* and the shared-memory buffers it is drawn into (wayland_shm.rs).        *)
(*                                                                         *)
(* The window is a handful of parts.  A buffer is the set of parts whose   *)
(* pixels in it agree with the browser state; a mode is what it draws and  *)
(* what it damages.  A page is loaded (runtime is Some) throughout, and    *)
(* of the retained images the current view and the navigation start are    *)
(* kept: those for a scroll or focus target follow the same protocol.      *)
(***************************************************************************)
EXTENDS Integers, FiniteSets, FiniteSetsExt, Sequences

CONSTANTS
  BufferCount,  \* WAYLAND_SHM_BUFFER_COUNT
  PreseedCount, \* WAYLAND_SHM_FULL_DAMAGE_PRESEED_COUNT
  UpdateCount,  \* MAX_RETAINED_UPDATES_AFTER_PRESENT
  MaxChanges,   \* bound on the changes of the browser state
  MaxResizes    \* bound on the changes of the window size

ASSUME FrameAssumption ==
  /\ BufferCount \in Nat \ {0, 1}
  /\ PreseedCount \in Nat /\ UpdateCount \in Nat
  /\ MaxChanges \in Nat /\ MaxResizes \in Nat

Parts == {"page", "ring", "text", "status", "buttons"}
PageModes == {"Damage", "PageInputFocus"}
ChromeModes == {"AddressFocusChrome", "AddressFullTextChrome", "AddressChrome",
                "AddressTextChrome", "NavigationStartChrome", "StatusChrome",
                "Chrome"}
Modes == {"Clean", "Full", "Scroll", "DamageWithChrome"} \cup PageModes
           \cup ChromeModes
Tags == {"CurrentView", "NavigationStart"}
Buffers == 1 .. BufferCount

\* Window sizes: 0 is a surface without area; 1 and 2 are FRAME_WIDTH wide,
\* 2 is the taller one.
Sizes == 0 .. 2

VARIABLES
  app,     \* BrowserState: redraw_mode, retained_present, the two
           \* retained_sent flags, focused_input, the bitmap behind the scroll
  size,    \* the window's size, the size last painted, the surface's size
           \* and the size the buffers were allocated for
  buf,     \* WaylandShmSurface::buffers
  last,    \* last_presented_buffer, 0 for None
  held,    \* the compositor's hold on each buffer: it shows the one attached
           \* last, others are replaced; it has released the free ones
  loop,    \* WinitApp: the redraw request, its pacing and the loop's sleep
  unseen,  \* parts changed since they were last drawn and presented
  changes, resizes

frameVars == <<app, size, buf, last, held, loop, unseen, changes, resizes>>

-----------------------------------------------------------------------------
(***************************************************************************)
(* Redraw modes.                                                           *)
(***************************************************************************)

\* Mutant: a chrome change joined to page damage keeps only the page.
CombineDropsChrome(a, b) ==
  LET both == {a, b} IN
  IF "Clean" \in both THEN IF a = "Clean" THEN b ELSE a
  ELSE IF "Full" \in both THEN "Full"
  ELSE IF "Scroll" \in both THEN IF a = "Scroll" THEN b ELSE a
  ELSE IF both \cap PageModes # {} THEN "Damage"
  ELSE IF a = b THEN a ELSE "Chrome"

combine_redraw_mode(a, b) ==
  LET both == {a, b} IN
  IF a = "Clean" THEN b
  ELSE IF b = "Clean" THEN a
  ELSE IF a = "Scroll" THEN b
  ELSE IF b = "Scroll" THEN a
  ELSE IF "Full" \in both THEN "Full"
  ELSE IF both \subseteq PageModes THEN "Damage"
  ELSE IF both \cap (PageModes \cup {"DamageWithChrome"}) # {}
       THEN "DamageWithChrome"
  ELSE IF a = b THEN a
  ELSE IF both \cap {"Chrome", "StatusChrome", "NavigationStartChrome"} # {}
       THEN "Chrome"
  ELSE IF "AddressChrome" \in both THEN "AddressChrome"
  ELSE "AddressFullTextChrome"

\* Mutant: a retained frame survives a later change.
MarkKeepsRetained(a, m) ==
  [a EXCEPT !.sentNav = @ /\ m = "Clean",
            !.sentCurrent = @ /\ m \in {"Clean", "PageInputFocus"},
            !.mode = combine_redraw_mode(@, m)]

mark_redraw(a, m) ==
  [a EXCEPT !.retained = "none",
            !.sentNav = @ /\ m = "Clean",
            !.sentCurrent = @ /\ m \in {"Clean", "PageInputFocus"},
            !.mode = combine_redraw_mode(@, m)]

Chrome == Parts \ {"page"}

\* browser_present_damage
Damaged(m) ==
  CASE m \in {"Clean", "Scroll"} -> {}
    [] m \in {"Full", "DamageWithChrome"} -> Parts
    [] m \in {"AddressChrome", "AddressFocusChrome"} -> {"ring", "text"}
    [] m \in {"AddressFullTextChrome", "AddressTextChrome"} -> {"text"}
    [] m = "StatusChrome" -> {"status"}
    [] m = "NavigationStartChrome" -> {"status", "buttons"}
    [] m = "Chrome" -> Chrome
    [] m \in PageModes -> {"page"}

\* blit_browser_window_frame and draw_browser_window_chrome
Drawn(m, seed) ==
  IF seed THEN Parts
  ELSE CASE m = "AddressFocusChrome" -> {"ring"}
         [] m = "PageInputFocus" -> {}
         [] OTHER -> Damaged(m)

browser_render_seeds_full_buffer(m, age) ==
  age = 0 /\ m \in PageModes \cup ChromeModes \cup {"DamageWithChrome"}

-----------------------------------------------------------------------------
(***************************************************************************)
(* The event loop.                                                         *)
(***************************************************************************)

\* request_or_pace_redraw.  The shared-memory presenter has no pacing
\* (redraw_pacing_enabled_for_backend), so there is no deadline to wait for.
Requested(l) == [l EXCEPT !.pending = FALSE, !.requested = TRUE]

\* Mutant: a busy deadline that has passed still counts.
FlushWaitsForever(l) ==
  IF ~l.pending THEN l
  ELSE IF l.busy # "none" THEN [l EXCEPT !.alarm = TRUE]
  ELSE [l EXCEPT !.pending = FALSE, !.alarm = FALSE, !.requested = TRUE]

\* flush_paced_redraw with redraw_flush_wait_deadline
Flushed(l) ==
  IF ~l.pending THEN l
  ELSE IF l.busy = "ahead" THEN [l EXCEPT !.alarm = TRUE]
  ELSE [l EXCEPT !.busy = "none", !.pending = FALSE, !.alarm = FALSE,
                 !.requested = TRUE]

\* Mutant: a busy surface only arms the clock.
BusyForgetsRedraw(l) == [l EXCEPT !.busy = "ahead", !.alarm = TRUE]

handle_busy_surface(l) ==
  [l EXCEPT !.pending = TRUE, !.busy = "ahead", !.alarm = TRUE]

handle_presented_frame(l) == [l EXCEPT !.busy = "none"]

\* handle_ready_work with handle_browser_wake
handle_ready_work(l, changed, mode) ==
  IF changed \/ mode # "Clean" THEN Requested(l) ELSE l

-----------------------------------------------------------------------------
(***************************************************************************)
(* Changes of the browser state: the mode each marks and the parts whose   *)
(* pixels it makes wrong.                                                  *)
(***************************************************************************)
InputChanges ==
  { [mode |-> "AddressFocusChrome", parts |-> {"ring"}],
    [mode |-> "AddressTextChrome", parts |-> {"text"}],
    [mode |-> "StatusChrome", parts |-> {"status"}],
    [mode |-> "Damage", parts |-> {"page"}] }

\* tick_browser_runtime and apply_navigation_result: a same-document URL, a
\* failed callback or load, a new page.
HostChanges ==
  { [mode |-> "AddressChrome", parts |-> {"text"}],
    [mode |-> "Chrome", parts |-> {"status", "buttons"}],
    [mode |-> "Full", parts |-> Parts] }

\* The new state's pixels are in no buffer yet, except that an image made for
\* the start of a navigation already shows it.
Outdate(parts, navigation) ==
  /\ buf' = [b \in Buffers |->
       [buf[b] EXCEPT
          !.cur = (@ \ parts) \cup
                    (IF navigation /\ buf[b].tag = "NavigationStart"
                     THEN parts ELSE {})]]
  /\ unseen' = unseen \cup parts

CountChange == changes < MaxChanges /\ changes' = changes + 1

Input(c) ==
  /\ CountChange
  /\ app' = [mark_redraw(app, c.mode) EXCEPT
               !.focused = @ /\ c.mode # "AddressFocusChrome"]
  /\ Outdate(c.parts, FALSE)
  /\ loop' = [Requested(loop) EXCEPT !.asleep = FALSE]
  /\ UNCHANGED <<size, last, held, resizes>>

\* focus_page_input of a node the page has a rectangle for.
focus_page_input ==
  /\ CountChange
  /\ app' = [mark_redraw(app, "PageInputFocus") EXCEPT
               !.focused = TRUE,
               !.retained = IF app.sentCurrent THEN "CurrentView" ELSE "none"]
  /\ loop' = [Requested(loop) EXCEPT !.asleep = FALSE]
  /\ UNCHANGED <<size, buf, last, held, unseen, resizes>>

mark_navigation_loading ==
  /\ CountChange
  /\ app' = [mark_redraw(app, "NavigationStartChrome") EXCEPT
               !.focused = FALSE,
               !.retained = IF app.sentNav THEN "NavigationStart" ELSE "none"]
  /\ Outdate({"status", "buttons"}, TRUE)
  /\ loop' = [Requested(loop) EXCEPT !.asleep = FALSE]
  /\ UNCHANGED <<size, last, held, resizes>>

\* apply_browser_scroll without a cached viewport: to or from the bitmap's
\* own scroll offset.
apply_browser_scroll ==
  /\ CountChange
  /\ app' = [mark_redraw(app, "Scroll") EXCEPT !.scrolled = ~@]
  /\ loop' = [Requested(loop) EXCEPT !.asleep = FALSE]
  /\ UNCHANGED <<size, buf, last, held, unseen, resizes>>

\* handle_resize
Resize ==
  /\ resizes < MaxResizes /\ resizes' = resizes + 1
  /\ \E s \in Sizes \ {size.window} : size' = [size EXCEPT !.window = s]
  /\ loop' = [Requested(loop) EXCEPT !.asleep = FALSE]
  /\ UNCHANGED <<app, buf, last, held, unseen, changes>>

\* about_to_wait: host work, the pending redraw, then sleep.
AboutToWait ==
  /\ ~loop.asleep
  /\ \/ /\ UNCHANGED <<app, buf, unseen, changes>>
        /\ loop' = [Flushed(handle_ready_work(loop, FALSE, app.mode))
                      EXCEPT !.asleep = TRUE]
     \/ \E c \in HostChanges :
          /\ CountChange
          /\ app' = [mark_redraw(app, c.mode) EXCEPT
                       !.scrolled = @ /\ c.mode # "Full",
                       !.focused = @ /\ c.mode # "Full"]
          /\ Outdate(c.parts, FALSE)
          /\ loop' = [Flushed(handle_ready_work(loop, TRUE, app'.mode))
                        EXCEPT !.asleep = TRUE]
  /\ UNCHANGED <<size, last, held, resizes>>

\* winit leaves its wait for a requested redraw or a passed WaitUntil.
LoopWakes ==
  /\ loop.asleep
  /\ \/ loop.requested
     \/ loop.alarm /\ loop.busy # "ahead"
  /\ loop' = [loop EXCEPT !.asleep = FALSE]
  /\ UNCHANGED <<app, size, buf, last, held, unseen, changes, resizes>>

\* WinitUserEvent::Wake with nothing received.
UserWake ==
  /\ loop.asleep
  /\ loop' = [handle_ready_work(loop, FALSE, app.mode) EXCEPT !.asleep = FALSE]
  /\ UNCHANGED <<app, size, buf, last, held, unseen, changes, resizes>>

BusyExpires ==
  /\ loop.busy = "ahead" /\ loop' = [loop EXCEPT !.busy = "past"]
  /\ UNCHANGED <<app, size, buf, last, held, unseen, changes, resizes>>

-----------------------------------------------------------------------------
(***************************************************************************)
(* The buffers.                                                            *)
(***************************************************************************)
Released(bs) == {b \in Buffers : ~bs[b].busy}
NewBuffer == [cur |-> {}, age |-> 0, tag |-> "none", busy |-> FALSE, whole |-> FALSE]

\* Mutant: a new size only forgets the last presented buffer.
EnsureKeepsAges ==
  IF size.surface = size.window THEN [buf |-> buf, last |-> last]
  ELSE [buf |-> [b \in Buffers |->
                   IF size.alloc < size.window THEN NewBuffer
                   ELSE [buf[b] EXCEPT !.whole = FALSE]],
        last |-> 0]

\* A surface is the buffers and the last presented one.
\* ensure_buffers: another size makes every buffer cold, a taller one (or the
\* first) allocates new ones.
ensure_buffers ==
  IF size.surface = size.window THEN [buf |-> buf, last |-> last]
  ELSE [buf |-> [b \in Buffers |->
                   IF size.alloc < size.window THEN NewBuffer
                   ELSE [buf[b] EXCEPT !.age = 0, !.tag = "none", !.whole = FALSE]],
        last |-> 0]

\* A buffer that is dropped is destroyed: nothing is owed for it.
HeldEnsured ==
  IF size.surface # size.window /\ size.alloc < size.window
  THEN [b \in Buffers |-> "free"] ELSE held

\* Mutant: the oldest warm buffer is taken even while the compositor reads it.
AcquireAnyWarm(s) ==
  LET warm == {b \in Buffers : s.buf[b].age # 0}
  IN  IF s.last # 0 /\ s.last \in Released(s.buf) THEN s.last
      ELSE IF warm # {}
           THEN Max({b \in warm : \A c \in warm : s.buf[c].age <= s.buf[b].age})
      ELSE IF Released(s.buf) = {} THEN 0 ELSE Min(Released(s.buf))

\* The last presented buffer, else the oldest warm one (the last of them),
\* else the first released one; 0 when every buffer is busy.
acquire_released_buffer(s) ==
  LET free == Released(s.buf)
      warm == {b \in free : s.buf[b].age # 0}
  IN  IF s.last \in free THEN s.last
      ELSE IF warm # {}
           THEN Max({b \in warm : \A c \in warm : s.buf[c].age <= s.buf[b].age})
      ELSE IF free # {} THEN Min(free) ELSE 0

copy_buffer_prefix(s, from, to) ==
  [s EXCEPT !.buf[to] = [@ EXCEPT !.cur = s.buf[from].cur,
                                  !.whole = s.buf[from].whole, !.age = 1]]

seed_virgin_buffer(s, b) ==
  IF s.buf[b].age # 0 \/ s.last \in {0, b} THEN s
  ELSE [copy_buffer_prefix(s, s.last, b) EXCEPT !.buf[b].tag = "none"]

buffer_needs_seed(s, from, to) ==
  to # from /\ s.buf[to].age = 0 /\ to \in Released(s.buf)

\* Copies the last presented image into the first n cold released buffers.
seed_released_virgin_buffers(s, n) ==
  LET cold == {b \in Buffers : buffer_needs_seed(s, s.last, b)}
      chosen == {b \in cold : Cardinality({c \in cold : c <= b}) <= n}
  IN  [s EXCEPT !.buf = [b \in Buffers |->
         IF b \in chosen THEN copy_buffer_prefix(s, s.last, b).buf[b] ELSE @[b]]]

warm_one_released_virgin_buffer(s) == seed_released_virgin_buffers(s, 1)

\* present_buffer: the last presented buffer is only marked busy and committed
\* again; another one is attached, and replaces the one that is shown.
HeldCommitted(h, s, b) ==
  IF b = s.last THEN h
  ELSE [c \in Buffers |-> IF c = b THEN "shown"
                          ELSE IF h[c] = "shown" THEN "replaced" ELSE h[c]]

\* The presented buffer is one frame old, and the other warm ones age.
present_buffer(s, b) ==
  [buf |-> [c \in Buffers |->
              IF c = b THEN [s.buf[c] EXCEPT !.busy = TRUE, !.age = 1, !.tag = "none"]
              ELSE IF s.buf[c].age # 0 THEN [s.buf[c] EXCEPT !.age = @ + 1]
              ELSE s.buf[c]],
   last |-> b]

\* Mutant: the age of a rewritten buffer is counted from the old one.
RetainedAgesBack(b, tag) ==
  [b EXCEPT !.cur = {"page"}, !.whole = TRUE, !.age = 1 - @, !.tag = tag]

\* write_released_retained_buffer of the page bitmap, with the chrome of a
\* started navigation drawn on it for that tag.  Only the page in it is right
\* now; the browser's other overlays are never drawn into the bitmap.
RetainedImage(b, tag) ==
  [b EXCEPT !.cur = {"page"}, !.whole = TRUE, !.age = 1, !.tag = tag]

\* browser_retained_buffer_update, call after call: the images not sent yet.
UnsentUpdates(a) ==
  IF ~a.sentCurrent /\ ~a.sentNav
  THEN IF a.focused THEN <<"NavigationStart", "CurrentView">>
                    ELSE <<"CurrentView", "NavigationStart">>
  ELSE IF ~a.sentCurrent THEN <<"CurrentView">>
  ELSE IF ~a.sentNav THEN <<"NavigationStart">> ELSE << >>

\* prepare_retained_buffer_after_present with
\* handle_browser_retained_buffer_prepared: each unsent image goes to the next
\* released buffer without a tag, as long as there is one.
PrepareRetained(a, s) ==
  LET updates == UnsentUpdates(a)
      free == {b \in Released(s.buf) : s.buf[b].tag = "none"}
      rank(b) == Cardinality({c \in free : c <= b})
      count == Min({Len(updates), Cardinality(free), UpdateCount})
      sends(tag) == \E k \in 1 .. count : updates[k] = tag
  IN  [app |-> [a EXCEPT !.sentCurrent = @ \/ sends("CurrentView"),
                         !.sentNav = @ \/ sends("NavigationStart")],
       buf |-> [b \in Buffers |->
                  IF b \in free /\ rank(b) <= count
                  THEN RetainedImage(s.buf[b], updates[rank(b)]) ELSE s.buf[b]]]

-----------------------------------------------------------------------------
(***************************************************************************)
(* handle_redraw_requested.                                                *)
(***************************************************************************)
SizeRepaints == size.painted # size.window

\* warm_surface_after_present and prepare_retained_buffer_after_present
AfterPresent(a, s) ==
  \E warmed \in {warm_one_released_virgin_buffer(s)} : \E r \in {PrepareRetained(a, warmed)} :
    app' = r.app /\ buf' = r.buf /\ last' = warmed.last

\* browser_render_ready is false, or the surface has no area.
SkipRedraw ==
  /\ ~loop.asleep /\ loop.requested
  /\ size.window = 0 \/ (~SizeRepaints /\ app.mode = "Clean")
  /\ loop' = [loop EXCEPT !.requested = FALSE]
  /\ UNCHANGED <<app, size, buf, last, held, unseen, changes, resizes>>

Redraws ==
  /\ ~loop.asleep /\ loop.requested
  /\ size.window # 0 /\ (SizeRepaints \/ app.mode # "Clean")

\* browser_render_action is Retained and the tag names a released buffer.
HasRetained ==
  /\ ~SizeRepaints /\ app.retained # "none"
  /\ \E b \in Released(buf) : buf[b].tag = app.retained

RetainedDamage(tag) ==
  IF tag = "CurrentView" THEN {"page"} ELSE {"status", "buttons"}

handle_browser_presented_frame(a) ==
  [a EXCEPT !.retained = "none", !.mode = "Clean",
            !.sentCurrent = @ /\ a.retained # "CurrentView"]

\* present_retained_buffer: the first released buffer with the tag.
PresentRetained ==
  /\ Redraws /\ HasRetained
  /\ LET b == Min({c \in Released(buf) : buf[c].tag = app.retained})
     IN  /\ AfterPresent(handle_browser_presented_frame(app),
                         present_buffer([buf |-> buf, last |-> last], b))
         /\ held' = HeldCommitted(held, [buf |-> buf, last |-> last], b)
         /\ unseen' = unseen \ RetainedDamage(app.retained)
  /\ loop' = [handle_presented_frame(loop) EXCEPT !.requested = FALSE]
  /\ UNCHANGED <<size, changes, resizes>>

\* draw_and_present finds no released buffer.
BusyRedraw ==
  /\ Redraws /\ ~HasRetained
  /\ acquire_released_buffer(ensure_buffers) = 0
  /\ buf' = ensure_buffers.buf /\ last' = ensure_buffers.last /\ held' = HeldEnsured
  /\ size' = [size EXCEPT !.surface = size.window, !.alloc = Max({@, size.window})]
  /\ loop' = handle_busy_surface([loop EXCEPT !.requested = FALSE])
  /\ UNCHANGED <<app, unseen, changes, resizes>>

\* prepare_browser_bitmap_for_window: a new size reflows the page and repaints
\* everything; a moved scroll offset rasters the bitmap again or shifts it.
BitmapFor(a) ==
  IF SizeRepaints
  THEN {[a EXCEPT !.mode = "Full", !.scrolled = FALSE,
                  !.sentCurrent = FALSE, !.sentNav = FALSE]}
  ELSE IF a.scrolled
  THEN { [a EXCEPT !.mode = "Full", !.scrolled = FALSE],
         [mark_redraw(a, "Damage") EXCEPT !.scrolled = FALSE] }
  ELSE {a}

\* The page bitmap changes under the buffers when it is brought up to date.
Moved == IF SizeRepaints THEN Parts ELSE IF app.scrolled THEN {"page"} ELSE {}

Painted(s, b, drawn) ==
  [s EXCEPT !.buf = [c \in Buffers |->
     [s.buf[c] EXCEPT !.cur = (@ \ Moved) \cup (IF c = b THEN drawn ELSE {}),
                      !.whole = @ \/ (c = b /\ drawn = Parts)]]]

\* The surface once the damage of mode m is presented from buffer b.
Shown(s, b, m) ==
  IF m = "Full" THEN seed_released_virgin_buffers(present_buffer(s, b), PreseedCount)
  ELSE present_buffer(s, b)

\* draw_and_present with render_browser_window_frame; a clean frame (a scroll
\* that came back) is not presented.
DrawRedraw ==
  /\ Redraws /\ ~HasRetained
  /\ \E b \in {acquire_released_buffer(ensure_buffers)} \ {0},
        a \in BitmapFor(app) :
       LET s == seed_virgin_buffer(ensure_buffers, b)
           seed == browser_render_seeds_full_buffer(a.mode, s.buf[b].age)
           drawn == Drawn(a.mode, seed)
           clean == [a EXCEPT !.mode = "Clean", !.retained = "none"]
       IN \E p \in {Painted(s, b, drawn)} :
            \/ /\ Damaged(a.mode) = {}
               /\ app' = clean /\ buf' = p.buf /\ last' = p.last /\ held' = HeldEnsured
               /\ loop' = [loop EXCEPT !.requested = FALSE]
               /\ UNCHANGED unseen
            \/ /\ Damaged(a.mode) # {}
               /\ AfterPresent(clean, Shown(p, b, a.mode))
               /\ held' = HeldCommitted(HeldEnsured, s, b)
               /\ loop' = [handle_presented_frame(loop) EXCEPT !.requested = FALSE]
               /\ unseen' = (unseen \cup Moved) \ (drawn \cap Damaged(a.mode))
  /\ size' = [window |-> size.window, painted |-> size.window,
              surface |-> size.window, alloc |-> Max({size.alloc, size.window})]
  /\ UNCHANGED <<changes, resizes>>

\* wl_buffer.release, dispatched.  A compositor may release what it shows
\* before it has another buffer, and once more one committed again without
\* being attached; it owes neither.
Release(b) ==
  /\ buf[b].busy
  /\ buf' = [buf EXCEPT ![b].busy = FALSE]
  /\ held' = [held EXCEPT ![b] = "free"]
  /\ UNCHANGED <<app, size, last, loop, unseen, changes, resizes>>

-----------------------------------------------------------------------------
FrameInit ==
  /\ app = [mode |-> "Full", retained |-> "none", sentCurrent |-> FALSE,
            sentNav |-> FALSE, focused |-> FALSE, scrolled |-> FALSE]
  /\ size \in [window : Sizes \ {0}, painted : {0}, surface : {0}, alloc : {0}]
  /\ buf = [b \in Buffers |-> NewBuffer] /\ last = 0
  /\ held = [b \in Buffers |-> "free"]
  /\ loop = [requested |-> TRUE, pending |-> FALSE, busy |-> "none",
             alarm |-> FALSE, asleep |-> FALSE]
  /\ unseen = Parts /\ changes = 0 /\ resizes = 0

Frame == SkipRedraw \/ PresentRetained \/ BusyRedraw \/ DrawRedraw

FrameNext ==
  \/ \E c \in InputChanges : Input(c)
  \/ focus_page_input \/ mark_navigation_loading \/ apply_browser_scroll
  \/ Resize \/ AboutToWait \/ LoopWakes \/ UserWake
  \/ BusyExpires \/ Frame
  \/ \E b \in Buffers : Release(b)

(***************************************************************************)
(* winit serves a requested redraw and calls about_to_wait, clocks run and *)
(* the compositor releases a buffer once another one is attached: that is  *)
(* all the protocol owes.                                                  *)
(***************************************************************************)
FrameSpec ==
  /\ FrameInit /\ [][FrameNext]_frameVars
  /\ SF_frameVars(Frame)
  /\ WF_frameVars(AboutToWait) /\ WF_frameVars(LoopWakes)
  /\ WF_frameVars(BusyExpires)
  /\ \A b \in Buffers : WF_frameVars(held[b] = "replaced" /\ Release(b))

-----------------------------------------------------------------------------
(***************************************************************************)
(* Properties.                                                             *)
(***************************************************************************)

\* Type invariant.
FrameTypeOK ==
  /\ app \in [mode : Modes, retained : Tags \cup {"none"}, sentCurrent : BOOLEAN,
              sentNav : BOOLEAN, focused : BOOLEAN, scrolled : BOOLEAN]
  /\ size \in [window : Sizes, painted : Sizes, surface : Sizes, alloc : Sizes]
  /\ buf \in [Buffers -> [cur : SUBSET Parts, age : Nat, tag : Tags \cup {"none"},
                          busy : BOOLEAN, whole : BOOLEAN]]
  /\ last \in 0 .. BufferCount
  /\ held \in [Buffers -> {"free", "shown", "replaced"}]
  /\ loop \in [requested : BOOLEAN, pending : BOOLEAN, asleep : BOOLEAN,
               alarm : BOOLEAN, busy : {"none", "ahead", "past"}]
  /\ unseen \subseteq Parts
  /\ changes \in 0 .. MaxChanges /\ resizes \in 0 .. MaxResizes

\* A change stays in the redraw mode until a frame has drawn it: whatever is
\* combined with it, and whichever of the frame paths clears the mode.  The
\* address bar's focus ring is the one exception of combine_redraw_mode: a
\* character typed before the frame of the focus takes its place.
ChangesStayMarked ==
  /\ unseen \ {"ring"} \subseteq Drawn(app.mode, FALSE)
  /\ app.scrolled => app.mode # "Clean"

\* A retained frame replaces the drawing of a mode, so it is only offered
\* while its damage is all that the mode asks for.
RetainedCoversMode ==
  app.retained # "none" => Damaged(app.mode) \subseteq RetainedDamage(app.retained)

\* Pixels nobody wrote are never shown: the presented buffer, and every buffer
\* counted as warm, holds an image of the whole window at this size.
NoGarbage ==
  \A b \in Buffers : (b = last \/ buf[b].age # 0) => buf[b].whole

Dirty == size.window # 0 /\ (app.mode # "Clean" \/ SizeRepaints)

\* The loop never sleeps on a dirty window without a request or a clock that
\* will bring the frame.
WillWake ==
  loop.asleep /\ Dirty =>
    loop.requested \/ (loop.pending /\ loop.alarm)

\* The redraw mode, the retained image, the buffers and the loop agree on what
\* is still to be drawn.
FrameInv ==
  FrameTypeOK /\ ChangesStayMarked /\ RetainedCoversMode /\ NoGarbage /\ WillWake

\* Memory the compositor may be reading is not written: between two changes of
\* the browser state a buffer that stays busy keeps its pixels, and only those
\* of a page that moved under it stop being the right ones.
BusyNotWritten ==
  [][changes' = changes /\ size'.alloc = size.alloc =>
       \A b \in Buffers : buf[b].busy /\ buf'[b].busy =>
         buf'[b].cur \in {buf[b].cur, buf[b].cur \ Moved}
    ]_frameVars

\* Every buffer is marked busy and the compositor owes no release: each was
\* released while it was the last presented one, marked busy again and
\* committed without being attached (wayland_shm.rs:383), but for the one shown.
Starved == \A b \in Buffers : buf[b].busy /\ held[b] # "replaced"

\* A changed window is eventually drawn, not lost to a busy surface, to a
\* surface without area or to a request that found nothing to do, unless the
\* recommits of present_buffer have used up the buffers.
FrameComes == []<>(~Dirty \/ Starved)
=============================================================================
