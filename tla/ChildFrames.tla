---------------------------- MODULE ChildFrames ----------------------------
(***************************************************************************)
(* The iframes of a page (silksurf-app/src/child_frames.rs).  Each tick    *)
(* walks the tree of documents: it collects the iframe elements of a       *)
(* document, keeps, creates or drops a child frame for each, starts        *)
(* fetches on threads that hold a permit, builds the documents that        *)
(* arrived, descends into them and fires the load events bottom up.  A     *)
(* budget shared by the whole walk bounds the number of frames.            *)
(*                                                                         *)
(* A document is named by the path of owner elements that leads to it.     *)
(* Scripts change a document's iframes between two walks: what they change *)
(* during one, in the handlers it runs, is read by the next, because the   *)
(* candidates are collected before any handler of the document runs.  The  *)
(* build is the release profile: arithmetic wraps and a panic aborts.      *)
(***************************************************************************)
EXTENDS Naturals, Sequences, FiniteSets, SequencesExt

CONSTANTS
  OwnerCount,   \* iframe elements a document may have, in document order
  Sources,      \* resolved src attributes
  Pages,        \* what a document arrives with: the source of each iframe
  MaxDepth,     \* MAX_EMBEDDED_FRAME_DEPTH
  MaxFrames,    \* MAX_EMBEDDED_FRAME_COUNT
  MaxJobs,      \* MAX_EMBEDDED_FETCH_JOBS
  Word,         \* usize::MAX + 1
  MaxChanges    \* model bound: changes scripts make to the iframes

Owners == 1..OwnerCount
Absent == "absent"
Unsized == "unsized"   \* child_frame_viewport answers None
Iframes == [Owners -> Sources \cup {Absent, Unsized}]

ASSUME FramesAssumption ==
  /\ Pages \subseteq Iframes
  /\ OwnerCount \in Nat /\ MaxDepth \in Nat /\ MaxFrames \in Nat
  /\ MaxJobs \in Nat /\ MaxChanges \in Nat
  /\ Word \in Nat /\ Word > MaxFrames

Frames == UNION {[1..n -> Owners] : n \in 1..MaxDepth}
Root == << >>
Docs == Frames \cup {Root}

VARIABLES
  src,          \* each iframe's source, or Absent, or Unsized
  kid,          \* EmbeddedBrowserFrame and its EmbeddedFrameState
  loadPending,  \* the documents with initial_document_load_pending
  active,       \* ACTIVE_EMBEDDED_FETCH_JOBS
  lingering,    \* fetch threads whose result is sent or no longer awaited
  walk,         \* the calls of sync_child_frames_inner, innermost first
  remaining,    \* remaining_frames
  changes       \* changes made by scripts so far

vars == <<src, kid, loadPending, active, lingering, walk, remaining, changes>>

\* "arrived" and "refused": Loading with a payload or an error in the channel.
States == {"none", "pending", "loading", "arrived", "refused", "failed", "ready"}

\* late: history, created after the load event of its document.
Kid == [state : States, src : Sources \cup {Absent}, load : BOOLEAN, late : BOOLEAN]
NoKid == [state |-> "none", src |-> Absent, load |-> FALSE, late |-> FALSE]

Under(f) == {g \in Frames : IsPrefix(f, g)}
KidsOf(d) == {g \in Frames : Len(g) = Len(d) + 1 /\ IsPrefix(d, g)}
Tracked == {f \in Frames : kid[f].state # "none"}
Built == {Root} \cup {f \in Frames : kid[f].state = "ready"}

-----------------------------------------------------------------------------
\* discover_iframes, in document order.
Candidates(d, iframes) ==
  LET upTo[n \in 0..OwnerCount] ==
        IF n = 0 THEN << >>
        ELSE IF iframes[n] = Absent THEN upTo[n - 1]
        ELSE Append(upTo[n - 1], [frame |-> Append(d, n), src |-> iframes[n]])
  IN  upTo[OwnerCount]

\* sync_child_frames_inner up to its loop.  Without depth or budget the
\* children stay as they are.
Entered(d, budget, iframes) ==
  IF Len(d) < MaxDepth /\ budget > 0
  THEN LET all == Candidates(d, iframes)
           accepted == IF Len(all) < budget THEN Len(all) ELSE budget
       IN  [doc |-> d, todo |-> SubSeq(all, 1, accepted), kept |-> {}]
  ELSE [doc |-> d, todo |-> << >>, kept |-> KidsOf(d) \cap Tracked]

IframesOf(d) == [o \in Owners |-> IF Len(d) < MaxDepth THEN src[Append(d, o)] ELSE Absent]

Init ==
  /\ \E i \in Pages :
       src = [f \in Frames |-> IF Len(f) = 1 THEN i[f[1]] ELSE Absent]
  /\ kid = [f \in Frames |-> NoKid]
  /\ loadPending = {Root}   \* defer_initial_load, in the windowed browser
  /\ active = 0 /\ lingering = 0
  /\ walk = << >> /\ remaining = 0
  /\ changes = 0

\* A script inserts, removes, resizes or navigates an iframe.
Script(f, s) ==
  /\ walk = << >> /\ changes < MaxChanges
  /\ Front(f) \in Built
  /\ s # src[f]
  /\ src' = [src EXCEPT ![f] = s]
  /\ changes' = changes + 1
  /\ UNCHANGED <<kid, loadPending, active, lingering, walk, remaining>>

\* tick_browser_runtime calls sync_child_frames on the page's document.
Tick ==
  /\ walk = << >>
  /\ walk' = <<Entered(Root, MaxFrames, IframesOf(Root))>>
  /\ remaining' = MaxFrames
  /\ UNCHANGED <<src, kid, loadPending, active, lingering, changes>>

-----------------------------------------------------------------------------
\* The frames in gone are dropped with the documents they hold.  A fetch
\* thread no frame waits for any more runs on.
Forgotten(gone) == 0
Abandoned(gone) == Cardinality({g \in gone : kid[g].state = "loading"})

Without(gone) == [g \in Frames |-> IF g \in gone THEN NoKid ELSE kid[g]]
NoIframesIn(gone) ==
  [g \in Frames |-> IF \E h \in gone : h # g /\ IsPrefix(h, g) THEN Absent ELSE src[g]]

Top == walk[1]
Current == Top.todo[1]
Popped == <<[Top EXCEPT !.todo = Tail(@), !.kept = @ \cup {Current.frame}]>> \o Tail(walk)

Updating(f) ==
  /\ walk # << >> /\ Top.todo # << >>
  /\ f = Current.frame /\ Current.src # Unsized
  /\ remaining' = (remaining + Word - 1) % Word

Reusable(f) == kid[f].state # "none" /\ kid[f].src = Current.src

\* update_child_frame returns None: nothing is kept, nothing counted.
UpdateUnsized ==
  /\ walk # << >> /\ Top.todo # << >> /\ Current.src = Unsized
  /\ walk' = <<[Top EXCEPT !.todo = Tail(@)]>> \o Tail(walk)
  /\ UNCHANGED <<src, kid, loadPending, active, lingering, remaining, changes>>

\* EmbeddedFetchPermit::acquire
MayStartOver == active <= MaxJobs
MayStart == active < MaxJobs

\* The child take_reusable_child answers: the old one or a new Pending one.
Taken(f) ==
  IF Reusable(f) THEN kid[f]
  ELSE [state |-> "pending", src |-> Current.src, load |-> FALSE,
        late |-> Top.doc \notin loadPending]

\* advance_child_fetch, Pending: the fetch starts, its thread cannot be
\* started (the permit goes with the closure), or every permit is out.
UpdatePending(f) ==
  LET gone == IF Reusable(f) THEN {} ELSE Under(f)
      Becomes(state) == [Without(gone) EXCEPT ![f] = [Taken(f) EXCEPT !.state = state]]
  IN  /\ Updating(f) /\ Taken(f).state = "pending"
      /\ \/ MayStart /\ kid' = Becomes("loading") /\ active' = active + 1
         \/ MayStart /\ kid' = Becomes("failed") /\ UNCHANGED active
         \/ ~MayStart /\ kid' = Becomes("pending") /\ UNCHANGED active
      /\ lingering' = lingering + Abandoned(gone)
      /\ src' = NoIframesIn(gone)
      /\ loadPending' = loadPending \ gone
      /\ walk' = Popped
      /\ UNCHANGED changes

\* A payload that cannot be fetched or built fails the frame.
UpdateFailed(f) ==
  /\ Updating(f) /\ Reusable(f)
  /\ kid[f].state \in {"arrived", "refused", "failed"}
  /\ kid' = [kid EXCEPT ![f].state = "failed"]
  /\ walk' = Popped
  /\ UNCHANGED <<src, loadPending, active, lingering, changes>>

UpdateLoading(f) ==
  /\ Updating(f) /\ Reusable(f) /\ kid[f].state = "loading"
  /\ walk' = Popped
  /\ UNCHANGED <<src, kid, loadPending, active, lingering, changes>>

\* build_embedded_page, then advance_ready_child on the new document, whose
\* iframes come with it.
UpdateArrived(f, iframes) ==
  /\ Updating(f) /\ Reusable(f) /\ kid[f].state = "arrived"
  /\ kid' = [kid EXCEPT ![f].state = "ready"]
  /\ loadPending' = loadPending \cup {f}
  /\ src' = [g \in Frames |->
       IF g \in KidsOf(f) THEN iframes[Last(g)] ELSE src[g]]
  /\ walk' = <<Entered(f, remaining', iframes)>> \o Popped
  /\ UNCHANGED <<active, lingering, changes>>

UpdateReady(f) ==
  /\ Updating(f) /\ Reusable(f) /\ kid[f].state = "ready"
  /\ walk' = <<Entered(f, remaining', IframesOf(f))>> \o Popped
  /\ UNCHANGED <<src, kid, loadPending, active, lingering, changes>>

\* embedded_frame_load_settled
LoadSettledFetched(f) == kid[f].state \in {"failed", "ready"}
LoadSettled(f) ==
  \/ kid[f].state = "failed"
  \/ kid[f].state = "ready" /\ f \notin loadPending /\ kid[f].load

\* The end of sync_child_frames_inner: what was not kept is dropped, the
\* document's load event fires once its children settled, and then the load
\* event of its iframe (the end of advance_ready_child).
Leave ==
  LET d == Top.doc
      gone == UNION {Under(g) : g \in KidsOf(d) \ Top.kept}
      loaded == d \notin loadPending \/ \A g \in Top.kept : LoadSettled(g)
  IN  /\ walk # << >> /\ Top.todo = << >>
      /\ kid' = [g \in Frames |->
           IF g = d /\ loaded THEN [kid[g] EXCEPT !.load = TRUE]
           ELSE Without(gone)[g]]
      /\ loadPending' = loadPending \ (gone \cup IF loaded THEN {d} ELSE {})
      /\ lingering' = lingering + Abandoned(gone)
      /\ src' = NoIframesIn(gone)
      /\ walk' = Tail(walk)
      /\ UNCHANGED <<active, remaining, changes>>

-----------------------------------------------------------------------------
\* The thread of start_embedded_fetch sends its result and then drops its
\* permit; the receiver may be gone.
Send(f, result) ==
  /\ kid[f].state = "loading"
  /\ kid' = [kid EXCEPT ![f].state = result]
  /\ lingering' = lingering + 1
  /\ UNCHANGED <<src, loadPending, active, walk, remaining, changes>>

DropPermit ==
  /\ lingering > 0
  /\ lingering' = lingering - 1
  /\ active' = active - 1
  /\ UNCHANGED <<src, kid, loadPending, walk, remaining, changes>>

Walk ==
  \/ Tick \/ UpdateUnsized \/ Leave
  \/ \E f \in Frames :
       \/ UpdatePending(f) \/ UpdateLoading(f) \/ UpdateFailed(f) \/ UpdateReady(f)
       \/ \E iframes \in Pages : UpdateArrived(f, iframes)

Fetch == DropPermit \/ \E f \in Frames, r \in {"arrived", "refused"} : Send(f, r)

Next ==
  \/ Walk \/ Fetch
  \/ \E f \in Frames, s \in Sources \cup {Absent, Unsized} : Script(f, s)

\* The window thread ticks again within the poll interval while a frame is
\* pending or loading, and a fetch ends by its timeout.
FairSpec ==
  /\ Init /\ [][Next]_vars /\ WF_vars(Walk) /\ WF_vars(DropPermit)
  /\ \A f \in Frames : WF_vars(\E r \in {"arrived", "refused"} : Send(f, r))

-----------------------------------------------------------------------------
(***************************************************************************)
(* Properties.                                                             *)
(***************************************************************************)

\* Type invariant: the permits out keep their bound and only documents that
\* are built are walked or await their load event.
FramesTypeOK ==
  /\ src \in [Frames -> Sources \cup {Absent, Unsized}]
  /\ kid \in [Frames -> Kid]
  /\ loadPending \subseteq Built
  /\ active \in 0..MaxJobs
  /\ lingering \in Nat
  /\ \A i \in DOMAIN walk : walk[i].doc \in Built
  /\ remaining \in 0..(Word - 1)
  /\ changes \in 0..MaxChanges

\* Every permit out belongs to one running fetch thread and none is lost,
\* also when the frame was removed or navigated while its fetch ran.
PermitsExact ==
  active = lingering + Cardinality({f \in Frames : kid[f].state = "loading"})

\* The outcome of a frame is known to its parent: it failed, or its iframe's
\* load event fired.
Settled(f) == kid[f].state = "failed" \/ kid[f].load

\* AD-051: "Parent `load` waits for each initial child to settle; the iframe
\* `load` event precedes the parent's event."
LoadBottomUp ==
  \A f \in Tracked :
    /\ kid[f].load => f \notin loadPending
    /\ ~kid[f].late /\ Front(f) \notin loadPending => Settled(f)

\* The tree of frames between two steps: bounds, permits and load events.
FramesInv == FramesTypeOK /\ PermitsExact /\ LoadBottomUp

\* A page that keeps within the cap is never left loading: once its scripts
\* leave the iframes alone (MaxChanges), every child frame settles for good and
\* the page's own load event has fired.
Crowded ==
  Cardinality({f \in Frames : src[f] \notin {Absent, Unsized}}) > MaxFrames
FramesSettle ==
  <>[](Crowded \/ (Root \notin loadPending /\ \A f \in Tracked : Settled(f)))
=============================================================================
