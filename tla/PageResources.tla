--------------------------- MODULE PageResources ---------------------------
(***************************************************************************)
(* The resources a document's link and style elements ask for, and the     *)
(* cascade that is built from them (silksurf-app stylesheet_set.rs,        *)
(* link_preload.rs, runtime_repaint.rs and page_build.rs, silksurf-css     *)
(* cssom.rs).                                                              *)
(*                                                                         *)
(* Script changes the elements while the page is built, in the callbacks   *)
(* of a tick, in the load handler of a preload and in the listeners of an  *)
(* input event.  A tick notices a change by the DOM's structure counter,   *)
(* by its generation or by the set of dirty nodes it drains.  Bodies and   *)
(* preloads are fetched on threads that post no wake: the event loop polls *)
(* while one is outstanding.                                               *)
(*                                                                         *)
(* The elements keep their places in the tree.  The text of a sheet is a   *)
(* version number for a style element and the address for a link; media,   *)
(* accept headers and parsing are left out.  The user-agent sheet, which   *)
(* never changes, is left out of the lists.                                *)
(***************************************************************************)
EXTENDS Lists, SequencesExt

CONSTANTS
  Tree,           \* the elements, in tree order
  Links,          \* those that are links; the others are style elements
  Urls,           \* addresses the links name
  Pages,          \* documents as the loader hands them over
  MaxSources,     \* MAX_DOCUMENT_STYLE_SOURCES
  MaxPreloads,    \* MAX_PRELOAD_LINKS
  MaxEdits        \* model bound: edits of one behaviour, of the DOM and the CSSOM

ASSUME ResourcesAssumption ==
  /\ Tree \in Seq(ToSet(Tree)) /\ IsInjective(Tree) /\ Links \subseteq ToSet(Tree)
  /\ MaxSources \in Nat /\ MaxPreloads \in Nat
  /\ MaxEdits \in Nat

Nodes == ToSet(Tree)
Styles == Nodes \ Links
Rels == {"none", "preload", "stylesheet"}
Documents == [in : [Nodes -> BOOLEAN], rel : [Nodes -> Rels],
              url : [Nodes -> Urls], text : [Nodes -> 0..1]]

ASSUME PagesAssumption == Pages \subseteq Documents

VARIABLES
  doc,      \* the elements: in the tree or not, rel, href, text
  dom,      \* structure_generation, generation and the dirty nodes
  sheets,   \* StyleSheetSet: sources, bodies, requested, the counters it saw
  fetches,  \* stylesheet threads running, and the completions channel
  pre,      \* PreloadLinks: started, outstanding, the counter it saw
  early,    \* preload threads running, and the completions channel
  cssom,    \* SheetSet: the sheets and script_generation
  built,    \* the StyleIndex: the sheets it was built from, cssom_generation
  phase,    \* what the window's thread is doing
  due,      \* an event-loop iteration is on its way
  missed,   \* history: link and style marks dropped before the set saw them
  fired,    \* history: load and error events sent to each link
  faults    \* history: a thread that could not start, an address fetched twice

threadVars == <<fetches, early, faults>>
vars == <<doc, dom, sheets, pre, cssom, built, phase, due, missed, fired, threadVars>>

Phases == {"build", "idle", "callbacks", "handler", "event"}
Bodies == {"none", "held", "empty"}

\* Mutant: one more than the limit.
TruncateLate(s, n) == SubSeq(s, 1, IF Len(s) <= n THEN Len(s) ELSE n + 1)

Truncate(s, n) == SubSeq(s, 1, IF Len(s) < n THEN Len(s) ELSE n)

\* style_source_for_node
IsSource(d, n) == d.in[n] /\ (n \in Links => d.rel[n] = "stylesheet")
SourceOf(d, n) ==
  [owner |-> n, url |-> IF n \in Links THEN d.url[n] ELSE "inline", text |-> d.text[n]]

\* collect_style_sources
Listed(d) ==
  LET found == Retain(Tree, {n \in Nodes : IsSource(d, n)})
  IN Truncate([i \in 1..Len(found) |-> SourceOf(d, found[i])], MaxSources)

LinkUrls(sources) == {s.url : s \in {x \in ToSet(sources) : x.owner \in Links}}

\* collect_preload_links
Preloads(d) ==
  ToSet(Truncate(Retain(Tree, {n \in Links : d.in[n] /\ d.rel[n] = "preload"}), MaxPreloads))

\* live_sheets: a link without a body contributes an empty sheet.
LiveSheets(sources, bodies) ==
  [i \in 1..Len(sources) |->
     [owner |-> sources[i].owner,
      rules |-> IF sources[i].owner \in Links /\ bodies[sources[i].url] # "held"
                  THEN [url |-> "nothing", text |-> 0]
                  ELSE [url |-> sources[i].url, text |-> sources[i].text],
      spliced |-> FALSE, disabled |-> FALSE]]

\* SheetSet::active_sheets
ActiveSheets(set) == Retain(set, {s \in ToSet(set) : ~s.disabled})

\* Mutant: pending while a thread runs.
SheetsPendingRunning == \E u \in Urls : fetches.running[u] > 0

\* StyleSheetSet::has_pending_fetches, PreloadLinks::has_pending_fetches
SheetsPending == \E u \in LinkUrls(sheets.sources) : sheets.bodies[u] = "none"
Polling == SheetsPending \/ pre.outstanding > 0

\* The page as the loader hands it over: some bodies were fetched.
Init ==
  /\ doc \in Pages
  /\ dom = [structure |-> 0, gen |-> 0, dirty |-> {}]
  /\ \E bodies \in [Urls -> {"none", "held"}] :
       /\ \A u \in Urls : bodies[u] = "held" => u \in LinkUrls(Listed(doc))
       /\ sheets = [sources |-> Listed(doc), bodies |-> bodies,
                    requested |-> {u \in Urls : bodies[u] = "held"},
                    structure |-> 0, gen |-> 0]
  /\ fetches = [running |-> [u \in Urls |-> 0], done |-> << >>]
  /\ pre = [started |-> {}, outstanding |-> 0, structure |-> MaxEdits + 1]
  /\ early = [running |-> {}, done |-> << >>]
  /\ cssom = [sheets |-> LiveSheets(sheets.sources, sheets.bodies), gen |-> 0]
  /\ built = [sheets |-> ActiveSheets(cssom.sheets), gen |-> 0]
  /\ phase = "build" /\ due = FALSE
  /\ missed = [build |-> {}, event |-> {}]
  /\ fired = [n \in Links |-> 0] /\ faults = {}

-----------------------------------------------------------------------------
\* Script at work: in the build, in callbacks, handlers and listeners.
MayEdit == dom.gen + cssom.gen < MaxEdits
Scripting == MayEdit /\ phase \in {"build", "callbacks", "handler", "event"}

Edited(structural, marked) ==
  dom' = [structure |-> dom.structure + (IF structural THEN 1 ELSE 0),
          gen |-> dom.gen + 1, dirty |-> dom.dirty \cup marked]

Editing ==
  /\ Scripting
  /\ UNCHANGED <<sheets, pre, cssom, built, phase, due, missed, fired, threadVars>>

\* An element enters the tree, and is marked, or leaves it, and is not.
EditTree ==
  /\ Editing
  /\ \E n \in Nodes :
       /\ doc' = [doc EXCEPT !.in[n] = ~@]
       /\ Edited(TRUE, {n} \ {m \in Nodes : doc.in[m]})

\* set_attribute of rel or href: the element is marked, the shape stays.
EditLink ==
  /\ Editing
  /\ \E n \in Links :
       /\ \/ \E r \in Rels \ {doc.rel[n]} : doc' = [doc EXCEPT !.rel[n] = r]
          \/ \E u \in Urls \ {doc.url[n]} : doc' = [doc EXCEPT !.url[n] = u]
       /\ Edited(FALSE, {n})

\* The text node of a style element is rewritten: the text node is marked.
EditStyleText ==
  /\ Editing
  /\ \E n \in Styles : doc' = [doc EXCEPT !.text[n] = 1 - @]
  /\ Edited(FALSE, {})

\* insertRule, deleteRule, disabled: no DOM node is touched.
Splice ==
  /\ Scripting
  /\ \E i \in 1..Len(cssom.sheets) :
       cssom' = [sheets |-> [cssom.sheets EXCEPT
                               ![i] = IF @.disabled THEN [@ EXCEPT !.disabled = FALSE]
                                      ELSE IF @.spliced THEN [@ EXCEPT !.disabled = TRUE]
                                      ELSE [@ EXCEPT !.spliced = TRUE]],
                 gen |-> cssom.gen + 1]
  /\ UNCHANGED <<doc, dom, sheets, pre, built, phase, due, missed, fired, threadVars>>

-----------------------------------------------------------------------------
\* The threads of S that the system lets start.  Model bound: in one tick of a
\* behaviour none of them.
Startable(S) == IF "thread" \in faults THEN {S} ELSE {S, {}}

\* is_style_source_element over the dirty nodes.
Marked(dirty) == dirty \cap Nodes # {}

\* Mutant: a link is started again once its fetch has ended.
NewPreloadsAgain(dirty) ==
  IF dom.structure # pre.structure \/ Marked(dirty)
    THEN Preloads(doc) \ early.running ELSE {}

\* The links PreloadLinks::refresh starts a fetch for.
NewPreloads(dirty) ==
  IF dom.structure # pre.structure \/ Marked(dirty)
    THEN Preloads(doc) \ pre.started ELSE {}

\* PreloadLinks::refresh, when the threads of `up` can be started: the others
\* count as outstanding all the same.
PreloadsRefresh(dirty, up) ==
  /\ pre' = [started |-> pre.started \cup NewPreloads(dirty),
             outstanding |-> pre.outstanding + Cardinality(NewPreloads(dirty)),
             structure |-> dom.structure]
  /\ early' = [early EXCEPT !.running = @ \cup up]

\* build_browser_page_with_buffers_for_window: the set was collected before
\* the scripts ran, the preloads after them, and the marks are dropped.
EndBuild ==
  /\ phase = "build" /\ phase' = "idle" /\ due' = TRUE
  /\ \E up \in Startable(NewPreloads({})) :
       /\ PreloadsRefresh({}, up)
       /\ faults' = faults \cup {"thread" : n \in NewPreloads({}) \ up}
  /\ missed' = [missed EXCEPT !.build = dom.dirty \cap Nodes]
  /\ dom' = [dom EXCEPT !.dirty = {}]
  /\ UNCHANGED <<doc, sheets, fetches, cssom, built, fired>>

-----------------------------------------------------------------------------
\* The tick: repaint_runtime_pending_work.

StartTick ==
  /\ phase = "idle" /\ phase' = "callbacks" /\ due' = FALSE
  /\ UNCHANGED <<doc, dom, sheets, pre, cssom, built, missed, fired, threadVars>>

\* A callback throws: the tick returns before it drains anything, and the
\* status line it sets brings another iteration.
CallbacksThrow ==
  /\ phase = "callbacks" /\ phase' = "idle" /\ due' = TRUE
  /\ UNCHANGED <<doc, dom, sheets, pre, cssom, built, missed, fired, threadVars>>

\* Mutant: the count is left to the next refresh.
DispatchUncounted ==
  /\ phase \in {"callbacks", "handler"} /\ early.done # << >>
  /\ phase' = "handler"
  /\ fired' = [fired EXCEPT ![Head(early.done)] = @ + 1]
  /\ early' = [early EXCEPT !.done = Tail(@)]
  /\ UNCHANGED <<doc, dom, sheets, fetches, pre, cssom, built, due, missed, faults>>

\* dispatch_completed: one load or error event, whose handler runs script.
DispatchPreload ==
  /\ phase \in {"callbacks", "handler"} /\ early.done # << >>
  /\ phase' = "handler"
  /\ fired' = [fired EXCEPT ![Head(early.done)] = @ + 1]
  /\ pre' = [pre EXCEPT !.outstanding = IF @ = 0 THEN 0 ELSE @ - 1]
  /\ early' = [early EXCEPT !.done = Tail(@)]
  /\ UNCHANGED <<doc, dom, sheets, fetches, cssom, built, due, missed, faults>>

\* drain_completions: every body that arrived; the last one of an address stays.
BodiesNow ==
  [u \in Urls |->
     LET from == {i \in DOMAIN fetches.done : fetches.done[i].url = u} IN
     IF from = {} THEN sheets.bodies[u]
     ELSE IF fetches.done[Max(from)].ok THEN "held" ELSE "empty"]

\* Mutant: the first answer decides.
LandedFirst == fetches.done # << >> /\ fetches.done[1].ok

Landed == \E i \in 1..Len(fetches.done) : fetches.done[i].ok

\* Mutant: only a moved tree has its sources collected anew.
CollectMovedOnly(dirty) == IF dom.structure # sheets.structure THEN Listed(doc) ELSE sheets.sources

\* A moved tree or a marked style or link element has its sources collected.
Collect(dirty) ==
  IF dom.structure # sheets.structure \/ Marked(dirty) THEN Listed(doc) ELSE sheets.sources

\* reread_inline_text, when the generation moved.
Reread(sources) ==
  IF dom.gen = sheets.gen THEN sources
  ELSE [i \in 1..Len(sources) |->
          IF sources[i].owner \in Styles
            THEN [sources[i] EXCEPT !.text = doc.text[sources[i].owner]]
            ELSE sources[i]]

\* request_missing_bodies: the sources that ask for an address no one asked
\* for; each starts a thread, two links to one address included.
Asking(sources, u) ==
  IF u \in sheets.requested THEN {}
  ELSE {i \in 1..Len(sources) : sources[i].owner \in Links /\ sources[i].url = u}

\* StyleSheetSet::refresh, when the threads of the addresses `up` can start.
SheetsRefresh(sources, up) ==
  /\ sheets' = [sources |-> sources, bodies |-> BodiesNow,
                requested |-> sheets.requested \cup LinkUrls(sources),
                structure |-> dom.structure, gen |-> dom.gen]
  /\ fetches' = [running |-> [u \in Urls |-> fetches.running[u] +
                                IF u \in up THEN Cardinality(Asking(sources, u)) ELSE 0],
                 done |-> << >>]

\* refresh_runtime_stylesheets and drain_scripted_stylesheets: the set is
\* replaced when the list or a body changed; either rebuilds the StyleIndex.
Rebuild ==
  LET changed == Landed \/ sheets'.sources # sheets.sources
  IN /\ cssom' = IF changed
                   THEN [cssom EXCEPT !.sheets = LiveSheets(sheets'.sources, sheets'.bodies)]
                   ELSE cssom
     /\ built' = IF changed \/ cssom.gen # built.gen
                   THEN [sheets |-> ActiveSheets(cssom'.sheets), gen |-> cssom.gen]
                   ELSE built

\* The rest of the tick: the marks are drained, then preloads and sheets.
FinishTick ==
  /\ phase \in {"callbacks", "handler"} /\ early.done = << >>
  /\ phase' = "idle"
  /\ LET sources == Reread(Collect(dom.dirty))
         asked == {u \in Urls : Asking(sources, u) # {}}
     IN \E up \in Startable(NewPreloads(dom.dirty)), us \in Startable(asked) :
          /\ PreloadsRefresh(dom.dirty, up)
          /\ SheetsRefresh(sources, us)
          /\ faults' = faults \cup {"thread" : n \in NewPreloads(dom.dirty) \ up}
                            \cup {"thread" : u \in asked \ us}
                            \cup {"twice" : u \in {v \in us : fetches'.running[v] > 1}}
  /\ Rebuild
  /\ dom' = [dom EXCEPT !.dirty = {}]
  /\ missed' = IF dom.structure # sheets.structure \/ Marked(dom.dirty)
                 THEN [build |-> {}, event |-> {}] ELSE missed
  /\ UNCHANGED <<doc, due, fired>>

-----------------------------------------------------------------------------
\* An input event with listeners: dispatch_synthetic_event.  Model bound: none
\* once the edits are used up.
StartEvent ==
  /\ phase = "idle" /\ phase' = "event"
  /\ MayEdit
  /\ UNCHANGED <<doc, dom, sheets, pre, cssom, built, due, missed, fired, threadVars>>

\* The marks are drained for the repaint and shown to no one else.
EndEvent ==
  /\ phase = "event" /\ phase' = "idle" /\ due' = TRUE
  /\ missed' = [missed EXCEPT !.event = @ \cup (dom.dirty \cap Nodes)]
  /\ dom' = [dom EXCEPT !.dirty = {}]
  /\ UNCHANGED <<doc, sheets, pre, cssom, built, fired, threadVars>>

\* A stylesheet thread ends, with the body or an error.
SheetArrives(u) ==
  /\ fetches.running[u] > 0
  /\ \E ok \in BOOLEAN :
       fetches' = [running |-> [fetches.running EXCEPT ![u] = @ - 1],
                   done |-> Append(fetches.done, [url |-> u, ok |-> ok])]
  /\ UNCHANGED <<doc, dom, sheets, pre, early, cssom, built, phase, due, missed, fired, faults>>

\* A preload thread ends; load and error events differ in name only.
PreloadArrives(n) ==
  /\ n \in early.running
  /\ early' = [running |-> early.running \ {n}, done |-> Append(early.done, n)]
  /\ UNCHANGED <<doc, dom, sheets, fetches, pre, cssom, built, phase, due, missed, fired, faults>>

Script == EditTree \/ EditLink \/ EditStyleText \/ Splice
Drains == DispatchPreload \/ FinishTick
Returns == EndBuild \/ EndEvent
Tick == StartTick \/ CallbacksThrow \/ Drains
Arrival == (\E u \in Urls : SheetArrives(u)) \/ (\E n \in Links : PreloadArrives(n))
Next == Script \/ Tick \/ StartEvent \/ Returns \/ Arrival

Spec == Init /\ [][Next]_vars

\* Script returns, threads end, and the loop ticks while it polls or has an
\* iteration due, events or not: about_to_wait ticks after every batch of them.
\* Not every tick of a page throws.
ResourcesFairSpec ==
  /\ Spec
  /\ WF_vars(Arrival) /\ WF_vars(Returns)
  /\ SF_vars((Polling \/ due) /\ StartTick)
  /\ SF_vars(Drains)

-----------------------------------------------------------------------------
\* The state has its type; no preload event is counted twice off.
ResourcesTypeOK ==
  /\ doc \in Documents
  /\ dom.structure \in 0..MaxEdits /\ dom.gen \in 0..MaxEdits /\ dom.dirty \subseteq Nodes
  /\ Len(sheets.sources) <= MaxSources /\ sheets.bodies \in [Urls -> Bodies]
  /\ sheets.requested \subseteq Urls
  /\ fetches.running \in [Urls -> Nat]
  /\ pre.started \subseteq Links /\ pre.outstanding \in Nat
  /\ phase \in Phases /\ due \in BOOLEAN /\ faults \subseteq {"thread", "twice"}

\* What the next tick looks at: the counters and the marks.
Noticed ==
  \/ dom.structure # sheets.structure
  \/ dom.gen # sheets.gen /\ Listed([doc EXCEPT !.text = [n \in Nodes |-> 0]])
                            = [i \in 1..Len(sheets.sources) |-> [sheets.sources[i] EXCEPT !.text = 0]]
  \/ dom.dirty \cap Nodes # {}

\* The set lists what the document lists, or the next tick will notice: the
\* tree moved, a style or link element is marked, or only texts differ and the
\* generation moved (StyleSheetSet::refresh).  The exception is a mark that
\* was drained elsewhere: by the page build, or by an event's repaint.
ChangesAreNoticed ==
  \/ sheets.sources = Listed(doc)
  \/ Noticed
  \/ missed.build \cup missed.event # {}

\* The StyleIndex holds the active sheets of the shared set, a splice that the
\* counter reports apart; and the set holds the listed sheets with the bodies
\* that are there, whatever script spliced (rebuild_cascade_from_sheets,
\* SheetSet::replace).  The exception is an address that was fetched twice:
\* a second answer that failed empties the body behind the set's back.
CascadeReadsSet ==
  /\ built.sheets # ActiveSheets(cssom.sheets) => cssom.gen # built.gen
  /\ "twice" \in faults
     \/ [i \in 1..Len(cssom.sheets) |->
           [cssom.sheets[i] EXCEPT !.spliced = FALSE, !.disabled = FALSE]]
          = LiveSheets(sheets.sources, sheets.bodies)

\* The loop polls for something that comes: a running thread, a completion
\* not drained yet, or an address the next tick asks for; and the count of
\* preloads is exact (has_pending_fetches, outstanding).
PollingAwaits ==
  \/ "thread" \in faults
  \/ /\ pre.outstanding = Cardinality(early.running) + Len(early.done)
     /\ \A u \in LinkUrls(sheets.sources) :
          sheets.bodies[u] = "none" =>
            \/ fetches.running[u] > 0
            \/ \E i \in 1..Len(fetches.done) : fetches.done[i].url = u
            \/ u \notin sheets.requested

\* A preload link hears of its fetch exactly once, whatever script does to
\* its rel, its href or its place in the tree (PreloadLinks).
HeardAtMostOnce == \A n \in Links : fired[n] <= 1

\* The set, the CSSOM, the cascade and the fetches under way agree.
ResourcesInv ==
  ResourcesTypeOK /\ CascadeReadsSet /\ PollingAwaits /\ HeardAtMostOnce

\* Once script stops editing, the page is styled by what its document lists,
\* every preload was answered, and the loop stops polling, unless a thread
\* could not be started or a mark was drained missed.
StyledAtLast ==
  <>[](\/ "thread" \in faults
       \/ missed.build \cup missed.event # {}
       \/ /\ sheets.sources = Listed(doc)
          /\ \A u \in LinkUrls(sheets.sources) : sheets.bodies[u] # "none"
          /\ pre.outstanding = 0
          /\ \A n \in pre.started : fired[n] = 1)
=============================================================================
