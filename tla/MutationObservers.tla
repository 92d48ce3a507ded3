-------------------------- MODULE MutationObservers --------------------------
(***************************************************************************)
(* The DOM natives a page's script calls (silksurf-js dom_bridge.rs and     *)
(* dom_interfaces.rs), the MutationObserver registry and delivery of        *)
(* mutation_observer.rs, and the form edits the shell makes behind the      *)
(* script's back (silksurf-app input.rs), all on one DomTree.               *)
(*                                                                          *)
(* Script runs in turns: a task, or an observer's callback in the middle of *)
(* a delivery.  A delivery is a microtask; it walks the live observer list  *)
(* by index while the callbacks it calls may change that list.              *)
(***************************************************************************)
EXTENDS DomTree

CONSTANTS
    Observer,        \* the observers the page constructs
    FirstTrees,      \* the trees a page may start from
    FirstObservers,  \* the lists of observers, on the first target, it starts with
    Parsed,          \* <<element, text>>: what innerHTML parses its argument to
    Targets,         \* the nodes observe is called on
    FirstTarget,     \* the one the first observers watch, subtree and all
    MaxSteps,        \* bound: tree edits and observer calls in a behaviour
    NoObserver

VARIABLES
    dom,          \* the tree shared by the script and the shell
    observers,    \* the live list of the bootstrap
    regs,         \* _registrations: target -> subtree option
    queue,        \* _queue: the targets of the records routed to an observer
    queued,       \* __silksurfMutationQueued: the delivery job is enqueued
    turn,         \* "idle", "script" or "deliver"
    at,           \* the delivery's index into observers
    calling,      \* the observer whose callback runs
    steps,        \* how much of the bound is spent
    seen,         \* history: the tree when a reader last looked and took
    silent,       \* history: a record was queued without notify since the last route
    shifted       \* history: since the last delivery began, an observer left the list
                  \* during it, or takeRecords routed with no delivery enqueued

vars == <<dom, observers, regs, queue, queued, turn, at, calling, steps,
          seen, silent, shifted>>

Look(d) == [kids |-> d.kids, version |-> d.version,
            connected |-> {n \in Node : is_connected(d, n)}]

Init ==
    /\ observers \in FirstObservers /\ queue = [o \in Observer |-> <<>>]
    /\ regs = [o \in Observer |->
                  IF Contains(observers, o) THEN FirstTarget :> TRUE ELSE <<>>]
    /\ dom \in {set_mutation_recording(d, observers # <<>>) : d \in FirstTrees}
    /\ queued = FALSE /\ turn = "idle" /\ at = 0 /\ calling = NoObserver
    /\ steps = 0
    /\ seen = [reader |-> Look(dom), log |-> Look(dom)]
    /\ silent = FALSE /\ shifted = FALSE

-----------------------------------------------------------------------------
(* The tree as the script reaches it. *)

Scripting == turn = "script" \/ calling # NoObserver
Created(n) == n \notin dom.fresh

(* notify: enqueue the delivery when a record waits and none is enqueued.   *)
notify(d) == queued' = (queued \/ d.records # <<>>)

Edited(d) == steps < MaxSteps /\ dom' = d /\ steps' = IF d = dom THEN steps ELSE steps + 1
Steady == UNCHANGED <<observers, regs, queue, turn, at, calling, seen, shifted>>

(* A native that throws returns before it reaches notify. *)
Native(r) ==
    /\ Scripting /\ Edited(r.dom)
    /\ IF r.ok THEN notify(r.dom) ELSE UNCHANGED queued
    /\ UNCHANGED silent /\ Steady
(* The property writers of dom_interfaces.rs and css_object.rs, and the     *)
(* shell's form edits, reach the same mutators without notify.              *)
Silently(d) ==
    /\ Edited(d) /\ silent' = (silent \/ d.records # dom.records)
    /\ UNCHANGED queued /\ Steady

replace_child(d, parent, child, old) ==
    LET inserted == insert_before(d, parent, child, old)
    IN  IF ~inserted.ok \/ child = old THEN inserted
        ELSE remove_child(inserted.dom, parent, old)

inner_html(d, n) ==
    LET contents == {f \in DOMAIN d.host : d.host[f] = [node |-> n, by |-> "template"]}
        into     == IF contents = {} THEN n ELSE CHOOSE f \in contents : TRUE
        RemoveEach(e, c) == remove_child(e, into, c).dom
    IN  import_subtree(FoldLeft(RemoveEach, d, d.kids[into]), Parsed[1], Parsed[2], into)

AppendChildNative == \E p, c \in Node :
    Created(p) /\ Created(c) /\ Native(pre_insert(dom, p, c, NoNode))
InsertBeforeNative == \E p, c, r \in Node :
    Created(p) /\ Created(c) /\ Created(r) /\ Native(pre_insert(dom, p, c, r))
ReplaceChildNative == \E p, c, old \in Node :
    Created(p) /\ Created(c) /\ Created(old) /\ Native(replace_child(dom, p, c, old))
RemoveChildNative == \E p, c \in Node :
    Created(p) /\ Created(c) /\ Native(remove_child(dom, p, c))
TextContentNative == \E n \in Node, texts \in {<<>>} \union {<<t>> : t \in dom.fresh} :
    /\ Created(n) /\ \A t \in ToSet(texts) : Kind[t] = "text"
    /\ Native(set_text_content(dom, n, texts))
SetAttributeNative == \E n \in Node :
    Created(n) /\ Native([ok |-> TRUE, dom |-> set_attribute(dom, n).dom])
InnerHtmlNative == \E n \in Node :
    /\ Created(n) /\ Kind[n] = "element" /\ ToSet(Parsed) \subseteq dom.fresh
    /\ Native(inner_html(dom, n))
AttachShadowNative == \E n \in Node, f \in dom.fresh :
    Created(n) /\ Kind[f] = "fragment" /\ Scripting /\ Silently(attach_shadow(dom, n, f).dom)

RemoveAttributeNative == \E n \in Node :
    Created(n) /\ Scripting /\ Silently(set_attribute(dom, n).dom)
(* A select changes: the shell sets one option and clears another in one     *)
(* batch while no script runs, and repaints from the dirty nodes it takes.   *)
FormEdit == \E m, n \in Node :
    LET d == end_mutation_batch(
                set_attribute(set_attribute(begin_mutation_batch(dom), m).dom, n).dom)
    IN  /\ turn = "idle" /\ Created(m) /\ Created(n) /\ m # n
        /\ Kind[m] = "element" /\ Kind[n] = "element"
        /\ Edited(take_dirty_nodes(d))
        /\ silent' = (silent \/ d.records # dom.records)
        /\ seen' = [seen EXCEPT !.reader = Look(d)]
        /\ UNCHANGED <<observers, regs, queue, queued, turn, at, calling, shifted>>

(* The page build reads the tree, its generations and its dirty nodes. *)
ReadTree ==
    /\ turn = "idle" /\ dom.moved # {}
    /\ dom' = [take_dirty_nodes(dom) EXCEPT !.moved = {}]
    /\ seen' = [seen EXCEPT !.reader = Look(dom)]
    /\ UNCHANGED <<observers, regs, queue, queued, turn, at, calling, steps, silent, shifted>>

-----------------------------------------------------------------------------
(* The registry. *)

(* isInclusiveAncestor follows parentNode, which ends at a shadow root. *)
matched(o, target) ==
    \E t \in DOMAIN regs[o] : t = target \/ (regs[o][t] /\ t \in Climb(target, dom.parent))

Routed(o) == queue[o] \o SelectSeq([i \in DOMAIN dom.records |-> dom.records[i].target],
                                   LAMBDA target : matched(o, target))
Route == [o \in Observer |-> IF Contains(observers, o) THEN Routed(o) ELSE queue[o]]
Taken == /\ dom' = take_mutation_records(dom)
         /\ seen' = [seen EXCEPT !.log = Look(dom)] /\ silent' = FALSE

Called == steps < MaxSteps /\ steps' = steps + 1

Observe(o) == \E t \in Targets, subtree \in BOOLEAN :
    /\ Scripting /\ Called /\ Created(t)
    /\ observers' = IF Contains(observers, o) THEN observers ELSE Append(observers, o)
    /\ regs' = [regs EXCEPT ![o] = (t :> subtree) @@ @]
    /\ dom' = IF t \in DOMAIN regs[o] THEN dom ELSE set_mutation_recording(dom, TRUE)
    /\ seen' = IF dom.recording THEN seen ELSE [seen EXCEPT !.log = Look(dom)]
    /\ UNCHANGED <<queue, queued, turn, at, calling, silent, shifted>>

(* Mutant: the last registration of any observer closes the recording. *)
DisconnectCloses(o) ==
    /\ Scripting /\ Called /\ Contains(observers, o)
    /\ regs' = [regs EXCEPT ![o] = <<>>] /\ queue' = [queue EXCEPT ![o] = <<>>]
    /\ observers' = SelectSeq(observers, LAMBDA p : p # o)
    /\ dom' = set_mutation_recording(dom, FALSE) /\ silent' = FALSE
    /\ shifted' = (shifted \/ turn = "deliver")
    /\ UNCHANGED <<queued, turn, at, calling, seen>>
Disconnect(o) ==
    /\ Scripting /\ Called /\ Contains(observers, o)
    /\ regs' = [regs EXCEPT ![o] = <<>>] /\ queue' = [queue EXCEPT ![o] = <<>>]
    /\ observers' = SelectSeq(observers, LAMBDA p : p # o)
    /\ dom' = IF observers' = <<>> THEN set_mutation_recording(dom, FALSE) ELSE dom
    /\ silent' = (silent /\ observers' # <<>>)
    /\ shifted' = (shifted \/ turn = "deliver")
    /\ UNCHANGED <<queued, turn, at, calling, seen>>

TakeRecords(o) ==
    /\ Scripting /\ Called
    /\ queue' = [Route EXCEPT ![o] = <<>>] /\ Taken
    /\ shifted' = (shifted \/ ~queued)
    /\ UNCHANGED <<observers, regs, queued, turn, at, calling>>

-----------------------------------------------------------------------------
(* Turns. *)

RunScript ==
    /\ turn = "idle" /\ steps < MaxSteps /\ turn' = "script"
    /\ UNCHANGED <<dom, observers, regs, queue, queued, at, calling, steps, seen, silent, shifted>>

(* run_host_callbacks repeats the check at its checkpoint and runs the jobs. *)
deliver_pending ==
    /\ turn = "idle" /\ (queued \/ dom.records # <<>>) /\ turn' = "script" /\ notify(dom)
    /\ UNCHANGED <<dom, observers, regs, queue, at, calling, steps, seen, silent, shifted>>

(* eval, and a host callback, that throws returns without running the jobs. *)
ScriptThrows ==
    /\ turn = "script" /\ queued /\ turn' = "idle"
    /\ UNCHANGED <<dom, observers, regs, queue, queued, at, calling, steps, seen, silent, shifted>>
EndScript ==
    /\ turn = "script" /\ ~queued /\ turn' = "idle"
    /\ UNCHANGED <<dom, observers, regs, queue, queued, at, calling, steps, seen, silent, shifted>>

RunDelivery ==
    /\ turn = "script" /\ queued /\ queued' = FALSE /\ turn' = "deliver" /\ at' = 1
    /\ queue' = Route /\ Taken /\ shifted' = FALSE
    /\ UNCHANGED <<observers, regs, calling, steps>>

Waiting == {i \in at..Len(observers) : queue[observers[i]] # <<>>}
Callback ==
    /\ turn = "deliver" /\ calling = NoObserver
    /\ \E i \in Waiting :
          /\ \A j \in Waiting : i <= j
          /\ at' = i /\ calling' = observers[i]
          /\ queue' = [queue EXCEPT ![observers[i]] = <<>>]
    /\ UNCHANGED <<dom, observers, regs, queued, turn, steps, seen, silent, shifted>>
EndCallback ==
    /\ calling # NoObserver /\ calling' = NoObserver /\ at' = at + 1
    /\ UNCHANGED <<dom, observers, regs, queue, queued, turn, steps, seen, silent, shifted>>
(* The job returns to run_jobs, which runs the next one or ends. *)
EndDelivery ==
    /\ turn = "deliver" /\ calling = NoObserver /\ Waiting = {}
    /\ turn' = "script" /\ at' = 0
    /\ UNCHANGED <<dom, observers, regs, queue, queued, calling, steps, seen, silent, shifted>>

Next ==
    \/ AppendChildNative \/ InsertBeforeNative \/ ReplaceChildNative \/ RemoveChildNative
    \/ TextContentNative \/ SetAttributeNative \/ InnerHtmlNative \/ AttachShadowNative
    \/ RemoveAttributeNative \/ FormEdit \/ ReadTree
    \/ \E o \in Observer : Observe(o) \/ Disconnect(o) \/ TakeRecords(o)
    \/ RunScript \/ deliver_pending \/ ScriptThrows \/ EndScript
    \/ RunDelivery \/ Callback \/ EndCallback \/ EndDelivery

Spec == Init /\ [][Next]_vars

-----------------------------------------------------------------------------
(* The tree, the log and the registry keep their shapes; the batch is closed *)
(* whenever the shell or the script can look.                                *)
ObserversTypeOK ==
    /\ dom.kids \in [Node -> Seq(Node)] /\ dom.parent \in [Node -> Node \union {NoNode}]
    /\ dom.depth = 0 /\ dom.dirtyBatch = {} /\ dom.pending = {}
    /\ dom.dirty \subseteq Node /\ dom.added \subseteq Node
    /\ turn \in {"idle", "script", "deliver"} /\ calling \in Observer \union {NoObserver}
    /\ observers \in Seq(Observer) /\ IsInjective(observers)

(* Whatever a script moves, wherever it moves it, the arena stays a forest:  *)
(* parent and child lists agree, no node sits twice, and no node is above    *)
(* itself, not even through the host of a shadow root or of a template's     *)
(* contents (validate_insertion, the splice and the detach of insert_before).*)
TreeConsistent ==
    /\ \A n \in Node : IsInjective(dom.kids[n])
    /\ \A p \in Node : ToSet(dom.kids[p]) = {c \in Node : dom.parent[c] = p}
    /\ \A n \in Node :
          LET up == IF dom.parent[n] # NoNode THEN dom.parent[n] ELSE HostOf(dom, n)
          IN  up # NoNode => n \notin HostInclusiveAncestors(dom, up)

(* A reader that compares generations, or reads the dirty nodes, misses no   *)
(* change made since it last looked: a changed child list moved the          *)
(* structure and the style generation, a changed element the style           *)
(* generation, every change the general one, and each changed node is dirty  *)
(* (the bookkeeping at the end of every mutator, and of a batch).            *)
ReadersNotice ==
    \A n \in Node :
        LET reshaped == dom.kids[n] # seen.reader.kids[n]
            changed  == dom.version[n] # seen.reader.version[n]
        IN  /\ reshaped => {"structure", "style"} \subseteq dom.moved
            /\ changed /\ Kind[n] = "element" => "style" \in dom.moved
            /\ reshaped \/ changed => "any" \in dom.moved /\ n \in dom.dirty

(* One record replayed on a child list: its removals, then its additions     *)
(* before `next', which must find `previous' where the record says it is.    *)
Replay(row, r) ==
    LET left == SelectSeq(row, LAMBDA c : ~Contains(r.removed, c))
        pos  == IF r.next = NoNode THEN Len(left) ELSE PositionOf(left, r.next) - 1
        prev == IF pos > 0 THEN left[pos] ELSE NoNode
    IN  IF pos < 0 \/ prev # r.previous THEN <<NoNode>>
        ELSE SubSeq(left, 1, pos) \o r.added \o SubSeq(left, pos + 1, Len(left))

(* The records waiting in the log tell an observer the whole truth: for a    *)
(* node that has been in the document since the log was last taken, and that *)
(* no recorded addition carries, replaying its records on the child list it  *)
(* had then gives the one it has now, siblings included, and it has one data *)
(* record per change (queue_mutation and the records its callers build).     *)
RecordsReplay ==
    dom.recording =>
        \A n \in seen.log.connected :
            LET mine == SelectSeq(dom.records, LAMBDA r : r.target = n)
                data == SelectSeq(mine, LAMBDA r : r.type # "childList")
            IN  is_connected(dom, n) /\ HostInclusiveAncestors(dom, n) \cap dom.added = {}
                => /\ FoldLeft(Replay, seen.log.kids[n],
                                SelectSeq(mine, LAMBDA r : r.type = "childList")) = dom.kids[n]
                   /\ Len(data) = dom.version[n] - seen.log.version[n]

(* The tree records exactly while some observer has a registration, however  *)
(* the observers of a page overlap (track, untrack, disconnect).             *)
RecordingFollowsObservers ==
    /\ dom.recording <=> observers # <<>>
    /\ \A o \in Observer : Contains(observers, o) <=> DOMAIN regs[o] # {}

(* When the script comes to rest with no delivery enqueued, nothing waits:  *)
(* a record is in the log only if a native that does not notify    *)
(* put it there, and in an observer's queue only if the list shifted under   *)
(* the delivery or takeRecords routed it with no delivery enqueued.          *)
NobodyStranded ==
    turn = "idle" /\ ~queued =>
        /\ dom.records # <<>> => silent
        /\ (\E o \in Observer : queue[o] # <<>>) => shifted

(* The tree, the registry of observers and the log agree.                    *)
ObserversInv ==
    /\ ObserversTypeOK /\ TreeConsistent
    /\ RecordingFollowsObservers /\ NobodyStranded
=============================================================================
