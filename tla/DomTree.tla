------------------------------- MODULE DomTree -------------------------------
(***************************************************************************)
(* The arena tree of silksurf-dom (crates/silksurf-dom/src/lib.rs) and its  *)
(* mutation log (mutation.rs) as operators on a record: every mutator takes *)
(* the tree and returns whether it succeeded together with the tree it      *)
(* leaves, so that a compound mutator is the composition of the ones it     *)
(* calls.  An attribute list or a text is a version number: what a reader   *)
(* tells apart is whether it changed.  The three generation counters are    *)
(* the set `moved' of those that advanced since a reader last looked.       *)
(***************************************************************************)
EXTENDS Naturals, Sequences, SequencesExt, FiniteSets, Functions

CONSTANTS
    Kind,       \* the kind of every node the arena ever holds
    Document,   \* the first document created: connectedness is measured on it
    NoNode      \* Option::None

Node == DOMAIN Kind

ASSUME KindAssumption ==
    /\ Kind \in [Node -> {"document", "element", "text", "fragment"}]
    /\ Document \in Node /\ Kind[Document] = "document" /\ NoNode \notin Node

(***************************************************************************)
(* The tree: `host' names the element a fragment hangs from and how (its    *)
(* shadow root or its template contents), `fresh' the nodes not yet pushed. *)
(***************************************************************************)
NewTree(kids, host, fresh) ==
    [kids      |-> kids,
     parent    |-> [n \in Node |-> LET up == {p \in Node : Contains(kids[p], n)}
                                   IN  IF up = {} THEN NoNode ELSE CHOOSE p \in up : TRUE],
     host      |-> host,
     fresh     |-> fresh,
     version   |-> [n \in Node |-> 0],
     recording |-> FALSE, records |-> <<>>, added |-> {},
     dirty     |-> {}, dirtyBatch |-> {}, depth |-> 0,
     pending   |-> {}, moved |-> {}]

Done(d) == [ok |-> TRUE, dom |-> d]
Fails(d) == [ok |-> FALSE, dom |-> d]

Container(n) == Kind[n] \in {"document", "fragment", "element"}
HostOf(d, n) == IF n \in DOMAIN d.host THEN d.host[n].node ELSE NoNode
ShadowHost(d, n) ==
    IF n \in DOMAIN d.host /\ d.host[n].by = "shadow" THEN d.host[n].node ELSE NoNode

(* The nodes met climbing from n, one step of the climb given by up. *)
Climb(n, up) ==
    LET path[k \in 0..Cardinality(Node)] ==
            IF k = 0 THEN <<n>>
            ELSE LET below == path[k - 1]
                 IN  IF up[Last(below)] = NoNode THEN below ELSE Append(below, up[Last(below)])
    IN  ToSet(path[Cardinality(Node)])

(* validate_insertion climbs through template and shadow hosts alike ... *)
HostInclusiveAncestors(d, n) ==
    Climb(n, [m \in Node |-> IF d.parent[m] # NoNode THEN d.parent[m] ELSE HostOf(d, m)])
(* ... while is_connected stops at a template's contents. *)
is_connected(d, n) ==
    Document \in Climb(n, [m \in Node |-> IF d.parent[m] # NoNode THEN d.parent[m]
                                          ELSE ShadowHost(d, m)])

-----------------------------------------------------------------------------
(* Bookkeeping every mutator ends with. *)

(* Mutant: leaving a batch drops the generations it owes. *)
commit_forgets(d) == [d EXCEPT !.pending = {}]
commit_pending_generations(d) == [d EXCEPT !.moved = @ \union d.pending, !.pending = {}]

commit_unbatched_generations(d) ==
    IF d.depth = 0
    THEN [commit_pending_generations(d) EXCEPT !.moved = @ \union {"any"}]
    ELSE d
record_structure_change(d) ==
    commit_unbatched_generations([d EXCEPT !.pending = @ \union {"structure", "style"}])
record_style_change(d) ==
    commit_unbatched_generations([d EXCEPT !.pending = @ \union {"style"}])
record_text_change(d) == commit_unbatched_generations(d)

mark_dirty(d, nodes) ==
    IF d.depth > 0 THEN [d EXCEPT !.dirtyBatch = @ \union nodes]
                   ELSE [d EXCEPT !.dirty = @ \union nodes]
flush_dirty_batch(d) == [d EXCEPT !.dirty = @ \union d.dirtyBatch, !.dirtyBatch = {}]

begin_mutation_batch(d) == [d EXCEPT !.depth = @ + 1]
(* Mutant: the batch ends without flushing its dirty nodes. *)
end_keeps_batch(d) == [d EXCEPT !.depth = @ - 1]
end_mutation_batch(d) ==
    IF d.depth = 0 THEN d
    ELSE IF d.depth > 1 THEN [d EXCEPT !.depth = @ - 1]
    ELSE [commit_pending_generations(flush_dirty_batch([d EXCEPT !.depth = 0]))
            EXCEPT !.moved = @ \union {"any"}]
take_dirty_nodes(d) ==
    [(IF d.depth = 0 THEN flush_dirty_batch(d) ELSE d) EXCEPT !.dirty = {}]

ChildList(n, plus, minus, previous, next) ==
    [target |-> n, type |-> "childList", added |-> plus, removed |-> minus,
     previous |-> previous, next |-> next]
Data(n, type) == [target |-> n, type |-> type, added |-> <<>>, removed |-> <<>>,
                  previous |-> NoNode, next |-> NoNode]

(* Only a connected target is observable, and a node added since the last   *)
(* take reports through the record that added it.                           *)
queue_mutation(d, r) ==
    IF ~d.recording \/ ~is_connected(d, r.target) THEN d
    ELSE [d EXCEPT !.added   = @ \union ToSet(r.added),
                   !.records = IF r.target \in d.added THEN @ ELSE Append(@, r)]

set_mutation_recording(d, on) ==
    IF on THEN [d EXCEPT !.recording = TRUE]
          ELSE [d EXCEPT !.recording = FALSE, !.records = <<>>, !.added = {}]
take_mutation_records(d) == [d EXCEPT !.records = <<>>, !.added = {}]

-----------------------------------------------------------------------------
(* The mutators. *)

(* Mutant: the climb forgets that a fragment may hang from a host. *)
validate_parents_only(d, parent, child) ==
    /\ Container(parent)
    /\ child \notin Climb(parent, d.parent)
validate_insertion(d, parent, child) ==
    /\ Container(parent)
    /\ child \notin HostInclusiveAncestors(d, parent)

PositionOf(s, x) == SelectInSeq(s, LAMBDA y : y = x)
(* Mutant: the sibling reported is the one at the position, not before it. *)
BeforeAt(s, i) == IF i \in DOMAIN s THEN s[i] ELSE NoNode
Before(s, i) == IF i > 1 THEN s[i - 1] ELSE NoNode
After(s, i) == IF i < Len(s) THEN s[i + 1] ELSE NoNode
Tail1(s) == IF s = <<>> THEN NoNode ELSE Last(s)

splice_fragment(d, parent, fragment, reference) ==
    LET moving == d.kids[fragment]
        row    == d.kids[parent]
        at     == IF reference = NoNode THEN Len(row) + 1 ELSE PositionOf(row, reference)
        spliced == [d EXCEPT
            !.kids[fragment] = <<>>,
            !.kids[parent]   = SubSeq(row, 1, at - 1) \o moving \o SubSeq(row, at, Len(row)),
            !.parent         = [n \in Node |-> IF Contains(moving, n) THEN parent ELSE @[n]]]
    IN  IF moving = <<>> THEN Done(d)
        ELSE IF \E n \in ToSet(moving) : ~validate_insertion(d, parent, n) THEN Fails(d)
        ELSE Done(queue_mutation(
                    queue_mutation(
                      mark_dirty(record_structure_change(spliced),
                                 ToSet(moving) \union {parent, fragment}),
                      ChildList(fragment, <<>>, moving, NoNode, NoNode)),
                    ChildList(parent, moving, <<>>, Before(row, at), reference)))

append_child(d, parent, child) ==
    IF ~validate_insertion(d, parent, child) THEN Fails(d)
    ELSE IF Kind[child] = "fragment" THEN splice_fragment(d, parent, child, NoNode)
    ELSE IF d.parent[child] # NoNode THEN Fails(d)
    ELSE Done(queue_mutation(
                mark_dirty(record_structure_change(
                    [d EXCEPT !.parent[child] = parent, !.kids[parent] = Append(@, child)]),
                  {parent, child}),
                ChildList(parent, <<child>>, <<>>, Tail1(d.kids[parent]), NoNode)))

remove_child(d, parent, child) ==
    LET row == d.kids[parent]
        at  == PositionOf(row, child)
    IN  IF ~Contains(row, child) THEN Fails(d)
        ELSE Done(queue_mutation(
                    mark_dirty(record_structure_change(
                        [d EXCEPT !.kids[parent] = RemoveAt(@, at), !.parent[child] = NoNode]),
                      {parent}),
                    ChildList(parent, <<>>, <<child>>, Before(row, at), After(row, at))))

Detached(d, child) ==
    IF d.parent[child] = NoNode THEN d ELSE remove_child(d, d.parent[child], child).dom

insert_before(d, parent, child, reference) ==
    LET gone == Detached(d, child)
        row  == gone.kids[parent]
        at   == PositionOf(row, reference)
    IN  IF ~validate_insertion(d, parent, child) \/ d.parent[reference] # parent THEN Fails(d)
        ELSE IF child = reference THEN Done(d)
        ELSE IF Kind[child] = "fragment" THEN splice_fragment(d, parent, child, reference)
        ELSE Done(queue_mutation(
                    mark_dirty(record_structure_change(
                        [gone EXCEPT !.parent[child] = parent,
                                     !.kids[parent] = InsertAt(@, at, child)]),
                      {parent, child}),
                    ChildList(parent, <<child>>, <<>>, Before(row, at), reference)))

(* Mutant: the child is detached before its destination is checked. *)
pre_insert_eager(d, parent, child, reference) ==
    IF reference # NoNode THEN insert_before(d, parent, child, reference)
    ELSE append_child(Detached(d, child), parent, child)
pre_insert(d, parent, child, reference) ==
    IF reference # NoNode THEN insert_before(d, parent, child, reference)
    ELSE IF ~validate_insertion(d, parent, child) THEN Fails(d)
    ELSE append_child(Detached(d, child), parent, child)

(* set_text_content: a text node is rewritten in place, a container loses   *)
(* its children to at most one fresh text (none when the text is empty).    *)
set_text_content(d, n, texts) ==
    LET old == d.kids[n]
        row == [d EXCEPT
            !.kids[n] = texts,
            !.parent  = [m \in Node |-> IF Contains(old, m) THEN NoNode
                                        ELSE IF Contains(texts, m) THEN n ELSE @[m]],
            !.fresh   = @ \ ToSet(texts)]
    IN  IF Kind[n] = "text"
        THEN Done(queue_mutation(mark_dirty(record_text_change([d EXCEPT !.version[n] = @ + 1]), {n}),
                                 Data(n, "characterData")))
        ELSE IF old = <<>> /\ texts = <<>> THEN Done(mark_dirty(d, {n}))
        ELSE Done(queue_mutation(mark_dirty(record_structure_change(row), {n} \union ToSet(texts)),
                                 ChildList(n, texts, old, NoNode, NoNode)))

(* set_attribute and remove_attribute of a present attribute: a write is a  *)
(* record even when the value is the one already there.                     *)
set_attribute(d, n) ==
    IF Kind[n] # "element" THEN Fails(d)
    ELSE Done(queue_mutation(mark_dirty(record_style_change([d EXCEPT !.version[n] = @ + 1]), {n}),
                             Data(n, "attributes")))

attach_shadow(d, n, root) ==
    IF Kind[n] # "element" \/ \E f \in DOMAIN d.host : d.host[f] = [node |-> n, by |-> "shadow"]
    THEN Fails(d)
    ELSE Done(record_structure_change(
                [d EXCEPT !.host  = [f \in DOMAIN @ \union {root} |->
                                        IF f = root THEN [node |-> n, by |-> "shadow"] ELSE @[f]],
                          !.fresh = @ \ {root}]))

(* import_subtree copies a parsed subtree, children first, so that the one  *)
(* append that reaches the destination is the one that can be recorded.     *)
import_subtree(d, top, below, parent) ==
    LET created == [d EXCEPT !.fresh = @ \ {top, below}]
    IN  append_child(append_child(created, top, below).dom, parent, top)
=============================================================================
