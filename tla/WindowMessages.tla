--------------------------- MODULE WindowMessages ---------------------------
(***************************************************************************)
(* postMessage between the documents of a page (WindowMessageHub in        *)
(* silksurf-js/src/boa_backend/window_messages.rs).  A frame is named by   *)
(* its parent's context and its owner element; its context comes into      *)
(* being when its document is built, is replaced when the frame navigates  *)
(* and goes when its last handle is dropped, before or after the new one   *)
(* is created.  Messages to a frame without a context wait in a bounded    *)
(* store.  Every operation holds the hub's mutex.                          *)
(***************************************************************************)
EXTENDS Lists

CONSTANTS
  Origins,           \* serialised tuple origins
  Owners,            \* owner elements of frames, in every document
  MaxFrameMessages,  \* MAX_PENDING_FRAME_MESSAGES
  MaxFrameTargets,   \* MAX_PENDING_FRAME_TARGETS
  MaxTotalMessages,  \* MAX_PENDING_TOTAL_FRAME_MESSAGES
  MaxContexts,       \* model bound: contexts created
  MaxPosts           \* model bound: messages posted

ASSUME HubAssumption ==
  /\ MaxFrameMessages \in Nat /\ MaxFrameTargets \in Nat
  /\ MaxTotalMessages \in Nat
  /\ MaxContexts \in Nat /\ MaxPosts \in Nat
  /\ IsFiniteSet(Owners)

VARIABLES
  nextId,         \* MessageHubState::next_context_id
  origins,        \* the origin key of each context, NoKey when it is gone
  parents,        \* the frame each context was created for, or NoFrame
  frameContexts,  \* MessageHubState::frame_contexts
  pending,        \* MessageHubState::pending
  pendingFrames,  \* MessageHubState::pending_frames, an empty queue is absent
  posts,          \* history: messages posted, the number of the next one
  newest          \* history: the context created last for each frame

vars == <<nextId, origins, parents, frameContexts, pending, pendingFrames,
          posts, newest>>

Ids == 1..MaxContexts
NoContext == 0
Frames == Ids \X Owners
NoFrame == <<NoContext>>

-----------------------------------------------------------------------------
(***************************************************************************)
(* OriginKey: a tuple origin is its text, an opaque one the context's own. *)
(* MessageTargetOrigin: "*" or exactly one key.                            *)
(***************************************************************************)
Tuple(o) == [kind |-> "tuple", text |-> o, id |-> NoContext]
Opaque(id) == [kind |-> "opaque", text |-> "null", id |-> id]
NoKey == [kind |-> "none", text |-> "null", id |-> NoContext]
AnyOrigin == [kind |-> "any", text |-> "*", id |-> NoContext]

Keys == {Tuple(o) : o \in Origins} \cup {Opaque(id) : id \in Ids}
Message == [source : Ids, target : Keys \cup {AnyOrigin}, number : 1..MaxPosts]

Live(id) == origins[id] # NoKey

\* MessageTargetOrigin::matches
Matches(target, key) == target = AnyOrigin \/ target = key

\* parse_post_message_target_origin: "*", an origin, or the sender's own.
TargetsFrom(id) == {AnyOrigin, origins[id]} \cup {Tuple(o) : o \in Origins}

Init ==
  /\ nextId = 1
  /\ origins = [id \in Ids |-> NoKey]
  /\ parents = [id \in Ids |-> NoFrame]
  /\ frameContexts = [f \in Frames |-> NoContext]
  /\ pending = [id \in Ids |-> << >>]
  /\ pendingFrames = [f \in Frames |-> << >>]
  /\ posts = 0
  /\ newest = [f \in Frames |-> NoContext]

-----------------------------------------------------------------------------
\* create_context hands the new document the messages that waited for its
\* frame, except those meant for another origin.
HandOverAll(waiting, key) == waiting
HandOver(waiting, key) ==
  Retain(waiting, {m \in Message : Matches(m.target, key)})

CreateTop(key) ==
  /\ nextId \in Ids
  /\ key \in {Tuple(o) : o \in Origins} \cup {Opaque(nextId)}
  /\ nextId' = nextId + 1
  /\ origins' = [origins EXCEPT ![nextId] = key]
  /\ UNCHANGED <<parents, frameContexts, pending, pendingFrames, posts, newest>>

CreateFrame(f, key) ==
  /\ nextId \in Ids /\ Live(f[1])
  /\ key \in {Tuple(o) : o \in Origins} \cup {Opaque(nextId)}
  /\ nextId' = nextId + 1
  /\ origins' = [origins EXCEPT ![nextId] = key]
  /\ parents' = [parents EXCEPT ![nextId] = f]
  /\ frameContexts' = [frameContexts EXCEPT ![f] = nextId]
  /\ pending' = [pending EXCEPT ![nextId] = HandOver(pendingFrames[f], key)]
  /\ pendingFrames' = [pendingFrames EXCEPT ![f] = << >>]
  /\ newest' = [newest EXCEPT ![f] = nextId]
  /\ UNCHANGED posts

\* Drop for ContextRegistration: the mappings to and from the context go, and
\* so does what it sent.
ReleaseFrame(id, f) == f[1] = id \/ f = parents[id]
Release(id, f) == f[1] = id \/ frameContexts[f] = id

KeepsSent(id, queue) == queue
NotFrom(id, queue) == Retain(queue, {m \in Message : m.source # id})

DropContext(id) ==
  /\ Live(id)
  /\ origins' = [origins EXCEPT ![id] = NoKey]
  /\ parents' = [parents EXCEPT ![id] = NoFrame]
  /\ frameContexts' = [f \in Frames |->
       IF Release(id, f) THEN NoContext ELSE frameContexts[f]]
  /\ pending' = [c \in Ids |->
       IF c = id THEN << >> ELSE NotFrom(id, pending[c])]
  /\ pendingFrames' = [f \in Frames |->
       IF f[1] = id THEN << >> ELSE NotFrom(id, pendingFrames[f])]
  /\ UNCHANGED <<nextId, posts, newest>>

-----------------------------------------------------------------------------
Sent(id, target) == [source |-> id, target |-> target, number |-> posts + 1]

\* WindowMessageContext::post, to the sender itself, its parent, the top or
\* the source of an earlier message: any context created so far.
Enqueued(id, to, target) ==
  IF Live(to) /\ Matches(target, origins[to])
  THEN [pending EXCEPT ![to] = Append(@, Sent(id, target))]
  ELSE pending

Post(id, to, target) ==
  /\ Live(id) /\ posts < MaxPosts
  /\ to < nextId /\ target \in TargetsFrom(id)
  /\ pending' = Enqueued(id, to, target)
  /\ posts' = posts + 1
  /\ UNCHANGED <<nextId, origins, parents, frameContexts, pendingFrames, newest>>

Targeted == {f \in Frames : pendingFrames[f] # << >>}
Waiting == UNION {{f} \X (1..Len(pendingFrames[f])) : f \in Frames}
TotalPending == Cardinality(Waiting)

FullPerFrame(f) == Len(pendingFrames[f]) >= MaxFrameMessages

Full(f) ==
  \/ f \notin Targeted /\ Cardinality(Targeted) >= MaxFrameTargets
  \/ TotalPending >= MaxTotalMessages
  \/ Len(pendingFrames[f]) >= MaxFrameMessages

\* post_to_frame: to the frame's context, or else to the bounded store, or
\* else dropped.
Routed(id, f, target) ==
  \/ /\ frameContexts[f] # NoContext
     /\ pending' = Enqueued(id, frameContexts[f], target)
     /\ UNCHANGED pendingFrames
  \/ /\ frameContexts[f] = NoContext
     /\ pendingFrames' = IF Full(f) THEN pendingFrames
          ELSE [pendingFrames EXCEPT ![f] = Append(@, Sent(id, target))]
     /\ UNCHANGED pending

PostToFrame(id, owner, target) ==
  /\ Live(id) /\ posts < MaxPosts
  /\ target \in TargetsFrom(id)
  /\ Routed(id, <<id, owner>>, target)
  /\ posts' = posts + 1
  /\ UNCHANGED <<nextId, origins, parents, frameContexts, newest>>

\* deliver: the queue is taken whole and each message dispatched.  What the
\* handlers post goes behind it.
Deliver(id) ==
  /\ Live(id) /\ pending[id] # << >>
  /\ pending' = [pending EXCEPT ![id] = << >>]
  /\ UNCHANGED <<nextId, origins, parents, frameContexts, pendingFrames,
                 posts, newest>>

Next ==
  \/ \E key \in Keys : CreateTop(key) \/ \E f \in Frames : CreateFrame(f, key)
  \/ \E id \in Ids :
       \/ DropContext(id) \/ Deliver(id)
       \/ \E target \in Keys \cup {AnyOrigin} :
            \/ \E to \in Ids : Post(id, to, target)
            \/ \E owner \in Owners : PostToFrame(id, owner, target)

Spec == Init /\ [][Next]_vars

-----------------------------------------------------------------------------
(***************************************************************************)
(* Properties.                                                             *)
(***************************************************************************)

\* Type invariant; the store of waiting messages keeps its three bounds.
HubTypeOK ==
  /\ nextId \in 1..(MaxContexts + 1)
  /\ origins \in [Ids -> Keys \cup {NoKey}]
  /\ parents \in [Ids -> Frames \cup {NoFrame}]
  /\ frameContexts \in [Frames -> Ids \cup {NoContext}]
  /\ pending \in [Ids -> Seq(Message)]
  /\ pendingFrames \in [Frames -> Seq(Message)]
  /\ \A f \in Frames : Len(pendingFrames[f]) <= MaxFrameMessages
  /\ Cardinality(Targeted) <= MaxFrameTargets
  /\ TotalPending <= MaxTotalMessages
  /\ posts \in 0..MaxPosts
  /\ newest \in [Frames -> Ids \cup {NoContext}]

\* A document is only ever queued messages meant for its origin, those that
\* waited while its frame had another document or none included.
OnlyItsOrigin ==
  \A id \in Ids : \A i \in DOMAIN pending[id] :
    Live(id) /\ Matches(pending[id][i].target, origins[id])

\* A frame that navigates keeps receiving: its newest document, while it and
\* the parent live, is what the parent posts to, in whatever order the old
\* document's last handle goes, and nothing is left waiting for it.
FrameReachesNewest ==
  \A f \in Frames :
    Live(f[1]) /\ newest[f] # NoContext /\ Live(newest[f]) =>
      frameContexts[f] = newest[f] /\ pendingFrames[f] = << >>

\* AD-051: "The message hub releases a context's origin, pending queue, frame
\* mappings, and queued source messages when the final context handle drops."
ReleasesDropped ==
  \A id \in Ids : ~Live(id) =>
    /\ pending[id] = << >>
    /\ \A f \in Frames :
         /\ frameContexts[f] # id
         /\ f[1] = id => frameContexts[f] = NoContext /\ pendingFrames[f] = << >>
         /\ \A i \in DOMAIN pendingFrames[f] : pendingFrames[f][i].source # id
    /\ \A c \in Ids : \A i \in DOMAIN pending[c] : pending[c][i].source # id

\* The five maps of the hub agree: bounded, rid of the documents that are gone,
\* and each frame known by its newest document.
HubInv == HubTypeOK /\ ReleasesDropped /\ FrameReachesNewest
=============================================================================
