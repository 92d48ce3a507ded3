---------------------------- MODULE PageEventsProofs ----------------------------
(***************************************************************************)
(* Proofs about what a page's documents hear.                              *)
(*                                                                         *)
(* WindowMessages, for every set of origins, every finite set of owners    *)
(* and every bound of the store: the three properties support one another. *)
(* A frame's new document finds no message queued under its fresh id       *)
(* because a context that is not live is named nowhere, and the bounds     *)
(* survive a drop because retain only shortens queues.  What they need     *)
(* besides is that ids are never reused (IdsInv).                          *)
(*                                                                         *)
(* EventDispatch, for every document, every set of calls a script may make *)
(* and every bound: what a frame of the stack may rely on (FrameOK)        *)
(* although the listener it is calling changes the lists, the tree and the *)
(* events, and dispatches again.  The frames do not depend on one another, *)
(* so each action is a lemma about one frame, carried over the stack.      *)
(***************************************************************************)
EXTENDS WindowMessages, EventDispatch, ListFacts

\* Ids are given out in order: every context known, live or not, has one
\* below nextId.
IdsInv ==
  /\ \A id \in Ids : Live(id) => id < nextId
  /\ \A f \in Frames : newest[f] # NoContext => newest[f] < nextId /\ f[1] < nextId

HubIInv == HubInv /\ OnlyItsOrigin /\ IdsInv

-----------------------------------------------------------------------------
(***************************************************************************)
(* The store of waiting messages and its size.                             *)
(***************************************************************************)
WaitingOf(p) == UNION {{f} \X (1..Len(p[f])) : f \in Frames}
TargetedOf(p) == {f \in Frames : p[f] # << >>}

LEMMA FramesFinite == IsFiniteSet(Frames)
<1>1. IsFiniteSet(Ids)
  BY HubAssumption, FS_Interval DEF Ids
<1> QED
  BY <1>1, HubAssumption, FS_Product DEF Frames

LEMMA WaitingFinite ==
  ASSUME NEW p \in [Frames -> Seq(Message)], NEW n \in Nat,
         \A f \in Frames : Len(p[f]) <= n
  PROVE  IsFiniteSet(WaitingOf(p)) /\ IsFiniteSet(TargetedOf(p))
<1>1. IsFiniteSet(1..n)
  BY FS_Interval
<1>2. IsFiniteSet(Frames \X (1..n))
  BY <1>1, FramesFinite, FS_Product
<1>3. WaitingOf(p) \subseteq Frames \X (1..n)
  <2>1. \A f \in Frames : 1..Len(p[f]) \subseteq 1..n
    OBVIOUS
  <2> QED
    BY <2>1 DEF WaitingOf
<1>4. TargetedOf(p) \subseteq Frames
  BY DEF TargetedOf
<1> QED
  BY <1>2, <1>3, <1>4, FramesFinite, FS_Subset

\* Shorter queues wait less.
LEMMA WaitingShrinks ==
  ASSUME NEW p \in [Frames -> Seq(Message)], NEW q \in [Frames -> Seq(Message)],
         NEW n \in Nat, \A f \in Frames : Len(p[f]) <= n,
         \A f \in Frames : Len(q[f]) <= Len(p[f])
  PROVE  /\ Cardinality(WaitingOf(q)) <= Cardinality(WaitingOf(p))
         /\ Cardinality(TargetedOf(q)) <= Cardinality(TargetedOf(p))
<1>1. WaitingOf(q) \subseteq WaitingOf(p)
  <2>1. \A f \in Frames : 1..Len(q[f]) \subseteq 1..Len(p[f])
    OBVIOUS
  <2> QED
    BY <2>1 DEF WaitingOf
<1>2. TargetedOf(q) \subseteq TargetedOf(p)
  BY DEF TargetedOf
<1> QED
  BY <1>1, <1>2, WaitingFinite, FS_Subset

\* One more message waits, for frame g.
LEMMA WaitingGrows ==
  ASSUME NEW p \in [Frames -> Seq(Message)], NEW q \in [Frames -> Seq(Message)],
         NEW n \in Nat, \A f \in Frames : Len(p[f]) <= n,
         NEW g \in Frames, \A f \in Frames \ {g} : q[f] = p[f],
         Len(q[g]) = Len(p[g]) + 1
  PROVE  /\ Cardinality(WaitingOf(q)) <= Cardinality(WaitingOf(p)) + 1
         /\ g \in TargetedOf(p) => Cardinality(TargetedOf(q)) <= Cardinality(TargetedOf(p))
         /\ Cardinality(TargetedOf(q)) <= Cardinality(TargetedOf(p)) + 1
<1> DEFINE w == <<g, Len(p[g]) + 1>>
<1>1. WaitingOf(q) \subseteq WaitingOf(p) \cup {w}
  <2> SUFFICES ASSUME NEW f \in Frames, NEW i \in 1..Len(q[f])
               PROVE  <<f, i>> \in WaitingOf(p) \cup {w}
    BY DEF WaitingOf
  <2>1. i \in 1..Len(p[f]) \/ (f = g /\ i = Len(p[g]) + 1)
    OBVIOUS
  <2> QED
    BY <2>1 DEF WaitingOf
<1>2. TargetedOf(q) \subseteq TargetedOf(p) \cup {g}
  BY DEF TargetedOf
<1> HIDE DEF w
<1>3. /\ IsFiniteSet(WaitingOf(p)) /\ IsFiniteSet(TargetedOf(p))
      /\ Cardinality(WaitingOf(p)) \in Nat /\ Cardinality(TargetedOf(p)) \in Nat
  BY WaitingFinite, FS_CardinalityType
<1>4. /\ IsFiniteSet(WaitingOf(p) \cup {w})
      /\ \/ Cardinality(WaitingOf(p) \cup {w}) = Cardinality(WaitingOf(p))
         \/ Cardinality(WaitingOf(p) \cup {w}) = Cardinality(WaitingOf(p)) + 1
  BY <1>3, FS_AddElement
<1>5. /\ IsFiniteSet(TargetedOf(p) \cup {g})
      /\ \/ Cardinality(TargetedOf(p) \cup {g}) = Cardinality(TargetedOf(p))
         \/ Cardinality(TargetedOf(p) \cup {g}) = Cardinality(TargetedOf(p)) + 1
  BY <1>3, FS_AddElement
<1>6. /\ Cardinality(WaitingOf(q)) <= Cardinality(WaitingOf(p) \cup {w})
      /\ Cardinality(TargetedOf(q)) <= Cardinality(TargetedOf(p) \cup {g})
      /\ Cardinality(WaitingOf(q)) \in Nat /\ Cardinality(TargetedOf(q)) \in Nat
  <2>1. IsFiniteSet(WaitingOf(q)) /\ Cardinality(WaitingOf(q)) <= Cardinality(WaitingOf(p) \cup {w})
    BY <1>1, <1>4, FS_Subset
  <2>2. IsFiniteSet(TargetedOf(q)) /\ Cardinality(TargetedOf(q)) <= Cardinality(TargetedOf(p) \cup {g})
    BY <1>2, <1>5, FS_Subset
  <2> QED
    BY <2>1, <2>2, FS_CardinalityType
<1>7. g \in TargetedOf(p) => TargetedOf(p) \cup {g} = TargetedOf(p)
  OBVIOUS
<1>8. Cardinality(WaitingOf(q)) <= Cardinality(WaitingOf(p)) + 1
  BY <1>3, <1>4, <1>6
<1>9. Cardinality(TargetedOf(q)) <= Cardinality(TargetedOf(p)) + 1
  BY <1>3, <1>5, <1>6
<1>10. g \in TargetedOf(p) => Cardinality(TargetedOf(q)) <= Cardinality(TargetedOf(p))
  BY <1>6, <1>7, Zenon
<1> QED
  BY <1>8, <1>9, <1>10

\* What create_context hands over, and what a dropped source leaves behind.
LEMMA HandOverFacts ==
  ASSUME NEW q \in Seq(Message), NEW key
  PROVE  /\ HandOver(q, key) \in Seq(Message)
         /\ \A j \in 1..Len(HandOver(q, key)) :
              /\ Matches(HandOver(q, key)[j].target, key)
              /\ \E i \in 1..Len(q) : HandOver(q, key)[j] = q[i]
<1>0. PICK S : S = {m \in Message : Matches(m.target, key)}
  OBVIOUS
<1> DEFINE r == Retain(q, S)
<1>1. HandOver(q, key) = r
  BY <1>0 DEF HandOver
<1>2. /\ r \in Seq(Message)
      /\ \A j \in 1..Len(r) : r[j] \in S /\ \E i \in 1..Len(q) : r[j] = q[i]
  BY RetainFacts
<1> HIDE DEF r
<1> QED
  BY <1>0, <1>1, <1>2

LEMMA NotFromFacts ==
  ASSUME NEW q \in Seq(Message), NEW id
  PROVE  /\ NotFrom(id, q) \in Seq(Message) /\ Len(NotFrom(id, q)) <= Len(q)
         /\ q = << >> => NotFrom(id, q) = << >>
         /\ \A j \in 1..Len(NotFrom(id, q)) :
              /\ NotFrom(id, q)[j].source # id
              /\ \E i \in 1..Len(q) : NotFrom(id, q)[j] = q[i]
<1>0. PICK S : S = {m \in Message : m.source # id}
  OBVIOUS
<1> DEFINE r == Retain(q, S)
<1>1. NotFrom(id, q) = r
  BY <1>0 DEF NotFrom
<1>2. /\ r \in Seq(Message) /\ Len(r) <= Len(q)
      /\ \A j \in 1..Len(r) : r[j] \in S /\ \E i \in 1..Len(q) : r[j] = q[i]
  BY RetainFacts
<1> HIDE DEF r
<1>3. q = << >> => r = << >>
  BY <1>2
<1> QED
  BY <1>0, <1>1, <1>2, <1>3

LEMMA EmptyQueue == << >> \in Seq(Message) /\ Len(<< >>) = 0 /\ 1..Len(<< >>) = {}
OBVIOUS

\* The three bounds of the store, of any queues.
Bounded(p) ==
  /\ \A f \in Frames : Len(p[f]) <= MaxFrameMessages
  /\ Cardinality(TargetedOf(p)) <= MaxFrameTargets
  /\ Cardinality(WaitingOf(p)) <= MaxTotalMessages

LEMMA BoundedShrinks ==
  ASSUME NEW p \in [Frames -> Seq(Message)], NEW q \in [Frames -> Seq(Message)],
         Bounded(p), \A f \in Frames : Len(q[f]) <= Len(p[f])
  PROVE  Bounded(q)
<1>1. \A f \in Frames : Len(q[f]) <= MaxFrameMessages
  BY HubAssumption DEF Bounded
<1>2. /\ Cardinality(WaitingOf(q)) <= Cardinality(WaitingOf(p))
      /\ Cardinality(TargetedOf(q)) <= Cardinality(TargetedOf(p))
  BY HubAssumption, WaitingShrinks DEF Bounded
<1>3. /\ Cardinality(WaitingOf(q)) \in Nat /\ Cardinality(TargetedOf(q)) \in Nat
      /\ Cardinality(WaitingOf(p)) \in Nat /\ Cardinality(TargetedOf(p)) \in Nat
  <2>1. /\ IsFiniteSet(WaitingOf(p)) /\ IsFiniteSet(TargetedOf(p))
        /\ IsFiniteSet(WaitingOf(q)) /\ IsFiniteSet(TargetedOf(q))
    BY <1>1, HubAssumption, WaitingFinite DEF Bounded
  <2> QED
    BY <2>1, FS_CardinalityType
<1> QED
  BY <1>1, <1>2, <1>3, HubAssumption DEF Bounded

\* A frame the store has room for may have one message more.
LEMMA BoundedGrows ==
  ASSUME NEW p \in [Frames -> Seq(Message)], NEW q \in [Frames -> Seq(Message)],
         Bounded(p), NEW g \in Frames, \A f \in Frames \ {g} : q[f] = p[f],
         Len(q[g]) = Len(p[g]) + 1, Len(p[g]) < MaxFrameMessages,
         Cardinality(WaitingOf(p)) < MaxTotalMessages,
         g \in TargetedOf(p) \/ Cardinality(TargetedOf(p)) < MaxFrameTargets
  PROVE  Bounded(q)
<1>1. ASSUME NEW f \in Frames PROVE Len(q[f]) <= MaxFrameMessages
  <2>1. CASE f = g
    BY <2>1, HubAssumption
  <2>2. CASE f # g
    BY <2>2 DEF Bounded
  <2> QED
    BY <2>1, <2>2
<1>2. /\ Cardinality(WaitingOf(q)) <= Cardinality(WaitingOf(p)) + 1
      /\ g \in TargetedOf(p) => Cardinality(TargetedOf(q)) <= Cardinality(TargetedOf(p))
      /\ Cardinality(TargetedOf(q)) <= Cardinality(TargetedOf(p)) + 1
  BY HubAssumption, WaitingGrows DEF Bounded
<1>3. /\ Cardinality(WaitingOf(q)) \in Nat /\ Cardinality(TargetedOf(q)) \in Nat
      /\ Cardinality(WaitingOf(p)) \in Nat /\ Cardinality(TargetedOf(p)) \in Nat
  <2>1. /\ IsFiniteSet(WaitingOf(p)) /\ IsFiniteSet(TargetedOf(p))
        /\ IsFiniteSet(WaitingOf(q)) /\ IsFiniteSet(TargetedOf(q))
    BY <1>1, HubAssumption, WaitingFinite DEF Bounded
  <2> QED
    BY <2>1, FS_CardinalityType
<1>4. Cardinality(WaitingOf(q)) <= MaxTotalMessages
  BY <1>2, <1>3, HubAssumption
<1>5. Cardinality(TargetedOf(q)) <= MaxFrameTargets
  BY <1>2, <1>3, HubAssumption DEF Bounded
<1> QED
  BY <1>1, <1>4, <1>5 DEF Bounded

\* The store is empty at the start.
LEMMA BoundedEmpty ==
  ASSUME NEW p \in [Frames -> Seq(Message)], \A f \in Frames : p[f] = << >>
  PROVE  Bounded(p)
<1>1. WaitingOf(p) = {} /\ TargetedOf(p) = {}
  <2>1. \A f \in Frames : 1..Len(p[f]) = {}
    OBVIOUS
  <2> QED
    BY <2>1 DEF WaitingOf, TargetedOf
<1> QED
  BY <1>1, FS_EmptySet, HubAssumption DEF Bounded

LEMMA KeyFacts ==
  ASSUME NEW id \in Ids, NEW key \in {Tuple(o) : o \in Origins} \cup {Opaque(id)}
  PROVE  key \in Keys /\ key # NoKey
BY DEF Keys, Tuple, Opaque, NoKey

\* HubTypeOK, with its bounds named.
Shape ==
  /\ nextId \in 1..(MaxContexts + 1)
  /\ origins \in [Ids -> Keys \cup {NoKey}]
  /\ parents \in [Ids -> Frames \cup {NoFrame}]
  /\ frameContexts \in [Frames -> Ids \cup {NoContext}]
  /\ pending \in [Ids -> Seq(Message)]
  /\ pendingFrames \in [Frames -> Seq(Message)]
  /\ posts \in 0..MaxPosts
  /\ newest \in [Frames -> Ids \cup {NoContext}]

LEMMA ShapeAndBounds == HubTypeOK <=> Shape /\ Bounded(pendingFrames)
BY DEF HubTypeOK, Shape, Bounded, Targeted, TargetedOf, TotalPending, Waiting, WaitingOf

-----------------------------------------------------------------------------
(***************************************************************************)
(* Each operation of the hub keeps the invariant.                          *)
(***************************************************************************)
LEMMA InitHolds == Init => HubIInv
<1> SUFFICES ASSUME Init PROVE HubIInv
  OBVIOUS
<1>1. Shape
  <2>1. << >> \in Seq(Message)
    OBVIOUS
  <2> QED
    BY <2>1, HubAssumption DEF Init, Shape, Ids, NoContext
<1>2. Bounded(pendingFrames)
  BY <1>1, BoundedEmpty DEF Init, Shape
<1>3. ReleasesDropped /\ FrameReachesNewest
  BY DEF Init, ReleasesDropped, FrameReachesNewest, Ids, NoContext
<1>4. OnlyItsOrigin /\ IdsInv
  BY DEF Init, OnlyItsOrigin, IdsInv, Live
<1> QED
  BY <1>1, <1>2, <1>3, <1>4, ShapeAndBounds DEF HubIInv, HubInv

LEMMA CreateTopKeeps ==
  ASSUME HubIInv, NEW key \in Keys, CreateTop(key)
  PROVE  HubIInv'
<1>1. Shape /\ Bounded(pendingFrames)
  BY ShapeAndBounds DEF HubIInv, HubInv
<1>2. nextId \in Ids /\ key # NoKey /\ nextId \in Nat /\ ~Live(nextId)
  BY <1>1, KeyFacts DEF CreateTop, HubIInv, IdsInv, Ids
<1>3. /\ origins'[nextId] = key /\ origins'[nextId] # NoKey
      /\ \A id \in Ids \ {nextId} : origins'[id] = origins[id]
  BY <1>1, <1>2 DEF CreateTop, Shape, Live
<1>4. Shape'
  BY <1>1, <1>2, HubAssumption DEF CreateTop, Shape, Ids
<1>5. Bounded(pendingFrames')
  BY <1>1 DEF CreateTop
<1>6. ReleasesDropped'
  BY <1>2, <1>3 DEF HubIInv, HubInv, ReleasesDropped, CreateTop, Live
<1>7. FrameReachesNewest'
  <2>1. \A f \in Frames : newest[f] # NoContext => newest[f] # nextId /\ f[1] # nextId
    BY <1>1 DEF HubIInv, IdsInv, Shape, Frames, Ids, NoContext
  <2>2. \A f \in Frames : f[1] \in Ids
    BY DEF Frames
  <2> QED
    BY <1>1, <1>3, <2>1, <2>2 DEF HubIInv, HubInv, FrameReachesNewest, CreateTop, Shape, Live
<1>8. OnlyItsOrigin'
  <2>1. pending[nextId] = << >>
    BY <1>2 DEF HubIInv, HubInv, ReleasesDropped
  <2> QED
    BY <1>2, <1>3, <2>1 DEF HubIInv, OnlyItsOrigin, CreateTop, Live
<1>9. IdsInv'
  BY <1>1, <1>2, <1>3 DEF HubIInv, IdsInv, CreateTop, Shape, Frames, Ids, NoContext, Live
<1>10. Shape' /\ Bounded(pendingFrames') => HubTypeOK'
  BY ShapeAndBounds DEF HubTypeOK, Shape, Bounded, Targeted, TargetedOf, TotalPending, Waiting, WaitingOf
<1> QED
  BY <1>4, <1>5, <1>6, <1>7, <1>8, <1>9, <1>10 DEF HubIInv, HubInv

LEMMA CreateFrameKeeps ==
  ASSUME HubIInv, NEW g \in Frames, NEW key \in Keys, CreateFrame(g, key)
  PROVE  HubIInv'
<1>1. Shape /\ Bounded(pendingFrames)
  BY ShapeAndBounds DEF HubIInv, HubInv
<1>2. nextId \in Ids /\ key # NoKey /\ nextId \in Nat /\ ~Live(nextId)
  BY <1>1, KeyFacts DEF CreateFrame, HubIInv, IdsInv, Ids
<1>3. /\ origins'[nextId] = key /\ origins'[nextId] # NoKey
      /\ \A id \in Ids \ {nextId} : origins'[id] = origins[id]
  BY <1>1, <1>2 DEF CreateFrame, Shape, Live
<1>A. PICK w \in Seq(Message) : w = pendingFrames[g]
  BY <1>1 DEF Shape
<1> DEFINE q == HandOver(w, key)
<1>4. /\ q \in Seq(Message)
      /\ \A j \in 1..Len(q) : /\ Matches(q[j].target, key)
                              /\ \E i \in 1..Len(w) : q[j] = w[i]
  BY HandOverFacts
<1>5. /\ pending'[nextId] = q /\ \A c \in Ids \ {nextId} : pending'[c] = pending[c]
      /\ pendingFrames'[g] = << >>
      /\ \A f \in Frames \ {g} : pendingFrames'[f] = pendingFrames[f]
      /\ frameContexts'[g] = nextId
      /\ \A f \in Frames \ {g} : frameContexts'[f] = frameContexts[f]
      /\ newest'[g] = nextId
      /\ \A f \in Frames \ {g} : newest'[f] = newest[f]
  BY <1>1, <1>2, <1>A DEF CreateFrame, Shape
<1>6. Shape'
  <2>1. << >> \in Seq(Message)
    OBVIOUS
  <2>2. nextId' \in 1..(MaxContexts + 1)
    BY <1>2, HubAssumption DEF CreateFrame, Ids
  <2>3. origins' \in [Ids -> Keys \cup {NoKey}] /\ parents' \in [Ids -> Frames \cup {NoFrame}]
    BY <1>1 DEF CreateFrame, Shape
  <2>4. frameContexts' \in [Frames -> Ids \cup {NoContext}] /\ newest' \in [Frames -> Ids \cup {NoContext}]
    BY <1>1, <1>2 DEF CreateFrame, Shape
  <2>5. pending' \in [Ids -> Seq(Message)] /\ pendingFrames' \in [Frames -> Seq(Message)]
    BY <1>1, <1>4, <1>A, <2>1 DEF CreateFrame, Shape
  <2> QED
    BY <1>1, <2>2, <2>3, <2>4, <2>5 DEF CreateFrame, Shape
<1>7. Bounded(pendingFrames')
  <2>1. \A f \in Frames : Len(pendingFrames'[f]) <= Len(pendingFrames[f])
    <3>1. Len(pendingFrames'[g]) = 0 /\ Len(pendingFrames[g]) \in Nat
      BY <1>1, <1>5 DEF Shape
    <3>2. \A f \in Frames : Len(pendingFrames[f]) \in Nat
      BY <1>1 DEF Shape
    <3> QED
      BY <1>5, <3>1, <3>2
  <2> QED
    BY <1>1, <1>6, <2>1, BoundedShrinks DEF Shape
<1> HIDE DEF q
<1>8. ReleasesDropped'
  <2> SUFFICES ASSUME NEW id \in Ids, origins'[id] = NoKey
               PROVE  /\ pending'[id] = << >>
                      /\ \A f \in Frames :
                           /\ frameContexts'[f] # id
                           /\ f[1] = id => frameContexts'[f] = NoContext /\ pendingFrames'[f] = << >>
                           /\ \A i \in DOMAIN pendingFrames'[f] : pendingFrames'[f][i].source # id
                      /\ \A c \in Ids : \A i \in DOMAIN pending'[c] : pending'[c][i].source # id
    BY DEF ReleasesDropped, Live
  <2>1. id # nextId /\ ~Live(id)
    BY <1>3 DEF Live
  <2>2. /\ pending[id] = << >>
        /\ \A f \in Frames :
             /\ frameContexts[f] # id
             /\ f[1] = id => frameContexts[f] = NoContext /\ pendingFrames[f] = << >>
             /\ \A i \in DOMAIN pendingFrames[f] : pendingFrames[f][i].source # id
        /\ \A c \in Ids : \A i \in DOMAIN pending[c] : pending[c][i].source # id
    BY <2>1 DEF HubIInv, HubInv, ReleasesDropped
  <2>3. g[1] # id
    BY <2>1 DEF CreateFrame, Live
  <2>4. \A f \in Frames :
             /\ frameContexts'[f] # id
             /\ f[1] = id => frameContexts'[f] = NoContext /\ pendingFrames'[f] = << >>
    BY <1>5, <2>1, <2>2, <2>3
  <2>5. \A f \in Frames : \A i \in DOMAIN pendingFrames'[f] : pendingFrames'[f][i].source # id
    BY <1>5, <2>2
  <2>6. \A i \in DOMAIN q : q[i].source # id
    <3>1. DOMAIN q = 1..Len(q) /\ DOMAIN pendingFrames[g] = 1..Len(pendingFrames[g])
      BY <1>1, <1>4 DEF Shape
    <3> QED
      BY <1>4, <1>A, <2>2, <3>1
  <2> QED
    BY <1>5, <2>1, <2>2, <2>4, <2>5, <2>6
<1>9. FrameReachesNewest'
  <2>1. \A f \in Frames : newest[f] # NoContext => newest[f] # nextId /\ f[1] # nextId
    BY <1>1 DEF HubIInv, IdsInv, Shape, Frames, Ids, NoContext
  <2>2. \A f \in Frames : f[1] \in Ids
    BY DEF Frames
  <2>3. ASSUME NEW f \in Frames, f # g, origins'[f[1]] # NoKey, newest'[f] # NoContext,
               origins'[newest'[f]] # NoKey
        PROVE  frameContexts'[f] = newest'[f] /\ pendingFrames'[f] = << >>
    <3>1. newest'[f] = newest[f] /\ newest[f] \in Ids
      BY <1>1, <1>5, <2>3 DEF Shape
    <3>2. Live(f[1]) /\ Live(newest[f])
      BY <1>3, <2>1, <2>2, <2>3, <3>1 DEF Live
    <3> QED
      BY <1>5, <2>3, <3>1, <3>2 DEF HubIInv, HubInv, FrameReachesNewest
  <2> QED
    BY <1>5, <2>3 DEF FrameReachesNewest, Live
<1>10. OnlyItsOrigin'
  <2>1. \A i \in DOMAIN q : Matches(q[i].target, key)
    <3>1. DOMAIN q = 1..Len(q)
      BY <1>4
    <3> QED
      BY <1>4, <3>1
  <2> QED
    BY <1>2, <1>3, <1>5, <2>1 DEF HubIInv, OnlyItsOrigin, Live
<1>11. IdsInv'
  <2>1. nextId' = nextId + 1 /\ Live(g[1]) /\ g[1] \in Ids
    BY DEF CreateFrame, Frames
  <2>2. \A id \in Ids : origins'[id] # NoKey => id < nextId'
    BY <1>2, <1>3, <2>1 DEF HubIInv, IdsInv, Ids, Live
  <2>3. \A f \in Frames : newest'[f] # NoContext => newest'[f] < nextId' /\ f[1] < nextId'
    <3>1. newest'[g] < nextId' /\ g[1] < nextId'
      BY <1>2, <1>5, <2>1 DEF HubIInv, IdsInv, Ids
    <3>2. \A f \in Frames \ {g} : newest'[f] # NoContext => newest'[f] < nextId' /\ f[1] < nextId'
      BY <1>1, <1>2, <1>5, <2>1 DEF HubIInv, IdsInv, Shape, Frames, Ids, NoContext
    <3> QED
      BY <3>1, <3>2
  <2> QED
    BY <2>2, <2>3 DEF IdsInv, Live
<1>12. Shape' /\ Bounded(pendingFrames') => HubTypeOK'
  BY DEF HubTypeOK, Shape, Bounded, Targeted, TargetedOf, TotalPending, Waiting, WaitingOf
<1> QED
  BY <1>6, <1>7, <1>8, <1>9, <1>10, <1>11, <1>12 DEF HubIInv, HubInv

LEMMA DropContextKeeps ==
  ASSUME HubIInv, NEW d \in Ids, DropContext(d)
  PROVE  HubIInv'
<1>1. Shape /\ Bounded(pendingFrames)
  BY ShapeAndBounds DEF HubIInv, HubInv
<1>2. /\ origins'[d] = NoKey /\ origins[d] # NoKey
      /\ \A id \in Ids \ {d} : origins'[id] = origins[id]
  BY <1>1 DEF DropContext, Shape, Live
<1>3. /\ \A f \in Frames : frameContexts'[f] = IF Release(d, f) THEN NoContext ELSE frameContexts[f]
      /\ pending'[d] = << >>
      /\ \A c \in Ids \ {d} : pending'[c] = NotFrom(d, pending[c])
      /\ \A f \in Frames : f[1] = d => pendingFrames'[f] = << >>
      /\ \A f \in Frames : f[1] # d => pendingFrames'[f] = NotFrom(d, pendingFrames[f])
      /\ newest' = newest /\ nextId' = nextId
  BY DEF DropContext
<1>4. ASSUME NEW c \in Ids
      PROVE  /\ pending'[c] \in Seq(Message)
             /\ pending[c] = << >> => pending'[c] = << >>
             /\ \A j \in 1..Len(pending'[c]) :
                  /\ pending'[c][j].source # d /\ c # d
                  /\ \E i \in 1..Len(pending[c]) : pending'[c][j] = pending[c][i]
  <2>1. PICK w \in Seq(Message) : w = pending[c]
    BY <1>1 DEF Shape
  <2>2. CASE c = d
    <3>1. pending'[c] \in Seq(Message) /\ 1..Len(pending'[c]) = {} /\ pending'[c] = << >>
      BY <1>3, <2>2, EmptyQueue, Zenon
    <3> QED
      BY <3>1
  <2>3. CASE c # d
    <3>1. pending'[c] = NotFrom(d, w)
      BY <1>3, <2>1, <2>3
    <3>2. /\ NotFrom(d, w) \in Seq(Message)
          /\ w = << >> => NotFrom(d, w) = << >>
          /\ \A j \in 1..Len(NotFrom(d, w)) :
               /\ NotFrom(d, w)[j].source # d
               /\ \E i \in 1..Len(w) : NotFrom(d, w)[j] = w[i]
      BY NotFromFacts
    <3>3. PICK v : v = NotFrom(d, w)
      OBVIOUS
    <3>4. /\ v \in Seq(Message)
          /\ w = << >> => v = << >>
          /\ \A j \in 1..Len(v) : v[j].source # d /\ \E i \in 1..Len(w) : v[j] = w[i]
      BY <3>2, <3>3
    <3>5. pending'[c] = v /\ pending[c] = w
      BY <2>1, <3>1, <3>3
    <3> QED
      BY <2>3, <3>4, <3>5, Zenon
  <2> QED
    BY <2>2, <2>3
<1>5. ASSUME NEW f \in Frames
      PROVE  /\ pendingFrames'[f] \in Seq(Message)
             /\ Len(pendingFrames'[f]) <= Len(pendingFrames[f])
             /\ pendingFrames[f] = << >> => pendingFrames'[f] = << >>
             /\ \A j \in 1..Len(pendingFrames'[f]) :
                  /\ pendingFrames'[f][j].source # d
                  /\ \E i \in 1..Len(pendingFrames[f]) : pendingFrames'[f][j] = pendingFrames[f][i]
  <2>1. PICK w \in Seq(Message) : w = pendingFrames[f]
    BY <1>1 DEF Shape
  <2>2. CASE f[1] = d
    <3>1. /\ pendingFrames'[f] \in Seq(Message) /\ 1..Len(pendingFrames'[f]) = {}
          /\ Len(pendingFrames'[f]) = 0 /\ pendingFrames'[f] = << >>
      BY <1>3, <2>2, EmptyQueue, Zenon
    <3>2. Len(w) \in Nat
      OBVIOUS
    <3> QED
      BY <2>1, <3>1, <3>2
  <2>3. CASE f[1] # d
    <3>1. pendingFrames'[f] = NotFrom(d, w)
      BY <1>3, <2>1, <2>3
    <3>2. /\ NotFrom(d, w) \in Seq(Message) /\ Len(NotFrom(d, w)) <= Len(w)
          /\ w = << >> => NotFrom(d, w) = << >>
          /\ \A j \in 1..Len(NotFrom(d, w)) :
               /\ NotFrom(d, w)[j].source # d
               /\ \E i \in 1..Len(w) : NotFrom(d, w)[j] = w[i]
      BY NotFromFacts
    <3> QED
      BY <2>1, <3>1, <3>2
  <2> QED
    BY <2>2, <2>3
<1>6. Shape'
  <2>1. origins' \in [Ids -> Keys \cup {NoKey}] /\ parents' \in [Ids -> Frames \cup {NoFrame}]
    BY <1>1 DEF DropContext, Shape
  <2>2. frameContexts' \in [Frames -> Ids \cup {NoContext}]
    BY <1>1 DEF DropContext, Shape
  <2>3. pending' \in [Ids -> Seq(Message)]
    <3>1. pending' = [c \in Ids |-> pending'[c]]
      BY DEF DropContext
    <3> QED
      BY <1>4, <3>1
  <2>4. pendingFrames' \in [Frames -> Seq(Message)]
    <3>1. pendingFrames' = [f \in Frames |-> pendingFrames'[f]]
      BY DEF DropContext
    <3> QED
      BY <1>5, <3>1
  <2> QED
    BY <1>1, <2>1, <2>2, <2>3, <2>4 DEF DropContext, Shape
<1>7. Bounded(pendingFrames')
  BY <1>1, <1>5, <1>6, BoundedShrinks DEF Shape
<1>8. ReleasesDropped'
  <2> SUFFICES ASSUME NEW id \in Ids, origins'[id] = NoKey
               PROVE  /\ pending'[id] = << >>
                      /\ \A f \in Frames :
                           /\ frameContexts'[f] # id
                           /\ f[1] = id => frameContexts'[f] = NoContext /\ pendingFrames'[f] = << >>
                           /\ \A i \in DOMAIN pendingFrames'[f] : pendingFrames'[f][i].source # id
                      /\ \A c \in Ids : \A i \in DOMAIN pending'[c] : pending'[c][i].source # id
    BY DEF ReleasesDropped, Live
  <2>1. /\ \A f \in Frames : DOMAIN pendingFrames'[f] = 1..Len(pendingFrames'[f])
        /\ \A c \in Ids : DOMAIN pending'[c] = 1..Len(pending'[c])
    BY <1>6 DEF Shape
  <2>2. id # NoContext
    BY DEF Ids, NoContext
  <2>3. CASE id = d
    <3>1. \A f \in Frames : frameContexts'[f] # id
      BY <1>3, <2>2, <2>3 DEF Release
    <3>2. \A f \in Frames : f[1] = id => frameContexts'[f] = NoContext /\ pendingFrames'[f] = << >>
      BY <1>3, <2>3 DEF Release
    <3> QED
      BY <1>3, <1>4, <1>5, <2>1, <2>3, <3>1, <3>2
  <2>4. CASE id # d
    <3>1. /\ pending[id] = << >>
          /\ \A f \in Frames :
               /\ frameContexts[f] # id
               /\ f[1] = id => frameContexts[f] = NoContext /\ pendingFrames[f] = << >>
               /\ \A i \in DOMAIN pendingFrames[f] : pendingFrames[f][i].source # id
          /\ \A c \in Ids : \A i \in DOMAIN pending[c] : pending[c][i].source # id
      BY <1>2, <2>4 DEF HubIInv, HubInv, ReleasesDropped, Live
    <3>2. /\ \A f \in Frames : DOMAIN pendingFrames[f] = 1..Len(pendingFrames[f])
          /\ \A c \in Ids : DOMAIN pending[c] = 1..Len(pending[c])
      BY <1>1 DEF Shape
    <3>3. pending'[id] = << >>
      BY <1>4, <3>1
    <3>4. \A f \in Frames : frameContexts'[f] # id
      BY <1>3, <2>2, <3>1
    <3>5. \A f \in Frames : f[1] = id => frameContexts'[f] = NoContext /\ pendingFrames'[f] = << >>
      BY <1>3, <1>5, <3>1
    <3>6. \A f \in Frames : \A i \in DOMAIN pendingFrames'[f] : pendingFrames'[f][i].source # id
      <4> SUFFICES ASSUME NEW f \in Frames, NEW j \in 1..Len(pendingFrames'[f])
                   PROVE  pendingFrames'[f][j].source # id
        BY <2>1
      <4>1. PICK i \in 1..Len(pendingFrames[f]) : pendingFrames'[f][j] = pendingFrames[f][i]
        BY <1>5
      <4> QED
        BY <3>1, <3>2, <4>1
    <3>7. \A c \in Ids : \A i \in DOMAIN pending'[c] : pending'[c][i].source # id
      <4> SUFFICES ASSUME NEW c \in Ids, NEW j \in 1..Len(pending'[c])
                   PROVE  pending'[c][j].source # id
        BY <2>1
      <4>1. PICK i \in 1..Len(pending[c]) : pending'[c][j] = pending[c][i]
        BY <1>4
      <4> QED
        BY <3>1, <3>2, <4>1
    <3> QED
      BY <3>3, <3>4, <3>5, <3>6, <3>7
  <2> QED
    BY <2>3, <2>4
<1>9. FrameReachesNewest'
  <2> SUFFICES ASSUME NEW f \in Frames, origins'[f[1]] # NoKey, newest'[f] # NoContext,
                      origins'[newest'[f]] # NoKey
               PROVE  frameContexts'[f] = newest'[f] /\ pendingFrames'[f] = << >>
    BY DEF FrameReachesNewest, Live
  <2>1. f[1] \in Ids /\ newest[f] \in Ids /\ f[1] # d /\ newest[f] # d
    BY <1>1, <1>2, <1>3 DEF Frames, Shape
  <2>2. frameContexts[f] = newest[f] /\ pendingFrames[f] = << >>
    BY <1>2, <1>3, <2>1 DEF HubIInv, HubInv, FrameReachesNewest, Live
  <2> QED
    BY <1>3, <1>5, <2>1, <2>2 DEF Release
<1>10. OnlyItsOrigin'
  <2> SUFFICES ASSUME NEW id \in Ids, NEW j \in DOMAIN pending'[id]
               PROVE  origins'[id] # NoKey /\ Matches(pending'[id][j].target, origins'[id])
    BY DEF OnlyItsOrigin, Live
  <2>1. DOMAIN pending'[id] = 1..Len(pending'[id])
    BY <1>4
  <2>2. PICK i \in 1..Len(pending[id]) : pending'[id][j] = pending[id][i]
    BY <1>4, <2>1
  <2>3. id # d
    BY <1>4, <2>1
  <2>4. i \in DOMAIN pending[id]
    BY <1>1, <2>2 DEF Shape
  <2> QED
    BY <1>2, <2>2, <2>3, <2>4 DEF HubIInv, OnlyItsOrigin, Live
<1>11. IdsInv'
  BY <1>2, <1>3 DEF HubIInv, IdsInv, Live
<1>12. Shape' /\ Bounded(pendingFrames') => HubTypeOK'
  BY DEF HubTypeOK, Shape, Bounded, Targeted, TargetedOf, TotalPending, Waiting, WaitingOf
<1> QED
  BY <1>6, <1>7, <1>8, <1>9, <1>10, <1>11, <1>12 DEF HubIInv, HubInv

\* What any post leaves behind: each queue as it was, or with the message of a
\* live sender at its end.
LEMMA PostedKeeps ==
  ASSUME HubIInv, UNCHANGED <<nextId, origins, parents, frameContexts, newest>>,
         NEW m \in Message, Live(m.source),
         \A c \in Ids : \/ pending'[c] = pending[c]
                        \/ /\ Live(c) /\ Matches(m.target, origins[c])
                           /\ pending'[c] = Append(pending[c], m),
         \A f \in Frames : \/ pendingFrames'[f] = pendingFrames[f]
                           \/ /\ frameContexts[f] = NoContext /\ Live(f[1])
                              /\ pendingFrames'[f] = Append(pendingFrames[f], m)
  PROVE  ReleasesDropped' /\ FrameReachesNewest' /\ OnlyItsOrigin' /\ IdsInv'
<1>1. Shape
  BY ShapeAndBounds DEF HubIInv, HubInv
<1>2. ASSUME NEW q \in Seq(Message), NEW i \in DOMAIN Append(q, m)
      PROVE  Append(q, m)[i] = m \/ (i \in DOMAIN q /\ Append(q, m)[i] = q[i])
  OBVIOUS
<1>3. ASSUME NEW c \in Ids, NEW i \in DOMAIN pending'[c]
      PROVE  \/ i \in DOMAIN pending[c] /\ pending'[c][i] = pending[c][i]
             \/ Live(c) /\ Matches(m.target, origins[c]) /\ pending'[c][i] = m
  <2>1. pending[c] \in Seq(Message)
    BY <1>1 DEF Shape
  <2> QED
    BY <1>2, <2>1, Zenon
<1>4. ASSUME NEW f \in Frames, NEW i \in DOMAIN pendingFrames'[f]
      PROVE  \/ i \in DOMAIN pendingFrames[f] /\ pendingFrames'[f][i] = pendingFrames[f][i]
             \/ pendingFrames'[f][i] = m
  <2>1. pendingFrames[f] \in Seq(Message)
    BY <1>1 DEF Shape
  <2> QED
    BY <1>2, <2>1, Zenon
<1>5. ReleasesDropped'
  <2> SUFFICES ASSUME NEW id \in Ids, ~Live(id)
               PROVE  /\ pending'[id] = << >>
                      /\ \A f \in Frames :
                           /\ frameContexts[f] # id
                           /\ f[1] = id => frameContexts[f] = NoContext /\ pendingFrames'[f] = << >>
                           /\ \A i \in DOMAIN pendingFrames'[f] : pendingFrames'[f][i].source # id
                      /\ \A c \in Ids : \A i \in DOMAIN pending'[c] : pending'[c][i].source # id
    BY DEF ReleasesDropped, Live
  <2>1. /\ pending[id] = << >>
        /\ \A f \in Frames :
             /\ frameContexts[f] # id
             /\ f[1] = id => frameContexts[f] = NoContext /\ pendingFrames[f] = << >>
             /\ \A i \in DOMAIN pendingFrames[f] : pendingFrames[f][i].source # id
        /\ \A c \in Ids : \A i \in DOMAIN pending[c] : pending[c][i].source # id
    BY DEF HubIInv, HubInv, ReleasesDropped
  <2>2. m.source # id
    OBVIOUS
  <2>3. pending'[id] = << >>
    BY <2>1
  <2>4. \A f \in Frames : f[1] = id => pendingFrames'[f] = << >>
    BY <2>1
  <2>5. \A f \in Frames : \A i \in DOMAIN pendingFrames'[f] : pendingFrames'[f][i].source # id
    BY <1>4, <2>1, <2>2
  <2>6. \A c \in Ids : \A i \in DOMAIN pending'[c] : pending'[c][i].source # id
    BY <1>3, <2>1, <2>2
  <2> QED
    BY <2>1, <2>3, <2>4, <2>5, <2>6
<1>6. FrameReachesNewest'
  BY DEF HubIInv, HubInv, FrameReachesNewest, Live
<1>7. OnlyItsOrigin'
  BY <1>3 DEF HubIInv, OnlyItsOrigin, Live
<1>8. IdsInv'
  BY DEF HubIInv, IdsInv, Live
<1> QED
  BY <1>5, <1>6, <1>7, <1>8

LEMMA SentFacts ==
  ASSUME Shape, posts < MaxPosts, NEW id \in Ids, NEW target \in Keys \cup {AnyOrigin}
  PROVE  Sent(id, target) \in Message
BY HubAssumption DEF Shape, Sent, Message

\* What reaches the queue of a live context is meant for its origin.
LEMMA EnqueuedFacts ==
  ASSUME Shape, posts < MaxPosts, NEW id \in Ids, NEW to \in Ids,
         NEW target \in Keys \cup {AnyOrigin}, pending' = Enqueued(id, to, target)
  PROVE  /\ Sent(id, target) \in Message
         /\ pending' \in [Ids -> Seq(Message)]
         /\ \A c \in Ids : \/ pending'[c] = pending[c]
                           \/ /\ Live(c) /\ Matches(target, origins[c])
                              /\ pending'[c] = Append(pending[c], Sent(id, target))
<1>1. Sent(id, target) \in Message
  BY SentFacts
<1>2. PICK m \in Message : m = Sent(id, target)
  BY <1>1
<1>3. CASE Live(to) /\ Matches(target, origins[to])
  <2>1. pending' = [pending EXCEPT ![to] = Append(pending[to], m)]
    BY <1>2, <1>3 DEF Enqueued
  <2>2. Append(pending[to], m) \in Seq(Message)
    BY DEF Shape
  <2> QED
    BY <1>1, <1>2, <1>3, <2>1, <2>2 DEF Shape
<1>4. CASE ~(Live(to) /\ Matches(target, origins[to]))
  <2>1. pending' = pending
    BY <1>4 DEF Enqueued
  <2> QED
    BY <1>1, <2>1 DEF Shape
<1> QED
  BY <1>3, <1>4

LEMMA PostKeeps ==
  ASSUME HubIInv, NEW id \in Ids, NEW to \in Ids, NEW target \in Keys \cup {AnyOrigin},
         Post(id, to, target)
  PROVE  HubIInv'
<1>1. Shape /\ Bounded(pendingFrames)
  BY ShapeAndBounds DEF HubIInv, HubInv
<1>2. PICK m : m = Sent(id, target)
  OBVIOUS
<1>3. m.source = id /\ m.target = target
  BY <1>2 DEF Sent
<1>4. /\ m \in Message /\ pending' \in [Ids -> Seq(Message)]
      /\ \A c \in Ids : \/ pending'[c] = pending[c]
                        \/ /\ Live(c) /\ Matches(target, origins[c])
                           /\ pending'[c] = Append(pending[c], m)
  BY <1>1, <1>2, EnqueuedFacts DEF Post
<1>5. ReleasesDropped' /\ FrameReachesNewest' /\ OnlyItsOrigin' /\ IdsInv'
  BY <1>3, <1>4, PostedKeeps DEF Post
<1>6. HubTypeOK'
  BY <1>1, <1>4, HubAssumption
  DEF Post, Shape, Bounded, HubTypeOK, Targeted, TargetedOf, TotalPending, Waiting, WaitingOf
<1> QED
  BY <1>5, <1>6 DEF HubIInv, HubInv

LEMMA PostToFrameKeeps ==
  ASSUME HubIInv, NEW id \in Ids, NEW owner \in Owners, NEW target \in Keys \cup {AnyOrigin},
         PostToFrame(id, owner, target)
  PROVE  HubIInv'
<1>1. Shape /\ Bounded(pendingFrames)
  BY ShapeAndBounds DEF HubIInv, HubInv
<1>2. PICK m : m = Sent(id, target)
  OBVIOUS
<1>3. m \in Message /\ m.source = id /\ m.target = target
  <2>1. m \in Message
    BY <1>1, <1>2, SentFacts DEF PostToFrame
  <2>2. m.source = id /\ m.target = target
    BY <1>2 DEF Sent
  <2> QED
    BY <2>1, <2>2
<1>4. PICK f \in Frames : f = <<id, owner>> /\ f[1] = id
  <2>1. <<id, owner>> \in Frames
    BY DEF Frames
  <2>2. <<id, owner>>[1] = id
    OBVIOUS
  <2> QED
    BY <2>1, <2>2
<1>5. CASE frameContexts[f] # NoContext
  <2>1. frameContexts[f] \in Ids /\ pending' = Enqueued(id, frameContexts[f], target)
        /\ pendingFrames' = pendingFrames
    BY <1>1, <1>4, <1>5 DEF PostToFrame, Routed, Shape
  <2>2. /\ pending' \in [Ids -> Seq(Message)]
        /\ \A c \in Ids : \/ pending'[c] = pending[c]
                          \/ /\ Live(c) /\ Matches(target, origins[c])
                             /\ pending'[c] = Append(pending[c], m)
    BY <1>1, <1>2, <2>1, EnqueuedFacts DEF PostToFrame
  <2>3. ReleasesDropped' /\ FrameReachesNewest' /\ OnlyItsOrigin' /\ IdsInv'
    BY <1>3, <2>1, <2>2, PostedKeeps DEF PostToFrame
  <2>4. HubTypeOK'
    BY <1>1, <2>1, <2>2, HubAssumption
    DEF PostToFrame, Shape, Bounded, HubTypeOK, Targeted, TargetedOf, TotalPending, Waiting, WaitingOf
  <2> QED
    BY <2>3, <2>4 DEF HubIInv, HubInv
<1>6. CASE frameContexts[f] = NoContext
  <2>1. /\ pending' = pending
        /\ pendingFrames' = IF Full(f) THEN pendingFrames
             ELSE [pendingFrames EXCEPT ![f] = Append(pendingFrames[f], m)]
    BY <1>2, <1>4, <1>6 DEF PostToFrame, Routed
  <2>2. \A g \in Frames : \/ pendingFrames'[g] = pendingFrames[g]
                          \/ /\ frameContexts[g] = NoContext /\ Live(g[1])
                             /\ pendingFrames'[g] = Append(pendingFrames[g], m)
    BY <1>1, <1>4, <1>6, <2>1 DEF Shape, PostToFrame
  <2>3. ReleasesDropped' /\ FrameReachesNewest' /\ OnlyItsOrigin' /\ IdsInv'
    BY <1>3, <2>1, <2>2, PostedKeeps DEF PostToFrame
  <2>4. pendingFrames' \in [Frames -> Seq(Message)] /\ Bounded(pendingFrames')
    <3>1. CASE Full(f)
      BY <1>1, <2>1, <3>1 DEF Shape
    <3>2. CASE ~Full(f)
      <4>1. pendingFrames' = [pendingFrames EXCEPT ![f] = Append(pendingFrames[f], m)]
        BY <2>1, <3>2
      <4>2. pendingFrames[f] \in Seq(Message) /\ Append(pendingFrames[f], m) \in Seq(Message)
        BY <1>1, <1>3 DEF Shape
      <4>3. pendingFrames' \in [Frames -> Seq(Message)]
        BY <1>1, <4>1, <4>2 DEF Shape
      <4>4. /\ \A g \in Frames \ {f} : pendingFrames'[g] = pendingFrames[g]
            /\ pendingFrames'[f] = Append(pendingFrames[f], m)
        BY <1>1, <4>1 DEF Shape
      <4>5. /\ Len(pendingFrames'[f]) = Len(pendingFrames[f]) + 1
            /\ Len(pendingFrames[f]) \in Nat
        BY <4>2, <4>4
      <4>6. /\ Cardinality(WaitingOf(pendingFrames)) \in Nat
            /\ Cardinality(TargetedOf(pendingFrames)) \in Nat
        <5>1. IsFiniteSet(WaitingOf(pendingFrames)) /\ IsFiniteSet(TargetedOf(pendingFrames))
          BY <1>1, HubAssumption, WaitingFinite DEF Shape, Bounded
        <5> QED
          BY <5>1, FS_CardinalityType
      <4>7. Targeted = TargetedOf(pendingFrames) /\ TotalPending = Cardinality(WaitingOf(pendingFrames))
        BY DEF Targeted, TargetedOf, TotalPending, Waiting, WaitingOf
      <4>8. /\ Len(pendingFrames[f]) < MaxFrameMessages
            /\ Cardinality(WaitingOf(pendingFrames)) < MaxTotalMessages
            /\ f \in TargetedOf(pendingFrames) \/ Cardinality(TargetedOf(pendingFrames)) < MaxFrameTargets
        BY <3>2, <4>5, <4>6, <4>7, HubAssumption DEF Full
      <4>9. pendingFrames \in [Frames -> Seq(Message)]
        BY <1>1 DEF Shape
      <4> QED
        BY <1>1, <4>3, <4>4, <4>5, <4>8, <4>9, BoundedGrows
    <3> QED
      BY <3>1, <3>2
  <2>5. HubTypeOK'
    BY <1>1, <2>1, <2>4, HubAssumption
    DEF PostToFrame, Shape, Bounded, HubTypeOK, Targeted, TargetedOf, TotalPending, Waiting, WaitingOf
  <2> QED
    BY <2>3, <2>5 DEF HubIInv, HubInv
<1> QED
  BY <1>5, <1>6

LEMMA DeliverKeeps ==
  ASSUME HubIInv, NEW d \in Ids, Deliver(d)
  PROVE  HubIInv'
<1>1. Shape /\ Bounded(pendingFrames)
  BY ShapeAndBounds DEF HubIInv, HubInv
<1>2. /\ pending'[d] = << >> /\ \A c \in Ids \ {d} : pending'[c] = pending[c]
      /\ pending' \in [Ids -> Seq(Message)]
  BY <1>1, EmptyQueue DEF Deliver, Shape
<1>3. \A c \in Ids : pending'[c] = << >> \/ pending'[c] = pending[c]
  BY <1>2
<1>4. DOMAIN << >> = {}
  OBVIOUS
<1>5. ReleasesDropped'
  BY <1>3, <1>4 DEF HubIInv, HubInv, ReleasesDropped, Deliver, Live
<1>6. FrameReachesNewest'
  BY DEF HubIInv, HubInv, FrameReachesNewest, Deliver, Live
<1>7. OnlyItsOrigin'
  BY <1>3, <1>4 DEF HubIInv, OnlyItsOrigin, Deliver, Live
<1>8. IdsInv'
  BY DEF HubIInv, IdsInv, Deliver, Live
<1>9. HubTypeOK'
  BY <1>1, <1>2
  DEF Deliver, Shape, Bounded, HubTypeOK, Targeted, TargetedOf, TotalPending, Waiting, WaitingOf
<1> QED
  BY <1>5, <1>6, <1>7, <1>8, <1>9 DEF HubIInv, HubInv

\* A step that changes nothing keeps it too.
LEMMA StutterKeeps == HubIInv /\ UNCHANGED vars => HubIInv'
BY DEF vars, HubIInv, HubInv, HubTypeOK, ReleasesDropped, FrameReachesNewest, OnlyItsOrigin,
       IdsInv, Live, Targeted, TotalPending, Waiting

LEMMA HubInductive == Spec => []HubIInv
<1>1. HubIInv /\ [Next]_vars => HubIInv'
  <2> SUFFICES ASSUME HubIInv, [Next]_vars PROVE HubIInv'
    OBVIOUS
  <2>1. ASSUME NEW key \in Keys, CreateTop(key) PROVE HubIInv'
    BY <2>1, CreateTopKeeps
  <2>2. ASSUME NEW key \in Keys, NEW f \in Frames, CreateFrame(f, key) PROVE HubIInv'
    BY <2>2, CreateFrameKeeps
  <2>3. ASSUME NEW id \in Ids, DropContext(id) PROVE HubIInv'
    BY <2>3, DropContextKeeps
  <2>4. ASSUME NEW id \in Ids, Deliver(id) PROVE HubIInv'
    BY <2>4, DeliverKeeps
  <2>5. ASSUME NEW id \in Ids, NEW target \in Keys \cup {AnyOrigin}, NEW to \in Ids,
               Post(id, to, target)
        PROVE  HubIInv'
    BY <2>5, PostKeeps
  <2>6. ASSUME NEW id \in Ids, NEW target \in Keys \cup {AnyOrigin}, NEW owner \in Owners,
               PostToFrame(id, owner, target)
        PROVE  HubIInv'
    BY <2>6, PostToFrameKeeps
  <2>7. CASE UNCHANGED vars
    BY <2>7, StutterKeeps
  <2> QED
    BY <2>1, <2>2, <2>3, <2>4, <2>5, <2>6, <2>7 DEF Next
<1> QED
  BY <1>1, InitHolds, PTL DEF Spec

-----------------------------------------------------------------------------
(***************************************************************************)
(* Theorems.                                                               *)
(***************************************************************************)

\* The hub's store keeps its three bounds whatever a parent posts, nothing of
\* a document remains once its last handle is gone (Drop for
\* ContextRegistration), and a frame that navigated is known by its newest
\* document in whichever order the old one's handles went.
THEOREM HubStaysClean == Spec => []HubInv
<1>1. HubIInv => HubInv
  BY DEF HubIInv
<1> QED
  BY <1>1, HubInductive, PTL

\* No document is ever queued a message meant for another origin, whether it
\* was posted to its context or waited for its frame (post, post_to_frame and
\* create_context).
THEOREM NoOtherOriginHears == Spec => []OnlyItsOrigin
<1>1. HubIInv => OnlyItsOrigin
  BY DEF HubIInv
<1> QED
  BY <1>1, HubInductive, PTL

-----------------------------------------------------------------------------
(***************************************************************************)
(* The path of a dispatch.  The tree has no cycle, so a node is above      *)
(* itself nowhere and the path ends at a root.                             *)
(***************************************************************************)
\* A node lies deeper than its parent.
Deeper(par, depth) ==
  /\ par \in [Elements -> Elements \cup {NoTarget}] /\ depth \in [Elements -> Nat]
  /\ \A n \in Elements : par[n] # NoTarget => depth[par[n]] < depth[n]

\* No cycle: some depth grows on the way down.
TreeOK(par) == \E depth : Deeper(par, depth)

\* One more step up the tree.
Higher(q) == IF parent[Last(q)] = NoTarget THEN q ELSE Append(q, parent[Last(q)])

\* A path of k steps from n, or one that has reached a root.
Climb(q, n, k, depth) ==
  /\ q \in Seq(Elements) /\ Len(q) >= 1 /\ q[1] = n
  /\ \A i \in 1..Len(q) : i < Len(q) => parent[q[i]] = q[i + 1]
  /\ \A i, j \in 1..Len(q) : i < j => depth[q[j]] < depth[q[i]]
  /\ parent[Last(q)] = NoTarget \/ Len(q) = k + 1

\* A path of one node.
LEMMA ClimbStart ==
  ASSUME NEW n \in Elements, NEW depth PROVE Climb(<<n>>, n, 0, depth)
BY DEF Climb

\* One more step of a path: the depth falls, so no node repeats.
LEMMA ClimbStep ==
  ASSUME NEW n, NEW k \in Nat, NEW depth, Deeper(parent, depth), NEW q, Climb(q, n, k, depth)
  PROVE  Climb(Higher(q), n, k + 1, depth)
<1> DEFINE m == Len(q)
           e == parent[Last(q)]
<1>1. /\ q \in Seq(Elements) /\ m \in Nat /\ m >= 1 /\ q[1] = n
      /\ \A i \in 1..m : i < m => parent[q[i]] = q[i + 1]
      /\ \A i, j \in 1..m : i < j => depth[q[j]] < depth[q[i]]
      /\ \A i \in 1..m : q[i] \in Elements
      /\ Last(q) = q[m] /\ Last(q) \in Elements
  <2>1. /\ q \in Seq(Elements) /\ m >= 1 /\ q[1] = n
        /\ \A i \in 1..m : i < m => parent[q[i]] = q[i + 1]
        /\ \A i, j \in 1..m : i < j => depth[q[j]] < depth[q[i]]
    BY DEF Climb
  <2>2. m \in Nat /\ \A i \in 1..m : q[i] \in Elements
    BY <2>1, SeqElements
  <2>3. m \in 1..m
    BY <2>1, <2>2
  <2> QED
    BY <2>1, <2>2, <2>3 DEF Last
<1>2. CASE e = NoTarget
  BY <1>1, <1>2 DEF Higher, Climb
<1>3. CASE e # NoTarget
  <2>1. Higher(q) = Append(q, e) /\ m = k + 1
    BY <1>3 DEF Higher, Climb
  <2>2. e \in Elements /\ depth[e] < depth[q[m]] /\ depth \in [Elements -> Nat]
    BY <1>1, <1>3 DEF Deeper
  <2> DEFINE p == Append(q, e)
  <2>3. /\ p \in Seq(Elements) /\ Len(p) = m + 1 /\ p[m + 1] = e
        /\ \A i \in 1..m : p[i] = q[i]
    BY <1>1, <2>2
  <2>4. e = parent[q[m]]
    BY <1>1
  <2> HIDE DEF p, e, m
  <2>5. \A i \in 1..(m + 1) : i < m + 1 => parent[p[i]] = p[i + 1]
    <3> SUFFICES ASSUME NEW i \in 1..m PROVE parent[p[i]] = p[i + 1]
      BY <1>1
    <3>1. CASE i = m
      BY <1>1, <2>3, <2>4, <3>1
    <3>2. CASE i < m
      BY <1>1, <2>3, <3>2
    <3> QED
      BY <1>1, <3>1, <3>2
  <2>6. \A i, j \in 1..(m + 1) : i < j => depth[p[j]] < depth[p[i]]
    <3> SUFFICES ASSUME NEW i \in 1..m, NEW j \in 1..(m + 1), i < j PROVE depth[p[j]] < depth[p[i]]
      BY <1>1
    <3>1. CASE j \in 1..m
      BY <1>1, <2>3, <3>1
    <3>2. CASE j = m + 1
      <4>1. p[j] = e /\ p[i] = q[i] /\ q[i] \in Elements /\ q[m] \in Elements
        BY <1>1, <2>3, <3>2
      <4>2. depth[q[m]] <= depth[q[i]]
        <5>1. CASE i = m
          BY <1>1, <2>2, <4>1, <5>1
        <5>2. CASE i < m
          BY <1>1, <2>2, <4>1, <5>2
        <5> QED
          BY <1>1, <5>1, <5>2
      <4>3. depth[e] \in Nat /\ depth[q[m]] \in Nat /\ depth[q[i]] \in Nat
        BY <2>2, <4>1
      <4> QED
        BY <2>2, <4>1, <4>2, <4>3
    <3> QED
      BY <1>1, <3>1, <3>2
  <2>7. p[1] = n /\ Len(p) = (k + 1) + 1 /\ Len(p) >= 1
    BY <1>1, <2>1, <2>3 DEF m
  <2>8. Climb(p, n, k + 1, depth)
    BY <2>3, <2>5, <2>6, <2>7 DEF Climb
  <2> QED
    BY <2>1, <2>8 DEF p
<1> QED
  BY <1>2, <1>3

\* g[k] is the path after k steps.
Climbing(g, n, K) == g[0] = <<n>> /\ \A k \in 1..K : g[k] = Higher(g[k - 1])

\* The recursive function of PathUp has its values.
LEMMA ClimbingExists ==
  ASSUME NEW n \in Elements, NEW K \in Nat, TreeOK(parent)
  PROVE  \E g \in [0..K -> Seq(Elements)] : Climbing(g, n, K)
<1>1. PICK depth : Deeper(parent, depth)
  BY DEF TreeOK
<1> DEFINE Good(g, k) == Climbing(g, n, k) /\ \A i \in 0..k : Climb(g[i], n, i, depth)
           T == {k \in Nat : \E g \in [0..k -> Seq(Elements)] : Good(g, k)}
<1>2. 0 \in T
  <2> DEFINE g == [i \in 0..0 |-> <<n>>]
  <2>1. g \in [0..0 -> Seq(Elements)] /\ Good(g, 0)
    BY ClimbStart DEF Climbing
  <2> QED
    BY <2>1
<1>3. ASSUME NEW k \in Nat, k \in T PROVE k + 1 \in T
  <2>1. PICK g \in [0..k -> Seq(Elements)] : Good(g, k)
    BY <1>3
  <2> DEFINE e == Higher(g[k])
             h == [i \in 0..(k + 1) |-> IF i = k + 1 THEN e ELSE g[i]]
  <2>2. Climb(e, n, k + 1, depth)
    <3>1. Climb(g[k], n, k, depth)
      BY <2>1
    <3> QED
      BY <1>1, <3>1, ClimbStep
  <2>3. e \in Seq(Elements)
    BY <2>2 DEF Climb
  <2> HIDE DEF e
  <2>4. /\ h \in [0..(k + 1) -> Seq(Elements)] /\ h[k + 1] = e
        /\ \A i \in 0..k : h[i] = g[i]
    BY <2>1, <2>3
  <2> HIDE DEF h
  <2>5. Climbing(h, n, k + 1)
    <3>1. h[0] = <<n>>
      BY <2>1, <2>4 DEF Climbing
    <3>2. ASSUME NEW i \in 1..k PROVE h[i] = Higher(h[i - 1])
      <4>1. i \in 0..k /\ i - 1 \in 0..k
        OBVIOUS
      <4>2. g[i] = Higher(g[i - 1])
        BY <2>1 DEF Climbing
      <4> QED
        BY <2>4, <4>1, <4>2
    <3>3. h[k + 1] = Higher(h[(k + 1) - 1])
      BY <2>4 DEF e
    <3>4. \A i \in 1..(k + 1) : i \in 1..k \/ i = k + 1
      OBVIOUS
    <3> QED
      BY <3>1, <3>2, <3>3, <3>4 DEF Climbing
  <2>6. \A i \in 0..(k + 1) : Climb(h[i], n, i, depth)
    BY <2>1, <2>2, <2>4
  <2>7. Good(h, k + 1)
    BY <2>5, <2>6
  <2> HIDE DEF Good
  <2>8. \E f \in [0..(k + 1) -> Seq(Elements)] : Good(f, k + 1)
    BY <2>4, <2>7
  <2> QED
    BY <2>8
<1> HIDE DEF T
<1>4. K \in T
  BY <1>2, <1>3, NatInductiveSet
<1> QED
  BY <1>4 DEF T

\* PathUp is a path.
LEMMA PathClimbs ==
  ASSUME NEW n \in Elements, NEW depth, Deeper(parent, depth), IsFiniteSet(Elements)
  PROVE  Climb(PathUp(n), n, Cardinality(Elements), depth)
<1> DEFINE K == Cardinality(Elements)
           Of(g) == [k \in 0..K |->
             IF k = 0 THEN <<n>>
             ELSE IF parent[Last(g[k - 1])] = NoTarget THEN g[k - 1]
             ELSE Append(g[k - 1], parent[Last(g[k - 1])])]
           g == CHOOSE f : f = Of(f)
<1>1. PathUp(n) = g[K]
  BY DEF PathUp
<1>2. K \in Nat
  BY FS_CardinalityType
<1>3. PICK f \in [0..K -> Seq(Elements)] : Climbing(f, n, K)
  <2>1. TreeOK(parent)
    BY DEF TreeOK
  <2> QED
    BY <1>2, <2>1, ClimbingExists
<1> HIDE DEF K
<1>4. f = Of(f)
  <2>1. ASSUME NEW k \in 0..K PROVE f[k] = Of(f)[k]
    <3>1. Of(f)[k] = IF k = 0 THEN <<n>>
                     ELSE IF parent[Last(f[k - 1])] = NoTarget THEN f[k - 1]
                     ELSE Append(f[k - 1], parent[Last(f[k - 1])])
      BY Zenon
    <3> HIDE DEF Of
    <3>2. CASE k = 0
      BY <1>3, <3>1, <3>2 DEF Climbing
    <3>3. CASE k \in 1..K
      <4>1. f[k] = Higher(f[k - 1])
        BY <1>3, <3>3 DEF Climbing
      <4>2. k # 0
        BY <3>3
      <4> QED
        BY <3>1, <4>1, <4>2, Zenon DEF Higher
    <3> QED
      BY <1>2, <3>2, <3>3
  <2>2. DOMAIN f = 0..K /\ f = [k \in DOMAIN f |-> f[k]]
    OBVIOUS
  <2>3. DOMAIN Of(f) = 0..K /\ Of(f) = [k \in DOMAIN Of(f) |-> Of(f)[k]]
    BY Zenon
  <2> HIDE DEF Of
  <2>4. [k \in 0..K |-> f[k]] = [k \in 0..K |-> Of(f)[k]]
    BY <2>1, Zenon
  <2> QED
    BY <2>2, <2>3, <2>4, Zenon
<1>5. g = Of(g)
  BY <1>4, Zenon
<1> HIDE DEF g
<1>6. g[0] = <<n>> /\ \A k \in 1..K : g[k] = Higher(g[k - 1])
  <2>1. \A k \in 0..K : g[k] = Of(g)[k]
    BY <1>5
  <2>2. \A k \in 0..K : g[k] = IF k = 0 THEN <<n>>
                     ELSE IF parent[Last(g[k - 1])] = NoTarget THEN g[k - 1]
                     ELSE Append(g[k - 1], parent[Last(g[k - 1])])
    BY <2>1, Zenon
  <2> HIDE DEF Of
  <2>3. 0 \in 0..K /\ \A k \in 1..K : k \in 0..K /\ k # 0
    BY <1>2
  <2> QED
    BY <2>2, <2>3, Zenon DEF Higher
<1> DEFINE T == {k \in Nat : k <= K => Climb(g[k], n, k, depth)}
<1>7. 0 \in T
  BY <1>6, ClimbStart
<1>8. ASSUME NEW k \in Nat, k \in T PROVE k + 1 \in T
  <2> SUFFICES ASSUME k + 1 <= K PROVE Climb(g[k + 1], n, k + 1, depth)
    OBVIOUS
  <2>1. k <= K /\ k + 1 \in 1..K /\ (k + 1) - 1 = k
    BY <1>2
  <2>2. Climb(g[k], n, k, depth)
    BY <1>8, <2>1
  <2>3. g[k + 1] = Higher(g[k])
    BY <1>6, <2>1
  <2>4. Climb(Higher(g[k]), n, k + 1, depth)
    BY <2>2, ClimbStep
  <2> QED
    BY <2>3, <2>4
<1> HIDE DEF T
<1>9. K \in T
  BY <1>2, <1>7, <1>8, NatInductiveSet
<1>10. Climb(g[K], n, K, depth)
  BY <1>2, <1>9 DEF T
<1> QED
  BY <1>1, <1>10 DEF K

\* The way up from a node ends at a root, and no node is on it twice.
LEMMA PathFacts ==
  ASSUME NEW n \in Elements, TreeOK(parent), IsFiniteSet(Elements)
  PROVE  /\ PathUp(n) \in Seq(Elements) /\ Len(PathUp(n)) \in Nat \ {0} /\ PathUp(n)[1] = n
         /\ DOMAIN PathUp(n) = 1..Len(PathUp(n))
         /\ \A i, j \in 1..Len(PathUp(n)) : PathUp(n)[i] = PathUp(n)[j] => i = j
         /\ \A x \in ToSet(PathUp(n)) : parent[x] = NoTarget \/ parent[x] \in ToSet(PathUp(n))
<1> DEFINE q == PathUp(n)
           K == Cardinality(Elements)
<1>1. PICK depth : Deeper(parent, depth)
  BY DEF TreeOK
<1>2. Climb(q, n, K, depth)
  BY <1>1, PathClimbs
<1>3. K \in Nat
  BY FS_CardinalityType
<1> HIDE DEF q
<1>4. /\ q \in Seq(Elements) /\ Len(q) \in Nat /\ Len(q) >= 1 /\ q[1] = n
      /\ DOMAIN q = 1..Len(q) /\ \A i \in 1..Len(q) : q[i] \in Elements
      /\ \A i \in 1..Len(q) : i < Len(q) => parent[q[i]] = q[i + 1]
      /\ \A i, j \in 1..Len(q) : i < j => depth[q[j]] < depth[q[i]]
      /\ parent[Last(q)] = NoTarget \/ Len(q) = K + 1
  BY <1>2, SeqElements DEF Climb
<1>5. \A i, j \in 1..Len(q) : q[i] = q[j] => i = j
  <2> SUFFICES ASSUME NEW i \in 1..Len(q), NEW j \in 1..Len(q), q[i] = q[j], i # j PROVE FALSE
    OBVIOUS
  <2>1. depth[q[i]] \in Nat
    BY <1>1, <1>4 DEF Deeper
  <2>2. i < j \/ j < i
    BY <1>4
  <2> QED
    BY <1>4, <2>1, <2>2
<1>6. parent[Last(q)] = NoTarget
  <2> SUFFICES ASSUME Len(q) = K + 1 PROVE FALSE
    BY <1>4
  <2>1. q \in Injection(1..(K + 1), Elements)
    <3>1. q \in [1..(K + 1) -> Elements]
      BY <1>4
    <3> QED
      BY <1>4, <1>5, <3>1 DEF Injection, IsInjective
  <2>2. Cardinality(1..(K + 1)) <= Cardinality(Elements)
    BY <2>1, FS_Injection
  <2>3. Cardinality(1..(K + 1)) = K + 1
    BY <1>3, FS_Interval
  <2> QED
    BY <1>3, <2>2, <2>3 DEF K
<1>7. ASSUME NEW x \in ToSet(q) PROVE parent[x] = NoTarget \/ parent[x] \in ToSet(q)
  <2>1. PICK i \in 1..Len(q) : x = q[i]
    BY <1>4, <1>7 DEF ToSet
  <2>2. CASE i = Len(q)
    BY <1>6, <2>1, <2>2 DEF Last
  <2>3. CASE i < Len(q)
    <3>1. parent[x] = q[i + 1] /\ i + 1 \in DOMAIN q
      BY <1>4, <2>1, <2>3
    <3> QED
      BY <3>1 DEF ToSet
  <2>4. i = Len(q) \/ i < Len(q)
    <3> DEFINE m == Len(q)
    <3>1. m \in Nat /\ i \in 1..m
      BY <1>4
    <3> HIDE DEF m
    <3>2. i = m \/ i < m
      BY <3>1
    <3> QED
      BY <3>2 DEF m
  <2> QED
    BY <2>2, <2>3, <2>4
<1> QED
  BY <1>4, <1>5, <1>7 DEF q

\* Moving a node below one that does not lie below it makes no cycle.
LEMMA MovedTree ==
  ASSUME TreeOK(parent), IsFiniteSet(Elements), NEW m \in Elements, NEW to \in Elements \cup {NoTarget},
         NoTarget \notin Elements, to # NoTarget => m \notin ToSet(PathUp(to))
  PROVE  TreeOK([parent EXCEPT ![m] = to])
<1>1. PICK depth : Deeper(parent, depth)
  BY DEF TreeOK
<1> DEFINE new == [parent EXCEPT ![m] = to]
<1>2. /\ new \in [Elements -> Elements \cup {NoTarget}] /\ new[m] = to
      /\ \A x \in Elements : x # m => new[x] = parent[x]
      /\ depth \in [Elements -> Nat]
      /\ \A x \in Elements : parent[x] # NoTarget => depth[parent[x]] < depth[x]
      /\ \A x \in Elements : parent[x] \in Elements \cup {NoTarget}
  BY <1>1 DEF Deeper
<1> HIDE DEF new
<1>3. CASE to = NoTarget
  <2>1. Deeper(new, depth)
    BY <1>2, <1>3 DEF Deeper
  <2> QED
    BY <2>1 DEF TreeOK, new
<1>4. CASE to # NoTarget
  <2> DEFINE S == Elements \ ToSet(PathUp(to))
             d == [x \in Elements |-> depth[x] + IF x \in S THEN depth[to] + 1 ELSE 0]
  <2>1. to \in Elements /\ to \notin S /\ m \in S
    <3>1. to \in ToSet(PathUp(to))
      <4>1. to \in Elements
        BY <1>4
      <4>2. 1 \in DOMAIN PathUp(to) /\ PathUp(to)[1] = to
        BY <4>1, PathFacts
      <4> QED
        BY <4>2 DEF ToSet
    <3> QED
      BY <1>4, <3>1
  <2>2. \A x \in Elements : x \notin S => parent[x] = NoTarget \/ parent[x] \notin S
    BY <2>1, PathFacts
  <2>3. S \subseteq Elements /\ depth[to] \in Nat
    BY <1>2, <2>1
  <2> HIDE DEF S
  <2>4. /\ d \in [Elements -> Nat]
        /\ \A x \in Elements : depth[x] \in Nat /\ d[x] \in Nat
        /\ \A x \in S : d[x] = depth[x] + depth[to] + 1
        /\ \A x \in Elements \ S : d[x] = depth[x]
    BY <1>2, <2>3
  <2> HIDE DEF d
  <2>5. ASSUME NEW x \in Elements, new[x] # NoTarget PROVE d[new[x]] < d[x]
    <3>1. CASE x = m
      <4>1. d[to] = depth[to] /\ d[m] = depth[m] + depth[to] + 1 /\ depth[m] \in Nat
        BY <2>1, <2>4
      <4> QED
        BY <1>2, <2>3, <3>1, <4>1
    <3>2. CASE x # m
      <4>1. new[x] = parent[x] /\ parent[x] \in Elements /\ depth[parent[x]] < depth[x]
        BY <1>2, <2>5, <3>2
      <4>2. depth[x] \in Nat /\ depth[parent[x]] \in Nat
        BY <2>4, <4>1
      <4>3. CASE x \in S
        <5>1. d[x] = depth[x] + depth[to] + 1
          BY <2>4, <4>3
        <5>2. d[parent[x]] <= depth[parent[x]] + depth[to] + 1
          BY <2>3, <2>4, <4>1, <4>2
        <5>3. d[parent[x]] \in Nat
          BY <2>4, <4>1
        <5> QED
          BY <2>3, <4>1, <4>2, <5>1, <5>2, <5>3
      <4>4. CASE x \notin S
        <5>1. d[x] = depth[x] /\ d[parent[x]] = depth[parent[x]]
          BY <2>2, <2>4, <2>5, <4>1, <4>4
        <5> QED
          BY <4>1, <4>2, <5>1
      <4> QED
        BY <4>3, <4>4
    <3> QED
      BY <3>1, <3>2
  <2>6. Deeper(new, d)
    BY <1>2, <2>4, <2>5 DEF Deeper
  <2> QED
    BY <2>6 DEF TreeOK, new
<1> QED
  BY <1>3, <1>4

-----------------------------------------------------------------------------
(***************************************************************************)
(* What the variables hold, and the stops of a dispatch.                   *)
(***************************************************************************)
\* r is p and then q.
Joins(p, q, r, M) ==
  /\ r \in Seq(M) /\ Len(p) \in Nat /\ Len(q) \in Nat
  /\ Len(r) = Len(p) + Len(q) /\ DOMAIN r = 1..(Len(p) + Len(q))
  /\ \A i \in 1..Len(p) : i \in DOMAIN r /\ r[i] = p[i]
  /\ \A i \in 1..Len(q) : Len(p) + i \in DOMAIN r /\ r[Len(p) + i] = q[i]
  /\ \A i \in DOMAIN r : i \in 1..Len(p) \/ (i - Len(p)) \in 1..Len(q)

\* The elements of a concatenation.
LEMMA ConcatElements ==
  ASSUME NEW M, NEW p \in Seq(M), NEW q \in Seq(M) PROVE Joins(p, q, p \o q, M)
BY DEF Joins

\* What the variables hold.
Callbacks == {a.callback : a \in Adds}
Registration == [callback : Callbacks, once : BOOLEAN, id : Nat \ {0}]
OnmessageCall == [NoEntry EXCEPT !.callback = Window]
Stop == [node : Targets, capture : BOOLEAN, phase : 1..3]
Hearing == [node : Targets, capture : BOOLEAN, callback : Callbacks]
EventObject ==
  [type : Types, bubbles : BOOLEAN, cancelable : BOOLEAN, prevented : BOOLEAN,
   stop : BOOLEAN, immediate : BOOLEAN, phase : 0..3,
   current : Targets \cup {NoTarget}, stoppedIn : SUBSET Targets]
Dispatch ==
  [event : Nat, type : Types, stops : Seq(Stop), at : Nat, entries : Seq(Registration),
   calling : Registration \cup {NoEntry, OnmessageCall}, trusted : BOOLEAN,
   handler : BOOLEAN, due : SUBSET Hearing, heard : Seq(Hearing)]

\* A dispatch visits a list once, and only the target's two in its phase.
RouteOK(stops) ==
  /\ stops \in Seq(Stop) /\ Len(stops) >= 1
  /\ \A i, j \in 1..Len(stops) :
       /\ stops[i].node = stops[j].node /\ stops[i].capture = stops[j].capture => i = j
       /\ stops[i].phase = 2 /\ stops[j].phase = 2 => stops[i].node = stops[j].node

\* The nodes of a dispatch are distinct targets, the window last.
LEMMA RoutePath ==
  ASSUME TreeOK(parent), NEW n \in Targets
  PROVE  /\ ancestor_path(n) \in Seq(Targets) /\ Len(ancestor_path(n)) \in Nat \ {0}
         /\ DOMAIN ancestor_path(n) = 1..Len(ancestor_path(n))
         /\ ancestor_path(n)[1] = n
         /\ \A i, j \in 1..Len(ancestor_path(n)) : ancestor_path(n)[i] = ancestor_path(n)[j] => i = j
<1>1. CASE n = Window
  <2>1. ancestor_path(n) = <<Window>> /\ Window \in Targets
    BY <1>1 DEF ancestor_path, Targets
  <2> QED
    BY <1>1, <2>1
<1>2. CASE n # Window
  <2> DEFINE q == PathUp(n)
  <2>1. n \in Elements
    BY <1>2 DEF Targets
  <2>2. /\ q \in Seq(Elements) /\ Len(q) \in Nat \ {0} /\ q[1] = n
        /\ \A i, j \in 1..Len(q) : q[i] = q[j] => i = j
    BY <2>1, PathFacts, TreeAssumption
  <2>3. \A i \in 1..Len(q) : q[i] \in Elements
    BY <2>2, SeqElements
  <2> HIDE DEF q
  <2>4. q \in Seq(Targets) /\ Window \in Targets
    BY <2>2, <2>3 DEF Targets
  <2> DEFINE p == Append(q, Window)
  <2>5. /\ p \in Seq(Targets) /\ Len(p) = Len(q) + 1 /\ p[Len(q) + 1] = Window
        /\ \A i \in 1..Len(q) : p[i] = q[i]
    BY <2>4
  <2>6. ancestor_path(n) = p
    BY <1>2 DEF ancestor_path, q
  <2> HIDE DEF p
  <2>7. ASSUME NEW i \in 1..Len(p), NEW j \in 1..Len(p), p[i] = p[j] PROVE i = j
    <3>1. Window \notin Elements
      BY TreeAssumption
    <3>2. i \in 1..Len(q) \/ i = Len(q) + 1
      BY <2>2, <2>5
    <3>3. j \in 1..Len(q) \/ j = Len(q) + 1
      BY <2>2, <2>5
    <3> QED
      BY <2>2, <2>3, <2>5, <2>7, <3>1, <3>2, <3>3
  <2>8. 1 \in 1..Len(q) /\ Len(p) \in Nat \ {0} /\ DOMAIN p = 1..Len(p)
    BY <2>2, <2>5
  <2> QED
    BY <2>2, <2>5, <2>6, <2>7, <2>8
<1> QED
  BY <1>1, <1>2

\* Where the stops of a path lie: m above the target, b if the event bubbles.
StopsLie(s, p, m, b) ==
  /\ m \in Nat /\ s \in Seq(Stop)
  /\ Len(s) = IF b THEN m + m + 2 ELSE m + 2
  /\ \A i \in 1..(m + 1) :
       /\ s[i].node = p[(m + 2) - i] /\ s[i].capture = TRUE
       /\ s[i].phase = IF i = m + 1 THEN 2 ELSE 1
  /\ \A i \in (m + 2)..Len(s) :
       /\ s[i].node = p[i - (m + 1)] /\ s[i].capture = FALSE
       /\ s[i].phase = IF i = m + 2 THEN 2 ELSE 3

\* Where the lists of a dispatch lie on the path: down its captures to the
\* target's, from the target up otherwise.
LEMMA StopsPlaces ==
  ASSUME TreeOK(parent), NEW n \in Targets, NEW b \in BOOLEAN
  PROVE  StopsLie(Stops(n, b), ancestor_path(n), Len(ancestor_path(n)) - 1, b)
<1> DEFINE p == ancestor_path(n)
           m == Len(p) - 1
           above == Tail(p)
           A == StopsAt(Reverse(above), TRUE, 1)
           B == <<[node |-> n, capture |-> TRUE, phase |-> 2],
                  [node |-> n, capture |-> FALSE, phase |-> 2]>>
           C == IF b THEN StopsAt(above, FALSE, 3) ELSE << >>
           s == Stops(n, b)
<1>1. /\ p \in Seq(Targets) /\ Len(p) \in Nat \ {0} /\ p[1] = n
      /\ m \in Nat
  BY RoutePath
<1>2. /\ above \in Seq(Targets) /\ Len(above) = m /\ DOMAIN above = 1..m
      /\ \A i \in 1..m : above[i] = p[i + 1] /\ above[i] \in Targets
  <2>1. p # << >>
    BY <1>1
  <2>2. above \in Seq(Targets) /\ Len(above) = m /\ DOMAIN above = 1..m
        /\ \A i \in 1..m : above[i] = p[i + 1]
    BY <1>1, <2>1, HeadAndTail
  <2> QED
    BY <2>2, SeqElements
<1>3. s = (A \o B) \o C
  BY DEF Stops
<1> HIDE DEF above, s, m, p
<1>4. /\ A \in Seq(Stop) /\ Len(A) = m
      /\ \A i \in 1..m : A[i] = [node |-> p[(m + 2) - i], capture |-> TRUE, phase |-> 1]
  <2>1. Reverse(above) = [i \in 1..m |-> above[(m - i) + 1]]
    BY <1>2 DEF Reverse
  <2>2. \A i \in 1..m : (m - i) + 1 \in 1..m /\ ((m - i) + 1) + 1 = (m + 2) - i
    BY <1>1
  <2>3. A = [i \in 1..m |-> [node |-> above[(m - i) + 1], capture |-> TRUE, phase |-> 1]]
    BY <2>1 DEF StopsAt
  <2>4. \A i \in 1..m : above[(m - i) + 1] = p[(m + 2) - i] /\ above[(m - i) + 1] \in Targets
    BY <1>2, <2>2
  <2> HIDE DEF A
  <2>5. \A i \in 1..m : A[i] \in Stop
    BY <2>3, <2>4 DEF Stop
  <2>6. A \in Seq(Stop) /\ Len(A) = m
    <3>1. A \in [1..m -> Stop]
      BY <2>3, <2>5
    <3> QED
      BY <1>1, <3>1
  <2> QED
    BY <2>3, <2>4, <2>6
<1>5. /\ C \in Seq(Stop) /\ Len(C) = IF b THEN m ELSE 0
      /\ \A i \in 1..Len(C) : C[i] = [node |-> p[i + 1], capture |-> FALSE, phase |-> 3]
  <2>1. CASE b
    <3>1. C = [i \in 1..m |-> [node |-> above[i], capture |-> FALSE, phase |-> 3]]
      BY <1>2, <2>1 DEF StopsAt
    <3> HIDE DEF C
    <3>2. \A i \in 1..m : C[i] \in Stop
      BY <1>2, <3>1 DEF Stop
    <3>3. C \in Seq(Stop) /\ Len(C) = m
      BY <1>1, <3>1, <3>2
    <3> QED
      BY <1>2, <2>1, <3>1, <3>3
  <2>2. CASE ~b
    <3>1. C = << >>
      BY <2>2
    <3> QED
      BY <2>2, <3>1
  <2> QED
    BY <2>1, <2>2
<1>6. B \in Seq(Stop) /\ Len(B) = 2 /\ B[1] = [node |-> n, capture |-> TRUE, phase |-> 2]
      /\ B[2] = [node |-> n, capture |-> FALSE, phase |-> 2]
  BY DEF Stop
<1> HIDE DEF A, B, C
<1>7. /\ s \in Seq(Stop) /\ Len(s) = (m + 2) + Len(C)
      /\ \A i \in 1..m : s[i] = A[i]
      /\ s[m + 1] = B[1] /\ s[m + 2] = B[2]
      /\ \A i \in 1..Len(C) : s[(m + 2) + i] = C[i]
  <2> DEFINE D == A \o B
  <2>1. /\ D \in Seq(Stop) /\ Len(D) = m + 2
        /\ \A i \in 1..m : D[i] = A[i]
        /\ D[m + 1] = B[1] /\ D[m + 2] = B[2]
    <3>1. m \in Nat /\ A \in Seq(Stop) /\ Len(A) = m /\ B \in Seq(Stop) /\ Len(B) = 2
      BY <1>1, <1>4, <1>6
    <3>2. Joins(A, B, D, Stop)
      BY <3>1, ConcatElements
    <3>3. 1 \in 1..2 /\ 2 \in 1..2
      OBVIOUS
    <3> HIDE DEF D
    <3> QED
      BY <3>1, <3>2, <3>3 DEF Joins
  <2>2. s = D \o C
    BY <1>3
  <2> HIDE DEF D
  <2>3. /\ s \in Seq(Stop) /\ Len(s) = (m + 2) + Len(C)
        /\ \A i \in 1..(m + 2) : s[i] = D[i]
        /\ \A i \in 1..Len(C) : s[(m + 2) + i] = C[i]
    <3>1. C \in Seq(Stop) /\ D \in Seq(Stop) /\ Len(D) = m + 2
      BY <1>5, <2>1
    <3>2. Joins(D, C, s, Stop)
      BY <2>2, <3>1, ConcatElements
    <3> QED
      BY <3>1, <3>2 DEF Joins
  <2>4. m + 1 \in 1..(m + 2) /\ m + 2 \in 1..(m + 2) /\ \A i \in 1..m : i \in 1..(m + 2)
    BY <1>1
  <2> QED
    BY <2>1, <2>3, <2>4
<1>8. ASSUME NEW i \in 1..(m + 1)
      PROVE /\ s[i].node = p[(m + 2) - i] /\ s[i].capture = TRUE
            /\ s[i].phase = (IF i = m + 1 THEN 2 ELSE 1)
  <2>1. CASE i = m + 1
    <3>1. (m + 2) - i = 1
      BY <1>1, <2>1
    <3> QED
      BY <1>1, <1>6, <1>7, <2>1, <3>1
  <2>2. CASE i # m + 1
    <3>1. i \in 1..m
      BY <1>1, <2>2
    <3> QED
      BY <1>4, <1>7, <2>2, <3>1
  <2> QED
    BY <2>1, <2>2
<1>9. ASSUME NEW i \in (m + 2)..Len(s)
      PROVE /\ s[i].node = p[i - (m + 1)] /\ s[i].capture = FALSE
            /\ s[i].phase = (IF i = m + 2 THEN 2 ELSE 3)
  <2>1. CASE i = m + 2
    <3>1. i - (m + 1) = 1
      BY <1>1, <2>1
    <3> QED
      BY <1>1, <1>6, <1>7, <2>1, <3>1
  <2>2. CASE i # m + 2
    <3> DEFINE k == i - (m + 2)
    <3>0. Len(s) = (m + 2) + Len(C) /\ Len(C) \in Nat /\ i \in (m + 2)..Len(s)
      BY <1>5, <1>7, SeqElements
    <3>1. k \in 1..Len(C) /\ i = (m + 2) + k /\ k + 1 = i - (m + 1)
      BY <1>1, <2>2, <3>0
    <3> HIDE DEF k
    <3>2. s[i] = C[k] /\ C[k] = [node |-> p[k + 1], capture |-> FALSE, phase |-> 3]
      BY <1>5, <1>7, <3>1
    <3> QED
      BY <2>2, <3>1, <3>2
  <2> QED
    BY <2>1, <2>2
<1>10. Len(s) = IF b THEN m + m + 2 ELSE m + 2
  <2>1. CASE b
    BY <1>1, <1>5, <1>7, <2>1
  <2>2. CASE ~b
    BY <1>1, <1>5, <1>7, <2>2
  <2> QED
    BY <2>1, <2>2
<1> QED
  <2>1. StopsLie(s, p, m, b)
    <3>1. \A i \in 1..(m + 1) : /\ s[i].node = p[(m + 2) - i] /\ s[i].capture = TRUE
                                /\ s[i].phase = (IF i = m + 1 THEN 2 ELSE 1)
      BY <1>8
    <3>2. \A i \in (m + 2)..Len(s) : /\ s[i].node = p[i - (m + 1)] /\ s[i].capture = FALSE
                                     /\ s[i].phase = (IF i = m + 2 THEN 2 ELSE 3)
      BY <1>9
    <3> QED
      BY <1>1, <1>7, <1>10, <3>1, <3>2 DEF StopsLie
  <2> QED
    BY <2>1 DEF s, m, p

\* The stops of a dispatch are a route, and cover every list it owes.
LEMMA StopsFacts ==
  ASSUME TreeOK(parent), NEW n \in Targets, NEW b \in BOOLEAN
  PROVE  /\ RouteOK(Stops(n, b))
         /\ \A x \in ToSet(ancestor_path(n)), c \in BOOLEAN : x = n \/ c \/ b =>
              \E k \in 1..Len(Stops(n, b)) : Stops(n, b)[k].node = x /\ Stops(n, b)[k].capture = c
<1> DEFINE p == ancestor_path(n)
           m == Len(p) - 1
           s == Stops(n, b)
           L == Len(s)
<1>1. /\ Len(p) \in Nat \ {0} /\ DOMAIN p = 1..Len(p) /\ p[1] = n
      /\ \A i, j \in 1..Len(p) : p[i] = p[j] => i = j
  BY RoutePath
<1>2. StopsLie(s, p, m, b)
  BY StopsPlaces
<1>3. Len(p) = m + 1
  BY <1>1
<1>0. ToSet(p) = {p[i] : i \in 1..Len(p)}
  BY <1>1 DEF ToSet
<1> HIDE DEF p, m, s, L
<1>11. /\ m \in Nat /\ s \in Seq(Stop) /\ L \in Nat /\ m + 2 <= L /\ (b => L = m + m + 2) /\ ((~b) => L = m + 2)
       /\ L = Len(s)
  BY <1>2 DEF StopsLie, L
<1>4. \A i \in 1..L : i \in 1..(m + 1) \/ i \in (m + 2)..L
  BY <1>11
<1>5. \A i \in 1..(m + 1) : /\ s[i].node = p[(m + 2) - i] /\ s[i].capture = TRUE
                            /\ s[i].phase = (IF i = m + 1 THEN 2 ELSE 1)
  BY <1>2 DEF StopsLie
<1>6. \A i \in (m + 2)..L : /\ s[i].node = p[i - (m + 1)] /\ s[i].capture = FALSE
                            /\ s[i].phase = (IF i = m + 2 THEN 2 ELSE 3)
  BY <1>2 DEF StopsLie, L
<1>7. ASSUME NEW i \in 1..L, NEW j \in 1..L, s[i].node = s[j].node, s[i].capture = s[j].capture
      PROVE  i = j
  <2>1. CASE i \in 1..(m + 1)
    <3>1. j \in 1..(m + 1)
      BY <1>4, <1>5, <1>6, <1>7, <2>1
    <3>2. (m + 2) - i \in 1..Len(p) /\ (m + 2) - j \in 1..Len(p)
      BY <1>11, <1>3, <2>1, <3>1
    <3>3. p[(m + 2) - i] = p[(m + 2) - j]
      BY <1>5, <1>7, <2>1, <3>1
    <3>4. (m + 2) - i = (m + 2) - j
      BY <1>1, <3>2, <3>3
    <3> QED
      BY <1>11, <2>1, <3>1, <3>4
  <2>2. CASE i \in (m + 2)..L
    <3>1. j \in (m + 2)..L
      BY <1>4, <1>5, <1>6, <1>7, <2>2
    <3>2. i - (m + 1) \in 1..Len(p) /\ j - (m + 1) \in 1..Len(p)
      BY <1>11, <1>3, <2>2, <3>1
    <3>3. p[i - (m + 1)] = p[j - (m + 1)]
      BY <1>6, <1>7, <2>2, <3>1
    <3>4. i - (m + 1) = j - (m + 1)
      BY <1>1, <3>2, <3>3
    <3> QED
      BY <1>11, <2>2, <3>1, <3>4
  <2> QED
    BY <1>4, <2>1, <2>2
<1>8. ASSUME NEW i \in 1..L, s[i].phase = 2 PROVE s[i].node = n
  <2>1. CASE i \in 1..(m + 1)
    <3>1. i = m + 1
      BY <1>5, <1>8, <2>1
    <3>2. (m + 2) - i = 1
      BY <1>11, <3>1
    <3> QED
      BY <1>1, <1>5, <2>1, <3>2
  <2>2. CASE i \in (m + 2)..L
    <3>1. i = m + 2
      BY <1>6, <1>8, <2>2
    <3>2. i - (m + 1) = 1
      BY <1>11, <3>1
    <3> QED
      BY <1>1, <1>6, <2>2, <3>2
  <2> QED
    BY <1>4, <2>1, <2>2
<1>9. ASSUME NEW x \in ToSet(p), NEW c \in BOOLEAN, x = n \/ c \/ b
      PROVE  \E k \in 1..L : s[k].node = x /\ s[k].capture = c
  <2>1. PICK i \in 1..Len(p) : x = p[i]
    BY <1>0
  <2>2. CASE c
    <3>1. (m + 2) - i \in 1..(m + 1) /\ (m + 2) - i \in 1..L /\ (m + 2) - ((m + 2) - i) = i
      BY <1>11, <1>3, <2>1
    <3>2. s[(m + 2) - i].node = x /\ s[(m + 2) - i].capture = TRUE
      BY <1>5, <2>1, <3>1
    <3>3. c = TRUE
      BY <2>2
    <3> QED
      BY <3>1, <3>2, <3>3
  <2>3. CASE ~c
    <3>1. b \/ i = 1
      <4>1. 1 \in 1..Len(p)
        BY <1>1
      <4> QED
        BY <1>1, <1>9, <2>1, <2>3, <4>1
    <3>2. i + (m + 1) \in (m + 2)..L /\ i + (m + 1) \in 1..L /\ (i + (m + 1)) - (m + 1) = i
      BY <1>11, <1>3, <2>1, <3>1
    <3>3. s[i + (m + 1)].node = x /\ s[i + (m + 1)].capture = FALSE
      BY <1>6, <2>1, <3>2
    <3>4. c = FALSE
      BY <1>9, <2>3
    <3> QED
      BY <3>2, <3>3, <3>4
  <2> QED
    BY <2>2, <2>3
<1>12. Len(s) >= 1
  BY <1>11
<1>10. RouteOK(s)
  BY <1>7, <1>8, <1>11, <1>12 DEF RouteOK, L
<1> QED
  BY <1>9, <1>10 DEF p, s, L

-----------------------------------------------------------------------------
(***************************************************************************)
(* The lists of registrations, and the counter of a type.                  *)
(***************************************************************************)
\* No callback is in a list twice.
Distinct(q) == \A i, j \in 1..Len(q) : q[i].callback = q[j].callback => i = j

\* Every list holds registrations, no callback twice, each under its own number.
ListsOK(ls, n) ==
  /\ ls \in [Lists -> Seq(Registration)]
  /\ \A l \in Lists : Distinct(ls[l]) /\ \A x \in ToSet(ls[l]) : x.id <= n
  /\ \A l, m \in Lists : \A x \in ToSet(ls[l]), y \in ToSet(ls[m]) :
       x.id = y.id => l = m /\ x = y

\* The places of a type's lists.
Slots(ls, t) ==
  UNION {{<<p, i>> : i \in DOMAIN ls[<<p[1], t, p[2]>>]} : p \in Targets \X BOOLEAN}

\* The counter of a type counts the places of its lists.
CountsOK(ls, cnt, n) ==
  /\ cnt \in [Types -> Nat]
  /\ \A t \in Types : /\ IsFiniteSet(Slots(ls, t)) /\ cnt[t] = Cardinality(Slots(ls, t))
                      /\ cnt[t] <= n

\* The members of a sequence.
LEMMA SeqMembers ==
  ASSUME NEW M, NEW q \in Seq(M)
  PROVE  /\ ToSet(q) \subseteq M
         /\ \A x : x \in ToSet(q) <=> \E i \in 1..Len(q) : q[i] = x
<1>1. DOMAIN q = 1..Len(q) /\ \A i \in 1..Len(q) : q[i] \in M
  BY SeqElements
<1> QED
  BY <1>1 DEF ToSet

\* What Dropping keeps.
LEMMA DroppingFacts ==
  ASSUME NEW q \in Seq(Registration), Distinct(q), NEW cb
  PROVE  /\ Dropping(q, cb) \in Seq(Registration) /\ Distinct(Dropping(q, cb))
         /\ Len(Dropping(q, cb)) <= Len(q)
         /\ ToSet(Dropping(q, cb)) = {e \in ToSet(q) : e.callback # cb}
<1> DEFINE S == {e \in ToSet(q) : e.callback # cb}
           r == Dropping(q, cb)
<1>1. r = Retain(q, S)
  BY DEF Dropping
<1>0. \A x : x \in S <=> x \in ToSet(q) /\ x.callback # cb
  OBVIOUS
<1> HIDE DEF r, S
<1>2. /\ r \in Seq(Registration) /\ Len(r) <= Len(q)
      /\ \A j \in 1..Len(r) : r[j] \in S /\ \E i \in 1..Len(q) : r[j] = q[i]
      /\ \A i \in 1..Len(q) : q[i] \in S => \E j \in 1..Len(r) : r[j] = q[i]
  <2>1. /\ Retain(q, S) \in Seq(Registration) /\ Len(Retain(q, S)) <= Len(q)
        /\ \A j \in 1..Len(Retain(q, S)) :
             Retain(q, S)[j] \in S /\ \E i \in 1..Len(q) : Retain(q, S)[j] = q[i]
        /\ \A i \in 1..Len(q) : q[i] \in S =>
             \E j \in 1..Len(Retain(q, S)) : Retain(q, S)[j] = q[i]
    BY RetainFacts
  <2> QED
    BY <1>1, <2>1
<1>3. PICK at : Embeds(r, q, Len(q), S, at)
  BY <1>1, RetainEmbeds
<1>4. (\A x : x \in ToSet(q) <=> \E i \in 1..Len(q) : q[i] = x)
      /\ (\A x : x \in ToSet(r) <=> \E j \in 1..Len(r) : r[j] = x)
  BY <1>2, SeqMembers
<1>5. ToSet(r) = S
  <2>1. ASSUME NEW x \in ToSet(r) PROVE x \in S
    BY <1>2, <1>4, <1>0
  <2>2. ASSUME NEW x \in S PROVE x \in ToSet(r)
    BY <1>2, <1>4, <1>0
  <2> QED
    BY <2>1, <2>2
<1>6. Len(r) \in Nat /\ Len(q) \in Nat
  BY <1>2, SeqElements
<1>7. ASSUME NEW j \in 1..Len(r), NEW k \in 1..Len(r), r[j].callback = r[k].callback PROVE j = k
  <2>1. at[j] \in 1..Len(q) /\ at[k] \in 1..Len(q) /\ r[j] = q[at[j]] /\ r[k] = q[at[k]]
    BY <1>3 DEF Embeds
  <2>2. at[j] = at[k]
    BY <1>7, <2>1 DEF Distinct
  <2>3. ~ (j < k) /\ ~ (k < j)
    <3>1. \A x, y \in 1..Len(r) : x < y => at[x] < at[y]
      BY <1>3 DEF Embeds
    <3>2. at[j] \in Int /\ at[k] \in Int
      BY <2>1
    <3> QED
      BY <2>2, <3>1, <3>2
  <2> QED
    BY <1>6, <2>3
<1> QED
  BY <1>2, <1>5, <1>7 DEF Distinct, r, S

\* A pair for every place of a list.
LEMMA RunCounts ==
  ASSUME NEW P, NEW k \in Nat
  PROVE  IsFiniteSet({<<P, i>> : i \in 1..k}) /\ Cardinality({<<P, i>> : i \in 1..k}) = k
<1> DEFINE f == [i \in 1..k |-> <<P, i>>]
           T == {<<P, i>> : i \in 1..k}
<1>1. f \in Bijection(1..k, T)
  <2>1. f \in [1..k -> T] /\ \A i \in 1..k : f[i] = <<P, i>>
    OBVIOUS
  <2>2. \A i, j \in 1..k : <<P, i>> = <<P, j>> => i = j
    OBVIOUS
  <2>3. \A x \in T : \E i \in 1..k : f[i] = x
    OBVIOUS
  <2> HIDE DEF f, T
  <2>4. \A i, j \in 1..k : f[i] = f[j] => i = j
    BY <2>1, <2>2
  <2>5. f \in Injection(1..k, T)
    BY <2>1, <2>4 DEF Injection, IsInjective
  <2>6. f \in Surjection(1..k, T)
    BY <2>1, <2>3 DEF Surjection
  <2> QED
    BY <2>5, <2>6 DEF Bijection
<1>2. ExistsBijection(1..k, T)
  BY <1>1 DEF ExistsBijection
<1>3. IsFiniteSet(1..k) /\ Cardinality(1..k) = k
  BY FS_Interval
<1> QED
  BY <1>2, <1>3, FS_Bijection

PlaceIn(ls, t, p, x) == \E i \in DOMAIN ls[<<p[1], t, p[2]>>] : x = <<p, i>>

\* The places of a type, list by list.
LEMMA SlotsHold ==
  ASSUME NEW ls, NEW t
  PROVE  \A x : x \in Slots(ls, t) <=> \E p \in Targets \X BOOLEAN : PlaceIn(ls, t, p, x)
BY DEF Slots, PlaceIn

\* A list of old places has got now ones.
SlotsMove(ls, new, t, old, now) ==
  /\ IsFiniteSet(Slots(new, t))
  /\ Cardinality(Slots(new, t)) = Cardinality(Slots(ls, t)) - old + now
  /\ old <= Cardinality(Slots(ls, t)) /\ Cardinality(Slots(ls, t)) \in Nat
  /\ \A u \in Types : u # t => Slots(new, u) = Slots(ls, u)

\* A list is replaced: the places of its type move with it.
LEMMA SlotsChange ==
  ASSUME NEW ls \in [Lists -> Seq(Registration)], NEW n \in Targets, NEW t \in Types, NEW c \in BOOLEAN,
         NEW q \in Seq(Registration), IsFiniteSet(Slots(ls, t))
  PROVE  SlotsMove(ls, [ls EXCEPT ![<<n, t, c>>] = q], t, Len(ls[<<n, t, c>>]), Len(q))
<1> DEFINE l == <<n, t, c>>
           P == <<n, c>>
           new == [ls EXCEPT ![l] = q]
           A == {<<P, i>> : i \in 1..Len(ls[l])}
           B == {<<P, i>> : i \in 1..Len(q)}
           Rest == {x \in Slots(ls, t) : x[1] # P}
<1>1. l \in Lists /\ P \in Targets \X BOOLEAN /\ P[1] = n /\ P[2] = c
  BY DEF Lists
<1>2. \A p \in Targets \X BOOLEAN, u \in Types :
        <<p[1], u, p[2]>> \in Lists /\ (<<p[1], u, p[2]>> = l <=> p = P /\ u = t)
  BY DEF Lists
<1>3. \A m \in Lists : new[m] = IF m = l THEN q ELSE ls[m]
  OBVIOUS
<1>4. /\ ls[l] \in Seq(Registration) /\ DOMAIN ls[l] = 1..Len(ls[l]) /\ Len(ls[l]) \in Nat
      /\ DOMAIN q = 1..Len(q) /\ Len(q) \in Nat
  BY <1>1, SeqElements
<1>14. /\ \A x : x \in A <=> \E i \in 1..Len(ls[l]) : x = <<P, i>>
       /\ \A x : x \in B <=> \E i \in 1..Len(q) : x = <<P, i>>
       /\ \A x : x \in Rest <=> x \in Slots(ls, t) /\ x[1] # P
  OBVIOUS
<1>15. l = <<P[1], t, P[2]>>
  BY <1>1
<1> HIDE DEF l, P, new, A, B, Rest
<1>5. Slots(ls, t) = Rest \cup A
  <2>1. ASSUME NEW x \in Slots(ls, t) PROVE x \in Rest \cup A
    <3>1. PICK p \in Targets \X BOOLEAN : PlaceIn(ls, t, p, x)
      BY SlotsHold
    <3>2. PICK i \in DOMAIN ls[<<p[1], t, p[2]>>] : x = <<p, i>>
      BY <3>1 DEF PlaceIn
    <3>3. CASE p = P
      BY <1>4, <1>14, <1>15, <3>2, <3>3
    <3>4. CASE p # P
      BY <1>14, <3>2, <3>4
    <3> QED
      BY <3>3, <3>4
  <2>2. ASSUME NEW x \in A PROVE x \in Slots(ls, t)
    <3>1. PICK i \in 1..Len(ls[l]) : x = <<P, i>>
      BY <1>14
    <3>2. i \in DOMAIN ls[<<P[1], t, P[2]>>]
      BY <1>4, <1>15
    <3>3. PlaceIn(ls, t, P, x)
      BY <3>1, <3>2 DEF PlaceIn
    <3> QED
      BY <1>1, <3>3, SlotsHold
  <2> QED
    BY <1>14, <2>1, <2>2
<1>6. Slots(new, t) = Rest \cup B
  <2>1. ASSUME NEW x \in Slots(new, t) PROVE x \in Rest \cup B
    <3>1. PICK p \in Targets \X BOOLEAN : PlaceIn(new, t, p, x)
      BY SlotsHold
    <3>2. PICK i \in DOMAIN new[<<p[1], t, p[2]>>] : x = <<p, i>>
      BY <3>1 DEF PlaceIn
    <3>3. CASE p = P
      BY <1>1, <1>3, <1>4, <1>14, <1>15, <3>2, <3>3
    <3>4. CASE p # P
      <4>1. new[<<p[1], t, p[2]>>] = ls[<<p[1], t, p[2]>>]
        BY <1>2, <1>3, <3>4
      <4>2. x \in Slots(ls, t)
        BY <3>2, <4>1, SlotsHold DEF PlaceIn
      <4> QED
        BY <1>14, <3>2, <3>4, <4>2
    <3> QED
      BY <3>3, <3>4
  <2>2. ASSUME NEW x \in B PROVE x \in Slots(new, t)
    <3>1. PICK i \in 1..Len(q) : x = <<P, i>>
      BY <1>14
    <3>2. i \in DOMAIN new[<<P[1], t, P[2]>>]
      BY <1>1, <1>3, <1>4, <1>15
    <3>3. PlaceIn(new, t, P, x)
      BY <3>1, <3>2 DEF PlaceIn
    <3> QED
      BY <1>1, <3>3, SlotsHold
  <2>3. ASSUME NEW x \in Rest PROVE x \in Slots(new, t)
    <3>0. x \in Slots(ls, t) /\ x[1] # P
      BY <1>14
    <3>1. PICK p \in Targets \X BOOLEAN : PlaceIn(ls, t, p, x)
      BY <3>0, SlotsHold
    <3>2. PICK i \in DOMAIN ls[<<p[1], t, p[2]>>] : x = <<p, i>>
      BY <3>1 DEF PlaceIn
    <3>3. p # P
      BY <3>0, <3>2
    <3>4. new[<<p[1], t, p[2]>>] = ls[<<p[1], t, p[2]>>]
      BY <1>2, <1>3, <3>3
    <3> QED
      BY <3>2, <3>4, SlotsHold DEF PlaceIn
  <2> QED
    BY <2>1, <2>2, <2>3
<1>7. Rest \cap A = {} /\ Rest \cap B = {}
  <2>1. \A i : <<P, i>>[1] = P
    OBVIOUS
  <2> QED
    BY <1>14, <2>1
<1>8. IsFiniteSet(A) /\ Cardinality(A) = Len(ls[l]) /\ IsFiniteSet(B) /\ Cardinality(B) = Len(q)
  BY <1>4, RunCounts DEF A, B
<1>9. ASSUME NEW u \in Types, u # t PROVE Slots(new, u) = Slots(ls, u)
  <2>1. \A p \in Targets \X BOOLEAN : new[<<p[1], u, p[2]>>] = ls[<<p[1], u, p[2]>>]
    BY <1>2, <1>3, <1>9
  <2>3. \A x : \A p \in Targets \X BOOLEAN : PlaceIn(new, u, p, x) <=> PlaceIn(ls, u, p, x)
    BY <2>1 DEF PlaceIn
  <2>2. ASSUME NEW x PROVE x \in Slots(new, u) <=> x \in Slots(ls, u)
    BY <2>3, SlotsHold
  <2> QED
    BY <2>2
<1>10. IsFiniteSet(Rest) /\ Cardinality(Rest) \in Nat
  <2>1. Rest \in SUBSET Slots(ls, t)
    BY <1>14
  <2> QED
    BY <2>1, FS_Subset, FS_CardinalityType
<1>11. Cardinality(Slots(ls, t)) = Cardinality(Rest) + Len(ls[l])
  <2>1. Cardinality(Rest \cup A) = Cardinality(Rest) + Cardinality(A) - Cardinality(Rest \cap A)
    BY <1>8, <1>10, FS_Union
  <2>2. Cardinality(Rest \cap A) = 0
    BY <1>7, FS_EmptySet
  <2> QED
    BY <1>4, <1>5, <1>8, <1>10, <2>1, <2>2
<1>12. Cardinality(Slots(new, t)) = Cardinality(Rest) + Len(q) /\ IsFiniteSet(Slots(new, t))
  <2>1. /\ Cardinality(Rest \cup B) = Cardinality(Rest) + Cardinality(B) - Cardinality(Rest \cap B)
        /\ IsFiniteSet(Rest \cup B)
    BY <1>8, <1>10, FS_Union
  <2>2. Cardinality(Rest \cap B) = 0
    BY <1>7, FS_EmptySet
  <2> QED
    BY <1>4, <1>6, <1>8, <1>10, <2>1, <2>2
<1>13. /\ Cardinality(Slots(new, t)) = Cardinality(Slots(ls, t)) - Len(ls[l]) + Len(q)
       /\ Len(ls[l]) <= Cardinality(Slots(ls, t)) /\ Cardinality(Slots(ls, t)) \in Nat
  BY <1>4, <1>10, <1>11, <1>12
<1> QED
  <2>1. SlotsMove(ls, new, t, Len(ls[l]), Len(q))
    BY <1>4, <1>9, <1>12, <1>13 DEF SlotsMove
  <2> QED
    BY <2>1 DEF new, l

\* An empty page.
LEMMA NoListeners ==
  ListsOK([l \in Lists |-> << >>], 0) /\ CountsOK([l \in Lists |-> << >>], [t \in Types |-> 0], 0)
<1> DEFINE ls == [l \in Lists |-> << >>]
           cnt == [t \in Types |-> 0]
<1>1. \A l \in Lists : ls[l] = << >> /\ ToSet(ls[l]) = {}
  BY DEF ToSet
<1>2. ls \in [Lists -> Seq(Registration)]
  OBVIOUS
<1>3. ASSUME NEW t \in Types PROVE Slots(ls, t) = {}
  <2>1. \A p \in Targets \X BOOLEAN : <<p[1], t, p[2]>> \in Lists
    BY DEF Lists
  <2>2. \A p \in Targets \X BOOLEAN : DOMAIN ls[<<p[1], t, p[2]>>] = {}
    BY <1>1, <2>1
  <2>3. \A x : x \notin Slots(ls, t)
    BY <2>2, SlotsHold DEF PlaceIn
  <2> QED
    BY <2>3
<1>4. cnt \in [Types -> Nat] /\ \A t \in Types : cnt[t] = 0
  OBVIOUS
<1> HIDE DEF ls, cnt
<1>5. ListsOK(ls, 0)
  BY <1>1, <1>2 DEF ListsOK, Distinct
<1>6. CountsOK(ls, cnt, 0)
  BY <1>3, <1>4, FS_EmptySet DEF CountsOK
<1> QED
  BY <1>5, <1>6 DEF ls, cnt

\* A list has one member more, or lacks those of a callback.
Grown(ls, new, l, x) ==
  \A m \in Lists : ToSet(new[m]) = IF m = l THEN ToSet(ls[m]) \cup {x} ELSE ToSet(ls[m])
Without(ls, l, cb) == [ls EXCEPT ![l] = Dropping(ls[l], cb)]
Fewer(cnt, ls, l, cb) ==
  [cnt EXCEPT ![l[2]] = Lowered(@, Len(ls[l]) - Len(Dropping(ls[l], cb)))]
Shrunk(ls, new, l, cb) ==
  \A m \in Lists : ToSet(new[m]) =
    IF m = l THEN {e \in ToSet(ls[m]) : e.callback # cb} ELSE ToSet(ls[m])

\* addEventListener.
LEMMA Adding ==
  ASSUME NEW ls, NEW cnt, NEW n \in Nat, ListsOK(ls, n), CountsOK(ls, cnt, n),
         NEW l \in Lists, NEW x \in Registration, x.id = n + 1, ~Holds(ls[l], x.callback),
         NEW after, after = [ls EXCEPT ![l] = Append(@, x)],
         NEW now, now = [cnt EXCEPT ![l[2]] = @ + 1]
  PROVE  ListsOK(after, n + 1) /\ CountsOK(after, now, n + 1) /\ Grown(ls, after, l, x)
<1> DEFINE new == [ls EXCEPT ![l] = Append(@, x)]
           q == Append(ls[l], x)
<1>1. /\ ls \in [Lists -> Seq(Registration)] /\ ls[l] \in Seq(Registration)
      /\ Len(ls[l]) \in Nat
  BY SeqElements DEF ListsOK
<1>2. /\ q \in Seq(Registration) /\ DOMAIN q = 1..(Len(ls[l]) + 1) /\ q[Len(ls[l]) + 1] = x
      /\ Len(q) = Len(ls[l]) + 1
      /\ \A i \in 1..Len(ls[l]) : q[i] = ls[l][i] /\ i \in DOMAIN q /\ i # Len(ls[l]) + 1
      /\ \A i \in DOMAIN q : i \in 1..Len(ls[l]) \/ i = Len(ls[l]) + 1
  BY <1>1, AppendElements
<1>3. ToSet(q) = ToSet(ls[l]) \cup {x}
  <2>1. \A y : y \in ToSet(q) <=> \E i \in 1..Len(q) : q[i] = y
    BY <1>2, SeqMembers
  <2>2. \A y : y \in ToSet(ls[l]) <=> \E i \in 1..Len(ls[l]) : ls[l][i] = y
    BY <1>1, SeqMembers
  <2>3. Len(ls[l]) + 1 \in 1..Len(q)
    BY <1>1, <1>2
  <2> HIDE DEF q
  <2>4. ASSUME NEW y \in ToSet(q) PROVE y \in ToSet(ls[l]) \cup {x}
    <3>1. PICK i \in 1..Len(q) : q[i] = y
      BY <2>1
    <3>2. i \in 1..Len(ls[l]) \/ i = Len(ls[l]) + 1
      BY <1>2
    <3> QED
      BY <1>2, <2>2, <3>1, <3>2
  <2>5. ASSUME NEW y \in ToSet(ls[l]) PROVE y \in ToSet(q)
    <3>1. PICK i \in 1..Len(ls[l]) : ls[l][i] = y
      BY <2>2
    <3>2. q[i] = y /\ i \in 1..Len(q)
      BY <1>2, <3>1
    <3> QED
      BY <2>1, <3>2
  <2>6. x \in ToSet(q)
    BY <1>2, <2>1, <2>3
  <2> QED
    BY <2>4, <2>5, <2>6
<1>4. /\ new \in [Lists -> Seq(Registration)] /\ new[l] = q
      /\ \A m \in Lists : m # l => new[m] = ls[m]
  BY <1>1, <1>2
<1>5. Distinct(q)
  <2>1. \A i \in 1..Len(ls[l]) : ls[l][i].callback # x.callback
    BY <1>1, SeqElements DEF Holds
  <2> HIDE DEF q
  <2>2. Distinct(ls[l])
    BY DEF ListsOK
  <2>3. ASSUME NEW i \in 1..Len(q), NEW j \in 1..Len(q), q[i].callback = q[j].callback PROVE i = j
    <3>1. i \in DOMAIN q /\ j \in DOMAIN q
      BY <1>2
    <3> QED
      BY <1>2, <2>1, <2>2, <2>3, <3>1 DEF Distinct
  <2> QED
    BY <2>3 DEF Distinct
<1> HIDE DEF new, q
<1>6. \A m \in Lists : ToSet(new[m]) = IF m = l THEN ToSet(ls[m]) \cup {x} ELSE ToSet(ls[m])
  BY <1>3, <1>4
<1>7. \A m \in Lists : \A y \in ToSet(ls[m]) : y \in Registration /\ y.id \in Nat /\ y.id <= n
  <2>1. ASSUME NEW m \in Lists, NEW y \in ToSet(ls[m]) PROVE y \in Registration
    <3>1. ls[m] \in Seq(Registration)
      BY <1>1
    <3> QED
      BY <2>1, <3>1, SeqMembers
  <2> QED
    BY <2>1 DEF ListsOK, Registration
<1>8. ListsOK(new, n + 1)
  <2>0. \A m \in Lists : Distinct(ls[m])
    BY DEF ListsOK
  <2>1. \A m \in Lists : Distinct(new[m])
    <3> SUFFICES ASSUME NEW m \in Lists PROVE Distinct(new[m])
      OBVIOUS
    <3>1. CASE m = l
      BY <1>4, <1>5, <3>1
    <3>2. CASE m # l
      BY <1>4, <2>0, <3>2
    <3> QED
      BY <3>1, <3>2
  <2>2. \A m \in Lists : \A y \in ToSet(new[m]) : y.id <= n + 1
    <3> SUFFICES ASSUME NEW m \in Lists, NEW y \in ToSet(new[m]) PROVE y.id <= n + 1
      OBVIOUS
    <3>1. y = x \/ y \in ToSet(ls[m])
      BY <1>6
    <3>2. y \in ToSet(ls[m]) => y.id \in Nat /\ y.id <= n
      BY <1>7
    <3>3. n + 1 <= n + 1 /\ \A k \in Nat : k <= n => k <= n + 1
      OBVIOUS
    <3> QED
      BY <3>1, <3>2, <3>3
  <2>3. ASSUME NEW k \in Lists, NEW m \in Lists, NEW y \in ToSet(new[k]), NEW z \in ToSet(new[m]), y.id = z.id
        PROVE  k = m /\ y = z
    <3>1. (k = l /\ y = x) \/ y \in ToSet(ls[k])
      BY <1>6
    <3>2. (m = l /\ z = x) \/ z \in ToSet(ls[m])
      BY <1>6
    <3>3. y \in ToSet(ls[k]) => y.id # n + 1
      BY <1>7
    <3>4. z \in ToSet(ls[m]) => z.id # n + 1
      BY <1>7
    <3>5. CASE y \in ToSet(ls[k]) /\ z \in ToSet(ls[m])
      BY <2>3, <3>5 DEF ListsOK
    <3> QED
      BY <2>3, <3>1, <3>2, <3>3, <3>4, <3>5
  <2> QED
    BY <1>4, <2>1, <2>2, <2>3 DEF ListsOK
<1>9. CountsOK(new, [cnt EXCEPT ![l[2]] = @ + 1], n + 1)
  <2> DEFINE up == [cnt EXCEPT ![l[2]] = @ + 1]
  <2>1. PICK nd \in Targets, t \in Types, c \in BOOLEAN : l = <<nd, t, c>>
    BY DEF Lists
  <2>2. l[2] = t /\ new = [ls EXCEPT ![<<nd, t, c>>] = q]
    BY <2>1 DEF new, q
  <2>3. /\ cnt \in [Types -> Nat] /\ IsFiniteSet(Slots(ls, t)) /\ cnt[t] = Cardinality(Slots(ls, t))
        /\ cnt[t] <= n /\ cnt[t] \in Nat
    BY DEF CountsOK
  <2>8. SlotsMove(ls, new, t, Len(ls[l]), Len(q))
    BY <1>1, <1>2, <2>1, <2>2, <2>3, SlotsChange
  <2>4. /\ IsFiniteSet(Slots(new, t))
        /\ Cardinality(Slots(new, t)) = Cardinality(Slots(ls, t)) - Len(ls[l]) + Len(q)
        /\ \A u \in Types : u # t => Slots(new, u) = Slots(ls, u)
    BY <2>8 DEF SlotsMove
  <2>5. Cardinality(Slots(new, t)) = cnt[t] + 1
    BY <1>1, <1>2, <2>3, <2>4
  <2>6. up \in [Types -> Nat] /\ up[t] = cnt[t] + 1 /\ \A u \in Types : u # t => up[u] = cnt[u]
    BY <2>2, <2>3
  <2> HIDE DEF up
  <2>7. ASSUME NEW u \in Types
        PROVE  IsFiniteSet(Slots(new, u)) /\ up[u] = Cardinality(Slots(new, u)) /\ up[u] <= n + 1
    <3>1. CASE u = t
      BY <2>3, <2>4, <2>5, <2>6, <3>1
    <3>2. CASE u # t
      <4>1. IsFiniteSet(Slots(ls, u)) /\ cnt[u] = Cardinality(Slots(ls, u)) /\ cnt[u] <= n /\ cnt[u] \in Nat
        BY DEF CountsOK
      <4> QED
        BY <2>4, <2>6, <3>2, <4>1
    <3> QED
      BY <3>1, <3>2
  <2> QED
    BY <2>6, <2>7 DEF CountsOK, up
<1> QED
  BY <1>6, <1>8, <1>9 DEF new, Grown

\* removeEventListener, and the end of a once listener.
LEMMA Removing ==
  ASSUME NEW ls, NEW cnt, NEW n \in Nat, ListsOK(ls, n), CountsOK(ls, cnt, n),
         NEW l \in Lists, NEW cb,
         NEW after, after = Without(ls, l, cb), NEW now, now = Fewer(cnt, ls, l, cb)
  PROVE  ListsOK(after, n) /\ CountsOK(after, now, n) /\ Shrunk(ls, after, l, cb)
<1> DEFINE q == Dropping(ls[l], cb)
           new == [ls EXCEPT ![l] = q]
<1>1. /\ ls \in [Lists -> Seq(Registration)] /\ ls[l] \in Seq(Registration)
      /\ Len(ls[l]) \in Nat /\ Distinct(ls[l])
  BY SeqElements DEF ListsOK
<1>2. /\ q \in Seq(Registration) /\ Distinct(q) /\ Len(q) <= Len(ls[l]) /\ Len(q) \in Nat
      /\ ToSet(q) = {e \in ToSet(ls[l]) : e.callback # cb}
  BY <1>1, DroppingFacts, SeqElements
<1> HIDE DEF q
<1>3. /\ new \in [Lists -> Seq(Registration)] /\ new[l] = q
      /\ \A m \in Lists : m # l => new[m] = ls[m]
  BY <1>1, <1>2
<1> HIDE DEF new
<1>4. \A m \in Lists : ToSet(new[m]) = IF m = l THEN {e \in ToSet(ls[m]) : e.callback # cb} ELSE ToSet(ls[m])
  BY <1>2, <1>3
<1>5. \A m \in Lists : ToSet(new[m]) \subseteq ToSet(ls[m])
  BY <1>4
<1>6. ListsOK(new, n)
  <2>1. \A m \in Lists : Distinct(new[m])
    BY <1>2, <1>3 DEF ListsOK
  <2>2. \A m \in Lists : \A x \in ToSet(new[m]) : x.id <= n
    BY <1>5 DEF ListsOK
  <2>3. \A m, k \in Lists : \A x \in ToSet(new[m]), y \in ToSet(new[k]) :
          x.id = y.id => m = k /\ x = y
    BY <1>5 DEF ListsOK
  <2> QED
    BY <1>3, <2>1, <2>2, <2>3 DEF ListsOK
<1>7. CountsOK(new, [cnt EXCEPT ![l[2]] = Lowered(@, Len(ls[l]) - Len(q))], n)
  <2> DEFINE down == [cnt EXCEPT ![l[2]] = Lowered(@, Len(ls[l]) - Len(q))]
  <2>1. PICK nd \in Targets, t \in Types, c \in BOOLEAN : l = <<nd, t, c>>
    BY DEF Lists
  <2>2. l[2] = t /\ new = [ls EXCEPT ![<<nd, t, c>>] = q]
    BY <2>1 DEF new
  <2>3. /\ cnt \in [Types -> Nat] /\ IsFiniteSet(Slots(ls, t)) /\ cnt[t] = Cardinality(Slots(ls, t))
        /\ cnt[t] <= n /\ cnt[t] \in Nat
    BY DEF CountsOK
  <2>4. /\ IsFiniteSet(Slots(new, t))
        /\ Cardinality(Slots(new, t)) = Cardinality(Slots(ls, t)) - Len(ls[l]) + Len(q)
        /\ Len(ls[l]) <= Cardinality(Slots(ls, t))
        /\ \A u \in Types : u # t => Slots(new, u) = Slots(ls, u)
    <3>1. SlotsMove(ls, new, t, Len(ls[l]), Len(q))
      BY <1>1, <1>2, <2>1, <2>2, <2>3, SlotsChange
    <3> QED
      BY <3>1 DEF SlotsMove
  <2>5. /\ Cardinality(Slots(new, t)) = Lowered(cnt[t], Len(ls[l]) - Len(q))
        /\ Lowered(cnt[t], Len(ls[l]) - Len(q)) \in Nat
        /\ Lowered(cnt[t], Len(ls[l]) - Len(q)) <= n
    BY <1>1, <1>2, <2>3, <2>4 DEF Lowered
  <2>6. /\ down \in [Types -> Nat] /\ down[t] = Lowered(cnt[t], Len(ls[l]) - Len(q))
        /\ \A u \in Types : u # t => down[u] = cnt[u]
    BY <2>2, <2>3, <2>5
  <2> HIDE DEF down
  <2>7. ASSUME NEW u \in Types
        PROVE  IsFiniteSet(Slots(new, u)) /\ down[u] = Cardinality(Slots(new, u)) /\ down[u] <= n
    <3>1. CASE u = t
      BY <2>3, <2>4, <2>5, <2>6, <3>1
    <3>2. CASE u # t
      <4>1. IsFiniteSet(Slots(ls, u)) /\ cnt[u] = Cardinality(Slots(ls, u)) /\ cnt[u] <= n /\ cnt[u] \in Nat
        BY DEF CountsOK
      <4> QED
        BY <2>4, <2>6, <3>2, <4>1
    <3> QED
      BY <3>1, <3>2
  <2> QED
    BY <2>6, <2>7 DEF CountsOK, down
<1> QED
  BY <1>4, <1>6, <1>7 DEF new, q, Shrunk, Without, Fewer

\* The bounds by the number of steps only grow.
LEMMA Later ==
  ASSUME NEW ls, NEW cnt, NEW n \in Nat, ListsOK(ls, n), CountsOK(ls, cnt, n)
  PROVE  ListsOK(ls, n + 1) /\ CountsOK(ls, cnt, n + 1)
<1>1. \A l \in Lists : \A x \in ToSet(ls[l]) : x.id <= n + 1
  <2> SUFFICES ASSUME NEW l \in Lists, NEW x \in ToSet(ls[l]) PROVE x.id <= n + 1
    OBVIOUS
  <2>1. ls[l] \in Seq(Registration)
    BY DEF ListsOK
  <2>2. x \in Registration
    BY <2>1, SeqMembers
  <2> QED
    BY <2>2 DEF ListsOK, Registration
<1>2. \A t \in Types : cnt[t] \in Nat /\ cnt[t] <= n + 1
  BY DEF CountsOK
<1> QED
  BY <1>1, <1>2 DEF ListsOK, CountsOK

-----------------------------------------------------------------------------
(***************************************************************************)
(* A dispatch: what a frame may rely on, and each thing that happens to it.*)
(***************************************************************************)
\* The event objects, and what their flags imply.
EventsOK(evs) ==
  /\ evs \in Seq(EventObject) /\ Len(evs) <= MaxEvents
  /\ \A e \in DOMAIN evs : /\ evs[e].immediate => evs[e].stop
                           /\ evs[e].prevented => evs[e].cancelable

\* The list of a stop, and a callback of that list.
PlaceOf(f, k) == <<f.stops[k].node, f.type, f.stops[k].capture>>
Told(stop, callback) == [node |-> stop.node, capture |-> stop.capture, callback |-> callback]

\* A frame has its shape, and nothing was heard before the first stop.
FrameTyped(f, evs, n) ==
  /\ f \in Dispatch /\ f.event \in DOMAIN evs /\ RouteOK(f.stops) /\ f.at <= Len(f.stops)
  /\ f.at = 0 => f.entries = << >> /\ f.heard = << >> /\ f.calling = NoEntry
  /\ f.calling.id <= n /\ \A x \in ToSet(f.entries) : x.id <= n

\* What waits or runs in a frame is in its list or nowhere any more.
Known(f, ls) ==
  \A x \in ToSet(f.entries) \cup {f.calling} : x.id # 0 =>
    \A l \in Lists : \A y \in ToSet(ls[l]) : y.id = x.id => y = x /\ l = PlaceOf(f, f.at)

\* No listener hears an event twice in a dispatch.
HeardOnce(f) == \A i, j \in 1..Len(f.heard) : f.heard[i] = f.heard[j] => i = j
HeardAbove(f) ==
  \A h \in ToSet(f.heard) : \E k \in 1..f.at :
    h.node = f.stops[k].node /\ h.capture = f.stops[k].capture

\* What was heard was heard once and on the way, and what waits was not heard.
Hears(f) ==
  /\ HeardOnce(f) /\ HeardAbove(f) /\ Distinct(f.entries)
  /\ \A x \in ToSet(f.entries) : Told(f.stops[f.at], x.callback) \notin ToSet(f.heard)

InEntries(f, h) == \E x \in ToSet(f.entries) : h = Told(f.stops[f.at], x.callback)
InList(f, ls, h, k) == \E y \in ToSet(ls[PlaceOf(f, k)]) : h = Told(f.stops[k], y.callback)
\* Called later: the listener waits in the copied list, or in a list ahead.
Awaits(f, ls, h) ==
  InEntries(f, h) \/ \E k \in 1..Len(f.stops) : k > f.at /\ InList(f, ls, h, k)

\* A listener on the path when the dispatch began was called, or will be.
Owes(f, ls, evs) ==
  evs[f.event].stop \/ \A h \in f.due : h \in ToSet(f.heard) \/ Awaits(f, ls, h)

\* Where an event was stopped is where its listeners still run.
Stopped(f, evs) ==
  evs[f.event].stop /\ f.at > 0 /\ (f.entries # << >> \/ f.at < Len(f.stops)) =>
    f.stops[f.at].node \in evs[f.event].stoppedIn

\* What every frame of the stack satisfies.
FrameOK(f, ls, evs, n) ==
  FrameTyped(f, evs, n) /\ Known(f, ls) /\ Hears(f) /\ Owes(f, ls, evs) /\ Stopped(f, evs)

\* The fields of a frame.
LEMMA FrameFields ==
  ASSUME NEW f \in Dispatch
  PROVE  /\ f.event \in Nat /\ f.type \in Types /\ f.stops \in Seq(Stop) /\ f.at \in Nat
         /\ f.entries \in Seq(Registration) /\ f.calling \in Registration \cup {NoEntry, OnmessageCall}
         /\ f.trusted \in BOOLEAN /\ f.handler \in BOOLEAN /\ f.due \subseteq Hearing
         /\ f.heard \in Seq(Hearing)
         /\ f.calling.id \in Nat /\ \A x \in ToSet(f.entries) : x \in Registration /\ x.id \in Nat \ {0}
         /\ Len(f.stops) \in Nat /\ \A k \in 1..Len(f.stops) : f.stops[k] \in Stop /\ PlaceOf(f, k) \in Lists
<1>1. /\ f.event \in Nat /\ f.type \in Types /\ f.stops \in Seq(Stop) /\ f.at \in Nat
      /\ f.entries \in Seq(Registration) /\ f.calling \in Registration \cup {NoEntry, OnmessageCall}
      /\ f.trusted \in BOOLEAN /\ f.handler \in BOOLEAN /\ f.due \subseteq Hearing
      /\ f.heard \in Seq(Hearing)
  BY DEF Dispatch
<1>2. f.calling.id \in Nat
  BY <1>1 DEF Registration, NoEntry, OnmessageCall
<1>3. \A x \in ToSet(f.entries) : x \in Registration /\ x.id \in Nat \ {0}
  <2>1. \A x \in ToSet(f.entries) : x \in Registration
    BY <1>1, SeqMembers
  <2> QED
    BY <2>1 DEF Registration
<1>4. Len(f.stops) \in Nat /\ \A k \in 1..Len(f.stops) : f.stops[k] \in Stop
  BY <1>1, SeqElements
<1>5. \A k \in 1..Len(f.stops) : PlaceOf(f, k) \in Lists
  BY <1>1, <1>4 DEF PlaceOf, Lists, Stop
<1> QED
  BY <1>1, <1>2, <1>3, <1>4, <1>5

\* A new registration.
LEMMA FrameAdding ==
  ASSUME NEW f, NEW ls, NEW new, NEW evs, NEW n \in Nat, FrameOK(f, ls, evs, n),
         NEW l \in Lists, NEW x, x.id = n + 1,
         \A m \in Lists : ToSet(new[m]) = IF m = l THEN ToSet(ls[m]) \cup {x} ELSE ToSet(ls[m])
  PROVE  FrameOK(f, new, evs, n + 1)
<1>0. f \in Dispatch
  BY DEF FrameOK, FrameTyped
<1>1. FrameTyped(f, evs, n + 1)
  <2>1. f.calling.id \in Nat /\ \A y \in ToSet(f.entries) : y.id \in Nat
    BY <1>0, FrameFields
  <2>2. f.calling.id <= n + 1
    BY <2>1 DEF FrameOK, FrameTyped
  <2>3. \A y \in ToSet(f.entries) : y.id <= n + 1
    <3> SUFFICES ASSUME NEW y \in ToSet(f.entries) PROVE y.id <= n + 1
      OBVIOUS
    <3>1. y.id <= n /\ y.id \in Nat
      BY <2>1 DEF FrameOK, FrameTyped
    <3> QED
      BY <3>1
  <2> QED
    BY <2>2, <2>3 DEF FrameOK, FrameTyped
<1>2. Known(f, new)
  <2> SUFFICES ASSUME NEW y \in ToSet(f.entries) \cup {f.calling}, y.id # 0,
                      NEW m \in Lists, NEW z \in ToSet(new[m]), z.id = y.id
               PROVE  z = y /\ m = PlaceOf(f, f.at)
    BY DEF Known
  <2>1. y.id <= n
    BY DEF FrameOK, FrameTyped
  <2>2. y.id \in Nat
    BY <1>0, FrameFields
  <2>3. z # x
    BY <2>1, <2>2
  <2>4. z \in ToSet(ls[m])
    BY <2>3
  <2> QED
    BY <2>4 DEF FrameOK, Known
<1>3. Owes(f, new, evs)
  <2>1. ASSUME NEW h, Awaits(f, ls, h) PROVE Awaits(f, new, h)
    <3>1. \A k \in 1..Len(f.stops) : ToSet(ls[PlaceOf(f, k)]) \subseteq ToSet(new[PlaceOf(f, k)])
      BY <1>0, FrameFields
    <3> QED
      BY <2>1, <3>1 DEF Awaits, InList
  <2> QED
    BY <2>1 DEF FrameOK, Owes
<1> QED
  BY <1>1, <1>2, <1>3 DEF FrameOK

\* What a frame keeps of its dues when a listener leaves the list l.
Excused(f, t, h) == IF f.type # t THEN f ELSE [f EXCEPT !.due = @ \ {h}]

\* A callback is removed from a list, and what it was owed is forgiven.
LEMMA FrameRemoving ==
  ASSUME NEW f, NEW ls, NEW new, NEW evs, NEW n \in Nat, FrameOK(f, ls, evs, n),
         NEW nd \in Targets, NEW t \in Types, NEW c \in BOOLEAN, NEW cb,
         \A m \in Lists : ToSet(new[m]) =
           IF m = <<nd, t, c>> THEN {e \in ToSet(ls[m]) : e.callback # cb} ELSE ToSet(ls[m])
  PROVE  FrameOK(Excused(f, t, [node |-> nd, capture |-> c, callback |-> cb]), new, evs, n)
<1> DEFINE h == [node |-> nd, capture |-> c, callback |-> cb]
           g == Excused(f, t, h)
<1>0. f \in Dispatch
  BY DEF FrameOK, FrameTyped
<1>1. /\ g \in Dispatch /\ g.event = f.event /\ g.type = f.type /\ g.stops = f.stops /\ g.at = f.at
      /\ g.entries = f.entries /\ g.calling = f.calling /\ g.heard = f.heard
      /\ g.due = (IF f.type # t THEN f.due ELSE f.due \ {h})
  BY <1>0 DEF Excused, Dispatch
<1>2. h.node = nd /\ h.capture = c /\ h.callback = cb
  OBVIOUS
<1> HIDE DEF g, h
<1>3. FrameTyped(g, evs, n)
  BY <1>1 DEF FrameOK, FrameTyped
<1>4. Known(g, new)
  <2>1. \A m \in Lists : ToSet(new[m]) \subseteq ToSet(ls[m])
    OBVIOUS
  <2>2. \A k : PlaceOf(g, k) = PlaceOf(f, k)
    BY <1>1 DEF PlaceOf
  <2> QED
    BY <1>1, <2>1, <2>2 DEF FrameOK, Known
<1>5. Hears(g)
  BY <1>1 DEF FrameOK, Hears, HeardOnce, HeardAbove
<1>6. Owes(g, new, evs)
  <2>1. CASE evs[f.event].stop
    BY <1>1, <2>1 DEF Owes
  <2>2. CASE ~evs[f.event].stop
    <3> SUFFICES ASSUME NEW d \in g.due, d \notin ToSet(f.heard) PROVE Awaits(g, new, d)
      BY <1>1 DEF Owes
    <3>1. Awaits(f, ls, d)
      BY <1>1, <2>2 DEF FrameOK, Owes
    <3>2. CASE InEntries(f, d)
      BY <1>1, <3>2 DEF Awaits, InEntries
    <3>3. ASSUME NEW k \in 1..Len(f.stops), k > f.at, InList(f, ls, d, k) PROVE Awaits(g, new, d)
      <4>1. PICK y \in ToSet(ls[PlaceOf(f, k)]) : d = Told(f.stops[k], y.callback)
        BY <3>3 DEF InList
      <4>2. PlaceOf(f, k) \in Lists /\ PlaceOf(g, k) = PlaceOf(f, k)
        BY <1>0, <1>1, FrameFields DEF PlaceOf
      <4>3. y \in ToSet(new[PlaceOf(f, k)])
        <5>1. CASE PlaceOf(f, k) = <<nd, t, c>> /\ y.callback = cb
          <6>1. f.type = t /\ f.stops[k].node = nd /\ f.stops[k].capture = c
            BY <5>1 DEF PlaceOf
          <6>2. d = h
            BY <4>1, <5>1, <6>1 DEF Told, h
          <6> QED
            BY <1>1, <6>1, <6>2
        <5> QED
          BY <4>1, <4>2, <5>1
      <4>4. InList(g, new, d, k)
        BY <1>1, <4>1, <4>2, <4>3 DEF InList
      <4> QED
        BY <1>1, <3>3, <4>4 DEF Awaits
    <3> QED
      BY <3>1, <3>2, <3>3 DEF Awaits
  <2> QED
    BY <2>1, <2>2
<1>7. Stopped(g, evs)
  BY <1>1 DEF FrameOK, Stopped
<1> QED
  BY <1>3, <1>4, <1>5, <1>6, <1>7 DEF FrameOK, g, h

\* Time passes, and events change but for their stop flags.
LEMMA FrameRests ==
  ASSUME NEW f, NEW ls, NEW evs, NEW new, NEW n \in Nat, NEW m \in Nat, n <= m, FrameOK(f, ls, evs, n),
         f.event \in DOMAIN new, new[f.event].stop = evs[f.event].stop,
         new[f.event].stoppedIn = evs[f.event].stoppedIn
  PROVE  FrameOK(f, ls, new, m)
<1>0. f \in Dispatch
  BY DEF FrameOK, FrameTyped
<1>1. f.calling.id \in Nat /\ \A y \in ToSet(f.entries) : y.id \in Nat
  BY <1>0, FrameFields
<1>2. f.calling.id <= m
  BY <1>1 DEF FrameOK, FrameTyped
<1>3. \A y \in ToSet(f.entries) : y.id <= m
  <2> SUFFICES ASSUME NEW y \in ToSet(f.entries) PROVE y.id <= m
    OBVIOUS
  <2>1. y.id <= n /\ y.id \in Nat
    BY <1>1 DEF FrameOK, FrameTyped
  <2> QED
    BY <2>1
<1>4. FrameTyped(f, new, m)
  BY <1>2, <1>3 DEF FrameOK, FrameTyped
<1>5. Owes(f, ls, new) /\ Stopped(f, new)
  BY DEF FrameOK, Owes, Stopped
<1> QED
  BY <1>4, <1>5 DEF FrameOK

\* An event is stopped: in each of its dispatches, where that is.
LEMMA FrameStops ==
  ASSUME NEW f, NEW ls, NEW evs, NEW new, NEW n \in Nat, FrameOK(f, ls, evs, n),
         DOMAIN new = DOMAIN evs, new[f.event].stop,
         f.at > 0 /\ ~evs[f.event].stop => f.stops[f.at].node \in new[f.event].stoppedIn,
         evs[f.event].stop => new[f.event].stoppedIn = evs[f.event].stoppedIn
  PROVE  FrameOK(f, ls, new, n)
<1>1. FrameTyped(f, new, n)
  BY DEF FrameOK, FrameTyped
<1>2. Owes(f, ls, new) /\ Stopped(f, new)
  BY DEF FrameOK, Owes, Stopped
<1> QED
  BY <1>1, <1>2 DEF FrameOK

\* Min of the community module is the least element.
LEMMA SetMin ==
  ASSUME NEW S \in SUBSET Nat, S # {}
  PROVE  Min(S) \in S /\ \A k \in S : Min(S) <= k
<1>1. PICK m \in S : \A k \in S : m <= k
  BY NatMin
<1> QED
  BY <1>1 DEF Min

\* A dispatch begins.
LEMMA FrameBegins ==
  ASSUME TreeOK(parent), NEW n \in Nat, ListsOK(listeners, n), NEW evs, NEW e \in DOMAIN evs, e \in Nat,
         evs[e] \in EventObject, NEW node \in Targets, NEW trusted \in BOOLEAN, NEW handler \in BOOLEAN
  PROVE  FrameOK(FrameOf(e, evs[e], node, trusted, handler), listeners, evs, n)
<1> DEFINE event == evs[e]
           s == Stops(node, event.bubbles)
           due == Owed(node, event)
           f == FrameOf(e, event, node, trusted, handler)
           p == ancestor_path(node)
<1>1. event.type \in Types /\ event.bubbles \in BOOLEAN
  BY DEF EventObject
<1>2. /\ RouteOK(s)
      /\ \A x \in ToSet(p), c \in BOOLEAN : x = node \/ c \/ event.bubbles =>
           \E k \in 1..Len(s) : s[k].node = x /\ s[k].capture = c
  BY <1>1, StopsFacts
<1>3. ToSet(p) \subseteq Targets
  <2>1. p \in Seq(Targets)
    BY RoutePath
  <2> QED
    BY <2>1, SeqMembers
<1>4. \A h \in due : \E x \in ToSet(p), c \in BOOLEAN : \E en \in ToSet(listeners[<<x, event.type, c>>]) :
        h = [node |-> x, capture |-> c, callback |-> en.callback] /\ (x = node \/ c \/ event.bubbles)
  <2> SUFFICES ASSUME NEW h \in due
               PROVE  \E x \in ToSet(p), c \in BOOLEAN : \E en \in ToSet(listeners[<<x, event.type, c>>]) :
                        h = [node |-> x, capture |-> c, callback |-> en.callback] /\ (x = node \/ c \/ event.bubbles)
    OBVIOUS
  <2>1. PICK at \in ToSet(p) \X BOOLEAN :
          /\ at[1] = node \/ at[2] \/ event.bubbles
          /\ \E en \in ToSet(listeners[<<at[1], event.type, at[2]>>]) :
               h = [node |-> at[1], capture |-> at[2], callback |-> en.callback]
    BY DEF Owed
  <2>2. at[1] \in ToSet(p) /\ at[2] \in BOOLEAN
    OBVIOUS
  <2> QED
    BY <2>1, <2>2
<1>5. listeners \in [Lists -> Seq(Registration)]
  BY DEF ListsOK
<1>6. due \subseteq Hearing
  <2> SUFFICES ASSUME NEW h \in due PROVE h \in Hearing
    OBVIOUS
  <2>1. PICK x \in ToSet(p), c \in BOOLEAN : \E en \in ToSet(listeners[<<x, event.type, c>>]) :
        h = [node |-> x, capture |-> c, callback |-> en.callback] /\ (x = node \/ c \/ event.bubbles)
    BY <1>4
  <2>2. PICK en \in ToSet(listeners[<<x, event.type, c>>]) : h = [node |-> x, capture |-> c, callback |-> en.callback]
    BY <2>1
  <2>3. <<x, event.type, c>> \in Lists /\ x \in Targets
    BY <1>1, <1>3 DEF Lists
  <2>4. listeners[<<x, event.type, c>>] \in Seq(Registration)
    BY <1>5, <2>3
  <2>5. en \in Registration
    BY <2>4, SeqMembers
  <2> QED
    BY <2>2, <2>3, <2>5 DEF Hearing, Registration
<1> HIDE DEF event, s, due, p
<1>7. f = [event |-> e, type |-> event.type, stops |-> s, at |-> 0, entries |-> << >>, calling |-> NoEntry,
           trusted |-> trusted, handler |-> handler, due |-> due, heard |-> << >>]
  BY DEF FrameOf, s, due
<1>8. /\ f.event = e /\ f.type = event.type /\ f.stops = s /\ f.at = 0 /\ f.entries = << >>
      /\ f.calling = NoEntry /\ f.due = due /\ f.heard = << >> /\ NoEntry.id = 0 /\ ToSet(f.entries) = {}
      /\ ToSet(f.heard) = {} /\ Len(f.heard) = 0 /\ Len(f.entries) = 0
  BY <1>7 DEF NoEntry, ToSet
<1>9. f \in Dispatch
  <2>1. s \in Seq(Stop) /\ << >> \in Seq(Registration) /\ << >> \in Seq(Hearing)
    BY <1>2 DEF RouteOK
  <2> HIDE DEF f
  <2> QED
    BY <1>1, <1>6, <1>7, <2>1 DEF Dispatch
<1> HIDE DEF f
<1>10. FrameTyped(f, evs, n)
  <2>1. Len(s) \in Nat
    BY <1>2, SeqElements DEF RouteOK
  <2> QED
    BY <1>2, <1>8, <1>9, <2>1 DEF FrameTyped
<1>11. Known(f, listeners)
  BY <1>8 DEF Known
<1>12. Hears(f)
  BY <1>8 DEF Hears, HeardOnce, HeardAbove, Distinct
<1>13. Owes(f, listeners, evs)
  <2> SUFFICES ASSUME NEW h \in due PROVE Awaits(f, listeners, h)
    BY <1>8 DEF Owes
  <2>1. PICK x \in ToSet(p), c \in BOOLEAN : \E en \in ToSet(listeners[<<x, event.type, c>>]) :
        h = [node |-> x, capture |-> c, callback |-> en.callback] /\ (x = node \/ c \/ event.bubbles)
    BY <1>4
  <2>2. PICK en \in ToSet(listeners[<<x, event.type, c>>]) : h = [node |-> x, capture |-> c, callback |-> en.callback]
    BY <2>1
  <2>3. PICK k \in 1..Len(s) : s[k].node = x /\ s[k].capture = c
    BY <1>2, <2>1
  <2>4. InList(f, listeners, h, k)
    BY <1>8, <2>2, <2>3 DEF InList, PlaceOf, Told
  <2>5. k \in 1..Len(f.stops) /\ k > f.at
    BY <1>8, <2>3
  <2> QED
    BY <2>4, <2>5 DEF Awaits
<1>14. Stopped(f, evs)
  BY <1>8 DEF Stopped
<1> QED
  BY <1>10, <1>11, <1>12, <1>13, <1>14 DEF FrameOK, f, event

\* A list is copied.
LEMMA FrameArrives ==
  ASSUME NEW n \in Nat, ListsOK(listeners, n), NEW evs, NEW f, FrameOK(f, listeners, evs, n),
         evs[f.event].immediate => evs[f.event].stop,
         f.entries = << >>, f.calling = NoEntry, Ahead(f, evs[f.event]) # {},
         NEW k, k = Min(Ahead(f, evs[f.event]))
  PROVE  /\ FrameOK([f EXCEPT !.at = k, !.entries = ListOf(f, k)], listeners, evs, n)
         /\ k \in 1..Len(f.stops)
<1> DEFINE ahead == Ahead(f, evs[f.event])
           q == ListOf(f, k)
           g == [f EXCEPT !.at = k, !.entries = q]
<1>0. /\ f \in Dispatch /\ RouteOK(f.stops) /\ f.at \in Nat /\ Len(f.stops) \in Nat /\ f.at <= Len(f.stops)
  BY FrameFields DEF FrameOK, FrameTyped
<1>1. ahead \in SUBSET Nat
  BY <1>0 DEF Ahead
<1>2. k \in ahead /\ \A j \in ahead : k <= j
  BY <1>1, SetMin
<1>3. /\ k \in (f.at + 1)..Len(f.stops) /\ ~evs[f.event].immediate
      /\ (evs[f.event].stop => /\ f.at > 0 /\ k = f.at + 1
                               /\ f.stops[f.at].phase = 2 /\ f.stops[k].phase = 2)
      /\ q # << >>
  BY <1>2 DEF Ahead
<1>4. k \in 1..Len(f.stops) /\ k > f.at /\ k \in Nat /\ k # 0
  BY <1>0, <1>3
<1>5. q = listeners[PlaceOf(f, k)] /\ PlaceOf(f, k) \in Lists
  BY <1>0, <1>4, FrameFields DEF ListOf, PlaceOf
<1>6. /\ q \in Seq(Registration) /\ Distinct(q)
      /\ \A x \in ToSet(q) : x.id <= n
      /\ \A x \in ToSet(q) : \A l \in Lists : \A y \in ToSet(listeners[l]) :
           y.id = x.id => y = x /\ l = PlaceOf(f, k)
  BY <1>5 DEF ListsOK
<1> HIDE DEF q
<1>7. /\ g \in Dispatch /\ g.event = f.event /\ g.type = f.type /\ g.stops = f.stops /\ g.at = k
      /\ g.entries = q /\ g.calling = NoEntry /\ g.heard = f.heard /\ g.due = f.due
  BY <1>0, <1>4, <1>6 DEF Dispatch
<1> HIDE DEF g, ahead
<1>8. PlaceOf(g, g.at) = PlaceOf(f, k) /\ NoEntry.id = 0 /\ \A j : PlaceOf(g, j) = PlaceOf(f, j)
  BY <1>7 DEF PlaceOf, NoEntry
<1>9. FrameTyped(g, evs, n)
  BY <1>4, <1>6, <1>7, <1>8, <1>0 DEF FrameOK, FrameTyped
<1>10. Known(g, listeners)
  BY <1>6, <1>7, <1>8 DEF Known
<1>11. Hears(g)
  <2>1. HeardOnce(g)
    BY <1>7 DEF FrameOK, Hears, HeardOnce
  <2>2. HeardAbove(g)
    <3>1. \A j \in 1..f.at : j \in 1..k
      BY <1>0, <1>4
    <3> QED
      BY <1>7, <3>1 DEF FrameOK, Hears, HeardAbove
  <2>3. ASSUME NEW x \in ToSet(q), Told(f.stops[k], x.callback) \in ToSet(f.heard) PROVE FALSE
    <3>1. PICK j \in 1..f.at : /\ Told(f.stops[k], x.callback).node = f.stops[j].node
                               /\ Told(f.stops[k], x.callback).capture = f.stops[j].capture
      BY <2>3 DEF FrameOK, Hears, HeardAbove
    <3>2. j \in 1..Len(f.stops) /\ j # k
      BY <1>0, <1>4
    <3>3. f.stops[k].node = f.stops[j].node /\ f.stops[k].capture = f.stops[j].capture
      BY <3>1 DEF Told
    <3> QED
      BY <1>0, <1>4, <3>2, <3>3 DEF RouteOK
  <2> QED
    BY <1>6, <1>7, <2>1, <2>2, <2>3 DEF Hears
<1>12. Owes(g, listeners, evs)
  <2>1. CASE evs[f.event].stop
    BY <1>7, <2>1 DEF Owes
  <2>2. CASE ~evs[f.event].stop
    <3> SUFFICES ASSUME NEW h \in f.due, h \notin ToSet(f.heard) PROVE Awaits(g, listeners, h)
      BY <1>7 DEF Owes
    <3>1. Awaits(f, listeners, h)
      BY <2>2 DEF FrameOK, Owes
    <3>2. ~InEntries(f, h)
      <4>1. ToSet(f.entries) = {}
        BY DEF ToSet
      <4> QED
        BY <4>1 DEF InEntries
    <3>3. PICK j \in 1..Len(f.stops) : j > f.at /\ InList(f, listeners, h, j)
      BY <3>1, <3>2 DEF Awaits
    <3>4. PICK y \in ToSet(listeners[PlaceOf(f, j)]) : h = Told(f.stops[j], y.callback)
      BY <3>3 DEF InList
    <3>5. j \in ahead
      <4>1. j \in (f.at + 1)..Len(f.stops)
        BY <1>0, <3>3
      <4>2. ListOf(f, j) # << >>
        <5>1. ListOf(f, j) = listeners[PlaceOf(f, j)]
          BY DEF ListOf, PlaceOf
        <5>2. ToSet(<< >>) = {}
          BY DEF ToSet
        <5> QED
          BY <3>4, <5>1, <5>2
      <4>3. ~evs[f.event].immediate
        BY <2>2
      <4> QED
        BY <2>2, <4>1, <4>2, <4>3 DEF ahead, Ahead
    <3>6. k <= j
      BY <1>2, <3>5
    <3>7. CASE j = k
      <4>1. InEntries(g, h)
        BY <1>5, <1>7, <3>4, <3>7 DEF InEntries
      <4> QED
        BY <4>1 DEF Awaits
    <3>8. CASE j # k
      <4>1. j > g.at
        BY <1>4, <1>7, <3>6, <3>8
      <4>2. InList(g, listeners, h, j)
        BY <1>7, <1>8, <3>3 DEF InList
      <4> QED
        BY <1>7, <4>1, <4>2 DEF Awaits
    <3> QED
      BY <3>7, <3>8
  <2> QED
    BY <2>1, <2>2
<1>13. Stopped(g, evs)
  <2> SUFFICES ASSUME evs[f.event].stop PROVE f.stops[k].node \in evs[f.event].stoppedIn
    BY <1>7 DEF Stopped
  <2>1. f.at > 0 /\ k = f.at + 1 /\ f.stops[f.at].phase = 2 /\ f.stops[k].phase = 2
    BY <1>3
  <2>2. f.at \in 1..Len(f.stops) /\ f.at < Len(f.stops)
    BY <1>0, <1>4, <2>1
  <2>3. f.stops[f.at].node = f.stops[k].node
    BY <1>0, <1>4, <2>1, <2>2 DEF RouteOK
  <2>4. f.stops[f.at].node \in evs[f.event].stoppedIn
    BY <2>1, <2>2 DEF FrameOK, Stopped
  <2> QED
    BY <2>3, <2>4
<1>14. FrameOK(g, listeners, evs, n)
  BY <1>9, <1>10, <1>11, <1>12, <1>13 DEF FrameOK
<1> QED
  BY <1>4, <1>14 DEF g, q

\* A listener is called.
Called(f, x, h) == [f EXCEPT !.calling = x, !.entries = Tail(@), !.heard = Append(@, h)]

\* The next entry of the copied list is called.
LEMMA FrameCalls ==
  ASSUME NEW n \in Nat, NEW ls, NEW evs, NEW f, FrameOK(f, ls, evs, n),
         f.entries # << >>, NEW x, x = Head(f.entries), NEW h, h = Told(f.stops[f.at], x.callback),
         NEW g, g = Called(f, x, h)
  PROVE  /\ FrameOK(g, ls, evs, n) /\ x.id # 0 /\ x.id <= n /\ x.id \in Nat /\ x \in Registration
         /\ f.at \in 1..Len(f.stops)
         /\ evs[f.event].stop => f.stops[f.at].node \in evs[f.event].stoppedIn
<1>0. /\ f \in Dispatch /\ RouteOK(f.stops) /\ f.at \in Nat /\ Len(f.stops) \in Nat /\ f.at <= Len(f.stops)
      /\ f.entries \in Seq(Registration) /\ f.heard \in Seq(Hearing)
      /\ \A y \in ToSet(f.entries) : y \in Registration /\ y.id \in Nat \ {0} /\ y.id <= n
  BY FrameFields DEF FrameOK, FrameTyped
<1>1. f.at \in 1..Len(f.stops)
  <2>1. f.at # 0
    BY DEF FrameOK, FrameTyped
  <2> QED
    BY <1>0, <2>1
<1>2. evs[f.event].stop => f.stops[f.at].node \in evs[f.event].stoppedIn
  BY <1>0, <1>1 DEF FrameOK, Stopped
<1> DEFINE rest == Tail(f.entries)
<1>3. /\ Len(f.entries) \in Nat \ {0} /\ x = f.entries[1]
      /\ rest \in Seq(Registration) /\ Len(rest) = Len(f.entries) - 1 /\ DOMAIN rest = 1..(Len(f.entries) - 1)
      /\ \A j \in DOMAIN rest : rest[j] = f.entries[j + 1] /\ j + 1 \in DOMAIN f.entries
      /\ \A j \in DOMAIN f.entries : j = 1 \/ (j - 1 \in DOMAIN rest /\ rest[j - 1] = f.entries[j])
  BY <1>0, HeadAndTail
<1> HIDE DEF rest
<1>4. DOMAIN f.entries = 1..Len(f.entries) /\ DOMAIN rest = 1..Len(rest) /\ 1 \in 1..Len(f.entries)
  BY <1>0, <1>3, SeqElements
<1>5. \A y : y \in ToSet(f.entries) <=> y = x \/ y \in ToSet(rest)
  <2>1. \A y : y \in ToSet(f.entries) <=> \E j \in 1..Len(f.entries) : f.entries[j] = y
    BY <1>0, SeqMembers
  <2>2. \A y : y \in ToSet(rest) <=> \E j \in 1..Len(rest) : rest[j] = y
    BY <1>3, SeqMembers
  <2>3. ASSUME NEW y \in ToSet(f.entries) PROVE y = x \/ y \in ToSet(rest)
    <3>1. PICK j \in 1..Len(f.entries) : f.entries[j] = y
      BY <2>1
    <3>2. j = 1 \/ (j - 1 \in 1..Len(rest) /\ rest[j - 1] = f.entries[j])
      BY <1>3, <1>4, <3>1
    <3> QED
      BY <1>3, <2>2, <3>1, <3>2
  <2>4. ASSUME NEW y \in ToSet(rest) PROVE y \in ToSet(f.entries)
    <3>1. PICK j \in 1..Len(rest) : rest[j] = y
      BY <2>2
    <3>2. y = f.entries[j + 1] /\ j + 1 \in 1..Len(f.entries)
      BY <1>3, <1>4, <3>1
    <3> QED
      BY <2>1, <3>2
  <2>5. x \in ToSet(f.entries)
    BY <1>3, <1>4, <2>1
  <2> QED
    BY <2>3, <2>4, <2>5
<1>6. Distinct(f.entries) /\ \A y \in ToSet(f.entries) : Told(f.stops[f.at], y.callback) \notin ToSet(f.heard)
  BY DEF FrameOK, Hears
<1>7. Distinct(rest) /\ \A y \in ToSet(rest) : y.callback # x.callback
  <2>1. ASSUME NEW i \in 1..Len(rest), NEW j \in 1..Len(rest), rest[i].callback = rest[j].callback PROVE i = j
    <3>1. rest[i] = f.entries[i + 1] /\ rest[j] = f.entries[j + 1]
          /\ i + 1 \in 1..Len(f.entries) /\ j + 1 \in 1..Len(f.entries)
      BY <1>3, <1>4
    <3>2. i + 1 = j + 1
      BY <1>6, <2>1, <3>1 DEF Distinct
    <3> QED
      BY <3>2
  <2>2. ASSUME NEW y \in ToSet(rest), y.callback = x.callback PROVE FALSE
    <3>1. PICK j \in 1..Len(rest) : rest[j] = y
      BY <1>3, <2>2, SeqMembers
    <3>2. y = f.entries[j + 1] /\ j + 1 \in 1..Len(f.entries)
      BY <1>3, <1>4, <3>1
    <3>3. j + 1 = 1
      BY <1>3, <1>4, <1>6, <2>2, <3>2 DEF Distinct
    <3> QED
      BY <3>3
  <2> QED
    BY <2>1, <2>2 DEF Distinct
<1>8. x \in Registration /\ x.id \in Nat \ {0} /\ x.id <= n /\ x.callback \in Callbacks
  BY <1>0, <1>5 DEF Registration
<1>9. h \in Hearing
  <2>1. f.stops[f.at] \in Stop
    BY <1>0, <1>1, FrameFields
  <2> QED
    BY <1>8, <2>1 DEF Told, Hearing, Stop
<1> DEFINE said == Append(f.heard, h)
<1>10. /\ said \in Seq(Hearing) /\ Len(f.heard) \in Nat /\ Len(said) = Len(f.heard) + 1
       /\ said[Len(f.heard) + 1] = h
       /\ \A i \in 1..Len(f.heard) : said[i] = f.heard[i]
  BY <1>0, <1>9
<1> HIDE DEF said
<1>11. \A y : y \in ToSet(said) <=> y \in ToSet(f.heard) \/ y = h
  <2>1. \A y : y \in ToSet(said) <=> \E j \in 1..Len(said) : said[j] = y
    BY <1>10, SeqMembers
  <2>2. \A y : y \in ToSet(f.heard) <=> \E j \in 1..Len(f.heard) : f.heard[j] = y
    BY <1>0, SeqMembers
  <2>3. ASSUME NEW y \in ToSet(said) PROVE y \in ToSet(f.heard) \/ y = h
    <3>1. PICK j \in 1..Len(said) : said[j] = y
      BY <2>1
    <3>2. j \in 1..Len(f.heard) \/ j = Len(f.heard) + 1
      BY <1>10, <3>1
    <3> QED
      BY <1>10, <2>2, <3>1, <3>2
  <2>4. ASSUME NEW y \in ToSet(f.heard) PROVE y \in ToSet(said)
    <3>1. PICK j \in 1..Len(f.heard) : f.heard[j] = y
      BY <2>2
    <3>2. j \in 1..Len(said) /\ said[j] = y
      BY <1>10, <3>1
    <3> QED
      BY <2>1, <3>2
  <2>5. Len(f.heard) + 1 \in 1..Len(said)
    BY <1>10
  <2> QED
    BY <1>10, <2>1, <2>3, <2>4, <2>5
<1>12. h \notin ToSet(f.heard)
  BY <1>5, <1>6
<1>13. /\ g \in Dispatch /\ g.event = f.event /\ g.type = f.type /\ g.stops = f.stops /\ g.at = f.at
       /\ g.entries = rest /\ g.calling = x /\ g.heard = said /\ g.due = f.due
  <2>1. g = [f EXCEPT !.calling = x, !.entries = rest, !.heard = said]
    BY DEF rest, said, Called
  <2> QED
    BY <1>0, <1>3, <1>8, <1>10, <2>1 DEF Dispatch
<1>14. \A j : PlaceOf(g, j) = PlaceOf(f, j)
  BY <1>13 DEF PlaceOf
<1>15. FrameTyped(g, evs, n)
  BY <1>0, <1>1, <1>5, <1>8, <1>13 DEF FrameOK, FrameTyped
<1>16. Known(g, ls)
  BY <1>5, <1>13, <1>14 DEF FrameOK, Known
<1>17. Hears(g)
  <2>1. HeardOnce(g)
    <3>1. \A i \in 1..Len(said) : i \in 1..Len(f.heard) \/ i = Len(f.heard) + 1
      BY <1>10
    <3>2. \A k \in 1..Len(f.heard) : f.heard[k] # h
      BY <1>0, <1>12, SeqMembers
    <3>3. \A i, j \in 1..Len(f.heard) : f.heard[i] = f.heard[j] => i = j
      BY DEF FrameOK, Hears, HeardOnce
    <3>4. \A i, j \in 1..Len(said) : said[i] = said[j] => i = j
      BY <1>10, <3>1, <3>2, <3>3
    <3>5. g.heard = said
      BY <1>13
    <3> QED
      BY <3>4, <3>5 DEF HeardOnce
  <2>2. HeardAbove(g)
    <3>1. HeardAbove(f)
      BY DEF FrameOK, Hears
    <3>2. h.node = f.stops[f.at].node /\ h.capture = f.stops[f.at].capture
      BY DEF Told
    <3>3. f.at \in 1..f.at
      BY <1>1
    <3>4. ASSUME NEW d \in ToSet(said)
          PROVE  \E k \in 1..f.at : d.node = f.stops[k].node /\ d.capture = f.stops[k].capture
      <4>1. CASE d \in ToSet(f.heard)
        BY <3>1, <4>1 DEF HeardAbove
      <4>2. CASE d = h
        BY <3>2, <3>3, <4>2
      <4> QED
        BY <1>11, <4>1, <4>2
    <3>5. g.heard = said /\ g.at = f.at /\ g.stops = f.stops
      BY <1>13
    <3> QED
      BY <3>4, <3>5 DEF HeardAbove
  <2>3. ASSUME NEW y \in ToSet(rest) PROVE Told(f.stops[f.at], y.callback) \notin ToSet(said)
    <3>1. Told(f.stops[f.at], y.callback).callback = y.callback /\ h.callback = x.callback
      BY DEF Told
    <3> QED
      BY <1>5, <1>6, <1>7, <1>11, <3>1
  <2> QED
    BY <1>7, <1>13, <2>1, <2>2, <2>3 DEF Hears
<1>18. Owes(g, ls, evs)
  <2>1. CASE evs[f.event].stop
    BY <1>13, <2>1 DEF Owes
  <2>2. CASE ~evs[f.event].stop
    <3> SUFFICES ASSUME NEW d \in f.due, d \notin ToSet(f.heard), d # h PROVE Awaits(g, ls, d)
      BY <1>11, <1>13 DEF Owes
    <3>1. Awaits(f, ls, d)
      BY <2>2 DEF FrameOK, Owes
    <3>2. CASE InEntries(f, d)
      BY <1>5, <1>13, <3>2 DEF Awaits, InEntries
    <3>3. ASSUME NEW k \in 1..Len(f.stops), k > f.at, InList(f, ls, d, k) PROVE Awaits(g, ls, d)
      BY <1>13, <1>14, <3>3 DEF Awaits, InList
    <3> QED
      BY <3>1, <3>2, <3>3 DEF Awaits
  <2> QED
    BY <2>1, <2>2
<1>19. Stopped(g, evs)
  BY <1>2, <1>13 DEF Stopped
<1> QED
  BY <1>1, <1>2, <1>8, <1>15, <1>16, <1>17, <1>18, <1>19 DEF FrameOK

\* The loop has nothing left to visit.
Over(f, event) == event.immediate \/ (f.entries = << >> /\ Ahead(f, event) = {})

\* Then it owes nothing.
LEMMA NothingOwed ==
  ASSUME NEW n \in Nat, NEW evs, NEW f, FrameOK(f, listeners, evs, n),
         evs[f.event].immediate => evs[f.event].stop, Over(f, evs[f.event])
  PROVE  ~evs[f.event].stop => f.due \subseteq ToSet(f.heard)
<1> SUFFICES ASSUME ~evs[f.event].stop, NEW h \in f.due, h \notin ToSet(f.heard) PROVE FALSE
  OBVIOUS
<1>0. f \in Dispatch /\ f.at \in Nat /\ Len(f.stops) \in Nat
  BY FrameFields DEF FrameOK, FrameTyped
<1>1. f.entries = << >> /\ Ahead(f, evs[f.event]) = {} /\ ~evs[f.event].immediate
  BY DEF Over
<1>2. Awaits(f, listeners, h)
  BY DEF FrameOK, Owes
<1>3. ~InEntries(f, h)
  <2>1. ToSet(f.entries) = {}
    BY <1>1 DEF ToSet
  <2> QED
    BY <2>1 DEF InEntries
<1>4. PICK j \in 1..Len(f.stops) : j > f.at /\ InList(f, listeners, h, j)
  BY <1>2, <1>3 DEF Awaits
<1>5. ListOf(f, j) # << >>
  <2>1. ListOf(f, j) = listeners[PlaceOf(f, j)]
    BY DEF ListOf, PlaceOf
  <2>2. ToSet(<< >>) = {}
    BY DEF ToSet
  <2> QED
    BY <1>4, <2>1, <2>2 DEF InList
<1>6. j \in (f.at + 1)..Len(f.stops)
  BY <1>0, <1>4
<1> QED
  BY <1>1, <1>5, <1>6 DEF Ahead

\* onmessage is called.
LEMMA FrameOnmessage ==
  ASSUME NEW n \in Nat, NEW evs, NEW f, FrameOK(f, listeners, evs, n),
         ~evs[f.event].immediate, Over(f, evs[f.event]),
         NEW g, g = [f EXCEPT !.handler = FALSE, !.at = Len(f.stops), !.calling = OnmessageCall]
  PROVE  FrameOK(g, listeners, evs, n)
<1>0. /\ f \in Dispatch /\ RouteOK(f.stops) /\ f.at \in Nat /\ Len(f.stops) \in Nat /\ f.at <= Len(f.stops)
      /\ Len(f.stops) >= 1
  BY FrameFields DEF FrameOK, FrameTyped, RouteOK
<1>1. f.entries = << >> /\ ToSet(f.entries) = {}
  BY DEF Over, ToSet
<1>2. /\ g \in Dispatch /\ g.event = f.event /\ g.type = f.type /\ g.stops = f.stops /\ g.at = Len(f.stops)
      /\ g.entries = f.entries /\ g.calling = OnmessageCall /\ g.heard = f.heard /\ g.due = f.due
  BY <1>0 DEF Dispatch
<1>3. OnmessageCall.id = 0
  BY DEF OnmessageCall, NoEntry
<1>4. FrameTyped(g, evs, n)
  BY <1>0, <1>1, <1>2, <1>3 DEF FrameOK, FrameTyped
<1>5. Known(g, listeners)
  BY <1>1, <1>2, <1>3 DEF Known
<1>6. Hears(g)
  <2>1. \A j \in 1..f.at : j \in 1..Len(f.stops)
    BY <1>0
  <2> QED
    BY <1>1, <1>2, <2>1 DEF FrameOK, Hears, HeardOnce, HeardAbove
<1>7. Owes(g, listeners, evs)
  BY <1>2, NothingOwed DEF Owes
<1>8. Stopped(g, evs)
  BY <1>0, <1>1, <1>2 DEF Stopped
<1> QED
  BY <1>4, <1>5, <1>6, <1>7, <1>8 DEF FrameOK

\* A listener returns.
LEMMA FrameReturns ==
  ASSUME NEW n \in Nat, NEW ls, NEW evs, NEW f, FrameOK(f, ls, evs, n)
  PROVE  FrameOK([f EXCEPT !.calling = NoEntry], ls, evs, n)
<1> DEFINE g == [f EXCEPT !.calling = NoEntry]
<1>0. f \in Dispatch
  BY DEF FrameOK, FrameTyped
<1>2. /\ g \in Dispatch /\ g.event = f.event /\ g.type = f.type /\ g.stops = f.stops /\ g.at = f.at
      /\ g.entries = f.entries /\ g.calling = NoEntry /\ g.heard = f.heard /\ g.due = f.due
      /\ NoEntry.id = 0
  BY <1>0 DEF Dispatch, NoEntry
<1> HIDE DEF g
<1>3. \A j : PlaceOf(g, j) = PlaceOf(f, j)
  BY <1>2 DEF PlaceOf
<1>4. FrameTyped(g, evs, n)
  BY <1>2 DEF FrameOK, FrameTyped
<1>5. Known(g, ls)
  BY <1>2, <1>3 DEF FrameOK, Known
<1>6. Hears(g)
  BY <1>2 DEF FrameOK, Hears, HeardOnce, HeardAbove
<1>7. Owes(g, ls, evs)
  BY <1>2, <1>3 DEF FrameOK, Owes, Awaits, InEntries, InList
<1>8. Stopped(g, evs)
  BY <1>2 DEF FrameOK, Stopped
<1> QED
  BY <1>4, <1>5, <1>6, <1>7, <1>8 DEF FrameOK, g

\* The first element of a list is replaced.
LEMMA TopElements ==
  ASSUME NEW M, NEW st \in Seq(M), st # << >>, NEW f \in M
  PROVE  LET r == <<f>> \o Tail(st) IN
         /\ r \in Seq(M) /\ Len(r) = Len(st) /\ Len(st) \in Nat \ {0} /\ r[1] = f /\ r # << >>
         /\ \A i \in 1..Len(st) : i # 1 => r[i] = st[i]
<1> DEFINE r == <<f>> \o Tail(st)
           t == Tail(st)
<1>1. /\ Len(st) \in Nat \ {0} /\ t \in Seq(M) /\ Len(t) = Len(st) - 1 /\ DOMAIN t = 1..(Len(st) - 1)
      /\ \A k \in DOMAIN st : k = 1 \/ (k - 1 \in DOMAIN t /\ t[k - 1] = st[k])
  BY HeadAndTail
<1>2. <<f>> \in Seq(M) /\ Len(<<f>>) = 1 /\ <<f>>[1] = f
  OBVIOUS
<1> HIDE DEF t
<1>3. Joins(<<f>>, t, r, M)
  <2>1. r = <<f>> \o t
    BY DEF t
  <2> HIDE DEF r
  <2> QED
    BY <1>1, <1>2, <2>1, ConcatElements
<1> HIDE DEF r
<1>4. r \in Seq(M) /\ Len(r) = Len(st)
  BY <1>1, <1>2, <1>3 DEF Joins
<1>5. r[1] = f
  <2>1. 1 \in 1..Len(<<f>>)
    BY <1>2
  <2> QED
    BY <1>2, <1>3, <2>1 DEF Joins
<1>6. ASSUME NEW i \in 1..Len(st), i # 1 PROVE r[i] = st[i]
  <2>1. i - 1 \in 1..Len(t) /\ t[i - 1] = st[i]
    BY <1>1, <1>6, SeqElements
  <2>2. r[Len(<<f>>) + (i - 1)] = t[i - 1]
    BY <1>3, <2>1 DEF Joins
  <2>3. Len(<<f>>) + (i - 1) = i
    BY <1>2, <1>6
  <2> QED
    BY <2>1, <2>2, <2>3
<1>7. r # << >>
  BY <1>1, <1>4
<1> QED
  BY <1>1, <1>4, <1>5, <1>6, <1>7 DEF r

\* An element is put before a list.
LEMMA PushElements ==
  ASSUME NEW M, NEW st \in Seq(M), NEW f \in M
  PROVE  LET r == <<f>> \o st IN
         /\ r \in Seq(M) /\ Len(r) = Len(st) + 1 /\ Len(st) \in Nat /\ r[1] = f /\ r # << >>
         /\ \A i \in 1..Len(st) : r[i + 1] = st[i]
         /\ \A i \in 1..Len(r) : i = 1 \/ (i - 1 \in 1..Len(st) /\ r[i] = st[i - 1])
<1> DEFINE r == <<f>> \o st
<1>2. <<f>> \in Seq(M) /\ Len(<<f>>) = 1 /\ <<f>>[1] = f
  OBVIOUS
<1>3. Joins(<<f>>, st, r, M)
  BY <1>2, ConcatElements
<1> HIDE DEF r
<1>4. r \in Seq(M) /\ Len(r) = Len(st) + 1 /\ Len(st) \in Nat
  BY <1>2, <1>3 DEF Joins
<1>5. r[1] = f
  <2>1. 1 \in 1..Len(<<f>>)
    BY <1>2
  <2> QED
    BY <1>2, <1>3, <2>1 DEF Joins
<1>6. ASSUME NEW i \in 1..Len(st) PROVE r[i + 1] = st[i]
  <2>2. r[Len(<<f>>) + i] = st[i]
    BY <1>3 DEF Joins
  <2>3. Len(<<f>>) + i = i + 1
    BY <1>2
  <2> QED
    BY <2>2, <2>3
<1>7. ASSUME NEW i \in 1..Len(r), i # 1 PROVE i - 1 \in 1..Len(st) /\ r[i] = st[i - 1]
  <2>1. i - 1 \in 1..Len(st) /\ (i - 1) + 1 = i
    BY <1>4, <1>7
  <2> QED
    BY <1>6, <2>1
<1>8. r # << >>
  BY <1>4
<1> QED
  BY <1>4, <1>5, <1>6, <1>7, <1>8 DEF r

\* Every frame of the stack.
StackOK(st, ls, evs, n) ==
  /\ st \in Seq(Dispatch)
  /\ \A i \in 1..Len(st) : FrameOK(st[i], ls, evs, n)

\* No event is stopped anew.
Milder(evs, new) ==
  \A e \in DOMAIN evs : /\ e \in DOMAIN new /\ new[e].stop = evs[e].stop
                        /\ new[e].stoppedIn = evs[e].stoppedIn

\* The stack is right while events change but are not stopped, and steps pass.
LEMMA StackRests ==
  ASSUME NEW st, NEW ls, NEW evs, NEW new, NEW n \in Nat, NEW m \in Nat, n <= m,
         StackOK(st, ls, evs, n), Milder(evs, new)
  PROVE  StackOK(st, ls, new, m)
<1> SUFFICES ASSUME NEW i \in 1..Len(st) PROVE FrameOK(st[i], ls, new, m)
  BY DEF StackOK
<1>1. FrameOK(st[i], ls, evs, n)
  BY DEF StackOK
<1>2. st[i].event \in DOMAIN evs
  BY <1>1 DEF FrameOK, FrameTyped
<1> QED
  BY <1>1, <1>2, FrameRests DEF Milder

LEMMA SameMilder == \A evs : Milder(evs, evs)
BY DEF Milder

\* The innermost frame.
LEMMA StackTop ==
  ASSUME NEW st, NEW ls, NEW evs, NEW n \in Nat, StackOK(st, ls, evs, n), st # << >>
  PROVE  /\ Head(st) = st[1] /\ FrameOK(st[1], ls, evs, n) /\ Len(st) \in Nat \ {0}
         /\ st[1] \in Dispatch /\ 1 \in 1..Len(st)
<1>1. st \in Seq(Dispatch)
  BY DEF StackOK
<1>2. Head(st) = st[1] /\ Len(st) \in Nat \ {0} /\ 1 \in 1..Len(st)
  BY <1>1, HeadAndTail
<1> QED
  BY <1>2 DEF StackOK, FrameOK, FrameTyped

\* The innermost frame changes.
LEMMA StackReplaces ==
  ASSUME NEW st, NEW ls, NEW evs, NEW n \in Nat, StackOK(st, ls, evs, n), st # << >>,
         NEW f, FrameOK(f, ls, evs, n)
  PROVE  StackOK(<<f>> \o Tail(st), ls, evs, n)
<1> DEFINE r == <<f>> \o Tail(st)
<1>1. st \in Seq(Dispatch) /\ f \in Dispatch
  BY DEF StackOK, FrameOK, FrameTyped
<1>2. /\ r \in Seq(Dispatch) /\ Len(r) = Len(st) /\ r[1] = f
      /\ \A i \in 1..Len(st) : i # 1 => r[i] = st[i]
  BY <1>1, TopElements
<1> HIDE DEF r
<1>3. \A i \in 1..Len(r) : FrameOK(r[i], ls, evs, n)
  BY <1>2 DEF StackOK
<1> QED
  BY <1>2, <1>3 DEF StackOK, r

\* A frame comes on top.
LEMMA StackPushes ==
  ASSUME NEW st, NEW ls, NEW evs, NEW n \in Nat, StackOK(st, ls, evs, n),
         NEW f, FrameOK(f, ls, evs, n)
  PROVE  StackOK(<<f>> \o st, ls, evs, n)
<1> DEFINE r == <<f>> \o st
<1>1. st \in Seq(Dispatch) /\ f \in Dispatch
  BY DEF StackOK, FrameOK, FrameTyped
<1>2. /\ r \in Seq(Dispatch) /\ r[1] = f
      /\ \A i \in 1..Len(r) : i = 1 \/ (i - 1 \in 1..Len(st) /\ r[i] = st[i - 1])
  BY <1>1, PushElements
<1> HIDE DEF r
<1>3. \A i \in 1..Len(r) : FrameOK(r[i], ls, evs, n)
  BY <1>2 DEF StackOK
<1> QED
  BY <1>2, <1>3 DEF StackOK, r

\* The innermost frame goes.
LEMMA StackPops ==
  ASSUME NEW st, NEW ls, NEW evs, NEW n \in Nat, StackOK(st, ls, evs, n), st # << >>
  PROVE  /\ StackOK(Tail(st), ls, evs, n) /\ Len(Tail(st)) = Len(st) - 1
         /\ \A i \in 1..Len(Tail(st)) : Tail(st)[i] = st[i + 1] /\ i + 1 \in 1..Len(st)
<1>1. st \in Seq(Dispatch)
  BY DEF StackOK
<1>2. /\ Tail(st) \in Seq(Dispatch) /\ Len(Tail(st)) = Len(st) - 1 /\ Len(st) \in Nat \ {0}
      /\ DOMAIN Tail(st) = 1..(Len(st) - 1) /\ DOMAIN st = 1..Len(st)
      /\ \A k \in DOMAIN Tail(st) : Tail(st)[k] = st[k + 1] /\ k + 1 \in DOMAIN st
  BY <1>1, HeadAndTail, SeqElements
<1>3. \A i \in 1..Len(Tail(st)) : Tail(st)[i] = st[i + 1] /\ i + 1 \in 1..Len(st)
  BY <1>2
<1>4. \A i \in 1..Len(Tail(st)) : FrameOK(Tail(st)[i], ls, evs, n)
  BY <1>3 DEF StackOK
<1> QED
  BY <1>2, <1>3, <1>4 DEF StackOK

\* Forgiven, frame by frame.
LEMMA ForgivenFrames ==
  ASSUME stack \in Seq(Dispatch), NEW nd, NEW t, NEW c, NEW cb
  PROVE  LET r == Forgiven(nd, t, c, cb) IN
         /\ Len(r) = Len(stack) /\ r \in Seq(Dispatch) /\ (stack = << >> <=> r = << >>)
         /\ \A i \in 1..Len(stack) :
              /\ r[i] = Excused(stack[i], t, [node |-> nd, capture |-> c, callback |-> cb])
              /\ r[i].calling = stack[i].calling /\ r[i].heard = stack[i].heard
              /\ r[i].trusted = stack[i].trusted /\ r[i].event = stack[i].event
              /\ r[i].stops = stack[i].stops /\ r[i].at = stack[i].at /\ r[i] \in Dispatch
<1> DEFINE h == [node |-> nd, capture |-> c, callback |-> cb]
           r == Forgiven(nd, t, c, cb)
<1>1. DOMAIN stack = 1..Len(stack) /\ Len(stack) \in Nat /\ \A i \in 1..Len(stack) : stack[i] \in Dispatch
  BY SeqElements
<1>2. r = [i \in 1..Len(stack) |-> Excused(stack[i], t, h)]
  BY <1>1 DEF Forgiven, Excused
<1> HIDE DEF r, h
<1>3. ASSUME NEW f \in Dispatch
      PROVE  LET g == Excused(f, t, h) IN
             /\ g \in Dispatch /\ g.calling = f.calling /\ g.heard = f.heard /\ g.trusted = f.trusted
             /\ g.event = f.event /\ g.stops = f.stops /\ g.at = f.at
  BY DEF Excused, Dispatch
<1>4. \A i \in 1..Len(stack) : r[i] = Excused(stack[i], t, h) /\ r[i] \in Dispatch
  BY <1>1, <1>2, <1>3
<1>5. r \in [1..Len(stack) -> Dispatch]
  BY <1>2, <1>4
<1>6. r \in Seq(Dispatch) /\ Len(r) = Len(stack)
  BY <1>1, <1>5
<1>7. stack = << >> <=> r = << >>
  BY <1>1, <1>6
<1> QED
  BY <1>1, <1>3, <1>4, <1>6, <1>7 DEF r, h

\* The frame of a native input, prevented.
Asked(st, evs) ==
  /\ st # << >> /\ st[Len(st)].trusted
  /\ evs[st[Len(st)].event].cancelable /\ evs[st[Len(st)].event].prevented

\* The native input: only its own dispatch, the outermost, is trusted, and what
\* it is asked is what it keeps, or what its event says so far.
NativeOK(nat, st, evs) ==
  /\ nat \in [queue : Seq(Types), target : Targets \cup {NoTarget}, edits : BOOLEAN,
              prevented : BOOLEAN, asked : BOOLEAN, done : BOOLEAN]
  /\ (~nat.done) => nat.target \in Targets
  /\ nat.queue # << >> => ~nat.done
  /\ \A i \in 1..Len(st) : st[i].trusted => i = Len(st)
  /\ nat.asked <=> nat.prevented \/ Asked(st, evs)

\* A listener of this number is running.
Runs(st, id) == \E k \in 1..Len(st) : st[k].calling.id = id

\* A once listener that was called is still running, or in no list.
SpentOK(ls, st, past, n) ==
  /\ past \subseteq 0..n
  /\ \A l \in Lists : \A y \in ToSet(ls[l]) : y.once /\ y.id \in past => Runs(st, y.id)

\* The inductive invariant.
DispatchIInv ==
  /\ steps \in 0..MaxSteps /\ TreeOK(parent)
  /\ ListsOK(listeners, steps) /\ CountsOK(listeners, counts, steps)
  /\ EventsOK(events) /\ StackOK(stack, listeners, events, steps)
  /\ NativeOK(native, stack, events) /\ SpentOK(listeners, stack, fired, steps)

\* It holds at the start (the script host of a new page).
LEMMA DispatchStarts == DispatchInit => DispatchIInv
<1> SUFFICES ASSUME DispatchInit PROVE DispatchIInv
  OBVIOUS
<1>1. /\ parent = FirstParent /\ listeners = [l \in Lists |-> << >>] /\ counts = [t \in Types |-> 0]
      /\ events = << >> /\ stack = << >> /\ native = Idle /\ steps = 0 /\ fired = {}
  BY DEF DispatchInit
<1>2. steps \in 0..MaxSteps
  BY <1>1, DispatchAssumption
<1>3. TreeOK(parent)
  <2>1. PICK depth \in [Elements -> 0..Cardinality(Elements)] :
          \A n \in Elements : FirstParent[n] # NoTarget => depth[FirstParent[n]] < depth[n]
    BY TreeAssumption
  <2>2. depth \in [Elements -> Nat]
    OBVIOUS
  <2>3. Deeper(parent, depth)
    BY <1>1, <2>1, <2>2, TreeAssumption DEF Deeper
  <2> QED
    BY <2>3 DEF TreeOK
<1>4. ListsOK(listeners, steps) /\ CountsOK(listeners, counts, steps)
  BY <1>1, NoListeners
<1>5. EventsOK(events)
  BY <1>1, DispatchAssumption DEF EventsOK
<1>6. StackOK(stack, listeners, events, steps)
  BY <1>1 DEF StackOK
<1>7. NativeOK(native, stack, events)
  BY <1>1 DEF NativeOK, Idle, Asked
<1>8. SpentOK(listeners, stack, fired, steps)
  BY <1>1 DEF SpentOK
<1> QED
  BY <1>2, <1>3, <1>4, <1>5, <1>6, <1>7, <1>8 DEF DispatchIInv

\* What the properties ask for.
LEMMA EntryIn ==
  ASSUME NEW A, NEW N, NEW x \in Registration, x.callback \in A, x.id \in N
  PROVE  x \in [callback : A, once : BOOLEAN, id : N]
BY DEF Registration

LEMMA ImpliesDispatchInv == DispatchIInv => DispatchInv
<1> SUFFICES ASSUME DispatchIInv PROVE DispatchInv
  OBVIOUS
<1>1. /\ steps \in 0..MaxSteps /\ TreeOK(parent)
      /\ ListsOK(listeners, steps) /\ CountsOK(listeners, counts, steps)
      /\ EventsOK(events) /\ StackOK(stack, listeners, events, steps)
      /\ NativeOK(native, stack, events) /\ SpentOK(listeners, stack, fired, steps)
  BY DEF DispatchIInv
<1>2. \A l \in Lists : /\ DOMAIN listeners[l] = 1..Len(listeners[l])
                       /\ \A i \in DOMAIN listeners[l] : /\ listeners[l][i] \in Registration
                                                         /\ listeners[l][i] \in ToSet(listeners[l])
  <2> SUFFICES ASSUME NEW l \in Lists
               PROVE  /\ DOMAIN listeners[l] = 1..Len(listeners[l])
                      /\ \A i \in DOMAIN listeners[l] : /\ listeners[l][i] \in Registration
                                                        /\ listeners[l][i] \in ToSet(listeners[l])
    OBVIOUS
  <2>1. listeners[l] \in Seq(Registration)
    BY <1>1 DEF ListsOK
  <2> QED
    BY <2>1, SeqElements, SeqMembers
<1>3. \A x \in Registration : x.id <= steps => x \in Entry
  <2> DEFINE A == {en.callback : en \in Adds} \cup {NoTarget, Window}
             N == 0..MaxSteps
  <2>1. Callbacks \subseteq A
    BY DEF Callbacks
  <2>2. \A k \in Nat : k <= steps => k \in N
    BY <1>1, DispatchAssumption
  <2>3. Entry = [callback : A, once : BOOLEAN, id : N]
    BY DEF Entry
  <2> HIDE DEF A, N
  <2> SUFFICES ASSUME NEW x \in Registration, x.id <= steps
               PROVE  x \in [callback : A, once : BOOLEAN, id : N]
    BY <2>3
  <2>4. x.callback \in A /\ x.id \in N
    BY <2>1, <2>2 DEF Registration
  <2> QED
    BY <2>4, EntryIn
<1>4. NoEntry \in Entry /\ OnmessageCall \in Entry
  <2>1. 0 \in 0..MaxSteps
    BY DispatchAssumption
  <2>2. OnmessageCall = [callback |-> Window, once |-> FALSE, id |-> 0]
    BY DEF OnmessageCall, NoEntry
  <2>3. \A c \in {NoTarget, Window} : [callback |-> c, once |-> FALSE, id |-> 0] \in Entry
    BY <2>1 DEF Entry
  <2> QED
    BY <2>2, <2>3 DEF NoEntry
<1>5. \A i \in DOMAIN stack : /\ stack[i].event \in DOMAIN events
                              /\ stack[i].at \in 0..Len(stack[i].stops)
                              /\ stack[i].calling \in Entry
  <2> SUFFICES ASSUME NEW i \in DOMAIN stack
               PROVE  /\ stack[i].event \in DOMAIN events
                      /\ stack[i].at \in 0..Len(stack[i].stops)
                      /\ stack[i].calling \in Entry
    OBVIOUS
  <2>1. DOMAIN stack = 1..Len(stack)
    BY <1>1, SeqElements DEF StackOK
  <2>2. FrameTyped(stack[i], events, steps)
    BY <1>1, <2>1 DEF StackOK, FrameOK
  <2> DEFINE f == stack[i]
  <2> HIDE DEF f
  <2>3. FrameTyped(f, events, steps)
    BY <2>2 DEF f
  <2>4. f \in Dispatch /\ f.event \in DOMAIN events /\ f.at <= Len(f.stops) /\ f.calling.id <= steps
    BY <2>3 DEF FrameTyped
  <2>5. f.at \in Nat /\ Len(f.stops) \in Nat /\ f.calling \in Registration \cup {NoEntry, OnmessageCall}
    BY <2>4, FrameFields
  <2>6. f.at \in 0..Len(f.stops) /\ f.calling \in Entry
    BY <1>3, <1>4, <2>4, <2>5
  <2> QED
    BY <2>4, <2>6 DEF f
<1>6. \A e \in DOMAIN events : /\ events[e].current \in Targets \cup {NoTarget}
                               /\ events[e].phase \in 0..3
                               /\ events[e].immediate => events[e].stop
                               /\ events[e].prevented => events[e].cancelable
  <2>1. \A e \in DOMAIN events : events[e] \in EventObject
    BY <1>1, SeqElements DEF EventsOK
  <2>2. \A r \in EventObject : r.current \in Targets \cup {NoTarget} /\ r.phase \in 0..3
    BY DEF EventObject
  <2> QED
    BY <1>1, <2>1, <2>2 DEF EventsOK
<1>7. counts \in [Types -> 0..MaxSteps]
  <2>1. counts \in [Types -> Nat] /\ \A t \in Types : counts[t] \in Nat /\ counts[t] <= steps
    BY <1>1 DEF CountsOK
  <2>2. \A t \in Types : counts[t] \in 0..MaxSteps
    BY <1>1, <2>1, DispatchAssumption
  <2> QED
    BY <2>1, <2>2
<1>8. DispatchTypeOK
  <2>1. parent \in [Elements -> Elements \cup {NoTarget}]
    BY <1>1 DEF TreeOK, Deeper
  <2>2. \A l \in Lists : \A i \in DOMAIN listeners[l] : listeners[l][i] \in Entry
    BY <1>1, <1>2, <1>3 DEF ListsOK
  <2> QED
    BY <1>1, <1>5, <1>6, <1>7, <2>1, <2>2 DEF DispatchTypeOK, EventsOK
<1>9. CountsExact
  BY <1>1 DEF CountsOK, CountsExact, Registered, Slots
<1>10. SpentGone
  <2> SUFFICES ASSUME NEW l \in Lists, NEW i \in DOMAIN listeners[l], listeners[l][i].once,
                      listeners[l][i].id \in fired
               PROVE  \E k \in DOMAIN stack : stack[k].calling.id = listeners[l][i].id
    BY DEF SpentGone
  <2>1. Runs(stack, listeners[l][i].id)
    BY <1>1, <1>2 DEF SpentOK
  <2>2. DOMAIN stack = 1..Len(stack)
    BY <1>1, SeqElements DEF StackOK
  <2> QED
    BY <2>1, <2>2 DEF Runs
<1>11. PreventedAsAsked
  BY <1>1 DEF NativeOK, Asked, PreventedAsAsked
<1> QED
  BY <1>8, <1>9, <1>10, <1>11 DEF DispatchInv

-----------------------------------------------------------------------------
(***************************************************************************)
(* Each step keeps the invariant.                                          *)
(***************************************************************************)
\* The invariant after a step, part by part.
LEMMA Assembles ==
  ASSUME steps' \in 0..MaxSteps, TreeOK(parent'),
         ListsOK(listeners', steps'), CountsOK(listeners', counts', steps'),
         EventsOK(events'), StackOK(stack', listeners', events', steps'),
         NativeOK(native', stack', events'), SpentOK(listeners', stack', fired', steps')
  PROVE  DispatchIInv'
BY DEF DispatchIInv

\* What may be spent is in its list, or runs, as long as nothing else changes.
LEMMA SpentRests ==
  ASSUME NEW ls, NEW new, NEW st, NEW st2, NEW past, NEW n \in Nat, NEW m \in Nat, n <= m,
         SpentOK(ls, st, past, n), \A l \in Lists : ToSet(new[l]) \subseteq ToSet(ls[l]),
         \A l \in Lists : \A y \in ToSet(new[l]) : y.once /\ y.id \in past /\ Runs(st, y.id) => Runs(st2, y.id)
  PROVE  SpentOK(new, st2, past, m)
<1>1. past \subseteq 0..m
  BY DEF SpentOK
<1>2. ASSUME NEW l \in Lists, NEW y \in ToSet(new[l]), y.once, y.id \in past PROVE Runs(st2, y.id)
  <2>1. y \in ToSet(ls[l])
    BY <1>2
  <2>2. Runs(st, y.id)
    BY <1>2, <2>1 DEF SpentOK
  <2> QED
    BY <1>2, <2>2
<1> QED
  BY <1>1, <1>2 DEF SpentOK

\* A step of a script.
LEMMA ScriptCounts ==
  ASSUME DispatchIInv, ScriptStep
  PROVE  steps \in Nat /\ steps' = steps + 1 /\ steps' \in 0..MaxSteps /\ steps' \in Nat /\ steps <= steps'
BY DispatchAssumption DEF DispatchIInv, ScriptStep

\* A registration is added under every frame.
LEMMA StackAdding ==
  ASSUME NEW st, NEW ls, NEW new, NEW evs, NEW n \in Nat, StackOK(st, ls, evs, n),
         NEW l \in Lists, NEW x, x.id = n + 1, Grown(ls, new, l, x)
  PROVE  StackOK(st, new, evs, n + 1)
<1>1. ASSUME NEW i \in 1..Len(st) PROVE FrameOK(st[i], new, evs, n + 1)
  <2> DEFINE f == st[i]
  <2>1. FrameOK(f, ls, evs, n)
    BY DEF StackOK
  <2> HIDE DEF f
  <2>2. FrameOK(f, new, evs, n + 1)
    BY <2>1, FrameAdding DEF Grown
  <2> QED
    BY <2>2 DEF f
<1> QED
  BY <1>1 DEF StackOK

\* A callback is removed under every frame.
LEMMA StackRemoving ==
  ASSUME NEW st, NEW ls, NEW new, NEW st2, NEW evs, NEW n \in Nat, StackOK(st, ls, evs, n),
         NEW nd \in Targets, NEW t \in Types, NEW c \in BOOLEAN, NEW cb,
         Shrunk(ls, new, <<nd, t, c>>, cb), st2 \in Seq(Dispatch), Len(st2) = Len(st),
         \A i \in 1..Len(st) :
           st2[i] = Excused(st[i], t, [node |-> nd, capture |-> c, callback |-> cb])
  PROVE  StackOK(st2, new, evs, n)
<1> DEFINE h == [node |-> nd, capture |-> c, callback |-> cb]
<1>1. ASSUME NEW i \in 1..Len(st) PROVE FrameOK(st2[i], new, evs, n)
  <2> DEFINE f == st[i]
  <2>1. FrameOK(f, ls, evs, n)
    BY DEF StackOK
  <2>2. st2[i] = Excused(f, t, h)
    OBVIOUS
  <2> HIDE DEF f
  <2>3. FrameOK(Excused(f, t, h), new, evs, n)
    BY <2>1, FrameRemoving DEF Shrunk
  <2> QED
    BY <2>2, <2>3
<1> QED
  BY <1>1 DEF StackOK

\* addEventListener: a second registration of a callback changes nothing.
LEMMA AddKeeps ==
  ASSUME DispatchIInv, NEW a \in Adds, add_listener(a) PROVE DispatchIInv'
<1> DEFINE l == <<a.node, a.type, a.capture>>
           x == [callback |-> a.callback, once |-> a.once, id |-> steps + 1]
<1>1. /\ steps \in 0..MaxSteps /\ TreeOK(parent)
      /\ ListsOK(listeners, steps) /\ CountsOK(listeners, counts, steps)
      /\ EventsOK(events) /\ StackOK(stack, listeners, events, steps)
      /\ NativeOK(native, stack, events) /\ SpentOK(listeners, stack, fired, steps)
  BY DEF DispatchIInv
<1>2. steps \in Nat /\ steps' = steps + 1 /\ steps' \in 0..MaxSteps /\ steps' \in Nat /\ steps <= steps'
  BY ScriptCounts DEF add_listener
<1>3. UNCHANGED <<parent, events, stack, native, fired>>
  BY DEF add_listener
<1>4. l \in Lists /\ l[2] = a.type
  BY DispatchAssumption DEF Lists
<1>5. CASE Holds(listeners[l], a.callback)
  <2>1. listeners' = listeners /\ counts' = counts
    BY <1>5 DEF add_listener
  <2>2. ListsOK(listeners, steps') /\ CountsOK(listeners, counts, steps')
    BY <1>1, <1>2, Later
  <2>3. StackOK(stack, listeners, events, steps')
    BY <1>1, <1>2, SameMilder, StackRests
  <2>4. SpentOK(listeners, stack, fired, steps')
    BY <1>1, <1>2, SpentRests
  <2> QED
    BY <1>1, <1>2, <1>3, <2>1, <2>2, <2>3, <2>4, Assembles
<1>6. CASE ~Holds(listeners[l], a.callback)
  <2>1. listeners' = [listeners EXCEPT ![l] = Append(@, x)] /\ counts' = [counts EXCEPT ![l[2]] = @ + 1]
    BY <1>4, <1>6 DEF add_listener
  <2>2. x \in Registration /\ x.id = steps + 1 /\ x.callback = a.callback
    BY <1>2, DispatchAssumption DEF Registration, Callbacks
  <2> HIDE DEF x, l
  <2>3. /\ ListsOK(listeners', steps') /\ CountsOK(listeners', counts', steps')
        /\ Grown(listeners, listeners', l, x)
    BY <1>1, <1>2, <1>4, <1>6, <2>1, <2>2, Adding
  <2>4. StackOK(stack, listeners', events, steps')
    BY <1>1, <1>2, <1>4, <2>2, <2>3, StackAdding
  <2>5. SpentOK(listeners', stack, fired, steps')
    <3>1. fired \subseteq 0..steps
      BY <1>1 DEF SpentOK
    <3>2. fired \subseteq 0..steps' /\ steps + 1 \notin fired
      BY <1>2, <3>1
    <3>3. ASSUME NEW m \in Lists, NEW y \in ToSet(listeners'[m]), y.once, y.id \in fired
          PROVE  Runs(stack, y.id)
      <4>1. y # x
        BY <2>2, <3>2, <3>3
      <4>2. y \in ToSet(listeners[m])
        BY <2>3, <3>3, <4>1 DEF Grown
      <4> QED
        BY <1>1, <3>3, <4>2 DEF SpentOK
    <3> QED
      BY <3>2, <3>3 DEF SpentOK
  <2> QED
    BY <1>1, <1>2, <1>3, <2>3, <2>4, <2>5, Assembles
<1> QED
  BY <1>5, <1>6

\* removeEventListener.
LEMMA RemoveKeeps ==
  ASSUME DispatchIInv, NEW r \in Removes, remove_listener(r) PROVE DispatchIInv'
<1> DEFINE l == <<r.node, r.type, r.capture>>
           h == [node |-> r.node, capture |-> r.capture, callback |-> r.callback]
<1>1. /\ steps \in 0..MaxSteps /\ TreeOK(parent)
      /\ ListsOK(listeners, steps) /\ CountsOK(listeners, counts, steps)
      /\ EventsOK(events) /\ StackOK(stack, listeners, events, steps)
      /\ NativeOK(native, stack, events) /\ SpentOK(listeners, stack, fired, steps)
  BY DEF DispatchIInv
<1>2. steps \in Nat /\ steps' = steps + 1 /\ steps' \in 0..MaxSteps /\ steps' \in Nat /\ steps <= steps'
  BY ScriptCounts DEF remove_listener
<1>3. /\ UNCHANGED <<parent, events, native, fired>>
      /\ stack' = Forgiven(r.node, r.type, r.capture, r.callback)
      /\ listeners' = Without(listeners, l, r.callback)
  BY DEF remove_listener, Without
<1>4. /\ l \in Lists /\ l[2] = r.type
      /\ r.node \in Targets /\ r.type \in Types /\ r.capture \in BOOLEAN
  BY DispatchAssumption DEF Lists
<1>5. counts' = Fewer(counts, listeners, l, r.callback)
  BY <1>4 DEF remove_listener, Fewer
<1>6. /\ ListsOK(listeners', steps) /\ CountsOK(listeners', counts', steps)
      /\ Shrunk(listeners, listeners', l, r.callback)
  <2> HIDE DEF l
  <2> QED
    BY <1>1, <1>2, <1>3, <1>4, <1>5, Removing
<1>7. ListsOK(listeners', steps') /\ CountsOK(listeners', counts', steps')
  BY <1>2, <1>6, Later
<1>8. /\ Len(stack') = Len(stack) /\ stack' \in Seq(Dispatch) /\ (stack = << >> <=> stack' = << >>)
      /\ \A i \in 1..Len(stack) :
           /\ stack'[i] = Excused(stack[i], r.type, h) /\ stack'[i].calling = stack[i].calling
           /\ stack'[i].trusted = stack[i].trusted /\ stack'[i].event = stack[i].event
  BY <1>1, <1>3, ForgivenFrames DEF StackOK
<1>9. StackOK(stack', listeners', events, steps)
  BY <1>1, <1>2, <1>4, <1>6, <1>8, StackRemoving
<1>10. StackOK(stack', listeners', events', steps')
  BY <1>2, <1>3, <1>9, SameMilder, StackRests
<1>11. SpentOK(listeners', stack', fired', steps')
  <2>1. \A m \in Lists : ToSet(listeners'[m]) \subseteq ToSet(listeners[m])
    BY <1>6 DEF Shrunk
  <2>2. \A id : Runs(stack, id) => Runs(stack', id)
    BY <1>8 DEF Runs
  <2> QED
    BY <1>1, <1>2, <1>3, <2>1, <2>2, SpentRests
<1>12. NativeOK(native', stack', events')
  <2>1. Len(stack) \in Nat
    BY <1>1, SeqElements DEF StackOK
  <2>2. stack # << >> => Len(stack) \in 1..Len(stack)
    BY <1>1, <2>1 DEF StackOK
  <2>3. Asked(stack', events) <=> Asked(stack, events)
    BY <1>8, <2>2 DEF Asked
  <2> QED
    BY <1>1, <1>3, <1>8, <2>3 DEF NativeOK
<1> QED
  BY <1>1, <1>2, <1>3, <1>7, <1>10, <1>11, <1>12, Assembles

\* A node moves: the paths that were read stay as they were.
LEMMA MoveKeeps ==
  ASSUME DispatchIInv, NEW m \in Moves, MoveNode(m) PROVE DispatchIInv'
<1>1. /\ steps \in 0..MaxSteps /\ TreeOK(parent)
      /\ ListsOK(listeners, steps) /\ CountsOK(listeners, counts, steps)
      /\ EventsOK(events) /\ StackOK(stack, listeners, events, steps)
      /\ NativeOK(native, stack, events) /\ SpentOK(listeners, stack, fired, steps)
  BY DEF DispatchIInv
<1>2. steps \in Nat /\ steps' = steps + 1 /\ steps' \in 0..MaxSteps /\ steps' \in Nat /\ steps <= steps'
  BY ScriptCounts DEF MoveNode
<1>3. UNCHANGED <<listeners, counts, events, stack, native, fired>>
  BY DEF MoveNode
<1>4. TreeOK(parent')
  BY <1>1, MovedTree, DispatchAssumption, TreeAssumption DEF MoveNode, Targets
<1>5. ListsOK(listeners, steps') /\ CountsOK(listeners, counts, steps')
  BY <1>1, <1>2, Later
<1>6. StackOK(stack, listeners, events, steps')
  BY <1>1, <1>2, SameMilder, StackRests
<1>7. SpentOK(listeners, stack, fired, steps')
  BY <1>1, <1>2, SpentRests
<1> QED
  BY <1>1, <1>2, <1>3, <1>4, <1>5, <1>6, <1>7, Assembles

\* The fields of the event objects.
LEMMA EventFields ==
  ASSUME NEW evs, EventsOK(evs)
  PROVE  /\ evs \in Seq(EventObject) /\ DOMAIN evs = 1..Len(evs) /\ Len(evs) \in Nat
         /\ \A e \in DOMAIN evs : /\ evs[e] \in EventObject /\ e \in Nat
                                  /\ evs[e].stop \in BOOLEAN /\ evs[e].cancelable \in BOOLEAN
                                  /\ evs[e].prevented \in BOOLEAN /\ evs[e].immediate \in BOOLEAN
                                  /\ evs[e].stoppedIn \subseteq Targets
<1>1. /\ evs \in Seq(EventObject) /\ DOMAIN evs = 1..Len(evs) /\ Len(evs) \in Nat
      /\ \A e \in DOMAIN evs : evs[e] \in EventObject /\ e \in Nat
  BY SeqElements DEF EventsOK
<1>2. \A r \in EventObject : /\ r.stop \in BOOLEAN /\ r.cancelable \in BOOLEAN
                             /\ r.prevented \in BOOLEAN /\ r.immediate \in BOOLEAN
                             /\ r.stoppedIn \subseteq Targets
  BY DEF EventObject
<1> QED
  BY <1>1, <1>2

\* One event object changes.
PutAt(evs, new, e, r) ==
  /\ DOMAIN new = DOMAIN evs /\ new = [d \in DOMAIN evs |-> new[d]]
  /\ \A d \in DOMAIN evs : d # e => new[d] = evs[d]
  /\ new[e] = r

LEMMA EventPut ==
  ASSUME NEW evs, EventsOK(evs), NEW e \in DOMAIN evs, NEW r \in EventObject,
         r.immediate => r.stop, r.prevented => r.cancelable,
         NEW new, PutAt(evs, new, e, r)
  PROVE  EventsOK(new)
<1>0. /\ DOMAIN new = DOMAIN evs /\ new = [d \in DOMAIN evs |-> new[d]]
      /\ \A d \in DOMAIN evs : d # e => new[d] = evs[d]
      /\ new[e] = r
  BY DEF PutAt
<1>1. /\ evs \in Seq(EventObject) /\ DOMAIN evs = 1..Len(evs) /\ Len(evs) \in Nat
      /\ \A d \in DOMAIN evs : evs[d] \in EventObject
  BY EventFields
<1>2. \A d \in 1..Len(evs) : new[d] \in EventObject
  BY <1>0, <1>1
<1>3. new \in [1..Len(evs) -> EventObject]
  BY <1>0, <1>1, <1>2
<1>4. new \in Seq(EventObject) /\ Len(new) = Len(evs)
  BY <1>1, <1>3
<1>5. \A d \in DOMAIN new : /\ new[d].immediate => new[d].stop
                            /\ new[d].prevented => new[d].cancelable
  <2> SUFFICES ASSUME NEW d \in DOMAIN new
               PROVE  /\ new[d].immediate => new[d].stop
                      /\ new[d].prevented => new[d].cancelable
    OBVIOUS
  <2>1. CASE d = e
    BY <1>0, <2>1
  <2>2. CASE d # e
    BY <1>0, <2>2 DEF EventsOK
  <2> QED
    BY <2>1, <2>2
<1> QED
  BY <1>4, <1>5 DEF EventsOK

\* A new event has no flag.
LEMMA EventNew ==
  ASSUME NEW t \in Types, NEW b \in BOOLEAN, NEW c \in BOOLEAN
  PROVE  /\ NewEvent(t, b, c) \in EventObject /\ ~NewEvent(t, b, c).immediate
         /\ ~NewEvent(t, b, c).prevented
BY DEF NewEvent, EventObject

\* A new event object changes no other.
LEMMA EventAppended ==
  ASSUME NEW evs, EventsOK(evs), Len(evs) < MaxEvents, NEW r \in EventObject,
         ~r.immediate, ~r.prevented
  PROVE  LET new == Append(evs, r) IN
         /\ EventsOK(new) /\ Milder(evs, new)
         /\ Len(evs) + 1 \in DOMAIN new /\ new[Len(evs) + 1] = r
         /\ \A d \in DOMAIN evs : new[d] = evs[d]
<1> DEFINE new == Append(evs, r)
<1>1. evs \in Seq(EventObject)
  BY DEF EventsOK
<1>2. /\ new \in Seq(EventObject) /\ Len(evs) \in Nat /\ DOMAIN evs = 1..Len(evs)
      /\ DOMAIN new = 1..(Len(evs) + 1) /\ new[Len(evs) + 1] = r
      /\ \A i \in DOMAIN evs : i \in DOMAIN new /\ new[i] = evs[i]
      /\ \A i \in DOMAIN new : i \in DOMAIN evs \/ i = Len(evs) + 1
  BY <1>1, AppendElements
<1>3. Len(new) <= MaxEvents
  BY <1>1, <1>2, DispatchAssumption
<1> HIDE DEF new
<1>4. EventsOK(new)
  BY <1>2, <1>3 DEF EventsOK
<1>5. Milder(evs, new)
  BY <1>2 DEF Milder
<1>6. Len(evs) + 1 \in DOMAIN new
  BY <1>2
<1> QED
  BY <1>2, <1>4, <1>5, <1>6 DEF new

\* What is asked depends on two fields of an event.
LEMMA AskedSame ==
  ASSUME NEW st, NEW ls, NEW evs, NEW n, StackOK(st, ls, evs, n), NEW new,
         \A e \in DOMAIN evs : new[e].cancelable = evs[e].cancelable /\ new[e].prevented = evs[e].prevented
  PROVE  Asked(st, new) <=> Asked(st, evs)
<1>1. CASE st = << >>
  BY <1>1 DEF Asked
<1>2. CASE st # << >>
  <2>1. Len(st) \in 1..Len(st)
    BY <1>2 DEF StackOK
  <2>2. st[Len(st)].event \in DOMAIN evs
    BY <2>1 DEF StackOK, FrameOK, FrameTyped
  <2> QED
    BY <2>2 DEF Asked
<1> QED
  BY <1>1, <1>2

\* A dispatch begins in a listener.
LEMMA NativePushed ==
  ASSUME NEW nat, NEW st \in Seq(Dispatch), NEW evs, NativeOK(nat, st, evs),
         NEW f \in Dispatch, ~f.trusted
  PROVE  NativeOK(nat, <<f>> \o st, evs)
<1> DEFINE r == <<f>> \o st
<1>1. /\ Len(r) = Len(st) + 1 /\ Len(st) \in Nat /\ r[1] = f /\ r # << >>
      /\ \A i \in 1..Len(st) : r[i + 1] = st[i]
      /\ \A i \in 1..Len(r) : i = 1 \/ (i - 1 \in 1..Len(st) /\ r[i] = st[i - 1])
  BY PushElements
<1> HIDE DEF r
<1>2. \A i \in 1..Len(r) : r[i].trusted => i = Len(r)
  BY <1>1 DEF NativeOK
<1>3. Asked(r, evs) <=> Asked(st, evs)
  <2>1. CASE st = << >>
    <3>1. Len(r) = 1
      BY <1>1, <2>1
    <3> QED
      BY <1>1, <2>1, <3>1 DEF Asked
  <2>2. CASE st # << >>
    <3>1. Len(st) \in 1..Len(st)
      BY <1>1, <2>2
    <3>2. r[Len(r)] = st[Len(st)]
      BY <1>1, <3>1
    <3> QED
      BY <1>1, <2>2, <3>2 DEF Asked
  <2> QED
    BY <2>1, <2>2
<1> QED
  BY <1>2, <1>3 DEF NativeOK, r

\* Whoever runs goes on running.
RunsOn(st, st2) == \A id : Runs(st, id) => Runs(st2, id)

\* A dispatch that begins interrupts nobody.
LEMMA PushedRuns ==
  ASSUME NEW st \in Seq(Dispatch), NEW f \in Dispatch PROVE RunsOn(st, <<f>> \o st)
<1>1. ASSUME NEW id, Runs(st, id) PROVE Runs(<<f>> \o st, id)
  <2> DEFINE r == <<f>> \o st
  <2>1. PICK k \in 1..Len(st) : st[k].calling.id = id
    BY <1>1 DEF Runs
  <2>2. Len(r) = Len(st) + 1 /\ Len(st) \in Nat /\ \A i \in 1..Len(st) : r[i + 1] = st[i]
    BY PushElements
  <2> HIDE DEF r
  <2>3. k + 1 \in 1..Len(r) /\ r[k + 1] = st[k]
    BY <2>2
  <2> QED
    BY <2>1, <2>3 DEF Runs, r
<1> QED
  BY <1>1 DEF RunsOn

\* A script dispatches.
LEMMA BeginsHere ==
  ASSUME TreeOK(parent), NEW n \in Nat, ListsOK(listeners, n), NEW evs, EventsOK(evs), NEW st,
         StackOK(st, listeners, evs, n), NEW e \in DOMAIN evs, NEW node \in Targets,
         NEW f, f = FrameOf(e, evs[e], node, FALSE, FALSE)
  PROVE  /\ StackOK(<<f>> \o st, listeners, evs, n)
         /\ f \in Dispatch /\ ~f.trusted /\ RunsOn(st, <<f>> \o st)
<1> DEFINE no == FALSE
<1>1. no \in BOOLEAN /\ f = FrameOf(e, evs[e], node, no, no)
  OBVIOUS
<1>2. ~f.trusted
  BY DEF FrameOf
<1> HIDE DEF no
<1>3. evs[e] \in EventObject /\ e \in Nat
  BY EventFields
<1>4. FrameOK(FrameOf(e, evs[e], node, no, no), listeners, evs, n)
  BY <1>1, <1>3, FrameBegins
<1>5. FrameOK(f, listeners, evs, n)
  BY <1>1, <1>4
<1>6. StackOK(<<f>> \o st, listeners, evs, n)
  BY <1>5, StackPushes
<1>7. f \in Dispatch /\ st \in Seq(Dispatch)
  BY <1>5 DEF FrameOK, FrameTyped, StackOK
<1> QED
  BY <1>2, <1>6, <1>7, PushedRuns

\* dispatchEvent with a new event object.
LEMMA DispatchKeeps ==
  ASSUME DispatchIInv, NEW s \in Sends, dispatch_event(s) PROVE DispatchIInv'
<1> DEFINE event == NewEvent(s.type, s.bubbles, s.cancelable)
           e == Len(events) + 1
           f == FrameOf(e, event, s.node, FALSE, FALSE)
<1>1. /\ steps \in 0..MaxSteps /\ TreeOK(parent)
      /\ ListsOK(listeners, steps) /\ CountsOK(listeners, counts, steps)
      /\ EventsOK(events) /\ StackOK(stack, listeners, events, steps)
      /\ NativeOK(native, stack, events) /\ SpentOK(listeners, stack, fired, steps)
  BY DEF DispatchIInv
<1>2. steps \in Nat /\ steps' = steps + 1 /\ steps' \in 0..MaxSteps /\ steps' \in Nat /\ steps <= steps'
  BY ScriptCounts DEF dispatch_event
<1>3. /\ UNCHANGED <<parent, listeners, counts, native, fired>> /\ e <= MaxEvents
      /\ events' = Append(events, event) /\ stack' = <<f>> \o stack
  BY DEF dispatch_event
<1>4. /\ event \in EventObject /\ ~event.immediate /\ ~event.prevented /\ s.node \in Targets
  BY EventNew, DispatchAssumption
<1> HIDE DEF event
<1>5. Len(events) < MaxEvents
  BY <1>1, <1>3, EventFields, DispatchAssumption
<1>6. /\ EventsOK(events') /\ Milder(events, events') /\ e \in DOMAIN events' /\ events'[e] = event
      /\ \A d \in DOMAIN events : events'[d] = events[d]
  BY <1>1, <1>3, <1>4, <1>5, EventAppended
<1>7. ListsOK(listeners, steps') /\ CountsOK(listeners, counts, steps')
  BY <1>1, <1>2, Later
<1>8. StackOK(stack, listeners, events', steps')
  BY <1>1, <1>2, <1>6, StackRests
<1>9. f = FrameOf(e, events'[e], s.node, FALSE, FALSE)
  BY <1>6
<1> HIDE DEF f, e
<1>10. /\ StackOK(stack', listeners, events', steps') /\ f \in Dispatch /\ ~f.trusted
       /\ RunsOn(stack, stack')
  BY <1>1, <1>2, <1>3, <1>4, <1>6, <1>7, <1>8, <1>9, BeginsHere
<1>11. NativeOK(native, stack, events')
  BY <1>1, <1>6, AskedSame DEF NativeOK
<1>12. NativeOK(native, stack', events')
  BY <1>1, <1>3, <1>10, <1>11, NativePushed DEF StackOK
<1>13. SpentOK(listeners, stack', fired, steps')
  BY <1>1, <1>2, <1>10, SpentRests DEF RunsOn
<1> QED
  BY <1>1, <1>2, <1>3, <1>6, <1>7, <1>10, <1>12, <1>13, Assembles

\* dispatchEvent with an event that was dispatched before, or is under way.
LEMMA AgainKeeps ==
  ASSUME DispatchIInv, NEW e \in DOMAIN events, NEW node \in Targets, DispatchAgain(e, node)
  PROVE  DispatchIInv'
<1> DEFINE f == FrameOf(e, events[e], node, FALSE, FALSE)
<1>1. /\ steps \in 0..MaxSteps /\ TreeOK(parent)
      /\ ListsOK(listeners, steps) /\ CountsOK(listeners, counts, steps)
      /\ EventsOK(events) /\ StackOK(stack, listeners, events, steps)
      /\ NativeOK(native, stack, events) /\ SpentOK(listeners, stack, fired, steps)
  BY DEF DispatchIInv
<1>2. steps \in Nat /\ steps' = steps + 1 /\ steps' \in 0..MaxSteps /\ steps' \in Nat /\ steps <= steps'
  BY ScriptCounts DEF DispatchAgain
<1>3. /\ UNCHANGED <<parent, listeners, counts, events, native, fired>>
      /\ stack' = <<f>> \o stack
  BY DEF DispatchAgain
<1>4. ListsOK(listeners, steps') /\ CountsOK(listeners, counts, steps')
  BY <1>1, <1>2, Later
<1>5. StackOK(stack, listeners, events, steps')
  BY <1>1, <1>2, SameMilder, StackRests
<1>6. f = FrameOf(e, events[e], node, FALSE, FALSE)
  OBVIOUS
<1> HIDE DEF f
<1>7. /\ StackOK(stack', listeners, events, steps') /\ f \in Dispatch /\ ~f.trusted
      /\ RunsOn(stack, stack')
  BY <1>1, <1>2, <1>3, <1>4, <1>5, <1>6, BeginsHere
<1>8. NativeOK(native, stack', events)
  BY <1>1, <1>3, <1>7, NativePushed DEF StackOK
<1>9. SpentOK(listeners, stack', fired, steps')
  BY <1>1, <1>2, <1>7, SpentRests DEF RunsOn
<1> QED
  BY <1>1, <1>2, <1>3, <1>4, <1>7, <1>8, <1>9, Assembles

\* stopPropagation and stopImmediatePropagation on a record, and on the events.
FlagsRaised(r, immediate, S) ==
  [r EXCEPT !.stop = TRUE, !.immediate = r.immediate \/ immediate,
            !.stoppedIn = IF r.stop THEN r.stoppedIn ELSE S]

Raised(evs, e, immediate, S) ==
  [evs EXCEPT ![e].stop = TRUE, ![e].immediate = @ \/ immediate,
              ![e].stoppedIn = IF evs[e].stop THEN @ ELSE S]

\* The flags after they are raised.
LEMMA FlagFields ==
  ASSUME NEW r \in EventObject, NEW immediate \in BOOLEAN, NEW S \in SUBSET Targets,
         NEW q, q = FlagsRaised(r, immediate, S)
  PROVE  /\ q \in EventObject /\ q.stop /\ q.prevented = r.prevented /\ q.cancelable = r.cancelable
         /\ q.stoppedIn = (IF r.stop THEN r.stoppedIn ELSE S)
BY DEF FlagsRaised, EventObject

\* Only the event that is stopped changes.
LEMMA FlagsPut ==
  ASSUME NEW evs \in Seq(EventObject), NEW e \in DOMAIN evs, NEW immediate \in BOOLEAN, NEW S
  PROVE  PutAt(evs, Raised(evs, e, immediate, S), e, FlagsRaised(evs[e], immediate, S))
<1>1. LET new == Raised(evs, e, immediate, S)
      IN /\ DOMAIN new = DOMAIN evs /\ new = [d \in DOMAIN evs |-> new[d]]
         /\ \A d \in DOMAIN evs : d # e => new[d] = evs[d]
         /\ new[e] = FlagsRaised(evs[e], immediate, S)
  BY DEF FlagsRaised, Raised
<1> QED
  BY <1>1 DEF PutAt

\* An event is stopped: where its dispatches are is where it was stopped.
LEMMA RaiseKeeps ==
  ASSUME DispatchIInv, NEW e \in DOMAIN events, NEW immediate \in BOOLEAN, RaiseFlag(e, immediate)
  PROVE  DispatchIInv'
<1> DEFINE inside == {i \in DOMAIN stack : stack[i].event = e /\ stack[i].at > 0}
           S == {Visiting(i) : i \in inside}
<1>1. /\ steps \in 0..MaxSteps /\ TreeOK(parent)
      /\ ListsOK(listeners, steps) /\ CountsOK(listeners, counts, steps)
      /\ EventsOK(events) /\ StackOK(stack, listeners, events, steps)
      /\ NativeOK(native, stack, events) /\ SpentOK(listeners, stack, fired, steps)
  BY DEF DispatchIInv
<1>2. steps \in Nat /\ steps' = steps + 1 /\ steps' \in 0..MaxSteps /\ steps' \in Nat /\ steps <= steps'
  BY ScriptCounts DEF RaiseFlag
<1>3. /\ UNCHANGED <<parent, listeners, counts, stack, native, fired>>
      /\ events' = Raised(events, e, immediate, S)
  BY DEF RaiseFlag, Raised
<1>4. DOMAIN stack = 1..Len(stack) /\ Len(stack) \in Nat
  BY <1>1, SeqElements DEF StackOK
<1>5. ASSUME NEW i \in 1..Len(stack), stack[i].at > 0
      PROVE  Visiting(i) \in Targets /\ (stack[i].event = e => Visiting(i) \in S)
  <2>1. i \in DOMAIN stack
    BY <1>4
  <2> DEFINE f == stack[i]
  <2>2. f \in Dispatch /\ f.at <= Len(f.stops) /\ f.at > 0
    BY <1>1, <1>5 DEF StackOK, FrameOK, FrameTyped
  <2> HIDE DEF f
  <2>3. f.stops[f.at] \in Stop
    <3>1. f.at \in Nat /\ Len(f.stops) \in Nat /\ \A k \in 1..Len(f.stops) : f.stops[k] \in Stop
      BY <2>2, FrameFields
    <3>2. f.at \in 1..Len(f.stops)
      BY <2>2, <3>1
    <3> QED
      BY <3>1, <3>2
  <2>4. f.stops[f.at].node \in Targets
    BY <2>3 DEF Stop
  <2>5. Visiting(i) \in Targets
    BY <2>4 DEF f, Visiting
  <2> QED
    BY <1>5, <2>1, <2>5
<1>6. S \in SUBSET Targets
  BY <1>4, <1>5
<1> HIDE DEF S
<1>7. events \in Seq(EventObject) /\ events[e] \in EventObject
  BY <1>1, EventFields
<1>put. PutAt(events, events', e, FlagsRaised(events[e], immediate, S))
  BY <1>3, <1>7, FlagsPut
<1>8. /\ DOMAIN events' = DOMAIN events
      /\ \A d \in DOMAIN events : d # e => events'[d] = events[d]
      /\ events'[e] = FlagsRaised(events[e], immediate, S)
  BY <1>put DEF PutAt
<1>9. /\ events'[e] \in EventObject /\ events'[e].stop
      /\ events'[e].prevented = events[e].prevented /\ events'[e].cancelable = events[e].cancelable
      /\ events'[e].stoppedIn = IF events[e].stop THEN events[e].stoppedIn ELSE S
  BY <1>6, <1>7, <1>8, FlagFields
<1>10. EventsOK(events')
  <2>1. events'[e].prevented => events'[e].cancelable
    BY <1>1, <1>9 DEF EventsOK
  <2> QED
    BY <1>1, <1>8, <1>9, <1>put, <2>1, EventPut
<1>11. StackOK(stack, listeners, events', steps)
  <2> SUFFICES ASSUME NEW i \in 1..Len(stack) PROVE FrameOK(stack[i], listeners, events', steps)
    BY <1>1 DEF StackOK
  <2> DEFINE f == stack[i]
  <2>1. FrameOK(f, listeners, events, steps) /\ f.event \in DOMAIN events
    BY <1>1 DEF StackOK, FrameOK, FrameTyped
  <2>2. CASE f.event = e
    <3>1. f.at > 0 => f.stops[f.at].node \in S
      BY <1>5, <2>2 DEF Visiting
    <3>2. f.at > 0 /\ ~events[e].stop => f.stops[f.at].node \in events'[e].stoppedIn
      BY <1>9, <3>1
    <3>3. events[e].stop => events'[e].stoppedIn = events[e].stoppedIn
      BY <1>9
    <3> HIDE DEF f
    <3>4. FrameOK(f, listeners, events', steps)
      BY <1>2, <1>8, <1>9, <2>1, <2>2, <3>2, <3>3, FrameStops
    <3> QED
      BY <3>4 DEF f
  <2>3. CASE f.event # e
    <3>1. events'[f.event] = events[f.event] /\ f.event \in DOMAIN events' /\ steps <= steps
      BY <1>2, <1>8, <2>1, <2>3
    <3> HIDE DEF f
    <3>2. FrameOK(f, listeners, events', steps)
      BY <1>2, <2>1, <3>1, FrameRests
    <3> QED
      BY <3>2 DEF f
  <2> QED
    BY <2>2, <2>3
<1>12. StackOK(stack, listeners, events', steps')
  BY <1>2, <1>11, SameMilder, StackRests
<1>13. NativeOK(native, stack, events')
  <2>1. \A d \in DOMAIN events : events'[d].cancelable = events[d].cancelable /\ events'[d].prevented = events[d].prevented
    BY <1>8, <1>9
  <2>2. Asked(stack, events') <=> Asked(stack, events)
    BY <1>1, <2>1, AskedSame
  <2> QED
    BY <1>1, <2>2 DEF NativeOK
<1>14. ListsOK(listeners, steps') /\ CountsOK(listeners, counts, steps')
  BY <1>1, <1>2, Later
<1>15. SpentOK(listeners, stack, fired, steps')
  BY <1>1, <1>2, SpentRests
<1> QED
  BY <1>1, <1>2, <1>3, <1>10, <1>12, <1>13, <1>14, <1>15, Assembles

Prevented(evs, e, c) == [evs EXCEPT ![e].prevented = @ \/ c]

\* preventDefault changes one event.
LEMMA PreventPut ==
  ASSUME NEW evs \in Seq(EventObject), NEW e \in DOMAIN evs, NEW c \in BOOLEAN
  PROVE  PutAt(evs, Prevented(evs, e, c), e, [evs[e] EXCEPT !.prevented = evs[e].prevented \/ c])
<1>1. LET new == Prevented(evs, e, c)
      IN /\ DOMAIN new = DOMAIN evs /\ new = [d \in DOMAIN evs |-> new[d]]
         /\ \A d \in DOMAIN evs : d # e => new[d] = evs[d]
         /\ new[e] = [evs[e] EXCEPT !.prevented = evs[e].prevented \/ c]
  BY DEF Prevented
<1> QED
  BY <1>1 DEF PutAt

\* It changes one flag.
LEMMA PreventFields ==
  ASSUME NEW r \in EventObject, NEW c \in BOOLEAN, NEW q, q = [r EXCEPT !.prevented = r.prevented \/ c]
  PROVE  /\ q \in EventObject /\ q.stop = r.stop /\ q.immediate = r.immediate
         /\ q.prevented = (r.prevented \/ c) /\ q.cancelable = r.cancelable
         /\ q.stoppedIn = r.stoppedIn
BY DEF EventObject

\* preventDefault asks of the native input exactly what its event answers.
LEMMA PreventKeeps ==
  ASSUME DispatchIInv, NEW e \in DOMAIN events, preventDefault(e) PROVE DispatchIInv'
<1> DEFINE c == events[e].cancelable
           last == stack[Len(stack)]
           asks == c /\ stack # << >> /\ last.event = e /\ last.trusted
<1>1. /\ steps \in 0..MaxSteps /\ TreeOK(parent)
      /\ ListsOK(listeners, steps) /\ CountsOK(listeners, counts, steps)
      /\ EventsOK(events) /\ StackOK(stack, listeners, events, steps)
      /\ NativeOK(native, stack, events) /\ SpentOK(listeners, stack, fired, steps)
  BY DEF DispatchIInv
<1>2. steps \in Nat /\ steps' = steps + 1 /\ steps' \in 0..MaxSteps /\ steps' \in Nat /\ steps <= steps'
  BY ScriptCounts DEF preventDefault
<1>3. /\ UNCHANGED <<parent, listeners, counts, stack, fired>>
      /\ events' = Prevented(events, e, c)
      /\ native' = [native EXCEPT !.asked = @ \/ asks]
  BY DEF preventDefault, Last, Prevented
<1>4. events \in Seq(EventObject) /\ events[e] \in EventObject /\ c \in BOOLEAN
  BY <1>1, EventFields
<1> HIDE DEF c
<1>put. PutAt(events, events', e, [events[e] EXCEPT !.prevented = events[e].prevented \/ c])
  BY <1>3, <1>4, PreventPut
<1>5. /\ DOMAIN events' = DOMAIN events
      /\ \A d \in DOMAIN events : d # e => events'[d] = events[d]
      /\ events'[e] = [events[e] EXCEPT !.prevented = events[e].prevented \/ c]
  BY <1>put DEF PutAt
<1>6. /\ events'[e] \in EventObject /\ events'[e].stop = events[e].stop
      /\ events'[e].immediate = events[e].immediate
      /\ events'[e].prevented = (events[e].prevented \/ c) /\ events'[e].cancelable = events[e].cancelable
      /\ events'[e].stoppedIn = events[e].stoppedIn
  BY <1>4, <1>5, PreventFields
<1>7. EventsOK(events')
  <2>1. events'[e].prevented => events'[e].cancelable
    BY <1>1, <1>6 DEF EventsOK, c
  <2>2. events'[e].immediate => events'[e].stop
    BY <1>1, <1>6 DEF EventsOK
  <2> QED
    BY <1>1, <1>5, <1>6, <1>put, <2>1, <2>2, EventPut
<1>8. Milder(events, events')
  BY <1>5, <1>6 DEF Milder
<1>9. StackOK(stack, listeners, events', steps')
  BY <1>1, <1>2, <1>8, StackRests
<1>10. Asked(stack, events') <=> Asked(stack, events) \/ asks
  <2>1. CASE stack = << >>
    BY <2>1 DEF Asked
  <2>2. CASE stack # << >>
    <3>1. Len(stack) \in 1..Len(stack)
      BY <1>1, <2>2 DEF StackOK
    <3>2. last.event \in DOMAIN events /\ last.trusted \in BOOLEAN
      BY <1>1, <3>1, FrameFields DEF StackOK, FrameOK, FrameTyped
    <3>3. CASE last.event = e
      BY <1>4, <1>6, <2>2, <3>2, <3>3 DEF Asked, c
    <3>4. CASE last.event # e
      <4>1. events'[last.event] = events[last.event]
        BY <1>5, <3>2, <3>4
      <4> QED
        BY <2>2, <3>4, <4>1 DEF Asked
    <3> QED
      BY <3>3, <3>4
  <2> QED
    BY <2>1, <2>2
<1>11. asks \in BOOLEAN
  <2>1. CASE stack = << >>
    BY <2>1
  <2>2. CASE stack # << >>
    <3>1. Len(stack) \in 1..Len(stack)
      BY <1>1, <2>2 DEF StackOK
    <3>2. last.trusted \in BOOLEAN
      BY <1>1, <3>1, FrameFields DEF StackOK, FrameOK, FrameTyped
    <3> QED
      BY <1>4, <3>2
  <2> QED
    BY <2>1, <2>2
<1>12. NativeOK(native', stack, events')
  <2> HIDE DEF asks
  <2> DEFINE N == [queue : Seq(Types), target : Targets \cup {NoTarget}, edits : BOOLEAN,
                   prevented : BOOLEAN, asked : BOOLEAN, done : BOOLEAN]
  <2>1. native \in N
    BY <1>1 DEF NativeOK
  <2>2. /\ native' \in N /\ native'.done = native.done /\ native'.target = native.target
        /\ native'.queue = native.queue /\ native'.prevented = native.prevented
        /\ native'.asked = (native.asked \/ asks)
    BY <1>3, <1>11, <2>1
  <2>3. native'.asked <=> native'.prevented \/ Asked(stack, events')
    BY <1>1, <1>10, <2>2 DEF NativeOK
  <2> QED
    BY <1>1, <2>2, <2>3 DEF NativeOK
<1>13. ListsOK(listeners, steps') /\ CountsOK(listeners, counts, steps')
  BY <1>1, <1>2, Later
<1>14. SpentOK(listeners, stack, fired, steps')
  BY <1>1, <1>2, SpentRests
<1> QED
  BY <1>1, <1>2, <1>3, <1>7, <1>9, <1>12, <1>13, <1>14, Assembles

\* The host's steps on the innermost dispatch.
LEMMA NativeReplaced ==
  ASSUME NEW nat, NEW st \in Seq(Dispatch), st # << >>, NEW evs, NativeOK(nat, st, evs),
         NEW f \in Dispatch, f.trusted = st[1].trusted, f.event = st[1].event
  PROVE  NativeOK(nat, <<f>> \o Tail(st), evs)
<1> DEFINE r == <<f>> \o Tail(st)
<1>1. /\ Len(r) = Len(st) /\ Len(st) \in Nat \ {0} /\ r[1] = f /\ r # << >>
      /\ \A i \in 1..Len(st) : i # 1 => r[i] = st[i]
  BY TopElements
<1> HIDE DEF r
<1>2. \A i \in 1..Len(st) : r[i].trusted = st[i].trusted /\ r[i].event = st[i].event
  BY <1>1
<1>3. \A i \in 1..Len(r) : r[i].trusted => i = Len(r)
  BY <1>1, <1>2 DEF NativeOK
<1>4. Len(st) \in 1..Len(st)
  BY <1>1
<1>5. Asked(r, evs) <=> Asked(st, evs)
  BY <1>1, <1>2, <1>4 DEF Asked
<1> QED
  BY <1>3, <1>5 DEF NativeOK, r

\* Only the listener of the innermost frame may stop running.
LEMMA RunsReplaced ==
  ASSUME NEW st \in Seq(Dispatch), st # << >>, NEW f \in Dispatch
  PROVE  /\ \A id : Runs(st, id) /\ st[1].calling.id # id => Runs(<<f>> \o Tail(st), id)
         /\ Runs(<<f>> \o Tail(st), f.calling.id)
<1> DEFINE r == <<f>> \o Tail(st)
<1>1. /\ Len(r) = Len(st) /\ Len(st) \in Nat \ {0} /\ r[1] = f
      /\ \A i \in 1..Len(st) : i # 1 => r[i] = st[i]
  BY TopElements
<1> HIDE DEF r
<1>2. ASSUME NEW id, Runs(st, id), st[1].calling.id # id PROVE Runs(r, id)
  <2>1. PICK k \in 1..Len(st) : st[k].calling.id = id
    BY <1>2 DEF Runs
  <2>2. k \in 1..Len(r) /\ r[k] = st[k]
    BY <1>1, <1>2, <2>1
  <2> QED
    BY <2>1, <2>2 DEF Runs
<1>3. 1 \in 1..Len(r)
  BY <1>1
<1> QED
  BY <1>1, <1>2, <1>3 DEF Runs, r

\* A registration that is in a list has a number.
LEMMA ListedFields ==
  ASSUME NEW ls, NEW n, ListsOK(ls, n), NEW l \in Lists, NEW y \in ToSet(ls[l])
  PROVE  y \in Registration /\ y.id \in Nat \ {0} /\ y.id <= n
<1>1. ls[l] \in Seq(Registration)
  BY DEF ListsOK
<1>2. y \in Registration
  BY <1>1, SeqMembers
<1> QED
  BY <1>2 DEF Registration, ListsOK

\* Where an event is.
Visits(evs, e, node, phase) == [evs EXCEPT ![e].current = node, ![e].phase = phase]
At(r, node, phase) == [r EXCEPT !.current = node, !.phase = phase]

\* currentTarget and eventPhase of one event change.
LEMMA VisitsPut ==
  ASSUME NEW evs \in Seq(EventObject), NEW e \in DOMAIN evs, NEW node, NEW phase
  PROVE  PutAt(evs, Visits(evs, e, node, phase), e, At(evs[e], node, phase))
<1>1. LET new == Visits(evs, e, node, phase)
      IN /\ DOMAIN new = DOMAIN evs /\ new = [d \in DOMAIN evs |-> new[d]]
         /\ \A d \in DOMAIN evs : d # e => new[d] = evs[d]
         /\ new[e] = At(evs[e], node, phase)
  BY DEF At, Visits
<1> QED
  BY <1>1 DEF PutAt

\* Both have the same flags.
SameFlags(q, r) ==
  /\ q.stop = r.stop /\ q.immediate = r.immediate /\ q.prevented = r.prevented
  /\ q.cancelable = r.cancelable /\ q.stoppedIn = r.stoppedIn

\* The place of an event is none of its flags.
LEMMA AtFields ==
  ASSUME NEW r \in EventObject, NEW node \in Targets \cup {NoTarget}, NEW phase \in 0..3,
         NEW q, q = At(r, node, phase)
  PROVE  q \in EventObject /\ SameFlags(q, r)
<1>1. /\ q \in EventObject /\ q.stop = r.stop /\ q.immediate = r.immediate
      /\ q.prevented = r.prevented /\ q.cancelable = r.cancelable /\ q.stoppedIn = r.stoppedIn
  BY DEF At, EventObject
<1> QED
  BY <1>1 DEF SameFlags

\* Every event says the same of its default action.
SameAnswers(evs, new) ==
  \A d \in DOMAIN evs : new[d].cancelable = evs[d].cancelable /\ new[d].prevented = evs[d].prevented

\* An event that moves on is as stopped and as prevented as before.
LEMMA VisitsFacts ==
  ASSUME NEW evs, EventsOK(evs), NEW e \in DOMAIN evs, NEW node \in Targets \cup {NoTarget},
         NEW phase \in 0..3, NEW new, new = Visits(evs, e, node, phase)
  PROVE  EventsOK(new) /\ Milder(evs, new) /\ SameAnswers(evs, new)
<1>1. evs \in Seq(EventObject) /\ evs[e] \in EventObject
  BY EventFields
<1>2. PutAt(evs, new, e, At(evs[e], node, phase))
  BY <1>1, VisitsPut
<1>3. /\ DOMAIN new = DOMAIN evs /\ \A d \in DOMAIN evs : d # e => new[d] = evs[d]
      /\ new[e] = At(evs[e], node, phase)
  BY <1>2 DEF PutAt
<1>4. /\ new[e] \in EventObject /\ new[e].stop = evs[e].stop /\ new[e].immediate = evs[e].immediate
      /\ new[e].prevented = evs[e].prevented /\ new[e].cancelable = evs[e].cancelable
      /\ new[e].stoppedIn = evs[e].stoppedIn
  <2>1. new[e] \in EventObject /\ SameFlags(new[e], evs[e])
    BY <1>1, <1>3, AtFields
  <2> QED
    BY <2>1 DEF SameFlags
<1>5. (new[e].immediate => new[e].stop) /\ (new[e].prevented => new[e].cancelable)
  BY <1>4 DEF EventsOK
<1>6. EventsOK(new)
  BY <1>2, <1>3, <1>4, <1>5, EventPut
<1>7. Milder(evs, new)
  BY <1>3, <1>4 DEF Milder
<1> QED
  BY <1>3, <1>4, <1>6, <1>7 DEF SameAnswers

\* The innermost frame and its event.
LEMMA TopFacts ==
  ASSUME DispatchIInv, stack # << >>
  PROVE  /\ Top = stack[1] /\ Top \in Dispatch /\ FrameOK(Top, listeners, events, steps)
         /\ Top.event \in DOMAIN events /\ TopEvent \in EventObject
         /\ TopEvent.immediate => TopEvent.stop
<1>1. steps \in Nat /\ EventsOK(events) /\ StackOK(stack, listeners, events, steps)
  BY DispatchAssumption DEF DispatchIInv
<1>2. /\ Head(stack) = stack[1] /\ FrameOK(stack[1], listeners, events, steps)
      /\ stack[1] \in Dispatch
  BY <1>1, StackTop
<1>3. stack[1].event \in DOMAIN events
  BY <1>2 DEF FrameOK, FrameTyped
<1>4. events[stack[1].event] \in EventObject
  BY <1>1, <1>3, EventFields
<1> QED
  BY <1>1, <1>2, <1>3, <1>4 DEF Top, TopEvent, EventsOK

\* invoke_listeners_at copies the next list.
LEMMA ArriveKeeps == ASSUME DispatchIInv, Arrive PROVE DispatchIInv'
<1> DEFINE k == Min(Ahead(Top, TopEvent))
           f == Top
           g == [f EXCEPT !.at = k, !.entries = ListOf(f, k)]
<1>1. /\ steps \in Nat /\ steps \in 0..MaxSteps /\ TreeOK(parent)
      /\ ListsOK(listeners, steps) /\ CountsOK(listeners, counts, steps)
      /\ EventsOK(events) /\ StackOK(stack, listeners, events, steps)
      /\ NativeOK(native, stack, events) /\ SpentOK(listeners, stack, fired, steps)
  BY DispatchAssumption DEF DispatchIInv
<1>2. /\ UNCHANGED <<parent, listeners, counts, native, steps, fired>>
      /\ stack # << >> /\ f.calling = NoEntry /\ f.entries = << >> /\ Ahead(f, events[f.event]) # {}
      /\ stack' = <<g>> \o Tail(stack)
      /\ events' = Visits(events, f.event, f.stops[k].node, f.stops[k].phase)
      /\ k = Min(Ahead(f, events[f.event]))
  BY DEF Arrive, Between, WithTop, Visits, TopEvent
<1>3. /\ f = stack[1] /\ f \in Dispatch /\ FrameOK(f, listeners, events, steps) /\ f.event \in DOMAIN events
      /\ events[f.event].immediate => events[f.event].stop
  BY <1>2, TopFacts DEF TopEvent
<1> HIDE DEF f, k
<1>4. FrameOK(g, listeners, events, steps) /\ k \in 1..Len(f.stops)
  BY <1>1, <1>2, <1>3, FrameArrives
<1>5. g.calling = NoEntry /\ g.trusted = f.trusted /\ g.event = f.event /\ g \in Dispatch
  <2>1. g.calling = f.calling /\ g.trusted = f.trusted /\ g.event = f.event
    BY <1>3 DEF Dispatch
  <2> QED
    BY <1>2, <1>4, <2>1 DEF FrameOK, FrameTyped
<1> HIDE DEF g
<1>6. f.stops[k].node \in Targets \cup {NoTarget} /\ f.stops[k].phase \in 0..3
  <2>1. f.stops[k] \in Stop
    BY <1>3, <1>4, FrameFields
  <2> QED
    BY <2>1 DEF Stop
<1>7. EventsOK(events') /\ Milder(events, events') /\ SameAnswers(events, events')
  BY <1>1, <1>2, <1>3, <1>6, VisitsFacts
<1>8. StackOK(stack', listeners, events, steps)
  BY <1>1, <1>2, <1>4, StackReplaces
<1>9. StackOK(stack', listeners, events', steps)
  BY <1>1, <1>7, <1>8, StackRests
<1>10. stack \in Seq(Dispatch)
  BY <1>1 DEF StackOK
<1>11. NativeOK(native, stack', events')
  <2>1. NativeOK(native, stack', events)
    BY <1>1, <1>2, <1>3, <1>5, <1>10, NativeReplaced
  <2>2. Asked(stack', events') <=> Asked(stack', events)
    BY <1>7, <1>8, AskedSame DEF SameAnswers
  <2> QED
    BY <2>1, <2>2 DEF NativeOK
<1>12. SpentOK(listeners, stack', fired, steps)
  <2>1. \A id : Runs(stack, id) /\ stack[1].calling.id # id => Runs(stack', id)
    BY <1>2, <1>5, <1>10, RunsReplaced
  <2>2. stack[1].calling.id = 0
    BY <1>2, <1>3 DEF NoEntry
  <2>3. \A l \in Lists : \A y \in ToSet(listeners[l]) : y.id # 0
    BY <1>1, ListedFields
  <2> QED
    BY <1>1, <2>1, <2>2, <2>3, SpentRests
<1> QED
  BY <1>1, <1>2, <1>7, <1>9, <1>11, <1>12, Assembles

\* The next listener is called: it is spent, and it runs.
LEMMA CallKeeps == ASSUME DispatchIInv, Call PROVE DispatchIInv'
<1> DEFINE f == Top
           x == Head(f.entries)
           h == Told(f.stops[f.at], x.callback)
           g == Called(f, x, h)
<1>1. /\ steps \in Nat /\ steps \in 0..MaxSteps /\ TreeOK(parent)
      /\ ListsOK(listeners, steps) /\ CountsOK(listeners, counts, steps)
      /\ EventsOK(events) /\ StackOK(stack, listeners, events, steps)
      /\ NativeOK(native, stack, events) /\ SpentOK(listeners, stack, fired, steps)
  BY DispatchAssumption DEF DispatchIInv
<1>2. /\ UNCHANGED <<parent, listeners, counts, events, native, steps>>
      /\ stack # << >> /\ f.calling = NoEntry /\ f.entries # << >>
      /\ stack' = <<g>> \o Tail(stack) /\ fired' = fired \cup {x.id}
  BY DEF Call, Between, WithTop, Called, Told
<1>3. f = stack[1] /\ f \in Dispatch /\ FrameOK(f, listeners, events, steps)
  BY <1>2, TopFacts
<1>4. x = Head(f.entries) /\ h = Told(f.stops[f.at], x.callback) /\ g = Called(f, x, h)
  OBVIOUS
<1>5. g.calling = x /\ g.trusted = f.trusted /\ g.event = f.event
  BY <1>3 DEF Called, Dispatch
<1> HIDE DEF f, x, h, g
<1>6. FrameOK(g, listeners, events, steps) /\ x.id # 0 /\ x.id <= steps /\ x.id \in Nat
  BY <1>1, <1>2, <1>3, <1>4, FrameCalls
<1>7. g \in Dispatch /\ stack \in Seq(Dispatch)
  BY <1>1, <1>6 DEF FrameOK, FrameTyped, StackOK
<1>8. StackOK(stack', listeners, events, steps)
  BY <1>1, <1>2, <1>6, StackReplaces
<1>9. NativeOK(native, stack', events)
  BY <1>1, <1>2, <1>3, <1>5, <1>7, NativeReplaced
<1>10. SpentOK(listeners, stack', fired', steps)
  <2>1. /\ \A id : Runs(stack, id) /\ stack[1].calling.id # id => Runs(stack', id)
        /\ Runs(stack', x.id)
    BY <1>2, <1>5, <1>7, RunsReplaced
  <2>2. stack[1].calling.id = 0
    BY <1>2, <1>3 DEF NoEntry
  <2>3. \A l \in Lists : \A y \in ToSet(listeners[l]) : y.id # 0
    BY <1>1, ListedFields
  <2>4. fired \subseteq 0..steps /\ x.id \in 0..steps
    BY <1>1, <1>6 DEF SpentOK
  <2>5. ASSUME NEW l \in Lists, NEW y \in ToSet(listeners[l]), y.once, y.id \in fired'
        PROVE  Runs(stack', y.id)
    <3>1. CASE y.id = x.id
      BY <2>1, <3>1
    <3>2. CASE y.id # x.id
      <4>1. y.id \in fired
        BY <1>2, <2>5, <3>2
      <4>2. Runs(stack, y.id)
        BY <1>1, <2>5, <4>1 DEF SpentOK
      <4> QED
        BY <2>1, <2>2, <2>3, <4>2
    <3> QED
      BY <3>1, <3>2
  <2>6. fired' \subseteq 0..steps
    BY <1>2, <2>4
  <2> QED
    BY <2>5, <2>6 DEF SpentOK
<1> QED
  BY <1>1, <1>2, <1>8, <1>9, <1>10, Assembles

\* The native input sees of a frame whether it is trusted, and its event.
LEMMA NativeAlike ==
  ASSUME NEW nat, NEW st \in Seq(Dispatch), NEW evs, NativeOK(nat, st, evs),
         NEW st2, Len(st2) = Len(st), st = << >> <=> st2 = << >>,
         \A i \in 1..Len(st) : st2[i].trusted = st[i].trusted /\ st2[i].event = st[i].event
  PROVE  NativeOK(nat, st2, evs)
<1>1. st # << >> => Len(st) \in 1..Len(st)
  OBVIOUS
<1>2. Asked(st2, evs) <=> Asked(st, evs)
  BY <1>1 DEF Asked
<1>3. \A i \in 1..Len(st2) : st2[i].trusted => i = Len(st2)
  BY DEF NativeOK
<1> QED
  BY <1>2, <1>3 DEF NativeOK

\* A frame whose listener has returned.
LEMMA ReturnFields ==
  ASSUME NEW f \in Dispatch, NEW g, g = [f EXCEPT !.calling = NoEntry]
  PROVE  g \in Dispatch /\ g.trusted = f.trusted /\ g.event = f.event /\ g.calling = NoEntry
BY DEF Dispatch

\* A listener returns that is not a once listener.
LEMMA ReturnKeeps ==
  ASSUME DispatchIInv, CallbackEnds, ~Top.calling.once PROVE DispatchIInv'
<1> DEFINE f == Top
           g == [f EXCEPT !.calling = NoEntry]
<1>1. /\ steps \in Nat /\ steps \in 0..MaxSteps /\ TreeOK(parent)
      /\ ListsOK(listeners, steps) /\ CountsOK(listeners, counts, steps)
      /\ EventsOK(events) /\ StackOK(stack, listeners, events, steps)
      /\ NativeOK(native, stack, events) /\ SpentOK(listeners, stack, fired, steps)
  BY DispatchAssumption DEF DispatchIInv
<1>2. /\ UNCHANGED <<parent, listeners, counts, events, native, steps, fired>>
      /\ stack # << >> /\ stack' = <<g>> \o Tail(stack)
  BY DEF CallbackEnds, WithTop
<1>3. f = stack[1] /\ f \in Dispatch /\ FrameOK(f, listeners, events, steps) /\ ~f.calling.once
  BY <1>2, TopFacts
<1>4. g \in Dispatch /\ g.trusted = f.trusted /\ g.event = f.event /\ FrameOK(g, listeners, events, steps)
  <2>1. FrameOK([f EXCEPT !.calling = NoEntry], listeners, events, steps)
    BY <1>1, <1>3, FrameReturns
  <2> QED
    BY <1>3, <2>1, ReturnFields
<1> HIDE DEF f, g
<1>5. StackOK(stack', listeners, events, steps)
  BY <1>1, <1>2, <1>4, StackReplaces
<1>6. stack \in Seq(Dispatch)
  BY <1>1 DEF StackOK
<1>7. NativeOK(native, stack', events)
  BY <1>1, <1>2, <1>3, <1>4, <1>6, NativeReplaced
<1>8. SpentOK(listeners, stack', fired, steps)
  <2>1. \A id : Runs(stack, id) /\ stack[1].calling.id # id => Runs(stack', id)
    BY <1>2, <1>4, <1>6, RunsReplaced
  <2>2. \A l \in Lists : \A y \in ToSet(listeners[l]) : y.id # 0
    BY <1>1, ListedFields
  <2>3. \A l \in Lists : \A y \in ToSet(listeners[l]) : y.once => stack[1].calling.id # y.id
    BY <1>3, <2>2 DEF FrameOK, Known
  <2> QED
    BY <1>1, <2>1, <2>3, SpentRests
<1> QED
  BY <1>1, <1>2, <1>5, <1>7, <1>8, Assembles

\* A once listener returns, and leaves its list.
LEMMA OnceKeeps ==
  ASSUME DispatchIInv, CallbackEnds, Top.calling.once PROVE DispatchIInv'
<1> DEFINE f == Top
           nd == f.stops[f.at].node
           t == f.type
           c == f.stops[f.at].capture
           cb == f.calling.callback
           l == <<nd, t, c>>
           h == [node |-> nd, capture |-> c, callback |-> cb]
           rest == Forgiven(nd, t, c, cb)
           g == [rest[1] EXCEPT !.calling = NoEntry]
<1>1. /\ steps \in Nat /\ steps \in 0..MaxSteps /\ TreeOK(parent)
      /\ ListsOK(listeners, steps) /\ CountsOK(listeners, counts, steps)
      /\ EventsOK(events) /\ StackOK(stack, listeners, events, steps)
      /\ NativeOK(native, stack, events) /\ SpentOK(listeners, stack, fired, steps)
  BY DispatchAssumption DEF DispatchIInv
<1>2. /\ UNCHANGED <<parent, events, native, steps, fired>> /\ stack # << >> /\ f.calling # NoEntry
      /\ stack' = <<g>> \o Tail(rest)
      /\ listeners' = Without(listeners, l, cb) /\ counts' = Fewer(counts, listeners, l, cb)
  BY DEF CallbackEnds, remove_once_entry, Without, Fewer
<1>3. f = stack[1] /\ f \in Dispatch /\ FrameOK(f, listeners, events, steps)
  BY <1>2, TopFacts
<1>4. /\ nd \in Targets /\ t \in Types /\ c \in BOOLEAN /\ l = PlaceOf(f, f.at)
      /\ l \in Lists
  <2>1. /\ f.at \in Nat /\ Len(f.stops) \in Nat /\ f.at <= Len(f.stops) /\ f.at # 0
        /\ f.type \in Types /\ \A k \in 1..Len(f.stops) : f.stops[k] \in Stop
    BY <1>2, <1>3, FrameFields DEF FrameOK, FrameTyped
  <2>2. f.at \in 1..Len(f.stops)
    BY <2>1
  <2>3. f.stops[f.at] \in Stop
    BY <2>1, <2>2
  <2>4. nd \in Targets /\ c \in BOOLEAN
    BY <2>3 DEF Stop
  <2> QED
    BY <2>1, <2>4 DEF PlaceOf, Lists
<1>5. cb = f.calling.callback /\ \A y : y = f.calling => y.callback = cb
  OBVIOUS
<1> HIDE DEF cb, nd, t, c
<1>6. /\ ListsOK(listeners', steps) /\ CountsOK(listeners', counts', steps)
      /\ Shrunk(listeners, listeners', l, cb)
  <2> HIDE DEF l
  <2> QED
    BY <1>1, <1>2, <1>4, Removing
<1>7. stack \in Seq(Dispatch)
  BY <1>1 DEF StackOK
<1>8. /\ Len(rest) = Len(stack) /\ rest \in Seq(Dispatch) /\ (stack = << >> <=> rest = << >>)
      /\ \A i \in 1..Len(stack) :
           /\ rest[i] = Excused(stack[i], t, h) /\ rest[i].calling = stack[i].calling
           /\ rest[i].trusted = stack[i].trusted /\ rest[i].event = stack[i].event
           /\ rest[i] \in Dispatch
  BY <1>7, ForgivenFrames
<1> HIDE DEF rest
<1>9. StackOK(rest, listeners', events, steps)
  BY <1>1, <1>4, <1>6, <1>8, StackRemoving
<1>10. NativeOK(native, rest, events)
  BY <1>1, <1>7, <1>8, NativeAlike
<1>11. rest # << >> /\ rest[1] \in Dispatch /\ 1 \in 1..Len(stack) /\ FrameOK(rest[1], listeners', events, steps)
  BY <1>1, <1>2, <1>8, <1>9, StackTop
<1>12. /\ g \in Dispatch /\ g.trusted = rest[1].trusted /\ g.event = rest[1].event
       /\ FrameOK(g, listeners', events, steps)
  <2> DEFINE q == rest[1]
  <2>1. q \in Dispatch /\ FrameOK(q, listeners', events, steps)
    BY <1>11
  <2> HIDE DEF q
  <2>2. FrameOK([q EXCEPT !.calling = NoEntry], listeners', events, steps)
    BY <1>1, <2>1, FrameReturns
  <2>3. g = [q EXCEPT !.calling = NoEntry]
    BY DEF q
  <2>4. g \in Dispatch /\ g.trusted = q.trusted /\ g.event = q.event
    BY <2>1, <2>3, ReturnFields
  <2> QED
    BY <2>2, <2>3, <2>4 DEF q
<1> HIDE DEF g
<1>13. StackOK(stack', listeners', events, steps)
  BY <1>1, <1>2, <1>9, <1>11, <1>12, StackReplaces
<1>14. NativeOK(native, stack', events)
  BY <1>2, <1>8, <1>10, <1>11, <1>12, NativeReplaced
<1>15. SpentOK(listeners', stack', fired, steps)
  <2>1. \A id : Runs(rest, id) /\ rest[1].calling.id # id => Runs(stack', id)
    BY <1>2, <1>8, <1>11, <1>12, RunsReplaced
  <2>2. \A id : Runs(stack, id) => Runs(rest, id)
    BY <1>8 DEF Runs
  <2>3. \A m \in Lists : ToSet(listeners'[m]) \subseteq ToSet(listeners[m])
    BY <1>6 DEF Shrunk
  <2>4. \A m \in Lists : \A y \in ToSet(listeners[m]) : y.id # 0
    BY <1>1, ListedFields
  <2>5. rest[1].calling = f.calling
    BY <1>3, <1>8, <1>11
  <2>6. ASSUME NEW m \in Lists, NEW y \in ToSet(listeners'[m]) PROVE rest[1].calling.id # y.id
    <3> SUFFICES ASSUME f.calling.id = y.id PROVE FALSE
      BY <2>5
    <3>1. y \in ToSet(listeners[m]) /\ y.id # 0
      BY <2>3, <2>4
    <3>2. y = f.calling /\ m = l
      BY <1>3, <1>4, <3>1 DEF FrameOK, Known
    <3>3. y.callback # cb
      BY <1>6, <3>2 DEF Shrunk
    <3> QED
      BY <1>5, <3>2, <3>3
  <2>7. \A m \in Lists : \A y \in ToSet(listeners'[m]) :
          y.once /\ y.id \in fired /\ Runs(stack, y.id) => Runs(stack', y.id)
    BY <2>1, <2>2, <2>6
  <2> QED
    BY <1>1, <2>3, <2>7, SpentRests
<1> QED
  BY <1>1, <1>2, <1>6, <1>13, <1>14, <1>15, Assembles

\* onmessage is called after every listener of the window.
LEMMA OnmessageKeeps == ASSUME DispatchIInv, CallOnmessage PROVE DispatchIInv'
<1> DEFINE f == Top
           g == [f EXCEPT !.handler = FALSE, !.at = Len(f.stops), !.calling = OnmessageCall]
<1>1. /\ steps \in Nat /\ steps \in 0..MaxSteps /\ TreeOK(parent)
      /\ ListsOK(listeners, steps) /\ CountsOK(listeners, counts, steps)
      /\ EventsOK(events) /\ StackOK(stack, listeners, events, steps)
      /\ NativeOK(native, stack, events) /\ SpentOK(listeners, stack, fired, steps)
  BY DispatchAssumption DEF DispatchIInv
<1>2. /\ UNCHANGED <<parent, listeners, counts, native, steps, fired>>
      /\ stack # << >> /\ f.calling = NoEntry
      /\ Over(f, events[f.event]) /\ ~events[f.event].immediate
      /\ stack' = <<g>> \o Tail(stack)
      /\ events' = Visits(events, f.event, Window, 2)
  BY DEF CallOnmessage, Finished, Between, WithTop, Visits, TopEvent, Over, OnmessageCall
<1>3. f = stack[1] /\ f \in Dispatch /\ FrameOK(f, listeners, events, steps) /\ f.event \in DOMAIN events
  BY <1>2, TopFacts
<1>4. g = [f EXCEPT !.handler = FALSE, !.at = Len(f.stops), !.calling = OnmessageCall]
  OBVIOUS
<1>5. g.trusted = f.trusted /\ g.event = f.event
  BY <1>3 DEF Dispatch
<1> HIDE DEF f, g
<1>6. FrameOK(g, listeners, events, steps)
  BY <1>1, <1>2, <1>3, <1>4, FrameOnmessage
<1>7. g \in Dispatch /\ stack \in Seq(Dispatch)
  BY <1>1, <1>6 DEF FrameOK, FrameTyped, StackOK
<1>8. EventsOK(events') /\ Milder(events, events') /\ SameAnswers(events, events')
  <2>1. Window \in Targets \cup {NoTarget} /\ 2 \in 0..3
    BY DEF Targets
  <2> QED
    BY <1>1, <1>2, <1>3, <2>1, VisitsFacts
<1>9. StackOK(stack', listeners, events, steps)
  BY <1>1, <1>2, <1>6, StackReplaces
<1>10. StackOK(stack', listeners, events', steps)
  BY <1>1, <1>8, <1>9, StackRests
<1>11. NativeOK(native, stack', events')
  <2>1. NativeOK(native, stack', events)
    BY <1>1, <1>2, <1>3, <1>5, <1>7, NativeReplaced
  <2>2. Asked(stack', events') <=> Asked(stack', events)
    BY <1>8, <1>9, AskedSame DEF SameAnswers
  <2> QED
    BY <2>1, <2>2 DEF NativeOK
<1>12. SpentOK(listeners, stack', fired, steps)
  <2>1. \A id : Runs(stack, id) /\ stack[1].calling.id # id => Runs(stack', id)
    BY <1>2, <1>7, RunsReplaced
  <2>2. stack[1].calling.id = 0
    BY <1>2, <1>3 DEF NoEntry
  <2>3. \A l \in Lists : \A y \in ToSet(listeners[l]) : y.id # 0
    BY <1>1, ListedFields
  <2> QED
    BY <1>1, <2>1, <2>2, <2>3, SpentRests
<1> QED
  BY <1>1, <1>2, <1>8, <1>10, <1>11, <1>12, Assembles

\* What native holds.
NativeSet == [queue : Seq(Types), target : Targets \cup {NoTarget}, edits : BOOLEAN,
              prevented : BOOLEAN, asked : BOOLEAN, done : BOOLEAN]

\* The outcome of a dispatch is kept.
LEMMA NativePrevents ==
  ASSUME NEW nat \in NativeSet, NEW p \in BOOLEAN, NEW new, new = [nat EXCEPT !.prevented = @ \/ p]
  PROVE  /\ new \in NativeSet /\ new.queue = nat.queue /\ new.target = nat.target
         /\ new.asked = nat.asked /\ new.done = nat.done /\ new.prevented = (nat.prevented \/ p)
BY DEF NativeSet

\* The outcome of the outermost dispatch, if it was a trusted one, is kept.
LEMMA EndKeeps == ASSUME DispatchIInv, EndDispatch PROVE DispatchIInv'
<1> DEFINE f == Top
           t == Tail(stack)
           p == events[f.event].cancelable /\ events[f.event].prevented
<1>1. /\ steps \in Nat /\ steps \in 0..MaxSteps /\ TreeOK(parent)
      /\ ListsOK(listeners, steps) /\ CountsOK(listeners, counts, steps)
      /\ EventsOK(events) /\ StackOK(stack, listeners, events, steps)
      /\ NativeOK(native, stack, events) /\ SpentOK(listeners, stack, fired, steps)
  BY DispatchAssumption DEF DispatchIInv
<1>2. /\ UNCHANGED <<parent, listeners, counts, steps, fired>>
      /\ stack # << >> /\ f.calling = NoEntry /\ stack' = t
      /\ events' = Visits(events, f.event, NoTarget, 0)
      /\ native' = IF f.trusted THEN [native EXCEPT !.prevented = @ \/ p] ELSE native
  BY DEF EndDispatch, Finished, Between, Visits, TopEvent
<1>3. f = stack[1] /\ f \in Dispatch /\ f.event \in DOMAIN events /\ f.trusted \in BOOLEAN
  BY <1>2, TopFacts, FrameFields
<1>4. EventsOK(events') /\ Milder(events, events') /\ SameAnswers(events, events')
  <2>1. NoTarget \in Targets \cup {NoTarget} /\ 0 \in 0..3
    OBVIOUS
  <2> HIDE DEF f
  <2> QED
    BY <1>1, <1>2, <1>3, <2>1, VisitsFacts
<1>5. p \in BOOLEAN
  BY <1>1, <1>3, EventFields
<1>6. /\ StackOK(t, listeners, events, steps) /\ Len(t) = Len(stack) - 1 /\ Len(stack) \in Nat \ {0}
      /\ \A i \in 1..Len(t) : t[i] = stack[i + 1] /\ i + 1 \in 1..Len(stack)
  BY <1>1, <1>2, StackPops, StackTop
<1>7. p <=> events[f.event].cancelable /\ events[f.event].prevented
  OBVIOUS
<1> HIDE DEF f, t, p
<1>8. StackOK(t, listeners, events', steps)
  BY <1>1, <1>4, <1>6, StackRests
<1>9. NativeOK(native', stack', events')
  <2>1. Asked(t, events') <=> Asked(t, events)
    BY <1>4, <1>6, AskedSame DEF SameAnswers
  <2>2. ASSUME NEW i \in 1..Len(t), t[i].trusted PROVE i = Len(t)
    <3>1. i + 1 = Len(stack)
      BY <1>1, <1>6, <2>2 DEF NativeOK
    <3> QED
      BY <1>6, <3>1
  <2>3. native \in NativeSet
    BY <1>1 DEF NativeOK, NativeSet
  <2>4. CASE Len(stack) = 1
    <3>1. ~Asked(t, events)
      <4>1. Len(t) = 0 /\ t \in Seq(Dispatch)
        BY <1>6, <2>4 DEF StackOK
      <4> QED
        BY <4>1 DEF Asked
    <3>2. Asked(stack, events) <=> f.trusted /\ p
      BY <1>2, <1>3, <1>7, <2>4 DEF Asked
    <3>3. /\ native' \in NativeSet /\ native'.queue = native.queue /\ native'.target = native.target
          /\ native'.asked = native.asked /\ native'.done = native.done
          /\ native'.prevented = (native.prevented \/ (f.trusted /\ p))
      <4>1. CASE f.trusted
        <5>1. native' = [native EXCEPT !.prevented = @ \/ p]
          BY <1>2, <4>1
        <5>2. /\ native' \in NativeSet /\ native'.queue = native.queue /\ native'.target = native.target
              /\ native'.asked = native.asked /\ native'.done = native.done
              /\ native'.prevented = (native.prevented \/ p)
          BY <1>5, <2>3, <5>1, NativePrevents
        <5> QED
          BY <4>1, <5>2
      <4>2. CASE ~f.trusted
        <5>1. native' = native /\ native.prevented \in BOOLEAN
          BY <1>2, <2>3, <4>2 DEF NativeSet
        <5> QED
          BY <2>3, <4>2, <5>1
      <4> QED
        BY <4>1, <4>2
    <3>4. native'.asked <=> native'.prevented \/ Asked(t, events')
      BY <1>1, <2>1, <3>1, <3>2, <3>3 DEF NativeOK
    <3> QED
      BY <1>1, <1>2, <2>2, <3>3, <3>4 DEF NativeOK, NativeSet
  <2>5. CASE Len(stack) # 1
    <3>1. 1 \in 1..Len(stack) /\ Len(t) \in 1..Len(t) /\ Len(t) + 1 = Len(stack)
      BY <1>6, <2>5
    <3>2. ~f.trusted
      BY <1>1, <1>3, <2>5, <3>1 DEF NativeOK
    <3>3. native' = native
      BY <1>2, <3>2
    <3>4. t[Len(t)] = stack[Len(stack)] /\ t # << >>
      <4>1. t[Len(t)] = stack[Len(stack)]
        BY <1>6, <3>1
      <4>2. t # << >>
        BY <3>1
      <4> QED
        BY <4>1, <4>2
    <3>5. Asked(t, events) <=> Asked(stack, events)
      BY <1>2, <3>4 DEF Asked
    <3> QED
      BY <1>1, <1>2, <2>1, <2>2, <3>3, <3>5 DEF NativeOK
  <2> QED
    BY <2>4, <2>5
<1>10. SpentOK(listeners, t, fired, steps)
  <2>1. ASSUME NEW id, Runs(stack, id), id # 0 PROVE Runs(t, id)
    <3>1. PICK k \in 1..Len(stack) : stack[k].calling.id = id
      BY <2>1 DEF Runs
    <3>2. k # 1
      BY <1>2, <1>3, <2>1, <3>1 DEF NoEntry
    <3>3. k - 1 \in 1..Len(t) /\ (k - 1) + 1 = k
      BY <1>6, <3>2
    <3>4. t[k - 1] = stack[k]
      BY <1>6, <3>3
    <3> QED
      BY <3>1, <3>3, <3>4 DEF Runs
  <2>2. \A l \in Lists : \A y \in ToSet(listeners[l]) : y.id # 0
    BY <1>1, ListedFields
  <2> QED
    BY <1>1, <2>1, <2>2, SpentRests
<1> QED
  BY <1>1, <1>2, <1>4, <1>8, <1>9, <1>10, Assembles

\* One frame alone.
LEMMA AloneElements ==
  ASSUME NEW M, NEW f \in M
  PROVE  <<f>> \in Seq(M) /\ Len(<<f>>) = 1 /\ <<f>>[1] = f /\ <<f>> # << >>
OBVIOUS

\* The next event of a native input is sent, if anybody listens.
LEMMA SendKeeps == ASSUME DispatchIInv, SendNative PROVE DispatchIInv'
<1> DEFINE type == Head(native.queue)
           sent == any_listener_for_type(type) \/ type = "message"
<1>1. /\ steps \in Nat /\ steps \in 0..MaxSteps /\ TreeOK(parent)
      /\ ListsOK(listeners, steps) /\ CountsOK(listeners, counts, steps)
      /\ EventsOK(events) /\ StackOK(stack, listeners, events, steps)
      /\ NativeOK(native, stack, events) /\ SpentOK(listeners, stack, fired, steps)
  BY DispatchAssumption DEF DispatchIInv
<1>2. /\ UNCHANGED <<parent, listeners, counts, steps, fired>>
      /\ stack = << >> /\ native.queue # << >> /\ native' = [native EXCEPT !.queue = Tail(@)]
  BY DEF SendNative
<1>3. native \in NativeSet /\ native.target \in Targets /\ ~native.done
  BY <1>1, <1>2 DEF NativeOK, NativeSet
<1>4. /\ native.queue \in Seq(Types) /\ type \in Types /\ Tail(native.queue) \in Seq(Types)
  <2>1. native.queue \in Seq(Types)
    BY <1>3 DEF NativeSet
  <2> QED
    BY <1>2, <2>1, HeadAndTail
<1>5. /\ native' \in NativeSet /\ native'.target = native.target /\ native'.done = native.done
      /\ native'.asked = native.asked /\ native'.prevented = native.prevented
  BY <1>2, <1>3, <1>4 DEF NativeSet
<1>6. ~Asked(stack, events)
  BY <1>2 DEF Asked
<1>7. CASE sent
  <2> DEFINE event == NewEvent(type, type # "message", type \in Cancelable)
             e == Len(events) + 1
             yes == TRUE
             handled == (type = "message")
             f == FrameOf(e, event, native.target, yes, handled)
  <2>1. Len(events) < MaxEvents /\ events' = Append(events, event) /\ stack' = <<f>>
    BY <1>7 DEF SendNative
  <2>2. event \in EventObject /\ ~event.immediate /\ ~event.prevented
    <3> DEFINE b == (type # "message")
               c == (type \in Cancelable)
    <3>1. b \in BOOLEAN /\ c \in BOOLEAN
      OBVIOUS
    <3> HIDE DEF b, c
    <3>2. NewEvent(type, b, c) \in EventObject /\ ~NewEvent(type, b, c).immediate /\ ~NewEvent(type, b, c).prevented
      BY <1>4, <3>1, EventNew
    <3> QED
      BY <3>2 DEF b, c
  <2> HIDE DEF event
  <2>3. /\ EventsOK(events') /\ Milder(events, events') /\ e \in DOMAIN events' /\ events'[e] = event
        /\ e \in Nat /\ events'[e] \in EventObject
    <3>1. /\ EventsOK(events') /\ Milder(events, events') /\ e \in DOMAIN events' /\ events'[e] = event
      BY <1>1, <2>1, <2>2, EventAppended
    <3> HIDE DEF e
    <3> QED
      BY <3>1, EventFields
  <2>4. yes \in BOOLEAN /\ handled \in BOOLEAN
    OBVIOUS
  <2>5. f = FrameOf(e, events'[e], native.target, yes, handled)
    BY <2>3
  <2> HIDE DEF f, e, handled, yes
  <2>6. FrameOK(FrameOf(e, events'[e], native.target, yes, handled), listeners, events', steps)
    BY <1>1, <1>3, <2>3, <2>4, FrameBegins
  <2>7. FrameOK(f, listeners, events', steps)
    BY <2>5, <2>6
  <2>8. f \in Dispatch /\ f.event = e
    BY <2>5, <2>7 DEF FrameOK, FrameTyped, FrameOf
  <2>9. stack' \in Seq(Dispatch) /\ Len(stack') = 1 /\ stack'[1] = f /\ stack' # << >>
    BY <2>1, <2>8, AloneElements
  <2>10. StackOK(stack', listeners, events', steps)
    BY <2>7, <2>9 DEF StackOK
  <2>11. ~Asked(stack', events')
    BY <2>2, <2>3, <2>8, <2>9 DEF Asked
  <2>12. NativeOK(native', stack', events')
    BY <1>1, <1>3, <1>5, <1>6, <2>9, <2>11 DEF NativeOK, NativeSet
  <2>13. SpentOK(listeners, stack', fired, steps)
    <3>1. \A id : ~Runs(stack, id)
      BY <1>2 DEF Runs
    <3> QED
      BY <1>1, <3>1, SpentRests
  <2> QED
    BY <1>1, <1>2, <2>3, <2>10, <2>12, <2>13, Assembles
<1>8. CASE ~sent
  <2>1. UNCHANGED <<events, stack>>
    BY <1>8 DEF SendNative
  <2>2. NativeOK(native', stack, events)
    BY <1>1, <1>2, <1>3, <1>5 DEF NativeOK, NativeSet
  <2> QED
    BY <1>1, <1>2, <2>1, <2>2, Assembles
<1> QED
  BY <1>7, <1>8

\* The default action of a native input, or none.
LEMMA DecideKeeps == ASSUME DispatchIInv, Decide PROVE DispatchIInv'
<1>1. /\ steps \in Nat /\ steps \in 0..MaxSteps /\ TreeOK(parent)
      /\ ListsOK(listeners, steps) /\ CountsOK(listeners, counts, steps)
      /\ EventsOK(events) /\ StackOK(stack, listeners, events, steps)
      /\ NativeOK(native, stack, events) /\ SpentOK(listeners, stack, fired, steps)
  BY DispatchAssumption DEF DispatchIInv
<1>2. /\ UNCHANGED <<parent, listeners, counts, events, stack, steps, fired>>
      /\ native.queue = << >> /\ ~native.done
  BY DEF Decide
<1>3. native \in NativeSet /\ native.target \in Targets
  BY <1>1, <1>2 DEF NativeOK, NativeSet
<1>4. /\ native' \in NativeSet /\ native'.target = native.target
      /\ native'.asked = native.asked /\ native'.prevented = native.prevented
      /\ native'.queue # << >> => ~native'.done
  <2>1. CASE native' = [native EXCEPT !.queue = <<"input", "keyup">>, !.edits = FALSE]
    <3>1. <<"input", "keyup">> \in Seq(Types)
      BY DEF Types
    <3> QED
      BY <1>2, <1>3, <2>1, <3>1 DEF NativeSet
  <2>2. CASE native' = [native EXCEPT !.done = TRUE]
    BY <1>2, <1>3, <2>2 DEF NativeSet
  <2> QED
    BY <2>1, <2>2 DEF Decide
<1>5. NativeOK(native', stack, events)
  BY <1>1, <1>3, <1>4 DEF NativeOK, NativeSet
<1> QED
  BY <1>1, <1>2, <1>5, Assembles

\* A native input arrives between two dispatches.
LEMMA GestureKeeps == ASSUME DispatchIInv, NEW g \in Gestures, BeginGesture(g) PROVE DispatchIInv'
<1> DEFINE queue == IF Listened(g.kind) THEN EventsOf(g.kind) ELSE << >>
<1>1. /\ steps \in Nat /\ steps \in 0..MaxSteps /\ TreeOK(parent)
      /\ ListsOK(listeners, steps) /\ CountsOK(listeners, counts, steps)
      /\ EventsOK(events) /\ StackOK(stack, listeners, events, steps)
      /\ NativeOK(native, stack, events) /\ SpentOK(listeners, stack, fired, steps)
  BY DispatchAssumption DEF DispatchIInv
<1>2. /\ UNCHANGED <<parent, listeners, counts, events, stack, fired>>
      /\ stack = << >> /\ steps < MaxSteps /\ steps' = steps + 1
      /\ native' = [queue |-> queue, target |-> g.node, edits |-> g.kind = "key",
                    prevented |-> FALSE, asked |-> FALSE, done |-> FALSE]
  BY DEF BeginGesture
<1>3. steps' \in 0..MaxSteps /\ steps' \in Nat /\ steps <= steps'
  BY <1>1, <1>2, DispatchAssumption
<1>4. queue \in Seq(Types)
  <2>1. g.kind \in {"click", "key", "submit", "message"}
    BY DispatchAssumption
  <2>2. EventsOf(g.kind) \in Seq(Types)
    <3>1. /\ <<"mousedown", "mouseup", "click">> \in Seq(Types) /\ <<"keydown">> \in Seq(Types)
          /\ <<"submit">> \in Seq(Types) /\ <<"message">> \in Seq(Types)
      BY DEF Types
    <3> QED
      BY <2>1, <3>1 DEF EventsOf
  <2> QED
    BY <2>2
<1> HIDE DEF queue
<1>5. NativeOK(native', stack, events)
  <2>1. ~Asked(stack, events)
    BY <1>2 DEF Asked
  <2>2. g.node \in Targets
    BY DispatchAssumption
  <2>3. (g.kind = "key") \in BOOLEAN
    OBVIOUS
  <2> DEFINE key == (g.kind = "key")
  <2> HIDE DEF key
  <2>4. key \in BOOLEAN /\ native' = [queue |-> queue, target |-> g.node, edits |-> key,
                    prevented |-> FALSE, asked |-> FALSE, done |-> FALSE]
    BY <1>2, <2>3 DEF key
  <2>5. /\ native' \in NativeSet /\ native'.target = g.node /\ native'.done = FALSE
        /\ native'.asked = FALSE /\ native'.prevented = FALSE
    BY <1>4, <2>2, <2>4 DEF NativeSet
  <2> QED
    BY <1>1, <2>1, <2>2, <2>5 DEF NativeOK, NativeSet
<1>6. ListsOK(listeners, steps') /\ CountsOK(listeners, counts, steps')
  BY <1>1, <1>2, Later
<1>7. StackOK(stack, listeners, events, steps')
  BY <1>1, <1>3, SameMilder, StackRests
<1>8. SpentOK(listeners, stack, fired, steps')
  BY <1>1, <1>3, SpentRests
<1> QED
  BY <1>1, <1>2, <1>3, <1>5, <1>6, <1>7, <1>8, Assembles

-----------------------------------------------------------------------------
(***************************************************************************)
(* Theorems on dispatch.                                                   *)
(***************************************************************************)
\* Every step keeps the invariant.
LEMMA DispatchKept == DispatchIInv /\ [DispatchNext]_dispatchVars => DispatchIInv'
<1> SUFFICES ASSUME DispatchIInv, [DispatchNext]_dispatchVars PROVE DispatchIInv'
  OBVIOUS
<1>1. ASSUME NEW a \in Adds, add_listener(a) PROVE DispatchIInv'
  BY <1>1, AddKeeps
<1>2. ASSUME NEW r \in Removes, remove_listener(r) PROVE DispatchIInv'
  BY <1>2, RemoveKeeps
<1>3. ASSUME NEW m \in Moves, MoveNode(m) PROVE DispatchIInv'
  BY <1>3, MoveKeeps
<1>4. ASSUME NEW s \in Sends, dispatch_event(s) PROVE DispatchIInv'
  BY <1>4, DispatchKeeps
<1>5. ASSUME NEW e \in DOMAIN events, NEW s \in Sends, DispatchAgain(e, s.node) PROVE DispatchIInv'
  <2>1. s.node \in Targets
    BY DispatchAssumption
  <2> QED
    BY <1>5, <2>1, AgainKeeps
<1>6. ASSUME NEW e \in DOMAIN events, NEW immediate \in BOOLEAN, RaiseFlag(e, immediate)
      PROVE  DispatchIInv'
  BY <1>6, RaiseKeeps
<1>7. ASSUME NEW e \in DOMAIN events, preventDefault(e) PROVE DispatchIInv'
  BY <1>7, PreventKeeps
<1>8. CASE Arrive
  BY <1>8, ArriveKeeps
<1>9. CASE Call
  BY <1>9, CallKeeps
<1>10. CASE CallbackEnds
  BY <1>10, ReturnKeeps, OnceKeeps
<1>11. CASE CallOnmessage
  BY <1>11, OnmessageKeeps
<1>12. CASE EndDispatch
  BY <1>12, EndKeeps
<1>13. CASE SendNative
  BY <1>13, SendKeeps
<1>14. CASE Decide
  BY <1>14, DecideKeeps
<1>15. ASSUME NEW g \in Gestures, BeginGesture(g) PROVE DispatchIInv'
  BY <1>15, GestureKeeps
<1>16. CASE UNCHANGED dispatchVars
  BY <1>16, Assembles DEF DispatchIInv, dispatchVars
<1> QED
  BY <1>1, <1>2, <1>3, <1>4, <1>5, <1>6, <1>7, <1>8, <1>9, <1>10, <1>11, <1>12, <1>13, <1>14, <1>15, <1>16
  DEF DispatchNext, ScriptActs, HostActs

\* The bookkeeping of listeners and of the events under way is right at every
\* step: lists and counters agree, once listeners go, and a native input is
\* prevented when its own event was (dom_bridge.rs, event_dispatch.rs).
THEOREM DispatchSafe == DispatchSpec => []DispatchInv
<1> QED
  BY DispatchStarts, DispatchKept, ImpliesDispatchInv, PTL DEF DispatchSpec

\* No frame hears anything, and none ends.
Quiet(st, st2) ==
  /\ Len(st) <= Len(st2)
  /\ Len(st2) = Len(st) => \A i \in 1..Len(st) : st2[i].heard = st[i].heard

\* A frame that hears nothing is replaced.
LEMMA QuietTop ==
  ASSUME NEW st \in Seq(Dispatch), st # << >>, NEW f \in Dispatch, f.heard = st[1].heard
  PROVE  Quiet(st, <<f>> \o Tail(st))
<1> DEFINE r == <<f>> \o Tail(st)
<1>1. /\ Len(r) = Len(st) /\ Len(st) \in Nat \ {0} /\ r[1] = f
      /\ \A i \in 1..Len(st) : i # 1 => r[i] = st[i]
  BY TopElements
<1> HIDE DEF r
<1>2. \A i \in 1..Len(st) : r[i].heard = st[i].heard
  BY <1>1
<1> QED
  BY <1>1, <1>2 DEF Quiet, r

\* A frame that begins has heard nothing.
LEMMA QuietPush ==
  ASSUME NEW st \in Seq(Dispatch), NEW f \in Dispatch PROVE Quiet(st, <<f>> \o st)
<1>1. Len(<<f>> \o st) = Len(st) + 1 /\ Len(st) \in Nat
  BY PushElements
<1> QED
  BY <1>1 DEF Quiet

LEMMA QuietSame == ASSUME NEW st, Len(st) \in Nat PROVE Quiet(st, st)
BY DEF Quiet

\* What is forgiven is not what was heard.
LEMMA ForgivenHeard ==
  ASSUME stack \in Seq(Dispatch), NEW nd, NEW t, NEW c, NEW cb, NEW r, r = Forgiven(nd, t, c, cb)
  PROVE  /\ Len(r) = Len(stack) /\ r \in Seq(Dispatch) /\ (stack = << >> <=> r = << >>)
         /\ \A i \in 1..Len(stack) : r[i].heard = stack[i].heard /\ r[i] \in Dispatch
<1> DEFINE q == Forgiven(nd, t, c, cb)
           h == [node |-> nd, capture |-> c, callback |-> cb]
<1>1. /\ Len(q) = Len(stack) /\ q \in Seq(Dispatch) /\ (stack = << >> <=> q = << >>)
      /\ \A i \in 1..Len(stack) :
           /\ q[i] = Excused(stack[i], t, h)
           /\ q[i].calling = stack[i].calling /\ q[i].heard = stack[i].heard
           /\ q[i].trusted = stack[i].trusted /\ q[i].event = stack[i].event
           /\ q[i].stops = stack[i].stops /\ q[i].at = stack[i].at /\ q[i] \in Dispatch
  BY ForgivenFrames
<1> HIDE DEF h
<1> QED
  BY <1>1

\* Only a call adds to what a dispatch heard, and only its end ends it.
LEMMA MostAreQuiet ==
  ASSUME DispatchIInv, DispatchIInv', [DispatchNext]_dispatchVars
  PROVE  Call \/ EndDispatch \/ Quiet(stack, stack')
<1>1. /\ stack \in Seq(Dispatch) /\ stack' \in Seq(Dispatch)
      /\ Len(stack) \in Nat /\ Len(stack') \in Nat
  BY SeqElements DEF DispatchIInv, StackOK
<1>2. CASE stack' = stack
  BY <1>1, <1>2, QuietSame
<1>3. ASSUME NEW r \in Removes, remove_listener(r) PROVE Quiet(stack, stack')
  <2> DEFINE rest == Forgiven(r.node, r.type, r.capture, r.callback)
  <2>1. stack' = rest
    BY <1>3 DEF remove_listener
  <2>2. Len(rest) = Len(stack) /\ \A i \in 1..Len(stack) : rest[i].heard = stack[i].heard
    BY <1>1, ForgivenHeard
  <2> HIDE DEF rest
  <2> QED
    BY <1>1, <2>1, <2>2 DEF Quiet
<1>4. ASSUME NEW f, stack' = <<f>> \o stack PROVE Quiet(stack, stack')
  <2>1. f = stack'[1] /\ stack' # << >> /\ Len(stack') = Len(stack) + 1
    BY <1>1, <1>4
  <2> QED
    BY <1>1, <2>1 DEF Quiet
<1>5. ASSUME NEW s \in Sends, dispatch_event(s) PROVE Quiet(stack, stack')
  BY <1>4, <1>5 DEF dispatch_event
<1>6. ASSUME NEW e, NEW n, DispatchAgain(e, n) PROVE Quiet(stack, stack')
  BY <1>4, <1>6 DEF DispatchAgain
<1>7. ASSUME NEW f, stack # << >>, stack' = <<f>> \o Tail(stack), f.heard = stack[1].heard
      PROVE  Quiet(stack, stack')
  <2>1. Tail(stack) \in Seq(Dispatch) /\ Len(Tail(stack)) = Len(stack) - 1 /\ Len(stack) \in Nat \ {0}
    BY <1>1, <1>7, HeadAndTail
  <2>2. stack'[1] = f /\ 1 \in 1..Len(stack')
    <3> DEFINE t == Tail(stack)
    <3>1. t \in Seq(Dispatch) /\ stack' = <<f>> \o t /\ Len(t) = Len(stack) - 1
      BY <1>7, <2>1
    <3> HIDE DEF t
    <3> QED
      BY <2>1, <3>1
  <2>3. f \in Dispatch
    BY <1>1, <2>2
  <2> QED
    BY <1>1, <1>7, <2>3, QuietTop
<1>8. CASE Arrive
  <2>1. stack # << >> /\ Top = stack[1] /\ Top \in Dispatch
    BY <1>8, TopFacts DEF Arrive, Between
  <2> DEFINE k == Min(Ahead(Top, TopEvent))
             g == [Top EXCEPT !.at = k, !.entries = ListOf(Top, k)]
  <2>2. stack' = <<g>> \o Tail(stack)
    BY <1>8 DEF Arrive, WithTop
  <2>3. g.heard = Top.heard
    BY <2>1 DEF Dispatch
  <2> HIDE DEF g
  <2> QED
    BY <1>7, <2>1, <2>2, <2>3
<1>9. CASE CallOnmessage
  <2>1. stack # << >> /\ Top = stack[1] /\ Top \in Dispatch
    BY <1>9, TopFacts DEF CallOnmessage, Finished, Between
  <2> DEFINE g == [Top EXCEPT !.handler = FALSE, !.at = Len(Top.stops),
                              !.calling = [NoEntry EXCEPT !.callback = Window]]
  <2>2. stack' = <<g>> \o Tail(stack)
    BY <1>9 DEF CallOnmessage, WithTop
  <2>3. g.heard = Top.heard
    BY <2>1 DEF Dispatch
  <2> HIDE DEF g
  <2> QED
    BY <1>7, <2>1, <2>2, <2>3
<1>10. CASE CallbackEnds /\ ~Top.calling.once
  <2>1. stack # << >> /\ Top = stack[1] /\ Top \in Dispatch
    BY <1>10, TopFacts DEF CallbackEnds
  <2> DEFINE g == [Top EXCEPT !.calling = NoEntry]
  <2>2. stack' = <<g>> \o Tail(stack)
    BY <1>10 DEF CallbackEnds, WithTop
  <2>3. g.heard = Top.heard
    BY <2>1 DEF Dispatch
  <2> HIDE DEF g
  <2> QED
    BY <1>7, <2>1, <2>2, <2>3
<1>11. CASE CallbackEnds /\ Top.calling.once
  <2> DEFINE nd == Top.stops[Top.at].node
             t == Top.type
             c == Top.stops[Top.at].capture
             cb == Top.calling.callback
             rest == Forgiven(nd, t, c, cb)
             g == [rest[1] EXCEPT !.calling = NoEntry]
  <2>1. stack # << >> /\ stack' = <<g>> \o Tail(rest)
    BY <1>11 DEF CallbackEnds, remove_once_entry
  <2> HIDE DEF nd, t, c, cb
  <2>2. /\ Len(rest) = Len(stack) /\ rest \in Seq(Dispatch) /\ rest # << >>
        /\ \A i \in 1..Len(stack) : rest[i].heard = stack[i].heard /\ rest[i] \in Dispatch
    BY <1>1, <2>1, ForgivenHeard
  <2> HIDE DEF rest
  <2>3. 1 \in 1..Len(stack)
    BY <1>1, <2>1
  <2>4. g \in Dispatch /\ g.heard = rest[1].heard
    <3>1. rest[1] \in Dispatch
      BY <2>2, <2>3
    <3> QED
      BY <3>1 DEF Dispatch
  <2> HIDE DEF g
  <2>5. Quiet(rest, stack')
    BY <2>1, <2>2, <2>4, QuietTop
  <2> QED
    BY <1>1, <2>2, <2>5 DEF Quiet
<1>12. CASE SendNative
  <2>1. Len(stack) = 0
    BY <1>12 DEF SendNative
  <2> QED
    BY <1>1, <2>1 DEF Quiet
<1> QED
  BY <1>2, <1>3, <1>5, <1>6, <1>8, <1>9, <1>10, <1>11, <1>12
  DEF DispatchNext, ScriptActs, HostActs, dispatchVars, add_listener, MoveNode, RaiseFlag,
      preventDefault, Decide, BeginGesture

\* What HearsExactlyOnce and StopHolds say of a step.
EndsHeard ==
  Len(stack') < Len(stack) => /\ IsInjective(Top.heard)
                              /\ ~TopEvent.stop => Top.due \subseteq ToSet(Top.heard)
StopsHold ==
  \A i \in DOMAIN stack' :
    (/\ Len(stack') = Len(stack) /\ stack'[i].heard # stack[i].heard
     /\ events[stack[i].event].stop) =>
        Visiting(i) \in events[stack[i].event].stoppedIn

\* The two properties of a step.
LEMMA StepHeard ==
  ASSUME DispatchIInv, DispatchIInv', [DispatchNext]_dispatchVars PROVE EndsHeard /\ StopsHold
<1>1. /\ stack \in Seq(Dispatch) /\ stack' \in Seq(Dispatch)
      /\ Len(stack) \in Nat /\ Len(stack') \in Nat /\ DOMAIN stack' = 1..Len(stack')
  BY SeqElements DEF DispatchIInv, StackOK
<1>2. steps \in Nat
  BY DispatchAssumption DEF DispatchIInv
<1>3. CASE Quiet(stack, stack')
  <2>1. Len(stack) <= Len(stack')
    BY <1>3 DEF Quiet
  <2>2. EndsHeard
    BY <1>1, <2>1 DEF EndsHeard
  <2>3. StopsHold
    BY <1>1, <1>3 DEF Quiet, StopsHold
  <2> QED
    BY <2>2, <2>3
<1>4. CASE EndDispatch
  <2> DEFINE f == Top
  <2>1. stack # << >> /\ stack' = Tail(stack) /\ Over(f, events[f.event])
    BY <1>4 DEF EndDispatch, Finished, Between, Over, TopEvent
  <2>2. /\ f \in Dispatch /\ FrameOK(f, listeners, events, steps)
        /\ events[f.event].immediate => events[f.event].stop
    BY <2>1, TopFacts DEF TopEvent
  <2> HIDE DEF f
  <2>3. ~events[f.event].stop => f.due \subseteq ToSet(f.heard)
    BY <1>2, <2>1, <2>2, NothingOwed
  <2>4. IsInjective(f.heard)
    <3>1. f.heard \in Seq(Hearing)
      BY <2>2, FrameFields
    <3>2. DOMAIN f.heard = 1..Len(f.heard)
      BY <3>1, SeqElements
    <3> QED
      BY <2>2, <3>2 DEF FrameOK, Hears, HeardOnce, IsInjective
  <2>5. EndsHeard
    BY <2>3, <2>4 DEF EndsHeard, f, TopEvent
  <2>6. Len(stack') # Len(stack)
    BY <1>1, <2>1, HeadAndTail
  <2>7. StopsHold
    BY <2>6 DEF StopsHold
  <2> QED
    BY <2>5, <2>7
<1>5. CASE Call
  <2> DEFINE f == Top
             x == Head(f.entries)
             h == Told(f.stops[f.at], x.callback)
             g == Called(f, x, h)
  <2>1. stack # << >> /\ f.entries # << >> /\ stack' = <<g>> \o Tail(stack)
    BY <1>5 DEF Call, Between, WithTop, Called, Told
  <2>2. f = stack[1] /\ f \in Dispatch /\ FrameOK(f, listeners, events, steps)
    BY <2>1, TopFacts
  <2>3. x = Head(f.entries) /\ h = Told(f.stops[f.at], x.callback) /\ g = Called(f, x, h)
    OBVIOUS
  <2> HIDE DEF f, x, h, g
  <2>4. /\ FrameOK(g, listeners, events, steps)
        /\ events[f.event].stop => f.stops[f.at].node \in events[f.event].stoppedIn
    BY <1>2, <2>1, <2>2, <2>3, FrameCalls
  <2>5. g \in Dispatch
    BY <2>4 DEF FrameOK, FrameTyped
  <2>6. Len(stack') = Len(stack) /\ \A i \in 1..Len(stack) : i # 1 => stack'[i] = stack[i]
    BY <1>1, <2>1, <2>5, TopElements
  <2>7. EndsHeard
    BY <1>1, <2>6 DEF EndsHeard
  <2>8. StopsHold
    <3> SUFFICES ASSUME NEW i \in DOMAIN stack', stack'[i].heard # stack[i].heard,
                        events[stack[i].event].stop
                 PROVE  Visiting(i) \in events[stack[i].event].stoppedIn
      BY DEF StopsHold
    <3>1. i = 1
      BY <1>1, <2>6
    <3> QED
      BY <2>2, <2>4, <3>1 DEF Visiting
  <2> QED
    BY <2>7, <2>8
<1> QED
  BY <1>3, <1>4, <1>5, MostAreQuiet

\* Every listener that was on the path when a dispatch began, and was not
\* removed since, has heard the event when the dispatch ends, once, unless it
\* was stopped; and after stopPropagation no other node's listener hears it,
\* in this dispatch or in another of the same object (propagate_event).
THEOREM EventsHeardOnce == DispatchSpec => HeardOnceUntilStopped
<1>1. DispatchIInv /\ DispatchIInv' /\ [DispatchNext]_dispatchVars => [EndsHeard]_dispatchVars /\ [StopsHold]_dispatchVars
  BY StepHeard
<1>2. DispatchSpec => [][EndsHeard]_dispatchVars /\ [][StopsHold]_dispatchVars
  BY <1>1, DispatchStarts, DispatchKept, PTL DEF DispatchSpec
<1>3. [][EndsHeard]_dispatchVars => HearsExactlyOnce
  BY PTL DEF HearsExactlyOnce, EndsHeard
<1>4. [][StopsHold]_dispatchVars => StopHolds
  BY PTL DEF StopHolds, StopsHold
<1> QED
  BY <1>2, <1>3, <1>4 DEF HeardOnceUntilStopped
=============================================================================
