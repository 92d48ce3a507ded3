------------------------------- MODULE HttpProofs -------------------------------
(***************************************************************************)
(* Proofs about the response cache, the dates it and the cookie jar        *)
(* compute with, and the client whose requests carry the jar's cookies.    *)
(*                                                                         *)
(* HttpCache, for every set of renderers, every lifetime and every number  *)
(* of representations: ServedWithinLifetime speaks of the renderers'       *)
(* memories only; what makes it inductive is that every entry, on disk     *)
(* too, is as old as the word of the origin it rests on (AgeInv).          *)
(* ReplacedStaysGone needs the history of a cache that has one renderer at *)
(* a time (TurnInv): the entries and the reply under way are no older than *)
(* anything received (NewestInv).                                          *)
(*                                                                         *)
(* HttpDate, for every calendar that holds the epoch: a day's number is    *)
(* the days from year 0 to the first of March its year counts from, and    *)
(* the days from there (CivilFormula); the next page adds one to that sum, *)
(* over a month's end, a February of either length and a century           *)
(* (NextDayCounts), so that the formula counts pages (DateInv).            *)
(*                                                                         *)
(* HttpClient, for every set of threads, addresses, batches and headers: a *)
(* store is what its history of writes leaves (JarKnown), a cookie's value *)
(* numbers the write it is from, and so what a request carries leads back  *)
(* to the site it was written for (Carries).  That an answer is never lost *)
(* needs the list of requests that still run (Awaited), and that a request *)
(* without a top-level site carries nothing needs that such a client has   *)
(* no address to ask at (Plan).                                            *)
(***************************************************************************)
EXTENDS HttpCache, HttpDate, HttpClient, ListFacts

\* An entry that counts its age from a time the origin spoke for its version.
Vouched(e) == e.version # 0 => e.since <= vouched[e.version]

AgeInv ==
  /\ \A v \in 1..MaxVersion : vouched[v] <= now
  /\ Vouched(disk)
  /\ \A r \in Renderers : Vouched(mem[r])

\* A reply is only under way for a renderer that waits; a closed renderer
\* has no memory.
Waits(r) == phase[r] \in {"navigating", "revalidating"}

ReplyInv ==
  \A r \in Renderers :
    /\ reply[r] # NoReply => Waits(r)
    /\ phase[r] = "closed" => mem[r] = NoEntry

\* An entry that is none, or none older than what was received.
Newest(e) == e.version = 0 \/ e.version >= seen

TurnInv == \A q, r \in Renderers : phase[q] # "closed" /\ phase[r] # "closed" => q = r

NewestInv ==
  /\ Newest(disk)
  /\ \A r \in Renderers : Newest(mem[r])
  /\ \A r \in Renderers : reply[r].kind = "200" => reply[r].rep.version >= seen

\* Nothing received, and no reply under way, is newer than the origin.
SeenInv ==
  /\ seen <= origin.version
  /\ \A r \in Renderers : reply[r].kind = "200" => reply[r].rep.version <= origin.version

CacheIInv == TypeOK /\ AgeInv /\ ReplyInv /\ SeenInv /\ (apart \/ (TurnInv /\ NewestInv))

-----------------------------------------------------------------------------
\* The kinds of reply and what they carry.
LEMMA ReplyKinds ==
  ASSUME NEW a \in Replies
  PROVE  /\ a.kind = "none" => a = NoReply
         /\ a.kind = "304" => a.life \in Lifetimes /\ a.life \in Nat
         /\ a.kind = "200" => a.rep \in Representation
         /\ NoReply.kind = "none" /\ NetError.kind = "error"
  BY CacheAssumption DEF Replies, NoReply, NetError, NotModified, Full

LEMMA ReplyFacts ==
  /\ NoReply \in Replies /\ NetError \in Replies
  /\ \A l \in Lifetimes : NotModified(l) \in Replies /\ NotModified(l).kind = "304"
  /\ \A rep \in Representation :
       /\ Full(rep) \in Replies /\ Full(rep).kind = "200" /\ Full(rep).rep = rep
  BY DEF Replies, NoReply, NetError, NotModified, Full

LEMMA EntryFacts ==
  /\ NoEntry \in Entry /\ NoEntry.version = 0
  BY CacheAssumption DEF NoEntry, Entry

\* The entry a response becomes.
LEMMA EntryOfFacts ==
  ASSUME TypeOK, NEW rep \in Representation
  PROVE  /\ EntryOf(rep) \in Entry
         /\ EntryOf(rep).version = rep.version /\ EntryOf(rep).since = now
         /\ rep.version \in 1..MaxVersion
         /\ EntryOf(rep).text = rep.text
<1>0. rep.version \in 1..MaxVersion /\ rep.text \in Texts /\ rep.life \in Lifetimes
  BY DEF Representation
<1>1. /\ rep.version \in 1..MaxVersion /\ rep.text \in BOOLEAN /\ rep.life \in Nat
      /\ now \in Nat
  <2>1. rep.text \in BOOLEAN /\ rep.life \in Nat
    BY <1>0, CacheAssumption, Zenon
  <2>2. now \in Nat
    BY CacheAssumption DEF TypeOK
  <2> QED
    BY <1>0, <2>1, <2>2
<1>2. rep.version \in 0..MaxVersion
  BY <1>1, CacheAssumption
<1>3. EntryOf(rep) \in Entry
  BY <1>1, <1>2, Zenon DEF EntryOf, Entry
<1> QED
  BY <1>1, <1>3 DEF EntryOf

LEMMA CacheInit == Init => CacheIInv
<1> SUFFICES ASSUME Init PROVE CacheIInv
  OBVIOUS
<1>1. TypeOK
  <2>1. now \in 1..MaxTime /\ origin \in Representation /\ seen \in 0..MaxVersion
    BY CacheAssumption DEF Init
  <2>2. mem \in [Renderers -> Entry] /\ disk \in Entry
    BY EntryFacts DEF Init
  <2>3. phase \in [Renderers -> Phases]
    BY DEF Init, Phases
  <2>4. reply \in [Renderers -> Replies]
    BY ReplyFacts DEF Init
  <2>5. vouched \in [1..MaxVersion -> 0..MaxTime]
    BY CacheAssumption DEF Init
  <2>6. torn \in BOOLEAN /\ apart \in BOOLEAN
    BY Zenon DEF Init
  <2> QED
    BY <2>1, <2>2, <2>3, <2>4, <2>5, <2>6 DEF TypeOK
<1>2. AgeInv
  BY EntryFacts, CacheAssumption DEF Init, AgeInv, Vouched
<1>3. ReplyInv
  BY DEF Init, ReplyInv
<1>4. TurnInv
  BY DEF Init, TurnInv
<1>5. NewestInv
  BY EntryFacts, ReplyFacts, ReplyKinds DEF Init, NewestInv, Newest
<1>6. SeenInv
  BY CacheAssumption, ReplyFacts, ReplyKinds DEF Init, SeenInv, Representation
<1> QED
  BY <1>1, <1>2, <1>3, <1>4, <1>5, <1>6 DEF CacheIInv

-----------------------------------------------------------------------------
(***************************************************************************)
(* What an action does to a renderer, its entry and the file.              *)
(***************************************************************************)

\* The entries in memory and on disk are among these three kinds.
LEMMA LoadedFacts ==
  ASSUME TypeOK
  PROVE  Loaded \in Entry /\ (Loaded = NoEntry \/ Loaded = disk)
  BY EntryFacts DEF Loaded, TypeOK

\* with_disk.
LEMMA OpenFacts ==
  ASSUME TypeOK, NEW r \in Renderers, Open(r)
  PROVE  \E e \in {NoEntry, disk} : e \in Entry /\ mem' = [mem EXCEPT ![r] = e]
<1>1. PICK fails \in Failures : mem' = [mem EXCEPT ![r] = IF fails THEN NoEntry ELSE Loaded]
  BY DEF Open
<1>2. CASE fails
  BY <1>1, <1>2, EntryFacts
<1>3. CASE ~fails
  BY <1>1, <1>3, LoadedFacts
<1> QED
  BY <1>2, <1>3

\* A file operation that fails leaves the file and the other renderers alone.
LEMMA LeaveFileFacts ==
  ASSUME TypeOK, NEW r \in Renderers, LeaveFile(r)
  PROVE  /\ disk' = disk /\ torn' \in BOOLEAN
         /\ phase' \in [Renderers -> Phases]
         /\ phase'[r] = "ready"
         /\ \A q \in Renderers \ {r} : phase'[q] = phase[q]
<1>1. torn' \in BOOLEAN
  BY Zenon DEF LeaveFile, TypeOK
<1>2. disk' = disk /\ phase' = [phase EXCEPT ![r] = "ready"]
  BY DEF LeaveFile
<1> QED
  BY <1>1, <1>2 DEF TypeOK, Phases

\* put_to_disk.
LEMMA StartWriteFacts ==
  ASSUME TypeOK, NEW r \in Renderers, NEW e \in Entry, NEW fails \in Failures,
         StartWrite(r, e, fails)
  PROVE  /\ disk' = e \/ disk' = disk
         /\ torn' \in BOOLEAN
         /\ phase' \in [Renderers -> Phases]
         /\ phase'[r] \in {"writing", "ready"}
         /\ \A q \in Renderers \ {r} : phase'[q] = phase[q]
         /\ e.text /\ ~fails => disk' = e
<1>1. CASE (~e.text \/ fails) /\ LeaveFile(r)
  BY <1>1, LeaveFileFacts
<1>2. CASE /\ e.text /\ ~fails /\ disk' = e /\ torn' = TRUE
           /\ phase' = [phase EXCEPT ![r] = "writing"]
  <2>1. phase \in [Renderers -> Phases]
    BY DEF TypeOK
  <2> QED
    BY <1>2, <2>1 DEF Phases
<1> QED
  BY <1>1, <1>2 DEF StartWrite

\* remove_from_disk.
LEMMA UnlinkFacts ==
  ASSUME TypeOK, NEW r \in Renderers, NEW fails \in Failures, Unlink(r, fails)
  PROVE  /\ disk' = NoEntry \/ disk' = disk
         /\ torn' \in BOOLEAN
         /\ phase' \in [Renderers -> Phases]
         /\ phase'[r] = "ready"
         /\ \A q \in Renderers \ {r} :
              phase'[q] = phase[q] \/ (phase[q] = "writing" /\ phase'[q] = "orphaned")
         /\ ~fails => disk' = NoEntry
<1>1. CASE fails /\ LeaveFile(r)
  BY <1>1, LeaveFileFacts
<1>2. CASE /\ ~fails /\ disk' = NoEntry /\ torn' = FALSE
           /\ phase' = [q \in Renderers |->
                 IF q = r THEN "ready"
                 ELSE IF phase[q] = "writing" THEN "orphaned" ELSE phase[q]]
  <2>1. phase \in [Renderers -> Phases]
    BY DEF TypeOK
  <2> QED
    BY <1>2, <2>1 DEF Phases
<1> QED
  BY <1>1, <1>2 DEF Unlink

\* ResponseCache::put.
LEMMA PutFacts ==
  ASSUME TypeOK, NEW r \in Renderers, NEW rep \in Representation,
         NEW fails \in Failures, Put(r, rep, fails)
  PROVE  /\ disk' \in {NoEntry, EntryOf(rep), disk}
         /\ \E e \in {NoEntry, EntryOf(rep)} : mem' = [mem EXCEPT ![r] = e]
         /\ torn' \in BOOLEAN
         /\ phase' \in [Renderers -> Phases]
         /\ phase'[r] \in {"writing", "ready"}
         /\ \A q \in Renderers \ {r} :
              phase'[q] = phase[q] \/ (phase[q] = "writing" /\ phase'[q] = "orphaned")
         /\ ~LeavesOlder(rep, fails) => disk' \in {NoEntry, EntryOf(rep)}
<1>1. EntryOf(rep) \in Entry /\ EntryOf(rep).text = rep.text
  BY EntryOfFacts
<1>2. CASE ~rep.storable /\ RemoveEntry(r, fails)
  <2>1. mem' = [mem EXCEPT ![r] = NoEntry] /\ Unlink(r, fails)
    BY <1>2 DEF RemoveEntry
  <2>2. ~LeavesOlder(rep, fails) => disk' \in {NoEntry, EntryOf(rep)}
    BY <2>1, UnlinkFacts DEF LeavesOlder
  <2> QED
    BY <2>1, <2>2, UnlinkFacts
<1>3. CASE /\ rep.storable
           /\ mem' = [mem EXCEPT ![r] = EntryOf(rep)]
           /\ StartWrite(r, EntryOf(rep), fails)
  <2>1. /\ disk' = EntryOf(rep) \/ disk' = disk
        /\ torn' \in BOOLEAN
        /\ phase' \in [Renderers -> Phases]
        /\ phase'[r] \in {"writing", "ready"}
        /\ \A q \in Renderers \ {r} : phase'[q] = phase[q]
        /\ rep.text /\ ~fails => disk' = EntryOf(rep)
    BY <1>1, <1>3, StartWriteFacts
  <2>2. \E e \in {NoEntry, EntryOf(rep)} : mem' = [mem EXCEPT ![r] = e]
    BY <1>3
  <2>3. ~LeavesOlder(rep, fails) => disk' \in {NoEntry, EntryOf(rep)}
    BY <1>3, <2>1 DEF LeavesOlder
  <2>4. disk' \in {NoEntry, EntryOf(rep), disk}
    BY <2>1
  <2> QED
    BY <2>1, <2>2, <2>3, <2>4
<1> QED
  BY <1>2, <1>3 DEF Put

\* A full response is put, whatever becomes of the file.
LEMMA ReceiveFullFacts ==
  ASSUME TypeOK, NEW r \in Renderers, ReceiveFull(r)
  PROVE  /\ reply[r].kind = "200" /\ reply' = [reply EXCEPT ![r] = NoReply]
         /\ \E rep \in Representation, fails \in Failures :
              /\ rep = reply[r].rep /\ Put(r, rep, fails)
              /\ seen' = Max2(seen, rep.version)
              /\ vouched' = [vouched EXCEPT ![rep.version] = now]
              /\ apart' = (LeavesOlder(rep, fails) \/ (apart /\ ~Rejoins(r, rep)))
              /\ UNCHANGED <<now, origin>>
<1>1. reply[r].kind = "200" /\ reply' = [reply EXCEPT ![r] = NoReply]
  BY DEF ReceiveFull, Received
<1>2. reply[r].rep \in Representation
  BY <1>1, ReplyKinds DEF TypeOK
<1> QED
  BY <1>1, <1>2, Zenon DEF ReceiveFull

\* The entry a 304 refreshes.
LEMMA RefreshFacts ==
  ASSUME TypeOK, NEW r \in Renderers, reply[r].kind = "304",
         \E fails \in Failures : Refresh(r, fails)
  PROVE  \E e \in Entry :
           /\ e.version = mem[r].version /\ e.since = now
           /\ mem' = [mem EXCEPT ![r] = e]
           /\ disk' = e \/ disk' = disk
           /\ torn' \in BOOLEAN
           /\ phase' \in [Renderers -> Phases]
           /\ phase'[r] \in {"writing", "ready"}
           /\ \A q \in Renderers \ {r} : phase'[q] = phase[q]
<1> DEFINE e == [mem[r] EXCEPT !.since = now, !.life = reply[r].life]
<1>1. mem[r] \in Entry /\ now \in Nat /\ reply[r] \in Replies
  BY CacheAssumption DEF TypeOK
<1>2. reply[r].life \in Nat
  BY <1>1, ReplyKinds
<1>3. e \in Entry
  <2>1. [mem[r] EXCEPT !.since = now] \in Entry
    BY <1>1, Zenon DEF Entry
  <2> QED
    BY <1>2, <2>1, Zenon DEF Entry
<1>4. e.version = mem[r].version /\ e.since = now
  BY <1>1 DEF Entry
<1>5. PICK fails \in Failures : mem' = [mem EXCEPT ![r] = e] /\ StartWrite(r, e, fails)
  BY DEF Refresh
<1> HIDE DEF e
<1> QED
  BY <1>3, <1>4, <1>5, StartWriteFacts

-----------------------------------------------------------------------------
(***************************************************************************)
(* The type invariant.                                                     *)
(***************************************************************************)
LEMMA TypeStep ==
  ASSUME TypeOK, [Next]_vars
  PROVE  TypeOK'
<1> USE CacheAssumption
<1>1. CASE Tick
  BY <1>1 DEF Tick, TypeOK
<1>2. CASE Publish
  BY <1>2 DEF Publish, TypeOK
<1>3. CASE Crash
  <2>1. /\ mem' \in [Renderers -> Entry] /\ phase' \in [Renderers -> Phases]
        /\ reply' \in [Renderers -> Replies]
    BY <1>3, EntryFacts, ReplyFacts DEF Crash, Phases
  <2> QED
    BY <1>3, <2>1 DEF Crash, TypeOK
<1>4. CASE UNCHANGED vars
  BY <1>4 DEF vars, TypeOK
<1>5. ASSUME NEW r \in Renderers, Open(r) PROVE TypeOK'
  <2>1. mem' \in [Renderers -> Entry] /\ phase' \in [Renderers -> Phases]
    BY <1>5, OpenFacts DEF Open, TypeOK, Phases
  <2>2. apart' \in BOOLEAN
    BY <1>5, Zenon DEF Open
  <2> QED
    BY <1>5, <2>1, <2>2 DEF Open, TypeOK
<1>6. ASSUME NEW r \in Renderers, Close(r) \/ ServeFromCache(r) \/ SendRequest(r)
                                    \/ ReceiveError(r)
      PROVE  TypeOK'
  <2>1. mem' \in [Renderers -> Entry]
    BY <1>6, EntryFacts
       DEF Close, ServeFromCache, SendRequest, ReceiveError, TypeOK
  <2>2. phase' \in [Renderers -> Phases]
    BY <1>6 DEF Close, ServeFromCache, SendRequest, ReceiveError, TypeOK, Phases
  <2>3. reply' \in [Renderers -> Replies]
    BY <1>6, ReplyFacts
       DEF Close, ServeFromCache, SendRequest, ReceiveError, Received, TypeOK
  <2> QED
    BY <1>6, <2>1, <2>2, <2>3
       DEF Close, ServeFromCache, SendRequest, ReceiveError, TypeOK
<1>7. ASSUME NEW r \in Renderers, OriginAnswers(r) PROVE TypeOK'
  <2>1. PICK a \in {NetError, Full(origin)} \cup {NotModified(l) : l \in Lifetimes} :
          reply' = [reply EXCEPT ![r] = a]
    BY <1>7 DEF OriginAnswers
  <2>2. a \in Replies
    BY ReplyFacts DEF TypeOK
  <2>3. reply' \in [Renderers -> Replies]
    BY <2>1, <2>2 DEF TypeOK
  <2> QED
    BY <1>7, <2>3 DEF OriginAnswers, TypeOK
<1>8. ASSUME NEW r \in Renderers, ReceiveNotModified(r) PROVE TypeOK'
  <2>1. reply' \in [Renderers -> Replies] /\ reply[r].kind = "304"
    BY <1>8, ReplyFacts DEF ReceiveNotModified, Received, TypeOK
  <2>2. CASE phase[r] = "navigating"
    <3>1. /\ \E fails \in Failures : Refresh(r, fails)
          /\ vouched' = [vouched EXCEPT ![mem[r].version] = now]
          /\ UNCHANGED <<now, origin, seen, apart>>
      BY <1>8, <2>2 DEF ReceiveNotModified
    <3>2. PICK e \in Entry :
            /\ mem' = [mem EXCEPT ![r] = e] /\ (disk' = e \/ disk' = disk)
            /\ torn' \in BOOLEAN /\ phase' \in [Renderers -> Phases]
      BY <2>1, <3>1, RefreshFacts
    <3>3. mem' \in [Renderers -> Entry] /\ disk' \in Entry
      BY <3>2 DEF TypeOK
    <3>4. vouched' \in [1..MaxVersion -> 0..MaxTime]
      <4>1. now \in 0..MaxTime /\ vouched \in [1..MaxVersion -> 0..MaxTime]
        BY DEF TypeOK
      <4> QED
        BY <3>1, <4>1
    <3> QED
      BY <2>1, <3>1, <3>2, <3>3, <3>4 DEF TypeOK
  <2>3. CASE phase[r] # "navigating"
    <3>1. /\ phase' = [phase EXCEPT ![r] = "ready"]
          /\ UNCHANGED <<now, origin, mem, disk, torn, seen, vouched, apart>>
      BY <1>8, <2>3 DEF ReceiveNotModified
    <3>2. phase' \in [Renderers -> Phases]
      BY <3>1 DEF TypeOK, Phases
    <3> QED
      BY <2>1, <3>1, <3>2 DEF TypeOK
  <2> QED
    BY <2>2, <2>3
<1>9. ASSUME NEW r \in Renderers, ReceiveFull(r) PROVE TypeOK'
  <2>1. reply' \in [Renderers -> Replies]
    BY <1>9, ReplyFacts, ReceiveFullFacts DEF TypeOK
  <2>2. PICK rep \in Representation, fails \in Failures :
          /\ Put(r, rep, fails) /\ seen' = Max2(seen, rep.version)
          /\ vouched' = [vouched EXCEPT ![rep.version] = now]
          /\ apart' = (LeavesOlder(rep, fails) \/ (apart /\ ~Rejoins(r, rep)))
          /\ UNCHANGED <<now, origin>>
    BY <1>9, ReceiveFullFacts
  <2>3. Put(r, rep, fails)
    BY <2>2
  <2>4. EntryOf(rep) \in Entry /\ rep.version \in 1..MaxVersion
    BY EntryOfFacts
  <2>5. /\ disk' \in {NoEntry, EntryOf(rep), disk}
        /\ \E e \in {NoEntry, EntryOf(rep)} : mem' = [mem EXCEPT ![r] = e]
        /\ torn' \in BOOLEAN /\ phase' \in [Renderers -> Phases]
    BY <2>3, PutFacts
  <2>6. mem' \in [Renderers -> Entry] /\ disk' \in Entry
    BY <2>4, <2>5, EntryFacts DEF TypeOK
  <2>7. vouched' \in [1..MaxVersion -> 0..MaxTime] /\ seen' \in 0..MaxVersion
    BY <2>2, <2>4 DEF TypeOK, Max2
  <2>8. apart' \in BOOLEAN
    BY <2>2, Zenon
  <2> QED
    BY <2>1, <2>2, <2>5, <2>6, <2>7, <2>8 DEF TypeOK
<1>10. ASSUME NEW r \in Renderers, FinishWrite(r) PROVE TypeOK'
  <2>1. torn' \in BOOLEAN
    BY <1>10, Zenon DEF FinishWrite, TypeOK
  <2>2. disk' \in Entry
    BY <1>10 DEF FinishWrite, TypeOK
  <2>3. phase' \in [Renderers -> Phases]
    BY <1>10 DEF FinishWrite, TypeOK, Phases
  <2> QED
    BY <1>10, <2>1, <2>2, <2>3 DEF FinishWrite, TypeOK
<1> QED
  BY <1>1, <1>2, <1>3, <1>4, <1>5, <1>6, <1>7, <1>8, <1>9, <1>10
     DEF Next, RendererStep

-----------------------------------------------------------------------------
(***************************************************************************)
(* Age.                                                                    *)
(***************************************************************************)

\* A version the origin speaks for again does not make an entry too young.
LEMMA VouchedAgain ==
  ASSUME TypeOK, AgeInv, NEW n \in Nat, vouched' = [vouched EXCEPT ![n] = now]
  PROVE  /\ \A v \in 1..MaxVersion : vouched'[v] <= now
         /\ \A e \in Entry : Vouched(e) => (e.version # 0 => e.since <= vouched'[e.version])
         /\ \A e \in Entry : e.version = n /\ e.since = now =>
              (e.version # 0 => e.since <= vouched'[e.version])
<1>1. /\ vouched \in [1..MaxVersion -> 0..MaxTime] /\ now \in Nat
      /\ MaxVersion \in Nat
  BY CacheAssumption DEF TypeOK
<1>2. \A v \in 1..MaxVersion : vouched'[v] \in Nat /\ vouched[v] <= vouched'[v]
                                 /\ vouched'[v] <= now
  BY <1>1, CacheAssumption DEF AgeInv
<1>3. \A e \in Entry : e.version # 0 => e.version \in 1..MaxVersion
  BY <1>1 DEF Entry
<1>4. \A e \in Entry : e.since \in Nat
  BY DEF Entry
<1>5. \A e \in Entry : Vouched(e) => (e.version # 0 => e.since <= vouched'[e.version])
  <2> SUFFICES ASSUME NEW e \in Entry, Vouched(e), e.version # 0
               PROVE  e.since <= vouched'[e.version]
    OBVIOUS
  <2>1. e.version \in 1..MaxVersion /\ e.since \in Nat /\ e.since <= vouched[e.version]
    BY <1>3, <1>4 DEF Vouched
  <2>2. vouched[e.version] \in Nat
    BY <1>1, <2>1, CacheAssumption
  <2> QED
    BY <1>2, <2>1, <2>2
<1>6. \A v \in 1..MaxVersion : v = n => vouched'[v] = now
  BY <1>1
<1> QED
  BY <1>1, <1>2, <1>3, <1>5, <1>6

LEMMA AgeStep ==
  ASSUME TypeOK, AgeInv, [Next]_vars
  PROVE  AgeInv'
<1>0. now \in Nat /\ vouched \in [1..MaxVersion -> 0..MaxTime] /\ MaxTime \in Nat
      /\ MaxVersion \in Nat /\ mem \in [Renderers -> Entry] /\ disk \in Entry
  BY CacheAssumption DEF TypeOK
<1>1. CASE Tick
  <2>1. now' = now + 1 /\ UNCHANGED <<mem, disk, vouched>>
    BY <1>1 DEF Tick
  <2> QED
    BY <1>0, <2>1 DEF AgeInv, Vouched
<1>2. CASE Publish \/ UNCHANGED vars
  BY <1>2 DEF Publish, vars, AgeInv, Vouched
<1>3. CASE Crash
  BY <1>3, EntryFacts DEF Crash, AgeInv, Vouched
<1>4. ASSUME NEW r \in Renderers, Open(r) PROVE AgeInv'
  <2>1. PICK e \in {NoEntry, disk} : mem' = [mem EXCEPT ![r] = e]
    BY <1>4, OpenFacts
  <2>2. UNCHANGED <<disk, vouched, now>>
    BY <1>4 DEF Open
  <2>3. \A q \in Renderers : mem'[q] \in {NoEntry, disk, mem[q]}
    BY <1>0, <2>1
  <2> QED
    BY <2>2, <2>3, EntryFacts DEF AgeInv, Vouched
<1>5. ASSUME NEW r \in Renderers, Close(r) PROVE AgeInv'
  BY <1>0, <1>5, EntryFacts DEF Close, AgeInv, Vouched
<1>6. ASSUME NEW r \in Renderers, ServeFromCache(r) \/ SendRequest(r)
                                    \/ ReceiveError(r) \/ OriginAnswers(r)
      PROVE  AgeInv'
  <2>1. UNCHANGED <<mem, disk, vouched, now>>
    BY <1>6 DEF ServeFromCache, SendRequest, ReceiveError, OriginAnswers
  <2> QED
    BY <2>1 DEF AgeInv, Vouched
<1>7. ASSUME NEW r \in Renderers, ReceiveNotModified(r) PROVE AgeInv'
  <2>1. reply[r].kind = "304" /\ UNCHANGED now
    BY <1>7 DEF ReceiveNotModified, Received
  <2>2. CASE phase[r] = "navigating"
    <3>1. /\ \E fails \in Failures : Refresh(r, fails)
          /\ vouched' = [vouched EXCEPT ![mem[r].version] = now]
      BY <1>7, <2>2 DEF ReceiveNotModified
    <3>2. PICK e \in Entry :
            /\ e.version = mem[r].version /\ e.since = now
            /\ mem' = [mem EXCEPT ![r] = e] /\ (disk' = e \/ disk' = disk)
      BY <2>1, <3>1, RefreshFacts
    <3>3. mem[r].version \in Nat
      BY <1>0 DEF Entry
    <3>4. /\ \A v \in 1..MaxVersion : vouched'[v] <= now
          /\ \A d \in Entry : Vouched(d) \/ d = e => Vouched(d)'
      BY <3>1, <3>2, <3>3, VouchedAgain DEF Vouched
    <3>5. Vouched(disk)'
      BY <1>0, <3>2, <3>4 DEF AgeInv, Vouched
    <3>6. \A q \in Renderers : mem'[q] = e \/ mem'[q] = mem[q]
      BY <1>0, <3>2
    <3>7. \A q \in Renderers : Vouched(mem[q])'
      BY <1>0, <3>4, <3>6 DEF AgeInv, Vouched
    <3> QED
      BY <2>1, <3>4, <3>5, <3>7 DEF AgeInv
  <2>3. CASE phase[r] # "navigating"
    BY <1>7, <2>3 DEF ReceiveNotModified, AgeInv, Vouched
  <2> QED
    BY <2>2, <2>3
<1>8. ASSUME NEW r \in Renderers, ReceiveFull(r) PROVE AgeInv'
  <2>2. PICK rep \in Representation, fails \in Failures :
          /\ Put(r, rep, fails)
          /\ vouched' = [vouched EXCEPT ![rep.version] = now]
          /\ UNCHANGED now
    BY <1>8, ReceiveFullFacts
  <2>3. PICK e \in Entry : e = EntryOf(rep) /\ e.version = rep.version /\ e.since = now
    BY EntryOfFacts
  <2>4. /\ disk' \in {NoEntry, e, disk}
        /\ \E d \in {NoEntry, e} : mem' = [mem EXCEPT ![r] = d]
    BY <2>2, <2>3, PutFacts
  <2>5. rep.version \in Nat
    BY <1>0, EntryOfFacts
  <2>6. /\ \A v \in 1..MaxVersion : vouched'[v] <= now
        /\ \A d \in Entry : Vouched(d) \/ d = e \/ d = NoEntry => Vouched(d)'
    BY <2>2, <2>3, <2>5, VouchedAgain, EntryFacts DEF Vouched
  <2>7. Vouched(disk)'
    BY <1>0, <2>3, <2>4, <2>6, EntryFacts DEF AgeInv, Vouched
  <2>8. \A q \in Renderers : mem'[q] \in {NoEntry, e, mem[q]}
    BY <1>0, <2>4
  <2>9. \A q \in Renderers : Vouched(mem[q])'
    BY <1>0, <2>3, <2>6, <2>8, EntryFacts DEF AgeInv, Vouched
  <2> QED
    BY <2>2, <2>6, <2>7, <2>9 DEF AgeInv
<1>9. ASSUME NEW r \in Renderers, FinishWrite(r) PROVE AgeInv'
  BY <1>9 DEF FinishWrite, AgeInv, Vouched
<1> QED
  BY <1>1, <1>2, <1>3, <1>4, <1>5, <1>6, <1>7, <1>8, <1>9 DEF Next, RendererStep

-----------------------------------------------------------------------------
(***************************************************************************)
(* Replies, and one renderer at a time.                                    *)
(***************************************************************************)

\* The steps that end a request, seen from the phases and replies.
LEMMA ReceiveFacts ==
  ASSUME TypeOK, NEW r \in Renderers,
         ReceiveError(r) \/ ReceiveNotModified(r) \/ ReceiveFull(r)
  PROVE  /\ reply[r].kind # "none"
         /\ reply' = [reply EXCEPT ![r] = NoReply]
         /\ phase'[r] \in {"writing", "ready"}
         /\ \A q \in Renderers \ {r} :
              phase'[q] = phase[q] \/ (phase[q] = "writing" /\ phase'[q] = "orphaned")
         /\ \A q \in Renderers \ {r} : mem'[q] = mem[q]
<1>0. phase \in [Renderers -> Phases] /\ mem \in [Renderers -> Entry]
  BY DEF TypeOK
<1>1. CASE ReceiveError(r)
  BY <1>0, <1>1 DEF ReceiveError, Received
<1>2. CASE ReceiveNotModified(r)
  <2>1. reply[r].kind = "304" /\ reply' = [reply EXCEPT ![r] = NoReply]
    BY <1>2 DEF ReceiveNotModified, Received
  <2>2. CASE phase[r] = "navigating"
    <3>1. \E fails \in Failures : Refresh(r, fails)
      BY <1>2, <2>2 DEF ReceiveNotModified
    <3>2. PICK e \in Entry :
            /\ mem' = [mem EXCEPT ![r] = e]
            /\ phase'[r] \in {"writing", "ready"}
            /\ \A q \in Renderers \ {r} : phase'[q] = phase[q]
      BY <2>1, <3>1, RefreshFacts
    <3> QED
      BY <1>0, <2>1, <3>2
  <2>3. CASE phase[r] # "navigating"
    BY <1>0, <1>2, <2>1, <2>3 DEF ReceiveNotModified
  <2> QED
    BY <2>2, <2>3
<1>3. CASE ReceiveFull(r)
  <2>1. reply[r].kind = "200" /\ reply' = [reply EXCEPT ![r] = NoReply]
    BY <1>3, ReceiveFullFacts
  <2>3. PICK rep \in Representation, fails \in Failures : Put(r, rep, fails)
    BY <1>3, ReceiveFullFacts
  <2>4. /\ \E e \in {NoEntry, EntryOf(rep)} : mem' = [mem EXCEPT ![r] = e]
        /\ phase'[r] \in {"writing", "ready"}
        /\ \A q \in Renderers \ {r} :
              phase'[q] = phase[q] \/ (phase[q] = "writing" /\ phase'[q] = "orphaned")
    BY <2>3, PutFacts
  <2> QED
    BY <1>0, <2>1, <2>4
<1> QED
  BY <1>1, <1>2, <1>3

LEMMA ReplyStep ==
  ASSUME TypeOK, ReplyInv, [Next]_vars
  PROVE  ReplyInv'
<1>0. /\ phase \in [Renderers -> Phases] /\ mem \in [Renderers -> Entry]
      /\ reply \in [Renderers -> Replies]
  BY DEF TypeOK
<1>1. CASE Tick \/ Publish \/ UNCHANGED vars
  <2>1. UNCHANGED <<phase, mem, reply>>
    BY <1>1 DEF Tick, Publish, vars
  <2> QED
    BY <2>1 DEF ReplyInv, Waits
<1>2. CASE Crash
  BY <1>2 DEF Crash, ReplyInv
<1>3. ASSUME NEW r \in Renderers,
             Open(r) \/ Close(r) \/ ServeFromCache(r) \/ SendRequest(r)
      PROVE  ReplyInv'
  <2>1. /\ reply' = reply /\ ~Waits(r)
        /\ \A q \in Renderers \ {r} : phase'[q] = phase[q] /\ mem'[q] = mem[q]
        /\ phase'[r] = "closed" => mem'[r] = NoEntry
    BY <1>0, <1>3 DEF Open, Close, ServeFromCache, SendRequest, Waits
  <2> QED
    BY <2>1 DEF ReplyInv, Waits
<1>4. ASSUME NEW r \in Renderers, OriginAnswers(r) PROVE ReplyInv'
  <2>1. /\ Waits(r) /\ UNCHANGED <<phase, mem>>
        /\ \A q \in Renderers \ {r} : reply'[q] = reply[q]
    BY <1>0, <1>4 DEF OriginAnswers, Waits
  <2> QED
    BY <2>1 DEF ReplyInv, Waits
<1>5. ASSUME NEW r \in Renderers,
             ReceiveError(r) \/ ReceiveNotModified(r) \/ ReceiveFull(r)
      PROVE  ReplyInv'
  BY <1>0, <1>5, ReceiveFacts DEF ReplyInv, Waits
<1>6. ASSUME NEW r \in Renderers, FinishWrite(r) PROVE ReplyInv'
  <2>1. /\ UNCHANGED <<mem, reply>> /\ ~Waits(r) /\ phase'[r] = "ready"
        /\ \A q \in Renderers \ {r} : phase'[q] = phase[q]
    BY <1>0, <1>6 DEF FinishWrite, Waits
  <2> QED
    BY <2>1 DEF ReplyInv, Waits
<1> QED
  BY <1>1, <1>2, <1>3, <1>4, <1>5, <1>6 DEF Next, RendererStep

\* What the origin says at the moment it answers.
LEMMA AnswerFacts ==
  ASSUME TypeOK, NEW r \in Renderers, OriginAnswers(r)
  PROVE  /\ \A q \in Renderers \ {r} : reply'[q] = reply[q]
         /\ reply'[r].kind = "200" => reply'[r].rep = origin
<1>1. PICK a \in {NetError, Full(origin)} \cup {NotModified(l) : l \in Lifetimes} :
        reply' = [reply EXCEPT ![r] = a]
  BY DEF OriginAnswers
<1>2. a.kind = "200" => a.rep = origin
  <2>1. NetError.kind # "200" /\ \A l \in Lifetimes : NotModified(l).kind # "200"
    BY DEF NetError, NotModified
  <2>2. Full(origin).rep = origin
    BY DEF Full
  <2> QED
    BY <2>1, <2>2
<1> QED
  BY <1>1, <1>2 DEF TypeOK

LEMMA SeenStep ==
  ASSUME TypeOK, SeenInv, [Next]_vars
  PROVE  SeenInv'
<1>0. /\ origin.version \in Nat /\ seen \in Nat
      /\ reply \in [Renderers -> Replies] /\ NoReply.kind = "none"
      /\ \A r \in Renderers : reply[r].kind = "200" => reply[r].rep.version \in Nat
  <2>1. origin.version \in Nat /\ seen \in Nat /\ reply \in [Renderers -> Replies]
    BY CacheAssumption DEF TypeOK, Representation
  <2>2. \A r \in Renderers : reply[r].kind = "200" => reply[r].rep \in Representation
    BY <2>1, ReplyKinds
  <2> QED
    BY <2>1, <2>2, CacheAssumption DEF Representation, NoReply
<1>1. CASE Tick \/ UNCHANGED vars
  BY <1>1 DEF Tick, vars, SeenInv
<1>2. CASE Publish
  <2>1. UNCHANGED <<seen, reply>> /\ origin'.version = origin.version + 1
    BY <1>2 DEF Publish
  <2> QED
    BY <1>0, <2>1 DEF SeenInv
<1>3. CASE Crash
  BY <1>0, <1>3 DEF Crash, SeenInv
<1>4. ASSUME NEW r \in Renderers,
             \/ Open(r) \/ Close(r) \/ ServeFromCache(r) \/ SendRequest(r)
             \/ FinishWrite(r)
      PROVE  SeenInv'
  <2>1. UNCHANGED <<seen, origin, reply>>
    BY <1>4 DEF Open, Close, ServeFromCache, SendRequest, FinishWrite
  <2> QED
    BY <2>1 DEF SeenInv
<1>5. ASSUME NEW r \in Renderers, OriginAnswers(r) PROVE SeenInv'
  <2>1. UNCHANGED <<seen, origin>>
    BY <1>5 DEF OriginAnswers
  <2> QED
    BY <1>0, <1>5, <2>1, AnswerFacts DEF SeenInv
<1>6. ASSUME NEW r \in Renderers, ReceiveError(r) \/ ReceiveNotModified(r)
      PROVE  SeenInv'
  <2>1. UNCHANGED <<seen, origin>>
    BY <1>6 DEF ReceiveError, ReceiveNotModified
  <2> QED
    BY <1>0, <1>6, <2>1, ReceiveFacts DEF SeenInv
<1>7. ASSUME NEW r \in Renderers, ReceiveFull(r) PROVE SeenInv'
  <2>1. /\ UNCHANGED origin /\ seen' = Max2(seen, reply[r].rep.version)
        /\ reply[r].kind = "200"
    BY <1>7 DEF ReceiveFull, Received
  <2>2. seen' <= origin.version
    BY <1>0, <2>1 DEF SeenInv, Max2
  <2> QED
    BY <1>0, <1>7, <2>1, <2>2, ReceiveFacts DEF SeenInv
<1> QED
  BY <1>1, <1>2, <1>3, <1>4, <1>5, <1>6, <1>7 DEF Next, RendererStep

\* Memory and disk that have parted are one again only with a response that a
\* renderer alone in the directory puts.
LEMMA RejoinFacts ==
  ASSUME [Next]_vars, apart, ~apart'
  PROVE  \E r \in Renderers : ReceiveFull(r) /\ Rejoins(r, reply[r].rep)
<1>1. ASSUME NEW r \in Renderers, Open(r) PROVE FALSE
  BY <1>1, Zenon DEF Open
<1>2. ASSUME NEW r \in Renderers, ReceiveFull(r) PROVE Rejoins(r, reply[r].rep)
  BY <1>2, Zenon DEF ReceiveFull
<1>3. CASE UNCHANGED apart
  BY <1>3
<1>4. ASSUME NEW r \in Renderers, RendererStep(r), ~Open(r), ~ReceiveFull(r)
      PROVE  UNCHANGED apart
  BY <1>4
     DEF RendererStep, Close, ServeFromCache, SendRequest, OriginAnswers,
         ReceiveError, ReceiveNotModified, FinishWrite
<1>5. CASE Tick \/ Publish \/ Crash \/ UNCHANGED vars
  BY <1>5 DEF Tick, Publish, Crash, vars
<1> QED
  BY <1>1, <1>2, <1>3, <1>4, <1>5 DEF Next

\* Only Open opens a renderer, and it says so when another one is open.
LEMMA TurnStep ==
  ASSUME TypeOK, ReplyInv, TurnInv, [Next]_vars, ~apart'
  PROVE  TurnInv'
<1>0. phase \in [Renderers -> Phases]
  BY DEF TypeOK
<1>1. CASE Tick \/ Publish \/ UNCHANGED vars
  BY <1>1 DEF Tick, Publish, vars, TurnInv
<1>2. CASE Crash
  BY <1>2 DEF Crash, TurnInv
<1>3. ASSUME NEW r \in Renderers, Open(r) PROVE TurnInv'
  <2>1. \A q \in Renderers : phase[q] = "closed"
    BY <1>3, Zenon DEF Open
  <2>2. phase' = [phase EXCEPT ![r] = "ready"]
    BY <1>3 DEF Open
  <2> QED
    BY <1>0, <2>1, <2>2 DEF TurnInv
<1>4. ASSUME NEW r \in Renderers,
             \A q \in Renderers : phase[q] = "closed" => phase'[q] = "closed"
      PROVE  TurnInv'
  BY <1>4 DEF TurnInv
<1>5. ASSUME NEW r \in Renderers,
             \/ Close(r) \/ ServeFromCache(r) \/ SendRequest(r)
             \/ OriginAnswers(r) \/ FinishWrite(r)
      PROVE  \A q \in Renderers : phase[q] = "closed" => phase'[q] = "closed"
  BY <1>0, <1>5 DEF Close, ServeFromCache, SendRequest, OriginAnswers, FinishWrite
<1>6. ASSUME NEW r \in Renderers,
             ReceiveError(r) \/ ReceiveNotModified(r) \/ ReceiveFull(r)
      PROVE  \A q \in Renderers : phase[q] = "closed" => phase'[q] = "closed"
  <2>1. phase[r] # "closed"
    <3>1. reply[r] # NoReply
      BY <1>6, ReceiveFacts DEF NoReply
    <3> QED
      BY <3>1 DEF ReplyInv, Waits
  <2> QED
    BY <1>0, <1>6, <2>1, ReceiveFacts
<1> QED
  BY <1>1, <1>2, <1>3, <1>4, <1>5, <1>6 DEF Next, RendererStep

\* After a response that is no older than what was received, put by the only
\* open renderer, nothing older is left in memory or on disk.
LEMMA PutNewest ==
  ASSUME TypeOK, ReplyInv, NEW r \in Renderers, ReceiveFull(r),
         Rejoins(r, reply[r].rep), ~apart'
  PROVE  TurnInv' /\ NewestInv'
<1>0. /\ mem \in [Renderers -> Entry] /\ seen \in Nat
      /\ phase \in [Renderers -> Phases]
      /\ NoEntry.version = 0 /\ NoReply.kind = "none"
      /\ reply \in [Renderers -> Replies]
  BY CacheAssumption, EntryFacts DEF TypeOK, NoReply
<1>1. reply' = [reply EXCEPT ![r] = NoReply]
  BY ReceiveFullFacts
<1>2. PICK rep \in Representation, fails \in Failures :
        /\ rep = reply[r].rep /\ Put(r, rep, fails)
        /\ seen' = Max2(seen, rep.version)
        /\ apart' = (LeavesOlder(rep, fails) \/ (apart /\ ~Rejoins(r, rep)))
  BY ReceiveFullFacts
<1>3. rep.version \in Nat /\ rep.version >= seen
  BY <1>2, EntryOfFacts, CacheAssumption DEF Rejoins
<1>4. seen' = rep.version
  BY <1>0, <1>2, <1>3 DEF Max2
<1>5. ~LeavesOlder(rep, fails)
  BY <1>2, Zenon
<1>6. PICK e \in Entry : e = EntryOf(rep) /\ e.version = rep.version
  BY EntryOfFacts
<1>7. /\ disk' \in {NoEntry, e}
      /\ \E d \in {NoEntry, e} : mem' = [mem EXCEPT ![r] = d]
  BY <1>2, <1>5, <1>6, PutFacts
<1>8. \A q \in Renderers \ {r} : phase[q] = "closed"
  BY DEF Rejoins
<1>9. TurnInv'
  BY <1>8, ReceiveFacts DEF TurnInv
<1>10. \A q \in Renderers \ {r} : mem[q] = NoEntry /\ reply[q] = NoReply
  BY <1>8 DEF ReplyInv, Waits
<1>11. \A q \in Renderers : mem'[q] \in {NoEntry, e} /\ reply'[q] = NoReply
  BY <1>0, <1>1, <1>7, <1>10
<1>12. \A d \in {NoEntry, e} : d.version = 0 \/ d.version >= seen'
  BY <1>0, <1>3, <1>4, <1>6
<1> QED
  BY <1>0, <1>7, <1>9, <1>11, <1>12 DEF NewestInv, Newest

\* With one renderer at a time no entry, and no reply, is older than what
\* was received.
LEMMA NewestStep ==
  ASSUME TypeOK, ReplyInv, SeenInv, TurnInv, NewestInv, [Next]_vars, ~apart'
  PROVE  NewestInv'
<1>0. /\ mem \in [Renderers -> Entry] /\ disk \in Entry /\ seen \in Nat
      /\ origin.version \in Nat
      /\ NoEntry.version = 0 /\ NoReply.kind = "none"
      /\ reply \in [Renderers -> Replies]
  BY CacheAssumption, EntryFacts DEF TypeOK, Representation, NoReply
<1>1. CASE Tick \/ Publish \/ UNCHANGED vars
  <2>1. UNCHANGED <<disk, mem, reply, seen>>
    BY <1>1 DEF Tick, Publish, vars
  <2> QED
    BY <2>1 DEF NewestInv, Newest
<1>2. CASE Crash
  BY <1>0, <1>2 DEF Crash, NewestInv, Newest
<1>3. ASSUME NEW r \in Renderers, Open(r) PROVE NewestInv'
  <2>1. /\ \E e \in {NoEntry, disk} : mem' = [mem EXCEPT ![r] = e]
        /\ UNCHANGED <<disk, reply, seen>>
    BY <1>3, OpenFacts DEF Open
  <2> QED
    BY <1>0, <2>1 DEF NewestInv, Newest
<1>4. ASSUME NEW r \in Renderers, Close(r) PROVE NewestInv'
  BY <1>0, <1>4 DEF Close, NewestInv, Newest
<1>5. ASSUME NEW r \in Renderers, ServeFromCache(r) \/ SendRequest(r) PROVE NewestInv'
  <2>1. UNCHANGED <<disk, mem, reply, seen>>
    BY <1>5 DEF ServeFromCache, SendRequest
  <2> QED
    BY <2>1 DEF NewestInv, Newest
<1>6. ASSUME NEW r \in Renderers, OriginAnswers(r) PROVE NewestInv'
  <2>1. UNCHANGED <<disk, mem, seen>>
    BY <1>6 DEF OriginAnswers
  <2>2. \A q \in Renderers : reply'[q].kind = "200" => reply'[q].rep.version >= seen
    BY <1>0, <1>6, AnswerFacts DEF NewestInv, SeenInv
  <2> QED
    BY <2>1, <2>2 DEF NewestInv, Newest
<1>7. ASSUME NEW r \in Renderers, ReceiveError(r) PROVE NewestInv'
  <2>1. UNCHANGED <<disk, mem, seen>> /\ reply' = [reply EXCEPT ![r] = NoReply]
    BY <1>7 DEF ReceiveError, Received
  <2> QED
    BY <1>0, <2>1 DEF NewestInv, Newest
<1>8. ASSUME NEW r \in Renderers, ReceiveNotModified(r) PROVE NewestInv'
  <2>1. /\ reply[r].kind = "304" /\ reply' = [reply EXCEPT ![r] = NoReply]
        /\ UNCHANGED seen
    BY <1>8 DEF ReceiveNotModified, Received
  <2>2. \A q \in Renderers : reply'[q].kind = "200" => reply'[q].rep.version >= seen
    BY <1>0, <2>1 DEF NewestInv
  <2>3. CASE phase[r] = "navigating"
    <3>1. \E fails \in Failures : Refresh(r, fails)
      BY <1>8, <2>3 DEF ReceiveNotModified
    <3>2. PICK e \in Entry :
            /\ e.version = mem[r].version
            /\ mem' = [mem EXCEPT ![r] = e] /\ (disk' = e \/ disk' = disk)
      BY <2>1, <3>1, RefreshFacts
    <3>3. Newest(e)
      BY <3>2 DEF NewestInv, Newest
    <3> QED
      BY <1>0, <2>1, <2>2, <3>2, <3>3 DEF NewestInv, Newest
  <2>4. CASE phase[r] # "navigating"
    <3>1. UNCHANGED <<disk, mem>>
      BY <1>8, <2>4 DEF ReceiveNotModified
    <3> QED
      BY <2>1, <2>2, <3>1 DEF NewestInv, Newest
  <2> QED
    BY <2>3, <2>4
<1>9. ASSUME NEW r \in Renderers, ReceiveFull(r) PROVE NewestInv'
  <2>1. reply[r].kind = "200" /\ reply[r] # NoReply
    BY <1>9, ReceiveFullFacts DEF NoReply
  <2>2. reply[r].rep.version >= seen
    BY <2>1 DEF NewestInv
  <2>3. \A q \in Renderers \ {r} : phase[q] = "closed"
    BY <2>1 DEF ReplyInv, Waits, TurnInv
  <2> QED
    BY <1>9, <2>2, <2>3, PutNewest DEF Rejoins
<1>10. ASSUME NEW r \in Renderers, FinishWrite(r) PROVE NewestInv'
  <2>1. UNCHANGED <<mem, reply, seen>> /\ (disk' = mem[r] \/ disk' = disk)
    BY <1>10 DEF FinishWrite
  <2> QED
    BY <1>0, <2>1 DEF NewestInv, Newest
<1> QED
  BY <1>1, <1>2, <1>3, <1>4, <1>5, <1>6, <1>7, <1>8, <1>9, <1>10
     DEF Next, RendererStep

-----------------------------------------------------------------------------
(***************************************************************************)
(* The theorems.                                                           *)
(***************************************************************************)
LEMMA CacheStep ==
  ASSUME CacheIInv, [Next]_vars
  PROVE  CacheIInv'
<1>1. TypeOK' /\ AgeInv' /\ ReplyInv' /\ SeenInv'
  BY TypeStep, AgeStep, ReplyStep, SeenStep DEF CacheIInv
<1>2. ASSUME ~apart' PROVE TurnInv' /\ NewestInv'
  <2>1. CASE apart
    BY <1>2, <2>1, RejoinFacts, PutNewest DEF CacheIInv
  <2>2. CASE ~apart
    BY <1>2, <2>2, TurnStep, NewestStep DEF CacheIInv
  <2> QED
    BY <2>1, <2>2
<1> QED
  BY <1>1, <1>2 DEF CacheIInv

LEMMA CacheInvariance == Spec => []CacheIInv
  BY CacheInit, CacheStep, PTL DEF Spec

\* The cache keeps its shape, and an entry answers on its own only within
\* its lifetime of the last time the origin spoke for it, whatever renderers
\* open, crash, tear or orphan a write.
THEOREM NeverServedTooOld == Spec => []CacheInv
<1>1. CacheIInv => CacheInv
  <2> SUFFICES ASSUME CacheIInv, NEW r \in Renderers, IsFresh(mem[r])
               PROVE  now - vouched[mem[r].version] < mem[r].life
    BY DEF CacheIInv, CacheInv, ServedWithinLifetime
  <2>1. mem[r] \in Entry /\ now \in Nat
        /\ vouched \in [1..MaxVersion -> 0..MaxTime]
    BY CacheAssumption DEF CacheIInv, TypeOK
  <2>2. /\ mem[r].version \in 1..MaxVersion /\ mem[r].since \in Nat
        /\ mem[r].life \in Nat /\ now - mem[r].since < mem[r].life
    BY <2>1, CacheAssumption DEF IsFresh, Entry
  <2>3. mem[r].since <= vouched[mem[r].version] /\ vouched[mem[r].version] \in Nat
    BY <2>1, <2>2, CacheAssumption DEF CacheIInv, AgeInv, Vouched
  <2> QED
    BY <2>1, <2>2, <2>3
<1> QED
  BY <1>1, CacheInvariance, PTL

\* Unless memory and disk have parted (two renderers open at once, or a
\* response that left an earlier one's file behind), and again once a renderer
\* alone has put a response, no version older than one already received is
\* served from the cache, whatever file operations fail, tear or are cut off.
THEOREM NeverServedReplaced == Spec => ReplacedStaysGone
<1>1. ASSUME CacheIInv, NEW r \in Renderers, ServeFromCache(r), ~apart
      PROVE  mem[r].version >= seen
  <2>1. mem[r].version # 0
    BY <1>1 DEF ServeFromCache, IsFresh
  <2> QED
    BY <1>1, <2>1 DEF CacheIInv, NewestInv, Newest
<1>2. CacheIInv /\ [Next]_vars =>
        [\A r \in Renderers : ServeFromCache(r) => apart \/ mem[r].version >= seen]_vars
  BY <1>1
<1> QED
  BY <1>2, CacheInvariance, PTL DEF Spec, ReplacedStaysGone

-----------------------------------------------------------------------------
(***************************************************************************)
(* The calendar.                                                           *)
(***************************************************************************)

\* Days from 0000-03-01 to 1 March of a year, without the era.
DaysToMarch(year) == 365 * year + year \div 4 - year \div 100 + year \div 400

LEMMA EraSplit ==
  ASSUME NEW year \in Nat
  PROVE  LET era == year \div 400 IN
           /\ era \in Nat /\ year - era * 400 \in 0..399
           /\ year \div 4 = 100 * era + (year - era * 400) \div 4
           /\ year \div 100 = 4 * era + (year - era * 400) \div 100
<1> DEFINE era == year \div 400
           yoe == year - era * 400
<1>1. era \in Nat /\ yoe \in 0..399
  OBVIOUS
<1>2. year = era * 400 + yoe
  BY <1>1
<1> HIDE DEF era, yoe
<1>3. year \div 4 = 100 * era + yoe \div 4
  BY <1>1, <1>2
<1>4. year \div 100 = 4 * era + yoe \div 100
  BY <1>1, <1>2
<1> QED
  BY <1>1, <1>3, <1>4 DEF era, yoe

LEMMA EraFormula ==
  ASSUME NEW year \in Nat, NEW doy \in Int
  PROVE  (year \div 400) * 146097 + DayOfEra(year - (year \div 400) * 400, doy)
           = DaysToMarch(year) + doy
<1> DEFINE era == year \div 400
           yoe == year - era * 400
           q == yoe \div 4
           c == yoe \div 100
<1>1. /\ era \in Nat /\ yoe \in 0..399
      /\ year \div 4 = 100 * era + q
      /\ year \div 100 = 4 * era + c
  BY EraSplit
<1>2. q \in Int /\ c \in Int
  BY <1>1
<1>3. DayOfEra(yoe, doy) = yoe * 365 + q - c + doy
  BY DEF DayOfEra
<1>4. DaysToMarch(year) = 365 * year + (year \div 4) - (year \div 100) + era
  BY DEF DaysToMarch
<1>5. year = era * 400 + yoe
  BY <1>1
<1> HIDE DEF era, yoe, q, c
<1>6. era * 146097 + DayOfEra(yoe, doy) = DaysToMarch(year) + doy
  BY <1>1, <1>2, <1>3, <1>4, <1>5
<1> QED
  BY <1>6 DEF era, yoe

\* From one March to the next there is a leap day if the second year has one.
LEMMA MarchToMarch ==
  ASSUME NEW year \in Nat
  PROVE  DaysToMarch(year + 1) = DaysToMarch(year) + IF IsLeap(year + 1) THEN 366 ELSE 365
<1> DEFINE q == year \div 4
           c == year \div 100
           e == year \div 400
           q1 == (year + 1) \div 4
           c1 == (year + 1) \div 100
           e1 == (year + 1) \div 400
<1>1. q1 = q + IF (year + 1) % 4 = 0 THEN 1 ELSE 0
  OBVIOUS
<1>2. c1 = c + IF (year + 1) % 100 = 0 THEN 1 ELSE 0
  OBVIOUS
<1>3. e1 = e + IF (year + 1) % 400 = 0 THEN 1 ELSE 0
  OBVIOUS
<1>4. /\ (year + 1) % 400 = 0 => (year + 1) % 100 = 0
      /\ (year + 1) % 100 = 0 => (year + 1) % 4 = 0
  OBVIOUS
<1>5. q \in Int /\ c \in Int /\ e \in Int
  OBVIOUS
<1>6. DaysToMarch(year) = 365 * year + q - c + e
  BY DEF DaysToMarch
<1>7. DaysToMarch(year + 1) = 365 * (year + 1) + q1 - c1 + e1
  BY DEF DaysToMarch
<1> HIDE DEF q, c, e, q1, c1, e1
<1> QED
  BY <1>1, <1>2, <1>3, <1>4, <1>5, <1>6, <1>7 DEF IsLeap

ValidDate(d) ==
  /\ d = Day(d.year, d.month, d.day)
  /\ d.year \in Nat /\ d.year >= FirstYear
  /\ d.month \in 1..12
  /\ d.day \in 1..MonthLength(d.year, d.month)

\* The formula in one line.
LEMMA CivilFormula ==
  ASSUME NEW d, ValidDate(d)
  PROVE  CivilDays(d) = DaysToMarch(MarchYearStart(d)) + DayOfYear(d)
<1>1. MarchYearStart(d) \in Nat
  BY DateAssumption DEF ValidDate, MarchYearStart
<1>2. d.month \in 1..12 /\ d.day \in Int
  <2>1. MonthLength(d.year, d.month) \in Int
    BY DEF MonthLength
  <2> QED
    BY <2>1 DEF ValidDate
<1>3. DayOfYear(d) \in Int
  BY <1>2 DEF DayOfYear, MarchMonth
<1>4. CivilDays(d) = (MarchYearStart(d) \div 400) * 146097
        + DayOfEra(MarchYearStart(d) - (MarchYearStart(d) \div 400) * 400, DayOfYear(d))
  BY DEF CivilDays
<1> QED
  BY <1>1, <1>3, <1>4, EraFormula

\* Days before each month of a year that begins in March.
BeforeMonth(m) ==
  CASE m = 3 -> 0 [] m = 4 -> 31 [] m = 5 -> 61 [] m = 6 -> 92 [] m = 7 -> 122
    [] m = 8 -> 153 [] m = 9 -> 184 [] m = 10 -> 214 [] m = 11 -> 245 [] m = 12 -> 275
    [] m = 1 -> 306 [] m = 2 -> 337

LEMMA DayOfYearTable ==
  ASSUME NEW d, d.month \in 1..12, d.day \in Int
  PROVE  DayOfYear(d) = BeforeMonth(d.month) + d.day - 1
<1>1. DayOfYear(d) = (153 * MarchMonth(d) + 2) \div 5 + d.day - 1
  BY DEF DayOfYear
<1>2. (153 * MarchMonth(d) + 2) \div 5 = BeforeMonth(d.month)
  <2>1. CASE d.month > 2
    <3>1. MarchMonth(d) = d.month - 3
      BY <2>1 DEF MarchMonth
    <3>2. d.month \in {3, 4, 5, 6, 7, 8, 9, 10, 11, 12}
      BY <2>1
    <3> QED
      BY <3>1, <3>2 DEF BeforeMonth
  <2>2. CASE d.month <= 2
    <3>1. MarchMonth(d) = d.month + 9 /\ d.month \in {1, 2}
      BY <2>2 DEF MarchMonth
    <3> QED
      BY <3>1 DEF BeforeMonth
  <2> QED
    BY <2>1, <2>2
<1> QED
  BY <1>1, <1>2

LEMMA CivilInteger ==
  ASSUME NEW d, ValidDate(d)
  PROVE  CivilDays(d) \in Int
<1>1. MarchYearStart(d) \in Nat
  BY DateAssumption DEF ValidDate, MarchYearStart
<1>2. \A z, n : MonthLength(z, n) \in 28..31
  BY DEF MonthLength
<1>3. d.month \in 1..12 /\ d.day \in Int
  BY <1>2 DEF ValidDate
<1>4. BeforeMonth(d.month) \in Int
  BY <1>3 DEF BeforeMonth
<1>5. DayOfYear(d) \in Int
  BY <1>3, <1>4, DayOfYearTable
<1>6. DaysToMarch(MarchYearStart(d)) \in Int
  BY <1>1 DEF DaysToMarch
<1> QED
  BY <1>5, <1>6, CivilFormula

LEMMA EpochInteger == EpochDay \in Int
BY SMT DEF EpochDay

\* The day after d.
NextDay(d) ==
  IF d.day < MonthLength(d.year, d.month) THEN Day(d.year, d.month, d.day + 1)
  ELSE IF d.month < 12 THEN Day(d.year, d.month + 1, 1)
  ELSE Day(d.year + 1, 1, 1)

LEMMA NextDayCounts ==
  ASSUME NEW d, ValidDate(d), ValidDate(NextDay(d))
  PROVE  CivilDays(NextDay(d)) = CivilDays(d) + 1
<1> DEFINE e == NextDay(d)
           y == d.year
           m == d.month
<1>1. /\ CivilDays(d) = DaysToMarch(MarchYearStart(d)) + BeforeMonth(m) + d.day - 1
      /\ CivilDays(e) = DaysToMarch(MarchYearStart(e)) + BeforeMonth(e.month) + e.day - 1
  <2>1. ASSUME NEW x, ValidDate(x)
        PROVE  /\ CivilDays(x) = DaysToMarch(MarchYearStart(x)) + BeforeMonth(x.month) + x.day - 1
    <3>1. x.month \in 1..12 /\ x.day \in Int
      <4>1. MonthLength(x.year, x.month) \in Int
        BY DEF MonthLength
      <4> QED
        BY <2>1, <4>1 DEF ValidDate
    <3>2. DaysToMarch(MarchYearStart(x)) \in Int
      <4> DEFINE start == x.year
      <4>a. start \in Nat /\ start >= FirstYear
        BY <2>1 DEF ValidDate
      <4> HIDE DEF start
      <4>b. start - 1 \in Nat
        BY <4>a, DateAssumption
      <4>1. MarchYearStart(x) \in Nat
        BY <4>a, <4>b DEF MarchYearStart, start
      <4> QED
        BY <4>1 DEF DaysToMarch
    <3>3. BeforeMonth(x.month) \in Int
      BY <3>1 DEF BeforeMonth
    <3> QED
      BY <2>1, <3>1, <3>2, <3>3, CivilFormula, DayOfYearTable
  <2> QED
    BY <2>1
<1>2. /\ y \in Nat \ {0} /\ m \in 1..12 /\ MonthLength(y, m) \in 28..31
      /\ d.day \in 1..MonthLength(y, m)
  <2>1. MonthLength(y, m) \in 28..31
    BY DEF MonthLength
  <2> QED
    BY <2>1, DateAssumption DEF ValidDate
<1>3. \A z \in Nat : DaysToMarch(z) \in Int
  BY DEF DaysToMarch
<1>4. CASE d.day < MonthLength(y, m)
  <2>1. e = Day(y, m, d.day + 1)
    BY <1>4 DEF NextDay
  <2>2. e.year = y /\ e.month = m /\ e.day = d.day + 1
    BY <2>1 DEF Day
  <2>3. MarchYearStart(e) = MarchYearStart(d) /\ MarchYearStart(d) \in Nat
    BY <1>2, <2>2 DEF MarchYearStart
  <2>4. BeforeMonth(m) \in Int
    BY <1>2 DEF BeforeMonth
  <2> HIDE DEF e, y, m
  <2>5. BeforeMonth(e.month) = BeforeMonth(m)
    BY <2>2
  <2>6. CivilDays(e) = CivilDays(d) + 1
    BY <1>1, <1>2, <1>3, <2>2, <2>3, <2>4, <2>5
  <2> QED
    BY <2>6 DEF e
<1>5. CASE d.day = MonthLength(y, m) /\ m < 12 /\ m # 2
  <2>1. e = Day(y, m + 1, 1)
    BY <1>2, <1>5 DEF NextDay
  <2>2. e.year = y /\ e.month = m + 1 /\ e.day = 1
    BY <2>1 DEF Day
  <2>3. MarchYearStart(e) = MarchYearStart(d) /\ MarchYearStart(d) \in Nat
    BY <1>2, <1>5, <2>2 DEF MarchYearStart
  <2>4. BeforeMonth(m + 1) = BeforeMonth(m) + MonthLength(y, m) /\ BeforeMonth(m) \in Int
    <3>1. m \in {1, 3, 4, 5, 6, 7, 8, 9, 10, 11}
      BY <1>2, <1>5
    <3> HIDE DEF m, y
    <3> QED
      BY <3>1 DEF BeforeMonth, MonthLength
  <2> HIDE DEF e, y, m
  <2>6. CivilDays(e) = CivilDays(d) + 1
    BY <1>1, <1>2, <1>3, <1>5, <2>2, <2>3, <2>4
  <2> QED
    BY <2>6 DEF e
<1>6. CASE d.day = MonthLength(y, m) /\ m = 2
  <2>1. e = Day(y, 3, 1)
    BY <1>2, <1>6 DEF NextDay
  <2>2. e.year = y /\ e.month = 3 /\ e.day = 1
    BY <2>1 DEF Day
  <2>3. MarchYearStart(e) = y /\ MarchYearStart(d) = y - 1 /\ y - 1 \in Nat
    BY <1>2, <1>6, <2>2 DEF MarchYearStart
  <2>4. MonthLength(y, m) = IF IsLeap(y) THEN 29 ELSE 28
    BY <1>6 DEF MonthLength
  <2>5. DaysToMarch(y) = DaysToMarch(y - 1) + IF IsLeap(y) THEN 366 ELSE 365
    <3>1. (y - 1) + 1 = y
      BY <1>2
    <3> QED
      BY <2>3, <3>1, MarchToMarch
  <2>6. BeforeMonth(3) = 0 /\ BeforeMonth(2) = 337
    BY DEF BeforeMonth
  <2> HIDE DEF e, y, m
  <2>7. CivilDays(e) = CivilDays(d) + 1
    BY <1>1, <1>2, <1>3, <1>6, <2>2, <2>3, <2>4, <2>5, <2>6
  <2> QED
    BY <2>7 DEF e
<1>7. CASE d.day = MonthLength(y, m) /\ m = 12
  <2>1. e = Day(y + 1, 1, 1)
    BY <1>2, <1>7 DEF NextDay
  <2>2. e.year = y + 1 /\ e.month = 1 /\ e.day = 1
    BY <2>1 DEF Day
  <2>3. MarchYearStart(e) = y /\ MarchYearStart(d) = y
    BY <1>2, <1>7, <2>2 DEF MarchYearStart
  <2>4. MonthLength(y, m) = 31 /\ BeforeMonth(12) = 275 /\ BeforeMonth(1) = 306
    BY <1>7 DEF MonthLength, BeforeMonth
  <2> HIDE DEF e, y, m
  <2>7. CivilDays(e) = CivilDays(d) + 1
    BY <1>1, <1>2, <1>3, <1>7, <2>2, <2>3, <2>4
  <2> QED
    BY <2>7 DEF e
<1> QED
  BY <1>2, <1>4, <1>5, <1>6, <1>7

\* The count is the formula's value on the page, and says on which side of the
\* epoch the page lies.
DateInv ==
  /\ ValidDate(date) /\ count \in Int
  /\ count = CivilDays(date) - EpochDay
  /\ count = 0 => date = Day(1970, 1, 1)
  /\ IF count >= 0 THEN date.year >= 1970 ELSE date.year < 1970

\* On every day, however far from the epoch, both era formulas count what the
\* calendar counted, page by page; before the epoch the cache's saturates at
\* zero and the cookie parser's refuses.
THEOREM CalendarCounted == DateSpec => []CivilExact
<1>1. ASSUME DateInit PROVE DateInv
  <2>1. date = Day(1970, 1, 1) /\ count = 0
    BY <1>1 DEF DateInit
  <2>2. date.year = 1970 /\ date.month = 1 /\ date.day = 1
    BY <2>1 DEF Day
  <2>3. ValidDate(date)
    <3>1. MonthLength(1970, 1) = 31
      BY DEF MonthLength
    <3> QED
      BY <2>1, <2>2, <3>1, DateAssumption DEF ValidDate
  <2>4. CivilDays(date) = DaysToMarch(1969) + 306
    <3>1. MarchYearStart(date) = 1969
      BY <2>2 DEF MarchYearStart
    <3>2. DayOfYear(date) = 306
      BY <2>2, DayOfYearTable DEF BeforeMonth
    <3> QED
      BY <2>3, <3>1, <3>2, CivilFormula
  <2>5. CivilDays(date) - EpochDay = 0
    BY <2>4, SMT DEF DaysToMarch, EpochDay
  <2> QED
    BY <2>1, <2>2, <2>3, <2>5 DEF DateInv
<1>2. ASSUME DateInv, TurnForward PROVE DateInv'
  <2>1. date' = NextDay(date) /\ count' = count + 1 /\ count >= 0
    <3>1. [date EXCEPT !.day = @ + 1] = Day(date.year, date.month, date.day + 1)
      BY <1>2 DEF DateInv, ValidDate, Day
    <3> QED
      BY <1>2, <3>1 DEF TurnForward, NextDay
  <2>2. ValidDate(NextDay(date)) /\ NextDay(date).year >= date.year
    <3>1. /\ date.year \in Nat /\ date.year >= FirstYear /\ date.month \in 1..12
          /\ date.day \in 1..MonthLength(date.year, date.month)
      BY <1>2 DEF DateInv, ValidDate
    <3>2. \A y, m : MonthLength(y, m) \in 28..31
      BY DEF MonthLength
    <3> DEFINE len == MonthLength(date.year, date.month)
    <3>3. CASE date.day < len
      <4>1. NextDay(date) = Day(date.year, date.month, date.day + 1)
        BY <3>3 DEF NextDay
      <4> QED
        BY <3>1, <3>2, <3>3, <4>1 DEF ValidDate, Day
    <3>4. CASE ~(date.day < len) /\ date.month < 12
      <4>1. NextDay(date) = Day(date.year, date.month + 1, 1)
        BY <3>4 DEF NextDay
      <4> QED
        BY <3>1, <3>2, <3>4, <4>1 DEF ValidDate, Day
    <3>5. CASE ~(date.day < len) /\ ~(date.month < 12)
      <4>1. NextDay(date) = Day(date.year + 1, 1, 1)
        BY <3>5 DEF NextDay
      <4>2. /\ NextDay(date).year = date.year + 1
            /\ NextDay(date).month = 1 /\ NextDay(date).day = 1
        BY <4>1 DEF Day
      <4>3. 1 \in 1..MonthLength(date.year + 1, 1) /\ date.year + 1 >= FirstYear
        BY <3>1, <3>2, DateAssumption
      <4> QED
        BY <3>1, <4>1, <4>2, <4>3 DEF ValidDate
    <3> QED
      BY <3>3, <3>4, <3>5
  <2>3. CivilDays(date') = CivilDays(date) + 1
    BY <1>2, <2>1, <2>2, NextDayCounts DEF DateInv
  <2>4. count' = CivilDays(date') - EpochDay
    <3>1. CivilDays(date) \in Int
      BY <1>2, CivilInteger DEF DateInv
    <3> QED
      BY <1>2, <2>1, <2>3, <3>1, EpochInteger DEF DateInv
  <2>5. count \in Int /\ count' \in Int /\ count' > 0 /\ date.year >= 1970
    BY <1>2, <2>1 DEF DateInv
  <2>6. date'.year \in Nat /\ date.year \in Nat
    BY <1>2, <2>1, <2>2 DEF DateInv, ValidDate
  <2>7. date'.year >= 1970
    BY <2>1, <2>2, <2>5, <2>6
  <2> QED
    BY <2>1, <2>2, <2>4, <2>5, <2>7 DEF DateInv
<1>3. ASSUME DateInv, TurnBack PROVE DateInv'
  <2> DEFINE y == date.year
             m == date.month
  <2>1. /\ y \in Nat /\ y >= FirstYear /\ m \in 1..12
        /\ date.day \in 1..MonthLength(y, m)
        /\ date = Day(y, m, date.day)
    BY <1>3 DEF DateInv, ValidDate
  <2>2. \A z, n : MonthLength(z, n) \in 28..31
    BY DEF MonthLength
  <2>3. count' = count - 1 /\ count <= 0 /\ count \in Int
    BY <1>3 DEF TurnBack, DateInv
  <2>4. ValidDate(date') /\ NextDay(date') = date
    <3>1. CASE date.day > 1
      <4>1. date' = Day(y, m, date.day - 1)
        BY <1>3, <2>1, <3>1 DEF TurnBack, Day
      <4>2. date'.year = y /\ date'.month = m /\ date'.day = date.day - 1
        BY <4>1 DEF Day
      <4>3. ValidDate(date')
        BY <2>1, <2>2, <3>1, <4>1, <4>2 DEF ValidDate
      <4>4. NextDay(date') = Day(y, m, (date.day - 1) + 1)
        BY <2>1, <2>2, <4>2 DEF NextDay
      <4>5. (date.day - 1) + 1 = date.day
        BY <2>1, <2>2
      <4> QED
        BY <2>1, <4>3, <4>4, <4>5
    <3>2. CASE ~(date.day > 1) /\ m > 1
      <4>1. date' = Day(y, m - 1, MonthLength(y, m - 1))
        BY <1>3, <3>2 DEF TurnBack
      <4>2. date'.year = y /\ date'.month = m - 1 /\ date'.day = MonthLength(y, m - 1)
        BY <4>1 DEF Day
      <4>3. ValidDate(date')
        BY <2>1, <2>2, <3>2, <4>1, <4>2 DEF ValidDate
      <4>4. (m - 1) + 1 = m /\ m - 1 < 12 /\ date.day = 1
        BY <2>1, <2>2, <3>2
      <4>5. ~(MonthLength(y, m - 1) < MonthLength(y, m - 1))
        BY <2>2
      <4>6. NextDay(date') = Day(y, m, 1)
        BY <4>2, <4>4, <4>5 DEF NextDay
      <4> QED
        BY <2>1, <4>3, <4>4, <4>6
    <3>3. CASE ~(date.day > 1) /\ ~(m > 1)
      <4>1. date' = Day(y - 1, 12, 31)
        BY <1>3, <3>3 DEF TurnBack
      <4>2. date'.year = y - 1 /\ date'.month = 12 /\ date'.day = 31
        BY <4>1 DEF Day
      <4>3. m = 1 /\ date.day = 1
        BY <2>1, <2>2, <3>3
      <4>4. y # FirstYear
        BY <1>3, <2>1, <4>3 DEF TurnBack
      <4>5. y - 1 \in Nat /\ y - 1 >= FirstYear /\ (y - 1) + 1 = y
        BY <2>1, <4>4, DateAssumption
      <4>6. MonthLength(y - 1, 12) = 31
        BY DEF MonthLength
      <4>7. ValidDate(date')
        BY <4>1, <4>2, <4>5, <4>6 DEF ValidDate
      <4>8. NextDay(date') = Day(y, 1, 1)
        BY <4>2, <4>5, <4>6 DEF NextDay
      <4> QED
        BY <2>1, <4>3, <4>7, <4>8
    <3> QED
      BY <3>1, <3>2, <3>3
  <2>5. CivilDays(date) = CivilDays(date') + 1
    BY <1>3, <2>4, NextDayCounts DEF DateInv
  <2>6. CivilDays(date') \in Int
    BY <2>4, CivilInteger
  <2>7. count' = CivilDays(date') - EpochDay
    BY <1>3, <2>3, <2>5, <2>6, EpochInteger DEF DateInv
  <2>8. date'.year < 1970
    <3>1. CASE count = 0
      <4>1. date = Day(1970, 1, 1)
        BY <1>3, <3>1 DEF DateInv
      <4>2. date.year = 1970 /\ date.month = 1 /\ date.day = 1
        BY <4>1 DEF Day
      <4>3. date' = Day(1969, 12, 31)
        BY <1>3, <4>2 DEF TurnBack
      <4> QED
        BY <4>3 DEF Day
    <3>2. CASE count < 0
      <4>1. date.year < 1970
        BY <1>3, <3>2 DEF DateInv
      <4>2. date'.year <= date.year
        BY <1>3, <2>1 DEF TurnBack, Day
      <4>3. date'.year \in Nat
        BY <2>4 DEF ValidDate
      <4> QED
        BY <2>1, <4>1, <4>2, <4>3
    <3> QED
      BY <2>3, <3>1, <3>2
  <2> QED
    BY <2>3, <2>4, <2>7, <2>8 DEF DateInv
<1>4. ASSUME DateInv PROVE CivilExact
  <2>1. /\ CivilDays(date) \in Int /\ count = CivilDays(date) - EpochDay
        /\ count \in Int
    BY <1>4, CivilInteger DEF DateInv
  <2>2. CacheDays(date) = IF count > 0 THEN count ELSE 0
    BY <2>1, EpochInteger DEF CacheDays
  <2>3. CookieDays(date) = IF count >= 0 THEN count ELSE NoDate
    <3>1. date.year \in Nat /\ date.day \in 1..31
      <4>1. \A z, n : MonthLength(z, n) \in 28..31
        BY DEF MonthLength
      <4> QED
        BY <1>4, <4>1 DEF DateInv, ValidDate
    <3>2. CookieDays(date) = IF date.year < 1970 THEN NoDate ELSE count
      BY <2>1, <3>1 DEF CookieDays
    <3> QED
      BY <1>4, <2>1, <3>1, <3>2 DEF DateInv
  <2> QED
    BY <2>2, <2>3 DEF CivilExact
<1>5. ASSUME DateInv, UNCHANGED dateVars PROVE DateInv'
  BY <1>5 DEF DateInv, dateVars, ValidDate, CivilDays, DayOfEra, DayOfYear, MarchYearStart,
     MarchMonth, MonthLength
<1> QED
  BY <1>1, <1>2, <1>3, <1>4, <1>5, PTL DEF DateSpec, DateNext

-----------------------------------------------------------------------------
(***************************************************************************)
(* HttpClient: the stores of the jar.                                      *)
(***************************************************************************)

Identity(c) == <<c.name, c.domain, c.path>>

Apart(store) == \A i, j \in DOMAIN store : Identity(store[i]) = Identity(store[j]) => i = j


\* r is the list q without its element i: from says where each element was.
Lacks(r, q, i, from) ==
  /\ from \in [DOMAIN r -> DOMAIN q \ {i}]
  /\ \A k \in DOMAIN r : r[k] = q[from[k]]
  /\ \A k, l \in DOMAIN r : from[k] = from[l] => k = l
  /\ \A j \in DOMAIN q : j = i \/ \E k \in DOMAIN r : from[k] = j

LEMMA RemovedAt ==
  ASSUME NEW M, NEW q \in Seq(M), NEW i \in DOMAIN q
  PROVE  RemoveAt(q, i) \in Seq(M) /\ \E from : Lacks(RemoveAt(q, i), q, i, from)
<1> DEFINE n == Len(q)
           a == SubSeq(q, 1, i - 1)
           b == SubSeq(q, i + 1, n)
           r == RemoveAt(q, i)
           from == [k \in 1..(n - 1) |-> IF k < i THEN k ELSE k + 1]
<1>1. n \in Nat /\ DOMAIN q = 1..n /\ (\A k \in 1..n : q[k] \in M) /\ i \in 1..n
  BY SeqElements
<1>2. /\ a \in Seq(M) /\ Len(a) = i - 1 /\ \A k \in 1..(i - 1) : a[k] = q[k]
  <2>1. \A k \in 1..(i - 1) : q[k] \in M
    BY <1>1
  <2>2. /\ a \in Seq(M) /\ Len(a) = IF 1 <= i - 1 THEN (i - 1) - 1 + 1 ELSE 0
        /\ \A k \in 1..((i - 1) - 1 + 1) : a[k] = q[1 + k - 1]
    BY <1>1, <2>1, SubSeqProperties
  <2> HIDE DEF a
  <2>3. Len(a) = i - 1 /\ (i - 1) - 1 + 1 = i - 1 /\ \A k \in 1..(i - 1) : 1 + k - 1 = k
    BY <1>1, <2>2
  <2> QED
    BY <2>2, <2>3
<1>3. /\ b \in Seq(M) /\ Len(b) = n - i /\ \A k \in 1..(n - i) : b[k] = q[i + k]
  <2>1. \A k \in (i + 1)..n : q[k] \in M
    BY <1>1
  <2>2. /\ b \in Seq(M) /\ Len(b) = IF i + 1 <= n THEN n - (i + 1) + 1 ELSE 0
        /\ \A k \in 1..(n - (i + 1) + 1) : b[k] = q[(i + 1) + k - 1]
    BY <1>1, <2>1, SubSeqProperties
  <2> HIDE DEF b, n
  <2>3. Len(b) = n - i /\ n - (i + 1) + 1 = n - i /\ \A k \in 1..(n - i) : (i + 1) + k - 1 = i + k
    BY <1>1, <2>2
  <2> QED
    BY <2>2, <2>3
<1> HIDE DEF n
<1>4. r = a \o b
  BY DEF RemoveAt, n
<1> HIDE DEF a, b, r
<1>5. /\ r \in Seq(M) /\ Len(r) = n - 1 /\ DOMAIN r = 1..(n - 1)
      /\ \A k \in 1..(n - 1) : r[k] = IF k <= i - 1 THEN a[k] ELSE b[k - (i - 1)]
  <2>1. /\ a \o b \in Seq(M) /\ Len(a \o b) = Len(a) + Len(b)
        /\ \A k \in 1..Len(a) + Len(b) : (a \o b)[k] = IF k <= Len(a) THEN a[k] ELSE b[k - Len(a)]
    BY <1>2, <1>3, ConcatProperties
  <2>2. Len(a) + Len(b) = n - 1
    BY <1>1, <1>2, <1>3
  <2> QED
    BY <1>2, <1>4, <2>1, <2>2, SeqElements
<1>6. from \in [DOMAIN r -> DOMAIN q \ {i}]
  BY <1>1, <1>5
<1>7. \A k \in DOMAIN r : r[k] = q[from[k]]
  <2> SUFFICES ASSUME NEW k \in 1..(n - 1) PROVE r[k] = q[from[k]]
    BY <1>5
  <2>1. CASE k < i
    BY <1>1, <1>2, <1>5, <2>1
  <2>2. CASE ~(k < i)
    <3>1. k - (i - 1) \in 1..(n - i) /\ i + (k - (i - 1)) = k + 1 /\ ~(k <= i - 1)
      BY <1>1, <2>2
    <3> QED
      BY <1>3, <1>5, <2>2, <3>1
  <2> QED
    BY <2>1, <2>2
<1>8. \A k, l \in DOMAIN r : from[k] = from[l] => k = l
  BY <1>1, <1>5
<1>9. ASSUME NEW j \in DOMAIN q, j # i PROVE \E k \in DOMAIN r : from[k] = j
  <2>1. CASE j < i
    <3>1. j \in 1..(n - 1) /\ from[j] = j
      BY <1>1, <1>9, <2>1
    <3> QED
      BY <1>5, <3>1
  <2>2. CASE i < j
    <3>1. j - 1 \in 1..(n - 1) /\ from[j - 1] = j
      BY <1>1, <1>9, <2>2
    <3> QED
      BY <1>5, <3>1
  <2> QED
    BY <1>1, <1>9, <2>1, <2>2
<1> HIDE DEF from
<1>10. Lacks(r, q, i, from)
  BY <1>6, <1>7, <1>8, <1>9 DEF Lacks
<1> QED
  BY <1>5, <1>10 DEF r

LEMMA IndexFacts ==
  ASSUME NEW store \in Seq(Cookie), NEW cookie
  PROVE  \/ /\ IndexOf(store, cookie) = 0
            /\ \A i \in DOMAIN store : ~SameIdentity(store[i], cookie)
         \/ /\ IndexOf(store, cookie) \in DOMAIN store /\ IndexOf(store, cookie) # 0
            /\ SameIdentity(store[IndexOf(store, cookie)], cookie)
<1> DEFINE same == {i \in DOMAIN store : SameIdentity(store[i], cookie)}
<1>1. IndexOf(store, cookie) = IF same = {} THEN 0 ELSE Min(same)
  BY DEF IndexOf
<1>2. DOMAIN store \subseteq Nat \ {0}
  BY SeqElements
<1>3. ASSUME same # {} PROVE Min(same) \in same
  <2>1. same \in SUBSET Nat
    BY <1>2
  <2> HIDE DEF same
  <2>2. \E m \in same : \A k \in same : m <= k
    BY <1>3, <2>1, NatMin
  <2> QED
    BY <2>2 DEF Min
<1> QED
  BY <1>1, <1>2, <1>3

\* What is in a store after a cookie was written into it, and that no identity
\* is there twice.
LEMMA AppliedFacts ==
  ASSUME NEW store \in Seq(Cookie), NEW cookie \in Cookie, Apart(store)
  PROVE  LET next == Applied(store, cookie) IN
         /\ next \in Seq(Cookie) /\ Apart(next)
         /\ \A c : c \in ToSet(next) <=>
              \/ c \in ToSet(store) /\ Identity(c) # Identity(cookie)
              \/ c = cookie /\ ~IsExpired(cookie)
<1> DEFINE i == IndexOf(store, cookie)
           next == Applied(store, cookie)
           Result == /\ next \in Seq(Cookie) /\ Apart(next)
                     /\ \A c : c \in ToSet(next) <=>
                          \/ c \in ToSet(store) /\ Identity(c) # Identity(cookie)
                          \/ c = cookie /\ ~IsExpired(cookie)
<1>1. \A a, b : SameIdentity(a, b) <=> Identity(a) = Identity(b)
  BY DEF SameIdentity, Identity
<1>2. \/ i = 0 /\ \A j \in DOMAIN store : Identity(store[j]) # Identity(cookie)
      \/ i \in DOMAIN store /\ i # 0 /\ Identity(store[i]) = Identity(cookie)
  BY <1>1, IndexFacts
<1>3. /\ \A k, l \in DOMAIN store : Identity(store[k]) = Identity(store[l]) => k = l
      /\ DOMAIN store = 1..Len(store) /\ Len(store) \in Nat
      /\ \A j \in DOMAIN store : store[j] \in Cookie
  BY SeqElements DEF Apart
<1>n. next = CASE IsExpired(cookie) -> IF i = 0 THEN store ELSE RemoveAt(store, i)
               [] ~IsExpired(cookie) /\ i # 0 -> [store EXCEPT ![i] = cookie]
               [] OTHER -> Append(store, cookie)
  BY DEF Applied
<1> HIDE DEF i, next, Identity
<1>4. CASE IsExpired(cookie) /\ i = 0
  <2>1. next = store
    BY <1>n, <1>4
  <2>2. \A c : c \in ToSet(store) => Identity(c) # Identity(cookie)
    BY <1>2, <1>3, <1>4 DEF ToSet
  <2> QED
    BY <1>4, <2>1, <2>2 DEF next
<1>5. CASE IsExpired(cookie) /\ i # 0
  <2>1. next = RemoveAt(store, i) /\ i \in DOMAIN store /\ Identity(store[i]) = Identity(cookie)
    BY <1>n, <1>2, <1>5
  <2>2. next \in Seq(Cookie) /\ \E from : Lacks(next, store, i, from)
    <3>1. i \in DOMAIN store
      BY <2>1
    <3>2. RemoveAt(store, i) \in Seq(Cookie) /\ \E from : Lacks(RemoveAt(store, i), store, i, from)
      BY <3>1, RemovedAt
    <3> QED
      BY <2>1, <3>2
  <2>3. PICK from : Lacks(next, store, i, from)
    BY <2>2
  <2>4. Apart(next)
    BY <1>3, <2>3 DEF Apart, Lacks
  <2>5. \A c : c \in ToSet(next) <=> c \in ToSet(store) /\ Identity(c) # Identity(cookie)
    <3>1. ASSUME NEW k \in DOMAIN next
          PROVE  next[k] \in ToSet(store) /\ Identity(next[k]) # Identity(cookie)
      BY <1>3, <2>1, <2>3 DEF ToSet, Lacks
    <3>2. ASSUME NEW j \in DOMAIN store, Identity(store[j]) # Identity(cookie)
          PROVE  store[j] \in ToSet(next)
      BY <2>1, <2>3, <3>2 DEF ToSet, Lacks
    <3> QED
      BY <3>1, <3>2 DEF ToSet
  <2> QED
    BY <1>5, <2>2, <2>4, <2>5 DEF next
<1>6. CASE ~IsExpired(cookie) /\ i # 0
  <2>1. next = [store EXCEPT ![i] = cookie] /\ i \in DOMAIN store /\ Identity(store[i]) = Identity(cookie)
    BY <1>n, <1>2, <1>6
  <2>2. /\ next \in Seq(Cookie) /\ DOMAIN next = DOMAIN store /\ next[i] = cookie
        /\ \A j \in DOMAIN store : j # i => next[j] = store[j]
    BY <2>1
  <2>3. Apart(next)
    BY <1>3, <2>1, <2>2 DEF Apart
  <2>4. ASSUME NEW c
        PROVE  c \in ToSet(next) <=> \/ c \in ToSet(store) /\ Identity(c) # Identity(cookie)
                                     \/ c = cookie
    <3>1. ASSUME NEW k \in DOMAIN next, c = next[k]
          PROVE  \/ c \in ToSet(store) /\ Identity(c) # Identity(cookie)
                 \/ c = cookie
      BY <1>3, <2>1, <2>2, <3>1 DEF ToSet
    <3>2. ASSUME NEW j \in DOMAIN store, c = store[j], Identity(c) # Identity(cookie)
          PROVE  c \in ToSet(next)
      BY <2>1, <2>2, <3>2 DEF ToSet
    <3>3. cookie \in ToSet(next)
      BY <2>1, <2>2 DEF ToSet
    <3> QED
      BY <3>1, <3>2, <3>3 DEF ToSet
  <2> QED
    BY <1>6, <2>2, <2>3, <2>4 DEF next
<1>7. CASE ~IsExpired(cookie) /\ i = 0
  <2>1. next = Append(store, cookie) /\ \A j \in DOMAIN store : Identity(store[j]) # Identity(cookie)
    BY <1>n, <1>2, <1>3, <1>7
  <2>2. /\ next \in Seq(Cookie) /\ DOMAIN next = 1..(Len(store) + 1)
        /\ next[Len(store) + 1] = cookie
        /\ \A j \in DOMAIN store : j \in DOMAIN next /\ next[j] = store[j] /\ j # Len(store) + 1
        /\ \A j \in DOMAIN next : j \in DOMAIN store \/ j = Len(store) + 1
    BY <2>1, AppendElements
  <2>3. Apart(next)
    BY <1>3, <2>1, <2>2 DEF Apart
  <2>4. ASSUME NEW c
        PROVE  c \in ToSet(next) <=> \/ c \in ToSet(store) /\ Identity(c) # Identity(cookie)
                                     \/ c = cookie
    <3>1. ASSUME NEW k \in DOMAIN next, c = next[k]
          PROVE  \/ c \in ToSet(store) /\ Identity(c) # Identity(cookie)
                 \/ c = cookie
      BY <2>1, <2>2, <3>1 DEF ToSet
    <3>2. ASSUME NEW j \in DOMAIN store, c = store[j]
          PROVE  c \in ToSet(next)
      BY <2>2, <3>2 DEF ToSet
    <3>3. cookie \in ToSet(next)
      <4>1. Len(store) + 1 \in DOMAIN next
        BY <1>3, <2>2
      <4> QED
        BY <2>2, <4>1 DEF ToSet
    <3> QED
      BY <3>1, <3>2, <3>3 DEF ToSet
  <2> QED
    BY <1>7, <2>2, <2>3, <2>4 DEF next
<1> QED
  BY <1>4, <1>5, <1>6, <1>7 DEF next

-----------------------------------------------------------------------------
(***************************************************************************)
(* What a request carries and a document reads.                            *)
(***************************************************************************)

\* Which cookies of a store a request carries.
Fitting(cookie, u, context) ==
  /\ ~IsExpired(cookie)
  /\ DomainMatches(cookie, u.host) /\ PathMatches(cookie, u.path)
  /\ cookie.secure => u.secure
  /\ SameSiteAllows(cookie.sameSite, context)

LEMMA CookieFields ==
  ASSUME NEW c \in Cookie
  PROVE  /\ Len(c.path) \in Nat /\ c.value \in 1..MaxWrites /\ c.expires \subseteq Nat
         /\ c.hostOnly \in BOOLEAN /\ c.secure \in BOOLEAN /\ c.httpOnly \in BOOLEAN
         /\ c.sameSite \in {"strict", "lax", "none"}
<1>1. /\ c.path \in {h.path : h \in SetCookies} /\ c.value \in 1..MaxWrites
      /\ c.expires \in SUBSET Nat /\ c.hostOnly \in BOOLEAN /\ c.secure \in BOOLEAN
      /\ c.httpOnly \in BOOLEAN /\ c.sameSite \in {"strict", "lax", "none"}
  BY DEF Cookie
<1>2. PICK h \in SetCookies : c.path = h.path
  BY <1>1
<1>3. h.path \in Seq(STRING)
  BY AddressAssumption
<1> QED
  BY <1>1, <1>2, <1>3

LEMMA HeaderFacts ==
  ASSUME NEW store \in Seq(Cookie), NEW u, NEW context
  PROVE  LET header == CookieHeader(store, u, context) IN
         /\ header \in Seq(Cookie)
         /\ \A c : c \in ToSet(header) <=> c \in ToSet(store) /\ Fitting(c, u, context)
<1> DEFINE S == {i \in DOMAIN store : Fitting(store[i], u, context)}
           length(i) == Len(store[i].path)
           Before(i, j) == length(i) > length(j) \/ (length(i) = length(j) /\ i < j)
           R == {p \in S \X S : Before(p[1], p[2])}
           Ordered(list) == \A i, j \in DOMAIN list : i < j => Before(list[i], list[j])
           n == Cardinality(S)
           order == CHOOSE list \in [1..n -> S] : Ordered(list)
           header == CookieHeader(store, u, context)
<1>1. header = [k \in DOMAIN order |-> store[order[k]]]
  BY DEF CookieHeader, InOrder, Fitting
<1>2. DOMAIN store = 1..Len(store) /\ Len(store) \in Nat /\ \A i \in DOMAIN store : store[i] \in Cookie
  BY SeqElements
<1>3. \A i \in S : i \in Nat /\ length(i) \in Nat
  BY <1>2, CookieFields
<1>4. IsFiniteSet(S)
  <2>1. IsFiniteSet(1..Len(store)) /\ S \subseteq 1..Len(store)
    BY <1>2, FS_Interval
  <2> QED
    BY <2>1, FS_Subset
<1>5. \A i, j \in S : <<i, j>> \in R <=> Before(i, j)
  OBVIOUS
<1>i. S \subseteq DOMAIN store
  OBVIOUS
<1>s. \A i \in DOMAIN store : i \in S <=> Fitting(store[i], u, context)
  OBVIOUS
<1> HIDE DEF R, S, length
<1>6. StrictOrder(S, R)
  <2>1. \A i \in S : <<i, i>> \notin R
    BY <1>3, <1>5
  <2>2. \A i, j \in S : i # j => <<i, j>> \in R \/ <<j, i>> \in R
    BY <1>3, <1>5
  <2>3. \A i, j, k \in S : <<i, j>> \in R /\ <<j, k>> \in R => <<i, k>> \in R
    BY <1>3, <1>5
  <2> QED
    BY <2>1, <2>2, <2>3 DEF StrictOrder
<1>7. \A list \in [1..n -> S] : Ordered(list) <=> Rising(list, R)
  BY <1>5 DEF Rising
<1>8. \E list \in [1..n -> S] : Ordered(list)
  BY <1>4, <1>6, <1>7, RisingExists
<1>9. order \in [1..n -> S] /\ Ordered(order)
  BY <1>8
<1>10. Rising(order, R)
  BY <1>7, <1>9
<1> HIDE DEF order, header
<1>11. /\ Len(order) = n /\ n \in Nat /\ \A i \in S : \E k \in 1..Len(order) : order[k] = i
  BY <1>4, <1>6, <1>9, <1>10, RisingFacts
<1>12. /\ DOMAIN header = 1..n
       /\ \A k \in 1..n : header[k] = store[order[k]] /\ order[k] \in S
  BY <1>1, <1>9
<1>13. header \in Seq(Cookie)
  <2>1. header = [k \in 1..n |-> store[order[k]]]
    BY <1>1, <1>9
  <2>2. \A k \in 1..n : store[order[k]] \in Cookie
    BY <1>2, <1>i, <1>12
  <2> QED
    BY <1>11, <2>1, <2>2
<1>14. ASSUME NEW c PROVE c \in ToSet(header) <=> c \in ToSet(store) /\ Fitting(c, u, context)
  <2>1. ASSUME NEW k \in DOMAIN header, c = header[k]
        PROVE  c \in ToSet(store) /\ Fitting(c, u, context)
    BY <1>12, <1>i, <1>s, <2>1 DEF ToSet
  <2>2. ASSUME NEW i \in DOMAIN store, c = store[i], Fitting(c, u, context)
        PROVE  c \in ToSet(header)
    <3>1. i \in S
      BY <1>s, <2>2
    <3>2. PICK k \in 1..n : order[k] = i
      BY <1>11, <3>1
    <3> QED
      BY <1>12, <2>2, <3>2 DEF ToSet
  <2> QED
    BY <2>1, <2>2 DEF ToSet
<1> QED
  BY <1>13, <1>14 DEF header

LEMMA DocumentFacts ==
  ASSUME NEW d, jar[PartitionKey(d.top, d.top)] \in Seq(Cookie)
  PROVE  \A c : c \in ToSet(DocumentCookies(d)) <=>
           /\ c \in ToSet(jar[PartitionKey(d.top, d.top)])
           /\ ~IsExpired(c) /\ ~c.httpOnly
           /\ d.sandboxed \/ DomainMatches(c, d.url.host)
<1> DEFINE store == jar[PartitionKey(d.top, d.top)]
           S == {c \in ToSet(store) : /\ ~IsExpired(c) /\ ~c.httpOnly
                                      /\ d.sandboxed \/ DomainMatches(c, d.url.host)}
           r == Retain(store, S)
<1>1. DocumentCookies(d) = r
  BY DEF DocumentCookies
<1> SUFFICES ASSUME NEW c PROVE c \in ToSet(r) <=> c \in S
  BY <1>1
<1>2. store \in Seq(Cookie) /\ S \subseteq ToSet(store)
  OBVIOUS
<1> HIDE DEF S, store
<1>3. /\ r \in Seq(Cookie)
      /\ \A j \in 1..Len(r) : r[j] \in S
      /\ \A i \in 1..Len(store) : store[i] \in S => \E j \in 1..Len(r) : r[j] = store[i]
  BY <1>2, RetainFacts
<1>4. DOMAIN r = 1..Len(r) /\ DOMAIN store = 1..Len(store)
  BY <1>2, <1>3, SeqElements
<1> HIDE DEF r
<1> QED
  BY <1>2, <1>3, <1>4 DEF ToSet

-----------------------------------------------------------------------------
(***************************************************************************)
(* The jar against the history of its writes.                              *)
(***************************************************************************)

Owners == Hosts \cup {"document.jar.invalid"}
Writing == [top : Sites, site : Sites, host : Owners, cookie : Cookie, live : BOOLEAN]

\* The k-th write was followed by another to its identity in its partition.
Replaced(wr, k) ==
  \E j \in k + 1..Len(wr) :
    /\ wr[j].top = wr[k].top /\ wr[j].site = wr[k].site
    /\ Identity(wr[j].cookie) = Identity(wr[k].cookie)

Lasting(wr, p) ==
  {wr[k].cookie : k \in {n \in DOMAIN wr : /\ <<wr[n].site, wr[n].top>> = p
                                           /\ wr[n].live /\ ~Replaced(wr, n)}}

WrittenKnown ==
  /\ written \in Seq(Writing) /\ Len(written) <= MaxWrites
  /\ \A k \in DOMAIN written :
       /\ written[k].cookie.value = k
       /\ written[k].cookie.hostOnly => written[k].host = written[k].cookie.domain

JarKnown ==
  /\ jar \in [Partitions -> Seq(Cookie)]
  /\ \A p \in Sites \X Sites : Apart(jar[p]) /\ ToSet(jar[p]) = Lasting(written, p)

LEMMA SitesKnown ==
  /\ \A u \in Urls : SiteOf(u) \in Sites /\ u # Malformed /\ SiteOf(u) = <<u.secure, SiteDomain[u.host]>>
  /\ SiteOf(Malformed) = NoSite /\ NoSite \notin Sites /\ Browser \notin Sites
  /\ \A top, site \in Sites : PartitionKey(top, site) = <<site, top>> /\ <<site, top>> \in Partitions
  /\ Sites \X Sites \subseteq Partitions
<1>1. \A u \in Urls : SiteOf(u) \in Sites /\ u # Malformed /\ SiteOf(u) = <<u.secure, SiteDomain[u.host]>>
  BY AddressAssumption DEF Sites, SiteOf
<1>2. \A s \in Sites : \E u \in Urls : s = SiteOf(u)
  BY DEF Sites
<1>3. NoSite \notin Sites /\ Browser \notin Sites
  BY <1>1, <1>2 DEF NoSite, Browser
<1>4. SiteOf(Malformed) = NoSite
  BY DEF SiteOf
<1>5. \A top, site \in Sites : PartitionKey(top, site) = <<site, top>> /\ <<site, top>> \in Partitions
  BY <1>3 DEF PartitionKey, Partitions
<1> QED
  BY <1>1, <1>3, <1>4, <1>5 DEF Partitions

LEMMA LastingAppend ==
  ASSUME NEW wr \in Seq(Writing), NEW w \in Writing, NEW p
  PROVE  \A c : c \in Lasting(Append(wr, w), p) <=>
           IF <<w.site, w.top>> = p
           THEN \/ c \in Lasting(wr, p) /\ Identity(c) # Identity(w.cookie)
                \/ c = w.cookie /\ w.live
           ELSE c \in Lasting(wr, p)
<1> DEFINE n == Len(wr)
           q == Append(wr, w)
           At(s, k) == <<s[k].site, s[k].top>>
<1>1. /\ q \in Seq(Writing) /\ n \in Nat /\ DOMAIN wr = 1..n /\ DOMAIN q = 1..(n + 1)
      /\ Len(q) = n + 1 /\ q[n + 1] = w /\ \A k \in 1..n : q[k] = wr[k]
  BY AppendElements
<1> HIDE DEF q, n, Identity
<1>2. ~Replaced(q, n + 1)
  BY <1>1 DEF Replaced
<1>3. ASSUME NEW k \in 1..n
      PROVE  Replaced(q, k) <=> \/ Replaced(wr, k)
                                \/ At(wr, k) = <<w.site, w.top>> /\ Identity(w.cookie) = Identity(wr[k].cookie)
  <2>1. ASSUME Replaced(q, k)
        PROVE  \/ Replaced(wr, k)
               \/ At(wr, k) = <<w.site, w.top>> /\ Identity(w.cookie) = Identity(wr[k].cookie)
    <3>1. PICK j \in k + 1..(n + 1) : /\ q[j].top = wr[k].top /\ q[j].site = wr[k].site
                                      /\ Identity(q[j].cookie) = Identity(wr[k].cookie)
      BY <1>1, <2>1 DEF Replaced
    <3>2. CASE j = n + 1
      BY <1>1, <3>1, <3>2
    <3>3. CASE j # n + 1
      <4>1. j \in k + 1..n /\ j \in 1..n
        BY <1>1, <3>3
      <4>2. Replaced(wr, k)
        BY <1>1, <3>1, <4>1 DEF Replaced, n
      <4> QED
        BY <4>2
    <3> QED
      BY <3>2, <3>3
  <2>2. ASSUME Replaced(wr, k) PROVE Replaced(q, k)
    <3>1. PICK j \in k + 1..n : /\ wr[j].top = wr[k].top /\ wr[j].site = wr[k].site
                                /\ Identity(wr[j].cookie) = Identity(wr[k].cookie)
      BY <2>2 DEF Replaced, n
    <3>2. j \in 1..n /\ j \in k + 1..(n + 1)
      BY <1>1
    <3> QED
      BY <1>1, <3>1, <3>2 DEF Replaced
  <2>3. ASSUME At(wr, k) = <<w.site, w.top>>, Identity(w.cookie) = Identity(wr[k].cookie)
        PROVE  Replaced(q, k)
    <3>1. n + 1 \in k + 1..(n + 1) /\ wr[k].site = w.site /\ wr[k].top = w.top
      BY <1>1, <2>3
    <3> QED
      BY <1>1, <2>3, <3>1 DEF Replaced
  <2> QED
    BY <2>1, <2>2, <2>3
<1>4. \A c : c \in Lasting(wr, p) <=>
        \E k \in 1..n : At(wr, k) = p /\ wr[k].live /\ ~Replaced(wr, k) /\ c = wr[k].cookie
  BY <1>1 DEF Lasting
<1>5. \A c : c \in Lasting(q, p) <=>
        \E k \in 1..(n + 1) : At(q, k) = p /\ q[k].live /\ ~Replaced(q, k) /\ c = q[k].cookie
  BY <1>1 DEF Lasting
<1>6. \A c : c \in Lasting(q, p) <=>
        \/ \E k \in 1..n : At(wr, k) = p /\ wr[k].live /\ ~Replaced(q, k) /\ c = wr[k].cookie
        \/ <<w.site, w.top>> = p /\ w.live /\ c = w.cookie
  <2>1. 1..(n + 1) = (1..n) \cup {n + 1}
    BY <1>1
  <2>2. \A k \in 1..n : At(q, k) = At(wr, k)
    BY <1>1
  <2>3. At(q, n + 1) = <<w.site, w.top>>
    BY <1>1
  <2> HIDE DEF At
  <2> QED
    BY <1>1, <1>2, <1>5, <2>1, <2>2, <2>3
<1> HIDE DEF At
<1>7. CASE <<w.site, w.top>> = p
  <2>1. \A c : c \in Lasting(q, p) <=>
          \/ c \in Lasting(wr, p) /\ Identity(c) # Identity(w.cookie)
          \/ c = w.cookie /\ w.live
    BY <1>3, <1>4, <1>6, <1>7
  <2> QED
    BY <1>7, <2>1 DEF q
<1>8. CASE <<w.site, w.top>> # p
  <2>1. \A c : c \in Lasting(q, p) <=> c \in Lasting(wr, p)
    BY <1>3, <1>4, <1>6, <1>8
  <2> QED
    BY <1>8, <2>1 DEF q
<1> QED
  BY <1>7, <1>8

\* A cookie in the store of a partition was written under that partition, by
\* the write its value numbers.
LEMMA JarFrom ==
  ASSUME WrittenKnown, JarKnown, NEW top \in Sites, NEW site \in Sites,
         NEW c \in ToSet(jar[PartitionKey(top, site)])
  PROVE  /\ c \in Cookie /\ c.value \in DOMAIN written
         /\ written[c.value].top = top /\ written[c.value].site = site
         /\ c.hostOnly => written[c.value].host = c.domain
<1>1. PartitionKey(top, site) = <<site, top>> /\ <<site, top>> \in Sites \X Sites
  BY SitesKnown
<1>2. c \in Lasting(written, <<site, top>>)
  BY <1>1 DEF JarKnown
<1>3. PICK k \in DOMAIN written : <<written[k].site, written[k].top>> = <<site, top>> /\ c = written[k].cookie
  BY <1>2 DEF Lasting
<1>4. written[k] \in Writing
  BY SeqElements, Zenon DEF WrittenKnown
<1>5. written[k].cookie.value = k /\ (written[k].cookie.hostOnly => written[k].host = written[k].cookie.domain)
  BY DEF WrittenKnown
<1>6. written[k].cookie \in Cookie
  BY <1>4 DEF Writing
<1> QED
  BY <1>3, <1>5, <1>6

LEMMA WriteKeeps ==
  ASSUME WrittenKnown, JarKnown, clock \in 1..MaxClock,
         NEW top \in Sites, NEW site \in Sites, NEW host \in Owners, NEW header \in SetCookies,
         Write(top, site, host, header)
  PROVE  /\ WrittenKnown' /\ JarKnown'
         /\ \A k \in DOMAIN written : k \in DOMAIN written' /\ written'[k] = written[k]
<1> DEFINE n == Len(written)
           cookie == Parsed(header, host, n + 1)
           p == PartitionKey(top, site)
           w == [top |-> top, site |-> site, host |-> host, cookie |-> cookie,
                 live |-> ~IsExpired(cookie)]
<1>1. /\ n < MaxWrites /\ jar' = [jar EXCEPT ![p] = Applied(@, cookie)]
      /\ written' = Append(written, w)
  BY DEF Write
<1>2. written \in Seq(Writing) /\ n \in Nat /\ DOMAIN written = 1..n /\ MaxWrites \in Nat
  BY SeqElements, ClientAssumption DEF WrittenKnown
<1>3. cookie \in Cookie /\ cookie.value = n + 1 /\ (cookie.hostOnly => host = cookie.domain)
  <2>1. header \in [name : STRING, domain : Hosts \cup {""}, path : Seq(STRING),
                    maxAge : SUBSET Nat, expires : SUBSET Nat, secure : BOOLEAN,
                    httpOnly : BOOLEAN, sameSite : {"strict", "lax", "none"}]
    BY AddressAssumption
  <2>2. header.name \in {h.name : h \in SetCookies} /\ header.path \in {h.path : h \in SetCookies}
    OBVIOUS
  <2>3. (IF header.domain = "" THEN host ELSE header.domain) \in Owners
    BY <2>1 DEF Owners
  <2>4. (IF header.maxAge = {} THEN header.expires
         ELSE {IF age = 0 THEN 0 ELSE clock + age : age \in header.maxAge}) \in SUBSET Nat
    <3>c. clock \in Nat
      BY ClientAssumption
    <3>h. header.maxAge \in SUBSET Nat /\ header.expires \in SUBSET Nat
      BY <2>1
    <3>1. clock \in Nat /\ header.maxAge \in SUBSET Nat /\ header.expires \in SUBSET Nat
      BY <3>c, <3>h
    <3>2. ASSUME NEW age \in header.maxAge PROVE (IF age = 0 THEN 0 ELSE clock + age) \in Nat
      BY <3>1
    <3> QED
      BY <3>1, <3>2
  <2>5. n + 1 \in 1..MaxWrites
    BY <1>1, <1>2
  <2>6. /\ header.secure \in BOOLEAN /\ header.httpOnly \in BOOLEAN
        /\ header.sameSite \in {"strict", "lax", "none"}
    BY <2>1
  <2> DEFINE expires == IF header.maxAge = {} THEN header.expires
                        ELSE {IF age = 0 THEN 0 ELSE clock + age : age \in header.maxAge}
             domain == IF header.domain = "" THEN host ELSE header.domain
             hostOnly == header.domain = ""
  <2>7. cookie = [name |-> header.name, value |-> n + 1, domain |-> domain,
                  hostOnly |-> hostOnly, path |-> header.path, expires |-> expires,
                  secure |-> header.secure, httpOnly |-> header.httpOnly,
                  sameSite |-> header.sameSite]
    BY DEF Parsed
  <2>8. hostOnly \in BOOLEAN /\ (hostOnly => host = domain)
    OBVIOUS
  <2>9. expires \in SUBSET Nat /\ domain \in Owners
    BY <2>3, <2>4
  <2> HIDE DEF expires, domain, hostOnly, n, cookie
  <2> QED
    BY <2>2, <2>5, <2>6, <2>7, <2>8, <2>9 DEF Cookie, Owners
<1>4. w \in Writing
  BY <1>3 DEF Writing
<1> HIDE DEF n, cookie
<1>5. /\ written' \in Seq(Writing) /\ DOMAIN written' = 1..(n + 1) /\ Len(written') = n + 1
      /\ written'[n + 1] = w
      /\ \A k \in 1..n : k \in DOMAIN written' /\ written'[k] = written[k]
  <2> HIDE DEF w
  <2> QED
    BY <1>1, <1>2, <1>4, AppendElements, SeqElements DEF n
<1>6. WrittenKnown'
  <2>1. ASSUME NEW k \in DOMAIN written'
        PROVE  /\ written'[k].cookie.value = k
               /\ written'[k].cookie.hostOnly => written'[k].host = written'[k].cookie.domain
    <3>1. CASE k = n + 1
      BY <1>3, <1>5, <3>1
    <3>2. CASE k \in 1..n
      BY <1>2, <1>5, <3>2 DEF WrittenKnown
    <3> QED
      BY <1>2, <1>5, <3>1, <3>2
  <2>2. Len(written') <= MaxWrites
    BY <1>1, <1>2, <1>5
  <2> QED
    BY <1>5, <2>1, <2>2 DEF WrittenKnown
<1>7. p = <<site, top>> /\ p \in Sites \X Sites /\ p \in Partitions /\ Sites \X Sites \subseteq Partitions
  <2> HIDE DEF w
  <2>1. PartitionKey(top, site) = <<site, top>> /\ <<site, top>> \in Partitions
    BY SitesKnown
  <2>2. Sites \X Sites \subseteq Partitions /\ <<site, top>> \in Sites \X Sites
    BY SitesKnown
  <2> QED
    BY <2>1, <2>2
<1>8. jar[p] \in Seq(Cookie) /\ Apart(jar[p]) /\ ToSet(jar[p]) = Lasting(written, p)
  BY <1>7 DEF JarKnown
<1> HIDE DEF p
<1>9. /\ Applied(jar[p], cookie) \in Seq(Cookie) /\ Apart(Applied(jar[p], cookie))
      /\ \A c : c \in ToSet(Applied(jar[p], cookie)) <=>
              \/ c \in ToSet(jar[p]) /\ Identity(c) # Identity(cookie)
              \/ c = cookie /\ ~IsExpired(cookie)
  BY <1>3, <1>8, AppliedFacts
<1>10. /\ jar' \in [Partitions -> Seq(Cookie)] /\ jar'[p] = Applied(jar[p], cookie)
       /\ \A q \in Partitions : q # p => jar'[q] = jar[q]
  BY <1>1, <1>7, <1>9 DEF JarKnown
<1>11. ASSUME NEW q \in Sites \X Sites
       PROVE  Apart(jar'[q]) /\ ToSet(jar'[q]) = Lasting(written', q)
  <2>0. /\ w.site = site /\ w.top = top /\ w.cookie = cookie /\ w.live = ~IsExpired(cookie)
    OBVIOUS
  <2>1. \A c : c \in Lasting(written', q) <=>
           IF p = q
           THEN \/ c \in Lasting(written, q) /\ Identity(c) # Identity(cookie)
                \/ c = cookie /\ ~IsExpired(cookie)
           ELSE c \in Lasting(written, q)
    <3>1. \A c : c \in Lasting(Append(written, w), q) <=>
           IF <<w.site, w.top>> = q
           THEN \/ c \in Lasting(written, q) /\ Identity(c) # Identity(w.cookie)
                \/ c = w.cookie /\ w.live
           ELSE c \in Lasting(written, q)
      BY <1>2, <1>4, LastingAppend
    <3> QED
      BY <1>1, <1>7, <2>0, <3>1
  <2>2. CASE q = p
    BY <1>8, <1>9, <1>10, <2>1, <2>2
  <2>3. CASE q # p
    <3>1. jar'[q] = jar[q] /\ Apart(jar[q]) /\ ToSet(jar[q]) = Lasting(written, q)
      BY <1>7, <1>10, <2>3 DEF JarKnown
    <3> QED
      BY <2>1, <2>3, <3>1
  <2> QED
    BY <2>2, <2>3
<1>12. JarKnown'
  BY <1>10, <1>11 DEF JarKnown
<1> QED
  BY <1>2, <1>5, <1>6, <1>12

-----------------------------------------------------------------------------
(***************************************************************************)
(* What a fetch is in each of its phases.                                  *)
(***************************************************************************)

Addresses == Urls \cup {Malformed}

Origins == {OriginOf(u) : u \in Urls} \cup {NoOrigin}

Clients == [cookies : BOOLEAN, top : Sites \cup {NoSite},
            cookieOrigin : Origins, requestOrigin : Origins]

Contexts == {"subresource", "sameSite", "crossTopLevel", "crossSubresource", "unknown"}

FetchRec ==
  [phase : {"idle", "prepare", "streams", "ask", "wait", "done"}, client : Clients,
   context : Contexts, urls : Seq(Addresses), todo : Seq(Nat), k : Nat \ {0}, h2 : BOOLEAN,
   url : Addresses, redirects : 0..MaxRedirects, results : Seq(Nat), chain : Nat, asked : Nat,
   sent : [url : Addresses, cookies : Seq(Cookie)],
   from : [initiator : Sites \cup {Browser}, safe : BOOLEAN]]

\* Every answer is there, or its request stands in todo at a position from at on.
Awaited(r, at) ==
  \A i \in DOMAIN r.results :
    \/ r.results[i] = i
    \/ r.results[i] = 0 /\ \E j \in DOMAIN r.todo : at <= j /\ r.todo[j] = i

\* What stays as it was when a fetch began: a client without a top-level site
\* has no address to ask at, and only addresses that parse go over HTTP/2.
Plan(r) ==
  /\ r \in FetchRec /\ DOMAIN r.results = DOMAIN r.urls
  /\ \A j \in DOMAIN r.todo : r.todo[j] \in DOMAIN r.urls
  /\ r.context # "subresource" =>
       r.context = NavigationContext(r.from.initiator, SiteOf(r.urls[1]), r.from.safe)
  /\ r.h2 => \A j \in DOMAIN r.todo : r.urls[r.todo[j]] # Malformed
  /\ r.client.top = NoSite => ~r.h2 /\ \A j \in DOMAIN r.todo : r.urls[r.todo[j]] = Malformed

Busy(r) == r.phase \in {"prepare", "streams", "ask", "wait"}

Underway(r) ==
  /\ Plan(r) /\ r.k \in DOMAIN r.todo
  /\ r.phase \in {"prepare", "streams"} =>
       r.context = "subresource" /\ r.asked = 0 /\ r.h2 /\ Awaited(r, 1)
  /\ r.phase = "streams" => r.k = 1
  /\ r.phase \in {"ask", "wait"} => Awaited(r, r.k) /\ r.chain = r.todo[r.k]
  /\ r.phase = "ask" => r.asked <= r.redirects /\ (r.client.top = NoSite => r.url = Malformed)
  /\ r.phase = "wait" =>
       r.asked <= r.redirects + 1 /\ r.client.top # NoSite /\ r.url # Malformed

FetchOK(r) ==
  /\ r \in FetchRec
  /\ Busy(r) => Underway(r)
  /\ ~Busy(r) => /\ r.sent = NothingSent /\ r.asked = 0
                 /\ \A i \in DOMAIN r.results : r.results[i] = i

\* A cookie c that w wrote may go with the request r sent last.
Allowed(r, c, w) ==
  LET site == SiteOf(r.sent.url) IN
  /\ w.site = site /\ w.top = r.client.top
  /\ c.hostOnly => w.host = r.sent.url.host
  /\ r.client.cookies
  /\ r.client.cookieOrigin # NoOrigin => r.client.cookieOrigin = OriginOf(r.sent.url)
  /\ r.context = "subresource" /\ site # r.client.top => c.sameSite = "none"
  /\ (/\ r.context # "subresource" /\ site = SiteOf(r.urls[1])
      /\ r.from.initiator \notin {Browser, site}) =>
       /\ c.sameSite # "strict"
       /\ ~r.from.safe => c.sameSite = "none"

Carries(r, wr) ==
  \A c \in ToSet(r.sent.cookies) : c.value \in DOMAIN wr /\ Allowed(r, c, wr[c.value])

\* n sent what r sent, for the same reason.
SameSent(n, r) ==
  /\ n.sent = r.sent /\ n.client = r.client /\ n.context = r.context
  /\ n.urls = r.urls /\ n.from = r.from

LEMMA NothingCarried ==
  ASSUME NEW r, r.sent = NothingSent, NEW wr PROVE Carries(r, wr)
<1>1. ToSet(NothingSent.cookies) = {}
  BY DEF NothingSent, ToSet
<1> QED
  BY <1>1 DEF Carries

LEMMA CarriesStays ==
  ASSUME NEW r, NEW n, NEW wr, NEW more, Carries(r, wr), SameSent(n, r),
         \A k \in DOMAIN wr : k \in DOMAIN more /\ more[k] = wr[k]
  PROVE  Carries(n, more)
<1> SUFFICES ASSUME NEW c \in ToSet(n.sent.cookies)
             PROVE  c.value \in DOMAIN more /\ Allowed(n, c, more[c.value])
  BY DEF Carries
<1>1. /\ n.sent = r.sent /\ n.client = r.client /\ n.context = r.context
      /\ n.urls = r.urls /\ n.from = r.from
  BY DEF SameSent
<1>2. c.value \in DOMAIN wr /\ Allowed(r, c, wr[c.value])
  BY <1>1 DEF Carries
<1>3. c.value \in DOMAIN more /\ more[c.value] = wr[c.value]
  BY <1>2
<1> QED
  BY <1>1, <1>2, <1>3 DEF Allowed

LEMMA NoFetchKnown == NoFetch \in FetchRec /\ FetchOK(NoFetch)
<1>1. ClientUnder(NoSite) \in Clients
  BY DEF ClientUnder, Clients, Origins
<1>2. NothingSent \in [url : Addresses, cookies : Seq(Cookie)]
  BY DEF NothingSent, Addresses
<1>3. NoFetch.from \in [initiator : Sites \cup {Browser}, safe : BOOLEAN]
  BY DEF NoFetch
<1>4. 0 \in 0..MaxRedirects
  BY ClientAssumption
<1>5. << >> \in Seq(Addresses) /\ << >> \in Seq(Nat)
  OBVIOUS
<1>6. NoFetch \in FetchRec
  BY <1>1, <1>2, <1>3, <1>4, <1>5 DEF NoFetch, FetchRec, Contexts, Addresses
<1>7. NoFetch.phase = "idle" /\ NoFetch.sent = NothingSent /\ NoFetch.asked = 0 /\ NoFetch.results = << >>
  BY DEF NoFetch
<1> QED
  BY <1>6, <1>7 DEF FetchOK, Busy

LEMMA AtPositionOK ==
  ASSUME NEW r, Plan(r), Awaited(r, r.k)
  PROVE  /\ FetchOK(AtPosition(r))
         /\ AtPosition(r).sent = NothingSent \/ SameSent(AtPosition(r), r)
<1> DEFINE n == AtPosition(r)
<1>1. /\ r \in FetchRec /\ DOMAIN r.results = DOMAIN r.urls /\ r.k \in Nat \ {0}
      /\ r.urls \in Seq(Addresses) /\ r.todo \in Seq(Nat) /\ r.results \in Seq(Nat)
      /\ DOMAIN r.todo = 1..Len(r.todo) /\ Len(r.todo) \in Nat
  BY SeqElements DEF Plan, FetchRec
<1>2. CASE r.k > Len(r.todo)
  <2>1. n = [NoFetch EXCEPT !.phase = "done", !.results = r.results]
    BY <1>2 DEF AtPosition
  <2>2. n \in FetchRec /\ n.phase = "done" /\ n.sent = NothingSent /\ n.asked = 0 /\ n.results = r.results
    <3>1. NoFetch.sent = NothingSent /\ NoFetch.asked = 0
      BY DEF NoFetch
    <3>2. NoFetch \in FetchRec
      BY NoFetchKnown
    <3> HIDE DEF n
    <3> QED
      BY <1>1, <2>1, <3>1, <3>2 DEF FetchRec
  <2>3. \A i \in DOMAIN r.results : r.results[i] = i
    BY <1>1, <1>2 DEF Awaited
  <2> HIDE DEF n
  <2>4. FetchOK(n)
    BY <2>2, <2>3 DEF FetchOK, Busy
  <2> QED
    BY <2>2, <2>4 DEF n
<1>3. CASE ~(r.k > Len(r.todo))
  <2> DEFINE i == r.todo[r.k]
  <2>1. r.k \in DOMAIN r.todo
    BY <1>1, <1>3
  <2>2. i \in Nat /\ i \in DOMAIN r.urls /\ r.urls[i] \in Addresses
    BY <1>1, <2>1, SeqElements DEF Plan
  <2>3. n = [r EXCEPT !.phase = IF r.h2 THEN "wait" ELSE "ask", !.url = r.urls[i], !.redirects = 0,
                      !.chain = i, !.asked = IF r.h2 THEN 1 ELSE 0]
    BY <1>3 DEF AtPosition
  <2>4. 0 \in 0..MaxRedirects
    BY ClientAssumption
  <2>d. /\ r.h2 => r.urls[i] # Malformed /\ r.client.top # NoSite
        /\ r.client.top = NoSite => r.urls[i] = Malformed
    BY <2>1 DEF Plan
  <2> HIDE DEF i, n
  <2>5. /\ n \in FetchRec /\ n.phase = (IF r.h2 THEN "wait" ELSE "ask") /\ n.url = r.urls[i]
        /\ n.redirects = 0 /\ n.chain = i /\ n.asked = (IF r.h2 THEN 1 ELSE 0)
        /\ n.client = r.client /\ n.context = r.context /\ n.urls = r.urls /\ n.todo = r.todo
        /\ n.k = r.k /\ n.h2 = r.h2 /\ n.results = r.results /\ n.sent = r.sent /\ n.from = r.from
    BY <1>1, <2>2, <2>3, <2>4 DEF FetchRec
  <2>6. Plan(n)
    BY <2>5 DEF Plan
  <2>7. Awaited(n, n.k)
    BY <2>5 DEF Awaited
  <2>8. Underway(n)
    <3>1. n.phase \in {"ask", "wait"} /\ n.chain = n.todo[n.k] /\ n.k \in DOMAIN n.todo
      BY <2>1, <2>5 DEF i
    <3>2. n.phase = "ask" => n.asked <= n.redirects /\ (n.client.top = NoSite => n.url = Malformed)
      BY <2>5, <2>d
    <3>3. n.phase = "wait" =>
            n.asked <= n.redirects + 1 /\ n.client.top # NoSite /\ n.url # Malformed
      BY <2>5, <2>d
    <3> QED
      BY <2>6, <2>7, <3>1, <3>2, <3>3 DEF Underway
  <2>9. FetchOK(n)
    BY <2>5, <2>8 DEF FetchOK, Busy
  <2>10. SameSent(n, r)
    BY <2>5 DEF SameSent
  <2> QED
    BY <2>9, <2>10 DEF n
<1> QED
  BY <1>1, <1>2, <1>3

LEMMA PlacedOK ==
  ASSUME NEW r, FetchOK(r), r.phase \in {"ask", "wait"}
  PROVE  /\ FetchOK(Placed(r))
         /\ Placed(r).sent = NothingSent \/ SameSent(Placed(r), r)
<1> DEFINE i == r.todo[r.k]
           n == [r EXCEPT !.results[i] = r.chain, !.k = @ + 1]
<1>1. /\ Plan(r) /\ r.k \in DOMAIN r.todo /\ Awaited(r, r.k) /\ r.chain = i
  BY DEF FetchOK, Busy, Underway
<1>2. /\ r \in FetchRec /\ r.todo \in Seq(Nat) /\ r.results \in Seq(Nat) /\ r.k \in Nat \ {0}
      /\ DOMAIN r.todo = 1..Len(r.todo) /\ Len(r.todo) \in Nat
      /\ DOMAIN r.results = DOMAIN r.urls /\ i \in DOMAIN r.urls /\ i \in Nat
  BY <1>1, SeqElements DEF Plan, FetchRec
<1>3. Placed(r) = AtPosition(n)
  BY DEF Placed
<1> HIDE DEF i
<1>4. [r.results EXCEPT ![i] = i] \in Seq(Nat) /\ DOMAIN [r.results EXCEPT ![i] = i] = DOMAIN r.results
  BY <1>2
<1>n. n = [r EXCEPT !.results = [r.results EXCEPT ![i] = i], !.k = r.k + 1]
  BY <1>1, <1>2 DEF FetchRec
<1> HIDE DEF n
<1>5. /\ n \in FetchRec /\ n.results = [r.results EXCEPT ![i] = i] /\ n.k = r.k + 1
      /\ n.client = r.client /\ n.context = r.context /\ n.urls = r.urls /\ n.todo = r.todo
      /\ n.h2 = r.h2 /\ n.sent = r.sent /\ n.from = r.from
  <2> DEFINE s == [r.results EXCEPT ![i] = i]
  <2> HIDE DEF s
  <2>1. s \in Seq(Nat) /\ r.k + 1 \in Nat \ {0}
    BY <1>2, <1>4 DEF s
  <2>2. n = [r EXCEPT !.results = s, !.k = r.k + 1]
    BY <1>n DEF s
  <2>3. /\ n \in FetchRec /\ n.results = s /\ n.k = r.k + 1
        /\ n.client = r.client /\ n.context = r.context /\ n.urls = r.urls /\ n.todo = r.todo
        /\ n.h2 = r.h2 /\ n.sent = r.sent /\ n.from = r.from
    BY <1>2, <2>1, <2>2 DEF FetchRec
  <2> QED
    BY <2>3 DEF s
<1>6. Plan(n)
  BY <1>1, <1>4, <1>5 DEF Plan
<1>7. Awaited(n, n.k)
  <2> SUFFICES ASSUME NEW j \in DOMAIN r.results
               PROVE  \/ n.results[j] = j
                      \/ n.results[j] = 0 /\ \E l \in DOMAIN r.todo : r.k + 1 <= l /\ r.todo[l] = j
    BY <1>4, <1>5 DEF Awaited
  <2>1. CASE j = i
    BY <1>5, <2>1
  <2>2. CASE j # i
    <3>1. n.results[j] = r.results[j]
      BY <1>5, <2>2
    <3>2. CASE r.results[j] = 0 /\ \E l \in DOMAIN r.todo : r.k <= l /\ r.todo[l] = j
      <4>1. PICK l \in DOMAIN r.todo : r.k <= l /\ r.todo[l] = j
        BY <3>2
      <4>2. l # r.k
        BY <2>2, <4>1 DEF i
      <4>3. r.k + 1 <= l
        BY <1>2, <4>1, <4>2
      <4> QED
        BY <3>1, <3>2, <4>1, <4>3
    <3> QED
      BY <1>1, <3>1, <3>2 DEF Awaited
  <2> QED
    BY <2>1, <2>2
<1>8. FetchOK(AtPosition(n)) /\ (AtPosition(n).sent = NothingSent \/ SameSent(AtPosition(n), n))
  BY <1>6, <1>7, AtPositionOK
<1> QED
  BY <1>3, <1>5, <1>8 DEF SameSent

-----------------------------------------------------------------------------
(***************************************************************************)
(* What it sends, and the invariant.                                       *)
(***************************************************************************)

\* What a request of a client carries was written for the site of its address
\* under the client's top-level site, and goes where its SameSite lets it.
LEMMA RequestFacts ==
  ASSUME WrittenKnown, JarKnown, NEW client, client.top \in Sites, NEW u \in Urls, NEW context
  PROVE  LET cookies == RequestCookies(client, u, context) IN
         /\ cookies \in Seq(Cookie)
         /\ \A c \in ToSet(cookies) :
              /\ c \in Cookie /\ c.value \in DOMAIN written
              /\ written[c.value].site = SiteOf(u) /\ written[c.value].top = client.top
              /\ c.hostOnly => written[c.value].host = u.host
              /\ PermitsCookies(client, u)
              /\ SameSiteAllows(c.sameSite,
                   IF context = "subresource"
                   THEN SubresourceContext(client.top, SiteOf(u)) ELSE context)
<1> DEFINE cookies == RequestCookies(client, u, context)
           posture == IF context = "subresource"
                      THEN SubresourceContext(client.top, SiteOf(u)) ELSE context
           store == jar[PartitionKey(client.top, SiteOf(u))]
<1>1. SiteOf(u) \in Sites
  BY SitesKnown
<1>2. store \in Seq(Cookie)
  <2>1. PartitionKey(client.top, SiteOf(u)) \in Partitions
    BY <1>1, SitesKnown
  <2> QED
    BY <2>1 DEF JarKnown
<1>3. CASE ~PermitsCookies(client, u)
  <2>1. cookies = << >> /\ ToSet(<< >>) = {}
    BY <1>3 DEF RequestCookies, ToSet
  <2>2. cookies \in Seq(Cookie)
    BY <2>1
  <2> HIDE DEF cookies
  <2> QED
    BY <2>1, <2>2 DEF cookies
<1>4. CASE PermitsCookies(client, u)
  <2>1. cookies = CookieHeader(store, u, posture)
    BY <1>4 DEF RequestCookies
  <2> HIDE DEF cookies, posture
  <2>2. /\ cookies \in Seq(Cookie)
        /\ \A c : c \in ToSet(cookies) <=> c \in ToSet(store) /\ Fitting(c, u, posture)
    BY <1>2, <2>1, HeaderFacts
  <2>3. ASSUME NEW c \in ToSet(cookies)
        PROVE  /\ c \in Cookie /\ c.value \in DOMAIN written
               /\ written[c.value].site = SiteOf(u) /\ written[c.value].top = client.top
               /\ c.hostOnly => written[c.value].host = u.host
               /\ SameSiteAllows(c.sameSite, posture)
    <3>1. c \in ToSet(store) /\ Fitting(c, u, posture)
      BY <2>2
    <3>2. /\ c \in Cookie /\ c.value \in DOMAIN written
          /\ written[c.value].top = client.top /\ written[c.value].site = SiteOf(u)
          /\ c.hostOnly => written[c.value].host = c.domain
      BY <1>1, <3>1, JarFrom
    <3>3. c.hostOnly => u.host = c.domain
      BY <3>1 DEF Fitting, DomainMatches
    <3> QED
      BY <3>1, <3>2, <3>3 DEF Fitting
  <2> QED
    BY <1>4, <2>2, <2>3 DEF cookies, posture
<1> QED
  BY <1>3, <1>4

LEMMA SentCarries ==
  ASSUME WrittenKnown, JarKnown, NEW r \in FetchRec, r.client.top \in Sites, NEW u \in Urls,
         r.context # "subresource" =>
           r.context = NavigationContext(r.from.initiator, SiteOf(r.urls[1]), r.from.safe),
         NEW n, n.sent = [url |-> u, cookies |-> RequestCookies(r.client, u, r.context)],
         n.client = r.client, n.context = r.context, n.urls = r.urls, n.from = r.from
  PROVE  /\ n.sent \in [url : Addresses, cookies : Seq(Cookie)]
         /\ Carries(n, written)
<1>1. n.sent.url = u /\ n.sent.cookies = RequestCookies(r.client, u, r.context)
  OBVIOUS
<1>2. /\ n.sent.cookies \in Seq(Cookie)
      /\ \A c \in ToSet(n.sent.cookies) :
           /\ c \in Cookie /\ c.value \in DOMAIN written
           /\ written[c.value].site = SiteOf(u) /\ written[c.value].top = r.client.top
           /\ c.hostOnly => written[c.value].host = u.host
           /\ PermitsCookies(r.client, u)
           /\ SameSiteAllows(c.sameSite,
                IF r.context = "subresource"
                THEN SubresourceContext(r.client.top, SiteOf(u)) ELSE r.context)
  BY <1>1, RequestFacts
<1>3. n.sent \in [url : Addresses, cookies : Seq(Cookie)]
  BY <1>2 DEF Addresses
<1>4. ASSUME NEW c \in ToSet(n.sent.cookies)
      PROVE  c.value \in DOMAIN written /\ Allowed(n, c, written[c.value])
  <2> DEFINE w == written[c.value]
             site == SiteOf(u)
  <2>1. /\ c.value \in DOMAIN written /\ w.site = site /\ w.top = r.client.top
        /\ c.hostOnly => w.host = u.host
    BY <1>2
  <2>2. /\ r.client.cookies
        /\ r.client.cookieOrigin # NoOrigin => r.client.cookieOrigin = OriginOf(u)
    BY <1>2 DEF PermitsCookies
  <2>3. SameSiteAllows(c.sameSite,
          IF r.context = "subresource" THEN SubresourceContext(r.client.top, site) ELSE r.context)
    BY <1>2
  <2>4. site \in Sites /\ site # NoSite /\ r.client.top # NoSite
    BY SitesKnown
  <2>5. r.context = "subresource" /\ site # r.client.top => c.sameSite = "none"
    BY <2>3, <2>4 DEF SubresourceContext, SameSiteAllows
  <2>6. ASSUME r.context # "subresource", site = SiteOf(r.urls[1]),
               r.from.initiator \notin {Browser, site}
        PROVE  c.sameSite # "strict" /\ (~r.from.safe => c.sameSite = "none")
    <3>1. r.context = IF r.from.safe THEN "crossTopLevel" ELSE "crossSubresource"
      BY <2>4, <2>6 DEF NavigationContext
    <3> QED
      BY <2>3, <2>6, <3>1 DEF SameSiteAllows
  <2> HIDE DEF w, site
  <2>7. n.sent.url = u /\ SiteOf(n.sent.url) = site
    BY <1>1 DEF site
  <2>8. Allowed(n, c, w)
    BY <2>1, <2>2, <2>5, <2>6, <2>7 DEF Allowed
  <2> QED
    BY <2>1, <2>8 DEF w
<1> QED
  BY <1>3, <1>4 DEF Carries

\* The clock, the history, the stores and what a fetch may be.
ClientIInv ==
  /\ clock \in 1..MaxClock
  /\ WrittenKnown /\ JarKnown
  /\ fetches \in [Fetchers -> FetchRec]
  /\ \A f \in Fetchers : FetchOK(fetches[f]) /\ Carries(fetches[f], written)

LEMMA ClientStarts == ClientInit => ClientIInv
<1> SUFFICES ASSUME ClientInit PROVE ClientIInv
  OBVIOUS
<1>1. /\ clock = 1 /\ jar = [p \in Partitions |-> << >>] /\ written = << >>
      /\ fetches = [f \in Fetchers |-> NoFetch]
  BY DEF ClientInit
<1>2. clock \in 1..MaxClock
  BY <1>1, ClientAssumption
<1>3. WrittenKnown
  <2>1. written \in Seq(Writing) /\ Len(written) = 0 /\ DOMAIN written = {}
    BY <1>1
  <2> QED
    BY <2>1, ClientAssumption DEF WrittenKnown
<1>4. JarKnown
  <2>1. jar \in [Partitions -> Seq(Cookie)]
    BY <1>1
  <2>2. ASSUME NEW p \in Sites \X Sites PROVE Apart(jar[p]) /\ ToSet(jar[p]) = Lasting(written, p)
    <3>1. jar[p] = << >> /\ DOMAIN jar[p] = {} /\ DOMAIN written = {}
      BY <1>1, SitesKnown
    <3> QED
      BY <3>1 DEF Apart, ToSet, Lasting
  <2> QED
    BY <2>1, <2>2 DEF JarKnown
<1>5. fetches \in [Fetchers -> FetchRec]
  BY <1>1, NoFetchKnown
<1>6. ASSUME NEW f \in Fetchers PROVE FetchOK(fetches[f]) /\ Carries(fetches[f], written)
  <2>1. fetches[f] = NoFetch /\ NoFetch.sent = NothingSent
    BY <1>1 DEF NoFetch
  <2> QED
    BY <2>1, NoFetchKnown, NothingCarried
<1> QED
  BY <1>2, <1>3, <1>4, <1>5, <1>6 DEF ClientIInv

\* A fetch moves on to n; the history may have grown.
LEMMA FetchMoves ==
  ASSUME ClientIInv, NEW f \in Fetchers, NEW n, fetches' = [fetches EXCEPT ![f] = n],
         FetchOK(n), Carries(n, written'), clock' = clock, WrittenKnown', JarKnown',
         \A k \in DOMAIN written : k \in DOMAIN written' /\ written'[k] = written[k]
  PROVE  ClientIInv'
<1>1. clock' \in 1..MaxClock /\ n \in FetchRec
  BY DEF ClientIInv, FetchOK
<1>2. fetches' \in [Fetchers -> FetchRec]
  BY <1>1 DEF ClientIInv
<1>3. ASSUME NEW g \in Fetchers PROVE FetchOK(fetches'[g]) /\ Carries(fetches'[g], written')
  <2>1. CASE g = f
    <3>1. fetches'[g] = n
      BY <2>1 DEF ClientIInv
    <3> QED
      BY <3>1
  <2>2. CASE g # f
    <3>1. fetches'[g] = fetches[g] /\ FetchOK(fetches[g]) /\ Carries(fetches[g], written)
      BY <2>2 DEF ClientIInv
    <3>2. SameSent(fetches[g], fetches[g])
      BY DEF SameSent
    <3>3. Carries(fetches[g], written')
      BY <3>1, <3>2, CarriesStays
    <3> QED
      BY <3>1, <3>3
  <2> QED
    BY <2>1, <2>2
<1> QED
  BY <1>1, <1>2, <1>3 DEF ClientIInv

\* A fetch moves on alone.
LEMMA FetchMovesAlone ==
  ASSUME ClientIInv, NEW f \in Fetchers, NEW n, fetches' = [fetches EXCEPT ![f] = n],
         FetchOK(n), Carries(n, written), UNCHANGED <<clock, jar, written>>
  PROVE  ClientIInv'
<1>1. WrittenKnown' /\ JarKnown' /\ clock' = clock /\ written' = written
  BY DEF ClientIInv, WrittenKnown, JarKnown
<1> QED
  BY <1>1, FetchMoves

-----------------------------------------------------------------------------
(***************************************************************************)
(* Every step keeps it: the fetches that begin.                            *)
(***************************************************************************)

\* A fetch of one request begins.
LEMMA SingleOK ==
  ASSUME NEW client \in Clients, NEW context \in Contexts, NEW u \in Addresses,
         NEW from \in [initiator : Sites \cup {Browser}, safe : BOOLEAN],
         context # "subresource" =>
           context = NavigationContext(from.initiator, SiteOf(u), from.safe),
         client.top = NoSite => u = Malformed
  PROVE  FetchOK(Single(client, context, u, from)) /\ Single(client, context, u, from).sent = NothingSent
<1> DEFINE r == [NoFetch EXCEPT !.client = client, !.context = context, !.urls = <<u>>,
                                !.todo = <<1>>, !.results = <<0>>, !.from = from]
<1>1. Single(client, context, u, from) = AtPosition(r)
  BY DEF Single
<1>2. /\ <<u>> \in Seq(Addresses) /\ <<1>> \in Seq(Nat) /\ <<0>> \in Seq(Nat)
      /\ DOMAIN <<u>> = {1} /\ DOMAIN <<1>> = {1} /\ DOMAIN <<0>> = {1}
  OBVIOUS
<1>3. NoFetch \in FetchRec /\ NoFetch.k = 1 /\ NoFetch.h2 = FALSE /\ NoFetch.sent = NothingSent
  BY NoFetchKnown DEF NoFetch
<1> HIDE DEF r
<1>4. /\ r \in FetchRec /\ r.client = client /\ r.context = context /\ r.urls = <<u>>
      /\ r.todo = <<1>> /\ r.results = <<0>> /\ r.from = from /\ r.k = 1 /\ r.h2 = FALSE
      /\ r.sent = NothingSent
  BY <1>2, <1>3 DEF r, FetchRec
<1>5. Plan(r)
  BY <1>2, <1>4 DEF Plan
<1>6. Awaited(r, r.k)
  BY <1>2, <1>4 DEF Awaited
<1>7. FetchOK(AtPosition(r)) /\ (AtPosition(r).sent = NothingSent \/ SameSent(AtPosition(r), r))
  BY <1>5, <1>6, AtPositionOK
<1> QED
  BY <1>1, <1>4, <1>7 DEF SameSent

LEMMA BeginKeeps ==
  ASSUME ClientIInv, NEW f \in Fetchers, NEW r, Begin(f, r), FetchOK(r), r.sent = NothingSent
  PROVE  ClientIInv'
<1>1. fetches' = [fetches EXCEPT ![f] = r] /\ UNCHANGED <<clock, jar, written>>
  BY DEF Begin
<1>2. Carries(r, written)
  BY NothingCarried
<1> QED
  BY <1>1, <1>2, FetchMovesAlone

LEMMA ClientTypes ==
  /\ \A top \in Sites \cup {NoSite} :
       ClientUnder(top) \in Clients /\ ClientUnder(top).top = top
  /\ \A d \in Documents : d.top \in Sites /\ d.url \in Urls /\ OriginOf(d.url) \in Origins
  /\ \A initiator, site, safe : NavigationContext(initiator, site, safe) \in Contexts
<1>1. \A top \in Sites \cup {NoSite} : ClientUnder(top) \in Clients /\ ClientUnder(top).top = top
  BY DEF ClientUnder, Clients, Origins
<1>2. \A d \in Documents : d.top \in Sites /\ d.url \in Urls /\ OriginOf(d.url) \in Origins
  BY AddressAssumption DEF Origins
<1>3. ASSUME NEW initiator, NEW site, NEW safe
      PROVE  NavigationContext(initiator, site, safe) \in Contexts
  BY DEF NavigationContext, Contexts
<1> QED
  BY <1>1, <1>2, <1>3

LEMMA NavigateKeeps ==
  ASSUME ClientIInv, NEW f \in Fetchers, Navigate(f) PROVE ClientIInv'
<1>1. PICK u \in Urls \cup {Malformed}, initiator \in Sites \cup {Browser}, safe \in BOOLEAN :
        Begin(f, Single(ClientUnder(SiteOf(u)), NavigationContext(initiator, SiteOf(u), safe),
                        u, [initiator |-> initiator, safe |-> safe]))
  BY DEF Navigate
<1>2. SiteOf(u) \in Sites \cup {NoSite} /\ (SiteOf(u) = NoSite => u = Malformed)
  BY SitesKnown
<1> DEFINE from == [initiator |-> initiator, safe |-> safe]
<1>3. from \in [initiator : Sites \cup {Browser}, safe : BOOLEAN]
  OBVIOUS
<1>4. /\ ClientUnder(SiteOf(u)) \in Clients /\ ClientUnder(SiteOf(u)).top = SiteOf(u)
      /\ NavigationContext(from.initiator, SiteOf(u), from.safe) \in Contexts
  BY <1>2, ClientTypes
<1>5. from.initiator = initiator /\ from.safe = safe
  OBVIOUS
<1> DEFINE r == Single(ClientUnder(SiteOf(u)), NavigationContext(from.initiator, SiteOf(u), from.safe), u, from)
<1>6. FetchOK(r) /\ r.sent = NothingSent
  <2> HIDE DEF from
  <2> QED
    BY <1>2, <1>3, <1>4, SingleOK DEF Addresses
<1>7. Begin(f, r)
  BY <1>1, <1>5
<1> HIDE DEF r
<1> QED
  BY <1>6, <1>7, BeginKeeps

LEMMA LoadFrameKeeps ==
  ASSUME ClientIInv, NEW f \in Fetchers, LoadFrame(f) PROVE ClientIInv'
<1>1. PICK d \in Documents, u \in Urls :
        Begin(f, Single(ClientUnder(d.top), NavigationContext(d.top, SiteOf(u), TRUE),
                        u, [initiator |-> d.top, safe |-> TRUE]))
  BY DEF LoadFrame
<1> DEFINE from == [initiator |-> d.top, safe |-> TRUE]
<1>2. d.top \in Sites /\ d.top # NoSite
  BY ClientTypes, SitesKnown
<1>3. from \in [initiator : Sites \cup {Browser}, safe : BOOLEAN]
  BY <1>2
<1>4. /\ ClientUnder(d.top) \in Clients /\ ClientUnder(d.top).top = d.top
      /\ NavigationContext(from.initiator, SiteOf(u), from.safe) \in Contexts
  BY <1>2, ClientTypes
<1>5. from.initiator = d.top /\ from.safe = TRUE
  OBVIOUS
<1> DEFINE r == Single(ClientUnder(d.top), NavigationContext(from.initiator, SiteOf(u), from.safe), u, from)
<1>6. FetchOK(r) /\ r.sent = NothingSent
  <2> HIDE DEF from
  <2> QED
    BY <1>2, <1>3, <1>4, SingleOK DEF Addresses
<1>7. Begin(f, r)
  BY <1>1, <1>5
<1> HIDE DEF r
<1> QED
  BY <1>6, <1>7, BeginKeeps

LEMMA ScriptFetchKeeps ==
  ASSUME ClientIInv, NEW f \in Fetchers, ScriptFetch(f) PROVE ClientIInv'
<1>1. PICK d \in Documents, u \in Urls, credentials \in {"omit", "same-origin", "include"} :
        Begin(f, Single(ScriptClient(d, credentials), "subresource", u, NoFetch.from))
  BY DEF ScriptFetch
<1>2. d.top \in Sites /\ d.top # NoSite /\ OriginOf(d.url) \in Origins
  BY ClientTypes, SitesKnown
<1>3. ClientUnder(d.top) \in Clients /\ ClientUnder(d.top).top = d.top
  BY <1>2, ClientTypes
<1>4. ScriptClient(d, credentials) \in Clients /\ ScriptClient(d, credentials).top = d.top
  BY <1>2, <1>3 DEF ScriptClient, Clients
<1>5. NoFetch.from \in [initiator : Sites \cup {Browser}, safe : BOOLEAN]
  BY DEF NoFetch
<1> DEFINE r == Single(ScriptClient(d, credentials), "subresource", u, NoFetch.from)
<1>6. FetchOK(r) /\ r.sent = NothingSent
  BY <1>2, <1>4, <1>5, SingleOK DEF Addresses, Contexts
<1>7. Begin(f, r)
  BY <1>1
<1> HIDE DEF r
<1> QED
  BY <1>6, <1>7, BeginKeeps

LEMMA LoadResourcesKeeps ==
  ASSUME ClientIInv, NEW f \in Fetchers, LoadResources(f) PROVE ClientIInv'
<1>1. PICK d \in Documents, urls \in Batches : \E cached \in SUBSET DOMAIN urls :
        LET todo == Retain([i \in DOMAIN urls |-> i], DOMAIN urls \ cached)
            r == [NoFetch EXCEPT
                    !.client = ClientUnder(d.top), !.urls = urls, !.todo = todo,
                    !.results = [i \in DOMAIN urls |-> IF i \in cached THEN i ELSE 0]]
        IN Begin(f, IF SameHttpsHost([k \in DOMAIN todo |-> urls[todo[k]]])
                    THEN [r EXCEPT !.phase = "prepare", !.h2 = TRUE]
                    ELSE AtPosition(r))
  BY DEF LoadResources
<1>2. PICK cached \in SUBSET DOMAIN urls :
        LET todo == Retain([i \in DOMAIN urls |-> i], DOMAIN urls \ cached)
            r == [NoFetch EXCEPT
                    !.client = ClientUnder(d.top), !.urls = urls, !.todo = todo,
                    !.results = [i \in DOMAIN urls |-> IF i \in cached THEN i ELSE 0]]
        IN Begin(f, IF SameHttpsHost([k \in DOMAIN todo |-> urls[todo[k]]])
                    THEN [r EXCEPT !.phase = "prepare", !.h2 = TRUE]
                    ELSE AtPosition(r))
  BY <1>1
<1> DEFINE all == [i \in DOMAIN urls |-> i]
           todo == Retain(all, DOMAIN urls \ cached)
           results == [i \in DOMAIN urls |-> IF i \in cached THEN i ELSE 0]
           asks == [k \in DOMAIN todo |-> urls[todo[k]]]
           r == [NoFetch EXCEPT !.client = ClientUnder(d.top), !.urls = urls, !.todo = todo,
                                !.results = results]
           n == [r EXCEPT !.phase = "prepare", !.h2 = TRUE]
<1>3. Begin(f, IF SameHttpsHost(asks) THEN n ELSE AtPosition(r))
  BY <1>2
<1>4. urls \in Seq(Addresses) /\ DOMAIN urls = 1..Len(urls) /\ Len(urls) \in Nat
  BY AddressAssumption, SeqElements DEF Addresses
<1>5. /\ all \in Seq(Nat) /\ Len(all) = Len(urls) /\ \A i \in 1..Len(urls) : all[i] = i
      /\ results \in Seq(Nat) /\ DOMAIN results = DOMAIN urls
  BY <1>4
<1>6. /\ todo \in Seq(Nat)
      /\ \A j \in 1..Len(todo) : todo[j] \in DOMAIN urls \ cached
      /\ \A i \in 1..Len(urls) : i \notin cached => \E j \in 1..Len(todo) : todo[j] = i
  <2> HIDE DEF all
  <2>1. /\ todo \in Seq(Nat)
        /\ \A j \in 1..Len(todo) : todo[j] \in DOMAIN urls \ cached
        /\ \A i \in 1..Len(all) : all[i] \in DOMAIN urls \ cached =>
             \E j \in 1..Len(todo) : todo[j] = all[i]
    BY <1>5, RetainFacts
  <2> QED
    BY <1>4, <1>5, <2>1
<1> HIDE DEF all, todo
<1>7. DOMAIN todo = 1..Len(todo) /\ Len(todo) \in Nat
  BY <1>6
<1>8. /\ ClientUnder(d.top) \in Clients /\ ClientUnder(d.top).top = d.top
      /\ d.top \in Sites /\ d.top # NoSite
  BY ClientTypes, SitesKnown
<1>r. \A i \in DOMAIN urls : results[i] = IF i \in cached THEN i ELSE 0
  OBVIOUS
<1> HIDE DEF results
<1>9. /\ NoFetch \in FetchRec /\ NoFetch.k = 1 /\ NoFetch.h2 = FALSE /\ NoFetch.sent = NothingSent
      /\ NoFetch.context = "subresource" /\ NoFetch.asked = 0
  BY NoFetchKnown DEF NoFetch
<1>10. /\ r \in FetchRec /\ r.client = ClientUnder(d.top) /\ r.urls = urls /\ r.todo = todo
       /\ r.results = results /\ r.k = 1 /\ r.h2 = FALSE /\ r.sent = NothingSent
       /\ r.context = "subresource" /\ r.asked = 0
  BY <1>4, <1>5, <1>6, <1>8, <1>9 DEF FetchRec
<1>e. r = [NoFetch EXCEPT !.client = ClientUnder(d.top), !.urls = urls, !.todo = todo,
                          !.results = results]
  OBVIOUS
<1> HIDE DEF r
<1>11. Plan(r)
  BY <1>5, <1>6, <1>7, <1>8, <1>10 DEF Plan
<1>12. Awaited(r, 1)
  <2> SUFFICES ASSUME NEW i \in DOMAIN urls
               PROVE  \/ results[i] = i
                      \/ results[i] = 0 /\ \E j \in DOMAIN todo : 1 <= j /\ todo[j] = i
    BY <1>5, <1>10 DEF Awaited
  <2>1. CASE i \in cached
    BY <1>r, <2>1
  <2>2. CASE i \notin cached
    <3>1. PICK j \in 1..Len(todo) : todo[j] = i
      BY <1>4, <1>6, <2>2
    <3> QED
      BY <1>r, <1>7, <2>2, <3>1
  <2> QED
    BY <2>1, <2>2
<1>13. CASE SameHttpsHost(asks)
  <2>1. Begin(f, n)
    BY <1>3, <1>13
  <2>2. /\ n \in FetchRec /\ n.client = ClientUnder(d.top) /\ n.urls = urls /\ n.todo = todo
        /\ n.results = results /\ n.k = 1 /\ n.h2 = TRUE /\ n.sent = NothingSent
        /\ n.context = "subresource" /\ n.asked = 0 /\ n.phase = "prepare"
    BY <1>10 DEF FetchRec
  <2>3. asks # << >> /\ \A k \in DOMAIN asks : asks[k].secure
    BY <1>13 DEF SameHttpsHost
  <2>4. \A k \in DOMAIN todo : urls[todo[k]] # Malformed
    <3>1. \A k \in DOMAIN todo : urls[todo[k]].secure
      BY <2>3
    <3>2. ~Malformed.secure
      BY DEF Malformed
    <3> QED
      BY <3>1, <3>2, Zenon
  <2>5. 1 \in DOMAIN todo
    <3>1. CASE Len(todo) = 0
      <4>1. DOMAIN todo = {}
        BY <1>7, <3>1
      <4>2. asks = << >>
        BY <4>1
      <4> QED
        BY <2>3, <4>2
    <3> QED
      BY <1>7, <3>1
  <2> HIDE DEF n, asks
  <2>6. Plan(n)
    BY <1>5, <1>6, <1>7, <1>8, <2>2, <2>4 DEF Plan
  <2>7. Awaited(n, 1)
    BY <1>10, <1>12, <2>2 DEF Awaited
  <2>8. FetchOK(n)
    BY <2>2, <2>5, <2>6, <2>7 DEF FetchOK, Underway, Busy
  <2> QED
    BY <2>1, <2>2, <2>8, BeginKeeps
<1>14. CASE ~SameHttpsHost(asks)
  <2>1. Begin(f, AtPosition(r))
    BY <1>3, <1>14
  <2>2. FetchOK(AtPosition(r)) /\ (AtPosition(r).sent = NothingSent \/ SameSent(AtPosition(r), r))
    BY <1>10, <1>11, <1>12, AtPositionOK
  <2>3. AtPosition(r).sent = NothingSent
    BY <1>10, <2>2 DEF SameSent
  <2> QED
    BY <2>1, <2>2, <2>3, BeginKeeps
<1> QED
  BY <1>13, <1>14

-----------------------------------------------------------------------------
(***************************************************************************)
(* The steps of a fetch, and the writes of scripts.                        *)
(***************************************************************************)

\* What is known of a fetch that runs.
LEMMA FetchKnown ==
  ASSUME ClientIInv, NEW f \in Fetchers, Busy(fetches[f])
  PROVE  /\ fetches[f] \in FetchRec /\ FetchOK(fetches[f]) /\ Underway(fetches[f])
         /\ Plan(fetches[f]) /\ Carries(fetches[f], written)
         /\ fetches[f].todo \in Seq(Nat) /\ Len(fetches[f].todo) \in Nat
         /\ DOMAIN fetches[f].todo = 1..Len(fetches[f].todo)
         /\ fetches[f].urls \in Seq(Addresses)
         /\ fetches[f].client.top \in Sites \cup {NoSite}
<1>1. FetchOK(fetches[f]) /\ Carries(fetches[f], written)
  BY DEF ClientIInv
<1>2. fetches[f] \in FetchRec /\ Underway(fetches[f])
  BY <1>1 DEF FetchOK
<1>3. /\ fetches[f].todo \in Seq(Nat) /\ fetches[f].urls \in Seq(Addresses)
      /\ fetches[f].client.top \in Sites \cup {NoSite}
  BY <1>2 DEF FetchRec, Clients
<1> QED
  BY <1>1, <1>2, <1>3, SeqElements DEF Underway

LEMMA PrepareKeeps ==
  ASSUME ClientIInv, NEW f \in Fetchers, Prepare(f) PROVE ClientIInv'
<1> DEFINE r == fetches[f]
           u == r.urls[r.todo[r.k]]
           sent == [url |-> u, cookies |-> RequestCookies(r.client, u, r.context)]
           n == [r EXCEPT !.sent = sent,
                          !.phase = IF r.k < Len(r.todo) THEN "prepare" ELSE "streams",
                          !.k = IF r.k < Len(r.todo) THEN @ + 1 ELSE 1]
<1>1. /\ r.phase = "prepare" /\ fetches' = [fetches EXCEPT ![f] = n]
      /\ UNCHANGED <<clock, jar, written>>
  BY DEF Prepare
<1>2. /\ r \in FetchRec /\ Underway(r) /\ Plan(r)
      /\ r.todo \in Seq(Nat) /\ Len(r.todo) \in Nat /\ DOMAIN r.todo = 1..Len(r.todo)
      /\ r.urls \in Seq(Addresses) /\ r.client.top \in Sites \cup {NoSite}
  BY <1>1, FetchKnown DEF Busy
<1> HIDE DEF r
<1>3. /\ r.k \in 1..Len(r.todo) /\ r.context = "subresource" /\ r.asked = 0 /\ r.h2 /\ Awaited(r, 1)
      /\ r.client.top \in Sites
  BY <1>1, <1>2 DEF Underway, Plan
<1>4. u \in Urls
  <2>1. r.todo[r.k] \in DOMAIN r.urls /\ r.urls[r.todo[r.k]] # Malformed
    BY <1>2, <1>3 DEF Plan
  <2>2. r.urls[r.todo[r.k]] \in Addresses
    BY <1>2, <2>1, SeqElements
  <2> QED
    BY <2>1, <2>2 DEF Addresses
<1> DEFINE next == IF r.k < Len(r.todo) THEN r.k + 1 ELSE 1
           stage == IF r.k < Len(r.todo) THEN "prepare" ELSE "streams"
<1>5. next \in 1..Len(r.todo) /\ next \in Nat \ {0} /\ stage \in {"prepare", "streams"}
      /\ (stage = "streams" => next = 1)
  BY <1>2, <1>3
<1>6. n = [r EXCEPT !.sent = sent, !.phase = stage, !.k = next]
  BY <1>2 DEF FetchRec
<1>s. sent = [url |-> u, cookies |-> RequestCookies(r.client, u, r.context)]
  OBVIOUS
<1> HIDE DEF n, sent, next, stage, u
<1>7. /\ n.sent = sent /\ n.phase = stage /\ n.k = next
      /\ n.client = r.client /\ n.context = r.context /\ n.urls = r.urls /\ n.todo = r.todo
      /\ n.results = r.results /\ n.h2 = r.h2 /\ n.from = r.from /\ n.asked = r.asked
  BY <1>2, <1>6 DEF FetchRec
<1>8. sent \in [url : Addresses, cookies : Seq(Cookie)] /\ Carries(n, written)
  BY <1>2, <1>3, <1>4, <1>7, <1>s, SentCarries DEF ClientIInv
<1>9. n \in FetchRec
  BY <1>2, <1>5, <1>6, <1>8 DEF FetchRec
<1>10. Plan(n)
  BY <1>2, <1>7, <1>9 DEF Plan
<1>11. Awaited(n, 1)
  BY <1>3, <1>7 DEF Awaited
<1>12. FetchOK(n)
  BY <1>2, <1>3, <1>5, <1>7, <1>9, <1>10, <1>11 DEF FetchOK, Underway, Busy
<1> QED
  BY <1>1, <1>8, <1>12, FetchMovesAlone

\* A fetch moves on to a state that sent nothing, or what was sent before.
LEMMA SameSentMoves ==
  ASSUME ClientIInv, NEW f \in Fetchers, NEW n, fetches' = [fetches EXCEPT ![f] = n],
         FetchOK(n), n.sent = NothingSent \/ SameSent(n, fetches[f]),
         UNCHANGED <<clock, jar, written>>
  PROVE  ClientIInv'
<1>1. Carries(fetches[f], written)
  BY DEF ClientIInv
<1>2. Carries(n, written)
  BY <1>1, CarriesStays, NothingCarried
<1> QED
  BY <1>2, FetchMovesAlone

LEMMA StreamsKeeps ==
  ASSUME ClientIInv, NEW f \in Fetchers, Streams(f) PROVE ClientIInv'
<1> DEFINE r == fetches[f]
<1>1. PICK answered \in BOOLEAN :
        /\ r.phase = "streams"
        /\ fetches' = [fetches EXCEPT ![f] = AtPosition([r EXCEPT !.h2 = answered])]
        /\ UNCHANGED <<clock, jar, written>>
  BY DEF Streams, ClientIInv
<1> DEFINE n == [r EXCEPT !.h2 = answered]
<1>2. r \in FetchRec /\ Underway(r) /\ Plan(r) /\ r.client.top \in Sites \cup {NoSite}
  BY <1>1, FetchKnown DEF Busy
<1> HIDE DEF r
<1>3. r.k = 1 /\ r.h2 /\ Awaited(r, 1)
  BY <1>1, <1>2 DEF Underway
<1>4. /\ n \in FetchRec /\ n.sent = r.sent /\ n.k = 1
      /\ n.client = r.client /\ n.context = r.context /\ n.urls = r.urls /\ n.todo = r.todo
      /\ n.results = r.results /\ n.h2 = answered /\ n.from = r.from
  BY <1>2, <1>3 DEF FetchRec
<1> HIDE DEF n
<1>5. Plan(n)
  BY <1>2, <1>3, <1>4 DEF Plan
<1>6. Awaited(n, n.k)
  BY <1>3, <1>4 DEF Awaited
<1>7. FetchOK(AtPosition(n)) /\ (AtPosition(n).sent = NothingSent \/ SameSent(AtPosition(n), n))
  BY <1>5, <1>6, AtPositionOK
<1>8. AtPosition(n).sent = NothingSent \/ SameSent(AtPosition(n), r)
  BY <1>4, <1>7 DEF SameSent
<1>9. fetches' = [fetches EXCEPT ![f] = AtPosition(n)] /\ UNCHANGED <<clock, jar, written>>
  BY <1>1 DEF n
<1> QED
  BY <1>7, <1>8, <1>9, SameSentMoves DEF r

LEMMA AskKeeps ==
  ASSUME ClientIInv, NEW f \in Fetchers, Ask(f) PROVE ClientIInv'
<1> DEFINE r == fetches[f]
           sent == [url |-> r.url, cookies |-> RequestCookies(r.client, r.url, r.context)]
           n == [r EXCEPT !.phase = "wait", !.asked = @ + 1, !.sent = sent]
           Refused == \/ r.url = Malformed
                      \/ r.client.requestOrigin # NoOrigin
                         /\ r.client.requestOrigin # OriginOf(r.url)
<1>1. /\ r.phase = "ask" /\ UNCHANGED <<clock, jar, written>>
      /\ fetches' = [fetches EXCEPT ![f] = IF Refused THEN Placed(r) ELSE n]
  BY DEF Ask
<1>2. r \in FetchRec /\ FetchOK(r) /\ Underway(r) /\ Plan(r) /\ r.client.top \in Sites \cup {NoSite}
  BY <1>1, FetchKnown DEF Busy
<1>3. CASE Refused
  <2>1. FetchOK(Placed(r)) /\ (Placed(r).sent = NothingSent \/ SameSent(Placed(r), r))
    BY <1>1, <1>2, PlacedOK
  <2>2. fetches' = [fetches EXCEPT ![f] = Placed(r)]
    BY <1>1, <1>3
  <2> QED
    BY <1>1, <2>1, <2>2, SameSentMoves
<1>4. CASE ~Refused
  <2>1. fetches' = [fetches EXCEPT ![f] = n] /\ r.url # Malformed
    BY <1>1, <1>4
  <2> HIDE DEF r
  <2>2. /\ r.url \in Urls /\ r.client.top \in Sites /\ r.k \in DOMAIN r.todo
        /\ Awaited(r, r.k) /\ r.chain = r.todo[r.k]
        /\ r.asked <= r.redirects /\ r.asked \in Nat /\ r.redirects \in Nat
    <3>1. r.url \in Addresses /\ r.asked \in Nat /\ r.redirects \in 0..MaxRedirects
      BY <1>2 DEF FetchRec
    <3> QED
      BY <1>1, <1>2, <2>1, <3>1, ClientAssumption DEF Underway, Addresses
  <2>3. n = [r EXCEPT !.phase = "wait", !.asked = r.asked + 1, !.sent = sent]
    BY <1>2 DEF FetchRec
  <2>4. r.asked + 1 \in Nat /\ r.asked + 1 <= r.redirects + 1
    BY <2>2
  <2>s. sent = [url |-> r.url, cookies |-> RequestCookies(r.client, r.url, r.context)]
    OBVIOUS
  <2> HIDE DEF n, sent
  <2>5. /\ n.sent = sent /\ n.phase = "wait" /\ n.k = r.k /\ n.asked = r.asked + 1
        /\ n.client = r.client /\ n.context = r.context /\ n.urls = r.urls /\ n.todo = r.todo
        /\ n.results = r.results /\ n.h2 = r.h2 /\ n.from = r.from /\ n.url = r.url
        /\ n.redirects = r.redirects /\ n.chain = r.chain
    BY <1>2, <2>3 DEF FetchRec
  <2>6. r.context # "subresource" =>
          r.context = NavigationContext(r.from.initiator, SiteOf(r.urls[1]), r.from.safe)
    BY <1>2 DEF Plan
  <2>7. sent \in [url : Addresses, cookies : Seq(Cookie)] /\ Carries(n, written)
    BY <1>2, <2>2, <2>5, <2>6, <2>s, SentCarries DEF ClientIInv
  <2>8. n \in FetchRec
    BY <1>2, <2>3, <2>4, <2>7 DEF FetchRec
  <2>9. Plan(n)
    BY <1>2, <2>5, <2>8 DEF Plan
  <2>10. Awaited(n, n.k)
    BY <2>2, <2>5 DEF Awaited
  <2>t. n.client.top # NoSite /\ n.url # Malformed
    BY <2>1, <2>2, <2>5, SitesKnown
  <2>11. Underway(n)
    BY <2>2, <2>4, <2>5, <2>9, <2>10, <2>t DEF Underway
  <2>12. FetchOK(n)
    BY <2>5, <2>8, <2>11 DEF FetchOK, Busy
  <2> QED
    BY <1>1, <2>1, <2>7, <2>12, FetchMovesAlone
<1> QED
  BY <1>3, <1>4

LEMMA FailKeeps ==
  ASSUME ClientIInv, NEW f \in Fetchers, Fail(f) PROVE ClientIInv'
<1> DEFINE r == fetches[f]
<1>1. /\ r.phase = "wait" /\ UNCHANGED <<clock, jar, written>>
      /\ fetches' = [fetches EXCEPT ![f] = Placed(r)]
  BY DEF Fail, ClientIInv
<1>2. FetchOK(Placed(r)) /\ (Placed(r).sent = NothingSent \/ SameSent(Placed(r), r))
  BY <1>1, FetchKnown, PlacedOK DEF Busy
<1> QED
  BY <1>1, <1>2, SameSentMoves

\* An answer is placed, or the chain goes on at the address it names.
LEMMA RedirectedOK ==
  ASSUME ClientIInv, NEW f \in Fetchers, fetches[f].phase = "wait", Redirected(f)
  PROVE  \E n : /\ fetches' = [fetches EXCEPT ![f] = n] /\ FetchOK(n)
                /\ n.sent = NothingSent \/ SameSent(n, fetches[f])
<1> DEFINE r == fetches[f]
<1>1. r \in FetchRec /\ FetchOK(r) /\ Underway(r) /\ Plan(r) /\ r.client.top \in Sites \cup {NoSite}
  BY FetchKnown DEF Busy
<1>2. CASE fetches' = [fetches EXCEPT ![f] = Placed(r)]
  <2>1. FetchOK(Placed(r)) /\ (Placed(r).sent = NothingSent \/ SameSent(Placed(r), r))
    BY <1>1, PlacedOK
  <2> QED
    BY <1>2, <2>1
<1>3. CASE \E location \in Urls \cup {Malformed} :
             /\ Follows(r)
             /\ fetches' = [fetches EXCEPT ![f] =
                  [r EXCEPT !.phase = "ask", !.url = location, !.redirects = @ + 1]]
  <2>1. PICK location \in Addresses :
          /\ Follows(r)
          /\ fetches' = [fetches EXCEPT ![f] =
               [r EXCEPT !.phase = "ask", !.url = location, !.redirects = @ + 1]]
    BY <1>3 DEF Addresses
  <2> DEFINE n == [r EXCEPT !.phase = "ask", !.url = location, !.redirects = r.redirects + 1]
  <2>2. fetches' = [fetches EXCEPT ![f] = n]
    BY <2>1
  <2>w. r.phase = "wait"
    OBVIOUS
  <2> HIDE DEF r
  <2>3. /\ r.redirects + 1 \in 0..MaxRedirects /\ r.k \in DOMAIN r.todo /\ Awaited(r, r.k)
        /\ r.chain = r.todo[r.k] /\ r.asked <= r.redirects + 1 /\ r.client.top # NoSite
    <3>1. r.redirects \in 0..MaxRedirects
      BY <1>1 DEF FetchRec
    <3>2. r.redirects + 1 \in 0..MaxRedirects
      BY <2>1, <3>1, ClientAssumption DEF Follows
    <3> QED
      BY <1>1, <2>w, <3>2 DEF Underway
  <2>4. /\ n \in FetchRec /\ n.sent = r.sent /\ n.phase = "ask" /\ n.k = r.k /\ n.asked = r.asked
        /\ n.client = r.client /\ n.context = r.context /\ n.urls = r.urls /\ n.todo = r.todo
        /\ n.results = r.results /\ n.h2 = r.h2 /\ n.from = r.from /\ n.url = location
        /\ n.redirects = r.redirects + 1 /\ n.chain = r.chain
    BY <1>1, <2>3 DEF FetchRec
  <2> HIDE DEF n
  <2>5. Plan(n)
    BY <1>1, <2>4 DEF Plan
  <2>6. Awaited(n, n.k)
    BY <2>3, <2>4 DEF Awaited
  <2>7. FetchOK(n)
    BY <2>3, <2>4, <2>5, <2>6 DEF FetchOK, Underway, Busy
  <2>8. SameSent(n, r)
    BY <2>4 DEF SameSent
  <2> QED
    BY <2>2, <2>7, <2>8 DEF r
<1> QED
  BY <1>2, <1>3 DEF Redirected

LEMMA AnswerKeeps ==
  ASSUME ClientIInv, NEW f \in Fetchers, Answer(f) PROVE ClientIInv'
<1>1. fetches[f].phase = "wait" /\ Redirected(f) /\ UNCHANGED <<clock, jar, written>>
  BY DEF Answer
<1>2. PICK n : /\ fetches' = [fetches EXCEPT ![f] = n] /\ FetchOK(n)
               /\ n.sent = NothingSent \/ SameSent(n, fetches[f])
  BY <1>1, RedirectedOK
<1> QED
  BY <1>1, <1>2, SameSentMoves

LEMMA AnswerWithCookieKeeps ==
  ASSUME ClientIInv, NEW f \in Fetchers, AnswerWithCookie(f) PROVE ClientIInv'
<1> DEFINE r == fetches[f]
<1>1. r.phase = "wait" /\ Redirected(f) /\ clock' = clock
  BY DEF AnswerWithCookie
<1>2. PICK header \in SetCookies : Write(r.client.top, SiteOf(r.url), r.url.host, header)
  BY DEF AnswerWithCookie
<1>3. /\ r \in FetchRec /\ Underway(r) /\ r.client.top \in Sites \cup {NoSite}
      /\ Carries(r, written)
  BY <1>1, FetchKnown DEF Busy
<1>4. r.client.top \in Sites /\ r.url \in Urls
  <2>1. r.client.top # NoSite /\ r.url # Malformed
    BY <1>1, <1>3 DEF Underway
  <2>2. r.url \in Addresses
    BY <1>3 DEF FetchRec
  <2> QED
    BY <1>3, <2>1, <2>2 DEF Addresses
<1>5. SiteOf(r.url) \in Sites /\ r.url.host \in Owners
  BY <1>4, SitesKnown, AddressAssumption DEF Owners
<1>6. /\ WrittenKnown' /\ JarKnown'
      /\ \A k \in DOMAIN written : k \in DOMAIN written' /\ written'[k] = written[k]
  BY <1>2, <1>4, <1>5, WriteKeeps DEF ClientIInv
<1>7. PICK n : /\ fetches' = [fetches EXCEPT ![f] = n] /\ FetchOK(n)
               /\ n.sent = NothingSent \/ SameSent(n, r)
  BY <1>1, RedirectedOK
<1>8. Carries(n, written')
  BY <1>3, <1>6, <1>7, CarriesStays, NothingCarried
<1> QED
  BY <1>1, <1>6, <1>7, <1>8, FetchMoves

LEMMA SetDocumentCookieKeeps ==
  ASSUME ClientIInv, NEW d \in Documents, SetDocumentCookie(d) PROVE ClientIInv'
<1> DEFINE host == IF d.sandboxed THEN "document.jar.invalid" ELSE d.url.host
<1>1. PICK header \in SetCookies : Write(d.top, d.top, host, header)
  BY DEF SetDocumentCookie
<1>2. clock' = clock /\ fetches' = fetches
  BY DEF SetDocumentCookie
<1>3. d.top \in Sites /\ host \in Owners
  BY AddressAssumption DEF Owners
<1>4. /\ WrittenKnown' /\ JarKnown'
      /\ \A k \in DOMAIN written : k \in DOMAIN written' /\ written'[k] = written[k]
  BY <1>1, <1>3, WriteKeeps DEF ClientIInv
<1>5. ASSUME NEW f \in Fetchers PROVE FetchOK(fetches'[f]) /\ Carries(fetches'[f], written')
  <2>1. FetchOK(fetches[f]) /\ Carries(fetches[f], written) /\ SameSent(fetches[f], fetches[f])
    BY DEF ClientIInv, SameSent
  <2>2. Carries(fetches[f], written')
    BY <1>4, <2>1, CarriesStays
  <2> QED
    BY <1>2, <2>1, <2>2
<1> QED
  BY <1>2, <1>4, <1>5 DEF ClientIInv

LEMMA ClockTickKeeps == ASSUME ClientIInv, ClockTick PROVE ClientIInv'
<1>1. clock' \in 1..MaxClock /\ jar' = jar /\ fetches' = fetches /\ written' = written
  BY ClientAssumption DEF ClockTick, ClientIInv
<1>2. WrittenKnown' /\ JarKnown'
  BY <1>1 DEF ClientIInv, WrittenKnown, JarKnown
<1> QED
  BY <1>1, <1>2 DEF ClientIInv

-----------------------------------------------------------------------------
(***************************************************************************)
(* The properties.                                                         *)
(***************************************************************************)

LEMMA ClientStays == ClientIInv /\ [ClientNext]_clientVars => ClientIInv'
<1> SUFFICES ASSUME ClientIInv, [ClientNext]_clientVars PROVE ClientIInv'
  OBVIOUS
<1>1. ASSUME NEW f \in Fetchers, FetchStep(f) PROVE ClientIInv'
  BY <1>1, NavigateKeeps, LoadFrameKeeps, LoadResourcesKeeps, ScriptFetchKeeps, PrepareKeeps,
     StreamsKeeps, AskKeeps, FailKeeps, AnswerKeeps, AnswerWithCookieKeeps DEF FetchStep
<1>2. ASSUME NEW d \in Documents, SetDocumentCookie(d) PROVE ClientIInv'
  BY <1>2, SetDocumentCookieKeeps
<1>3. CASE ClockTick
  BY <1>3, ClockTickKeeps
<1>4. CASE UNCHANGED clientVars
  BY <1>4 DEF clientVars, ClientIInv, WrittenKnown, JarKnown
<1> QED
  BY <1>1, <1>2, <1>3, <1>4 DEF ClientNext

LEMMA ClientTyped == ASSUME ClientIInv PROVE ClientTypeOK
<1>1. DOMAIN jar = Partitions /\ \A p \in Partitions : jar[p] \in Seq(Cookie)
  BY DEF ClientIInv, JarKnown
<1>2. \A p \in Partitions : \A i \in DOMAIN jar[p] : jar[p][i] \in Cookie
  BY <1>1, SeqElements
<1>3. ASSUME NEW f \in Fetchers
      PROVE  /\ fetches[f].phase \in {"idle", "prepare", "streams", "ask", "wait", "done"}
             /\ fetches[f].url \in Urls \cup {Malformed}
             /\ fetches[f].redirects \in 0..MaxRedirects
  BY DEF ClientIInv, FetchRec, Addresses
<1>4. Len(written) <= MaxWrites /\ clock \in 1..MaxClock
  BY DEF ClientIInv, WrittenKnown
<1> QED
  BY <1>1, <1>2, <1>3, <1>4 DEF ClientTypeOK

LEMMA ClientJar == ASSUME ClientIInv PROVE JarIsLatest
<1>1. \A p \in Sites \X Sites : Apart(jar[p]) /\ ToSet(jar[p]) = Lasting(written, p)
  BY DEF ClientIInv, JarKnown
<1> QED
  BY <1>1 DEF JarIsLatest, Apart, Lasting, Replaced, Identity

LEMMA ClientSent == ASSUME ClientIInv PROVE SentAsAllowed
<1>1. \A f \in Fetchers : Carries(fetches[f], written)
  BY DEF ClientIInv
<1> QED
  BY <1>1 DEF SentAsAllowed, Carries, Allowed

LEMMA ClientRoundTrip == ASSUME ClientIInv PROVE RoundTrip
<1> SUFFICES ASSUME NEW d \in Documents, ~d.sandboxed, d.top = SiteOf(d.url)
             PROVE  LET sent == ToSet(RequestCookies(ScriptClient(d, "same-origin"), d.url, "subresource"))
                        read == ToSet(DocumentCookies(d)) IN
                    /\ \A c \in sent \ read : c.httpOnly
                    /\ \A c \in read \ sent : (c.secure /\ ~d.url.secure) \/ ~IsPrefix(c.path, d.url.path)
  BY DEF RoundTrip
<1> DEFINE client == ScriptClient(d, "same-origin")
           store == jar[PartitionKey(d.top, d.top)]
           sent == ToSet(RequestCookies(client, d.url, "subresource"))
           read == ToSet(DocumentCookies(d))
<1>1. d.top \in Sites /\ d.url \in Urls /\ d.top # NoSite
  BY ClientTypes, SitesKnown
<1>2. client.cookies = TRUE /\ client.top = d.top /\ client.cookieOrigin = OriginOf(d.url)
  BY DEF ScriptClient, ClientUnder
<1>3. PermitsCookies(client, d.url)
  BY <1>2 DEF PermitsCookies
<1>4. SubresourceContext(d.top, d.top) = "sameSite"
  BY <1>1 DEF SubresourceContext
<1>5. store \in Seq(Cookie)
  BY <1>1, SitesKnown DEF ClientIInv, JarKnown
<1>6. RequestCookies(client, d.url, "subresource") = CookieHeader(store, d.url, "sameSite")
  <2> HIDE DEF client
  <2> QED
    BY <1>2, <1>3, <1>4 DEF RequestCookies
<1> HIDE DEF client
<1>7. \A c : c \in sent <=> c \in ToSet(store) /\ Fitting(c, d.url, "sameSite")
  BY <1>5, <1>6, HeaderFacts
<1>8. \A c : c \in read <=> /\ c \in ToSet(store) /\ ~IsExpired(c) /\ ~c.httpOnly
                            /\ d.sandboxed \/ DomainMatches(c, d.url.host)
  BY <1>5, DocumentFacts
<1> HIDE DEF store, sent, read
<1>9. ASSUME NEW c \in sent \ read PROVE c.httpOnly
  BY <1>7, <1>8 DEF Fitting
<1>10. ASSUME NEW c \in read \ sent
       PROVE  (c.secure /\ ~d.url.secure) \/ ~IsPrefix(c.path, d.url.path)
  <2>1. c \in ToSet(store) /\ ~IsExpired(c) /\ DomainMatches(c, d.url.host) /\ ~Fitting(c, d.url, "sameSite")
    BY <1>7, <1>8
  <2>2. SameSiteAllows(c.sameSite, "sameSite")
    BY DEF SameSiteAllows
  <2> QED
    BY <2>1, <2>2 DEF Fitting, PathMatches
<1> QED
  BY <1>9, <1>10 DEF sent, read, client

LEMMA ClientChains == ASSUME ClientIInv PROVE ChainsBounded /\ AnswersPlaced
<1> SUFFICES ASSUME NEW f \in Fetchers
             PROVE  /\ fetches[f].asked <= MaxRedirects + 1
                    /\ \A i \in DOMAIN fetches[f].results :
                         /\ fetches[f].results[i] \in {0, i}
                         /\ fetches[f].phase = "done" => fetches[f].results[i] = i
  BY DEF ChainsBounded, AnswersPlaced
<1> DEFINE r == fetches[f]
<1>1. FetchOK(r) /\ r.redirects \in 0..MaxRedirects /\ r.asked \in Nat
      /\ r.phase \in {"idle", "prepare", "streams", "ask", "wait", "done"}
  BY DEF ClientIInv, FetchRec
<1> HIDE DEF r
<1>2. CASE ~Busy(r)
  BY <1>1, <1>2, ClientAssumption DEF FetchOK, r
<1>3. CASE Busy(r)
  <2>1. Underway(r)
    BY <1>1, <1>3 DEF FetchOK
  <2>2. r.asked <= MaxRedirects + 1
    BY <1>1, <1>3, <2>1, ClientAssumption DEF Underway, Busy
  <2>3. Awaited(r, 1) \/ Awaited(r, r.k)
    BY <1>3, <2>1 DEF Underway, Busy
  <2>4. \A i \in DOMAIN r.results : r.results[i] \in {0, i}
    BY <2>3 DEF Awaited
  <2> QED
    BY <1>3, <2>2, <2>4 DEF Busy, r
<1> QED
  BY <1>2, <1>3

\* Whatever fetches run and scripts write at the same time, a store is the last
\* writes to its partition, a request carries only what its hop, its top-level
\* site and its SameSite posture allow, a document and its requests see the same
\* cookies, a chain is as long as its redirects, and every answer stands where
\* its request did.
THEOREM ClientSafe == ClientSpec => []ClientInv
<1>1. ClientInit => ClientIInv
  BY ClientStarts
<1>2. ClientIInv /\ [ClientNext]_clientVars => ClientIInv'
  BY ClientStays
<1>3. ClientIInv => ClientInv
  BY ClientTyped, ClientJar, ClientSent, ClientRoundTrip, ClientChains DEF ClientInv
<1> QED
  BY <1>1, <1>2, <1>3, PTL DEF ClientSpec
=============================================================================
