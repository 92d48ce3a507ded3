------------------------------ MODULE HttpCache ------------------------------
(***************************************************************************)
(* The HTTP response cache (crates/silksurf-net/src/cache.rs) as the       *)
(* SpeculativeRenderer drives it (crates/silksurf-engine/src/              *)
(* speculative.rs), for one URL: entries of different URLs never meet.     *)
(*                                                                         *)
(* Every navigation builds a renderer of its own, whose memory cache is    *)
(* loaded from the disk directory all renderers share; navigations, frames *)
(* and preloads run on threads of their own.  A response is the version of *)
(* the representation the origin had when it answered.                     *)
(***************************************************************************)
EXTENDS Naturals

CONSTANTS
  Renderers,     \* SpeculativeRenderers, one per navigation
  Texts,         \* whether responses may be decoded text: a set of Booleans
  Storables,     \* whether responses may be stored: a set of Booleans
  Lifetimes,     \* the freshness lifetimes responses may carry
  Failures,      \* whether a file operation may fail: a set of Booleans
  MaxVersion,    \* model bound: representations the origin publishes
  MaxTime        \* model bound: seconds a behaviour lasts

ASSUME CacheAssumption ==
  /\ Texts \subseteq BOOLEAN /\ Storables \subseteq BOOLEAN
  /\ Failures \subseteq BOOLEAN
  /\ Lifetimes \subseteq Nat
  /\ MaxVersion \in Nat /\ MaxTime \in Nat \ {0}

VARIABLES
  now,     \* seconds
  origin,  \* the representation the origin serves
  mem,     \* mem[r]: the entry of the URL in the renderer's memory
  disk,    \* the entry in the URL's file
  torn,    \* the file is truncated or half written
  phase,   \* phase[r]: where the renderer is
  reply,   \* reply[r]: the response on its way to the renderer
  seen,    \* history: the newest version any renderer received
  vouched, \* history: when the origin last spoke for each version
  apart    \* history: memory and disk have parted: two renderers were open
           \* at once, or a response left the file of an earlier one behind

vars == <<now, origin, mem, disk, torn, phase, reply, seen, vouched, apart>>

-----------------------------------------------------------------------------
(***************************************************************************)
(* since is the time the entry's age counts from: cached_at in memory,     *)
(* stored_at_unix on disk.  Version 0 is no entry.                         *)
(***************************************************************************)
Representation == [version : 1..MaxVersion, text : Texts, life : Lifetimes,
                   storable : Storables]

Entry == [version : 0..MaxVersion, text : BOOLEAN, life : Nat, since : Nat]

NoEntry == [version |-> 0, text |-> FALSE, life |-> 0, since |-> 0]

EntryOf(rep) == [version |-> rep.version, text |-> rep.text,
                 life |-> rep.life, since |-> now]

Phases == {"closed", "ready", "navigating", "revalidating", "writing", "orphaned"}

\* A reply: none yet, a network error, a 304, or a full response.
NoReply == [kind |-> "none"]
NetError == [kind |-> "error"]
NotModified(life) == [kind |-> "304", life |-> life]
Full(rep) == [kind |-> "200", rep |-> rep]

Replies == {NoReply, NetError} \cup {NotModified(l) : l \in Lifetimes}
             \cup {Full(rep) : rep \in Representation}

Init ==
  /\ now = 1
  /\ origin \in {rep \in Representation : rep.version = 1}
  /\ mem = [r \in Renderers |-> NoEntry]
  /\ disk = NoEntry /\ torn = FALSE
  /\ phase = [r \in Renderers |-> "closed"]
  /\ reply = [r \in Renderers |-> NoReply]
  /\ seen = 0
  /\ vouched = [v \in 1..MaxVersion |-> 0]
  /\ apart = FALSE

\* CachedResponse::is_fresh
IsFresh(e) == e.version # 0 /\ now - e.since < e.life

-----------------------------------------------------------------------------
\* with_disk: load_all_from_disk skips a file that cannot be read, does not
\* parse or does not hold decoded text, and keeps the age of the entry.
LoadedAsNew == IF torn \/ ~disk.text THEN NoEntry ELSE [disk EXCEPT !.since = now]
Loaded == IF torn \/ ~disk.text THEN NoEntry ELSE disk

Open(r) ==
  /\ phase[r] = "closed"
  /\ \E fails \in Failures :
       mem' = [mem EXCEPT ![r] = IF fails THEN NoEntry ELSE Loaded]
  /\ phase' = [phase EXCEPT ![r] = "ready"]
  /\ apart' = (apart \/ \E q \in Renderers : phase[q] # "closed")
  /\ UNCHANGED <<now, origin, disk, torn, reply, seen, vouched>>

\* The navigation is over and its renderer dropped.
Close(r) ==
  /\ phase[r] = "ready"
  /\ mem' = [mem EXCEPT ![r] = NoEntry]
  /\ phase' = [phase EXCEPT ![r] = "closed"]
  /\ UNCHANGED <<now, origin, disk, torn, reply, seen, vouched, apart>>

\* The process ends: every renderer is gone, a write in progress stays torn.
Crash ==
  /\ mem' = [r \in Renderers |-> NoEntry]
  /\ phase' = [r \in Renderers |-> "closed"]
  /\ reply' = [r \in Renderers |-> NoReply]
  /\ UNCHANGED <<now, origin, disk, torn, seen, vouched, apart>>

\* fetch_or_speculate, fetch_all_or_speculate: a fresh entry answers.  The
\* headless render then spawns a background revalidation.
ServeFromCache(r) ==
  /\ phase[r] = "ready" /\ IsFresh(mem[r])
  /\ \/ UNCHANGED phase
     \/ phase' = [phase EXCEPT ![r] = "revalidating"]
  /\ UNCHANGED <<now, origin, mem, disk, torn, reply, seen, vouched, apart>>

\* fetch_or_speculate without a fresh entry: the request goes out.
SendRequest(r) ==
  /\ phase[r] = "ready" /\ ~IsFresh(mem[r])
  /\ phase' = [phase EXCEPT ![r] = "navigating"]
  /\ UNCHANGED <<now, origin, mem, disk, torn, reply, seen, vouched, apart>>

\* The origin answers in full or, when the validators of the stored entry
\* match what it serves, with a 304, whose headers may carry a new lifetime;
\* the network may fail instead.
OriginAnswers(r) ==
  /\ phase[r] \in {"navigating", "revalidating"} /\ reply[r] = NoReply
  /\ \E a \in {NetError, Full(origin)} \cup
               {NotModified(l) : l \in Lifetimes} :
       /\ a.kind = "304" => mem[r].version = origin.version
       /\ reply' = [reply EXCEPT ![r] = a]
  /\ UNCHANGED <<now, origin, mem, disk, torn, phase, seen, vouched, apart>>

\* The results of the file operations are discarded: the file stays as it is
\* when it cannot be opened or unlinked.
LeaveFile(r) ==
  /\ UNCHANGED <<disk, torn>>
  /\ phase' = [phase EXCEPT ![r] = "ready"]

\* put_to_disk writes a decoded text entry and leaves any other file alone.
\* std::fs::write opens the file, which truncates it, and ends in FinishWrite;
\* when the directory or the file cannot be opened nothing is truncated.
StartWrite(r, e, fails) ==
  \/ /\ e.text /\ ~fails
     /\ disk' = e /\ torn' = TRUE
     /\ phase' = [phase EXCEPT ![r] = "writing"]
  \/ (~e.text \/ fails) /\ LeaveFile(r)

\* remove_from_disk unlinks the file: a writer that has it open goes on
\* writing to a file no renderer can open.
Unlink(r, fails) ==
  \/ /\ ~fails
     /\ disk' = NoEntry /\ torn' = FALSE
     /\ phase' = [q \in Renderers |->
                   IF q = r THEN "ready"
                   ELSE IF phase[q] = "writing" THEN "orphaned" ELSE phase[q]]
  \/ fails /\ LeaveFile(r)

\* Mutant: a response that is not stored is only dropped from memory.
RemoveMemoryOnly(r, fails) ==
  /\ mem' = [mem EXCEPT ![r] = NoEntry]
  /\ LeaveFile(r)

\* ResponseCache::put
RemoveEntry(r, fails) ==
  /\ mem' = [mem EXCEPT ![r] = NoEntry]
  /\ Unlink(r, fails)

Put(r, rep, fails) ==
  \/ ~rep.storable /\ RemoveEntry(r, fails)
  \/ /\ rep.storable
     /\ mem' = [mem EXCEPT ![r] = EntryOf(rep)]
     /\ StartWrite(r, EntryOf(rep), fails)

\* The response leaves the file of an earlier one behind: it is stored but is
\* not text, or the file could not be opened or unlinked.
LeavesOlder(rep, fails) ==
  disk # NoEntry /\ (fails \/ (rep.storable /\ ~rep.text))

\* No other renderer is open, and nothing newer than rep was received.
Rejoins(r, rep) ==
  rep.version >= seen /\ \A q \in Renderers \ {r} : phase[q] = "closed"

\* refresh_from_not_modified: the headers of the 304 replace the stored ones
\* and the entry's freshness restarts from now.
Refresh(r, fails) ==
  LET e == [mem[r] EXCEPT !.since = now, !.life = reply[r].life] IN
  /\ mem' = [mem EXCEPT ![r] = e]
  /\ StartWrite(r, e, fails)

Max2(a, b) == IF a < b THEN b ELSE a

Received(r, kind) == reply[r].kind = kind /\ reply' = [reply EXCEPT ![r] = NoReply]

ReceiveError(r) ==
  /\ Received(r, "error")
  /\ phase' = [phase EXCEPT ![r] = "ready"]
  /\ UNCHANGED <<now, origin, mem, disk, torn, seen, vouched, apart>>

\* A 304 on the navigation path serves and refreshes the stored entry; on
\* the background path handle_revalidation leaves everything alone.
ReceiveNotModified(r) ==
  /\ Received(r, "304")
  /\ \/ /\ phase[r] = "navigating"
        /\ \E fails \in Failures : Refresh(r, fails)
        /\ vouched' = [vouched EXCEPT ![mem[r].version] = now]
        /\ UNCHANGED apart
     \/ /\ phase[r] = "revalidating"
        /\ phase' = [phase EXCEPT ![r] = "ready"]
        /\ UNCHANGED <<mem, disk, torn, vouched, apart>>
  /\ UNCHANGED <<now, origin, seen>>

\* A full response replaces the entry on both paths: update_cache runs before
\* the page is rendered again.
ReceiveFull(r) ==
  /\ Received(r, "200")
  /\ LET rep == reply[r].rep IN
       /\ \E fails \in Failures :
            /\ Put(r, rep, fails)
            /\ apart' = (LeavesOlder(rep, fails) \/ (apart /\ ~Rejoins(r, rep)))
       /\ seen' = Max2(seen, rep.version)
       /\ vouched' = [vouched EXCEPT ![rep.version] = now]
  /\ UNCHANGED <<now, origin>>

\* The write completes, or a full disk or a second writer of the same file
\* leaves something that does not parse.
FinishWrite(r) ==
  /\ \/ phase[r] = "writing" /\ torn' \in BOOLEAN /\ disk' = mem[r]
     \/ phase[r] = "orphaned" /\ UNCHANGED <<disk, torn>>
  /\ phase' = [phase EXCEPT ![r] = "ready"]
  /\ UNCHANGED <<now, origin, mem, reply, seen, vouched, apart>>

-----------------------------------------------------------------------------
\* Environment: time passes, the origin publishes another representation.
Tick ==
  /\ now < MaxTime /\ now' = now + 1
  /\ UNCHANGED <<origin, mem, disk, torn, phase, reply, seen, vouched, apart>>

Publish ==
  /\ origin.version < MaxVersion
  /\ origin' \in {rep \in Representation : rep.version = origin.version + 1}
  /\ UNCHANGED <<now, mem, disk, torn, phase, reply, seen, vouched, apart>>

RendererStep(r) ==
  \/ Open(r) \/ Close(r) \/ ServeFromCache(r) \/ SendRequest(r)
  \/ OriginAnswers(r) \/ ReceiveError(r) \/ ReceiveNotModified(r)
  \/ ReceiveFull(r) \/ FinishWrite(r)

Next == Tick \/ Publish \/ Crash \/ \E r \in Renderers : RendererStep(r)

Spec == Init /\ [][Next]_vars

-----------------------------------------------------------------------------
(***************************************************************************)
(* Properties.                                                             *)
(***************************************************************************)

\* Type invariant of the cache.
TypeOK ==
  /\ now \in 1..MaxTime
  /\ origin \in Representation
  /\ mem \in [Renderers -> Entry]
  /\ disk \in Entry /\ torn \in BOOLEAN
  /\ phase \in [Renderers -> Phases]
  /\ reply \in [Renderers -> Replies]
  /\ seen \in 0..MaxVersion
  /\ vouched \in [1..MaxVersion -> 0..MaxTime]
  /\ apart \in BOOLEAN

\* What put keeps of its promise that "the cache never answers with a
\* representation the origin has replaced": while renderers follow one
\* another and no response left an earlier one's file behind, a version older
\* than one already received is never served again, across torn writes,
\* failed refreshes and loads, crashes, and responses that forbid storing.
\* Once parted, memory and disk are one again with the next response that a
\* renderer alone in the directory writes or removes.
ReplacedStaysGone ==
  [][\A r \in Renderers : ServeFromCache(r) => apart \/ mem[r].version >= seen]_vars

\* An entry answers on its own only within its lifetime of the last time the
\* origin spoke for it: neither a restart, nor a torn write, nor another
\* renderer's late write makes an entry younger than it is.
ServedWithinLifetime ==
  \A r \in Renderers :
    phase[r] = "ready" /\ IsFresh(mem[r]) =>
      now - vouched[mem[r].version] < mem[r].life

\* The state of the cache, in memory and on disk.
CacheInv == TypeOK /\ ServedWithinLifetime
=============================================================================
