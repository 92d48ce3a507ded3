---------------------------- MODULE ChildFramesProofs ----------------------------
(***************************************************************************)
(* Proofs about ChildFrames, for every number of iframes, every depth, cap *)
(* and number of permits, and every set of pages.                          *)
(*                                                                         *)
(* That a walk may drop a document together with all it holds is safe      *)
(* because of where the walk stands (StackOK): the calls below the         *)
(* innermost one are of documents around its own, and it drops only        *)
(* children of its own.  That the load events go bottom up needs that      *)
(* nothing lives in a document that is gone (TreeInv).                     *)
(***************************************************************************)
EXTENDS ChildFrames, FiniteSetTheorems, SequenceTheorems, WellFoundedInduction, TLAPS

BuiltIn(k) == {Root} \cup {f \in Frames : k[f].state = "ready"}

\* Every child frame has a built document around it; one that has had its load
\* event is built; and one that its document waited for is settled when that
\* document's load event has fired.
TreeInv(k, loads) ==
  /\ k \in [Frames -> Kid]
  /\ loads \subseteq BuiltIn(k)
  /\ \A f \in Frames : k[f].state # "none" =>
       /\ Front(f) \in BuiltIn(k)
       /\ k[f].load => k[f].state = "ready" /\ f \notin loads
       /\ ~k[f].late /\ Front(f) \notin loads => k[f].state = "failed" \/ k[f].load

Candidate == [frame : Frames, src : Sources \cup {Unsized}]
Call == [doc : Docs, todo : Seq(Candidate), kept : SUBSET Frames]

OwnTodo(c) == \A i \in 1..Len(c.todo) : c.todo[i].frame \in KidsOf(c.doc)
DocsOf(w) == {w[i].doc : i \in 1..Len(w)}

\* The calls of the walk are of documents one inside the other, and each
\* updates children of its own.
StackOK(w) ==
  /\ w \in Seq(Call)
  /\ \A i \in 1..Len(w) : OwnTodo(w[i])
  /\ \A i, j \in 1..Len(w) : i <= j => IsPrefix(w[j].doc, w[i].doc)

WalkInv == StackOK(walk) /\ DocsOf(walk) \subseteq Built

Fetching(k) == {f \in Frames : k[f].state = "loading"}

PermitInv ==
  /\ active \in 0..MaxJobs /\ lingering \in Nat
  /\ IsFiniteSet(Fetching(kid))
  /\ active = lingering + Cardinality(Fetching(kid))

ScriptsTypeOK ==
  /\ src \in [Frames -> Sources \cup {Absent, Unsized}]
  /\ remaining \in 0..(Word - 1) /\ changes \in 0..MaxChanges

FramesIInv == TreeInv(kid, loadPending) /\ WalkInv /\ PermitInv /\ ScriptsTypeOK

-----------------------------------------------------------------------------
(***************************************************************************)
(* Paths.                                                                  *)
(***************************************************************************)
LEMMA PathsAreSeqs ==
  /\ \A f : f \in Frames <=> f \in Seq(Owners) /\ Len(f) \in 1..MaxDepth
  /\ \A d : d \in Docs <=> d \in Seq(Owners) /\ Len(d) \in 0..MaxDepth
<1>1. \A f : f \in Frames => f \in Seq(Owners) /\ Len(f) \in 1..MaxDepth
  BY FramesAssumption, SeqDef DEF Frames
<1>2. \A f \in Seq(Owners) : Len(f) \in 1..MaxDepth => f \in Frames
  BY LenProperties DEF Frames
<1>3. Root \in Seq(Owners) /\ Len(Root) = 0
  BY DEF Root
<1>4. \A d \in Seq(Owners) : Len(d) = 0 => d = Root
  BY DEF Root
<1>5. \A f : f \in Frames <=> f \in Seq(Owners) /\ Len(f) \in 1..MaxDepth
  BY <1>1, <1>2
<1>6. ASSUME NEW d PROVE d \in Docs <=> d \in Seq(Owners) /\ Len(d) \in 0..MaxDepth
  <2>1. d \in Docs <=> d \in Frames \/ d = Root
    BY DEF Docs
  <2>2. d \in Seq(Owners) => Len(d) \in Nat
    OBVIOUS
  <2>3. d \in Seq(Owners) => (Len(d) \in 0..MaxDepth <=> Len(d) = 0 \/ Len(d) \in 1..MaxDepth)
    BY <2>2, FramesAssumption
  <2> QED
    BY <1>3, <1>4, <1>5, <2>1, <2>3, Zenon
<1> QED
  BY <1>5, <1>6

LEMMA PrefixMeans ==
  ASSUME NEW s \in Seq(Owners), NEW t \in Seq(Owners)
  PROVE  IsPrefix(s, t) <=> Len(s) <= Len(t) /\ \A i \in 1..Len(s) : s[i] = t[i]
<1> SUFFICES ASSUME Len(s) <= Len(t)
             PROVE  SubSeq(s, 1, Len(s)) = SubSeq(t, 1, Len(s))
                      <=> \A i \in 1..Len(s) : s[i] = t[i]
  BY DEF IsPrefix
<1>1. SubSeq(s, 1, Len(s)) \in Seq(Owners) /\ Len(SubSeq(s, 1, Len(s))) = Len(s)
      /\ \A i \in 1..Len(s) : SubSeq(s, 1, Len(s))[i] = s[i]
  BY SubSeqProperties, LenProperties
<1>2. SubSeq(t, 1, Len(s)) \in Seq(Owners) /\ Len(SubSeq(t, 1, Len(s))) = Len(s)
      /\ \A i \in 1..Len(s) : SubSeq(t, 1, Len(s))[i] = t[i]
  BY SubSeqProperties, LenProperties
<1> QED
  BY <1>1, <1>2, SeqEqual

LEMMA PrefixOrder ==
  /\ \A s \in Seq(Owners) : IsPrefix(s, s)
  /\ \A s, t, u \in Seq(Owners) : IsPrefix(s, t) /\ IsPrefix(t, u) => IsPrefix(s, u)
<1>1. ASSUME NEW s \in Seq(Owners) PROVE IsPrefix(s, s)
  BY PrefixMeans
<1>2. ASSUME NEW s \in Seq(Owners), NEW t \in Seq(Owners), NEW u \in Seq(Owners),
             IsPrefix(s, t), IsPrefix(t, u)
      PROVE  IsPrefix(s, u)
  <2>1. Len(s) <= Len(t) /\ \A i \in 1..Len(s) : s[i] = t[i]
    BY <1>2, PrefixMeans
  <2>2. Len(t) <= Len(u) /\ \A i \in 1..Len(t) : t[i] = u[i]
    BY <1>2, PrefixMeans
  <2>3. Len(s) <= Len(u) /\ \A i \in 1..Len(s) : s[i] = u[i]
    BY <2>1, <2>2
  <2> QED
    BY <2>3, PrefixMeans
<1> QED
  BY <1>1, <1>2

LEMMA FrontIsDoc ==
  ASSUME NEW f \in Frames
  PROVE  Front(f) \in Docs /\ Len(Front(f)) = Len(f) - 1 /\ IsPrefix(Front(f), f)
<1>1. f \in Seq(Owners) /\ Len(f) \in 1..MaxDepth
  BY PathsAreSeqs
<1>2. Front(f) \in Seq(Owners) /\ Len(Front(f)) = Len(f) - 1
      /\ \A i \in 1..Len(f) - 1 : Front(f)[i] = f[i]
  <2>1. \A i \in 1..Len(f) - 1 : f[i] \in Owners
    BY <1>1
  <2>2. PICK m \in Int : m = Len(f) - 1
    BY <1>1
  <2>3. SubSeq(f, 1, m) \in Seq(Owners) /\ Len(SubSeq(f, 1, m)) = m
        /\ \A i \in 1..m : SubSeq(f, 1, m)[i] = f[i]
    BY <1>1, <2>1, <2>2, SubSeqProperties
  <2> QED
    BY <2>2, <2>3 DEF Front
<1>3. Len(Front(f)) \in 0..MaxDepth
  BY <1>1, <1>2, FramesAssumption
<1>4. IsPrefix(Front(f), f)
  BY <1>1, <1>2, PrefixMeans
<1> QED
  BY <1>2, <1>3, <1>4, PathsAreSeqs

LEMMA KidsAre ==
  ASSUME NEW d \in Docs, NEW f \in Frames
  PROVE  f \in KidsOf(d) <=> Front(f) = d
<1>1. f \in Seq(Owners) /\ d \in Seq(Owners) /\ Front(f) \in Seq(Owners)
  BY FrontIsDoc, PathsAreSeqs
<1>2. ASSUME f \in KidsOf(d) PROVE Front(f) = d
  <2>1. Len(f) = Len(d) + 1 /\ \A i \in 1..Len(d) : d[i] = f[i]
    BY <1>1, <1>2, PrefixMeans DEF KidsOf
  <2>2. Len(Front(f)) = Len(f) - 1 /\ \A i \in 1..Len(Front(f)) : Front(f)[i] = f[i]
    BY <1>1, FrontIsDoc, PrefixMeans
  <2> QED
    BY <1>1, <2>1, <2>2, SeqEqual
<1>3. ASSUME Front(f) = d PROVE f \in KidsOf(d)
  BY <1>1, <1>3, FrontIsDoc DEF KidsOf
<1> QED
  BY <1>2, <1>3

\* What Under drops is closed, and a child is in it only with its document,
\* unless it is the one that is dropped.
LEMMA UnderFacts ==
  ASSUME NEW g \in Frames
  PROVE  /\ g \in Under(g) /\ Under(g) \subseteq Frames
         /\ \A f \in Frames : Front(f) \in Under(g) => f \in Under(g)
         /\ \A f \in Under(g) : f # g => Front(f) \in Under(g)
<1>1. g \in Seq(Owners) /\ g \in Under(g) /\ Under(g) \subseteq Frames
  BY PathsAreSeqs, PrefixOrder DEF Under
<1>2. ASSUME NEW f \in Frames, Front(f) \in Under(g) PROVE f \in Under(g)
  <2>1. f \in Seq(Owners) /\ Front(f) \in Seq(Owners)
    BY FrontIsDoc, PathsAreSeqs
  <2> QED
    BY <1>1, <1>2, <2>1, FrontIsDoc, PrefixOrder DEF Under
<1>3. ASSUME NEW f \in Under(g), f # g PROVE Front(f) \in Under(g)
  <2>1. f \in Frames /\ f \in Seq(Owners) /\ Front(f) \in Seq(Owners)
    BY <1>3, FrontIsDoc, PathsAreSeqs DEF Under
  <2>2. Len(g) <= Len(f) /\ \A i \in 1..Len(g) : g[i] = f[i]
    BY <1>1, <2>1, PrefixMeans DEF Under
  <2>3. Len(g) # Len(f)
    BY <1>1, <1>3, <2>1, <2>2, SeqEqual
  <2>4. Len(Front(f)) = Len(f) - 1 /\ \A i \in 1..Len(Front(f)) : Front(f)[i] = f[i]
    BY <2>1, FrontIsDoc, PrefixMeans
  <2>5. Len(g) \in Nat /\ Len(f) \in Nat /\ Len(g) <= Len(Front(f))
    BY <1>1, <2>1, <2>2, <2>3, <2>4, LenProperties
  <2>6. IsPrefix(g, Front(f))
    BY <1>1, <2>1, <2>2, <2>4, <2>5, PrefixMeans
  <2>7. Front(f) \in Frames
    BY <2>1, <2>5, FrontIsDoc, PathsAreSeqs
  <2> QED
    BY <2>6, <2>7 DEF Under
<1> QED
  BY <1>1, <1>2, <1>3

\* A document around d, d itself included, is in no child of d.
LEMMA AroundIsOutside ==
  ASSUME NEW d \in Docs, NEW e \in Docs, IsPrefix(e, d), NEW g \in KidsOf(d)
  PROVE  e \notin Under(g)
<1>1. d \in Seq(Owners) /\ e \in Seq(Owners) /\ g \in Seq(Owners)
  BY PathsAreSeqs DEF KidsOf
<1>2. Len(e) <= Len(d) /\ Len(g) = Len(d) + 1
  BY <1>1, PrefixMeans DEF KidsOf
<1> QED
  BY <1>1, <1>2, PrefixMeans DEF Under

LEMMA AppendIsKid ==
  ASSUME NEW d \in Docs, Len(d) < MaxDepth, NEW o \in Owners
  PROVE  Append(d, o) \in Frames /\ Append(d, o) \in KidsOf(d)
<1>1. d \in Seq(Owners) /\ Len(d) \in 0..MaxDepth
  BY PathsAreSeqs
<1>2. /\ Append(d, o) \in Seq(Owners) /\ Len(Append(d, o)) = Len(d) + 1
      /\ \A i \in 1..Len(d) : Append(d, o)[i] = d[i]
  BY <1>1, AppendProperties
<1>3. PICK f : f = Append(d, o)
  OBVIOUS
<1>4. f \in Seq(Owners) /\ Len(f) = Len(d) + 1 /\ \A i \in 1..Len(d) : f[i] = d[i]
  BY <1>2, <1>3
<1>5. Len(f) \in 1..MaxDepth /\ Len(d) <= Len(f)
  BY <1>1, <1>4, FramesAssumption
<1>6. f \in Frames /\ IsPrefix(d, f)
  BY <1>1, <1>4, <1>5, PathsAreSeqs, PrefixMeans
<1> QED
  BY <1>3, <1>4, <1>6 DEF KidsOf

-----------------------------------------------------------------------------
(***************************************************************************)
(* The children a call of the walk takes up.                               *)
(***************************************************************************)

\* A set of numbers has a least one, and so a set that holds 0 and is closed
\* under successor holds them all.
LEMMA NatMin ==
  ASSUME NEW T \in SUBSET Nat, T # {}
  PROVE  \E m \in T : \A k \in T : m <= k
<1>1. PICK m \in T : \A k \in T : ~ (<<k, m>> \in OpToRel(<, Nat))
  BY WFMin, NatLessThanWellFounded, Zenon
<1>2. \A k \in T : ~(k < m)
  BY <1>1 DEF OpToRel
<1> QED
  BY <1>2

LEMMA NatInductiveSet ==
  ASSUME NEW T, 0 \in T, \A n \in Nat : n \in T => n + 1 \in T
  PROVE  Nat \subseteq T
<1> SUFFICES ASSUME Nat \ T # {} PROVE FALSE
  OBVIOUS
<1>1. PICK m \in Nat \ T : \A k \in Nat \ T : m <= k
  BY NatMin
<1>2. m # 0 /\ m - 1 \in Nat /\ m - 1 \in T
  BY <1>1
<1> QED
  BY <1>1, <1>2

OwnCandidate(d) == [frame : KidsOf(d), src : Sources \cup {Unsized}]

\* g[n] is what Candidates collects from the first n owners.
Collected(d, iframes, n, g) ==
  /\ g[0] = << >>
  /\ \A m \in 1..n : g[m] = IF iframes[m] = Absent THEN g[m - 1]
                            ELSE Append(g[m - 1], [frame |-> Append(d, m), src |-> iframes[m]])

LEMMA CollectedExists ==
  ASSUME NEW d \in Docs, Len(d) < MaxDepth,
         NEW iframes \in [Owners -> Sources \cup {Absent, Unsized}]
  PROVE  \E g \in [0..OwnerCount -> Seq(OwnCandidate(d))] : Collected(d, iframes, OwnerCount, g)
<1> DEFINE S == Seq(OwnCandidate(d))
           T == {n \in Nat : n <= OwnerCount => \E g \in [0..n -> S] : Collected(d, iframes, n, g)}
<1>1. 0 \in T
  <2>1. << >> \in S
    OBVIOUS
  <2>2. PICK g : g = [n \in 0..0 |-> << >>]
    OBVIOUS
  <2>3. g \in [0..0 -> S] /\ Collected(d, iframes, 0, g)
    BY <2>1, <2>2 DEF Collected
  <2> QED
    BY <2>3
<1>2. ASSUME NEW n \in Nat, n \in T PROVE n + 1 \in T
  <2> SUFFICES ASSUME n + 1 <= OwnerCount
               PROVE  \E g \in [0..(n + 1) -> S] : Collected(d, iframes, n + 1, g)
    OBVIOUS
  <2>1. OwnerCount \in Nat /\ n <= OwnerCount /\ n + 1 \in Owners
    BY FramesAssumption DEF Owners
  <2>2. PICK g \in [0..n -> S] : Collected(d, iframes, n, g)
    BY <1>2, <2>1
  <2>3. PICK c : c = [frame |-> Append(d, n + 1), src |-> iframes[n + 1]]
    OBVIOUS
  <2>4. iframes[n + 1] # Absent => c \in OwnCandidate(d)
    BY <2>1, <2>3, AppendIsKid DEF OwnCandidate
  <2>5. PICK x : x = IF iframes[n + 1] = Absent THEN g[n] ELSE Append(g[n], c)
    OBVIOUS
  <2>6. x \in S
    <3>1. g[n] \in S
      BY <2>2
    <3> QED
      BY <2>4, <2>5, <3>1
  <2> HIDE DEF S
  <2>7. PICK h : h = [m \in 0..(n + 1) |-> IF m = n + 1 THEN x ELSE g[m]]
    OBVIOUS
  <2>8. h \in [0..(n + 1) -> S]
    BY <2>2, <2>6, <2>7
  <2>9. h[n + 1] = x /\ \A m \in 0..n : h[m] = g[m]
    BY <2>7
  <2>10. ASSUME NEW m \in 1..(n + 1)
         PROVE  h[m] = IF iframes[m] = Absent THEN h[m - 1]
                       ELSE Append(h[m - 1], [frame |-> Append(d, m), src |-> iframes[m]])
    <3>1. CASE m = n + 1
      BY <2>3, <2>5, <2>9, <3>1
    <3>2. CASE m # n + 1
      <4>1. m \in 1..n /\ m \in 0..n /\ m - 1 \in 0..n
        BY <3>2
      <4>2. g[m] = IF iframes[m] = Absent THEN g[m - 1]
                   ELSE Append(g[m - 1], [frame |-> Append(d, m), src |-> iframes[m]])
        BY <2>2, <4>1 DEF Collected
      <4> QED
        BY <2>9, <4>1, <4>2
    <3> QED
      BY <3>1, <3>2
  <2>11. h[0] = << >>
    BY <2>2, <2>9 DEF Collected
  <2> QED
    BY <2>8, <2>10, <2>11 DEF Collected
<1> HIDE DEF T
<1>3. OwnerCount \in T
  BY <1>1, <1>2, NatInductiveSet, FramesAssumption
<1> QED
  BY <1>3, FramesAssumption DEF T

LEMMA CandidatesAreKids ==
  ASSUME NEW d \in Docs, Len(d) < MaxDepth,
         NEW iframes \in [Owners -> Sources \cup {Absent, Unsized}]
  PROVE  Candidates(d, iframes) \in Seq(OwnCandidate(d))
<1> DEFINE Of(g) == [n \in 0..OwnerCount |->
             IF n = 0 THEN << >>
             ELSE IF iframes[n] = Absent THEN g[n - 1]
             ELSE Append(g[n - 1], [frame |-> Append(d, n), src |-> iframes[n]])]
           g == CHOOSE f : f = Of(f)
<1>1. Candidates(d, iframes) = g[OwnerCount]
  BY DEF Candidates
<1>2. PICK f \in [0..OwnerCount -> Seq(OwnCandidate(d))] : Collected(d, iframes, OwnerCount, f)
  BY CollectedExists
<1>3. f = Of(f)
  <2>1. ASSUME NEW n \in 0..OwnerCount PROVE f[n] = Of(f)[n]
    <3>1. Of(f)[n] = IF n = 0 THEN << >>
                     ELSE IF iframes[n] = Absent THEN f[n - 1]
                     ELSE Append(f[n - 1], [frame |-> Append(d, n), src |-> iframes[n]])
      BY Zenon
    <3>2. CASE n = 0
      BY <1>2, <3>1, <3>2 DEF Collected
    <3>3. CASE n # 0
      <4>1. n \in 1..OwnerCount
        BY <3>3, FramesAssumption
      <4> QED
        BY <1>2, <3>1, <3>3, <4>1 DEF Collected
    <3> QED
      BY <3>2, <3>3
  <2>2. DOMAIN f = 0..OwnerCount /\ f = [n \in 0..OwnerCount |-> f[n]]
    BY <1>2
  <2>3. Of(f) = [n \in 0..OwnerCount |-> Of(f)[n]]
    BY Zenon
  <2> HIDE DEF Of
  <2> QED
    BY <2>1, <2>2, <2>3
<1>4. g = Of(g)
  BY <1>3
<1>5. \A n \in 0..OwnerCount : g[n] = IF n = 0 THEN << >>
             ELSE IF iframes[n] = Absent THEN g[n - 1]
             ELSE Append(g[n - 1], [frame |-> Append(d, n), src |-> iframes[n]])
  BY <1>4, Zenon
<1> HIDE DEF g, Of
<1> DEFINE T == {n \in Nat : n <= OwnerCount => g[n] \in Seq(OwnCandidate(d))}
<1>6. 0 \in T
  <2>1. << >> \in Seq(OwnCandidate(d)) /\ 0 \in 0..OwnerCount
    BY FramesAssumption
  <2>2. g[0] = << >>
    BY <1>5, <2>1
  <2> QED
    BY <2>1, <2>2
<1>7. ASSUME NEW n \in Nat, n \in T PROVE n + 1 \in T
  <2> SUFFICES ASSUME n + 1 <= OwnerCount PROVE g[n + 1] \in Seq(OwnCandidate(d))
    OBVIOUS
  <2>1. n + 1 \in 0..OwnerCount /\ n + 1 \in Owners /\ g[n] \in Seq(OwnCandidate(d))
    BY <1>7, FramesAssumption DEF Owners
  <2>2. PICK c : c = [frame |-> Append(d, n + 1), src |-> iframes[n + 1]]
    OBVIOUS
  <2>3. iframes[n + 1] # Absent => c \in OwnCandidate(d)
    BY <2>1, <2>2, AppendIsKid DEF OwnCandidate
  <2>4. g[n + 1] = IF iframes[n + 1] = Absent THEN g[n] ELSE Append(g[n], c)
    <3>1. PICK m \in 0..OwnerCount : m = n + 1
      BY <2>1
    <3>2. m # 0 /\ m - 1 = n
      BY <3>1
    <3>3. g[m] = IF iframes[m] = Absent THEN g[m - 1]
                 ELSE Append(g[m - 1], [frame |-> Append(d, m), src |-> iframes[m]])
      BY <1>5, <3>2
    <3> QED
      BY <2>2, <3>1, <3>2, <3>3
  <2> QED
    BY <2>1, <2>3, <2>4
<1> HIDE DEF T
<1>8. OwnerCount \in T
  BY <1>6, <1>7, NatInductiveSet, FramesAssumption
<1> QED
  BY <1>1, <1>8, FramesAssumption DEF T

\* A call of the walk starts on children of its own document.
LEMMA EnteredIsCall ==
  ASSUME NEW d \in Docs, NEW budget \in Nat,
         NEW iframes \in [Owners -> Sources \cup {Absent, Unsized}], NEW c,
         c = Entered(d, budget, iframes)
  PROVE  c \in Call /\ c.doc = d /\ OwnTodo(c)
<1>1. CASE Len(d) < MaxDepth /\ budget > 0
  <2>1. PICK all : all = Candidates(d, iframes)
    OBVIOUS
  <2>2. all \in Seq(OwnCandidate(d))
    BY <1>1, <2>1, CandidatesAreKids
  <2>3. PICK n \in Nat : n = IF Len(all) < budget THEN Len(all) ELSE budget
    BY <2>2
  <2>4. n <= Len(all)
    BY <2>2, <2>3
  <2>5. PICK todo : todo = SubSeq(all, 1, n)
    OBVIOUS
  <2>6. todo \in Seq(OwnCandidate(d))
    BY <2>2, <2>4, <2>5, SubSeqProperties
  <2>7. c = [doc |-> d, todo |-> todo, kept |-> {}]
    BY <1>1, <2>1, <2>3, <2>5 DEF Entered
  <2>8. OwnCandidate(d) \subseteq Candidate
    BY DEF OwnCandidate, Candidate, KidsOf
  <2>9. todo \in Seq(Candidate)
    BY <2>6, <2>8, SeqMonotonic
  <2>10. \A i \in 1..Len(todo) : todo[i].frame \in KidsOf(d)
    <3>1. ASSUME NEW i \in 1..Len(todo) PROVE todo[i].frame \in KidsOf(d)
      <4>1. todo[i] \in OwnCandidate(d)
        BY <2>6, ElementOfSeq
      <4> QED
        BY <4>1 DEF OwnCandidate
    <3> QED
      BY <3>1
  <2> QED
    BY <2>7, <2>9, <2>10 DEF Call, OwnTodo
<1>2. CASE ~(Len(d) < MaxDepth /\ budget > 0)
  <2>1. PICK kept : kept = KidsOf(d) \cap Tracked
    OBVIOUS
  <2>2. c = [doc |-> d, todo |-> << >>, kept |-> kept]
    BY <1>2, <2>1 DEF Entered
  <2>3. << >> \in Seq(Candidate) /\ kept \subseteq Frames /\ Len(<< >>) = 0
    BY <2>1 DEF KidsOf
  <2> QED
    BY <2>2, <2>3 DEF Call, OwnTodo
<1> QED
  BY <1>1, <1>2

-----------------------------------------------------------------------------
(***************************************************************************)
(* The stack of calls.                                                     *)
(***************************************************************************)
LEMMA StackPop ==
  ASSUME NEW w, StackOK(w), w # << >>
  PROVE  StackOK(Tail(w)) /\ DocsOf(Tail(w)) \subseteq DocsOf(w)
<1>1. PICK t : t = Tail(w)
  OBVIOUS
<1>2. w \in Seq(Call) /\ t \in Seq(Call) /\ Len(t) = Len(w) - 1 /\ Len(w) \in Nat
      /\ \A i \in 1..Len(t) : t[i] = w[i + 1]
  BY <1>1, HeadTailProperties, LenProperties DEF StackOK
<1>3. \A i \in 1..Len(t) : i + 1 \in 1..Len(w)
  BY <1>2
<1>4. \A i \in 1..Len(t) : OwnTodo(t[i])
  BY <1>2, <1>3 DEF StackOK
<1>5. ASSUME NEW i \in 1..Len(t), NEW j \in 1..Len(t), i <= j PROVE IsPrefix(t[j].doc, t[i].doc)
  <2>1. i + 1 <= j + 1 /\ i + 1 \in 1..Len(w) /\ j + 1 \in 1..Len(w)
    BY <1>2, <1>3, <1>5
  <2> QED
    BY <1>2, <2>1 DEF StackOK
<1>6. DocsOf(t) \subseteq DocsOf(w)
  BY <1>2, <1>3 DEF DocsOf
<1> QED
  BY <1>1, <1>2, <1>4, <1>5, <1>6 DEF StackOK

LEMMA StackPush ==
  ASSUME NEW w, StackOK(w), NEW c \in Call, OwnTodo(c),
         w # << >> => IsPrefix(w[1].doc, c.doc)
  PROVE  StackOK(<<c>> \o w) /\ DocsOf(<<c>> \o w) \subseteq {c.doc} \cup DocsOf(w)
<1>1. PICK t : t = <<c>> \o w
  OBVIOUS
<1>2. w \in Seq(Call) /\ t \in Seq(Call) /\ Len(t) = Len(w) + 1 /\ Len(w) \in Nat
      /\ t[1] = c /\ \A i \in 2..Len(t) : t[i] = w[i - 1]
  BY <1>1, LenProperties DEF StackOK
<1>3. \A i \in 2..Len(t) : i - 1 \in 1..Len(w)
  BY <1>2
<1>4. \A i \in 1..Len(t) : i = 1 \/ i \in 2..Len(t)
  BY <1>2
<1>5. ASSUME NEW i \in 1..Len(t) PROVE OwnTodo(t[i])
  <2>1. CASE i = 1
    BY <1>2, <2>1
  <2>2. CASE i # 1
    <3>1. i - 1 \in 1..Len(w) /\ t[i] = w[i - 1]
      BY <1>2, <1>3, <1>4, <2>2
    <3>2. OwnTodo(w[i - 1])
      BY <3>1 DEF StackOK
    <3> QED
      BY <3>1, <3>2
  <2> QED
    BY <2>1, <2>2
<1>6. ASSUME NEW i \in 1..Len(w) PROVE w[i].doc \in Docs /\ w[i].doc \in Seq(Owners)
  <2>1. w[i] \in Call
    BY <1>2, ElementOfSeq
  <2> QED
    BY <2>1, PathsAreSeqs DEF Call
<1>7. c.doc \in Docs /\ c.doc \in Seq(Owners)
  BY PathsAreSeqs DEF Call
<1>8. ASSUME NEW i \in 1..Len(t), NEW j \in 1..Len(t), i <= j PROVE IsPrefix(t[j].doc, t[i].doc)
  <2>1. CASE j = 1
    BY <1>2, <1>7, <1>8, <2>1, PrefixOrder
  <2>2. CASE i = 1 /\ j # 1
    <3>1. j - 1 \in 1..Len(w) /\ 1 \in 1..Len(w) /\ 1 <= j - 1 /\ t[j] = w[j - 1]
      BY <1>2, <1>3, <1>4, <2>2
    <3>2. IsPrefix(w[j - 1].doc, w[1].doc)
      BY <3>1 DEF StackOK
    <3>3. IsPrefix(w[1].doc, c.doc)
      BY <3>1, <1>2
    <3>4. IsPrefix(w[j - 1].doc, c.doc)
      BY <1>6, <1>7, <3>1, <3>2, <3>3, PrefixOrder
    <3> QED
      BY <1>2, <2>2, <3>1, <3>4
  <2>3. CASE i # 1 /\ j # 1
    <3>1. i - 1 \in 1..Len(w) /\ j - 1 \in 1..Len(w) /\ i - 1 <= j - 1
          /\ t[i] = w[i - 1] /\ t[j] = w[j - 1]
      BY <1>2, <1>3, <1>4, <1>8, <2>3
    <3> QED
      BY <3>1 DEF StackOK
  <2> QED
    BY <1>8, <2>1, <2>2, <2>3
<1>9. DocsOf(t) \subseteq {c.doc} \cup DocsOf(w)
  BY <1>2, <1>3, <1>4 DEF DocsOf
<1> QED
  BY <1>1, <1>2, <1>5, <1>8, <1>9 DEF StackOK

-----------------------------------------------------------------------------
(***************************************************************************)
(* The tree of child frames.                                               *)
(***************************************************************************)
Closed(gone) == gone \subseteq Frames /\ \A f \in Frames : Front(f) \in gone => f \in gone

LEMMA NoKidType == NoKid \in Kid /\ NoKid.state = "none"
BY DEF NoKid, Kid, States

\* Documents may be dropped with all they hold.
LEMMA DropTree ==
  ASSUME NEW k, NEW loads, TreeInv(k, loads), NEW gone, Closed(gone), NEW l,
         l = [g \in Frames |-> IF g \in gone THEN NoKid ELSE k[g]]
  PROVE  TreeInv(l, loads \ gone) /\ BuiltIn(l) = {Root} \cup (BuiltIn(k) \ gone)
<1>1. \A g \in Frames : l[g] = IF g \in gone THEN NoKid ELSE k[g]
  OBVIOUS
<1>2. l \in [Frames -> Kid]
  BY NoKidType DEF TreeInv
<1>3. Root \notin Frames
  BY PathsAreSeqs DEF Root
<1>4. BuiltIn(l) = {Root} \cup (BuiltIn(k) \ gone)
  BY <1>1, <1>3, NoKidType DEF BuiltIn, Closed
<1>5. loads \ gone \subseteq BuiltIn(l)
  BY <1>4 DEF TreeInv
<1>6. ASSUME NEW f \in Frames, l[f].state # "none"
      PROVE  /\ Front(f) \in BuiltIn(l)
             /\ l[f].load => l[f].state = "ready" /\ f \notin loads \ gone
             /\ ~l[f].late /\ Front(f) \notin loads \ gone => l[f].state = "failed" \/ l[f].load
  <2>1. f \notin gone /\ l[f] = k[f] /\ k[f].state # "none"
    BY <1>1, <1>6, NoKidType
  <2>2. Front(f) \notin gone
    BY <2>1 DEF Closed
  <2>3. /\ Front(f) \in BuiltIn(k)
        /\ k[f].load => k[f].state = "ready" /\ f \notin loads
        /\ ~k[f].late /\ Front(f) \notin loads => k[f].state = "failed" \/ k[f].load
    BY <2>1 DEF TreeInv
  <2> QED
    BY <1>4, <2>1, <2>2, <2>3, Zenon
<1> QED
  BY <1>2, <1>4, <1>5, <1>6 DEF TreeInv

\* A frame that is not built may become any frame that is not, provided that
\* its document still waits for it, never did, or sees it fail.
LEMMA SetKid ==
  ASSUME NEW k, NEW loads, TreeInv(k, loads), NEW f \in Frames, NEW v \in Kid,
         k[f].state # "ready", v.state \notin {"none", "ready"}, ~v.load,
         Front(f) \in BuiltIn(k),
         v.late \/ Front(f) \in loads \/ v.state = "failed",
         NEW l, l = [k EXCEPT ![f] = v]
  PROVE  TreeInv(l, loads) /\ BuiltIn(l) = BuiltIn(k)
<1>1. k \in [Frames -> Kid]
  BY DEF TreeInv
<1>2. l \in [Frames -> Kid] /\ l[f] = v /\ \A g \in Frames : g # f => l[g] = k[g]
  BY <1>1
<1>3. BuiltIn(l) = BuiltIn(k)
  BY <1>2 DEF BuiltIn
<1>4. ASSUME NEW g \in Frames, l[g].state # "none"
      PROVE  /\ Front(g) \in BuiltIn(l)
             /\ l[g].load => l[g].state = "ready" /\ g \notin loads
             /\ ~l[g].late /\ Front(g) \notin loads => l[g].state = "failed" \/ l[g].load
  <2>1. CASE g = f
    BY <1>2, <1>3, <2>1, Zenon
  <2>2. CASE g # f
    BY <1>2, <1>3, <1>4, <2>2, Zenon DEF TreeInv
  <2> QED
    BY <2>1, <2>2
<1> QED
  BY <1>2, <1>3, <1>4 DEF TreeInv

\* A document that arrived is built and waits for its children.
LEMMA BuildKid ==
  ASSUME NEW k, NEW loads, TreeInv(k, loads), NEW f \in Frames, k[f].state = "arrived",
         NEW l, l = [k EXCEPT ![f].state = "ready"]
  PROVE  TreeInv(l, loads \cup {f}) /\ BuiltIn(l) = BuiltIn(k) \cup {f}
<1>1. k \in [Frames -> Kid] /\ k[f] \in Kid
  BY DEF TreeInv
<1>2. PICK v : v = [k[f] EXCEPT !.state = "ready"]
  OBVIOUS
<1>3. v \in Kid /\ v.state = "ready"
  BY <1>1, <1>2 DEF Kid, States
<1>4. v.late = k[f].late /\ v.load = k[f].load
  BY <1>1, <1>2 DEF Kid
<1>5. l = [k EXCEPT ![f] = v]
  BY <1>2
<1>6. l \in [Frames -> Kid] /\ l[f] = v /\ \A g \in Frames : g # f => l[g] = k[g]
  BY <1>1, <1>3, <1>5
<1>7. BuiltIn(l) = BuiltIn(k) \cup {f}
  BY <1>3, <1>6 DEF BuiltIn
<1>8. loads \cup {f} \subseteq BuiltIn(l)
  BY <1>7 DEF TreeInv
<1>9. ASSUME NEW g \in Frames, l[g].state # "none"
      PROVE  /\ Front(g) \in BuiltIn(l)
             /\ l[g].load => l[g].state = "ready" /\ g \notin loads \cup {f}
             /\ ~l[g].late /\ Front(g) \notin loads \cup {f} => l[g].state = "failed" \/ l[g].load
  <2>1. CASE g = f
    <3>1. /\ Front(f) \in BuiltIn(k) /\ ~k[f].load
          /\ ~k[f].late /\ Front(f) \notin loads => k[f].load
      BY Zenon DEF TreeInv
    <3> QED
      BY <1>4, <1>6, <1>7, <2>1, <3>1
  <2>2. CASE g # f
    <3>1. /\ Front(g) \in BuiltIn(k)
          /\ k[g].load => k[g].state = "ready" /\ g \notin loads
          /\ ~k[g].late /\ Front(g) \notin loads => k[g].state = "failed" \/ k[g].load
      BY <1>6, <1>9, <2>2, Zenon DEF TreeInv
    <3> QED
      BY <1>6, <1>7, <2>2, <3>1, Zenon
  <2> QED
    BY <2>1, <2>2
<1> QED
  BY <1>6, <1>7, <1>8, <1>9 DEF TreeInv

\* A document's load event may fire, and its iframe's after it, when every
\* child it waited for is settled or it has fired before.
LEMMA FireLoad ==
  ASSUME NEW k, NEW loads, TreeInv(k, loads), NEW d \in BuiltIn(k),
         d \notin loads \/ \A g \in Frames :
           Front(g) = d /\ k[g].state # "none" => k[g].state = "failed" \/ k[g].load,
         NEW l, l = [g \in Frames |-> IF g = d THEN [k[g] EXCEPT !.load = TRUE] ELSE k[g]]
  PROVE  TreeInv(l, loads \ {d}) /\ BuiltIn(l) = BuiltIn(k)
<1>1. k \in [Frames -> Kid] /\ \A g \in Frames : k[g] \in Kid
  BY DEF TreeInv
<1>2. \A g \in Frames : g # d => l[g] = k[g]
  OBVIOUS
<1>3. d \in Frames => /\ l[d] \in Kid /\ l[d].load = TRUE
                      /\ l[d].state = k[d].state /\ l[d].late = k[d].late
  <2>1. SUFFICES ASSUME d \in Frames
                 PROVE  l[d] \in Kid /\ l[d].load = TRUE /\ l[d].state = k[d].state
                        /\ l[d].late = k[d].late
    OBVIOUS
  <2>2. PICK v \in Kid : v = k[d]
    BY <1>1, <2>1
  <2>3. l[d] = [v EXCEPT !.load = TRUE]
    BY <2>1, <2>2
  <2>4. PICK w : w = [v EXCEPT !.load = TRUE]
    OBVIOUS
  <2>5. w \in Kid /\ w.load = TRUE /\ w.state = v.state /\ w.late = v.late
    BY <2>4 DEF Kid
  <2> QED
    BY <2>2, <2>3, <2>4, <2>5
<1>4. l \in [Frames -> Kid]
  BY <1>1, <1>2, <1>3
<1>5. \A g \in Frames : l[g].state = k[g].state /\ l[g].late = k[g].late
  BY <1>2, <1>3
<1>6. BuiltIn(l) = BuiltIn(k)
  BY <1>5 DEF BuiltIn
<1>7. d \in Frames => k[d].state = "ready"
  BY PathsAreSeqs DEF BuiltIn, Root
<1>8. ASSUME NEW g \in Frames, l[g].state # "none"
      PROVE  /\ Front(g) \in BuiltIn(l)
             /\ l[g].load => l[g].state = "ready" /\ g \notin loads \ {d}
             /\ ~l[g].late /\ Front(g) \notin loads \ {d} => l[g].state = "failed" \/ l[g].load
  <2>1. /\ Front(g) \in BuiltIn(k)
        /\ k[g].load => k[g].state = "ready" /\ g \notin loads
        /\ ~k[g].late /\ Front(g) \notin loads => k[g].state = "failed" \/ k[g].load
    BY <1>5, <1>8, Zenon DEF TreeInv
  <2>2. CASE g = d
    BY <1>3, <1>6, <1>7, <2>1, <2>2, Zenon
  <2>3. CASE g # d
    <3>1. Front(g) \notin loads \ {d} => Front(g) \notin loads \/ k[g].state = "failed" \/ k[g].load
      BY <1>5, <1>8, Zenon
    <3> QED
      BY <1>2, <1>6, <2>1, <2>3, <3>1, Zenon
  <2> QED
    BY <2>2, <2>3
<1>9. loads \ {d} \subseteq BuiltIn(l)
  BY <1>6 DEF TreeInv
<1> QED
  BY <1>4, <1>6, <1>8, <1>9 DEF TreeInv

LEMMA UnderIsClosed ==
  ASSUME NEW G, G \subseteq Frames
  PROVE  Closed(UNION {Under(g) : g \in G})
<1> DEFINE gone == UNION {Under(g) : g \in G}
<1>1. \A f : f \in gone <=> \E g \in G : f \in Under(g)
  OBVIOUS
<1> HIDE DEF gone
<1>2. gone \subseteq Frames
  BY <1>1, UnderFacts
<1>3. ASSUME NEW f \in Frames, Front(f) \in gone PROVE f \in gone
  <2>1. PICK g \in G : Front(f) \in Under(g)
    BY <1>1, <1>3
  <2>2. f \in Under(g)
    BY <2>1, UnderFacts
  <2> QED
    BY <1>1, <2>2
<1> QED
  BY <1>2, <1>3 DEF Closed, gone

\* The threads whose frames are dropped are counted as lingering.
LEMMA DropFetching ==
  ASSUME NEW k \in [Frames -> Kid], IsFiniteSet(Fetching(k)), NEW gone, Closed(gone), NEW l,
         l = [g \in Frames |-> IF g \in gone THEN NoKid ELSE k[g]],
         NEW n, n = Cardinality({g \in gone : k[g].state = "loading"})
  PROVE  /\ IsFiniteSet(Fetching(l)) /\ n \in Nat
         /\ Cardinality(Fetching(l)) \in Nat /\ Cardinality(Fetching(k)) \in Nat
         /\ Cardinality(Fetching(k)) = n + Cardinality(Fetching(l))
<1>1. PICK F : F = Fetching(k)
  OBVIOUS
<1>2. {g \in gone : k[g].state = "loading"} = F \cap gone
  BY <1>1 DEF Fetching, Closed
<1>3. Fetching(l) = F \ gone
  BY <1>1, NoKidType DEF Fetching
<1>4. IsFiniteSet(F \ gone) /\ Cardinality(F \ gone) = Cardinality(F) - Cardinality(F \cap gone)
  BY <1>1, FS_Difference
<1>5. IsFiniteSet(F \cap gone)
  BY <1>1, FS_Intersection
<1>6. Cardinality(F) \in Nat /\ Cardinality(F \cap gone) \in Nat /\ Cardinality(F \ gone) \in Nat
  BY <1>1, <1>4, <1>5, FS_CardinalityType
<1>7. PICK a : a = Cardinality(F)
  OBVIOUS
<1>8. PICK b : b = Cardinality(F \ gone)
  OBVIOUS
<1>9. n = Cardinality(F \cap gone)
  BY <1>2
<1>10. a \in Nat /\ b \in Nat /\ n \in Nat /\ b = a - n
  BY <1>4, <1>6, <1>7, <1>8, <1>9
<1>11. a = n + b
  BY <1>10
<1>12. Cardinality(Fetching(k)) = a /\ Cardinality(Fetching(l)) = b /\ IsFiniteSet(Fetching(l))
  BY <1>1, <1>3, <1>4, <1>7, <1>8
<1> QED
  BY <1>10, <1>11, <1>12

-----------------------------------------------------------------------------
(***************************************************************************)
(* Where the walk stands.                                                  *)
(***************************************************************************)
LEMMA BuiltMeans == Built = BuiltIn(kid)
BY DEF Built, BuiltIn

LEMMA TopFacts ==
  ASSUME WalkInv, walk # << >>
  PROVE  /\ Top \in Call /\ Top.doc \in Docs /\ Top.doc \in Built /\ OwnTodo(Top)
         /\ \A g \in KidsOf(Top.doc) : DocsOf(walk) \cap Under(g) = {}
<1>1. walk \in Seq(Call) /\ Len(walk) \in Nat /\ 1 \in 1..Len(walk) /\ Top = walk[1]
  BY DEF WalkInv, StackOK, Top
<1>2. Top \in Call /\ Top.doc \in Docs
  <2>1. walk[1] \in Call
    BY <1>1, ElementOfSeq
  <2> QED
    BY <1>1, <2>1 DEF Call
<1>3. Top.doc \in Built /\ OwnTodo(Top)
  BY <1>1 DEF WalkInv, StackOK, DocsOf
<1>4. ASSUME NEW g \in KidsOf(Top.doc), NEW e \in DocsOf(walk) PROVE e \notin Under(g)
  <2>1. PICK i \in 1..Len(walk) : e = walk[i].doc
    BY <1>4 DEF DocsOf
  <2>2. IsPrefix(e, Top.doc)
    BY <1>1, <2>1 DEF WalkInv, StackOK
  <2>3. e \in Docs
    <3>1. walk[i] \in Call
      BY <1>1, <2>1, ElementOfSeq
    <3> QED
      BY <2>1, <3>1 DEF Call
  <2> QED
    BY <1>2, <2>2, <2>3, AroundIsOutside
<1> QED
  BY <1>2, <1>3, <1>4

LEMMA CurrentFacts ==
  ASSUME WalkInv, walk # << >>, Top.todo # << >>
  PROVE  /\ Current.frame \in KidsOf(Top.doc) /\ Current.frame \in Frames
         /\ Front(Current.frame) = Top.doc /\ Current.src \in Sources \cup {Unsized}
<1>1. Top \in Call /\ Top.doc \in Docs /\ OwnTodo(Top)
  BY TopFacts
<1>2. PICK q : q = Top.todo
  OBVIOUS
<1>3. q \in Seq(Candidate) /\ 1 \in 1..Len(q) /\ Current = q[1]
  BY <1>1, <1>2 DEF Call, Current
<1>4. Current \in Candidate
  BY <1>3, ElementOfSeq
<1>5. Current.frame \in KidsOf(Top.doc)
  BY <1>1, <1>2, <1>3 DEF OwnTodo
<1> QED
  BY <1>1, <1>4, <1>5, KidsAre DEF Candidate

\* The innermost call with its first candidate taken off.
LEMMA NextCandidate ==
  ASSUME WalkInv, walk # << >>, Top.todo # << >>, NEW kept \in SUBSET Frames, NEW w,
         w = <<[doc |-> Top.doc, todo |-> Tail(Top.todo), kept |-> kept]>> \o Tail(walk)
  PROVE  StackOK(w) /\ DocsOf(w) \subseteq DocsOf(walk) /\ w # << >> /\ w[1].doc = Top.doc
<1>1. Top \in Call /\ Top.doc \in Docs /\ OwnTodo(Top)
  BY TopFacts
<1>2. PICK q : q = Top.todo
  OBVIOUS
<1>3. PICK c : c = [doc |-> Top.doc, todo |-> Tail(q), kept |-> kept]
  OBVIOUS
<1>4. q \in Seq(Candidate) /\ Tail(q) \in Seq(Candidate)
      /\ Len(Tail(q)) = Len(q) - 1 /\ \A i \in 1..Len(Tail(q)) : Tail(q)[i] = q[i + 1]
  <2>1. q \in Seq(Candidate)
    BY <1>1, <1>2 DEF Call
  <2> QED
    BY <1>2, <2>1, HeadTailProperties
<1>5. c \in Call /\ c.doc = Top.doc
  BY <1>1, <1>3, <1>4 DEF Call
<1>6. OwnTodo(c)
  <2>1. ASSUME NEW i \in 1..Len(Tail(q)) PROVE Tail(q)[i].frame \in KidsOf(Top.doc)
    <3>1. i + 1 \in 1..Len(q) /\ Tail(q)[i] = q[i + 1]
      BY <1>4
    <3> QED
      BY <1>1, <1>2, <3>1 DEF OwnTodo
  <2> QED
    BY <1>3, <2>1 DEF OwnTodo
<1>7. StackOK(walk) /\ Len(walk) \in Nat /\ Len(walk) >= 1 /\ walk \in Seq(Call)
  BY DEF WalkInv, StackOK
<1>8. PICK t : t = Tail(walk)
  OBVIOUS
<1>9. StackOK(t) /\ DocsOf(t) \subseteq DocsOf(walk)
  BY <1>7, <1>8, StackPop
<1>10. t # << >> => IsPrefix(t[1].doc, c.doc)
  <2>1. SUFFICES ASSUME t # << >> PROVE IsPrefix(t[1].doc, Top.doc)
    BY <1>5
  <2>2. 2 \in 1..Len(walk) /\ 1 \in 1..Len(walk) /\ t[1] = walk[2]
    BY <1>7, <1>8, <2>1
  <2> QED
    BY <1>7, <2>2 DEF StackOK, Top
<1>11. w = <<c>> \o t
  BY <1>2, <1>3, <1>8
<1>12. StackOK(w) /\ DocsOf(w) \subseteq {c.doc} \cup DocsOf(t)
  BY <1>5, <1>6, <1>9, <1>10, <1>11, StackPush
<1>13. w # << >> /\ w[1] = c
  BY <1>5, <1>7, <1>8, <1>9, <1>11 DEF StackOK
<1>14. Top.doc \in DocsOf(walk)
  BY <1>7 DEF DocsOf, Top
<1> QED
  BY <1>5, <1>9, <1>12, <1>13, <1>14

LEMMA PoppedFacts ==
  ASSUME WalkInv, walk # << >>, Top.todo # << >>
  PROVE  StackOK(Popped) /\ DocsOf(Popped) \subseteq DocsOf(walk)
         /\ Popped # << >> /\ Popped[1].doc = Top.doc
<1>1. Top \in Call
  BY TopFacts
<1>2. PICK kept : kept = Top.kept \cup {Current.frame}
  OBVIOUS
<1>3. kept \subseteq Frames
  BY <1>1, <1>2, CurrentFacts DEF Call
<1>4. PICK todo : todo = Tail(Top.todo)
  OBVIOUS
<1>5. PICK u : u = [Top EXCEPT !.todo = todo]
  OBVIOUS
<1>6. [Top EXCEPT !.todo = todo, !.kept = kept] = [doc |-> Top.doc, todo |-> todo, kept |-> kept]
  <2>1. PICK x, y, z : Top = [doc |-> x, todo |-> y, kept |-> z]
    BY <1>1 DEF Call
  <2>2. u = [doc |-> x, todo |-> todo, kept |-> z]
    BY <1>5, <2>1
  <2>3. [Top EXCEPT !.todo = todo, !.kept = kept] = [u EXCEPT !.kept = kept]
    BY <1>5, <2>1
  <2>4. [u EXCEPT !.kept = kept] = [doc |-> x, todo |-> todo, kept |-> kept]
    BY <2>2
  <2>5. Top.doc = x
    BY <2>1
  <2> QED
    BY <2>3, <2>4, <2>5
<1>7. Popped = <<[Top EXCEPT !.todo = todo, !.kept = kept]>> \o Tail(walk)
  BY <1>2, <1>4, Zenon DEF Popped
<1>8. Popped = <<[doc |-> Top.doc, todo |-> Tail(Top.todo), kept |-> kept]>> \o Tail(walk)
  BY <1>4, <1>6, <1>7
<1> QED
  BY <1>3, <1>8, NextCandidate

-----------------------------------------------------------------------------
(***************************************************************************)
(* Each step keeps the invariant.                                          *)
(***************************************************************************)
LEMMA RemainingStays ==
  ASSUME remaining \in 0..(Word - 1), remaining' = (remaining + Word - 1) % Word
  PROVE  remaining' \in 0..(Word - 1)
BY FramesAssumption

\* What a child that waits for a permit becomes.
LEMMA PendingChild ==
  ASSUME TreeInv(kid, loadPending), WalkInv, NEW f \in Frames, Updating(f),
         NEW t, t = Taken(f), t.state = "pending"
  PROVE  /\ t \in Kid /\ ~t.load /\ (t.late \/ Top.doc \in loadPending)
         /\ Front(f) = Top.doc /\ f \in KidsOf(Top.doc)
<1>1. walk # << >> /\ Top.todo # << >> /\ f = Current.frame /\ Current.src # Unsized
  BY DEF Updating
<1>2. Front(f) = Top.doc /\ f \in KidsOf(Top.doc) /\ Current.src \in Sources
  BY <1>1, CurrentFacts
<1>3. CASE Reusable(f)
  <2>1. t = kid[f] /\ kid[f] \in Kid
    BY <1>3 DEF Taken, TreeInv
  <2>2. /\ kid[f].load => kid[f].state = "ready"
        /\ ~kid[f].late /\ Front(f) \notin loadPending => kid[f].state = "failed" \/ kid[f].load
    BY <2>1, Zenon DEF TreeInv
  <2> QED
    BY <1>2, <2>1, <2>2
<1>4. CASE ~Reusable(f)
  <2>1. PICK late \in BOOLEAN : late = (Top.doc \notin loadPending)
    OBVIOUS
  <2>2. t = [state |-> "pending", src |-> Current.src, load |-> FALSE, late |-> late]
    BY <1>4, <2>1, Zenon DEF Taken
  <2>3. t \in Kid
    BY <1>2, <2>2 DEF Kid, States
  <2>4. ~t.load /\ t.late = late
    BY <2>2
  <2>5. t.late \/ Top.doc \in loadPending
    BY <2>1, <2>4
  <2> QED
    BY <1>2, <2>3, <2>4, <2>5
<1> QED
  BY <1>3, <1>4

LEMMA UpdatePendingKeeps ==
  ASSUME FramesIInv, NEW f \in Frames, UpdatePending(f)
  PROVE  FramesIInv'
<1>1. walk # << >> /\ Top.todo # << >> /\ Updating(f)
  BY DEF UpdatePending, Updating
<1>2. PICK t : t = Taken(f)
  OBVIOUS
<1>3. PICK gone : gone = IF Reusable(f) THEN {} ELSE Under(f)
  OBVIOUS
<1>4. PICK k : k = Without(gone)
  OBVIOUS
<1>5. t.state = "pending"
      /\ \E s \in {"loading", "failed", "pending"} :
           /\ kid' = [k EXCEPT ![f] = [t EXCEPT !.state = s]]
           /\ s = "loading" => active < MaxJobs /\ active' = active + 1
           /\ s # "loading" => active' = active
  BY <1>2, <1>3, <1>4, Zenon DEF UpdatePending, MayStart
<1>6. /\ lingering' = lingering + Abandoned(gone) /\ src' = NoIframesIn(gone)
      /\ loadPending' = loadPending \ gone /\ walk' = Popped /\ changes' = changes
      /\ remaining' = (remaining + Word - 1) % Word
  BY <1>3 DEF UpdatePending, Updating
<1>7. /\ t \in Kid /\ ~t.load /\ (t.late \/ Top.doc \in loadPending)
      /\ Front(f) = Top.doc /\ f \in KidsOf(Top.doc)
  BY <1>1, <1>2, <1>5, PendingChild DEF FramesIInv
<1>8. Closed(gone) /\ DocsOf(walk) \cap gone = {} /\ Top.doc \in DocsOf(walk)
  <2>1. Closed({}) /\ Closed(Under(f))
    BY UnderFacts DEF Closed
  <2>2. Top.doc \in DocsOf(walk)
    BY <1>1 DEF FramesIInv, WalkInv, StackOK, DocsOf, Top
  <2> QED
    BY <1>1, <1>3, <1>7, <2>1, <2>2, TopFacts DEF FramesIInv
<1>9. k = [g \in Frames |-> IF g \in gone THEN NoKid ELSE kid[g]]
  BY <1>4 DEF Without
<1>10. TreeInv(k, loadPending \ gone) /\ BuiltIn(k) = {Root} \cup (BuiltIn(kid) \ gone)
  BY <1>8, <1>9, DropTree DEF FramesIInv
<1>11. k[f].state \in {"none", "pending"}
  <2>1. CASE Reusable(f)
    BY <1>2, <1>3, <1>5, <1>9, <2>1 DEF Taken
  <2>2. CASE ~Reusable(f)
    BY <1>3, <1>9, <2>2, UnderFacts, NoKidType
  <2> QED
    BY <2>1, <2>2
<1>12. PICK s \in {"loading", "failed", "pending"} :
         /\ kid' = [k EXCEPT ![f] = [t EXCEPT !.state = s]]
         /\ s = "loading" => active < MaxJobs /\ active' = active + 1
         /\ s # "loading" => active' = active
  BY <1>5
<1>13. PICK v : v = [t EXCEPT !.state = s]
  OBVIOUS
<1>14. v \in Kid /\ v.state = s /\ v.load = t.load /\ v.late = t.late
  BY <1>7, <1>13 DEF Kid, States
<1>15. Top.doc \in BuiltIn(k) /\ (Top.doc \in loadPending => Top.doc \in loadPending \ gone)
  BY <1>8, <1>10, BuiltMeans DEF FramesIInv, WalkInv
<1>16. TreeInv(kid', loadPending') /\ BuiltIn(kid') = BuiltIn(k)
  <2>1. kid' = [k EXCEPT ![f] = v]
    BY <1>12, <1>13
  <2>2. PICK lp : lp = loadPending \ gone
    OBVIOUS
  <2>3. /\ TreeInv(k, lp) /\ k[f].state # "ready"
        /\ v \in Kid /\ v.state \notin {"none", "ready"} /\ ~v.load /\ Front(f) \in BuiltIn(k)
        /\ v.late \/ Front(f) \in lp \/ v.state = "failed"
    BY <1>7, <1>10, <1>11, <1>14, <1>15, <2>2
  <2>4. TreeInv(kid', lp) /\ BuiltIn(kid') = BuiltIn(k)
    BY <2>1, <2>3, SetKid
  <2> QED
    BY <1>6, <2>2, <2>4
<1>17. WalkInv'
  <2>1. StackOK(Popped) /\ DocsOf(Popped) \subseteq DocsOf(walk)
    BY <1>1, PoppedFacts DEF FramesIInv
  <2>2. DocsOf(walk) \subseteq BuiltIn(kid')
    BY <1>8, <1>10, <1>16, BuiltMeans DEF FramesIInv, WalkInv
  <2>3. Built' = BuiltIn(kid')
    BY DEF Built, BuiltIn
  <2>4. StackOK(walk') /\ DocsOf(walk') \subseteq BuiltIn(kid')
    BY <1>6, <2>1, <2>2
  <2> QED
    BY <2>3, <2>4 DEF WalkInv, StackOK, DocsOf
<1>18. PermitInv'
  <2>1. kid \in [Frames -> Kid] /\ k \in [Frames -> Kid]
    BY <1>10 DEF FramesIInv, TreeInv
  <2>2. /\ IsFiniteSet(Fetching(k)) /\ Abandoned(gone) \in Nat
        /\ Cardinality(Fetching(k)) \in Nat
        /\ Cardinality(Fetching(kid)) = Abandoned(gone) + Cardinality(Fetching(k))
    BY <1>8, <1>9, <2>1, DropFetching DEF FramesIInv, PermitInv, Abandoned
  <2>3. f \notin Fetching(k)
    BY <1>11 DEF Fetching
  <2>4. Fetching(kid') = IF s = "loading" THEN Fetching(k) \cup {f} ELSE Fetching(k)
    BY <1>12, <1>13, <1>14, <2>1, <2>3 DEF Fetching
  <2>5. IsFiniteSet(Fetching(kid'))
        /\ Cardinality(Fetching(kid'))
             = IF s = "loading" THEN Cardinality(Fetching(k)) + 1 ELSE Cardinality(Fetching(k))
    <3>1. IsFiniteSet(Fetching(k) \cup {f})
          /\ Cardinality(Fetching(k) \cup {f}) = Cardinality(Fetching(k)) + 1
      BY <2>2, <2>3, FS_AddElement
    <3> QED
      BY <2>2, <2>4, <3>1
  <2>6. active \in 0..MaxJobs /\ lingering \in Nat
        /\ active = lingering + Cardinality(Fetching(kid))
    BY DEF FramesIInv, PermitInv
  <2>7. active' \in 0..MaxJobs /\ lingering' \in Nat
        /\ active' = lingering' + Cardinality(Fetching(kid'))
    BY <1>6, <1>12, <2>2, <2>5, <2>6, FramesAssumption
  <2> QED
    BY <2>5, <2>7 DEF PermitInv, Fetching
<1>19. ScriptsTypeOK'
  BY <1>6, RemainingStays DEF FramesIInv, ScriptsTypeOK, NoIframesIn
<1>20. TreeInv(kid, loadPending)'
  BY <1>16 DEF TreeInv, BuiltIn
<1> QED
  BY <1>17, <1>18, <1>19, <1>20 DEF FramesIInv

\* The walk and the tree, as one fact about the states after a step.
LEMMA WalkAfter ==
  ASSUME StackOK(walk'), DocsOf(walk') \subseteq BuiltIn(kid')
  PROVE  WalkInv'
BY DEF WalkInv, StackOK, DocsOf, Built, BuiltIn

LEMMA TreeAfter ==
  ASSUME TreeInv(kid', loadPending')
  PROVE  TreeInv(kid, loadPending)'
BY DEF TreeInv, BuiltIn

LEMMA PermitsAfter ==
  ASSUME PermitInv, Fetching(kid') = Fetching(kid), active' = active, lingering' = lingering
  PROVE  PermitInv'
BY DEF PermitInv, Fetching

LEMMA UnsizedKeeps == FramesIInv /\ UpdateUnsized => FramesIInv'
<1> SUFFICES ASSUME FramesIInv, UpdateUnsized PROVE FramesIInv'
  OBVIOUS
<1>1. walk # << >> /\ Top.todo # << >> /\ WalkInv
  BY DEF UpdateUnsized, FramesIInv
<1>2. UNCHANGED <<src, kid, loadPending, active, lingering, remaining, changes>>
  BY DEF UpdateUnsized
<1>3. walk' = <<[Top EXCEPT !.todo = Tail(@)]>> \o Tail(walk)
  BY DEF UpdateUnsized
<1>4. Top \in Call
  BY <1>1, TopFacts
<1>5. [Top EXCEPT !.todo = Tail(@)] = [doc |-> Top.doc, todo |-> Tail(Top.todo), kept |-> Top.kept]
  <2>1. PICK x, y, z : Top = [doc |-> x, todo |-> y, kept |-> z]
    BY <1>4 DEF Call
  <2>2. PICK todo : todo = Tail(Top.todo)
    OBVIOUS
  <2>3. [Top EXCEPT !.todo = todo] = [doc |-> x, todo |-> todo, kept |-> z]
    BY <2>1
  <2>4. Top.doc = x /\ Top.kept = z
    BY <2>1
  <2> QED
    BY <2>2, <2>3, <2>4
<1>6. Top.kept \subseteq Frames
  BY <1>4 DEF Call
<1>7. StackOK(walk') /\ DocsOf(walk') \subseteq DocsOf(walk)
  BY <1>1, <1>3, <1>5, <1>6, NextCandidate
<1>8. WalkInv'
  BY <1>1, <1>2, <1>7, WalkAfter, BuiltMeans DEF WalkInv
<1>9. TreeInv(kid, loadPending)' /\ PermitInv' /\ ScriptsTypeOK'
  BY <1>2 DEF FramesIInv, TreeInv, BuiltIn, PermitInv, Fetching, ScriptsTypeOK
<1> QED
  BY <1>8, <1>9 DEF FramesIInv

LEMMA FailedKeeps ==
  ASSUME FramesIInv, NEW f \in Frames, UpdateFailed(f)
  PROVE  FramesIInv'
<1>1. walk # << >> /\ Top.todo # << >> /\ WalkInv /\ TreeInv(kid, loadPending)
  BY DEF UpdateFailed, Updating, FramesIInv
<1>2. /\ kid' = [kid EXCEPT ![f].state = "failed"]
      /\ kid[f].state \in {"arrived", "refused", "failed"} /\ walk' = Popped
      /\ remaining' = (remaining + Word - 1) % Word
      /\ UNCHANGED <<src, loadPending, active, lingering, changes>>
  BY DEF UpdateFailed, Updating
<1>3. PICK v : v = [kid[f] EXCEPT !.state = "failed"]
  OBVIOUS
<1>4. kid \in [Frames -> Kid] /\ kid[f] \in Kid
  BY <1>1 DEF TreeInv
<1>5. v \in Kid /\ v.state = "failed" /\ v.load = kid[f].load /\ v.late = kid[f].late
  BY <1>3, <1>4 DEF Kid, States
<1>6. ~v.load /\ Front(f) \in BuiltIn(kid)
  <2>1. /\ Front(f) \in BuiltIn(kid)
        /\ kid[f].load => kid[f].state = "ready"
    BY <1>1, <1>2, Zenon DEF TreeInv
  <2> QED
    BY <1>2, <1>5, <2>1
<1>7. kid' = [kid EXCEPT ![f] = v]
  BY <1>2, <1>3
<1>8. TreeInv(kid', loadPending) /\ BuiltIn(kid') = BuiltIn(kid)
  <2>1. /\ kid[f].state # "ready" /\ v.state \notin {"none", "ready"}
        /\ v.late \/ Front(f) \in loadPending \/ v.state = "failed"
    BY <1>2, <1>5
  <2>2. PICK k : k = kid
    OBVIOUS
  <2>3. /\ TreeInv(k, loadPending) /\ k[f].state # "ready" /\ Front(f) \in BuiltIn(k)
        /\ v \in Kid /\ v.state \notin {"none", "ready"} /\ ~v.load
        /\ v.late \/ Front(f) \in loadPending \/ v.state = "failed"
        /\ kid' = [k EXCEPT ![f] = v]
    BY <1>1, <1>5, <1>6, <1>7, <2>1, <2>2
  <2>4. TreeInv(kid', loadPending) /\ BuiltIn(kid') = BuiltIn(k)
    BY <2>3, SetKid
  <2> QED
    BY <2>2, <2>4
<1>9. WalkInv'
  BY <1>1, <1>2, <1>8, PoppedFacts, WalkAfter, BuiltMeans DEF WalkInv
<1>10. PermitInv'
  <2>1. Fetching(kid') = Fetching(kid)
    BY <1>2, <1>4, <1>5, <1>7 DEF Fetching
  <2> QED
    BY <1>2, <2>1, PermitsAfter DEF FramesIInv
<1>11. ScriptsTypeOK'
  BY <1>2, RemainingStays DEF FramesIInv, ScriptsTypeOK
<1>12. TreeInv(kid, loadPending)'
  BY <1>2, <1>8, TreeAfter
<1> QED
  BY <1>9, <1>10, <1>11, <1>12 DEF FramesIInv

LEMMA LoadingKeeps ==
  ASSUME FramesIInv, NEW f \in Frames, UpdateLoading(f)
  PROVE  FramesIInv'
<1>1. walk # << >> /\ Top.todo # << >> /\ WalkInv
  BY DEF UpdateLoading, Updating, FramesIInv
<1>2. /\ walk' = Popped /\ remaining' = (remaining + Word - 1) % Word
      /\ UNCHANGED <<src, kid, loadPending, active, lingering, changes>>
  BY DEF UpdateLoading, Updating
<1>3. WalkInv'
  BY <1>1, <1>2, PoppedFacts, WalkAfter, BuiltMeans DEF WalkInv
<1>4. TreeInv(kid, loadPending)' /\ PermitInv'
  BY <1>2 DEF FramesIInv, TreeInv, BuiltIn, PermitInv, Fetching
<1>5. ScriptsTypeOK'
  BY <1>2, RemainingStays DEF FramesIInv, ScriptsTypeOK
<1> QED
  BY <1>3, <1>4, <1>5 DEF FramesIInv

\* The walk descends into the document of a child.
LEMMA Descend ==
  ASSUME WalkInv, NEW f \in Frames, Updating(f), NEW budget \in Nat,
         NEW iframes \in [Owners -> Sources \cup {Absent, Unsized}], NEW w,
         w = <<Entered(f, budget, iframes)>> \o Popped
  PROVE  StackOK(w) /\ DocsOf(w) \subseteq {f} \cup DocsOf(walk)
<1>1. walk # << >> /\ Top.todo # << >> /\ f = Current.frame
  BY DEF Updating
<1>2. PICK c : c = Entered(f, budget, iframes)
  OBVIOUS
<1>3. f \in Docs
  BY DEF Docs
<1>4. c \in Call /\ c.doc = f /\ OwnTodo(c)
  BY <1>2, <1>3, EnteredIsCall
<1>5. PICK t : t = Popped
  OBVIOUS
<1>6. StackOK(t) /\ DocsOf(t) \subseteq DocsOf(walk) /\ t[1].doc = Top.doc
  BY <1>1, <1>5, PoppedFacts
<1>7. IsPrefix(Top.doc, f)
  BY <1>1, CurrentFacts, FrontIsDoc
<1> QED
  BY <1>2, <1>4, <1>5, <1>6, <1>7, StackPush

LEMMA IframesOfType ==
  ASSUME ScriptsTypeOK, NEW d \in Docs
  PROVE  IframesOf(d) \in [Owners -> Sources \cup {Absent, Unsized}]
<1>1. ASSUME NEW o \in Owners
      PROVE  (IF Len(d) < MaxDepth THEN src[Append(d, o)] ELSE Absent)
               \in Sources \cup {Absent, Unsized}
  BY AppendIsKid DEF ScriptsTypeOK
<1> QED
  BY <1>1 DEF IframesOf

LEMMA ReadyKeeps ==
  ASSUME FramesIInv, NEW f \in Frames, UpdateReady(f)
  PROVE  FramesIInv'
<1>1. Updating(f) /\ WalkInv
  BY DEF UpdateReady, FramesIInv
<1>2. /\ remaining' = (remaining + Word - 1) % Word /\ kid[f].state = "ready"
      /\ walk' = <<Entered(f, remaining', IframesOf(f))>> \o Popped
      /\ UNCHANGED <<src, kid, loadPending, active, lingering, changes>>
  BY DEF UpdateReady, Updating
<1>3. ScriptsTypeOK'
  BY <1>2, RemainingStays DEF FramesIInv, ScriptsTypeOK
<1>4. remaining' \in Nat
  BY <1>3, FramesAssumption DEF ScriptsTypeOK
<1>5. IframesOf(f) \in [Owners -> Sources \cup {Absent, Unsized}]
  BY IframesOfType DEF FramesIInv, Docs
<1>6. StackOK(walk') /\ DocsOf(walk') \subseteq {f} \cup DocsOf(walk)
  BY <1>1, <1>2, <1>4, <1>5, Descend
<1>7. f \in Built
  BY <1>2 DEF Built
<1>8. WalkInv'
  <2>1. DocsOf(walk') \subseteq Built
    BY <1>1, <1>6, <1>7 DEF WalkInv
  <2> QED
    BY <1>2, <1>6, <2>1, WalkAfter, BuiltMeans
<1>9. TreeInv(kid, loadPending)' /\ PermitInv'
  BY <1>2 DEF FramesIInv, TreeInv, BuiltIn, PermitInv, Fetching
<1> QED
  BY <1>3, <1>8, <1>9 DEF FramesIInv

LEMMA ArrivedKeeps ==
  ASSUME FramesIInv, NEW f \in Frames, NEW iframes \in Pages, UpdateArrived(f, iframes)
  PROVE  FramesIInv'
<1>1. Updating(f) /\ WalkInv /\ TreeInv(kid, loadPending)
  BY DEF UpdateArrived, FramesIInv
<1>2. /\ remaining' = (remaining + Word - 1) % Word /\ kid[f].state = "arrived"
      /\ kid' = [kid EXCEPT ![f].state = "ready"]
      /\ loadPending' = loadPending \cup {f}
      /\ src' = [g \in Frames |-> IF g \in KidsOf(f) THEN iframes[Last(g)] ELSE src[g]]
      /\ walk' = <<Entered(f, remaining', iframes)>> \o Popped
      /\ UNCHANGED <<active, lingering, changes>>
  BY DEF UpdateArrived, Updating
<1>3. iframes \in [Owners -> Sources \cup {Absent, Unsized}]
  BY FramesAssumption DEF Iframes
<1>4. ScriptsTypeOK'
  <2>1. ASSUME NEW g \in Frames PROVE Last(g) \in Owners
    BY PathsAreSeqs DEF Last
  <2>2. src' \in [Frames -> Sources \cup {Absent, Unsized}]
    BY <1>2, <1>3, <2>1 DEF FramesIInv, ScriptsTypeOK
  <2> QED
    BY <1>2, <2>2, RemainingStays DEF FramesIInv, ScriptsTypeOK
<1>5. remaining' \in Nat
  BY <1>4, FramesAssumption DEF ScriptsTypeOK
<1>6. StackOK(walk') /\ DocsOf(walk') \subseteq {f} \cup DocsOf(walk)
  BY <1>1, <1>2, <1>3, <1>5, Descend
<1>7. TreeInv(kid', loadPending') /\ BuiltIn(kid') = BuiltIn(kid) \cup {f}
  BY <1>1, <1>2, BuildKid
<1>8. WalkInv'
  <2>1. DocsOf(walk') \subseteq BuiltIn(kid')
    BY <1>1, <1>6, <1>7, BuiltMeans DEF WalkInv
  <2> QED
    BY <1>6, <2>1, WalkAfter
<1>9. PermitInv'
  <2>1. kid \in [Frames -> Kid] /\ kid[f] \in Kid
    BY <1>1 DEF TreeInv
  <2>2. kid'[f].state = "ready" /\ \A g \in Frames : g # f => kid'[g] = kid[g]
    BY <1>2, <2>1 DEF Kid
  <2>3. Fetching(kid') = Fetching(kid)
    BY <1>2, <2>2 DEF Fetching
  <2> QED
    BY <1>2, <2>3, PermitsAfter DEF FramesIInv
<1> QED
  BY <1>4, <1>7, <1>8, <1>9, TreeAfter DEF FramesIInv

LEMMA LeaveKeeps == FramesIInv /\ Leave => FramesIInv'
<1> SUFFICES ASSUME FramesIInv, Leave PROVE FramesIInv'
  OBVIOUS
<1>1. PICK d : d = Top.doc
  OBVIOUS
<1>2. PICK G : G = KidsOf(d) \ Top.kept
  OBVIOUS
<1>3. PICK gone : gone = UNION {Under(g) : g \in G}
  OBVIOUS
<1>4. PICK loaded \in BOOLEAN : loaded = (d \notin loadPending \/ \A g \in Top.kept : LoadSettled(g))
  OBVIOUS
<1>5. PICK k : k = [g \in Frames |-> IF g \in gone THEN NoKid ELSE kid[g]]
  OBVIOUS
<1>6. /\ walk # << >> /\ Top.todo = << >> /\ walk' = Tail(walk)
      /\ lingering' = lingering + Abandoned(gone) /\ src' = NoIframesIn(gone)
      /\ UNCHANGED <<active, remaining, changes>>
  BY <1>1, <1>2, <1>3 DEF Leave
<1>7. /\ kid' = [g \in Frames |-> IF g = d /\ loaded THEN [kid[g] EXCEPT !.load = TRUE] ELSE k[g]]
      /\ loadPending' = loadPending \ (gone \cup IF loaded THEN {d} ELSE {})
  BY <1>1, <1>2, <1>3, <1>4, <1>5 DEF Leave, Without
<1>8. WalkInv /\ TreeInv(kid, loadPending) /\ kid \in [Frames -> Kid]
  BY DEF FramesIInv, TreeInv
<1>9. d \in Docs /\ d \in Built /\ \A g \in KidsOf(d) : DocsOf(walk) \cap Under(g) = {}
  BY <1>1, <1>6, <1>8, TopFacts
<1>10. G \subseteq KidsOf(d) /\ KidsOf(d) \subseteq Frames
  BY <1>2 DEF KidsOf
<1>11. Closed(gone)
  BY <1>3, <1>10, UnderIsClosed
<1>12. DocsOf(walk) \cap gone = {} /\ d \in DocsOf(walk) /\ d \notin gone
  <2>1. d \in DocsOf(walk)
    BY <1>1, <1>6, <1>8 DEF WalkInv, StackOK, DocsOf, Top
  <2> QED
    BY <1>3, <1>9, <1>10, <2>1
<1>13. TreeInv(k, loadPending \ gone) /\ BuiltIn(k) = {Root} \cup (BuiltIn(kid) \ gone)
  BY <1>5, <1>8, <1>11, DropTree
<1>14. d \in BuiltIn(k)
  BY <1>9, <1>12, <1>13, BuiltMeans
<1>15. loaded => d \notin loadPending \ gone \/ \A g \in Frames :
                   Front(g) = d /\ k[g].state # "none" => k[g].state = "failed" \/ k[g].load
  <2>1. SUFFICES ASSUME loaded, d \in loadPending, NEW g \in Frames,
                        Front(g) = d, k[g].state # "none"
                 PROVE  k[g].state = "failed" \/ k[g].load
    OBVIOUS
  <2>2. g \notin gone /\ k[g] = kid[g]
    BY <1>5, <2>1, NoKidType
  <2>3. g \in Top.kept
    BY <1>2, <1>3, <1>9, <2>1, <2>2, KidsAre, UnderFacts
  <2>4. LoadSettled(g)
    BY <1>4, <2>1, <2>3
  <2> QED
    BY <2>2, <2>4 DEF LoadSettled
<1>16. TreeInv(kid', loadPending') /\ BuiltIn(kid') = BuiltIn(k)
  <2>1. CASE loaded
    <3>1. \A g \in Frames : g = d => kid[g] = k[g]
      BY <1>5, <1>12
    <3>2. kid' = [g \in Frames |-> IF g = d THEN [k[g] EXCEPT !.load = TRUE] ELSE k[g]]
      BY <1>7, <2>1, <3>1
    <3>3. PICK lp : lp = loadPending \ gone
      OBVIOUS
    <3>4. loadPending' = lp \ {d}
      BY <1>7, <2>1, <3>3
    <3>5. TreeInv(kid', lp \ {d}) /\ BuiltIn(kid') = BuiltIn(k)
      BY <1>13, <1>14, <1>15, <2>1, <3>2, <3>3, FireLoad
    <3> QED
      BY <3>4, <3>5
  <2>2. CASE ~loaded
    <3>1. kid' = k
      <4>1. kid' = [g \in Frames |-> k[g]]
        BY <1>7, <2>2
      <4>2. k = [g \in Frames |-> k[g]]
        BY <1>5
      <4> QED
        BY <4>1, <4>2
    <3>2. loadPending' = loadPending \ gone
      BY <1>7, <2>2
    <3> QED
      BY <1>13, <3>1, <3>2
  <2> QED
    BY <2>1, <2>2
<1>17. WalkInv'
  <2>1. StackOK(walk') /\ DocsOf(walk') \subseteq DocsOf(walk)
    BY <1>6, <1>8, StackPop DEF WalkInv
  <2>2. DocsOf(walk) \subseteq BuiltIn(kid')
    BY <1>8, <1>12, <1>13, <1>16, BuiltMeans DEF WalkInv
  <2> QED
    BY <2>1, <2>2, WalkAfter
<1>18. PermitInv'
  <2>1. IsFiniteSet(Fetching(kid)) /\ lingering \in Nat /\ active \in 0..MaxJobs
        /\ active = lingering + Cardinality(Fetching(kid))
    BY DEF FramesIInv, PermitInv
  <2>2. /\ IsFiniteSet(Fetching(k)) /\ Abandoned(gone) \in Nat
        /\ Cardinality(Fetching(k)) \in Nat
        /\ Cardinality(Fetching(kid)) = Abandoned(gone) + Cardinality(Fetching(k))
    BY <1>5, <1>8, <1>11, <2>1, DropFetching DEF Abandoned
  <2>3. \A g \in Frames : kid'[g].state = k[g].state
    <3>1. ASSUME NEW g \in Frames PROVE kid'[g].state = k[g].state
      <4>1. CASE g = d /\ loaded
        <5>1. k[g] = kid[g] /\ kid[g] \in Kid
          BY <1>5, <1>8, <1>12, <4>1
        <5>2. kid'[g] = [kid[g] EXCEPT !.load = TRUE]
          BY <1>7, <4>1
        <5> QED
          BY <5>1, <5>2 DEF Kid
      <4>2. CASE ~(g = d /\ loaded)
        BY <1>7, <4>2
      <4> QED
        BY <4>1, <4>2
    <3> QED
      BY <3>1
  <2>4. Fetching(kid') = Fetching(k)
    BY <2>3 DEF Fetching
  <2>5. lingering' \in Nat /\ active' \in 0..MaxJobs
        /\ active' = lingering' + Cardinality(Fetching(kid'))
    BY <1>6, <2>1, <2>2, <2>4
  <2> QED
    BY <2>2, <2>4, <2>5 DEF PermitInv, Fetching
<1>19. ScriptsTypeOK'
  BY <1>6 DEF FramesIInv, ScriptsTypeOK, NoIframesIn
<1> QED
  BY <1>16, <1>17, <1>18, <1>19, TreeAfter DEF FramesIInv

LEMMA ScriptKeeps ==
  ASSUME FramesIInv, NEW f \in Frames, NEW s \in Sources \cup {Absent, Unsized}, Script(f, s)
  PROVE  FramesIInv'
<1>1. UNCHANGED <<kid, loadPending, active, lingering, walk, remaining>>
  BY DEF Script
<1>2. ScriptsTypeOK'
  <2>1. src' = [src EXCEPT ![f] = s] /\ changes < MaxChanges /\ changes' = changes + 1
    BY DEF Script
  <2>2. changes' \in 0..MaxChanges
    BY <2>1, FramesAssumption DEF FramesIInv, ScriptsTypeOK
  <2>3. src' \in [Frames -> Sources \cup {Absent, Unsized}]
    BY <2>1 DEF FramesIInv, ScriptsTypeOK
  <2> QED
    BY <1>1, <2>2, <2>3 DEF FramesIInv, ScriptsTypeOK
<1>3. TreeInv(kid, loadPending)' /\ PermitInv' /\ WalkInv'
  BY <1>1 DEF FramesIInv, TreeInv, BuiltIn, PermitInv, Fetching, WalkInv, StackOK, DocsOf, Built
<1> QED
  BY <1>2, <1>3 DEF FramesIInv

LEMMA EmptyStack == StackOK(<< >>) /\ DocsOf(<< >>) = {}
<1>1. << >> \in Seq(Call) /\ 1..Len(<< >>) = {}
  OBVIOUS
<1> QED
  BY <1>1 DEF StackOK, DocsOf

LEMMA TickKeeps == FramesIInv /\ Tick => FramesIInv'
<1> SUFFICES ASSUME FramesIInv, Tick PROVE FramesIInv'
  OBVIOUS
<1>1. /\ walk' = <<Entered(Root, MaxFrames, IframesOf(Root))>> /\ remaining' = MaxFrames
      /\ UNCHANGED <<src, kid, loadPending, active, lingering, changes>>
  BY DEF Tick
<1>2. PICK c : c = Entered(Root, MaxFrames, IframesOf(Root))
  OBVIOUS
<1>3. Root \in Docs /\ Root \in Built /\ MaxFrames \in Nat
  BY FramesAssumption DEF Docs, Built
<1>4. IframesOf(Root) \in [Owners -> Sources \cup {Absent, Unsized}]
  BY <1>3, IframesOfType DEF FramesIInv
<1>5. c \in Call /\ c.doc = Root /\ OwnTodo(c)
  BY <1>2, <1>3, <1>4, EnteredIsCall
<1>6. walk' = <<c>> \o << >>
  BY <1>1, <1>2
<1>7. StackOK(walk') /\ DocsOf(walk') \subseteq {Root}
  BY <1>5, <1>6, EmptyStack, StackPush
<1>8. WalkInv'
  BY <1>1, <1>3, <1>7, WalkAfter, BuiltMeans
<1>9. TreeInv(kid, loadPending)' /\ PermitInv'
  BY <1>1 DEF FramesIInv, TreeInv, BuiltIn, PermitInv, Fetching
<1>10. ScriptsTypeOK'
  BY <1>1, FramesAssumption DEF FramesIInv, ScriptsTypeOK
<1> QED
  BY <1>8, <1>9, <1>10 DEF FramesIInv

LEMMA SendKeeps ==
  ASSUME FramesIInv, NEW f \in Frames, NEW r \in {"arrived", "refused"}, Send(f, r)
  PROVE  FramesIInv'
<1>1. /\ kid[f].state = "loading" /\ kid' = [kid EXCEPT ![f].state = r]
      /\ lingering' = lingering + 1
      /\ UNCHANGED <<src, loadPending, active, walk, remaining, changes>>
  BY DEF Send
<1>2. TreeInv(kid, loadPending) /\ kid \in [Frames -> Kid] /\ kid[f] \in Kid
  BY DEF FramesIInv, TreeInv
<1>3. PICK v : v = [kid[f] EXCEPT !.state = r]
  OBVIOUS
<1>4. v \in Kid /\ v.state = r /\ v.load = kid[f].load /\ v.late = kid[f].late
  BY <1>2, <1>3 DEF Kid, States
<1>5. kid' = [kid EXCEPT ![f] = v]
  BY <1>1, <1>3
<1>6. ~v.load /\ Front(f) \in BuiltIn(kid) /\ (v.late \/ Front(f) \in loadPending)
  <2>1. /\ Front(f) \in BuiltIn(kid)
        /\ kid[f].load => kid[f].state = "ready"
        /\ ~kid[f].late /\ Front(f) \notin loadPending => kid[f].state = "failed" \/ kid[f].load
    BY <1>1, <1>2, Zenon DEF TreeInv
  <2> QED
    BY <1>1, <1>4, <2>1
<1>7. TreeInv(kid', loadPending) /\ BuiltIn(kid') = BuiltIn(kid)
  <2>1. /\ kid[f].state # "ready" /\ v.state \notin {"none", "ready"}
        /\ v.late \/ Front(f) \in loadPending \/ v.state = "failed"
    BY <1>1, <1>4, <1>6
  <2>2. PICK k : k = kid
    OBVIOUS
  <2>3. /\ TreeInv(k, loadPending) /\ k[f].state # "ready" /\ Front(f) \in BuiltIn(k)
        /\ v \in Kid /\ v.state \notin {"none", "ready"} /\ ~v.load
        /\ v.late \/ Front(f) \in loadPending \/ v.state = "failed"
        /\ kid' = [k EXCEPT ![f] = v]
    BY <1>2, <1>4, <1>5, <1>6, <2>1, <2>2
  <2>4. TreeInv(kid', loadPending) /\ BuiltIn(kid') = BuiltIn(k)
    BY <2>3, SetKid
  <2> QED
    BY <2>2, <2>4
<1>8. WalkInv'
  BY <1>1, <1>7, WalkAfter, BuiltMeans DEF FramesIInv, WalkInv
<1>9. PermitInv'
  <2>1. IsFiniteSet(Fetching(kid)) /\ lingering \in Nat /\ active \in 0..MaxJobs
        /\ active = lingering + Cardinality(Fetching(kid)) /\ f \in Fetching(kid)
    BY <1>1 DEF FramesIInv, PermitInv, Fetching
  <2>2. Fetching(kid') = Fetching(kid) \ {f}
    BY <1>2, <1>4, <1>5 DEF Fetching
  <2>3. IsFiniteSet(Fetching(kid')) /\ Cardinality(Fetching(kid')) = Cardinality(Fetching(kid)) - 1
        /\ Cardinality(Fetching(kid)) \in Nat
    BY <2>1, <2>2, FS_RemoveElement, FS_CardinalityType
  <2>4. lingering' \in Nat /\ active' \in 0..MaxJobs
        /\ active' = lingering' + Cardinality(Fetching(kid'))
    BY <1>1, <2>1, <2>3
  <2> QED
    BY <2>3, <2>4 DEF PermitInv, Fetching
<1>10. ScriptsTypeOK'
  BY <1>1 DEF FramesIInv, ScriptsTypeOK
<1>11. TreeInv(kid, loadPending)'
  BY <1>1, <1>7, TreeAfter
<1> QED
  BY <1>8, <1>9, <1>10, <1>11 DEF FramesIInv

LEMMA DropPermitKeeps == FramesIInv /\ DropPermit => FramesIInv'
<1> SUFFICES ASSUME FramesIInv, DropPermit PROVE FramesIInv'
  OBVIOUS
<1>1. /\ lingering > 0 /\ lingering' = lingering - 1 /\ active' = active - 1
      /\ UNCHANGED <<src, kid, loadPending, walk, remaining, changes>>
  BY DEF DropPermit
<1>2. PermitInv'
  <2>1. IsFiniteSet(Fetching(kid)) /\ lingering \in Nat /\ active \in 0..MaxJobs
        /\ active = lingering + Cardinality(Fetching(kid))
        /\ Cardinality(Fetching(kid)) \in Nat
    BY FS_CardinalityType DEF FramesIInv, PermitInv
  <2>2. Fetching(kid') = Fetching(kid)
    BY <1>1
  <2>3. lingering' \in Nat /\ active' \in 0..MaxJobs
        /\ active' = lingering' + Cardinality(Fetching(kid'))
    BY <1>1, <2>1, <2>2, FramesAssumption
  <2> QED
    BY <2>1, <2>2, <2>3 DEF PermitInv, Fetching
<1>3. TreeInv(kid, loadPending)' /\ WalkInv' /\ ScriptsTypeOK'
  BY <1>1 DEF FramesIInv, TreeInv, BuiltIn, WalkInv, StackOK, DocsOf, Built, ScriptsTypeOK
<1> QED
  BY <1>2, <1>3 DEF FramesIInv

-----------------------------------------------------------------------------
(***************************************************************************)
(* Theorem.                                                                *)
(***************************************************************************)
LEMMA InitHolds == Init => FramesIInv
<1> SUFFICES ASSUME Init PROVE FramesIInv
  OBVIOUS
<1>1. /\ kid = [f \in Frames |-> NoKid] /\ loadPending = {Root} /\ walk = << >>
      /\ active = 0 /\ lingering = 0 /\ remaining = 0 /\ changes = 0
  BY DEF Init
<1>2. TreeInv(kid, loadPending)
  BY <1>1, NoKidType DEF TreeInv, BuiltIn
<1>3. WalkInv
  BY <1>1, EmptyStack DEF WalkInv
<1>4. PermitInv
  <2>1. Fetching(kid) = {}
    BY <1>1, NoKidType DEF Fetching
  <2> QED
    <3>1. IsFiniteSet(Fetching(kid)) /\ Cardinality(Fetching(kid)) = 0
      BY <2>1, FS_EmptySet
    <3>2. 0 \in 0..MaxJobs
      BY FramesAssumption
    <3> QED
      BY <1>1, <3>1, <3>2 DEF PermitInv
<1>5. ScriptsTypeOK
  <2>1. PICK i \in Pages : src = [f \in Frames |-> IF Len(f) = 1 THEN i[f[1]] ELSE Absent]
    BY DEF Init
  <2>2. i \in [Owners -> Sources \cup {Absent, Unsized}]
    BY FramesAssumption DEF Iframes
  <2>3. \A f \in Frames : f[1] \in Owners
    BY PathsAreSeqs
  <2>4. src \in [Frames -> Sources \cup {Absent, Unsized}]
    BY <2>1, <2>2, <2>3
  <2> QED
    BY <1>1, <2>4, FramesAssumption DEF ScriptsTypeOK
<1> QED
  BY <1>2, <1>3, <1>4, <1>5 DEF FramesIInv

LEMMA StutterKeeps == FramesIInv /\ UNCHANGED vars => FramesIInv'
<1> SUFFICES ASSUME FramesIInv, UNCHANGED vars PROVE FramesIInv'
  OBVIOUS
<1>1. TreeInv(kid, loadPending)' /\ PermitInv' /\ ScriptsTypeOK'
  BY DEF vars, FramesIInv, TreeInv, BuiltIn, PermitInv, Fetching, ScriptsTypeOK
<1>2. WalkInv'
  BY DEF vars, FramesIInv, WalkInv, StackOK, DocsOf, Built
<1> QED
  BY <1>1, <1>2 DEF FramesIInv

LEMMA NextKeeps == FramesIInv /\ Next => FramesIInv'
<1> SUFFICES ASSUME FramesIInv, Next PROVE FramesIInv'
  OBVIOUS
<1>1. CASE Walk
  BY <1>1, TickKeeps, UnsizedKeeps, LeaveKeeps, UpdatePendingKeeps, LoadingKeeps, FailedKeeps,
     ReadyKeeps, ArrivedKeeps DEF Walk
<1>2. CASE Fetch
  BY <1>2, DropPermitKeeps, SendKeeps DEF Fetch
<1>3. CASE \E f \in Frames, s \in Sources \cup {Absent, Unsized} : Script(f, s)
  BY <1>3, ScriptKeeps
<1> QED
  BY <1>1, <1>2, <1>3 DEF Next

LEMMA InvariantMeans == FramesIInv => FramesInv
<1> SUFFICES ASSUME FramesIInv PROVE FramesInv
  OBVIOUS
<1>1. FramesTypeOK
  <2>1. \A i \in DOMAIN walk : walk[i].doc \in Built
    BY DEF FramesIInv, WalkInv, StackOK, DocsOf
  <2> QED
    BY <2>1, BuiltMeans DEF FramesTypeOK, FramesIInv, TreeInv, PermitInv, ScriptsTypeOK
<1>2. PermitsExact
  BY DEF PermitsExact, FramesIInv, PermitInv, Fetching
<1>3. LoadBottomUp
  BY Zenon DEF LoadBottomUp, Tracked, Settled, FramesIInv, TreeInv
<1> QED
  BY <1>1, <1>2, <1>3 DEF FramesInv

\* Whatever scripts do to the iframes and in whatever order fetches end, every
\* permit out belongs to one running fetch thread (EmbeddedFetchPermit), only
\* built documents are walked, and a document's load event waits for the
\* iframes it started with (sync_child_frames_inner, advance_ready_child).
THEOREM LoadsGoBottomUp == FairSpec => []FramesInv
<1>1. FramesIInv /\ [Next]_vars => FramesIInv'
  BY NextKeeps, StutterKeeps
<1> QED
  BY <1>1, InitHolds, InvariantMeans, PTL DEF FairSpec
=============================================================================
