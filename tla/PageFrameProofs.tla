----------------------------- MODULE PageFrameProofs -----------------------------
(***************************************************************************)
(* Proofs about the frames of a window, for every number of buffers,       *)
(* preseeds and retained updates, and about the resources of the page it   *)
(* shows, for every document.                                              *)
(*                                                                         *)
(* FramePresent.  That a presented buffer holds a whole image is kept by   *)
(* every operation on the surface (SurfaceOK): an age or a tag is only     *)
(* given to a buffer just drawn whole or copied from one.  That a retained *)
(* frame covers what the mode asks for, and that no frame path clears the  *)
(* mode over a moved scroll offset, is what the retained_sent flags mean   *)
(* (AppInv): an image counts as sent only while nothing but its own damage *)
(* has been marked.                                                        *)
(*                                                                         *)
(* PageResources.  That a change of the document is noticed rests on what  *)
(* the sources of a link can say: their texts never change, so that a set  *)
(* that differs from the document in texts only is repaired by reading the *)
(* style elements again (SourcesInv).  That the window polls for something *)
(* that comes needs where each address stands: not asked for, fetched by   *)
(* one thread, answered or held (FetchedOnce), listed or not               *)
(* (RequestedComes).                                                       *)
(***************************************************************************)
EXTENDS FramePresent, PageResources, ListFacts

Buffer == [cur : SUBSET Parts, age : Nat, tag : Tags \cup {"none"},
           busy : BOOLEAN, whole : BOOLEAN]

\* An age means a whole image, a tag an age.
Sound(e) == (e.age # 0 => e.whole) /\ (e.tag # "none" => e.age # 0)

BuffersOK(bs) == bs \in [Buffers -> Buffer] /\ \A b \in Buffers : Sound(bs[b])

SurfaceOK(s) ==
  /\ s = [buf |-> s.buf, last |-> s.last]
  /\ BuffersOK(s.buf) /\ s.last \in 0 .. BufferCount
  /\ s.last # 0 => s.buf[s.last].whole

\* What the compositor may read keeps its pixels; those of a page that moved
\* become out of date.
Kept(old, new) ==
  \A b \in Buffers : old[b].busy =>
    new[b].busy /\ new[b].cur \in {old[b].cur, old[b].cur \ Moved}

-----------------------------------------------------------------------------
(***************************************************************************)
(* Numbers.                                                                *)
(***************************************************************************)

\* What Max and Min choose.
LEMMA ChosenMax ==
  ASSUME NEW S, \E x \in S : \A y \in S : x >= y
  PROVE  Max(S) \in S /\ \A y \in S : Max(S) >= y
  BY Zenon DEF Max

LEMMA ChosenMin ==
  ASSUME NEW S, \E x \in S : \A y \in S : x =< y
  PROVE  Min(S) \in S /\ \A y \in S : Min(S) =< y
  BY Zenon DEF Min

\* Among finitely many numbered things one has the greatest value.
LEMMA Greatest ==
  ASSUME NEW n \in Nat, NEW f, NEW S, S \subseteq 1..n, S # {}, \A b \in S : f[b] \in Nat
  PROVE  \E b \in S : \A c \in S : f[c] <= f[b]
<1> DEFINE Has(k) == (S \cap (1..k) # {}) =>
                       \E b \in S \cap (1..k) : \A c \in S \cap (1..k) : f[c] <= f[b]
           Bad == {k \in 0..n : ~Has(k)}
<1>1. Bad = {}
  <2>1. SUFFICES ASSUME Bad # {} PROVE FALSE
    OBVIOUS
  <2>2. Bad \in SUBSET Nat
    OBVIOUS
  <2>3. PICK m \in Bad : \A k \in Bad : m <= k
    <3> HIDE DEF Bad
    <3> QED BY <2>1, <2>2, NatMin
  <2>4. m \in 0..n /\ ~Has(m)
    OBVIOUS
  <2>5. m # 0
    BY <2>4
  <2>6. m - 1 \in 0..n /\ m - 1 \notin Bad
    <3>1. m - 1 \in 0..n /\ ~(m <= m - 1)
      BY <2>4, <2>5
    <3> QED
      BY <3>1, <2>3
  <2>7. Has(m - 1)
    BY <2>6
  <2>8. 1..m = 1..(m - 1) \cup {m}
    BY <2>4, <2>5
  <2>9. CASE m \notin S
    <3>1. S \cap (1..m) = S \cap (1..(m - 1))
      BY <2>8, <2>9
    <3> QED
      BY <2>7, <2>4, <3>1
  <2>10. CASE m \in S /\ S \cap (1..(m - 1)) = {}
    <3>1. S \cap (1..m) = {m}
      BY <2>8, <2>10
    <3> QED
      BY <2>4, <2>10, <3>1
  <2>11. CASE m \in S /\ S \cap (1..(m - 1)) # {}
    <3>1. PICK b \in S \cap (1..(m - 1)) : \A c \in S \cap (1..(m - 1)) : f[c] <= f[b]
      BY <2>7, <2>11
    <3>2. \A c \in S \cap (1..m) : c = m \/ f[c] <= f[b]
      BY <2>8, <3>1
    <3>3. b \in S \cap (1..m) /\ m \in S \cap (1..m)
      BY <2>8, <2>11
    <3>4. f[b] \in Nat /\ f[m] \in Nat /\ \A c \in S \cap (1..m) : f[c] \in Nat
      BY <3>3
    <3>5. CASE f[m] <= f[b]
      BY <2>4, <3>2, <3>3, <3>5
    <3>6. CASE f[b] <= f[m]
      <4>1. \A c \in S \cap (1..m) : f[c] <= f[m]
        BY <3>2, <3>4, <3>6
      <4> QED
        BY <2>4, <3>3, <4>1
    <3> QED
      BY <3>4, <3>5, <3>6
  <2> QED
    BY <2>9, <2>10, <2>11
<1>2. Has(n)
  <2>1. n \in 0..n
    OBVIOUS
  <2> HIDE DEF Has
  <2> QED BY <1>1, <2>1
<1>3. S \cap (1..n) = S
  OBVIOUS
<1> QED
  BY <1>2, <1>3

LEMMA BufferMax ==
  ASSUME NEW S, S \subseteq Buffers, S # {}
  PROVE  Max(S) \in S /\ \A y \in S : Max(S) >= y
<1>1. BufferCount \in Nat /\ S \subseteq 1..BufferCount
  BY FrameAssumption DEF Buffers
<1> DEFINE f == [b \in 1..BufferCount |-> b]
<1>2. \A b \in S : f[b] = b /\ f[b] \in Nat
  BY <1>1
<1>3. \E b \in S : \A c \in S : f[c] <= f[b]
  <2> HIDE DEF f
  <2> QED BY <1>1, <1>2, Greatest
<1>4. \E b \in S : \A c \in S : b >= c
  BY <1>1, <1>2, <1>3
<1> QED
  BY <1>4, ChosenMax

LEMMA BufferMin ==
  ASSUME NEW S, S \subseteq Buffers, S # {}
  PROVE  Min(S) \in S /\ \A y \in S : Min(S) =< y
<1>1. S \in SUBSET Nat
  BY FrameAssumption DEF Buffers
<1>2. \E m \in S : \A k \in S : m =< k
  BY <1>1, NatMin
<1> QED
  BY <1>2, ChosenMin

LEMMA SizeMax ==
  ASSUME NEW s \in Sizes, NEW t \in Sizes
  PROVE  Max({s, t}) \in Sizes /\ Max({s, t}) >= s /\ Max({s, t}) >= t
<1>1. s >= t \/ t >= s
  BY DEF Sizes
<1>2. \E x \in {s, t} : \A y \in {s, t} : x >= y
  BY <1>1 DEF Sizes
<1> QED
  BY <1>2, ChosenMax

-----------------------------------------------------------------------------
(***************************************************************************)
(* The operations on the surface.                                          *)
(***************************************************************************)

LEMMA KeptAll ==
  ASSUME NEW old, NEW new, \A b \in Buffers : old[b].busy => new[b] = old[b]
  PROVE  Kept(old, new)
  BY DEF Kept

LEMMA KeptSelf == ASSUME NEW old PROVE Kept(old, old)
  BY DEF Kept

LEMMA KeptThen ==
  ASSUME NEW a, NEW b, NEW c, Kept(a, b), Kept(b, c)
  PROVE  Kept(a, c)
<1>1. SUFFICES ASSUME NEW i \in Buffers, a[i].busy
               PROVE  c[i].busy /\ c[i].cur \in {a[i].cur, a[i].cur \ Moved}
  BY DEF Kept
<1>2. b[i].busy /\ b[i].cur \in {a[i].cur, a[i].cur \ Moved}
  BY <1>1 DEF Kept
<1>3. c[i].busy /\ c[i].cur \in {b[i].cur, b[i].cur \ Moved}
  BY <1>2 DEF Kept
<1>4. (a[i].cur \ Moved) \ Moved = a[i].cur \ Moved
  OBVIOUS
<1> QED
  BY <1>2, <1>3, <1>4

LEMMA BufferFields ==
  ASSUME NEW e \in Buffer
  PROVE  /\ e = [cur |-> e.cur, age |-> e.age, tag |-> e.tag, busy |-> e.busy,
                 whole |-> e.whole]
         /\ e.cur \in SUBSET Parts /\ e.age \in Nat /\ e.tag \in Tags \cup {"none"}
         /\ e.busy \in BOOLEAN /\ e.whole \in BOOLEAN
  BY DEF Buffer

\* The buffers one field at a time, and back.
LEMMA SurfaceMade ==
  ASSUME NEW bs, NEW l \in 0 .. BufferCount, BuffersOK(bs), l # 0 => bs[l].whole
  PROVE  SurfaceOK([buf |-> bs, last |-> l])
  BY DEF SurfaceOK

\* A buffer that gets the last image as it is.
Copied(e, from) ==
  [cur |-> from.cur, age |-> 1, tag |-> e.tag, busy |-> e.busy, whole |-> from.whole]

LEMMA CopiedSound ==
  ASSUME NEW e \in Buffer, NEW from \in Buffer, from.whole
  PROVE  Copied(e, from) \in Buffer /\ Sound(Copied(e, from))
  BY BufferFields DEF Copied, Sound, Buffer

LEMMA CopyBuffer ==
  ASSUME NEW s, SurfaceOK(s), NEW from \in Buffers, NEW to \in Buffers
  PROVE  copy_buffer_prefix(s, from, to) =
           [buf |-> [s.buf EXCEPT ![to] = Copied(s.buf[to], s.buf[from])], last |-> s.last]
<1>1. s = [buf |-> s.buf, last |-> s.last] /\ s.buf \in [Buffers -> Buffer]
  BY DEF SurfaceOK, BuffersOK
<1>2. PICK e : e = s.buf[to]
  OBVIOUS
<1>3. PICK g : g = s.buf[from]
  OBVIOUS
<1>4. e = [cur |-> e.cur, age |-> e.age, tag |-> e.tag, busy |-> e.busy, whole |-> e.whole]
  BY <1>1, <1>2, BufferFields
<1>5. PICK c : c = [e EXCEPT !.cur = g.cur, !.whole = g.whole, !.age = 1]
  OBVIOUS
<1>6. c = Copied(e, g)
  BY <1>4, <1>5 DEF Copied
<1>7. copy_buffer_prefix(s, from, to) = [s EXCEPT !.buf[to] = c]
  BY <1>2, <1>3, <1>5 DEF copy_buffer_prefix
<1>8. PICK bs : bs = s.buf
  OBVIOUS
<1>9. s = [buf |-> bs, last |-> s.last]
  BY <1>1, <1>8
<1>10. [s EXCEPT !.buf[to] = c] = [buf |-> [bs EXCEPT ![to] = c], last |-> s.last]
  BY <1>9
<1> QED
  BY <1>2, <1>3, <1>6, <1>7, <1>8, <1>10

LEMMA SurfaceFields ==
  ASSUME NEW s, SurfaceOK(s)
  PROVE  /\ s = [buf |-> s.buf, last |-> s.last]
         /\ s.buf \in [Buffers -> Buffer] /\ s.last \in 0 .. BufferCount
         /\ \A b \in Buffers : s.buf[b] \in Buffer /\ Sound(s.buf[b])
         /\ s.last # 0 => s.last \in Buffers /\ s.buf[s.last].whole
  BY FrameAssumption DEF SurfaceOK, BuffersOK, Buffers

LEMMA SeedVirgin ==
  ASSUME NEW s, SurfaceOK(s), NEW b \in Buffers, ~s.buf[b].busy
  PROVE  LET t == seed_virgin_buffer(s, b)
         IN  SurfaceOK(t) /\ Kept(s.buf, t.buf) /\ t.last = s.last /\ ~t.buf[b].busy
<1> USE SurfaceFields
<1>1. CASE s.buf[b].age # 0 \/ s.last \in {0, b}
  <2>1. seed_virgin_buffer(s, b) = s
    BY <1>1 DEF seed_virgin_buffer
  <2> QED
    BY <1>1, <2>1, KeptSelf
<1>2. CASE ~(s.buf[b].age # 0 \/ s.last \in {0, b})
  <2>0. s.last \in Buffers /\ s.buf[s.last].whole /\ s.buf[b].tag = "none" /\ s.buf[b].age = 0
    BY <1>2 DEF Sound
  <2>1. PICK c : c = Copied(s.buf[b], s.buf[s.last])
    OBVIOUS
  <2>2. PICK t : t = [s.buf EXCEPT ![b] = c]
    OBVIOUS
  <2>3. copy_buffer_prefix(s, s.last, b) = [buf |-> t, last |-> s.last]
    BY <2>0, <2>1, <2>2, CopyBuffer
  <2>4. c \in Buffer /\ Sound(c) /\ c.tag = "none" /\ c.age = 1 /\ c.whole
    <3>1. c \in Buffer /\ Sound(c)
      BY <2>0, <2>1, CopiedSound
    <3> QED
      BY <2>0, <2>1, <3>1 DEF Copied
  <2>5. [c EXCEPT !.tag = "none"] = c
    BY <2>4, BufferFields
  <2>6. t \in [Buffers -> Buffer] /\ t[b] = c /\ \A k \in Buffers \ {b} : t[k] = s.buf[k]
    BY <2>2, <2>4
  <2>7. seed_virgin_buffer(s, b) = [buf |-> t, last |-> s.last]
    <3>1. seed_virgin_buffer(s, b) = [[buf |-> t, last |-> s.last] EXCEPT !.buf[b].tag = "none"]
      BY <1>2, <2>3 DEF seed_virgin_buffer
    <3>2. [[buf |-> t, last |-> s.last] EXCEPT !.buf[b].tag = "none"]
            = [buf |-> [t EXCEPT ![b] = [c EXCEPT !.tag = "none"]], last |-> s.last]
      BY <2>6
    <3>3. [t EXCEPT ![b] = c] = t
      BY <2>6
    <3> QED
      BY <3>1, <3>2, <3>3, <2>5
  <2>8. BuffersOK(t)
    BY <2>4, <2>6 DEF BuffersOK
  <2>9. t[s.last].whole
    BY <2>0, <2>4, <2>6
  <2>10. SurfaceOK([buf |-> t, last |-> s.last])
    BY <2>8, <2>9, SurfaceMade
  <2>11. Kept(s.buf, t)
    BY <2>6, KeptAll
  <2>12. ~t[b].busy
    BY <2>1, <2>6 DEF Copied
  <2> QED
    BY <2>7, <2>10, <2>11, <2>12
<1> QED
  BY <1>1, <1>2

LEMMA SeedReleased ==
  ASSUME NEW s, SurfaceOK(s), s.last # 0, NEW n \in Nat
  PROVE  LET t == seed_released_virgin_buffers(s, n)
         IN  SurfaceOK(t) /\ Kept(s.buf, t.buf) /\ t.last = s.last
<1> USE SurfaceFields
<1>1. PICK chosen : /\ seed_released_virgin_buffers(s, n) =
                         [s EXCEPT !.buf = [b \in Buffers |->
                            IF b \in chosen THEN copy_buffer_prefix(s, s.last, b).buf[b] ELSE @[b]]]
                    /\ chosen \subseteq {b \in Buffers : buffer_needs_seed(s, s.last, b)}
  BY DEF seed_released_virgin_buffers
<1>2. PICK t : t = [b \in Buffers |->
                      IF b \in chosen THEN copy_buffer_prefix(s, s.last, b).buf[b] ELSE s.buf[b]]
  OBVIOUS
<1>3. seed_released_virgin_buffers(s, n) = [buf |-> t, last |-> s.last]
  BY <1>1, <1>2
<1>4. \A b \in chosen : b \in Buffers /\ ~s.buf[b].busy /\ b # s.last
  BY <1>1 DEF buffer_needs_seed, Released
<1>5. \A b \in chosen : copy_buffer_prefix(s, s.last, b).buf[b] = Copied(s.buf[b], s.buf[s.last])
  <2>1. SUFFICES ASSUME NEW b \in chosen
                 PROVE copy_buffer_prefix(s, s.last, b).buf[b] = Copied(s.buf[b], s.buf[s.last])
    OBVIOUS
  <2>2. b \in Buffers /\ s.last \in Buffers
    BY <1>4
  <2>3. PICK c : c = Copied(s.buf[b], s.buf[s.last])
    OBVIOUS
  <2>4. copy_buffer_prefix(s, s.last, b) = [buf |-> [s.buf EXCEPT ![b] = c], last |-> s.last]
    <3> HIDE SurfaceFields
    <3> QED BY <2>2, <2>3, CopyBuffer
  <2> QED
    BY <2>2, <2>3, <2>4
<1>6. \A b \in Buffers : b \in chosen => t[b] = Copied(s.buf[b], s.buf[s.last])
  BY <1>2, <1>5
<1>7. \A b \in Buffers : b \notin chosen => t[b] = s.buf[b]
  BY <1>2
<1>8. \A b \in Buffers : t[b] \in Buffer /\ Sound(t[b])
  <2>1. SUFFICES ASSUME NEW b \in Buffers PROVE t[b] \in Buffer /\ Sound(t[b])
    OBVIOUS
  <2>2. CASE b \in chosen
    <3>1. s.buf[b] \in Buffer /\ s.buf[s.last] \in Buffer /\ s.buf[s.last].whole
      OBVIOUS
    <3>2. Copied(s.buf[b], s.buf[s.last]) \in Buffer /\ Sound(Copied(s.buf[b], s.buf[s.last]))
      BY <3>1, CopiedSound
    <3> QED
      BY <2>2, <1>6, <3>2
  <2>3. CASE b \notin chosen
    BY <2>3, <1>7
  <2> QED
    BY <2>2, <2>3
<1>9. BuffersOK(t)
  BY <1>2, <1>8 DEF BuffersOK
<1>10. t[s.last].whole
  BY <1>4, <1>7
<1>11. SurfaceOK([buf |-> t, last |-> s.last])
  BY <1>9, <1>10, SurfaceMade
<1>12. Kept(s.buf, t)
  BY <1>4, <1>7, KeptAll
<1> QED
  BY <1>3, <1>11, <1>12

\* present_buffer needs an image of the whole window.
Attached(e) == [cur |-> e.cur, age |-> 1, tag |-> "none", busy |-> TRUE, whole |-> e.whole]
Older(e) == [cur |-> e.cur, age |-> e.age + 1, tag |-> e.tag, busy |-> e.busy,
             whole |-> e.whole]

LEMMA PresentBuffer ==
  ASSUME NEW s, SurfaceOK(s), NEW b \in Buffers, s.buf[b].whole
  PROVE  LET t == present_buffer(s, b)
         IN  SurfaceOK(t) /\ Kept(s.buf, t.buf) /\ t.last = b /\ b # 0
<1> USE SurfaceFields
<1>1. PICK t : t = [c \in Buffers |->
              IF c = b THEN [s.buf[c] EXCEPT !.busy = TRUE, !.age = 1, !.tag = "none"]
              ELSE IF s.buf[c].age # 0 THEN [s.buf[c] EXCEPT !.age = @ + 1]
              ELSE s.buf[c]]
  OBVIOUS
<1>2. present_buffer(s, b) = [buf |-> t, last |-> b]
  BY <1>1 DEF present_buffer
<1>3. \A e \in Buffer : [e EXCEPT !.busy = TRUE, !.age = 1, !.tag = "none"] = Attached(e)
  <2>1. TAKE e \in Buffer
  <2>2. PICK f : f = [e EXCEPT !.busy = TRUE, !.age = 1, !.tag = "none"]
    OBVIOUS
  <2>3. e = [cur |-> e.cur, age |-> e.age, tag |-> e.tag, busy |-> e.busy, whole |-> e.whole]
    BY BufferFields
  <2>4. f = [cur |-> e.cur, age |-> 1, tag |-> "none", busy |-> TRUE, whole |-> e.whole]
    BY <2>2, <2>3
  <2> QED
    BY <2>2, <2>4 DEF Attached
<1>4. \A e \in Buffer : [e EXCEPT !.age = @ + 1] = Older(e)
  <2>1. TAKE e \in Buffer
  <2>2. e = [cur |-> e.cur, age |-> e.age, tag |-> e.tag, busy |-> e.busy, whole |-> e.whole]
    BY BufferFields
  <2> QED
    BY <2>2 DEF Older
<1>5. t[b] = Attached(s.buf[b])
  BY <1>1, <1>3
<1>6. \A c \in Buffers \ {b} : t[c] = Older(s.buf[c]) \/ t[c] = s.buf[c]
  BY <1>1, <1>4
<1>7. \A e \in Buffer : Sound(e) => Older(e) \in Buffer /\ (e.age # 0 => Sound(Older(e)))
                                    /\ Older(e).busy = e.busy /\ Older(e).cur = e.cur
  BY BufferFields DEF Older, Buffer, Sound
<1>8. \A e \in Buffer : e.whole => Attached(e) \in Buffer /\ Sound(Attached(e))
                                   /\ Attached(e).busy /\ Attached(e).cur = e.cur
  BY BufferFields DEF Attached, Buffer, Sound
<1>9. \A c \in Buffers \ {b} : (t[c] = Older(s.buf[c]) /\ s.buf[c].age # 0) \/ t[c] = s.buf[c]
  BY <1>1, <1>4
<1>10. \A c \in Buffers : t[c] \in Buffer /\ Sound(t[c])
  <2>1. t[b] \in Buffer /\ Sound(t[b])
    BY <1>5, <1>8
  <2>2. \A c \in Buffers \ {b} : t[c] \in Buffer /\ Sound(t[c])
    BY <1>7, <1>9
  <2> QED
    BY <2>1, <2>2
<1>11. BuffersOK(t)
  BY <1>1, <1>10 DEF BuffersOK
<1>12. b \in 0 .. BufferCount /\ b # 0
  BY FrameAssumption DEF Buffers
<1>13. t[b].whole
  BY <1>5 DEF Attached
<1>14. SurfaceOK([buf |-> t, last |-> b])
  BY <1>11, <1>12, <1>13, SurfaceMade
<1>15. Kept(s.buf, t)
  <2>1. t[b].busy /\ t[b].cur = s.buf[b].cur
    BY <1>5, <1>8
  <2>2. \A c \in Buffers \ {b} : t[c].busy = s.buf[c].busy /\ t[c].cur = s.buf[c].cur
    BY <1>7, <1>9
  <2> QED
    BY <2>1, <2>2 DEF Kept
<1> QED
  BY <1>2, <1>12, <1>14, <1>15

\* acquire_released_buffer gives a buffer the compositor does not read, or none.
LEMMA AcquireReleased ==
  ASSUME NEW s, SurfaceOK(s)
  PROVE  acquire_released_buffer(s) \in Released(s.buf) \cup {0}
<1> USE SurfaceFields
<1> DEFINE free == Released(s.buf)
           warm == {b \in free : s.buf[b].age # 0}
           oldest == {b \in warm : \A c \in warm : s.buf[c].age <= s.buf[b].age}
<1>1. acquire_released_buffer(s) =
        IF s.last \in free THEN s.last
        ELSE IF warm # {} THEN Max(oldest)
        ELSE IF free # {} THEN Min(free) ELSE 0
  BY DEF acquire_released_buffer
<1>2. free \subseteq Buffers /\ warm \subseteq free /\ oldest \subseteq warm
  BY DEF Released
<1>3. warm # {} => Max(oldest) \in free
  <2>1. SUFFICES ASSUME warm # {} PROVE Max(oldest) \in free
    OBVIOUS
  <2>2. BufferCount \in Nat /\ warm \subseteq 1..BufferCount
    BY <1>2, FrameAssumption DEF Buffers
  <2>3. PICK f : f = [b \in Buffers |-> s.buf[b].age]
    OBVIOUS
  <2>4. \A b \in warm : f[b] \in Nat /\ f[b] = s.buf[b].age
    BY <1>2, <2>3, BufferFields
  <2>5. \E b \in warm : \A c \in warm : f[c] <= f[b]
    <3> HIDE DEF warm
    <3> QED BY <2>1, <2>2, <2>4, Greatest
  <2>6. oldest # {}
    BY <2>4, <2>5
  <2>7. Max(oldest) \in oldest
    <3>1. oldest \subseteq Buffers
      BY <1>2
    <3> HIDE DEF oldest
    <3> QED BY <2>6, <3>1, BufferMax
  <2> QED
    BY <1>2, <2>7
<1>4. free # {} => Min(free) \in free
  <2> HIDE DEF free
  <2> QED BY <1>2, BufferMin
<1> HIDE DEF free, warm, oldest
<1>5. acquire_released_buffer(s) \in free \cup {0}
  BY <1>1, <1>3, <1>4
<1> QED
  BY <1>5 DEF free

SurfaceInv == SurfaceOK([buf |-> buf, last |-> last])

LEMMA SurfaceInvFields ==
  SurfaceInv <=> /\ BuffersOK(buf) /\ last \in 0 .. BufferCount
                 /\ last # 0 => buf[last].whole
  BY DEF SurfaceInv, SurfaceOK

\* ensure_buffers forgets what the buffers hold.
Cold(e) == [cur |-> e.cur, age |-> 0, tag |-> "none", busy |-> e.busy, whole |-> FALSE]

LEMMA EnsureBuffers ==
  ASSUME SurfaceInv
  PROVE  /\ SurfaceOK(ensure_buffers)
         /\ size.surface = size.window \/ ~(size.alloc < size.window) =>
              Kept(buf, ensure_buffers.buf)
<1>0. BuffersOK(buf) /\ last \in 0 .. BufferCount /\ (last # 0 => buf[last].whole)
  BY SurfaceInvFields
<1>1. CASE size.surface = size.window
  <2>1. ensure_buffers = [buf |-> buf, last |-> last]
    BY <1>1 DEF ensure_buffers
  <2> QED
    BY <2>1, KeptSelf DEF SurfaceInv
<1>2. CASE size.surface # size.window
  <2>1. PICK t : t = [b \in Buffers |->
                   IF size.alloc < size.window THEN NewBuffer
                   ELSE [buf[b] EXCEPT !.age = 0, !.tag = "none", !.whole = FALSE]]
    OBVIOUS
  <2>2. ensure_buffers = [buf |-> t, last |-> 0]
    BY <1>2, <2>1 DEF ensure_buffers
  <2>3. \A e \in Buffer : [e EXCEPT !.age = 0, !.tag = "none", !.whole = FALSE] = Cold(e)
    <3>1. TAKE e \in Buffer
    <3>2. PICK f : f = [e EXCEPT !.age = 0, !.tag = "none", !.whole = FALSE]
      OBVIOUS
    <3>3. e = [cur |-> e.cur, age |-> e.age, tag |-> e.tag, busy |-> e.busy, whole |-> e.whole]
      BY BufferFields
    <3>4. f = [cur |-> e.cur, age |-> 0, tag |-> "none", busy |-> e.busy, whole |-> FALSE]
      BY <3>2, <3>3
    <3> QED
      BY <3>2, <3>4 DEF Cold
  <2>4. \A e \in Buffer : Cold(e) \in Buffer /\ Sound(Cold(e)) /\ Cold(e).busy = e.busy
                          /\ Cold(e).cur = e.cur
    BY BufferFields DEF Cold, Buffer, Sound
  <2>5. NewBuffer \in Buffer /\ Sound(NewBuffer)
    BY DEF NewBuffer, Buffer, Sound
  <2>6. \A b \in Buffers : buf[b] \in Buffer
    BY <1>0 DEF BuffersOK
  <2>7. BuffersOK(t)
    <3>1. \A b \in Buffers : t[b] = NewBuffer \/ t[b] = Cold(buf[b])
      BY <2>1, <2>3, <2>6
    <3>2. \A b \in Buffers : t[b] \in Buffer /\ Sound(t[b])
      BY <2>4, <2>5, <2>6, <3>1
    <3> QED
      BY <2>1, <3>2 DEF BuffersOK
  <2>8. SurfaceOK([buf |-> t, last |-> 0])
    BY <2>7, FrameAssumption, SurfaceMade
  <2>9. ~(size.alloc < size.window) => Kept(buf, t)
    <3>1. SUFFICES ASSUME ~(size.alloc < size.window) PROVE Kept(buf, t)
      OBVIOUS
    <3>2. \A b \in Buffers : t[b] = Cold(buf[b])
      BY <2>1, <2>3, <2>6, <3>1
    <3>3. \A b \in Buffers : t[b].busy = buf[b].busy /\ t[b].cur = buf[b].cur
      BY <2>4, <2>6, <3>2
    <3> QED
      BY <3>3 DEF Kept
  <2> QED
    BY <1>2, <2>2, <2>8, <2>9
<1> QED
  BY <1>1, <1>2

\* Drawing into a released buffer.
LEMMA PaintedBuffer ==
  ASSUME NEW s, SurfaceOK(s), NEW b \in Buffers, ~s.buf[b].busy,
         NEW drawn \in SUBSET Parts
  PROVE  LET t == Painted(s, b, drawn)
         IN  /\ SurfaceOK(t) /\ Kept(s.buf, t.buf) /\ t.last = s.last
             /\ t.buf[b].whole <=> s.buf[b].whole \/ drawn = Parts
<1> USE SurfaceFields
<1> DEFINE Cur(c) == (s.buf[c].cur \ Moved) \cup (IF c = b THEN drawn ELSE {})
           Whole(c) == s.buf[c].whole \/ (c = b /\ drawn = Parts)
           New(c) == [cur |-> Cur(c), age |-> s.buf[c].age, tag |-> s.buf[c].tag,
                      busy |-> s.buf[c].busy, whole |-> Whole(c)]
<1>1. PICK t : t = [c \in Buffers |->
            [s.buf[c] EXCEPT !.cur = (@ \ Moved) \cup (IF c = b THEN drawn ELSE {}),
                             !.whole = @ \/ (c = b /\ drawn = Parts)]]
  OBVIOUS
<1>2. Painted(s, b, drawn) = [buf |-> t, last |-> s.last]
  <2>1. Painted(s, b, drawn) = [s EXCEPT !.buf = t]
    BY <1>1 DEF Painted
  <2> QED
    BY <2>1
<1>3. \A c \in Buffers : t[c] = New(c)
  <2>1. TAKE c \in Buffers
  <2>2. PICK e : e = s.buf[c]
    OBVIOUS
  <2>3. PICK u, w : u = Cur(c) /\ w = Whole(c)
    OBVIOUS
  <2>4. t[c] = [e EXCEPT !.cur = u, !.whole = w]
    BY <1>1, <2>2, <2>3
  <2>5. e = [cur |-> e.cur, age |-> e.age, tag |-> e.tag, busy |-> e.busy, whole |-> e.whole]
    BY <2>2, BufferFields
  <2>6. PICK f : f = [e EXCEPT !.cur = u, !.whole = w]
    OBVIOUS
  <2>7. f = [cur |-> u, age |-> e.age, tag |-> e.tag, busy |-> e.busy, whole |-> w]
    BY <2>5, <2>6
  <2>8. t[c] = f
    BY <2>4, <2>6
  <2> QED
    BY <2>2, <2>3, <2>7, <2>8
<1>4. \A c \in Buffers : Cur(c) \in SUBSET Parts /\ Whole(c) \in BOOLEAN
  BY BufferFields
<1>5. \A c \in Buffers : New(c) \in Buffer /\ Sound(New(c))
  <2>1. TAKE c \in Buffers
  <2>2. s.buf[c] \in Buffer /\ Sound(s.buf[c])
    OBVIOUS
  <2>3. PICK u, w : u = Cur(c) /\ w = Whole(c)
    OBVIOUS
  <2>4. u \in SUBSET Parts /\ w \in BOOLEAN /\ (s.buf[c].whole => w)
    BY <1>4, <2>3
  <2>5. New(c) = [cur |-> u, age |-> s.buf[c].age, tag |-> s.buf[c].tag,
                  busy |-> s.buf[c].busy, whole |-> w]
    BY <2>3
  <2> HIDE DEF New
  <2>6. New(c) \in Buffer
    BY <2>2, <2>4, <2>5, BufferFields DEF Buffer
  <2>7. Sound(New(c))
    BY <2>2, <2>4, <2>5 DEF Sound
  <2> QED
    BY <2>6, <2>7
<1>6. BuffersOK(t)
  <2>1. \A c \in Buffers : t[c] \in Buffer /\ Sound(t[c])
    <3> HIDE DEF New
    <3> QED BY <1>3, <1>5
  <2> QED
    BY <1>1, <2>1 DEF BuffersOK
<1>7. \A c \in Buffers : t[c].whole = Whole(c) /\ t[c].busy = s.buf[c].busy /\ t[c].cur = Cur(c)
  <2>1. TAKE c \in Buffers
  <2>2. PICK u, w : u = Cur(c) /\ w = Whole(c)
    OBVIOUS
  <2>3. t[c] = [cur |-> u, age |-> s.buf[c].age, tag |-> s.buf[c].tag,
                busy |-> s.buf[c].busy, whole |-> w]
    BY <1>3, <2>2
  <2> HIDE DEF Cur, Whole
  <2> QED
    BY <2>2, <2>3
<1>8. s.last # 0 => t[s.last].whole
  BY <1>7
<1>9. SurfaceOK([buf |-> t, last |-> s.last])
  BY <1>6, <1>8, SurfaceMade
<1>10. Kept(s.buf, t)
  BY <1>7 DEF Kept
<1>11. t[b].whole <=> s.buf[b].whole \/ drawn = Parts
  BY <1>7
<1> QED
  BY <1>2, <1>9, <1>10, <1>11

-----------------------------------------------------------------------------
(***************************************************************************)
(* The retained images prepared after a frame.                             *)
(***************************************************************************)
App == [mode : Modes, retained : Tags \cup {"none"}, sentCurrent : BOOLEAN,
        sentNav : BOOLEAN, focused : BOOLEAN, scrolled : BOOLEAN]

LEMMA AppFields ==
  ASSUME NEW a \in App
  PROVE  /\ a = [mode |-> a.mode, retained |-> a.retained, sentCurrent |-> a.sentCurrent,
                 sentNav |-> a.sentNav, focused |-> a.focused, scrolled |-> a.scrolled]
         /\ a.mode \in Modes /\ a.retained \in Tags \cup {"none"}
         /\ a.sentCurrent \in BOOLEAN /\ a.sentNav \in BOOLEAN
         /\ a.focused \in BOOLEAN /\ a.scrolled \in BOOLEAN
  BY DEF App

LEMMA MinOfThree ==
  ASSUME NEW i \in Nat, NEW j \in Nat, NEW k \in Nat
  PROVE  Min({i, j, k}) <= i
<1>1. {i, j, k} \in SUBSET Nat /\ {i, j, k} # {}
  OBVIOUS
<1>2. \E m \in {i, j, k} : \A n \in {i, j, k} : m =< n
  BY <1>1, NatMin
<1>3. \A n \in {i, j, k} : Min({i, j, k}) =< n
  BY <1>2, ChosenMin
<1> QED
  BY <1>3

\* The updates are tags, in whatever order.
LEMMA UpdatesAreTags ==
  ASSUME NEW a
  PROVE  LET u == UnsentUpdates(a)
         IN  Len(u) \in Nat /\ \A n \in 1..Len(u) : u[n] \in Tags
<1>1. UnsentUpdates(a) \in
        { <<"NavigationStart", "CurrentView">>, <<"CurrentView", "NavigationStart">>,
          <<"CurrentView">>, <<"NavigationStart">>, << >> }
  BY DEF UnsentUpdates
<1>2. \A u \in { <<"NavigationStart", "CurrentView">>, <<"CurrentView", "NavigationStart">>,
                 <<"CurrentView">>, <<"NavigationStart">>, << >> } :
        Len(u) \in Nat /\ \A n \in 1..Len(u) : u[n] \in Tags
  BY DEF Tags
<1> QED
  BY <1>1, <1>2

\* The rank of a buffer among some counts from one.
LEMMA RankPositive ==
  ASSUME NEW S \in SUBSET Buffers, NEW b \in S
  PROVE  LET r == Cardinality({c \in S : c <= b})
         IN  r \in Nat /\ r >= 1 /\ Cardinality(S) \in Nat
<1>1. BufferCount \in Nat /\ Buffers = 1..BufferCount
  BY FrameAssumption DEF Buffers
<1>2. IsFiniteSet(Buffers)
  BY <1>1, FS_Interval
<1>3. IsFiniteSet(S)
  BY <1>2, FS_Subset
<1> DEFINE T == {c \in S : c <= b}
<1>4. T \subseteq S /\ T # {}
  BY <1>1
<1> HIDE DEF T
<1>5. IsFiniteSet(T)
  BY <1>3, <1>4, FS_Subset
<1>6. Cardinality(T) \in Nat /\ Cardinality(T) # 0 /\ Cardinality(S) \in Nat
  BY <1>3, <1>4, <1>5, FS_CardinalityType, FS_EmptySet
<1> QED
  BY <1>6 DEF T

\* The whole image a retained update writes.
Image(e, tag) == [cur |-> {"page"}, age |-> 1, tag |-> tag, busy |-> e.busy, whole |-> TRUE]

LEMMA ImageSound ==
  ASSUME NEW e \in Buffer, NEW tag \in Tags
  PROVE  RetainedImage(e, tag) = Image(e, tag) /\ Image(e, tag) \in Buffer
           /\ Sound(Image(e, tag))
<1>1. PICK f : f = [e EXCEPT !.cur = {"page"}, !.whole = TRUE, !.age = 1, !.tag = tag]
  OBVIOUS
<1>2. e = [cur |-> e.cur, age |-> e.age, tag |-> e.tag, busy |-> e.busy, whole |-> e.whole]
        /\ e.busy \in BOOLEAN
  BY BufferFields
<1>3. f = Image(e, tag)
  BY <1>1, <1>2 DEF Image
<1>4. Image(e, tag) \in Buffer /\ Sound(Image(e, tag))
  BY <1>2 DEF Image, Buffer, Sound, Parts
<1> QED
  BY <1>1, <1>3, <1>4 DEF RetainedImage

LEMMA Prepared ==
  ASSUME NEW s, SurfaceOK(s), NEW a \in App
  PROVE  LET r == PrepareRetained(a, s)
         IN  /\ SurfaceOK([buf |-> r.buf, last |-> s.last]) /\ Kept(s.buf, r.buf)
             /\ r.app \in App /\ r.app.mode = a.mode /\ r.app.retained = a.retained
             /\ r.app.scrolled = a.scrolled
<1> USE SurfaceFields
<1> DEFINE updates == UnsentUpdates(a)
           free == {b \in Released(s.buf) : s.buf[b].tag = "none"}
           rank(b) == Cardinality({c \in free : c <= b})
           count == Min({Len(updates), Cardinality(free), UpdateCount})
           sends(tag) == \E k \in 1 .. count : updates[k] = tag
           r == PrepareRetained(a, s)
<1>1. free \in SUBSET Buffers /\ \A b \in free : ~s.buf[b].busy
  BY DEF Released
<1>2. r = [app |-> [a EXCEPT !.sentCurrent = @ \/ sends("CurrentView"),
                             !.sentNav = @ \/ sends("NavigationStart")],
           buf |-> [b \in Buffers |->
                      IF b \in free /\ rank(b) <= count
                      THEN RetainedImage(s.buf[b], updates[rank(b)]) ELSE s.buf[b]]]
  BY DEF PrepareRetained
<1>3. PICK x, y : x = (a.sentCurrent \/ sends("CurrentView"))
                  /\ y = (a.sentNav \/ sends("NavigationStart"))
  OBVIOUS
<1>4. x \in BOOLEAN /\ y \in BOOLEAN
  BY <1>3
<1>5. r.app = [a EXCEPT !.sentCurrent = x, !.sentNav = y]
  BY <1>2, <1>3
<1>6. r.app = [mode |-> a.mode, retained |-> a.retained, sentCurrent |-> x,
               sentNav |-> y, focused |-> a.focused, scrolled |-> a.scrolled]
  BY <1>5, AppFields
<1>7. r.app \in App /\ r.app.mode = a.mode /\ r.app.retained = a.retained
        /\ r.app.scrolled = a.scrolled
  BY <1>4, <1>6, AppFields DEF App
<1>8. PICK t : t = [b \in Buffers |->
                      IF b \in free /\ rank(b) <= count
                      THEN RetainedImage(s.buf[b], updates[rank(b)]) ELSE s.buf[b]]
  OBVIOUS
<1>9. r.buf = t
  BY <1>2, <1>8
<1>10. \A b \in free : rank(b) <= count => updates[rank(b)] \in Tags
  <2>1. TAKE b \in free
  <2>2. rank(b) \in Nat /\ rank(b) >= 1 /\ Cardinality(free) \in Nat
    <3> HIDE DEF free
    <3> QED BY <1>1, RankPositive
  <2>3. Len(updates) \in Nat /\ \A n \in 1..Len(updates) : updates[n] \in Tags
    BY UpdatesAreTags
  <2>4. UpdateCount \in Nat
    BY FrameAssumption
  <2> HIDE DEF updates, free, rank
  <2>5. count <= Len(updates)
    BY <2>2, <2>3, <2>4, MinOfThree
  <2>6. count \in Nat
    <3>1. {Len(updates), Cardinality(free), UpdateCount} \in SUBSET Nat
      BY <2>2, <2>3, <2>4
    <3>2. \E m \in {Len(updates), Cardinality(free), UpdateCount} :
            \A n \in {Len(updates), Cardinality(free), UpdateCount} : m =< n
      BY <3>1, NatMin
    <3> QED
      BY <3>1, <3>2, ChosenMin
  <2> HIDE DEF count
  <2> QED
    BY <2>2, <2>3, <2>5, <2>6
<1> HIDE DEF updates, count, rank, sends, r
<1>11. \A b \in Buffers : (b \in free /\ \E tag \in Tags : t[b] = RetainedImage(s.buf[b], tag))
                          \/ t[b] = s.buf[b]
  BY <1>8, <1>10
<1>12. \A b \in Buffers : (b \in free /\ \E tag \in Tags : t[b] = Image(s.buf[b], tag))
                          \/ t[b] = s.buf[b]
  BY <1>11, ImageSound
<1>13. \A b \in Buffers : t[b] \in Buffer /\ Sound(t[b])
  BY <1>12, ImageSound
<1>14. BuffersOK(t)
  BY <1>8, <1>13 DEF BuffersOK
<1>15. s.last # 0 => t[s.last].whole
  <2>1. SUFFICES ASSUME s.last # 0 PROVE t[s.last].whole
    OBVIOUS
  <2>2. s.last \in Buffers /\ s.buf[s.last].whole
    BY <2>1
  <2>3. \A tag : Image(s.buf[s.last], tag).whole
    BY DEF Image
  <2> QED
    BY <1>12, <2>2, <2>3
<1>16. SurfaceOK([buf |-> t, last |-> s.last])
  BY <1>14, <1>15, SurfaceMade
<1>17. Kept(s.buf, t)
  BY <1>1, <1>12, KeptAll
<1> QED
  BY <1>7, <1>9, <1>16, <1>17 DEF r

-----------------------------------------------------------------------------
(***************************************************************************)
(* Redraw modes.                                                           *)
(***************************************************************************)

\* What each mode draws, part by part.
LEMMA DrawnParts ==
  ASSUME NEW m \in Modes
  PROVE  /\ Drawn(m, FALSE) \in SUBSET Parts
         /\ "page" \in Drawn(m, FALSE) <=> m \in {"Full", "DamageWithChrome", "Damage"}
         /\ "text" \in Drawn(m, FALSE) <=>
              m \in {"Full", "DamageWithChrome", "AddressChrome", "AddressFullTextChrome",
                     "AddressTextChrome", "Chrome"}
         /\ "status" \in Drawn(m, FALSE) <=>
              m \in {"Full", "DamageWithChrome", "StatusChrome", "NavigationStartChrome",
                     "Chrome"}
         /\ "buttons" \in Drawn(m, FALSE) <=>
              m \in {"Full", "DamageWithChrome", "NavigationStartChrome", "Chrome"}
  BY DEF Drawn, Damaged, Modes, PageModes, ChromeModes, Parts, Chrome

\* A mode draws no more than it damages.
LEMMA DrawnIsDamaged ==
  ASSUME NEW m \in Modes
  PROVE  /\ Drawn(m, FALSE) \subseteq Damaged(m) /\ Damaged(m) \in SUBSET Parts
         /\ Damaged(m) = {} <=> m \in {"Clean", "Scroll"}
         /\ Damaged("Full") = Parts /\ Drawn("Full", FALSE) = Parts
         /\ Drawn("Clean", FALSE) = {} /\ Drawn("Scroll", FALSE) = {}
  BY DEF Drawn, Damaged, Modes, PageModes, ChromeModes, Parts, Chrome

LEMMA CombinedMode ==
  ASSUME NEW a \in Modes, NEW b \in Modes
  PROVE  /\ combine_redraw_mode(a, b) \in Modes
         /\ combine_redraw_mode(a, b) = "Clean" => a = "Clean" /\ b = "Clean"
         /\ a = "Clean" => combine_redraw_mode(a, b) = b
         /\ {a, b} \subseteq {"Clean"} \cup PageModes =>
              combine_redraw_mode(a, b) \in {"Clean"} \cup PageModes
  BY DEF combine_redraw_mode, Modes, PageModes, ChromeModes

\* A combined mode draws what either asked for, but for the focus ring.
Covers(c, a) ==
  /\ a \in {"Full", "DamageWithChrome", "Damage"} =>
       c \in {"Full", "DamageWithChrome", "Damage"}
  /\ a \in {"Full", "DamageWithChrome", "AddressChrome", "AddressFullTextChrome",
            "AddressTextChrome", "Chrome"} =>
       c \in {"Full", "DamageWithChrome", "AddressChrome", "AddressFullTextChrome",
              "AddressTextChrome", "Chrome"}
  /\ a \in {"Full", "DamageWithChrome", "StatusChrome", "NavigationStartChrome", "Chrome"} =>
       c \in {"Full", "DamageWithChrome", "StatusChrome", "NavigationStartChrome", "Chrome"}
  /\ a \in {"Full", "DamageWithChrome", "NavigationStartChrome", "Chrome"} =>
       c \in {"Full", "DamageWithChrome", "NavigationStartChrome", "Chrome"}

LEMMA CombinedCovers ==
  ASSUME NEW a \in Modes, NEW b \in Modes
  PROVE  Covers(combine_redraw_mode(a, b), a) /\ Covers(combine_redraw_mode(a, b), b)
<1> DEFINE c == combine_redraw_mode(a, b)
           Address == {"AddressFocusChrome", "AddressFullTextChrome", "AddressChrome",
                       "AddressTextChrome"}
<1>1. \A m : Covers(m, m) /\ Covers(m, "Clean") /\ Covers(m, "Scroll")
  BY DEF Covers
<1>2. CASE {a, b} \cap {"Clean", "Scroll"} # {}
  <2>1. (c = a /\ b \in {"Clean", "Scroll"}) \/ (c = b /\ a \in {"Clean", "Scroll"})
    BY <1>2 DEF combine_redraw_mode
  <2> QED
    BY <1>1, <2>1
<1>3. CASE {a, b} \cap {"Clean", "Scroll"} = {} /\ "Full" \in {a, b}
  <2>1. c = "Full"
    BY <1>3 DEF combine_redraw_mode
  <2>2. \A m : Covers("Full", m)
    BY DEF Covers
  <2> QED
    BY <2>1, <2>2
<1>4. CASE {a, b} \cap {"Clean", "Scroll", "Full"} = {} /\ {a, b} \subseteq PageModes
  <2>1. c = "Damage"
    BY <1>4 DEF combine_redraw_mode
  <2>2. \A m \in PageModes : Covers("Damage", m)
    BY DEF Covers, PageModes
  <2> QED
    BY <1>4, <2>1, <2>2
<1>5. CASE /\ {a, b} \cap {"Clean", "Scroll", "Full"} = {} /\ ~({a, b} \subseteq PageModes)
           /\ {a, b} \cap (PageModes \cup {"DamageWithChrome"}) # {}
  <2>1. c = "DamageWithChrome"
    BY <1>5 DEF combine_redraw_mode
  <2>2. \A m : Covers("DamageWithChrome", m)
    BY DEF Covers
  <2> QED
    BY <2>1, <2>2
<1>6. CASE /\ {a, b} \cap {"Clean", "Scroll", "Full"} = {}
           /\ {a, b} \cap (PageModes \cup {"DamageWithChrome"}) = {}
  <2>0. {a, b} \subseteq ChromeModes /\ ~({a, b} \subseteq PageModes)
    BY <1>6 DEF Modes
  <2>1. CASE a = b
    <3>1. c = a
      BY <1>6, <2>0, <2>1 DEF combine_redraw_mode
    <3> QED
      BY <1>1, <2>1, <3>1
  <2>2. CASE a # b /\ {a, b} \cap {"Chrome", "StatusChrome", "NavigationStartChrome"} # {}
    <3>1. c = "Chrome"
      BY <1>6, <2>0, <2>2 DEF combine_redraw_mode
    <3>2. \A m \in ChromeModes : Covers("Chrome", m)
      BY DEF Covers, ChromeModes
    <3> QED
      BY <2>0, <3>1, <3>2
  <2>3. CASE a # b /\ {a, b} \cap {"Chrome", "StatusChrome", "NavigationStartChrome"} = {}
    <3>1. {a, b} \subseteq Address
      BY <2>0, <2>3 DEF ChromeModes
    <3>2. c \in {"AddressChrome", "AddressFullTextChrome"}
      BY <1>6, <2>0, <2>3 DEF combine_redraw_mode
    <3>3. \A m \in Address :
            Covers("AddressChrome", m) /\ Covers("AddressFullTextChrome", m)
      BY DEF Covers
    <3> QED
      BY <3>1, <3>2, <3>3
  <2> QED
    BY <2>1, <2>2, <2>3
<1> QED
  BY <1>2, <1>3, <1>4, <1>5, <1>6

LEMMA CombinedDraws ==
  ASSUME NEW a \in Modes, NEW b \in Modes
  PROVE  (Drawn(a, FALSE) \cup Drawn(b, FALSE)) \ {"ring"}
           \subseteq Drawn(combine_redraw_mode(a, b), FALSE)
<1>1. PICK c \in Modes : c = combine_redraw_mode(a, b)
  BY CombinedMode
<1>2. Covers(c, a) /\ Covers(c, b)
  BY <1>1, CombinedCovers
<1>3. \A m \in {a, b} : Drawn(m, FALSE) \ {"ring"} \subseteq Drawn(c, FALSE)
  <2>1. TAKE m \in {a, b}
  <2>2. Covers(c, m) /\ m \in Modes
    BY <1>2
  <2>3. /\ "page" \in Drawn(m, FALSE) => "page" \in Drawn(c, FALSE)
        /\ "text" \in Drawn(m, FALSE) => "text" \in Drawn(c, FALSE)
        /\ "status" \in Drawn(m, FALSE) => "status" \in Drawn(c, FALSE)
        /\ "buttons" \in Drawn(m, FALSE) => "buttons" \in Drawn(c, FALSE)
    BY <2>2, DrawnParts DEF Covers
  <2>4. Drawn(m, FALSE) \subseteq Parts
    BY <2>2, DrawnParts
  <2> QED
    BY <2>3, <2>4 DEF Parts
<1> QED
  BY <1>1, <1>3

LEMMA Marks ==
  ASSUME NEW a \in App, NEW m \in Modes
  PROVE  LET r == mark_redraw(a, m)
         IN  /\ r \in App /\ r.mode = combine_redraw_mode(a.mode, m) /\ r.retained = "none"
             /\ r.sentNav = (a.sentNav /\ m = "Clean")
             /\ r.sentCurrent = (a.sentCurrent /\ m \in {"Clean", "PageInputFocus"})
             /\ r.focused = a.focused /\ r.scrolled = a.scrolled
<1>1. PICK x, y, z : /\ x = (a.sentNav /\ m = "Clean")
                     /\ y = (a.sentCurrent /\ m \in {"Clean", "PageInputFocus"})
                     /\ z = combine_redraw_mode(a.mode, m)
  OBVIOUS
<1>2. x \in BOOLEAN /\ y \in BOOLEAN /\ z \in Modes
  BY <1>1, AppFields, CombinedMode
<1>3. PICK r : r = mark_redraw(a, m)
  OBVIOUS
<1>4. r = [a EXCEPT !.retained = "none", !.sentNav = x, !.sentCurrent = y, !.mode = z]
  BY <1>1, <1>3 DEF mark_redraw
<1>5. a = [mode |-> a.mode, retained |-> a.retained, sentCurrent |-> a.sentCurrent,
           sentNav |-> a.sentNav, focused |-> a.focused, scrolled |-> a.scrolled]
  BY AppFields
<1>6. r = [mode |-> z, retained |-> "none", sentCurrent |-> y,
           sentNav |-> x, focused |-> a.focused, scrolled |-> a.scrolled]
  BY <1>4, <1>5
<1>7. r \in App
  BY <1>2, <1>6, AppFields DEF App
<1>8. r.mode = z /\ r.retained = "none" /\ r.sentNav = x /\ r.sentCurrent = y
        /\ r.focused = a.focused /\ r.scrolled = a.scrolled
  BY <1>6
<1> QED
  BY <1>1, <1>3, <1>7, <1>8

-----------------------------------------------------------------------------
(***************************************************************************)
(* The buffers after each step.                                            *)
(***************************************************************************)
SizeTypeOK == size \in [window : Sizes, painted : Sizes, surface : Sizes, alloc : Sizes]

LEMMA OutdateKeeps ==
  ASSUME SurfaceInv, NEW parts \in SUBSET Parts, NEW navigation \in BOOLEAN,
         Outdate(parts, navigation), last' = last
  PROVE  SurfaceInv'
<1>0. BuffersOK(buf) /\ last \in 0 .. BufferCount /\ (last # 0 => buf[last].whole)
  BY SurfaceInvFields
<1> DEFINE Cur(b) == (buf[b].cur \ parts) \cup
                       (IF navigation /\ buf[b].tag = "NavigationStart" THEN parts ELSE {})
<1>1. buf' = [b \in Buffers |-> [buf[b] EXCEPT !.cur = Cur(b)]]
  BY DEF Outdate
<1>2. \A b \in Buffers : buf[b] \in Buffer /\ Sound(buf[b])
  BY <1>0 DEF BuffersOK
<1>3. \A b \in Buffers :
        /\ buf'[b] \in Buffer /\ Sound(buf'[b]) /\ buf'[b].whole = buf[b].whole
  <2>1. TAKE b \in Buffers
  <2>2. PICK e : e = buf[b]
    OBVIOUS
  <2>3. PICK u : u = Cur(b)
    OBVIOUS
  <2>4. e = [cur |-> e.cur, age |-> e.age, tag |-> e.tag, busy |-> e.busy, whole |-> e.whole]
          /\ e.cur \in SUBSET Parts /\ e \in Buffer /\ Sound(e)
    BY <1>2, <2>2, BufferFields
  <2>5. u \in SUBSET Parts
    BY <2>2, <2>3, <2>4
  <2>6. buf'[b] = [e EXCEPT !.cur = u]
    BY <1>1, <2>2, <2>3
  <2>7. buf'[b] = [cur |-> u, age |-> e.age, tag |-> e.tag, busy |-> e.busy, whole |-> e.whole]
    BY <2>4, <2>6
  <2>8. buf'[b] \in Buffer
    BY <2>4, <2>5, <2>7, BufferFields DEF Buffer
  <2>9. Sound(buf'[b]) /\ buf'[b].whole = e.whole
    BY <2>4, <2>7 DEF Sound
  <2> QED
    BY <2>2, <2>8, <2>9
<1>4. PICK t : t = buf'
  OBVIOUS
<1>5. BuffersOK(t)
  BY <1>1, <1>3, <1>4 DEF BuffersOK
<1>6. last # 0 => t[last].whole
  BY <1>0, <1>3, <1>4, FrameAssumption DEF Buffers
<1>7. SurfaceOK([buf |-> t, last |-> last])
  BY <1>0, <1>5, <1>6, SurfaceMade
<1> QED
  BY <1>4, <1>7 DEF SurfaceInv

LEMMA ReleaseKeeps ==
  ASSUME SurfaceInv, NEW b \in Buffers, Release(b)
  PROVE  SurfaceInv' /\ ~buf'[b].busy /\ \A c \in Buffers \ {b} : buf'[c] = buf[c]
<1>0. BuffersOK(buf) /\ last \in 0 .. BufferCount /\ (last # 0 => buf[last].whole)
  BY SurfaceInvFields
<1>1. PICK e : e = buf[b]
  OBVIOUS
<1>2. e = [cur |-> e.cur, age |-> e.age, tag |-> e.tag, busy |-> e.busy, whole |-> e.whole]
        /\ e \in Buffer /\ Sound(e)
  BY <1>0, <1>1, BufferFields DEF BuffersOK
<1>3. PICK f : f = [e EXCEPT !.busy = FALSE]
  OBVIOUS
<1>4. f = [cur |-> e.cur, age |-> e.age, tag |-> e.tag, busy |-> FALSE, whole |-> e.whole]
  BY <1>2, <1>3
<1>5. f \in Buffer /\ Sound(f) /\ f.whole = e.whole /\ ~f.busy
  BY <1>2, <1>4, BufferFields DEF Sound, Buffer
<1>6. PICK t : t = [buf EXCEPT ![b] = f]
  OBVIOUS
<1>7. buf' = t /\ last' = last
  BY <1>1, <1>3, <1>6 DEF Release
<1>8. t \in [Buffers -> Buffer] /\ t[b] = f /\ \A c \in Buffers \ {b} : t[c] = buf[c]
  BY <1>0, <1>5, <1>6 DEF BuffersOK
<1>9. BuffersOK(t)
  BY <1>0, <1>5, <1>8 DEF BuffersOK
<1>10. last # 0 => t[last].whole
  BY <1>0, <1>1, <1>5, <1>8, FrameAssumption DEF Buffers
<1>11. SurfaceOK([buf |-> t, last |-> last])
  BY <1>0, <1>9, <1>10, SurfaceMade
<1> QED
  BY <1>5, <1>7, <1>8, <1>11 DEF SurfaceInv

\* warm_surface_after_present and the retained images, after a presented frame.
LEMMA AfterPresentKeeps ==
  ASSUME NEW s, SurfaceOK(s), s.last # 0, NEW a \in App, AfterPresent(a, s)
  PROVE  /\ SurfaceInv' /\ Kept(s.buf, buf')
         /\ app' \in App /\ app'.mode = a.mode /\ app'.retained = a.retained
         /\ app'.scrolled = a.scrolled
<1>1. PICK w : w = warm_one_released_virgin_buffer(s)
  OBVIOUS
<1>2. PICK r : r = PrepareRetained(a, w)
  OBVIOUS
<1>3. app' = r.app /\ buf' = r.buf /\ last' = w.last
  BY <1>1, <1>2 DEF AfterPresent
<1>4. SurfaceOK(w) /\ Kept(s.buf, w.buf) /\ w.last = s.last
  <2>1. w = seed_released_virgin_buffers(s, 1)
    BY <1>1 DEF warm_one_released_virgin_buffer
  <2>2. 1 \in Nat
    OBVIOUS
  <2> QED
    BY <2>1, <2>2, SeedReleased
<1>5. /\ SurfaceOK([buf |-> r.buf, last |-> w.last]) /\ Kept(w.buf, r.buf)
      /\ r.app \in App /\ r.app.mode = a.mode /\ r.app.retained = a.retained
      /\ r.app.scrolled = a.scrolled
  BY <1>2, <1>4, Prepared
<1>6. Kept(s.buf, buf')
  BY <1>3, <1>4, <1>5, KeptThen
<1>7. SurfaceInv'
  BY <1>3, <1>5 DEF SurfaceInv
<1> QED
  BY <1>3, <1>5, <1>6, <1>7

LEMMA PresentRetainedKeeps ==
  ASSUME SurfaceInv, app \in App, PresentRetained
  PROVE  /\ SurfaceInv' /\ Kept(buf, buf')
         /\ app' \in App /\ app'.mode = "Clean" /\ app'.retained = "none"
         /\ app'.scrolled = app.scrolled
<1> DEFINE here == {c \in Released(buf) : buf[c].tag = app.retained}
<1>1. PICK b : b = Min(here)
  OBVIOUS
<1>2. AfterPresent(handle_browser_presented_frame(app),
                   present_buffer([buf |-> buf, last |-> last], b))
  BY <1>1 DEF PresentRetained
<1>3. here # {} /\ here \subseteq Buffers /\ app.retained # "none"
  BY DEF PresentRetained, HasRetained, Released
<1>4. b \in Buffers /\ buf[b].tag = app.retained
  <2>1. b \in here
    <3> HIDE DEF here
    <3> QED BY <1>1, <1>3, BufferMin
  <2> QED
    BY <1>3, <2>1
<1>5. PICK s : s = [buf |-> buf, last |-> last]
  OBVIOUS
<1>6. SurfaceOK(s) /\ s.buf = buf
  BY <1>5 DEF SurfaceInv
<1>7. s.buf[b].whole
  BY <1>3, <1>4, <1>6, SurfaceFields DEF Sound
<1>8. PICK t : t = present_buffer(s, b)
  OBVIOUS
<1>9. SurfaceOK(t) /\ Kept(s.buf, t.buf) /\ t.last = b /\ b # 0
  BY <1>4, <1>6, <1>7, <1>8, PresentBuffer
<1>10. PICK a : a = handle_browser_presented_frame(app)
  OBVIOUS
<1>11. a \in App /\ a.mode = "Clean" /\ a.retained = "none" /\ a.scrolled = app.scrolled
  <2>1. PICK x : x = (app.sentCurrent /\ app.retained # "CurrentView")
    OBVIOUS
  <2>2. x \in BOOLEAN
    BY <2>1, AppFields
  <2>3. a = [app EXCEPT !.retained = "none", !.mode = "Clean", !.sentCurrent = x]
    BY <1>10, <2>1 DEF handle_browser_presented_frame
  <2>4. PICK g : g = app
    OBVIOUS
  <2>5. g = [mode |-> g.mode, retained |-> g.retained, sentCurrent |-> g.sentCurrent,
             sentNav |-> g.sentNav, focused |-> g.focused, scrolled |-> g.scrolled]
    BY <2>4, AppFields
  <2>6. a = [g EXCEPT !.retained = "none", !.mode = "Clean", !.sentCurrent = x]
    BY <2>3, <2>4
  <2>7. a = [mode |-> "Clean", retained |-> "none", sentCurrent |-> x,
             sentNav |-> g.sentNav, focused |-> g.focused, scrolled |-> g.scrolled]
    BY <2>5, <2>6
  <2> QED
    BY <2>2, <2>4, <2>7, AppFields DEF App, Modes
<1>12. AfterPresent(a, t)
  BY <1>2, <1>5, <1>8, <1>10
<1>13. /\ SurfaceInv' /\ Kept(t.buf, buf')
       /\ app' \in App /\ app'.mode = a.mode /\ app'.retained = a.retained
       /\ app'.scrolled = a.scrolled
  BY <1>9, <1>11, <1>12, AfterPresentKeeps
<1>14. Kept(buf, buf')
  BY <1>6, <1>9, <1>13, KeptThen
<1> QED
  BY <1>11, <1>13, <1>14

LEMMA BusyRedrawKeeps ==
  ASSUME SurfaceInv, SizeTypeOK, BusyRedraw
  PROVE  SurfaceInv' /\ (size'.alloc = size.alloc => Kept(buf, buf'))
<1>1. PICK s : s = ensure_buffers
  OBVIOUS
<1>2. SurfaceOK(s) /\ (size.surface = size.window \/ ~(size.alloc < size.window) => Kept(buf, s.buf))
  BY <1>1, EnsureBuffers
<1>3. buf' = s.buf /\ last' = s.last
  BY <1>1 DEF BusyRedraw
<1>4. SurfaceInv'
  <2>1. s = [buf |-> buf', last |-> last']
    BY <1>2, <1>3, SurfaceFields
  <2> QED
    BY <1>2, <2>1 DEF SurfaceInv
<1>5. size'.alloc = size.alloc => ~(size.alloc < size.window)
  <2>1. size.alloc \in Sizes /\ size.window \in Sizes
    BY DEF SizeTypeOK
  <2>2. size'.alloc = Max({size.alloc, size.window})
    BY DEF BusyRedraw, SizeTypeOK
  <2>3. Max({size.alloc, size.window}) \in Sizes /\ Max({size.alloc, size.window}) >= size.window
    BY <2>1, SizeMax
  <2> QED
    BY <2>1, <2>2, <2>3 DEF Sizes
<1> QED
  BY <1>2, <1>3, <1>4, <1>5

\* The page bitmap brought up to date: a new size or a moved scroll offset
\* leaves a mode that draws what was moved.
LEMMA BitmapMode ==
  ASSUME app \in App, SizeRepaints \in BOOLEAN, app.scrolled => app.mode # "Clean",
         NEW a, a \in BitmapFor(app)
  PROVE  /\ a \in App
         /\ SizeRepaints => a.mode = "Full"
         /\ ~SizeRepaints /\ app.scrolled =>
              /\ a.mode \in {"Full", "Damage", "DamageWithChrome"}
              /\ Drawn(app.mode, FALSE) \ {"ring"} \subseteq Drawn(a.mode, FALSE)
         /\ ~SizeRepaints /\ ~app.scrolled => a = app
         /\ ~a.scrolled
<1>1. CASE SizeRepaints
  <2>1. a = [app EXCEPT !.mode = "Full", !.scrolled = FALSE,
                        !.sentCurrent = FALSE, !.sentNav = FALSE]
    BY <1>1 DEF BitmapFor
  <2>2. a = [mode |-> "Full", retained |-> app.retained, sentCurrent |-> FALSE,
             sentNav |-> FALSE, focused |-> app.focused, scrolled |-> FALSE]
    <3>1. PICK g : g = app
      OBVIOUS
    <3>2. g = [mode |-> g.mode, retained |-> g.retained, sentCurrent |-> g.sentCurrent,
               sentNav |-> g.sentNav, focused |-> g.focused, scrolled |-> g.scrolled]
      BY <3>1, AppFields
    <3>3. a = [g EXCEPT !.mode = "Full", !.scrolled = FALSE,
                        !.sentCurrent = FALSE, !.sentNav = FALSE]
      BY <2>1, <3>1
    <3>4. a = [mode |-> "Full", retained |-> g.retained, sentCurrent |-> FALSE,
               sentNav |-> FALSE, focused |-> g.focused, scrolled |-> FALSE]
      BY <3>2, <3>3
    <3> QED
      BY <3>1, <3>4
  <2>3. a \in App
    BY <2>2, AppFields DEF App, Modes
  <2> QED
    BY <1>1, <2>2, <2>3
<1>2. CASE ~SizeRepaints /\ app.scrolled
  <2>0. app.mode \in Modes /\ app.mode # "Clean"
    BY <1>2, AppFields
  <2>1. CASE a = [app EXCEPT !.mode = "Full", !.scrolled = FALSE]
    <3>1. PICK g : g = app
      OBVIOUS
    <3>2. g = [mode |-> g.mode, retained |-> g.retained, sentCurrent |-> g.sentCurrent,
               sentNav |-> g.sentNav, focused |-> g.focused, scrolled |-> g.scrolled]
      BY <3>1, AppFields
    <3>3. a = [g EXCEPT !.mode = "Full", !.scrolled = FALSE]
      BY <2>1, <3>1
    <3>4. a = [mode |-> "Full", retained |-> g.retained, sentCurrent |-> g.sentCurrent,
               sentNav |-> g.sentNav, focused |-> g.focused, scrolled |-> FALSE]
      BY <3>2, <3>3
    <3>5. a \in App
      BY <3>1, <3>4, AppFields DEF App, Modes
    <3>6. Drawn(app.mode, FALSE) \subseteq Drawn("Full", FALSE)
      <4>1. Drawn(app.mode, FALSE) \in SUBSET Parts
        BY <2>0, DrawnParts
      <4>2. Drawn("Full", FALSE) = Parts
        BY <2>0, DrawnIsDamaged
      <4> QED
        BY <4>1, <4>2
    <3> QED
      BY <1>2, <3>4, <3>5, <3>6
  <2>2. CASE a = [mark_redraw(app, "Damage") EXCEPT !.scrolled = FALSE]
    <3>0. "Damage" \in Modes
      BY DEF Modes, PageModes
    <3>1. PICK g : g = mark_redraw(app, "Damage")
      OBVIOUS
    <3>2. g \in App /\ g.mode = combine_redraw_mode(app.mode, "Damage")
      BY <3>0, <3>1, Marks
    <3>3. g = [mode |-> g.mode, retained |-> g.retained, sentCurrent |-> g.sentCurrent,
               sentNav |-> g.sentNav, focused |-> g.focused, scrolled |-> g.scrolled]
      BY <3>2, AppFields
    <3>4. a = [g EXCEPT !.scrolled = FALSE]
      BY <2>2, <3>1
    <3>5. a = [mode |-> g.mode, retained |-> g.retained, sentCurrent |-> g.sentCurrent,
               sentNav |-> g.sentNav, focused |-> g.focused, scrolled |-> FALSE]
      BY <3>3, <3>4
    <3>6. a \in App
      BY <3>2, <3>5, AppFields DEF App
    <3>7. a.mode \in {"Full", "Damage", "DamageWithChrome"}
      BY <2>0, <3>2, <3>5 DEF combine_redraw_mode, Modes, PageModes, ChromeModes
    <3>8. Drawn(app.mode, FALSE) \ {"ring"} \subseteq Drawn(a.mode, FALSE)
      BY <2>0, <3>0, <3>2, <3>5, CombinedDraws
    <3> QED
      BY <1>2, <3>5, <3>6, <3>7, <3>8
  <2> QED
    BY <1>2, <2>1, <2>2 DEF BitmapFor
<1>3. CASE ~SizeRepaints /\ ~app.scrolled
  BY <1>3 DEF BitmapFor
<1> QED
  BY <1>1, <1>2, <1>3

\* What a drawn frame does: the parts it was asked for are drawn and shown.
LEMMA DrawRedrawKeeps ==
  ASSUME SurfaceInv, SizeTypeOK, app \in App, app.scrolled => app.mode # "Clean", DrawRedraw
  PROVE  /\ SurfaceInv' /\ (size'.alloc = size.alloc => Kept(buf, buf'))
         /\ app' \in App /\ app'.mode = "Clean" /\ app'.retained = "none"
         /\ ~app'.scrolled
         /\ \E a \in BitmapFor(app) :
              \/ Damaged(a.mode) = {} /\ unseen' = unseen
              \/ unseen' \subseteq (unseen \cup Moved) \ Drawn(a.mode, FALSE)
<1>1. PICK b \in {acquire_released_buffer(ensure_buffers)} \ {0}, a \in BitmapFor(app) :
       LET s == seed_virgin_buffer(ensure_buffers, b)
           seed == browser_render_seeds_full_buffer(a.mode, s.buf[b].age)
           drawn == Drawn(a.mode, seed)
           clean == [a EXCEPT !.mode = "Clean", !.retained = "none"]
       IN \E p \in {Painted(s, b, drawn)} :
            \/ /\ Damaged(a.mode) = {}
               /\ app' = clean /\ buf' = p.buf /\ last' = p.last
               /\ loop' = [loop EXCEPT !.requested = FALSE]
               /\ UNCHANGED unseen
            \/ /\ Damaged(a.mode) # {}
               /\ AfterPresent(clean, Shown(p, b, a.mode))
               /\ loop' = [handle_presented_frame(loop) EXCEPT !.requested = FALSE]
               /\ unseen' = (unseen \cup Moved) \ (drawn \cap Damaged(a.mode))
  BY DEF DrawRedraw
<1>2. PICK e : e = ensure_buffers
  OBVIOUS
<1>3. SurfaceOK(e) /\ (size.surface = size.window \/ ~(size.alloc < size.window) => Kept(buf, e.buf))
  BY <1>2, EnsureBuffers
<1>4. b \in Buffers /\ ~e.buf[b].busy
  BY <1>1, <1>2, <1>3, AcquireReleased DEF Released
<1>5. PICK s : s = seed_virgin_buffer(e, b)
  OBVIOUS
<1>6. SurfaceOK(s) /\ Kept(e.buf, s.buf) /\ ~s.buf[b].busy
  BY <1>3, <1>4, <1>5, SeedVirgin
<1>7. PICK seed : seed = browser_render_seeds_full_buffer(a.mode, s.buf[b].age)
  OBVIOUS
<1>8. PICK drawn : drawn = Drawn(a.mode, seed)
  OBVIOUS
<1>9. a \in App /\ ~a.scrolled
  BY BitmapMode DEF SizeRepaints
<1>10. a.mode \in Modes
  BY <1>9, AppFields
<1>11. drawn \in SUBSET Parts /\ Drawn(a.mode, FALSE) \subseteq drawn
  <2>1. Drawn(a.mode, FALSE) \in SUBSET Parts
    BY <1>10, DrawnParts
  <2>2. seed = TRUE \/ seed = FALSE
    BY <1>7 DEF browser_render_seeds_full_buffer
  <2>3. seed => drawn = Parts
    BY <1>8 DEF Drawn
  <2> QED
    BY <1>8, <2>1, <2>2, <2>3
<1>12. PICK p : p = Painted(s, b, drawn)
  OBVIOUS
<1>13. /\ SurfaceOK(p) /\ Kept(s.buf, p.buf) /\ p.last = s.last
       /\ p.buf[b].whole <=> s.buf[b].whole \/ drawn = Parts
  BY <1>4, <1>6, <1>11, <1>12, PaintedBuffer
<1>14. PICK clean : clean = [a EXCEPT !.mode = "Clean", !.retained = "none"]
  OBVIOUS
<1>15. clean \in App /\ clean.mode = "Clean" /\ clean.retained = "none" /\ ~clean.scrolled
  <2>1. a = [mode |-> a.mode, retained |-> a.retained, sentCurrent |-> a.sentCurrent,
             sentNav |-> a.sentNav, focused |-> a.focused, scrolled |-> a.scrolled]
    BY <1>9, AppFields
  <2>2. clean = [mode |-> "Clean", retained |-> "none", sentCurrent |-> a.sentCurrent,
                 sentNav |-> a.sentNav, focused |-> a.focused, scrolled |-> a.scrolled]
    BY <1>14, <2>1
  <2> QED
    BY <1>9, <2>2, AppFields DEF App, Modes
<1>16. Kept(buf, e.buf) => Kept(buf, p.buf)
  BY <1>6, <1>13, KeptThen
<1>17. size'.alloc = size.alloc => Kept(buf, e.buf)
  <2>1. size.alloc \in Sizes /\ size.window \in Sizes
    BY DEF SizeTypeOK
  <2>2. size'.alloc = Max({size.alloc, size.window})
    BY DEF DrawRedraw
  <2>3. Max({size.alloc, size.window}) >= size.window
    BY <2>1, SizeMax
  <2>4. size'.alloc = size.alloc => ~(size.alloc < size.window)
    BY <2>1, <2>2, <2>3 DEF Sizes
  <2> QED
    BY <1>3, <2>4
<1>18. \/ /\ Damaged(a.mode) = {}
          /\ app' = clean /\ buf' = p.buf /\ last' = p.last
          /\ UNCHANGED unseen
       \/ /\ Damaged(a.mode) # {}
          /\ AfterPresent(clean, Shown(p, b, a.mode))
          /\ unseen' = (unseen \cup Moved) \ (drawn \cap Damaged(a.mode))
  BY <1>1, <1>2, <1>5, <1>7, <1>8, <1>12, <1>14
<1>19. CASE /\ Damaged(a.mode) = {}
            /\ app' = clean /\ buf' = p.buf /\ last' = p.last
            /\ UNCHANGED unseen
  <2>1. p = [buf |-> buf', last |-> last']
    BY <1>13, <1>19, SurfaceFields
  <2>2. SurfaceInv'
    BY <1>13, <2>1 DEF SurfaceInv
  <2> QED
    BY <1>15, <1>16, <1>17, <1>19, <2>2
<1>20. CASE /\ Damaged(a.mode) # {}
            /\ AfterPresent(clean, Shown(p, b, a.mode))
            /\ unseen' = (unseen \cup Moved) \ (drawn \cap Damaged(a.mode))
  <2>1. p.buf[b].whole
    <3>1. CASE s.buf[b].age # 0
      BY <1>4, <1>6, <1>13, <3>1, SurfaceFields DEF Sound
    <3>2. CASE s.buf[b].age = 0
      <4>1. a.mode \notin {"Clean", "Scroll"}
        BY <1>10, <1>20, DrawnIsDamaged
      <4>2. CASE a.mode = "Full"
        <5>1. Parts \subseteq drawn
          BY <1>10, <1>11, <4>2, DrawnIsDamaged
        <5> QED
          BY <1>11, <1>13, <5>1
      <4>3. CASE a.mode # "Full"
        <5>1. seed
          BY <1>7, <1>10, <3>2, <4>1, <4>3
             DEF browser_render_seeds_full_buffer, Modes
        <5> QED
          BY <1>8, <1>13, <5>1 DEF Drawn
      <4> QED
        BY <4>2, <4>3
    <3> QED
      BY <3>1, <3>2
  <2>2. PICK q : q = present_buffer(p, b)
    OBVIOUS
  <2>3. SurfaceOK(q) /\ Kept(p.buf, q.buf) /\ q.last = b /\ b # 0
    BY <1>4, <1>13, <2>1, <2>2, PresentBuffer
  <2>4. PICK t : t = Shown(p, b, a.mode)
    OBVIOUS
  <2>5. SurfaceOK(t) /\ Kept(p.buf, t.buf) /\ t.last # 0
    <3>1. CASE a.mode = "Full"
      <4>1. t = seed_released_virgin_buffers(q, PreseedCount) /\ PreseedCount \in Nat
        BY <2>2, <2>4, <3>1, FrameAssumption DEF Shown
      <4>2. SurfaceOK(t) /\ Kept(q.buf, t.buf) /\ t.last = q.last
        BY <2>3, <4>1, SeedReleased
      <4> QED
        BY <2>3, <4>2, KeptThen
    <3>2. CASE a.mode # "Full"
      BY <2>2, <2>3, <2>4, <3>2 DEF Shown
    <3> QED
      BY <3>1, <3>2
  <2>6. AfterPresent(clean, t)
    BY <1>20, <2>4
  <2>7. /\ SurfaceInv' /\ Kept(t.buf, buf')
        /\ app' \in App /\ app'.mode = clean.mode /\ app'.retained = clean.retained
        /\ app'.scrolled = clean.scrolled
    BY <1>15, <2>5, <2>6, AfterPresentKeeps
  <2>8. Kept(p.buf, buf')
    BY <2>5, <2>7, KeptThen
  <2>9. Kept(buf, p.buf) => Kept(buf, buf')
    BY <2>8, KeptThen
  <2>10. unseen' \subseteq (unseen \cup Moved) \ Drawn(a.mode, FALSE)
    <3>1. Drawn(a.mode, FALSE) \subseteq Damaged(a.mode)
      BY <1>10, DrawnIsDamaged
    <3> QED
      BY <1>11, <1>20, <3>1
  <2> QED
    BY <1>15, <1>16, <1>17, <2>7, <2>9, <2>10
<1> QED
  BY <1>18, <1>19, <1>20

-----------------------------------------------------------------------------
(***************************************************************************)
(* The browser state.                                                      *)
(***************************************************************************)

\* An image counts as sent only while nothing else than its own damage is
\* marked; a moved scroll offset is marked and has no image.
AppOK(a) ==
  /\ a \in App
  /\ a.sentCurrent => a.mode \in {"Clean"} \cup PageModes
  /\ a.sentNav => a.mode = "Clean"
  /\ a.scrolled => a.mode # "Clean" /\ a.retained = "none" /\ ~a.sentCurrent /\ ~a.sentNav
  /\ a.retained # "none" => Damaged(a.mode) \subseteq RetainedDamage(a.retained)

\* g is the browser state a after a change that marks m.
MarkedWith(a, g, m) ==
  /\ g \in App
  /\ g.mode = combine_redraw_mode(a.mode, m)
  /\ ~g.sentNav
  /\ g.sentCurrent => a.sentCurrent /\ m = "PageInputFocus"
  /\ g.scrolled => a.scrolled \/ m = "Scroll"
  /\ \/ g.retained = "none"
     \/ g.retained = "CurrentView" /\ m = "PageInputFocus" /\ a.sentCurrent
     \/ g.retained = "NavigationStart" /\ m = "NavigationStartChrome" /\ a.sentNav

LEMMA MarkedOK ==
  ASSUME NEW a, AppOK(a), NEW m \in Modes \ {"Clean"}, NEW g, MarkedWith(a, g, m)
  PROVE  AppOK(g) /\ g.mode # "Clean"
<1>1. a.mode \in Modes /\ g \in App /\ g.mode = combine_redraw_mode(a.mode, m)
  BY AppFields DEF AppOK, MarkedWith
<1>2. g.mode \in Modes /\ g.mode # "Clean"
  BY <1>1, CombinedMode
<1>3. "PageInputFocus" \in PageModes /\ "Clean" \notin PageModes
  BY DEF PageModes
<1>4. g.sentCurrent => g.mode \in {"Clean"} \cup PageModes
  <2>1. SUFFICES ASSUME g.sentCurrent PROVE g.mode \in {"Clean"} \cup PageModes
    OBVIOUS
  <2>2. {a.mode, m} \subseteq {"Clean"} \cup PageModes
    BY <1>3, <2>1 DEF MarkedWith, AppOK
  <2> QED
    BY <1>1, <2>2, CombinedMode
<1>5. g.retained # "none" => Damaged(g.mode) \subseteq RetainedDamage(g.retained)
  <2>1. CASE g.retained = "CurrentView" /\ m = "PageInputFocus" /\ a.sentCurrent
    <3>1. {a.mode, m} \subseteq {"Clean"} \cup PageModes
      BY <1>3, <2>1 DEF AppOK
    <3>2. g.mode \in PageModes
      BY <1>1, <1>2, <3>1, CombinedMode
    <3> QED
      BY <2>1, <3>2 DEF Damaged, RetainedDamage, PageModes
  <2>2. CASE g.retained = "NavigationStart" /\ m = "NavigationStartChrome" /\ a.sentNav
    <3>1. g.mode = "NavigationStartChrome"
      BY <1>1, <2>2, CombinedMode DEF AppOK
    <3> QED
      BY <2>2, <3>1 DEF Damaged, RetainedDamage, PageModes
  <2> QED
    BY <2>1, <2>2 DEF MarkedWith
<1>6. g.scrolled => g.retained = "none" /\ ~g.sentCurrent
  BY DEF MarkedWith, AppOK
<1> QED
  BY <1>1, <1>2, <1>4, <1>5, <1>6 DEF AppOK, MarkedWith

\* A change of the browser state: what it marks covers the parts it makes
\* wrong, but for the focus ring.
Change(m, parts) ==
  /\ m \in Modes \ {"Clean"} /\ parts \in SUBSET Parts
  /\ parts \ {"ring"} \subseteq Drawn(m, FALSE)
  /\ MarkedWith(app, app', m)
  /\ unseen' = unseen \cup parts

LEMMA Covered ==
  /\ \A c \in InputChanges \cup HostChanges :
       /\ c.mode \in Modes \ {"Clean", "Scroll", "PageInputFocus", "NavigationStartChrome"}
       /\ c.parts \in SUBSET Parts /\ c.parts \ {"ring"} \subseteq Drawn(c.mode, FALSE)
  /\ {"status", "buttons"} \in SUBSET Parts
  /\ {"status", "buttons"} \subseteq Drawn("NavigationStartChrome", FALSE)
  /\ {"PageInputFocus", "NavigationStartChrome", "Scroll"} \subseteq Modes \ {"Clean"}
  BY DEF InputChanges, HostChanges, Drawn, Damaged, Modes, PageModes, ChromeModes, Parts, Chrome

LEMMA InputChange ==
  ASSUME app \in App, NEW c \in InputChanges, Input(c)
  PROVE  Change(c.mode, c.parts)
<1>1. c.mode \in Modes
  BY Covered
<1>2. PICK g : g = mark_redraw(app, c.mode)
  OBVIOUS
<1>3. /\ g \in App /\ g.mode = combine_redraw_mode(app.mode, c.mode) /\ g.retained = "none"
      /\ g.sentNav = (app.sentNav /\ c.mode = "Clean")
      /\ g.sentCurrent = (app.sentCurrent /\ c.mode \in {"Clean", "PageInputFocus"})
      /\ g.focused = app.focused /\ g.scrolled = app.scrolled
  BY <1>1, <1>2, Marks
<1>4. PICK x : x = (g.focused /\ c.mode # "AddressFocusChrome")
  OBVIOUS
<1>5. app' = [g EXCEPT !.focused = x] /\ x \in BOOLEAN
  BY <1>2, <1>3, <1>4, AppFields DEF Input
<1>6. g = [mode |-> g.mode, retained |-> g.retained, sentCurrent |-> g.sentCurrent,
           sentNav |-> g.sentNav, focused |-> g.focused, scrolled |-> g.scrolled]
  BY <1>3, AppFields
<1>7. app' = [mode |-> g.mode, retained |-> g.retained, sentCurrent |-> g.sentCurrent,
              sentNav |-> g.sentNav, focused |-> x, scrolled |-> g.scrolled]
  BY <1>5, <1>6
<1>8. app' \in App
  BY <1>3, <1>5, <1>7, AppFields DEF App
<1>9. unseen' = unseen \cup c.parts
  BY DEF Input, Outdate
<1>10. MarkedWith(app, app', c.mode)
  BY <1>3, <1>7, <1>8, Covered DEF MarkedWith
<1> QED
  BY <1>9, <1>10, Covered DEF Change

LEMMA HostChange ==
  ASSUME app \in App, NEW c \in HostChanges,
         app' = [mark_redraw(app, c.mode) EXCEPT
                       !.scrolled = @ /\ c.mode # "Full",
                       !.focused = @ /\ c.mode # "Full"],
         Outdate(c.parts, FALSE)
  PROVE  Change(c.mode, c.parts)
<1>1. c.mode \in Modes
  BY Covered
<1>2. PICK g : g = mark_redraw(app, c.mode)
  OBVIOUS
<1>3. /\ g \in App /\ g.mode = combine_redraw_mode(app.mode, c.mode) /\ g.retained = "none"
      /\ g.sentNav = (app.sentNav /\ c.mode = "Clean")
      /\ g.sentCurrent = (app.sentCurrent /\ c.mode \in {"Clean", "PageInputFocus"})
      /\ g.focused = app.focused /\ g.scrolled = app.scrolled
  BY <1>1, <1>2, Marks
<1>4. PICK x, y : x = (g.focused /\ c.mode # "Full") /\ y = (g.scrolled /\ c.mode # "Full")
  OBVIOUS
<1>5. app' = [g EXCEPT !.scrolled = y, !.focused = x] /\ x \in BOOLEAN /\ y \in BOOLEAN
  <2>1. app' = [g EXCEPT !.scrolled = y, !.focused = x]
    BY <1>2, <1>4
  <2> QED
    BY <1>3, <1>4, <2>1, AppFields
<1>6. g = [mode |-> g.mode, retained |-> g.retained, sentCurrent |-> g.sentCurrent,
           sentNav |-> g.sentNav, focused |-> g.focused, scrolled |-> g.scrolled]
  BY <1>3, AppFields
<1>7. app' = [mode |-> g.mode, retained |-> g.retained, sentCurrent |-> g.sentCurrent,
              sentNav |-> g.sentNav, focused |-> x, scrolled |-> y]
  BY <1>5, <1>6
<1>8. app' \in App
  BY <1>3, <1>5, <1>7, AppFields DEF App
<1>9. unseen' = unseen \cup c.parts
  BY DEF Outdate
<1>10. MarkedWith(app, app', c.mode)
  <2>1. c.mode \notin {"Clean", "PageInputFocus"}
    BY Covered
  <2>2. ~g.sentNav /\ ~g.sentCurrent /\ (y => app.scrolled)
    BY <1>3, <1>4, <2>1
  <2>3. /\ app'.mode = g.mode /\ app'.retained = g.retained /\ app'.sentCurrent = g.sentCurrent
        /\ app'.sentNav = g.sentNav /\ app'.scrolled = y
    <3>1. PICK f : f = app'
      OBVIOUS
    <3>2. f = [mode |-> g.mode, retained |-> g.retained, sentCurrent |-> g.sentCurrent,
               sentNav |-> g.sentNav, focused |-> x, scrolled |-> y]
      BY <1>7, <3>1
    <3>3. /\ f.mode = g.mode /\ f.retained = g.retained /\ f.sentCurrent = g.sentCurrent
          /\ f.sentNav = g.sentNav /\ f.scrolled = y
      BY <3>2
    <3> QED
      BY <3>1, <3>3
  <2> QED
    BY <1>3, <1>8, <2>2, <2>3 DEF MarkedWith
<1> QED
  BY <1>9, <1>10, Covered DEF Change

LEMMA FocusChange ==
  ASSUME app \in App, focus_page_input
  PROVE  Change("PageInputFocus", {})
<1>1. "PageInputFocus" \in Modes
  BY Covered
<1>2. PICK g : g = mark_redraw(app, "PageInputFocus")
  OBVIOUS
<1>3. /\ g \in App /\ g.mode = combine_redraw_mode(app.mode, "PageInputFocus")
      /\ g.sentNav = (app.sentNav /\ "PageInputFocus" = "Clean")
      /\ g.sentCurrent = (app.sentCurrent /\ "PageInputFocus" \in {"Clean", "PageInputFocus"})
      /\ g.scrolled = app.scrolled
  BY <1>1, <1>2, Marks
<1>4. PICK x : x = IF app.sentCurrent THEN "CurrentView" ELSE "none"
  OBVIOUS
<1>5. app' = [g EXCEPT !.focused = TRUE, !.retained = x] /\ x \in Tags \cup {"none"}
  BY <1>2, <1>4 DEF focus_page_input, Tags
<1>6. g = [mode |-> g.mode, retained |-> g.retained, sentCurrent |-> g.sentCurrent,
           sentNav |-> g.sentNav, focused |-> g.focused, scrolled |-> g.scrolled]
  BY <1>3, AppFields
<1>7. app' = [mode |-> g.mode, retained |-> x, sentCurrent |-> g.sentCurrent,
              sentNav |-> g.sentNav, focused |-> TRUE, scrolled |-> g.scrolled]
  BY <1>5, <1>6
<1>8. app' \in App
  BY <1>3, <1>5, <1>7, AppFields DEF App
<1>9. unseen' = unseen \cup {}
  BY DEF focus_page_input
<1>10. MarkedWith(app, app', "PageInputFocus")
  BY <1>3, <1>4, <1>7, <1>8 DEF MarkedWith
<1> QED
  BY <1>9, <1>10, Covered DEF Change

LEMMA NavigationChange ==
  ASSUME app \in App, mark_navigation_loading
  PROVE  Change("NavigationStartChrome", {"status", "buttons"})
<1>1. "NavigationStartChrome" \in Modes
  BY Covered
<1>2. PICK g : g = mark_redraw(app, "NavigationStartChrome")
  OBVIOUS
<1>3. /\ g \in App /\ g.mode = combine_redraw_mode(app.mode, "NavigationStartChrome")
      /\ g.sentNav = (app.sentNav /\ "NavigationStartChrome" = "Clean")
      /\ g.sentCurrent = (app.sentCurrent /\ "NavigationStartChrome" \in {"Clean", "PageInputFocus"})
      /\ g.scrolled = app.scrolled
  BY <1>1, <1>2, Marks
<1>4. PICK x : x = IF app.sentNav THEN "NavigationStart" ELSE "none"
  OBVIOUS
<1>5. app' = [g EXCEPT !.focused = FALSE, !.retained = x] /\ x \in Tags \cup {"none"}
  BY <1>2, <1>4 DEF mark_navigation_loading, Tags
<1>6. g = [mode |-> g.mode, retained |-> g.retained, sentCurrent |-> g.sentCurrent,
           sentNav |-> g.sentNav, focused |-> g.focused, scrolled |-> g.scrolled]
  BY <1>3, AppFields
<1>7. app' = [mode |-> g.mode, retained |-> x, sentCurrent |-> g.sentCurrent,
              sentNav |-> g.sentNav, focused |-> FALSE, scrolled |-> g.scrolled]
  BY <1>5, <1>6
<1>8. app' \in App
  BY <1>3, <1>5, <1>7, AppFields DEF App
<1>9. unseen' = unseen \cup {"status", "buttons"}
  BY DEF mark_navigation_loading, Outdate
<1>10. MarkedWith(app, app', "NavigationStartChrome")
  BY <1>3, <1>4, <1>7, <1>8 DEF MarkedWith
<1>11. {"status", "buttons"} \ {"ring"} \subseteq {"status", "buttons"}
  OBVIOUS
<1> QED
  BY <1>9, <1>10, <1>11, Covered DEF Change

LEMMA ScrollChange ==
  ASSUME app \in App, apply_browser_scroll
  PROVE  Change("Scroll", {})
<1>1. "Scroll" \in Modes
  BY Covered
<1>2. PICK g : g = mark_redraw(app, "Scroll")
  OBVIOUS
<1>3. /\ g \in App /\ g.mode = combine_redraw_mode(app.mode, "Scroll") /\ g.retained = "none"
      /\ g.sentNav = (app.sentNav /\ "Scroll" = "Clean")
      /\ g.sentCurrent = (app.sentCurrent /\ "Scroll" \in {"Clean", "PageInputFocus"})
      /\ g.scrolled = app.scrolled
  BY <1>1, <1>2, Marks
<1>4. PICK x : x = ~g.scrolled
  OBVIOUS
<1>5. app' = [g EXCEPT !.scrolled = x] /\ x \in BOOLEAN
  BY <1>2, <1>4 DEF apply_browser_scroll
<1>6. g = [mode |-> g.mode, retained |-> g.retained, sentCurrent |-> g.sentCurrent,
           sentNav |-> g.sentNav, focused |-> g.focused, scrolled |-> g.scrolled]
  BY <1>3, AppFields
<1>7. app' = [mode |-> g.mode, retained |-> g.retained, sentCurrent |-> g.sentCurrent,
              sentNav |-> g.sentNav, focused |-> g.focused, scrolled |-> x]
  BY <1>5, <1>6
<1>8. app' \in App
  BY <1>3, <1>5, <1>7, AppFields DEF App
<1>9. unseen' = unseen \cup {}
  BY DEF apply_browser_scroll
<1>10. MarkedWith(app, app', "Scroll")
  BY <1>3, <1>7, <1>8 DEF MarkedWith
<1> QED
  BY <1>9, <1>10, Covered DEF Change

-----------------------------------------------------------------------------
(***************************************************************************)
(* The inductive invariant.                                                *)
(***************************************************************************)
Loop == [requested : BOOLEAN, pending : BOOLEAN, asleep : BOOLEAN,
         alarm : BOOLEAN, busy : {"none", "ahead", "past"}]

UnseenInv == unseen \subseteq Parts /\ unseen \ {"ring"} \subseteq Drawn(app.mode, FALSE)

\* A dirty window with nothing marked was resized, or found its buffers busy.
LoopInv ==
  /\ WillWake
  /\ Dirty /\ app.mode = "Clean" => loop.requested \/ loop.pending

\* What the compositor holds of each buffer.
Holds == [Buffers -> {"free", "shown", "replaced"}]

BoundsOK == changes \in 0 .. MaxChanges /\ resizes \in 0 .. MaxResizes

FrameIInv ==
  /\ SurfaceInv /\ AppOK(app) /\ UnseenInv
  /\ loop \in Loop /\ LoopInv
  /\ SizeTypeOK /\ BoundsOK /\ held \in Holds

LEMMA ImpliesFrameInv == FrameIInv => FrameInv
<1>1. SUFFICES ASSUME FrameIInv PROVE FrameInv
  OBVIOUS
<1>2. BuffersOK(buf) /\ last \in 0 .. BufferCount /\ (last # 0 => buf[last].whole)
  BY <1>1, SurfaceInvFields DEF FrameIInv
<1>3. FrameTypeOK
  BY <1>1, <1>2 DEF FrameIInv, FrameTypeOK, AppOK, App, SizeTypeOK, BuffersOK, Buffer,
                    UnseenInv, BoundsOK, Loop, Holds
<1>4. ChangesStayMarked /\ RetainedCoversMode
  BY <1>1 DEF FrameIInv, AppOK, UnseenInv, ChangesStayMarked, RetainedCoversMode
<1>5. NoGarbage
  BY <1>2, FrameAssumption DEF NoGarbage, BuffersOK, Sound, Buffers
<1>6. WillWake
  BY <1>1 DEF FrameIInv, LoopInv
<1> QED
  BY <1>3, <1>4, <1>5, <1>6 DEF FrameInv

LEMMA FrameInitIInv == FrameInit => FrameIInv
<1>1. SUFFICES ASSUME FrameInit PROVE FrameIInv
  OBVIOUS
<1>2. SurfaceInv
  <2>1. NewBuffer \in Buffer /\ Sound(NewBuffer)
    BY DEF NewBuffer, Buffer, Sound
  <2>2. buf = [b \in Buffers |-> NewBuffer] /\ last = 0
    BY <1>1 DEF FrameInit
  <2>3. BuffersOK(buf)
    BY <2>1, <2>2 DEF BuffersOK
  <2> QED
    BY <2>2, <2>3, FrameAssumption, SurfaceInvFields
<1>3. AppOK(app)
  BY <1>1 DEF FrameInit, AppOK, App, Modes
<1>4. UnseenInv
  BY <1>1, <1>3, DrawnIsDamaged, AppFields DEF FrameInit, AppOK, UnseenInv
<1>5. loop \in Loop /\ LoopInv
  BY <1>1 DEF FrameInit, Loop, LoopInv, WillWake
<1>6. SizeTypeOK
  BY <1>1 DEF FrameInit, SizeTypeOK, Sizes
<1>7. BoundsOK
  BY <1>1, FrameAssumption DEF FrameInit, BoundsOK
<1>8. held \in Holds
  BY <1>1 DEF FrameInit, Holds
<1> QED
  BY <1>2, <1>3, <1>4, <1>5, <1>6, <1>7, <1>8 DEF FrameIInv

\* Each step is a change of the browser state, a frame, or neither.
Unchanged == app' = app /\ unseen' = unseen

LEMMA ChangeKeeps ==
  ASSUME FrameIInv, NEW m, NEW parts, Change(m, parts)
  PROVE  AppOK(app') /\ UnseenInv' /\ app'.mode # "Clean"
<1>1. AppOK(app) /\ AppOK(app') /\ app'.mode # "Clean"
  BY MarkedOK DEF FrameIInv, Change
<1>2. app'.mode = combine_redraw_mode(app.mode, m) /\ m \in Modes /\ app.mode \in Modes
  BY <1>1, AppFields DEF Change, MarkedWith, AppOK
<1>3. (Drawn(app.mode, FALSE) \cup Drawn(m, FALSE)) \ {"ring"} \subseteq Drawn(app'.mode, FALSE)
  BY <1>2, CombinedDraws
<1>4. unseen' = unseen \cup parts /\ parts \subseteq Parts /\ parts \ {"ring"} \subseteq Drawn(m, FALSE)
  BY DEF Change
<1>5. UnseenInv'
  BY <1>3, <1>4 DEF FrameIInv, UnseenInv
<1> QED
  BY <1>1, <1>5

LEMMA RetainedFrameKeeps ==
  ASSUME FrameIInv, PresentRetained
  PROVE  AppOK(app') /\ UnseenInv' /\ app'.mode = "Clean" /\ SurfaceInv' /\ Kept(buf, buf')
<1>1. /\ SurfaceInv' /\ Kept(buf, buf')
      /\ app' \in App /\ app'.mode = "Clean" /\ app'.retained = "none"
      /\ app'.scrolled = app.scrolled
  BY PresentRetainedKeeps DEF FrameIInv, AppOK
<1>2. app.retained # "none" /\ ~app.scrolled
  BY DEF PresentRetained, HasRetained, FrameIInv, AppOK
<1>3. AppOK(app')
  BY <1>1, <1>2 DEF AppOK
<1>4. unseen' = unseen \ RetainedDamage(app.retained)
  BY DEF PresentRetained
<1>5. Drawn(app.mode, FALSE) \subseteq RetainedDamage(app.retained)
  <2>1. app.mode \in Modes
    BY AppFields DEF FrameIInv, AppOK
  <2>2. Drawn(app.mode, FALSE) \subseteq Damaged(app.mode)
    BY <2>1, DrawnIsDamaged
  <2>3. Damaged(app.mode) \subseteq RetainedDamage(app.retained)
    BY <1>2 DEF FrameIInv, AppOK
  <2> QED
    BY <2>2, <2>3
<1>6. UnseenInv'
  <2>1. unseen \subseteq Parts /\ unseen \ {"ring"} \subseteq Drawn(app.mode, FALSE)
    BY DEF FrameIInv, UnseenInv
  <2> QED
    BY <1>4, <1>5, <2>1 DEF UnseenInv
<1> QED
  BY <1>1, <1>3, <1>6

LEMMA DrawnFrameKeeps ==
  ASSUME FrameIInv, DrawRedraw
  PROVE  /\ AppOK(app') /\ UnseenInv' /\ app'.mode = "Clean" /\ SurfaceInv'
         /\ size'.alloc = size.alloc => Kept(buf, buf')
<1>0. app \in App /\ (app.scrolled => app.mode # "Clean") /\ app.mode \in Modes
  BY AppFields DEF FrameIInv, AppOK
<1>1. /\ SurfaceInv' /\ (size'.alloc = size.alloc => Kept(buf, buf'))
      /\ app' \in App /\ app'.mode = "Clean" /\ app'.retained = "none"
      /\ ~app'.scrolled
      /\ \E a \in BitmapFor(app) :
           \/ Damaged(a.mode) = {} /\ unseen' = unseen
           \/ unseen' \subseteq (unseen \cup Moved) \ Drawn(a.mode, FALSE)
  BY <1>0, DrawRedrawKeeps DEF FrameIInv
<1>2. AppOK(app')
  BY <1>1 DEF AppOK
<1>3. PICK a \in BitmapFor(app) :
           \/ Damaged(a.mode) = {} /\ unseen' = unseen
           \/ unseen' \subseteq (unseen \cup Moved) \ Drawn(a.mode, FALSE)
  BY <1>1
<1>4. /\ a \in App
      /\ SizeRepaints => a.mode = "Full"
      /\ ~SizeRepaints /\ app.scrolled =>
           /\ a.mode \in {"Full", "Damage", "DamageWithChrome"}
           /\ Drawn(app.mode, FALSE) \ {"ring"} \subseteq Drawn(a.mode, FALSE)
      /\ ~SizeRepaints /\ ~app.scrolled => a = app
  BY <1>0, <1>3, BitmapMode DEF SizeRepaints
<1>5. a.mode \in Modes
  BY <1>4, AppFields
<1>6. unseen \subseteq Parts /\ unseen \ {"ring"} \subseteq Drawn(app.mode, FALSE)
  BY DEF FrameIInv, UnseenInv
<1>7. Drawn(a.mode, FALSE) \subseteq Damaged(a.mode)
  BY <1>5, DrawnIsDamaged
<1>8. CASE SizeRepaints
  <2>1. Drawn(a.mode, FALSE) = Parts /\ Damaged(a.mode) = Parts
    BY <1>4, <1>5, <1>8, DrawnIsDamaged
  <2>2. Moved \subseteq Parts
    BY DEF Moved, Parts
  <2>3. unseen' = {}
    BY <1>3, <1>6, <2>1, <2>2 DEF Parts
  <2> QED
    BY <1>1, <1>2, <2>3 DEF UnseenInv
<1>9. CASE ~SizeRepaints /\ app.scrolled
  <2>1. "page" \in Drawn(a.mode, FALSE)
    BY <1>4, <1>5, <1>9, DrawnParts
  <2>2. Damaged(a.mode) # {} /\ Moved = {"page"}
    BY <1>7, <1>9, <2>1 DEF Moved
  <2>3. unseen' \subseteq unseen /\ unseen' \ {"ring"} = {}
    BY <1>3, <1>4, <1>6, <1>9, <2>1, <2>2
  <2> QED
    BY <1>1, <1>2, <1>6, <2>3 DEF UnseenInv
<1>10. CASE ~SizeRepaints /\ ~app.scrolled
  <2>1. a = app /\ Moved = {}
    BY <1>4, <1>10 DEF Moved
  <2>2. unseen' \subseteq unseen /\ unseen' \ {"ring"} = {}
    BY <1>3, <1>6, <1>7, <2>1
  <2> QED
    BY <1>1, <1>2, <1>6, <2>2 DEF UnseenInv
<1> QED
  BY <1>8, <1>9, <1>10

-----------------------------------------------------------------------------
(***************************************************************************)
(* The event loop.                                                         *)
(***************************************************************************)
LEMMA LoopFields ==
  ASSUME NEW l \in Loop
  PROVE  /\ l = [requested |-> l.requested, pending |-> l.pending, asleep |-> l.asleep,
                 alarm |-> l.alarm, busy |-> l.busy]
         /\ l.requested \in BOOLEAN /\ l.pending \in BOOLEAN /\ l.asleep \in BOOLEAN
         /\ l.alarm \in BOOLEAN /\ l.busy \in {"none", "ahead", "past"}
  BY DEF Loop

LEMMA RequestedLoop ==
  ASSUME NEW l \in Loop
  PROVE  Requested(l) \in Loop /\ Requested(l).requested
<1>1. PICK f : f = [l EXCEPT !.pending = FALSE, !.requested = TRUE]
  OBVIOUS
<1>2. l = [requested |-> l.requested, pending |-> l.pending, asleep |-> l.asleep,
           alarm |-> l.alarm, busy |-> l.busy]
  BY LoopFields
<1>3. f = [requested |-> TRUE, pending |-> FALSE, asleep |-> l.asleep,
           alarm |-> l.alarm, busy |-> l.busy]
  BY <1>1, <1>2
<1> QED
  BY <1>1, <1>3, LoopFields DEF Requested, Loop

LEMMA SleepLoop ==
  ASSUME NEW l \in Loop, NEW x \in BOOLEAN
  PROVE  LET m == [l EXCEPT !.asleep = x]
         IN  /\ m \in Loop /\ m.asleep = x /\ m.requested = l.requested
             /\ m.pending = l.pending /\ m.alarm = l.alarm
<1>1. PICK f : f = [l EXCEPT !.asleep = x]
  OBVIOUS
<1>2. l = [requested |-> l.requested, pending |-> l.pending, asleep |-> l.asleep,
           alarm |-> l.alarm, busy |-> l.busy]
  BY LoopFields
<1>3. f = [requested |-> l.requested, pending |-> l.pending, asleep |-> x,
           alarm |-> l.alarm, busy |-> l.busy]
  BY <1>1, <1>2
<1>4. f \in Loop
  BY <1>3, LoopFields DEF Loop
<1>5. f.asleep = x /\ f.requested = l.requested /\ f.pending = l.pending /\ f.alarm = l.alarm
  BY <1>3
<1> QED
  BY <1>1, <1>4, <1>5

\* A pending redraw is requested when the loop goes to sleep, or has a clock.
LEMMA FlushedLoop ==
  ASSUME NEW l \in Loop
  PROVE  LET m == Flushed(l)
         IN  /\ m \in Loop
             /\ l.requested => m.requested
             /\ l.pending => m.requested \/ (m.pending /\ m.alarm)
<1>0. l = [requested |-> l.requested, pending |-> l.pending, asleep |-> l.asleep,
           alarm |-> l.alarm, busy |-> l.busy]
  BY LoopFields
<1>1. CASE ~l.pending
  BY <1>1 DEF Flushed
<1>2. CASE l.pending /\ l.busy = "ahead"
  <2>1. PICK f : f = [l EXCEPT !.alarm = TRUE]
    OBVIOUS
  <2>2. f = [requested |-> l.requested, pending |-> l.pending, asleep |-> l.asleep,
             alarm |-> TRUE, busy |-> l.busy]
    BY <1>0, <2>1
  <2>3. Flushed(l) = f
    BY <1>2, <2>1 DEF Flushed
  <2>4. f \in Loop
    BY <2>2, LoopFields DEF Loop
  <2>5. f.requested = l.requested /\ f.pending = l.pending /\ f.alarm
    BY <2>2
  <2> QED
    BY <2>3, <2>4, <2>5
<1>3. CASE l.pending /\ l.busy # "ahead"
  <2>1. PICK f : f = [l EXCEPT !.busy = "none", !.pending = FALSE, !.alarm = FALSE,
                               !.requested = TRUE]
    OBVIOUS
  <2>2. f = [requested |-> TRUE, pending |-> FALSE, asleep |-> l.asleep,
             alarm |-> FALSE, busy |-> "none"]
    BY <1>0, <2>1
  <2>3. Flushed(l) = f
    BY <1>3, <2>1 DEF Flushed
  <2>4. f \in Loop
    BY <2>2, LoopFields DEF Loop
  <2>5. f.requested
    BY <2>2
  <2> QED
    BY <2>3, <2>4, <2>5
<1> QED
  BY <1>1, <1>2, <1>3

LEMMA ReadyLoop ==
  ASSUME NEW l \in Loop, NEW changed \in BOOLEAN, NEW mode
  PROVE  LET m == handle_ready_work(l, changed, mode)
         IN  /\ m \in Loop
             /\ changed \/ mode # "Clean" => m.requested
             /\ ~changed /\ mode = "Clean" => m = l
  BY RequestedLoop DEF handle_ready_work

\* A request is enough.
LEMMA RequestSuffices ==
  ASSUME loop'.requested
  PROVE  LoopInv'
  BY DEF LoopInv, WillWake

\* A clean window is.
LEMMA CleanSuffices ==
  ASSUME ~Dirty'
  PROVE  LoopInv'
  BY DEF LoopInv, WillWake

\* So is what an awake loop already had.
LEMMA AwakeSuffices ==
  ASSUME LoopInv, app' = app, size'.window = size.window, size'.painted = size.painted,
         loop'.requested = loop.requested, loop'.pending = loop.pending,
         loop'.asleep => loop.asleep /\ loop'.alarm = loop.alarm
  PROVE  LoopInv'
  BY DEF LoopInv, WillWake, Dirty, SizeRepaints

LEMMA InputLoop ==
  ASSUME FrameIInv, loop' = [Requested(loop) EXCEPT !.asleep = FALSE]
  PROVE  loop' \in Loop /\ LoopInv'
<1>1. Requested(loop) \in Loop /\ Requested(loop).requested
  BY RequestedLoop DEF FrameIInv
<1>2. loop' \in Loop /\ loop'.requested
  BY <1>1, SleepLoop
<1> QED
  BY <1>2, RequestSuffices

LEMMA WaitLoop ==
  ASSUME FrameIInv, AboutToWait
  PROVE  loop' \in Loop /\ LoopInv'
<1>0. loop \in Loop
  BY DEF FrameIInv
<1>1. CASE /\ UNCHANGED <<app, buf, unseen, changes>>
           /\ loop' = [Flushed(handle_ready_work(loop, FALSE, app.mode)) EXCEPT !.asleep = TRUE]
  <2>1. PICK r : r = handle_ready_work(loop, FALSE, app.mode)
    OBVIOUS
  <2>2. /\ r \in Loop
        /\ app.mode # "Clean" => r.requested
        /\ app.mode = "Clean" => r = loop
    BY <1>0, <2>1, ReadyLoop
  <2>3. PICK f : f = Flushed(r)
    OBVIOUS
  <2>4. /\ f \in Loop
        /\ r.requested => f.requested
        /\ r.pending => f.requested \/ (f.pending /\ f.alarm)
    BY <2>2, <2>3, FlushedLoop
  <2>5. loop' = [f EXCEPT !.asleep = TRUE]
    BY <1>1, <2>1, <2>3
  <2>6. /\ loop' \in Loop /\ loop'.requested = f.requested
        /\ loop'.pending = f.pending /\ loop'.alarm = f.alarm
    BY <2>4, <2>5, SleepLoop
  <2>7. Dirty => r.requested \/ r.pending
    BY <2>2 DEF FrameIInv, LoopInv
  <2>8. Dirty => loop'.requested \/ (loop'.pending /\ loop'.alarm)
    BY <2>4, <2>6, <2>7
  <2>9. Dirty' = Dirty
    BY <1>1 DEF AboutToWait, Dirty, SizeRepaints
  <2> QED
    BY <2>6, <2>8, <2>9 DEF LoopInv, WillWake
<1>2. CASE \E c \in HostChanges :
             loop' = [Flushed(handle_ready_work(loop, TRUE, app'.mode)) EXCEPT !.asleep = TRUE]
  <2>1. PICK r : r = handle_ready_work(loop, TRUE, app'.mode)
    OBVIOUS
  <2>2. r \in Loop /\ r.requested
    BY <1>0, <2>1, ReadyLoop
  <2>3. PICK f : f = Flushed(r)
    OBVIOUS
  <2>4. f \in Loop /\ f.requested
    BY <2>2, <2>3, FlushedLoop
  <2>5. loop' = [f EXCEPT !.asleep = TRUE]
    BY <1>2, <2>1, <2>3
  <2>6. loop' \in Loop /\ loop'.requested
    BY <2>4, <2>5, SleepLoop
  <2> QED
    BY <2>6, RequestSuffices
<1> QED
  BY <1>1, <1>2 DEF AboutToWait

LEMMA WakeLoop ==
  ASSUME FrameIInv, LoopWakes \/ UserWake \/ BusyExpires
  PROVE  loop' \in Loop /\ LoopInv'
<1>0. loop \in Loop
  BY DEF FrameIInv
<1>1. CASE LoopWakes
  <2>1. loop' = [loop EXCEPT !.asleep = FALSE]
    BY <1>1 DEF LoopWakes
  <2>2. /\ loop' \in Loop /\ loop'.asleep = FALSE /\ loop'.requested = loop.requested
        /\ loop'.pending = loop.pending
    BY <1>0, <2>1, SleepLoop
  <2> QED
    BY <1>1, <2>2, AwakeSuffices DEF LoopWakes, FrameIInv
<1>2. CASE UserWake
  <2>1. PICK r : r = handle_ready_work(loop, FALSE, app.mode)
    OBVIOUS
  <2>2. /\ r \in Loop
        /\ app.mode # "Clean" => r.requested
        /\ app.mode = "Clean" => r = loop
    BY <1>0, <2>1, ReadyLoop
  <2>3. loop' = [r EXCEPT !.asleep = FALSE]
    BY <1>2, <2>1 DEF UserWake
  <2>4. /\ loop' \in Loop /\ loop'.asleep = FALSE /\ loop'.requested = r.requested
        /\ loop'.pending = r.pending
    BY <2>2, <2>3, SleepLoop
  <2>5. CASE app.mode # "Clean"
    BY <2>2, <2>4, <2>5, RequestSuffices
  <2>6. CASE app.mode = "Clean"
    BY <1>2, <2>2, <2>4, <2>6, AwakeSuffices DEF UserWake, FrameIInv
  <2> QED
    BY <2>5, <2>6
<1>3. CASE BusyExpires
  <2>1. loop' = [loop EXCEPT !.busy = "past"]
    BY <1>3 DEF BusyExpires
  <2>2. loop' = [requested |-> loop.requested, pending |-> loop.pending,
                 asleep |-> loop.asleep, alarm |-> loop.alarm, busy |-> "past"]
    BY <1>0, <2>1, LoopFields
  <2>3. loop' \in Loop
    BY <1>0, <2>2, LoopFields DEF Loop
  <2>4. /\ loop'.requested = loop.requested /\ loop'.pending = loop.pending
        /\ loop'.asleep = loop.asleep /\ loop'.alarm = loop.alarm
    BY <2>2
  <2> QED
    BY <1>3, <2>3, <2>4, AwakeSuffices DEF BusyExpires, FrameIInv
<1> QED
  BY <1>1, <1>2, <1>3

LEMMA ServedLoop ==
  ASSUME NEW l \in Loop
  PROVE  /\ [l EXCEPT !.requested = FALSE] \in Loop
         /\ [l EXCEPT !.requested = FALSE].asleep = l.asleep
         /\ handle_presented_frame(l) \in Loop /\ handle_presented_frame(l).asleep = l.asleep
         /\ handle_busy_surface(l) \in Loop /\ handle_busy_surface(l).asleep = l.asleep
         /\ handle_busy_surface(l).pending
<1>0. l = [requested |-> l.requested, pending |-> l.pending, asleep |-> l.asleep,
           alarm |-> l.alarm, busy |-> l.busy]
  BY LoopFields
<1>1. PICK f : f = [l EXCEPT !.requested = FALSE]
  OBVIOUS
<1>2. f = [requested |-> FALSE, pending |-> l.pending, asleep |-> l.asleep,
           alarm |-> l.alarm, busy |-> l.busy]
  BY <1>0, <1>1
<1>3. f \in Loop /\ f.asleep = l.asleep
  BY <1>2, LoopFields DEF Loop
<1>4. PICK g : g = [l EXCEPT !.busy = "none"]
  OBVIOUS
<1>5. g = [requested |-> l.requested, pending |-> l.pending, asleep |-> l.asleep,
           alarm |-> l.alarm, busy |-> "none"]
  BY <1>0, <1>4
<1>6. g \in Loop /\ g.asleep = l.asleep
  BY <1>5, LoopFields DEF Loop
<1>7. PICK h : h = [l EXCEPT !.pending = TRUE, !.busy = "ahead", !.alarm = TRUE]
  OBVIOUS
<1>8. h = [requested |-> l.requested, pending |-> TRUE, asleep |-> l.asleep,
           alarm |-> TRUE, busy |-> "ahead"]
  BY <1>0, <1>7
<1>9. h \in Loop /\ h.asleep = l.asleep /\ h.pending
  BY <1>8, LoopFields DEF Loop
<1> QED
  BY <1>1, <1>3, <1>4, <1>6, <1>7, <1>9 DEF handle_presented_frame, handle_busy_surface

LEMMA FrameLoop ==
  ASSUME FrameIInv, Frame, DrawRedraw \/ PresentRetained => app'.mode = "Clean"
  PROVE  loop' \in Loop /\ LoopInv'
<1>0. loop \in Loop
  BY DEF FrameIInv
<1>1. CASE SkipRedraw
  <2>1. loop' = [loop EXCEPT !.requested = FALSE]
    BY <1>1 DEF SkipRedraw
  <2>2. loop' \in Loop
    BY <1>0, <2>1, ServedLoop
  <2>3. ~Dirty'
    BY <1>1 DEF SkipRedraw, Dirty, SizeRepaints
  <2> QED
    BY <2>2, <2>3, CleanSuffices
<1>2. CASE PresentRetained
  <2>1. loop' = [handle_presented_frame(loop) EXCEPT !.requested = FALSE]
    BY <1>2 DEF PresentRetained
  <2>2. loop' \in Loop
    BY <1>0, <2>1, ServedLoop
  <2>3. ~Dirty'
    BY <1>2 DEF PresentRetained, HasRetained, Dirty, SizeRepaints
  <2> QED
    BY <2>2, <2>3, CleanSuffices
<1>3. CASE BusyRedraw
  <2>1. PICK l : l = [loop EXCEPT !.requested = FALSE]
    OBVIOUS
  <2>2. l \in Loop /\ l.asleep = loop.asleep
    BY <1>0, <2>1, ServedLoop
  <2>3. loop' = handle_busy_surface(l) /\ ~loop.asleep
    BY <1>3, <2>1 DEF BusyRedraw, Redraws
  <2>4. loop' \in Loop /\ loop'.asleep = l.asleep /\ loop'.pending
    BY <2>2, <2>3, ServedLoop
  <2> QED
    BY <2>2, <2>3, <2>4 DEF LoopInv, WillWake
<1>4. CASE DrawRedraw
  <2>1. \/ loop' = [loop EXCEPT !.requested = FALSE]
        \/ loop' = [handle_presented_frame(loop) EXCEPT !.requested = FALSE]
    BY <1>4, Zenon DEF DrawRedraw
  <2>2. loop' \in Loop
    BY <1>0, <2>1, ServedLoop
  <2>3. size'.window = size.window /\ size'.painted = size.window
    BY <1>4 DEF DrawRedraw
  <2>4. ~Dirty'
    BY <1>4, <2>3 DEF Dirty, SizeRepaints
  <2> QED
    BY <2>2, <2>4, CleanSuffices
<1> QED
  BY <1>1, <1>2, <1>3, <1>4 DEF Frame

-----------------------------------------------------------------------------
(***************************************************************************)
(* Every step keeps the invariant.                                         *)
(***************************************************************************)

\* A buffer that stays busy keeps its pixels, unless the state or the
\* allocation changed.
Untouched ==
  changes' = changes /\ size'.alloc = size.alloc =>
    \A b \in Buffers : buf[b].busy /\ buf'[b].busy =>
      buf'[b].cur \in {buf[b].cur, buf[b].cur \ Moved}

LEMMA KeptUntouched ==
  ASSUME Kept(buf, buf') \/ size'.alloc # size.alloc \/ changes' # changes
  PROVE  Untouched
  BY DEF Untouched, Kept

LEMMA SameSurface ==
  ASSUME SurfaceInv, buf' = buf, last' = last
  PROVE  SurfaceInv' /\ Untouched
  BY DEF SurfaceInv, Untouched

LEMMA BoundsStep ==
  ASSUME FrameIInv, FrameNext
  PROVE  BoundsOK' /\ (CountChange => changes' # changes)
<1>1. \/ CountChange /\ resizes' = resizes
      \/ changes' = changes /\ resizes < MaxResizes /\ resizes' = resizes + 1
      \/ UNCHANGED <<changes, resizes>>
  BY DEF FrameNext, Frame, Input, focus_page_input, mark_navigation_loading,
         apply_browser_scroll, Resize, AboutToWait, LoopWakes, UserWake, BusyExpires,
         SkipRedraw, PresentRetained, BusyRedraw, DrawRedraw, Release
<1> QED
  BY <1>1, FrameAssumption DEF FrameIInv, BoundsOK, CountChange

LEMMA SizeStep ==
  ASSUME SizeTypeOK, FrameNext
  PROVE  SizeTypeOK'
<1>0. /\ size = [window |-> size.window, painted |-> size.painted, surface |-> size.surface,
                 alloc |-> size.alloc]
      /\ size.window \in Sizes /\ size.painted \in Sizes
      /\ size.surface \in Sizes /\ size.alloc \in Sizes
  BY DEF SizeTypeOK
<1>1. CASE Resize
  <2>1. PICK s \in Sizes : size' = [size EXCEPT !.window = s]
    BY <1>1 DEF Resize
  <2> QED
    BY <1>0, <2>1 DEF SizeTypeOK
<1>2. CASE BusyRedraw
  <2>1. PICK m : m = Max({size.alloc, size.window})
    OBVIOUS
  <2>2. m \in Sizes
    BY <1>0, <2>1, SizeMax
  <2>3. size' = [size EXCEPT !.surface = size.window, !.alloc = m]
    BY <1>2, <2>1 DEF BusyRedraw
  <2>4. PICK z : z = size
    OBVIOUS
  <2>5. size' = [window |-> z.window, painted |-> z.painted, surface |-> z.window, alloc |-> m]
    BY <1>0, <2>3, <2>4
  <2> QED
    BY <1>0, <2>2, <2>4, <2>5 DEF SizeTypeOK
<1>3. CASE DrawRedraw
  <2>1. PICK m : m = Max({size.alloc, size.window})
    OBVIOUS
  <2>2. m \in Sizes
    BY <1>0, <2>1, SizeMax
  <2>3. size' = [window |-> size.window, painted |-> size.window,
                 surface |-> size.window, alloc |-> m]
    BY <1>3, <2>1 DEF DrawRedraw
  <2> QED
    BY <1>0, <2>2, <2>3 DEF SizeTypeOK
<1>4. CASE ~Resize /\ ~BusyRedraw /\ ~DrawRedraw
  <2>1. size' = size
    BY <1>4
       DEF FrameNext, Frame, Input, focus_page_input, mark_navigation_loading,
           apply_browser_scroll, AboutToWait, LoopWakes, UserWake, BusyExpires,
           SkipRedraw, PresentRetained, Release
  <2> QED
    BY <2>1 DEF SizeTypeOK
<1> QED
  BY <1>1, <1>2, <1>3, <1>4

LEMMA HeldStep ==
  ASSUME held \in Holds, FrameNext
  PROVE  held' \in Holds
<1>1. HeldEnsured \in Holds
  BY DEF HeldEnsured, Holds
<1>2. ASSUME NEW h \in Holds, NEW s, NEW b PROVE HeldCommitted(h, s, b) \in Holds
  BY <1>2 DEF HeldCommitted, Holds
<1>3. CASE PresentRetained
  BY <1>2, <1>3 DEF PresentRetained
<1>4. CASE BusyRedraw
  BY <1>1, <1>4 DEF BusyRedraw
<1>5. CASE DrawRedraw
  <2>1. \/ held' = HeldEnsured
        \/ \E s, b : held' = HeldCommitted(HeldEnsured, s, b)
    BY <1>5, Zenon DEF DrawRedraw
  <2> QED
    BY <1>1, <1>2, <2>1
<1>6. CASE \E b \in Buffers : Release(b)
  BY <1>6 DEF Release, Holds
<1>7. CASE ~PresentRetained /\ ~BusyRedraw /\ ~DrawRedraw /\ ~\E b \in Buffers : Release(b)
  <2>1. held' = held
    BY <1>7
       DEF FrameNext, Frame, Input, focus_page_input, mark_navigation_loading,
           apply_browser_scroll, Resize, AboutToWait, LoopWakes, UserWake, BusyExpires,
           SkipRedraw
  <2> QED
    BY <2>1
<1> QED
  BY <1>3, <1>4, <1>5, <1>6, <1>7

LEMMA FrameStep ==
  ASSUME FrameIInv, [FrameNext]_frameVars
  PROVE  FrameIInv' /\ Untouched
<1>0. SurfaceInv /\ AppOK(app) /\ app \in App /\ UnseenInv /\ loop \in Loop /\ LoopInv
        /\ SizeTypeOK /\ BoundsOK /\ held \in Holds
  BY DEF FrameIInv, AppOK
<1>1. ASSUME FrameNext
      PROVE  BoundsOK' /\ SizeTypeOK' /\ held' \in Holds /\ (CountChange => changes' # changes)
  BY <1>0, <1>1, BoundsStep, SizeStep, HeldStep
<1>2. ASSUME FrameNext, SurfaceInv', AppOK(app'), UnseenInv', loop' \in Loop, LoopInv'
      PROVE  FrameIInv'
  BY <1>1, <1>2 DEF FrameIInv
<1>3. CASE \E c \in InputChanges : Input(c)
  <2>1. PICK c \in InputChanges : Input(c)
    BY <1>3
  <2>2. FrameNext
    BY <2>1 DEF FrameNext
  <2>3. Change(c.mode, c.parts)
    BY <1>0, <2>1, InputChange
  <2>4. AppOK(app') /\ UnseenInv'
    BY <2>3, ChangeKeeps
  <2>5. c.parts \in SUBSET Parts
    BY Covered
  <2>6. SurfaceInv'
    BY <1>0, <2>1, <2>5, OutdateKeeps DEF Input
  <2>7. loop' \in Loop /\ LoopInv'
    BY <2>1, InputLoop DEF Input
  <2>8. Untouched
    BY <1>1, <2>1, <2>2, KeptUntouched DEF Input
  <2> QED
    BY <1>2, <2>2, <2>4, <2>6, <2>7, <2>8
<1>4. CASE focus_page_input
  <2>1. FrameNext
    BY <1>4 DEF FrameNext
  <2>2. AppOK(app') /\ UnseenInv'
    BY <1>0, <1>4, FocusChange, ChangeKeeps
  <2>3. SurfaceInv' /\ Untouched
    BY <1>0, <1>4, SameSurface DEF focus_page_input
  <2>4. loop' \in Loop /\ LoopInv'
    BY <1>4, InputLoop DEF focus_page_input
  <2> QED
    BY <1>2, <2>1, <2>2, <2>3, <2>4
<1>5. CASE mark_navigation_loading
  <2>1. FrameNext
    BY <1>5 DEF FrameNext
  <2>2. AppOK(app') /\ UnseenInv'
    BY <1>0, <1>5, NavigationChange, ChangeKeeps
  <2>3. SurfaceInv'
    BY <1>0, <1>5, Covered, OutdateKeeps DEF mark_navigation_loading
  <2>4. Untouched
    BY <1>1, <1>5, <2>1, KeptUntouched DEF mark_navigation_loading
  <2>5. loop' \in Loop /\ LoopInv'
    BY <1>5, InputLoop DEF mark_navigation_loading
  <2> QED
    BY <1>2, <2>1, <2>2, <2>3, <2>4, <2>5
<1>6. CASE apply_browser_scroll
  <2>1. FrameNext
    BY <1>6 DEF FrameNext
  <2>2. AppOK(app') /\ UnseenInv'
    BY <1>0, <1>6, ScrollChange, ChangeKeeps
  <2>3. SurfaceInv' /\ Untouched
    BY <1>0, <1>6, SameSurface DEF apply_browser_scroll
  <2>4. loop' \in Loop /\ LoopInv'
    BY <1>6, InputLoop DEF apply_browser_scroll
  <2> QED
    BY <1>2, <2>1, <2>2, <2>3, <2>4
<1>7. CASE Resize
  <2>1. FrameNext
    BY <1>7 DEF FrameNext
  <2>2. AppOK(app') /\ UnseenInv'
    BY <1>0, <1>7 DEF Resize, UnseenInv
  <2>3. SurfaceInv' /\ Untouched
    BY <1>0, <1>7, SameSurface DEF Resize
  <2>4. loop' \in Loop /\ LoopInv'
    BY <1>7, InputLoop DEF Resize
  <2> QED
    BY <1>2, <2>1, <2>2, <2>3, <2>4
<1>8. CASE AboutToWait
  <2>1. FrameNext
    BY <1>8 DEF FrameNext
  <2>2. loop' \in Loop /\ LoopInv'
    BY <1>8, WaitLoop
  <2>3. CASE UNCHANGED <<app, buf, unseen, changes>>
    <3>1. AppOK(app') /\ UnseenInv'
      BY <1>0, <2>3 DEF UnseenInv
    <3>2. SurfaceInv' /\ Untouched
      BY <1>0, <1>8, <2>3, SameSurface DEF AboutToWait
    <3> QED
      BY <1>2, <2>1, <2>2, <3>1, <3>2
  <2>4. CASE \E c \in HostChanges :
               /\ CountChange
               /\ app' = [mark_redraw(app, c.mode) EXCEPT
                            !.scrolled = @ /\ c.mode # "Full",
                            !.focused = @ /\ c.mode # "Full"]
               /\ Outdate(c.parts, FALSE)
    <3>1. PICK c \in HostChanges :
               /\ CountChange
               /\ app' = [mark_redraw(app, c.mode) EXCEPT
                            !.scrolled = @ /\ c.mode # "Full",
                            !.focused = @ /\ c.mode # "Full"]
               /\ Outdate(c.parts, FALSE)
      BY <2>4
    <3>2. AppOK(app') /\ UnseenInv'
      BY <1>0, <3>1, HostChange, ChangeKeeps
    <3>3. c.parts \in SUBSET Parts
      BY Covered
    <3>4. SurfaceInv'
      BY <1>0, <1>8, <3>1, <3>3, OutdateKeeps DEF AboutToWait
    <3>5. Untouched
      BY <1>1, <2>1, <3>1, KeptUntouched
    <3> QED
      BY <1>2, <2>1, <2>2, <3>2, <3>4, <3>5
  <2> QED
    BY <1>8, <2>3, <2>4, Zenon DEF AboutToWait
<1>9. CASE LoopWakes \/ UserWake \/ BusyExpires
  <2>1. FrameNext
    BY <1>9 DEF FrameNext
  <2>2. UNCHANGED <<app, size, buf, last, unseen>>
    BY <1>9 DEF LoopWakes, UserWake, BusyExpires
  <2>3. AppOK(app') /\ UnseenInv'
    BY <1>0, <2>2 DEF UnseenInv
  <2>4. SurfaceInv' /\ Untouched
    BY <1>0, <2>2, SameSurface
  <2>5. loop' \in Loop /\ LoopInv'
    BY <1>9, WakeLoop
  <2> QED
    BY <1>2, <2>1, <2>3, <2>4, <2>5
<1>10. CASE SkipRedraw
  <2>1. FrameNext /\ Frame
    BY <1>10 DEF FrameNext, Frame
  <2>2. AppOK(app') /\ UnseenInv'
    BY <1>0, <1>10 DEF SkipRedraw, UnseenInv
  <2>3. SurfaceInv' /\ Untouched
    BY <1>0, <1>10, SameSurface DEF SkipRedraw
  <2>4. DrawRedraw \/ PresentRetained => app'.mode = "Clean"
    BY DrawnFrameKeeps, RetainedFrameKeeps
  <2>5. loop' \in Loop /\ LoopInv'
    BY <2>1, <2>4, FrameLoop
  <2> QED
    BY <1>2, <2>1, <2>2, <2>3, <2>5
<1>11. CASE PresentRetained
  <2>1. FrameNext /\ Frame
    BY <1>11 DEF FrameNext, Frame
  <2>2. AppOK(app') /\ UnseenInv' /\ app'.mode = "Clean" /\ SurfaceInv' /\ Kept(buf, buf')
    BY <1>11, RetainedFrameKeeps
  <2>3. loop' \in Loop /\ LoopInv'
    BY <2>1, <2>2, FrameLoop
  <2> QED
    BY <1>2, <2>1, <2>2, <2>3, KeptUntouched
<1>12. CASE BusyRedraw
  <2>1. FrameNext /\ Frame
    BY <1>12 DEF FrameNext, Frame
  <2>2. AppOK(app') /\ UnseenInv'
    BY <1>0, <1>12 DEF BusyRedraw, UnseenInv
  <2>3. SurfaceInv' /\ (size'.alloc = size.alloc => Kept(buf, buf'))
    BY <1>0, <1>12, BusyRedrawKeeps
  <2>4. DrawRedraw \/ PresentRetained => app'.mode = "Clean"
    BY DrawnFrameKeeps, RetainedFrameKeeps
  <2>5. loop' \in Loop /\ LoopInv'
    BY <2>1, <2>4, FrameLoop
  <2> QED
    BY <1>2, <2>1, <2>2, <2>3, <2>5, KeptUntouched
<1>13. CASE DrawRedraw
  <2>1. FrameNext /\ Frame
    BY <1>13 DEF FrameNext, Frame
  <2>2. /\ AppOK(app') /\ UnseenInv' /\ app'.mode = "Clean" /\ SurfaceInv'
        /\ size'.alloc = size.alloc => Kept(buf, buf')
    BY <1>13, DrawnFrameKeeps
  <2>3. loop' \in Loop /\ LoopInv'
    BY <2>1, <2>2, FrameLoop
  <2> QED
    BY <1>2, <2>1, <2>2, <2>3, KeptUntouched
<1>14. CASE \E b \in Buffers : Release(b)
  <2>1. PICK b \in Buffers : Release(b)
    BY <1>14
  <2>2. FrameNext
    BY <2>1 DEF FrameNext
  <2>3. SurfaceInv' /\ ~buf'[b].busy /\ \A c \in Buffers \ {b} : buf'[c] = buf[c]
    BY <1>0, <2>1, ReleaseKeeps
  <2>4. Untouched
    BY <2>3 DEF Untouched
  <2>5. UNCHANGED <<app, size, unseen, loop>>
    BY <2>1 DEF Release
  <2>6. AppOK(app') /\ UnseenInv'
    BY <1>0, <2>5 DEF UnseenInv
  <2>7. loop' \in Loop /\ LoopInv'
    BY <1>0, <2>5, AwakeSuffices
  <2> QED
    BY <1>2, <2>2, <2>3, <2>4, <2>6, <2>7
<1>15. CASE UNCHANGED frameVars
  <2>1. UNCHANGED <<app, size, buf, last, held, loop, unseen, changes, resizes>>
    BY <1>15 DEF frameVars
  <2>2. SurfaceInv' /\ Untouched
    BY <1>0, <2>1, SameSurface
  <2>3. LoopInv'
    BY <1>0, <2>1, AwakeSuffices
  <2> QED
    BY <1>0, <2>1, <2>2, <2>3 DEF FrameIInv, UnseenInv, SizeTypeOK, BoundsOK
<1> QED
  BY <1>3, <1>4, <1>5, <1>6, <1>7, <1>8, <1>9, <1>10, <1>11, <1>12, <1>13, <1>14, <1>15
     DEF FrameNext, Frame

\* Whatever changes, resizes and frames interleave: a change stays marked until
\* a frame has drawn it, a retained frame covers what the mode asks for, no
\* presented buffer holds pixels nobody wrote, and the loop never sleeps on a
\* dirty window without a request or a clock.
THEOREM ChangesReachTheWindow == FrameSpec => []FrameInv
<1>1. FrameIInv /\ [FrameNext]_frameVars => FrameIInv'
  BY FrameStep
<1> QED
  BY FrameInitIInv, <1>1, ImpliesFrameInv, PTL DEF FrameSpec

\* Memory the compositor may be reading is not written by seeding, warming,
\* drawing or preparing a retained image.
THEOREM BusyStaysUnwritten == FrameSpec => BusyNotWritten
<1>1. FrameIInv /\ [FrameNext]_frameVars => FrameIInv'
  BY FrameStep
<1>2. FrameIInv /\ [FrameNext]_frameVars =>
        [changes' = changes /\ size'.alloc = size.alloc =>
           \A b \in Buffers : buf[b].busy /\ buf'[b].busy =>
             buf'[b].cur \in {buf[b].cur, buf[b].cur \ Moved}
          ]_frameVars
  BY FrameStep DEF Untouched
<1> QED
  BY FrameInitIInv, <1>1, <1>2, PTL DEF FrameSpec, BusyNotWritten

-----------------------------------------------------------------------------
(***************************************************************************)
(* PageResources: the sources of a document.                               *)
(***************************************************************************)
SourceSet == [owner : Nodes, url : Urls \cup {"inline"}, text : 0..1]
SheetSet == [owner : Nodes, rules : [url : Urls \cup {"inline", "nothing"}, text : 0..1],
             spliced : BOOLEAN, disabled : BOOLEAN]

\* The style elements and stylesheet links of a document, in tree order.
Found(d) == Retain(Tree, {n \in Nodes : IsSource(d, n)})

WithoutText(q) == [i \in 1..Len(q) |-> [q[i] EXCEPT !.text = 0]]
Unread(d) == [d EXCEPT !.text = [n \in Nodes |-> 0]]

\* A set of sheets as it was handed over, before script spliced it.
Plain(set) == [i \in 1..Len(set) |-> [set[i] EXCEPT !.spliced = FALSE, !.disabled = FALSE]]

\* A link's source names an address, and its text is the link's, which no
\* edit changes.
SourcesKnown(q, d) ==
  /\ q \in Seq(SourceSet) /\ Len(q) <= MaxSources
  /\ \A i \in DOMAIN q : q[i].owner \in Links => q[i].url \in Urls /\ q[i].text = d.text[q[i].owner]

\* The nodes are finitely many, and links are among them.
LEMMA NodesFinite ==
  /\ Tree \in Seq(Nodes) /\ IsFiniteSet(Nodes) /\ Links \subseteq Nodes
  /\ \A S \in SUBSET Nodes : IsFiniteSet(S) /\ Cardinality(S) \in Nat
<1>1. Tree \in Seq(Nodes) /\ Links \subseteq Nodes
  BY ResourcesAssumption DEF Nodes
<1>2. IsFiniteSet(Nodes)
  <2>1. Tree \in Surjection(DOMAIN Tree, Nodes)
    <3>1. Tree \in [DOMAIN Tree -> Nodes] /\ \A n \in Nodes : \E i \in DOMAIN Tree : Tree[i] = n
      BY <1>1 DEF Nodes, ToSet
    <3> QED
      BY <3>1 DEF Surjection
  <2>2. IsFiniteSet(DOMAIN Tree)
    BY <1>1, SeqElements, FS_Interval
  <2> QED
    BY <2>1, <2>2, FS_Surjection
<1>3. \A S \in SUBSET Nodes : IsFiniteSet(S) /\ Cardinality(S) \in Nat
  BY <1>2, FS_Subset, FS_CardinalityType
<1> QED
  BY <1>1, <1>2, <1>3

\* Truncate keeps the first elements.
LEMMA Truncated ==
  ASSUME NEW M, NEW s \in Seq(M), NEW n \in Nat
  PROVE  /\ Truncate(s, n) \in Seq(M) /\ Len(Truncate(s, n)) = (IF Len(s) < n THEN Len(s) ELSE n)
         /\ Len(Truncate(s, n)) \in Nat /\ Len(s) \in Nat
         /\ \A i \in 1..Len(Truncate(s, n)) : i \in 1..Len(s) /\ Truncate(s, n)[i] = s[i]
<1> DEFINE m == IF Len(s) < n THEN Len(s) ELSE n
<1>1. m \in 0..Len(s) /\ Len(s) \in Nat /\ \A i \in 1..Len(s) : s[i] \in M
  BY SeqElements
<1>2. Truncate(s, n) = SubSeq(s, 1, m)
  BY DEF Truncate
<1> HIDE DEF m
<1>3. /\ SubSeq(s, 1, m) \in Seq(M) /\ Len(SubSeq(s, 1, m)) = IF 1 <= m THEN m - 1 + 1 ELSE 0
      /\ \A i \in 1..(m - 1 + 1) : SubSeq(s, 1, m)[i] = s[1 + i - 1]
  <2>1. \A i \in 1..m : s[i] \in M
    BY <1>1
  <2> QED
    BY <1>1, <2>1, SubSeqProperties
<1>4. Len(SubSeq(s, 1, m)) = m /\ \A i \in 1..m : SubSeq(s, 1, m)[i] = s[i]
  BY <1>1, <1>3
<1>5. \A i \in 1..m : i \in 1..Len(s)
  BY <1>1
<1> QED
  BY <1>1, <1>2, <1>3, <1>4, <1>5 DEF m

\* The listed sources are those of the first elements found.
LEMMA ListedFacts ==
  ASSUME NEW d
  PROVE  /\ Found(d) \in Seq(Nodes) /\ Len(Found(d)) \in Nat
         /\ Len(Listed(d)) = (IF Len(Found(d)) < MaxSources THEN Len(Found(d)) ELSE MaxSources)
         /\ DOMAIN Listed(d) = 1..Len(Listed(d)) /\ Len(Listed(d)) \in Nat
         /\ Listed(d) = [i \in 1..Len(Listed(d)) |-> Listed(d)[i]]
         /\ \A i \in 1..Len(Listed(d)) : Found(d)[i] \in Nodes /\ Listed(d)[i] = SourceOf(d, Found(d)[i])
<1> DEFINE q == [i \in 1..Len(Found(d)) |-> SourceOf(d, Found(d)[i])]
           M == {SourceOf(d, n) : n \in Nodes}
<1>1. Found(d) \in Seq(Nodes)
  BY NodesFinite, RetainType DEF Found
<1>2. Len(Found(d)) \in Nat /\ \A i \in 1..Len(Found(d)) : Found(d)[i] \in Nodes
  BY <1>1, SeqElements
<1>3. Listed(d) = Truncate(q, MaxSources)
  BY DEF Listed, Found
<1>4. q \in Seq(M) /\ Len(q) = Len(Found(d)) /\ \A i \in 1..Len(Found(d)) : q[i] = SourceOf(d, Found(d)[i])
  BY <1>2
<1> HIDE DEF q, M
<1>5. MaxSources \in Nat
  BY ResourcesAssumption
<1>6. /\ Listed(d) \in Seq(M) /\ Len(Listed(d)) = (IF Len(q) < MaxSources THEN Len(q) ELSE MaxSources)
      /\ Len(Listed(d)) \in Nat
      /\ \A i \in 1..Len(Listed(d)) : i \in 1..Len(q) /\ Listed(d)[i] = q[i]
  BY <1>3, <1>4, <1>5, Truncated
<1>7. DOMAIN Listed(d) = 1..Len(Listed(d)) /\ Listed(d) = [i \in 1..Len(Listed(d)) |-> Listed(d)[i]]
  BY <1>6, SeqElements
<1> QED
  BY <1>1, <1>2, <1>4, <1>6, <1>7

\* The sources of a document are known ones.
LEMMA ListedKnown ==
  ASSUME NEW d \in Documents PROVE SourcesKnown(Listed(d), d)
<1>1. ASSUME NEW i \in 1..Len(Listed(d))
      PROVE  /\ Listed(d)[i] \in SourceSet
             /\ Listed(d)[i].owner \in Links =>
                  Listed(d)[i].url \in Urls /\ Listed(d)[i].text = d.text[Listed(d)[i].owner]
  <2>1. PICK n \in Nodes : Listed(d)[i] = SourceOf(d, n)
    BY <1>1, ListedFacts
  <2>2. d.url[n] \in Urls /\ d.text[n] \in 0..1
    BY DEF Documents
  <2> QED
    BY <2>1, <2>2 DEF SourceOf, SourceSet
<1>2. DOMAIN Listed(d) = 1..Len(Listed(d)) /\ Len(Listed(d)) \in Nat
      /\ Len(Listed(d)) <= MaxSources
  BY ListedFacts, ResourcesAssumption
<1>3. Listed(d) \in Seq(SourceSet)
  <2> DEFINE q == Listed(d)
  <2>1. q = [i \in 1..Len(q) |-> q[i]]
    BY ListedFacts
  <2> HIDE DEF q
  <2> QED
    BY <1>1, <1>2, <2>1 DEF q
<1> QED
  BY <1>1, <1>2, <1>3 DEF SourcesKnown

\* Texts change no place in the list.
LEMMA ListedUnread ==
  ASSUME NEW d \in Documents
  PROVE  Listed(Unread(d)) = WithoutText(Listed(d))
<1> DEFINE e == Unread(d)
<1>1. /\ e.in = d.in /\ e.rel = d.rel /\ e.url = d.url /\ \A n \in Nodes : e.text[n] = 0
  BY DEF Unread, Documents
<1> HIDE DEF e
<1>2. \A n \in Nodes : IsSource(e, n) <=> IsSource(d, n)
  BY <1>1 DEF IsSource
<1>3. Found(e) = Found(d)
  <2>1. {n \in Nodes : IsSource(e, n)} = {n \in Nodes : IsSource(d, n)}
    BY <1>2
  <2> QED
    BY <2>1 DEF Found
<1>4. Len(Listed(e)) = Len(Listed(d)) /\ DOMAIN Listed(e) = 1..Len(Listed(d))
  BY <1>3, ListedFacts
<1>5. ASSUME NEW i \in 1..Len(Listed(d))
      PROVE  Listed(e)[i] = [Listed(d)[i] EXCEPT !.text = 0]
  <2>1. /\ Found(d)[i] \in Nodes /\ Listed(d)[i] = SourceOf(d, Found(d)[i])
        /\ Listed(e)[i] = SourceOf(e, Found(d)[i])
    BY <1>3, <1>4, ListedFacts
  <2> DEFINE n == Found(d)[i]
             url == IF n \in Links THEN d.url[n] ELSE "inline"
  <2>2. Listed(d)[i] = [owner |-> n, url |-> url, text |-> d.text[n]]
    BY <2>1 DEF SourceOf
  <2>3. Listed(e)[i] = [owner |-> n, url |-> url, text |-> 0]
    BY <1>1, <2>1 DEF SourceOf
  <2> HIDE DEF n, url
  <2> QED
    BY <2>2, <2>3
<1>6. Listed(e) = [i \in 1..Len(Listed(e)) |-> Listed(e)[i]]
  BY ListedFacts
<1> QED
  BY <1>4, <1>5, <1>6 DEF WithoutText, e

-----------------------------------------------------------------------------
(***************************************************************************)
(* Sheets, and the invariant.                                              *)
(***************************************************************************)
\* Sheets as they are handed over carry no marks of script.
LEMMA LiveSheetsFacts ==
  ASSUME NEW q \in Seq(SourceSet), NEW bodies
  PROVE  /\ LiveSheets(q, bodies) \in Seq(SheetSet)
         /\ Plain(LiveSheets(q, bodies)) = LiveSheets(q, bodies)
<1> DEFINE set == LiveSheets(q, bodies)
<1>1. Len(q) \in Nat /\ \A i \in 1..Len(q) : q[i] \in SourceSet
  BY SeqElements
<1>2. \A i \in 1..Len(q) : set[i] \in SheetSet /\ ~set[i].spliced /\ ~set[i].disabled
  <2> SUFFICES ASSUME NEW i \in 1..Len(q)
               PROVE  set[i] \in SheetSet /\ ~set[i].spliced /\ ~set[i].disabled
    OBVIOUS
  <2> DEFINE rules == IF q[i].owner \in Links /\ bodies[q[i].url] # "held"
                      THEN [url |-> "nothing", text |-> 0]
                      ELSE [url |-> q[i].url, text |-> q[i].text]
  <2>1. set[i] = [owner |-> q[i].owner, rules |-> rules, spliced |-> FALSE, disabled |-> FALSE]
    BY DEF LiveSheets
  <2>2. /\ q[i].owner \in Nodes /\ q[i].url \in Urls \cup {"inline"} /\ q[i].text \in 0..1
    BY <1>1 DEF SourceSet
  <2>3. rules \in [url : Urls \cup {"inline", "nothing"}, text : 0..1]
    BY <2>2
  <2> HIDE DEF rules, set
  <2> QED
    BY <2>1, <2>2, <2>3 DEF SheetSet
<1>3. set = [i \in 1..Len(q) |-> set[i]] /\ Len(set) = Len(q)
  BY <1>1 DEF LiveSheets
<1> HIDE DEF set
<1>4. set \in Seq(SheetSet)
  BY <1>1, <1>2, <1>3
<1>5. \A i \in 1..Len(q) : [set[i] EXCEPT !.spliced = FALSE, !.disabled = FALSE] = set[i]
  BY <1>2 DEF SheetSet
<1>6. Plain(set) = set
  BY <1>3, <1>5 DEF Plain
<1> QED
  BY <1>4, <1>6 DEF set

\* Only whether a body is held matters.
LEMMA LiveSheetsSame ==
  ASSUME NEW q, NEW b, NEW c,
         \A i \in 1..Len(q) : q[i].owner \in Links =>
           (b[q[i].url] = "held" <=> c[q[i].url] = "held")
  PROVE  LiveSheets(q, b) = LiveSheets(q, c)
BY DEF LiveSheets

\* A splice changes the marks of script on a sheet and nothing else of it.
LEMMA PlainSpliced ==
  ASSUME NEW set \in Seq(SheetSet), NEW i \in 1..Len(set), NEW e \in SheetSet,
         e.owner = set[i].owner, e.rules = set[i].rules
  PROVE  [set EXCEPT ![i] = e] \in Seq(SheetSet) /\ Plain([set EXCEPT ![i] = e]) = Plain(set)
<1> DEFINE new == [set EXCEPT ![i] = e]
<1>1. /\ new \in Seq(SheetSet) /\ Len(new) = Len(set) /\ new[i] = e
      /\ \A j \in 1..Len(set) : j # i => new[j] = set[j]
  BY SeqElements
<1>2. set[i] \in SheetSet
  BY SeqElements
<1>3. [e EXCEPT !.spliced = FALSE, !.disabled = FALSE] = [set[i] EXCEPT !.spliced = FALSE, !.disabled = FALSE]
  BY <1>2 DEF SheetSet
<1> HIDE DEF new
<1>4. \A j \in 1..Len(set) :
        [new[j] EXCEPT !.spliced = FALSE, !.disabled = FALSE] = [set[j] EXCEPT !.spliced = FALSE, !.disabled = FALSE]
  BY <1>1, <1>3
<1> QED
  BY <1>1, <1>4 DEF Plain, new

\* What a state is made of.
ResourcesTyped ==
  /\ doc \in Documents
  /\ dom \in [structure : Nat, gen : Nat, dirty : SUBSET Nodes]
  /\ sheets \in [sources : Seq(SourceSet), bodies : [Urls -> Bodies],
                 requested : SUBSET Urls, structure : Nat, gen : Nat]
  /\ fetches \in [running : [Urls -> Nat], done : Seq([url : Urls, ok : BOOLEAN])]
  /\ pre \in [started : SUBSET Links, outstanding : Nat, structure : Nat]
  /\ early \in [running : SUBSET Links, done : Seq(Links)]
  /\ cssom \in [sheets : Seq(SheetSet), gen : Nat]
  /\ built.gen \in Nat
  /\ phase \in Phases /\ due \in BOOLEAN /\ faults \subseteq {"thread", "twice"}
  /\ missed \in [build : SUBSET Nodes, event : SUBSET Nodes]
  /\ fired \in [Links -> Nat]

\* The counters a consumer saw are behind the counters it will look at.
CountersBehind ==
  /\ dom.structure <= dom.gen /\ dom.gen + cssom.gen <= MaxEdits
  /\ sheets.structure <= dom.structure /\ sheets.gen <= dom.gen
  /\ built.gen <= cssom.gen

\* The sources are those of the last collection, and what changed since is
\* noticed by one of the three signals.
SourcesInv ==
  /\ SourcesKnown(sheets.sources, doc) /\ ChangesAreNoticed
  /\ phase = "build" => missed.build \cup missed.event = {}

Answered(u) == \E i \in 1..Len(fetches.done) : fetches.done[i].url = u

\* Unless an address was fetched twice, it has a thread or an answer or a body,
\* one of them, and none before it was asked for.
FetchedOnce ==
  "twice" \in faults \/
    \A u \in Urls :
      /\ u \notin sheets.requested => sheets.bodies[u] = "none" /\ fetches.running[u] = 0 /\ ~Answered(u)
      /\ fetches.running[u] <= 1
      /\ fetches.running[u] = 1 => sheets.bodies[u] = "none" /\ ~Answered(u)
      /\ Answered(u) => sheets.bodies[u] = "none"
      /\ \A i, j \in 1..Len(fetches.done) : fetches.done[i].url = u /\ fetches.done[j].url = u => i = j

\* Whatever was asked for is there or comes, listed or not.
RequestedComes ==
  "thread" \in faults \/
    /\ pre.outstanding = Cardinality(early.running) + Len(early.done)
    /\ \A u \in sheets.requested :
         sheets.bodies[u] = "none" => fetches.running[u] > 0 \/ Answered(u)

\* A link is at one point of its preload: not started, running, ended, heard.
PreloadedOnce ==
  /\ early.running \subseteq pre.started
  /\ \A i \in 1..Len(early.done) :
       /\ early.done[i] \in pre.started \ early.running /\ fired[early.done[i]] = 0
       /\ \A j \in 1..Len(early.done) : early.done[i] = early.done[j] => i = j
  /\ \A n \in Links : /\ fired[n] <= 1
                      /\ n \in early.running \/ n \notin pre.started => fired[n] = 0

\* The inductive invariant.
RIInv ==
  /\ ResourcesTyped /\ CountersBehind /\ SourcesInv /\ CascadeReadsSet
  /\ FetchedOnce /\ RequestedComes /\ PreloadedOnce

\* The addresses of known sources.
LEMMA ListedUrls ==
  ASSUME NEW q, NEW d, SourcesKnown(q, d)
  PROVE  /\ LinkUrls(q) \subseteq Urls
         /\ \A u : u \in LinkUrls(q) <=> \E i \in 1..Len(q) : q[i].owner \in Links /\ q[i].url = u
<1>1. q \in Seq(SourceSet) /\ DOMAIN q = 1..Len(q)
  BY SeqElements DEF SourcesKnown
<1>2. \A u : u \in LinkUrls(q) <=> \E i \in 1..Len(q) : q[i].owner \in Links /\ q[i].url = u
  BY <1>1 DEF LinkUrls, ToSet
<1> QED
  BY <1>1, <1>2 DEF SourcesKnown

\* The page as the loader hands it over satisfies the invariant.
LEMMA ResourcesStart == Init => RIInv
<1> SUFFICES ASSUME Init PROVE RIInv
  OBVIOUS
<1>1. PICK bodies \in [Urls -> {"none", "held"}] :
        /\ \A u \in Urls : bodies[u] = "held" => u \in LinkUrls(Listed(doc))
        /\ sheets = [sources |-> Listed(doc), bodies |-> bodies,
                     requested |-> {u \in Urls : bodies[u] = "held"},
                     structure |-> 0, gen |-> 0]
  BY DEF Init
<1>2. /\ dom = [structure |-> 0, gen |-> 0, dirty |-> {}]
      /\ fetches = [running |-> [u \in Urls |-> 0], done |-> << >>]
      /\ pre = [started |-> {}, outstanding |-> 0, structure |-> MaxEdits + 1]
      /\ early = [running |-> {}, done |-> << >>]
      /\ cssom = [sheets |-> LiveSheets(sheets.sources, sheets.bodies), gen |-> 0]
      /\ built = [sheets |-> ActiveSheets(cssom.sheets), gen |-> 0]
      /\ phase = "build" /\ due = FALSE
      /\ missed = [build |-> {}, event |-> {}]
      /\ fired = [n \in Links |-> 0] /\ faults = {}
  BY DEF Init
<1>3. doc \in Documents /\ MaxEdits \in Nat
  BY PagesAssumption, ResourcesAssumption DEF Init
<1>4. SourcesKnown(Listed(doc), doc) /\ Listed(doc) \in Seq(SourceSet)
  BY <1>3, ListedKnown DEF SourcesKnown
<1>5. LiveSheets(sheets.sources, sheets.bodies) \in Seq(SheetSet)
  BY <1>1, <1>4, LiveSheetsFacts
<1>6. ResourcesTyped
  <2>1. sheets \in [sources : Seq(SourceSet), bodies : [Urls -> Bodies],
                    requested : SUBSET Urls, structure : Nat, gen : Nat]
    BY <1>1, <1>4 DEF Bodies
  <2>2. /\ dom \in [structure : Nat, gen : Nat, dirty : SUBSET Nodes]
        /\ fetches \in [running : [Urls -> Nat], done : Seq([url : Urls, ok : BOOLEAN])]
        /\ pre \in [started : SUBSET Links, outstanding : Nat, structure : Nat]
        /\ early \in [running : SUBSET Links, done : Seq(Links)]
        /\ missed \in [build : SUBSET Nodes, event : SUBSET Nodes]
        /\ fired \in [Links -> Nat]
    BY <1>2, <1>3
  <2> QED
    BY <1>2, <1>3, <1>5, <2>1, <2>2 DEF ResourcesTyped, Phases
<1>7. CountersBehind
  BY <1>1, <1>2, <1>3 DEF CountersBehind
<1>8. SourcesInv
  BY <1>1, <1>2, <1>4 DEF SourcesInv, ChangesAreNoticed
<1>9. CascadeReadsSet
  <2>1. Plain(LiveSheets(sheets.sources, sheets.bodies)) = LiveSheets(sheets.sources, sheets.bodies)
    BY <1>1, <1>4, LiveSheetsFacts
  <2> QED
    BY <1>2, <2>1 DEF CascadeReadsSet, Plain
<1>10. FetchedOnce
  <2>1. \A u : ~Answered(u)
    BY <1>2 DEF Answered
  <2>2. Len(fetches.done) = 0 /\ \A u \in Urls : fetches.running[u] = 0
    BY <1>2
  <2>3. \A u \in Urls : u \notin sheets.requested => sheets.bodies[u] = "none"
    BY <1>1
  <2> QED
    BY <2>1, <2>2, <2>3 DEF FetchedOnce
<1>11. RequestedComes
  <2>1. Cardinality({}) = 0
    BY FS_EmptySet
  <2>2. Len(early.done) = 0 /\ early.running = {} /\ pre.outstanding = 0
    BY <1>2
  <2>3. \A u \in sheets.requested : sheets.bodies[u] = "held"
    BY <1>1
  <2> QED
    BY <2>1, <2>2, <2>3 DEF RequestedComes
<1>12. PreloadedOnce
  BY <1>2 DEF PreloadedOnce
<1> QED
  BY <1>6, <1>7, <1>8, <1>9, <1>10, <1>11, <1>12 DEF RIInv

-----------------------------------------------------------------------------
(***************************************************************************)
(* Every step keeps the invariant.                                         *)
(***************************************************************************)
\* What the threads and the set of sheets know is untouched.
LEMMA FetchesKept ==
  ASSUME RIInv, UNCHANGED <<sheets, fetches, faults, pre, early, fired>>
  PROVE  FetchedOnce' /\ RequestedComes' /\ PreloadedOnce'
<1>1. FetchedOnce'
  BY DEF RIInv, FetchedOnce, Answered
<1>2. RequestedComes'
  BY DEF RIInv, RequestedComes, Answered
<1>3. PreloadedOnce'
  BY DEF RIInv, PreloadedOnce
<1> QED
  BY <1>1, <1>2, <1>3

LEMMA CascadeKept ==
  ASSUME RIInv, UNCHANGED <<sheets, cssom, built, faults>> PROVE CascadeReadsSet'
BY DEF RIInv, CascadeReadsSet

\* A script's edit of the document.
LEMMA EditKeeps ==
  ASSUME RIInv, Editing, NEW structural \in BOOLEAN, NEW marked \in SUBSET Nodes,
         Edited(structural, marked), doc' \in Documents,
         \A n \in Links : doc'.text[n] = doc.text[n],
         \/ structural
         \/ marked # {}
         \/ Unread(doc') = Unread(doc)
  PROVE  RIInv'
<1>1. /\ UNCHANGED <<sheets, pre, cssom, built, phase, due, missed, fired, fetches, early, faults>>
      /\ dom.gen + cssom.gen < MaxEdits /\ phase \in {"build", "callbacks", "handler", "event"}
  BY DEF Editing, threadVars, Scripting, MayEdit
<1>2. dom' = [structure |-> dom.structure + (IF structural THEN 1 ELSE 0),
              gen |-> dom.gen + 1, dirty |-> dom.dirty \cup marked]
  BY DEF Edited
<1>3. /\ dom.structure \in Nat /\ dom.gen \in Nat /\ dom.dirty \subseteq Nodes
      /\ sheets.structure \in Nat /\ sheets.gen \in Nat /\ cssom.gen \in Nat
      /\ MaxEdits \in Nat
  BY ResourcesAssumption DEF RIInv, ResourcesTyped
<1>4. /\ dom'.gen = dom.gen + 1 /\ dom'.dirty = dom.dirty \cup marked
      /\ dom'.structure = dom.structure + (IF structural THEN 1 ELSE 0)
      /\ dom' \in [structure : Nat, gen : Nat, dirty : SUBSET Nodes]
  BY <1>2, <1>3
<1>5. ResourcesTyped'
  BY <1>1, <1>4 DEF RIInv, ResourcesTyped
<1>6. CountersBehind'
  <2>1. /\ dom.structure <= dom.gen /\ sheets.structure <= dom.structure /\ sheets.gen <= dom.gen
        /\ built.gen <= cssom.gen
    BY DEF RIInv, CountersBehind
  <2>2. /\ dom'.structure <= dom'.gen /\ sheets.structure <= dom'.structure /\ sheets.gen <= dom'.gen
        /\ dom'.gen + cssom.gen <= MaxEdits
    BY <1>1, <1>3, <1>4, <2>1
  <2> QED
    BY <1>1, <2>1, <2>2 DEF CountersBehind
<1>7. SourcesKnown(sheets.sources, doc)'
  <2>1. SourcesKnown(sheets.sources, doc)
    BY DEF RIInv, SourcesInv
  <2> QED
    BY <1>1, <2>1 DEF SourcesKnown
<1>8. ChangesAreNoticed'
  <2>1. sheets.structure <= dom.structure /\ sheets.gen <= dom.gen /\ ChangesAreNoticed
        /\ doc \in Documents /\ SourcesKnown(sheets.sources, doc)
    BY DEF RIInv, CountersBehind, SourcesInv, ResourcesTyped
  <2>2. CASE structural
    <3>1. dom'.structure # sheets'.structure
      BY <1>1, <1>3, <1>4, <2>1, <2>2
    <3> QED
      BY <3>1 DEF ChangesAreNoticed, Noticed
  <2>3. CASE marked # {}
    <3>1. dom'.dirty \cap Nodes # {}
      BY <1>4, <2>3
    <3> QED
      BY <3>1 DEF ChangesAreNoticed, Noticed
  <2>4. CASE Unread(doc') = Unread(doc) /\ ~structural
    <3>1. dom'.gen # sheets'.gen /\ dom'.structure = dom.structure /\ dom.dirty \subseteq dom'.dirty
      BY <1>1, <1>3, <1>4, <2>1, <2>4
    <3>2. CASE sheets.sources = Listed(doc)
      <4>1. Listed(Unread(doc')) = WithoutText(sheets'.sources)
        BY <1>1, <2>1, <2>4, <3>2, ListedUnread
      <4> QED
        BY <3>1, <4>1 DEF ChangesAreNoticed, Noticed, Unread, WithoutText
    <3>3. CASE Noticed
      <4>1. CASE Listed(Unread(doc)) = WithoutText(sheets.sources)
        <5>1. Listed(Unread(doc')) = WithoutText(sheets'.sources)
          BY <1>1, <2>4, <4>1
        <5> QED
          BY <3>1, <5>1 DEF ChangesAreNoticed, Noticed, Unread, WithoutText
      <4>2. CASE dom.structure # sheets.structure \/ dom.dirty \cap Nodes # {}
        <5>1. dom'.structure # sheets'.structure \/ dom'.dirty \cap Nodes # {}
          BY <1>1, <3>1, <4>2
        <5> QED
          BY <5>1 DEF ChangesAreNoticed, Noticed
      <4> QED
        BY <3>3, <4>1, <4>2 DEF Noticed, Unread, WithoutText
    <3>4. CASE missed.build \cup missed.event # {}
      BY <1>1, <3>4 DEF ChangesAreNoticed
    <3> QED
      BY <2>1, <3>2, <3>3, <3>4 DEF ChangesAreNoticed
  <2> QED
    BY <2>2, <2>3, <2>4
<1>9. SourcesInv'
  BY <1>1, <1>7, <1>8 DEF RIInv, SourcesInv
<1>10. CascadeReadsSet' /\ FetchedOnce' /\ RequestedComes' /\ PreloadedOnce'
  BY <1>1, FetchesKept, CascadeKept
<1> QED
  BY <1>5, <1>6, <1>9, <1>10 DEF RIInv

LEMMA DocumentEdits ==
  ASSUME NEW d \in Documents, NEW n \in Nodes
  PROVE  /\ d = [in |-> d.in, rel |-> d.rel, url |-> d.url, text |-> d.text]
         /\ \A b \in BOOLEAN : [d EXCEPT !.in[n] = b] \in Documents
         /\ \A r \in Rels : [d EXCEPT !.rel[n] = r] \in Documents
         /\ \A u \in Urls : [d EXCEPT !.url[n] = u] \in Documents
         /\ \A t \in 0..1 : [d EXCEPT !.text[n] = t] \in Documents
BY DEF Documents

LEMMA EditTreeKeeps == ASSUME RIInv, EditTree PROVE RIInv'
<1>1. PICK n \in Nodes : /\ doc' = [doc EXCEPT !.in[n] = ~@]
                         /\ Edited(TRUE, {n} \ {m \in Nodes : doc.in[m]})
  BY DEF EditTree
<1>2. doc \in Documents /\ Editing
  BY DEF RIInv, ResourcesTyped, EditTree
<1>3. doc.in[n] \in BOOLEAN
  BY <1>2 DEF Documents
<1>4. doc' = [doc EXCEPT !.in[n] = ~doc.in[n]] /\ (~doc.in[n]) \in BOOLEAN
  <2>1. (~doc.in[n]) \in BOOLEAN
    OBVIOUS
  <2> QED
    BY <1>1, <2>1, Zenon
<1>5. doc' \in Documents
  BY <1>2, <1>4, DocumentEdits
<1>6. \A m \in Links : doc'.text[m] = doc.text[m]
  BY <1>2, <1>4 DEF Documents
<1>7. {n} \ {m \in Nodes : doc.in[m]} \in SUBSET Nodes
  OBVIOUS
<1> QED
  BY <1>1, <1>2, <1>5, <1>6, <1>7, EditKeeps

LEMMA EditLinkKeeps == ASSUME RIInv, EditLink PROVE RIInv'
<1>1. PICK n \in Links :
        /\ \/ \E r \in Rels \ {doc.rel[n]} : doc' = [doc EXCEPT !.rel[n] = r]
           \/ \E u \in Urls \ {doc.url[n]} : doc' = [doc EXCEPT !.url[n] = u]
        /\ Edited(FALSE, {n})
  BY DEF EditLink
<1>2. doc \in Documents /\ Editing /\ n \in Nodes
  BY NodesFinite DEF RIInv, ResourcesTyped, EditLink
<1>3. doc' \in Documents /\ \A m \in Links : doc'.text[m] = doc.text[m]
  <2>1. ASSUME NEW r \in Rels, doc' = [doc EXCEPT !.rel[n] = r]
        PROVE  doc' \in Documents /\ doc'.text = doc.text
    BY <1>2, <2>1, DocumentEdits DEF Documents
  <2>2. ASSUME NEW u \in Urls, doc' = [doc EXCEPT !.url[n] = u]
        PROVE  doc' \in Documents /\ doc'.text = doc.text
    BY <1>2, <2>2, DocumentEdits DEF Documents
  <2> QED
    BY <1>1, <2>1, <2>2
<1> QED
  BY <1>1, <1>2, <1>3, EditKeeps

LEMMA EditStyleTextKeeps == ASSUME RIInv, EditStyleText PROVE RIInv'
<1>1. PICK n \in Styles : doc' = [doc EXCEPT !.text[n] = 1 - @]
  BY DEF EditStyleText
<1>2. doc \in Documents /\ Editing /\ n \in Nodes /\ n \notin Links /\ Edited(FALSE, {})
  BY <1>1 DEF RIInv, ResourcesTyped, EditStyleText, Styles
<1>3. doc' = [doc EXCEPT !.text[n] = 1 - doc.text[n]] /\ 1 - doc.text[n] \in 0..1
  <2>1. doc.text[n] \in 0..1
    BY <1>2 DEF Documents
  <2> QED
    BY <1>1, <1>2, <2>1 DEF Documents
<1>4. doc' \in Documents /\ \A m \in Links : doc'.text[m] = doc.text[m]
  <2>1. doc' \in Documents
    BY <1>2, <1>3, DocumentEdits
  <2>2. \A m \in Links : m # n /\ m \in Nodes
    BY <1>2, NodesFinite
  <2> QED
    BY <1>2, <1>3, <2>1, <2>2 DEF Documents
<1>5. Unread(doc') = Unread(doc)
  BY <1>2, <1>3 DEF Unread, Documents
<1>6. Unread(doc') = Unread(doc) => RIInv'
  BY <1>2, <1>4, EditKeeps
<1> QED
  BY <1>5, <1>6

LEMMA SpliceKeeps == ASSUME RIInv, Splice PROVE RIInv'
<1>1. PICK i \in 1..Len(cssom.sheets) :
        cssom' = [sheets |-> [cssom.sheets EXCEPT
                                ![i] = IF @.disabled THEN [@ EXCEPT !.disabled = FALSE]
                                       ELSE IF @.spliced THEN [@ EXCEPT !.disabled = TRUE]
                                       ELSE [@ EXCEPT !.spliced = TRUE]],
                  gen |-> cssom.gen + 1]
  BY DEF Splice
<1>2. /\ UNCHANGED <<doc, dom, sheets, pre, built, phase, due, missed, fired, fetches, early, faults>>
      /\ dom.gen + cssom.gen < MaxEdits
  BY DEF Splice, threadVars, Scripting, MayEdit
<1>3. /\ cssom.sheets \in Seq(SheetSet) /\ cssom.gen \in Nat /\ dom.gen \in Nat /\ built.gen \in Nat
      /\ MaxEdits \in Nat /\ built.gen <= cssom.gen
  BY ResourcesAssumption DEF RIInv, ResourcesTyped, CountersBehind
<1> DEFINE old == cssom.sheets[i]
           e == IF old.disabled THEN [old EXCEPT !.disabled = FALSE]
                ELSE IF old.spliced THEN [old EXCEPT !.disabled = TRUE]
                ELSE [old EXCEPT !.spliced = TRUE]
           new == [cssom.sheets EXCEPT ![i] = e]
<1>4. old \in SheetSet
  BY <1>3, SeqElements
<1>5. e \in SheetSet /\ e.owner = old.owner /\ e.rules = old.rules
  <2> HIDE DEF old
  <2> QED
    BY <1>4 DEF SheetSet
<1>6. cssom'.sheets = new /\ cssom'.gen = cssom.gen + 1 /\ cssom' = [sheets |-> new, gen |-> cssom.gen + 1]
  <2>1. DOMAIN cssom.sheets = 1..Len(cssom.sheets)
    BY <1>3, SeqElements
  <2> QED
    BY <1>1, <2>1
<1> HIDE DEF e
<1>7. new \in Seq(SheetSet) /\ Plain(new) = Plain(cssom.sheets)
  BY <1>3, <1>5, PlainSpliced
<1> HIDE DEF new
<1>8. ResourcesTyped'
  <2>1. cssom' \in [sheets : Seq(SheetSet), gen : Nat]
    BY <1>3, <1>6, <1>7
  <2> QED
    BY <1>2, <2>1 DEF RIInv, ResourcesTyped
<1>9. CountersBehind'
  <2>1. dom.gen + (cssom.gen + 1) <= MaxEdits /\ built.gen <= cssom.gen + 1
    BY <1>2, <1>3
  <2> QED
    BY <1>2, <1>6, <2>1 DEF RIInv, CountersBehind
<1>10. SourcesInv'
  BY <1>2 DEF RIInv, SourcesInv, ChangesAreNoticed, Noticed
<1>11. CascadeReadsSet'
  <2>1. "twice" \in faults \/ Plain(cssom.sheets) = LiveSheets(sheets.sources, sheets.bodies)
    BY DEF RIInv, CascadeReadsSet, Plain
  <2>2. "twice" \in faults' \/ Plain(cssom'.sheets) = LiveSheets(sheets'.sources, sheets'.bodies)
    BY <1>2, <1>6, <1>7, <2>1
  <2>3. cssom'.gen # built'.gen
    BY <1>2, <1>3, <1>6
  <2> QED
    BY <2>2, <2>3 DEF CascadeReadsSet, Plain
<1>12. FetchedOnce' /\ RequestedComes' /\ PreloadedOnce'
  BY <1>2, FetchesKept
<1> QED
  BY <1>8, <1>9, <1>10, <1>11, <1>12 DEF RIInv

-----------------------------------------------------------------------------
\* Only the phase and whether an iteration is due change.
LEMMA PhaseKeeps ==
  ASSUME RIInv, UNCHANGED <<doc, dom, sheets, pre, cssom, built, missed, fired, threadVars>>,
         phase' \in Phases \ {"build"}, due' \in BOOLEAN
  PROVE  RIInv'
<1>1. UNCHANGED <<doc, dom, sheets, pre, cssom, built, missed, fired, fetches, early, faults>>
  BY DEF threadVars
<1>2. ResourcesTyped' /\ CountersBehind'
  BY <1>1 DEF RIInv, ResourcesTyped, CountersBehind
<1>3. SourcesInv'
  BY <1>1 DEF RIInv, SourcesInv, ChangesAreNoticed, Noticed
<1>4. CascadeReadsSet' /\ FetchedOnce' /\ RequestedComes' /\ PreloadedOnce'
  BY <1>1, FetchesKept, CascadeKept
<1> QED
  BY <1>2, <1>3, <1>4 DEF RIInv

LEMMA QuietStepsKeep ==
  ASSUME RIInv, StartTick \/ CallbacksThrow \/ StartEvent PROVE RIInv'
<1>1. /\ UNCHANGED <<doc, dom, sheets, pre, cssom, built, missed, fired, threadVars>>
      /\ phase' \in Phases \ {"build"} /\ due' \in BOOLEAN
  BY DEF StartTick, CallbacksThrow, StartEvent, Phases, RIInv, ResourcesTyped
<1> QED
  BY <1>1, PhaseKeeps

\* Marks that are drained without the set seeing them are remembered.
LEMMA EndEventKeeps == ASSUME RIInv, EndEvent PROVE RIInv'
<1>1. /\ phase' = "idle" /\ due' = TRUE
      /\ missed' = [missed EXCEPT !.event = @ \cup (dom.dirty \cap Nodes)]
      /\ dom' = [dom EXCEPT !.dirty = {}]
      /\ UNCHANGED <<doc, sheets, pre, cssom, built, fired, fetches, early, faults>>
  BY DEF EndEvent, threadVars
<1>2. /\ missed \in [build : SUBSET Nodes, event : SUBSET Nodes]
      /\ dom \in [structure : Nat, gen : Nat, dirty : SUBSET Nodes]
  BY DEF RIInv, ResourcesTyped
<1>3. /\ missed' \in [build : SUBSET Nodes, event : SUBSET Nodes]
      /\ missed'.build = missed.build /\ missed'.event = missed.event \cup (dom.dirty \cap Nodes)
      /\ dom' \in [structure : Nat, gen : Nat, dirty : SUBSET Nodes]
      /\ dom'.structure = dom.structure /\ dom'.gen = dom.gen /\ dom'.dirty = {}
  BY <1>1, <1>2
<1>4. ResourcesTyped' /\ CountersBehind'
  BY <1>1, <1>3 DEF RIInv, ResourcesTyped, CountersBehind, Phases
<1>5. SourcesInv'
  <2>1. ChangesAreNoticed'
    <3>1. CASE dom.dirty \cap Nodes # {}
      BY <1>3, <3>1 DEF ChangesAreNoticed
    <3>2. CASE dom.dirty \cap Nodes = {}
      BY <1>1, <1>3, <3>2 DEF RIInv, SourcesInv, ChangesAreNoticed, Noticed
    <3> QED
      BY <3>1, <3>2
  <2> QED
    BY <1>1, <2>1 DEF RIInv, SourcesInv
<1>6. CascadeReadsSet' /\ FetchedOnce' /\ RequestedComes' /\ PreloadedOnce'
  BY <1>1, FetchesKept, CascadeKept
<1> QED
  BY <1>4, <1>5, <1>6 DEF RIInv

LEMMA SheetArrivesKeeps == ASSUME RIInv, NEW u \in Urls, SheetArrives(u) PROVE RIInv'
<1>1. PICK ok \in BOOLEAN :
        fetches' = [running |-> [fetches.running EXCEPT ![u] = @ - 1],
                    done |-> Append(fetches.done, [url |-> u, ok |-> ok])]
  BY DEF SheetArrives
<1>2. /\ fetches.running[u] > 0
      /\ UNCHANGED <<doc, dom, sheets, pre, early, cssom, built, phase, due, missed, fired, faults>>
  BY DEF SheetArrives
<1> DEFINE n == Len(fetches.done)
           f == [url |-> u, ok |-> ok]
<1>3. /\ fetches.running \in [Urls -> Nat] /\ fetches.done \in Seq([url : Urls, ok : BOOLEAN])
      /\ f \in [url : Urls, ok : BOOLEAN]
  BY DEF RIInv, ResourcesTyped
<1>4. /\ fetches'.running = [fetches.running EXCEPT ![u] = fetches.running[u] - 1]
      /\ fetches'.running \in [Urls -> Nat]
      /\ fetches'.running[u] = fetches.running[u] - 1 /\ fetches.running[u] \in Nat
      /\ \A v \in Urls : v # u => fetches'.running[v] = fetches.running[v]
  BY <1>1, <1>2, <1>3
<1>5. /\ fetches'.done = Append(fetches.done, f) /\ fetches'.done \in Seq([url : Urls, ok : BOOLEAN])
      /\ n \in Nat /\ Len(fetches'.done) = n + 1 /\ fetches'.done[n + 1] = f /\ f.url = u
      /\ \A i \in 1..n : fetches'.done[i] = fetches.done[i]
  BY <1>1, <1>3, AppendElements, SeqElements
<1> HIDE DEF n, f
<1>6. 1..(n + 1) = (1..n) \cup {n + 1} /\ n + 1 \notin 1..n
  BY <1>5
<1>7. \A v : Answered(v)' <=> Answered(v) \/ v = u
  BY <1>5, <1>6 DEF Answered, n
<1>8. ResourcesTyped' /\ CountersBehind' /\ SourcesInv' /\ CascadeReadsSet' /\ PreloadedOnce'
  <2>1. fetches' \in [running : [Urls -> Nat], done : Seq([url : Urls, ok : BOOLEAN])]
    <3>1. fetches' = [running |-> fetches'.running, done |-> fetches'.done]
      BY <1>1
    <3> QED
      BY <1>4, <1>5, <3>1
  <2>2. ResourcesTyped' /\ CountersBehind' 
    BY <1>2, <2>1 DEF RIInv, ResourcesTyped, CountersBehind
  <2>3. SourcesInv' /\ CascadeReadsSet' /\ PreloadedOnce'
    BY <1>2, CascadeKept DEF RIInv, SourcesInv, ChangesAreNoticed, Noticed, PreloadedOnce
  <2> QED
    BY <2>2, <2>3
<1>9. FetchedOnce'
  <2> SUFFICES ASSUME "twice" \notin faults
               PROVE  \A v \in Urls :
                 /\ v \notin sheets.requested => sheets.bodies[v] = "none" /\ fetches'.running[v] = 0 /\ ~Answered(v)'
                 /\ fetches'.running[v] <= 1
                 /\ fetches'.running[v] = 1 => sheets.bodies[v] = "none" /\ ~Answered(v)'
                 /\ Answered(v)' => sheets.bodies[v] = "none"
                 /\ \A i, j \in 1..(n + 1) : fetches'.done[i].url = v /\ fetches'.done[j].url = v => i = j
    BY <1>2, <1>5 DEF FetchedOnce
  <2>1. \A v \in Urls :
          /\ v \notin sheets.requested => sheets.bodies[v] = "none" /\ fetches.running[v] = 0 /\ ~Answered(v)
          /\ fetches.running[v] <= 1
          /\ fetches.running[v] = 1 => sheets.bodies[v] = "none" /\ ~Answered(v)
          /\ Answered(v) => sheets.bodies[v] = "none"
          /\ \A i, j \in 1..n : fetches.done[i].url = v /\ fetches.done[j].url = v => i = j
    BY DEF RIInv, FetchedOnce, n
  <2>2. fetches.running[u] = 1 /\ fetches'.running[u] = 0 /\ sheets.bodies[u] = "none" /\ ~Answered(u)
    <3>1. fetches.running[u] = 1
      BY <1>2, <1>4, <2>1
    <3> QED
      BY <1>4, <2>1, <3>1
  <2>3. u \in sheets.requested
    BY <2>1, <2>2
  <2>4. \A i \in 1..n : fetches.done[i].url # u
    BY <2>2 DEF Answered, n
  <2> SUFFICES ASSUME NEW v \in Urls
               PROVE
                 /\ v \notin sheets.requested => sheets.bodies[v] = "none" /\ fetches'.running[v] = 0 /\ ~Answered(v)'
                 /\ fetches'.running[v] <= 1
                 /\ fetches'.running[v] = 1 => sheets.bodies[v] = "none" /\ ~Answered(v)'
                 /\ Answered(v)' => sheets.bodies[v] = "none"
                 /\ \A i, j \in 1..(n + 1) : fetches'.done[i].url = v /\ fetches'.done[j].url = v => i = j
    OBVIOUS
  <2>5. CASE v = u
    BY <1>5, <1>6, <1>7, <2>2, <2>3, <2>4, <2>5
  <2>6. CASE v # u
    <3>1. \A i \in 1..(n + 1) : fetches'.done[i].url = v => i \in 1..n /\ fetches.done[i].url = v
      BY <1>5, <1>6, <2>6
    <3> QED
      BY <1>4, <1>7, <2>1, <2>6, <3>1
  <2> QED
    BY <2>5, <2>6
<1>10. RequestedComes'
  <2> SUFFICES ASSUME "thread" \notin faults PROVE
         /\ pre.outstanding = Cardinality(early.running) + Len(early.done)
         /\ \A v \in sheets.requested :
              sheets.bodies[v] = "none" => fetches'.running[v] > 0 \/ Answered(v)'
    BY <1>2 DEF RequestedComes
  <2>1. /\ pre.outstanding = Cardinality(early.running) + Len(early.done)
        /\ \A v \in sheets.requested :
             sheets.bodies[v] = "none" => fetches.running[v] > 0 \/ Answered(v)
    BY DEF RIInv, RequestedComes
  <2>2. sheets.requested \subseteq Urls
    BY DEF RIInv, ResourcesTyped
  <2> QED
    BY <1>4, <1>7, <2>1, <2>2
<1> QED
  BY <1>8, <1>9, <1>10 DEF RIInv

-----------------------------------------------------------------------------
(***************************************************************************)
(* Preloads.                                                               *)
(***************************************************************************)
\* Types of what the preloads keep.
LEMMA PreloadedFacts ==
  ASSUME RIInv
  PROVE  /\ early.running \in SUBSET Links /\ early.done \in Seq(Links)
         /\ Len(early.done) \in Nat /\ DOMAIN early.done = 1..Len(early.done)
         /\ \A i \in 1..Len(early.done) : early.done[i] \in Links
         /\ IsFiniteSet(early.running) /\ Cardinality(early.running) \in Nat
         /\ pre.started \in SUBSET Links /\ pre.outstanding \in Nat
         /\ fired \in [Links -> Nat]
<1>1. /\ early.running \in SUBSET Links /\ early.done \in Seq(Links)
      /\ pre.started \in SUBSET Links /\ pre.outstanding \in Nat
      /\ fired \in [Links -> Nat]
  BY DEF RIInv, ResourcesTyped
<1>2. early.running \in SUBSET Nodes
  BY <1>1, NodesFinite
<1> QED
  BY <1>1, <1>2, NodesFinite, SeqElements

LEMMA PreloadArrivesKeeps == ASSUME RIInv, NEW n \in Links, PreloadArrives(n) PROVE RIInv'
<1>1. /\ n \in early.running
      /\ early' = [running |-> early.running \ {n}, done |-> Append(early.done, n)]
      /\ UNCHANGED <<doc, dom, sheets, fetches, pre, cssom, built, phase, due, missed, fired, faults>>
  BY DEF PreloadArrives
<1> DEFINE k == Len(early.done)
<1>2. /\ early'.running = early.running \ {n} /\ early'.done \in Seq(Links)
      /\ k \in Nat /\ Len(early'.done) = k + 1 /\ early'.done[k + 1] = n
      /\ \A i \in 1..k : early'.done[i] = early.done[i]
      /\ early' \in [running : SUBSET Links, done : Seq(Links)]
  <2>1. /\ Append(early.done, n) \in Seq(Links) /\ k \in Nat
        /\ Append(early.done, n)[k + 1] = n
        /\ DOMAIN early.done = 1..k /\ DOMAIN Append(early.done, n) = 1..(k + 1)
        /\ \A i \in DOMAIN early.done : Append(early.done, n)[i] = early.done[i]
    BY PreloadedFacts, AppendElements
  <2>2. Len(Append(early.done, n)) = k + 1
    BY <2>1, SeqElements
  <2> QED
    BY <1>1, <2>1, <2>2, PreloadedFacts
<1> HIDE DEF k
<1>3. 1..(k + 1) = (1..k) \cup {k + 1} /\ k + 1 \notin 1..k
  BY <1>2
<1>4. ResourcesTyped' /\ CountersBehind' /\ SourcesInv' /\ CascadeReadsSet' /\ FetchedOnce'
  <2>1. ResourcesTyped' /\ CountersBehind'
    BY <1>1, <1>2 DEF RIInv, ResourcesTyped, CountersBehind
  <2>2. SourcesInv' /\ CascadeReadsSet' /\ FetchedOnce'
    BY <1>1, CascadeKept DEF RIInv, SourcesInv, ChangesAreNoticed, Noticed, FetchedOnce, Answered
  <2> QED
    BY <2>1, <2>2
<1>5. RequestedComes'
  <2>1. Cardinality(early.running \ {n}) = Cardinality(early.running) - 1
    BY <1>1, PreloadedFacts, FS_RemoveElement
  <2>2. Cardinality(early.running) + k = Cardinality(early.running) - 1 + (k + 1)
    BY <1>2, PreloadedFacts
  <2>3. pre.outstanding = Cardinality(early.running) + k =>
          pre'.outstanding = Cardinality(early'.running) + Len(early'.done)
    BY <1>1, <1>2, <2>1, <2>2
  <2> QED
    BY <1>1, <2>3 DEF RIInv, RequestedComes, Answered, k
<1>6. PreloadedOnce'
  <2>1. /\ early.running \subseteq pre.started
        /\ \A i \in 1..k :
             /\ early.done[i] \in pre.started \ early.running /\ fired[early.done[i]] = 0
             /\ \A j \in 1..k : early.done[i] = early.done[j] => i = j
        /\ \A m \in Links : /\ fired[m] <= 1
                            /\ m \in early.running \/ m \notin pre.started => fired[m] = 0
    BY DEF RIInv, PreloadedOnce, k
  <2>2. \A i \in 1..(k + 1) :
          early'.done[i] \in pre.started \ (early.running \ {n}) /\ fired[early'.done[i]] = 0
    BY <1>1, <1>2, <1>3, <2>1
  <2>3. \A i, j \in 1..(k + 1) : early'.done[i] = early'.done[j] => i = j
    BY <1>1, <1>2, <1>3, <2>1
  <2> QED
    BY <1>1, <1>2, <2>1, <2>2, <2>3 DEF PreloadedOnce
<1> QED
  BY <1>4, <1>5, <1>6 DEF RIInv

LEMMA DispatchPreloadKeeps == ASSUME RIInv, DispatchPreload PROVE RIInv'
<1> DEFINE h == Head(early.done)
           k == Len(early.done)
<1>1. /\ early.done # << >> /\ phase' = "handler"
      /\ fired' = [fired EXCEPT ![h] = @ + 1]
      /\ pre' = [pre EXCEPT !.outstanding = IF @ = 0 THEN 0 ELSE @ - 1]
      /\ early' = [early EXCEPT !.done = Tail(@)]
      /\ UNCHANGED <<doc, dom, sheets, fetches, cssom, built, due, missed, faults>>
  BY DEF DispatchPreload
<1>2. /\ pre \in [started : SUBSET Links, outstanding : Nat, structure : Nat]
      /\ early \in [running : SUBSET Links, done : Seq(Links)]
  BY DEF RIInv, ResourcesTyped
<1>3. /\ k \in Nat \ {0} /\ h = early.done[1] /\ h \in Links
      /\ Tail(early.done) \in Seq(Links) /\ Len(Tail(early.done)) = k - 1
      /\ DOMAIN Tail(early.done) = 1..(k - 1)
      /\ \A i \in 1..(k - 1) : Tail(early.done)[i] = early.done[i + 1]
  BY <1>1, PreloadedFacts, HeadAndTail
<1>4. /\ early'.running = early.running /\ early'.done = Tail(early.done)
      /\ early' \in [running : SUBSET Links, done : Seq(Links)]
      /\ pre'.started = pre.started
      /\ pre'.outstanding = (IF pre.outstanding = 0 THEN 0 ELSE pre.outstanding - 1)
      /\ pre' \in [started : SUBSET Links, outstanding : Nat, structure : Nat]
  <2>1. early' = [running |-> early.running, done |-> Tail(early.done)]
    BY <1>1, <1>2
  <2>2. (IF pre.outstanding = 0 THEN 0 ELSE pre.outstanding - 1) \in Nat
    BY <1>2
  <2>3. pre' = [started |-> pre.started, structure |-> pre.structure,
                outstanding |-> IF pre.outstanding = 0 THEN 0 ELSE pre.outstanding - 1]
    BY <1>1, <1>2
  <2> QED
    BY <1>2, <1>3, <2>1, <2>2, <2>3
<1>5. /\ fired' \in [Links -> Nat] /\ fired'[h] = fired[h] + 1
      /\ \A n \in Links : n # h => fired'[n] = fired[n]
  BY <1>1, <1>3, PreloadedFacts
<1> HIDE DEF h, k
<1>6. ResourcesTyped' /\ CountersBehind' /\ SourcesInv' /\ CascadeReadsSet' /\ FetchedOnce'
  <2>1. ResourcesTyped' /\ CountersBehind'
    BY <1>1, <1>4, <1>5 DEF RIInv, ResourcesTyped, CountersBehind, Phases
  <2>2. CascadeReadsSet' /\ FetchedOnce'
    BY <1>1, CascadeKept DEF RIInv, FetchedOnce, Answered
  <2>3. SourcesInv'
    BY <1>1 DEF RIInv, SourcesInv, ChangesAreNoticed, Noticed
  <2> QED
    BY <2>1, <2>2, <2>3
<1>7. RequestedComes'
  <2>1. pre.outstanding = Cardinality(early.running) + k =>
          pre'.outstanding = Cardinality(early'.running) + Len(early'.done)
    <3> DEFINE c == Cardinality(early.running)
               o == pre.outstanding
    <3>1. c \in Nat /\ o \in Nat /\ k \in Nat \ {0}
      BY <1>3, PreloadedFacts
    <3>2. Len(early'.done) = k - 1 /\ Cardinality(early'.running) = c
          /\ pre'.outstanding = IF o = 0 THEN 0 ELSE o - 1
      BY <1>3, <1>4
    <3> HIDE DEF c, o
    <3>3. o = c + k => pre'.outstanding = Cardinality(early'.running) + Len(early'.done)
      BY <3>1, <3>2
    <3> QED
      BY <3>3 DEF c, o
  <2> QED
    BY <1>1, <2>1 DEF RIInv, RequestedComes, Answered, k
<1>8. PreloadedOnce'
  <2>1. /\ early.running \subseteq pre.started
        /\ \A i \in 1..k :
             /\ early.done[i] \in pre.started \ early.running /\ fired[early.done[i]] = 0
             /\ \A j \in 1..k : early.done[i] = early.done[j] => i = j
        /\ \A m \in Links : /\ fired[m] <= 1
                            /\ m \in early.running \/ m \notin pre.started => fired[m] = 0
    BY DEF RIInv, PreloadedOnce, k
  <2>2. 1 \in 1..k /\ \A i \in 1..(k - 1) : i + 1 \in 1..k /\ i + 1 # 1
    BY <1>3
  <2>3. \A i \in 1..(k - 1) : early'.done[i] = early.done[i + 1] /\ early.done[i + 1] # h
    BY <1>3, <1>4, <2>1, <2>2
  <2>4. \A i \in 1..(k - 1) : early.done[i + 1] \in Links
    BY <2>2, PreloadedFacts DEF k
  <2>5. \A i \in 1..(k - 1) :
          early'.done[i] \in pre.started \ early.running /\ fired'[early'.done[i]] = 0
    BY <1>5, <2>1, <2>2, <2>3, <2>4
  <2>6. \A i, j \in 1..(k - 1) : early'.done[i] = early'.done[j] => i = j
    BY <1>3, <2>1, <2>2, <2>3
  <2>7. fired[h] = 0 /\ h \in pre.started \ early.running
    BY <1>3, <2>1, <2>2
  <2>8. \A m \in Links : /\ fired'[m] <= 1
                         /\ m \in early.running \/ m \notin pre.started => fired'[m] = 0
    BY <1>5, <2>1, <2>7
  <2> QED
    BY <1>3, <1>4, <2>1, <2>5, <2>6, <2>8 DEF PreloadedOnce
<1> QED
  BY <1>6, <1>7, <1>8 DEF RIInv

-----------------------------------------------------------------------------
\* What is collected for preloading is a set of links.
LEMMA PreloadsKnown == ASSUME NEW d PROVE Preloads(d) \in SUBSET Links
<1> DEFINE L == {n \in Links : d.in[n] /\ d.rel[n] = "preload"}
           q == Retain(Tree, L)
<1>1. q \in Seq(Nodes) /\ \A j \in 1..Len(q) : q[j] \in L
  BY NodesFinite, RetainFacts
<1>2. MaxPreloads \in Nat
  BY ResourcesAssumption
<1> HIDE DEF L, q
<1>3. /\ Truncate(q, MaxPreloads) \in Seq(Nodes)
      /\ \A i \in 1..Len(Truncate(q, MaxPreloads)) : i \in 1..Len(q) /\ Truncate(q, MaxPreloads)[i] = q[i]
  BY <1>1, <1>2, Truncated
<1>4. DOMAIN Truncate(q, MaxPreloads) = 1..Len(Truncate(q, MaxPreloads))
  BY <1>3, SeqElements
<1>5. ToSet(Truncate(q, MaxPreloads)) \subseteq L
  BY <1>1, <1>3, <1>4 DEF ToSet
<1>6. Preloads(d) = ToSet(Truncate(q, MaxPreloads))
  BY DEF Preloads, q, L
<1> QED
  BY <1>5, <1>6 DEF L

\* The refresh of the preloads, with the threads that started; the part of
\* RequestedComes that is about preloads, and PreloadedOnce.
LEMMA PreloadsRefreshed ==
  ASSUME RIInv, NEW dirty, NEW up \in Startable(NewPreloads(dirty)),
         PreloadsRefresh(dirty, up), UNCHANGED fired
  PROVE  /\ pre' \in [started : SUBSET Links, outstanding : Nat, structure : Nat]
         /\ early' \in [running : SUBSET Links, done : Seq(Links)]
         /\ PreloadedOnce'
         /\ NewPreloads(dirty) \ up = {}
              /\ pre.outstanding = Cardinality(early.running) + Len(early.done)
              => pre'.outstanding = Cardinality(early'.running) + Len(early'.done)
<1> DEFINE new == NewPreloads(dirty)
<1>1. new \in SUBSET (Links \ pre.started)
  BY PreloadsKnown DEF NewPreloads
<1>2. up = new \/ up = {}
  BY DEF Startable
<1>3. IsFiniteSet(new) /\ Cardinality(new) \in Nat
  BY <1>1, NodesFinite
<1>4. /\ pre' = [started |-> pre.started \cup new,
                 outstanding |-> pre.outstanding + Cardinality(new),
                 structure |-> dom.structure]
      /\ early' = [early EXCEPT !.running = @ \cup up]
      /\ dom.structure \in Nat
      /\ early \in [running : SUBSET Links, done : Seq(Links)]
  BY DEF PreloadsRefresh, RIInv, ResourcesTyped
<1> HIDE DEF new
<1>5. /\ pre'.started = pre.started \cup new
      /\ pre'.outstanding = pre.outstanding + Cardinality(new)
      /\ early'.running = early.running \cup up /\ early'.done = early.done
      /\ pre' \in [started : SUBSET Links, outstanding : Nat, structure : Nat]
      /\ early' \in [running : SUBSET Links, done : Seq(Links)]
  <2>1. /\ pre.started \cup new \in SUBSET Links
        /\ pre.outstanding + Cardinality(new) \in Nat
        /\ early.running \cup up \in SUBSET Links
    BY <1>1, <1>2, <1>3, PreloadedFacts
  <2>2. /\ pre' \in [started : SUBSET Links, outstanding : Nat, structure : Nat]
        /\ pre'.started = pre.started \cup new
        /\ pre'.outstanding = pre.outstanding + Cardinality(new)
    BY <1>4, <2>1
  <2>3. early' = [running |-> early.running \cup up, done |-> early.done]
    BY <1>4
  <2> QED
    BY <2>1, <2>2, <2>3, PreloadedFacts
<1>6. /\ early.running \subseteq pre.started
      /\ \A i \in 1..Len(early.done) :
           /\ early.done[i] \in pre.started \ early.running /\ fired[early.done[i]] = 0
           /\ \A j \in 1..Len(early.done) : early.done[i] = early.done[j] => i = j
      /\ \A m \in Links : /\ fired[m] <= 1
                          /\ m \in early.running \/ m \notin pre.started => fired[m] = 0
  BY DEF RIInv, PreloadedOnce
<1>7. PreloadedOnce'
  BY <1>1, <1>2, <1>5, <1>6 DEF PreloadedOnce
<1>8. ASSUME new \ up = {} PROVE Cardinality(early'.running) = Cardinality(early.running) + Cardinality(new)
  <2>1. up = new
    BY <1>2, <1>8
  <2>2. early.running \cap new = {}
    BY <1>1, <1>6
  <2>3. /\ Cardinality(early.running \cup new)
             = Cardinality(early.running) + Cardinality(new) - Cardinality(early.running \cap new)
        /\ Cardinality(early.running) \in Nat
    BY <1>3, PreloadedFacts, FS_Union
  <2>4. Cardinality(early.running \cap new) = 0
    BY <2>2, FS_EmptySet
  <2> QED
    BY <1>3, <1>5, <2>1, <2>3, <2>4
<1>9. Cardinality(early.running) \in Nat /\ Len(early.done) \in Nat
  BY PreloadedFacts
<1>10. new \ up = {} /\ pre.outstanding = Cardinality(early.running) + Len(early.done)
         => pre'.outstanding = Cardinality(early'.running) + Len(early'.done)
  BY <1>3, <1>5, <1>8, <1>9
<1> QED
  BY <1>5, <1>7, <1>10 DEF new

\* The build ends: the scripts' marks are dropped and remembered.
LEMMA EndBuildKeeps == ASSUME RIInv, EndBuild PROVE RIInv'
<1>1. PICK up \in Startable(NewPreloads({})) :
        /\ PreloadsRefresh({}, up)
        /\ faults' = faults \cup {"thread" : n \in NewPreloads({}) \ up}
  BY DEF EndBuild
<1>2. /\ phase = "build" /\ phase' = "idle" /\ due' = TRUE
      /\ missed' = [missed EXCEPT !.build = dom.dirty \cap Nodes]
      /\ dom' = [dom EXCEPT !.dirty = {}]
      /\ UNCHANGED <<doc, sheets, fetches, cssom, built, fired>>
  BY DEF EndBuild
<1>3. /\ pre' \in [started : SUBSET Links, outstanding : Nat, structure : Nat]
      /\ early' \in [running : SUBSET Links, done : Seq(Links)]
      /\ PreloadedOnce'
      /\ NewPreloads({}) \ up = {} /\ pre.outstanding = Cardinality(early.running) + Len(early.done)
           => pre'.outstanding = Cardinality(early'.running) + Len(early'.done)
  BY <1>1, <1>2, PreloadsRefreshed
<1>4. /\ missed' \in [build : SUBSET Nodes, event : SUBSET Nodes]
      /\ missed'.build = dom.dirty \cap Nodes /\ missed'.event = missed.event
      /\ dom' \in [structure : Nat, gen : Nat, dirty : SUBSET Nodes]
      /\ dom'.structure = dom.structure /\ dom'.gen = dom.gen /\ dom'.dirty = {}
  BY <1>2 DEF RIInv, ResourcesTyped
<1>5. /\ faults \subseteq faults' /\ ("twice" \in faults' <=> "twice" \in faults)
      /\ faults' \subseteq {"thread", "twice"}
      /\ "thread" \notin faults' => NewPreloads({}) \ up = {} /\ "thread" \notin faults
  BY <1>1 DEF RIInv, ResourcesTyped
<1>6. ResourcesTyped' /\ CountersBehind'
  <2>1. ResourcesTyped'
    BY <1>2, <1>3, <1>4, <1>5 DEF RIInv, ResourcesTyped, Phases
  <2> QED
    BY <1>2, <1>4, <2>1 DEF RIInv, CountersBehind
<1>7. SourcesInv'
  <2>1. missed.build \cup missed.event = {} /\ ChangesAreNoticed
    BY <1>2 DEF RIInv, SourcesInv
  <2>2. ChangesAreNoticed'
    <3>1. CASE dom.dirty \cap Nodes # {}
      BY <1>4, <3>1 DEF ChangesAreNoticed
    <3>2. CASE dom.dirty \cap Nodes = {}
      BY <1>2, <1>4, <2>1, <3>2 DEF ChangesAreNoticed, Noticed
    <3> QED
      BY <3>1, <3>2
  <2> QED
    BY <1>2, <2>2 DEF RIInv, SourcesInv
<1>8. CascadeReadsSet' /\ FetchedOnce'
  <2>1. CascadeReadsSet'
    BY <1>2, <1>5 DEF RIInv, CascadeReadsSet
  <2>2. \A u : Answered(u)' <=> Answered(u)
    BY <1>2 DEF Answered
  <2> QED
    BY <1>2, <1>5, <2>1, <2>2 DEF RIInv, FetchedOnce
<1>9. RequestedComes'
  BY <1>2, <1>3, <1>5 DEF RIInv, RequestedComes, Answered
<1> QED
  BY <1>3, <1>6, <1>7, <1>8, <1>9 DEF RIInv

-----------------------------------------------------------------------------
(***************************************************************************)
(* What a tick collects and drains.                                        *)
(***************************************************************************)
\* Reading texts again changes no owner and no address.
LEMMA RereadKnown ==
  ASSUME doc \in Documents, NEW q, SourcesKnown(q, doc)
  PROVE  /\ SourcesKnown(Reread(q), doc) /\ Len(Reread(q)) = Len(q) /\ DOMAIN Reread(q) = 1..Len(q)
         /\ Reread(q) = [i \in 1..Len(q) |-> Reread(q)[i]]
         /\ Len(q) \in Nat
         /\ \A i \in 1..Len(q) : /\ q[i] \in SourceSet /\ Reread(q)[i] \in SourceSet
                                 /\ Reread(q)[i].owner = q[i].owner /\ Reread(q)[i].url = q[i].url
                                 /\ dom.gen # sheets.gen => Reread(q)[i].text = doc.text[q[i].owner]
<1>1. /\ q \in Seq(SourceSet) /\ Len(q) \in Nat /\ Len(q) <= MaxSources /\ DOMAIN q = 1..Len(q)
      /\ q = [i \in 1..Len(q) |-> q[i]]
      /\ \A i \in 1..Len(q) : q[i] \in SourceSet
      /\ \A i \in 1..Len(q) : q[i].owner \in Links => q[i].url \in Urls /\ q[i].text = doc.text[q[i].owner]
  BY SeqElements DEF SourcesKnown
<1>2. CASE dom.gen = sheets.gen
  BY <1>1, <1>2 DEF Reread, SourcesKnown
<1>3. CASE dom.gen # sheets.gen
  <2> DEFINE new(i) == IF q[i].owner \in Styles
                         THEN [q[i] EXCEPT !.text = doc.text[q[i].owner]] ELSE q[i]
  <2>1. Reread(q) = [i \in 1..Len(q) |-> new(i)]
    BY <1>3 DEF Reread
  <2>2. ASSUME NEW i \in 1..Len(q)
        PROVE  /\ new(i) \in SourceSet /\ new(i).owner = q[i].owner /\ new(i).url = q[i].url
               /\ new(i).text = doc.text[q[i].owner]
    <3>1. q[i] \in SourceSet /\ q[i].owner \in Nodes
      BY <1>1 DEF SourceSet
    <3>2. doc.text[q[i].owner] \in 0..1
      BY <3>1 DEF Documents
    <3>3. CASE q[i].owner \in Styles
      BY <3>1, <3>2, <3>3 DEF SourceSet
    <3>4. CASE q[i].owner \notin Styles
      BY <1>1, <3>1, <3>4 DEF Styles
    <3> QED
      BY <3>3, <3>4
  <2> HIDE DEF new
  <2>3. /\ Len(Reread(q)) = Len(q) /\ DOMAIN Reread(q) = 1..Len(q)
        /\ \A i \in 1..Len(q) : Reread(q)[i] = new(i)
        /\ Reread(q) \in Seq(SourceSet)
        /\ Reread(q) = [i \in 1..Len(q) |-> Reread(q)[i]]
    BY <1>1, <2>1, <2>2
  <2> QED
    BY <1>1, <2>2, <2>3 DEF SourcesKnown
<1> QED
  BY <1>2, <1>3

\* A listed source has the text of its element.
LEMMA ListedTexts ==
  ASSUME NEW d \in Documents, NEW i \in 1..Len(Listed(d))
  PROVE  Listed(d)[i].text = d.text[Listed(d)[i].owner]
<1>1. Listed(d)[i] = SourceOf(d, Found(d)[i])
  BY ListedFacts
<1> QED
  BY <1>1 DEF SourceOf

\* Sources that name the listed elements and addresses, with the texts of the
\* document, are the listed ones.
LEMMA SourcesEqual ==
  ASSUME NEW p, NEW q, Len(p) = Len(q),
         p = [i \in 1..Len(p) |-> p[i]], q = [i \in 1..Len(q) |-> q[i]],
         \A i \in 1..Len(q) : p[i] \in SourceSet /\ q[i] \in SourceSet,
         \A i \in 1..Len(q) : p[i].owner = q[i].owner /\ p[i].url = q[i].url /\ p[i].text = q[i].text
  PROVE  p = q
<1>1. \A i \in 1..Len(q) : p[i] = q[i]
  BY DEF SourceSet
<1> QED
  BY <1>1

\* Sources just collected are up to date.
LEMMA RereadListed ==
  ASSUME doc \in Documents PROVE Reread(Listed(doc)) = Listed(doc)
<1> DEFINE q == Listed(doc)
<1>1. SourcesKnown(q, doc) /\ q = [i \in 1..Len(q) |-> q[i]]
  BY ListedKnown, ListedFacts
<1>2. \A i \in 1..Len(q) : q[i].text = doc.text[q[i].owner]
  BY ListedTexts
<1> HIDE DEF q
<1>3. CASE dom.gen = sheets.gen
  BY <1>3 DEF Reread, q
<1>4. CASE dom.gen # sheets.gen
  <2>1. /\ Len(Reread(q)) = Len(q) /\ Reread(q) = [i \in 1..Len(q) |-> Reread(q)[i]]
        /\ \A i \in 1..Len(q) : /\ q[i] \in SourceSet /\ Reread(q)[i] \in SourceSet
                                /\ Reread(q)[i].owner = q[i].owner /\ Reread(q)[i].url = q[i].url
                                /\ Reread(q)[i].text = doc.text[q[i].owner]
    BY <1>1, <1>4, RereadKnown
  <2>2. Reread(q) = q
    BY <1>1, <1>2, <2>1, SourcesEqual
  <2> QED
    BY <2>2 DEF q
<1> QED
  BY <1>3, <1>4

\* The sources of the next tick are those of the document, unless a mark was
\* drained missed and nothing moved or was marked since.
LEMMA Collected ==
  ASSUME RIInv
  PROVE  LET sources == Reread(Collect(dom.dirty)) IN
         /\ SourcesKnown(sources, doc)
         /\ \/ sources = Listed(doc)
            \/ /\ missed.build \cup missed.event # {}
               /\ ~(dom.structure # sheets.structure \/ Marked(dom.dirty))
<1> DEFINE q == sheets.sources
           sources == Reread(Collect(dom.dirty))
<1>1. doc \in Documents /\ SourcesKnown(q, doc) /\ ChangesAreNoticed /\ q \in Seq(SourceSet)
  BY DEF RIInv, ResourcesTyped, SourcesInv, SourcesKnown
<1>2. SourcesKnown(Listed(doc), doc)
  BY <1>1, ListedKnown
<1>3. SourcesKnown(Collect(dom.dirty), doc)
  BY <1>1, <1>2 DEF Collect
<1>4. SourcesKnown(sources, doc)
  BY <1>1, <1>3, RereadKnown
<1>5. CASE dom.structure # sheets.structure \/ Marked(dom.dirty)
  <2>1. Collect(dom.dirty) = Listed(doc)
    BY <1>5 DEF Collect
  <2> QED
    BY <1>1, <1>4, <2>1, RereadListed
<1>6. CASE ~(dom.structure # sheets.structure \/ Marked(dom.dirty))
  <2>1. Collect(dom.dirty) = q
    BY <1>6 DEF Collect
  <2>2. CASE q = Listed(doc)
    BY <1>1, <1>4, <2>1, <2>2, RereadListed
  <2>3. CASE Noticed
    <3>1. dom.gen # sheets.gen /\ Listed(Unread(doc)) = WithoutText(q)
      BY <1>6, <2>3 DEF Noticed, Unread, WithoutText, Marked
    <3>2. WithoutText(Listed(doc)) = WithoutText(q)
      BY <1>1, <3>1, ListedUnread
    <3> DEFINE p == Listed(doc)
    <3>3. /\ p = [i \in 1..Len(p) |-> p[i]] /\ p \in Seq(SourceSet)
          /\ \A i \in 1..Len(p) : p[i].text = doc.text[p[i].owner]
      BY <1>1, <1>2, ListedFacts, ListedTexts DEF SourcesKnown
    <3> HIDE DEF p, q
    <3>4. Len(p) \in Nat /\ Len(q) \in Nat /\ \A i \in 1..Len(p) : p[i] \in SourceSet
      BY <1>1, <3>3, SeqElements
    <3>5. Len(p) = Len(q)
      <4>1. DOMAIN WithoutText(p) = 1..Len(p) /\ DOMAIN WithoutText(q) = 1..Len(q)
        BY DEF WithoutText
      <4>2. 1..Len(p) = 1..Len(q)
        BY <3>2, <4>1 DEF p
      <4> QED
        BY <3>4, <4>2
    <3>6. \A i \in 1..Len(q) : [p[i] EXCEPT !.text = 0] = [q[i] EXCEPT !.text = 0]
      <4>1. \A i \in 1..Len(q) : WithoutText(p)[i] = [p[i] EXCEPT !.text = 0]
                                 /\ WithoutText(q)[i] = [q[i] EXCEPT !.text = 0]
        BY <3>5 DEF WithoutText
      <4> QED
        BY <3>2, <4>1 DEF p
    <3>7. /\ Len(Reread(q)) = Len(q) /\ Reread(q) = [i \in 1..Len(q) |-> Reread(q)[i]]
          /\ \A i \in 1..Len(q) : /\ q[i] \in SourceSet /\ Reread(q)[i] \in SourceSet
                                  /\ Reread(q)[i].owner = q[i].owner /\ Reread(q)[i].url = q[i].url
                                  /\ Reread(q)[i].text = doc.text[q[i].owner]
      BY <1>1, <3>1, RereadKnown
    <3>8. \A i \in 1..Len(q) : p[i].owner = q[i].owner /\ p[i].url = q[i].url
      BY <3>4, <3>5, <3>6, <3>7 DEF SourceSet
    <3>9. \A i \in 1..Len(q) : p[i].text = doc.text[q[i].owner]
      BY <3>3, <3>5, <3>8
    <3>10. \A i \in 1..Len(Reread(q)) :
             /\ p[i] \in SourceSet /\ Reread(q)[i] \in SourceSet
             /\ p[i].owner = Reread(q)[i].owner /\ p[i].url = Reread(q)[i].url
             /\ p[i].text = Reread(q)[i].text
      BY <3>4, <3>5, <3>7, <3>8, <3>9
    <3>11. /\ Len(p) = Len(Reread(q))
           /\ Reread(q) = [i \in 1..Len(Reread(q)) |-> Reread(q)[i]]
      BY <3>5, <3>7
    <3>12. p = Reread(q)
      BY <3>3, <3>10, <3>11, SourcesEqual
    <3> QED
      BY <1>4, <2>1, <3>12 DEF p
  <2>4. CASE missed.build \cup missed.event # {}
    BY <1>4, <1>6, <2>4
  <2> QED
    BY <1>1, <2>2, <2>3, <2>4 DEF ChangesAreNoticed
<1> QED
  BY <1>5, <1>6

\* The bodies after the completions were drained.
LEMMA Drained ==
  ASSUME RIInv
  PROVE  /\ BodiesNow \in [Urls -> Bodies]
         /\ \A u \in Urls : ~Answered(u) => BodiesNow[u] = sheets.bodies[u]
         /\ \A u \in Urls : Answered(u) => BodiesNow[u] # "none"
         /\ \A u \in Urls : Answered(u) /\ ~Landed => BodiesNow[u] = "empty"
<1> DEFINE from(u) == {i \in DOMAIN fetches.done : fetches.done[i].url = u}
           body(u) == IF from(u) = {} THEN sheets.bodies[u]
                      ELSE IF fetches.done[Max(from(u))].ok THEN "held" ELSE "empty"
<1>1. /\ DOMAIN fetches.done = 1..Len(fetches.done) /\ Len(fetches.done) \in Nat
      /\ sheets.bodies \in [Urls -> Bodies]
  BY SeqElements DEF RIInv, ResourcesTyped
<1>2. BodiesNow = [u \in Urls |-> body(u)]
  BY DEF BodiesNow
<1>3. \A u : Answered(u) <=> from(u) # {}
  BY <1>1 DEF Answered
<1>4. ASSUME NEW u, from(u) # {} PROVE Max(from(u)) \in from(u)
  <2> DEFINE n == Len(fetches.done)
             S == from(u)
             T == {n - i : i \in S}
  <2>1. S \subseteq 1..n /\ S # {} /\ n \in Nat
    BY <1>1, <1>4
  <2> HIDE DEF S, n
  <2>2. T \in SUBSET Nat /\ T # {}
    <3>1. \A i \in S : n - i \in Nat
      <4> SUFFICES ASSUME NEW i \in S PROVE n - i \in Nat
        OBVIOUS
      <4>1. i \in 1..n
        BY <2>1
      <4> QED
        BY <2>1, <4>1
    <3> QED
      BY <2>1, <3>1
  <2>3. PICK m \in T : \A k \in T : m <= k
    BY <2>2, NatMin
  <2>4. PICK x \in S : m = n - x
    BY <2>3
  <2>5. \A y \in S : x >= y
    <3> SUFFICES ASSUME NEW y \in S PROVE x >= y
      OBVIOUS
    <3>1. n - x <= n - y
      BY <2>3, <2>4
    <3> QED
      BY <2>1, <3>1
  <2>6. Max(S) \in S
    BY <2>5 DEF Max
  <2> QED
    BY <2>6 DEF S
<1>5. ASSUME NEW u, from(u) # {}, ~Landed PROVE ~fetches.done[Max(from(u))].ok
  BY <1>1, <1>4, <1>5 DEF Landed
<1> HIDE DEF from
<1>6. \A u \in Urls : BodiesNow[u] = body(u) /\ body(u) \in Bodies
  BY <1>1, <1>2 DEF Bodies
<1>7. BodiesNow \in [Urls -> Bodies]
  BY <1>2, <1>6
<1> QED
  BY <1>3, <1>5, <1>6, <1>7

-----------------------------------------------------------------------------
(***************************************************************************)
(* The tick, and the theorems.                                             *)
(***************************************************************************)
\* The rest of a tick, with the sources it collects, the threads it can start.
LEMMA FinishTickStep ==
  ASSUME RIInv, FinishTick
  PROVE  \E sources, up, us :
           LET asked == {u \in Urls : Asking(sources, u) # {}} IN
           /\ sources = Reread(Collect(dom.dirty))
           /\ up \in Startable(NewPreloads(dom.dirty)) /\ us \in Startable(asked)
           /\ PreloadsRefresh(dom.dirty, up)
           /\ SheetsRefresh(sources, us)
           /\ faults' = faults \cup {"thread" : n \in NewPreloads(dom.dirty) \ up}
                            \cup {"thread" : u \in asked \ us}
                            \cup {"twice" : u \in {v \in us : fetches'.running[v] > 1}}
BY DEF FinishTick

\* An address is asked for by the sources that name it, if no one did before.
LEMMA AskingFacts ==
  ASSUME RIInv, NEW q, SourcesKnown(q, doc), NEW u \in Urls
  PROVE  /\ IsFiniteSet(Asking(q, u)) /\ Cardinality(Asking(q, u)) \in Nat
         /\ Asking(q, u) # {} => Cardinality(Asking(q, u)) >= 1
         /\ Asking(q, u) # {} <=> u \notin sheets.requested /\ u \in LinkUrls(q)
<1>1. q \in Seq(SourceSet) /\ Len(q) \in Nat
  BY SeqElements DEF SourcesKnown
<1>2. IsFiniteSet(1..Len(q)) /\ Asking(q, u) \subseteq 1..Len(q)
  BY <1>1, FS_Interval DEF Asking
<1>3. IsFiniteSet(Asking(q, u)) /\ Cardinality(Asking(q, u)) \in Nat
  BY <1>2, FS_Subset, FS_CardinalityType
<1>4. Cardinality(Asking(q, u)) = 0 <=> Asking(q, u) = {}
  BY <1>3, FS_EmptySet
<1>5. Asking(q, u) # {} <=> u \notin sheets.requested /\ u \in LinkUrls(q)
  BY ListedUrls DEF Asking
<1> QED
  BY <1>3, <1>4, <1>5

\* The refresh of the sheets: what was asked for has one thread, one answer or
\* one body, unless two threads of an address were started.
LEMMA SheetsRefreshed ==
  ASSUME RIInv, NEW sources, SourcesKnown(sources, doc),
         NEW us \in Startable({u \in Urls : Asking(sources, u) # {}}),
         SheetsRefresh(sources, us), faults \subseteq faults',
         (\E v \in us : fetches'.running[v] > 1) => "twice" \in faults'
  PROVE  /\ sheets' \in [sources : Seq(SourceSet), bodies : [Urls -> Bodies],
                         requested : SUBSET Urls, structure : Nat, gen : Nat]
         /\ fetches' \in [running : [Urls -> Nat], done : Seq([url : Urls, ok : BOOLEAN])]
         /\ FetchedOnce'
         /\ "thread" \notin faults /\ {u \in Urls : Asking(sources, u) # {}} \subseteq us =>
              \A u \in sheets'.requested : sheets'.bodies[u] = "none" => fetches'.running[u] > 0 \/ Answered(u)'
<1> DEFINE asked == {u \in Urls : Asking(sources, u) # {}}
           more(u) == IF u \in us THEN Cardinality(Asking(sources, u)) ELSE 0
<1>1. /\ sheets' = [sources |-> sources, bodies |-> BodiesNow,
                    requested |-> sheets.requested \cup LinkUrls(sources),
                    structure |-> dom.structure, gen |-> dom.gen]
      /\ fetches' = [running |-> [u \in Urls |-> fetches.running[u] + more(u)], done |-> << >>]
  BY DEF SheetsRefresh
<1>2. /\ sources \in Seq(SourceSet) /\ LinkUrls(sources) \subseteq Urls
      /\ dom.structure \in Nat /\ dom.gen \in Nat /\ sheets.requested \subseteq Urls
      /\ fetches.running \in [Urls -> Nat]
  BY ListedUrls DEF SourcesKnown, RIInv, ResourcesTyped
<1>3. us = asked \/ us = {}
  BY DEF Startable
<1>4. /\ asked \subseteq Urls
      /\ \A u \in Urls : u \in asked <=> u \notin sheets.requested /\ u \in LinkUrls(sources)
      /\ \A u \in Urls : more(u) \in Nat /\ (u \in us => more(u) >= 1) /\ (u \notin us => more(u) = 0)
  <2>1. \A u \in Urls : u \in asked => Cardinality(Asking(sources, u)) >= 1
    BY AskingFacts
  <2> QED
    BY <1>3, <2>1, AskingFacts
<1> HIDE DEF more, asked
<1>5. /\ sheets'.sources = sources /\ sheets'.bodies = BodiesNow
      /\ sheets'.requested = sheets.requested \cup LinkUrls(sources)
      /\ sheets' \in [sources : Seq(SourceSet), bodies : [Urls -> Bodies],
                      requested : SUBSET Urls, structure : Nat, gen : Nat]
  BY <1>1, <1>2, Drained
<1>6. /\ \A u \in Urls : fetches'.running[u] = fetches.running[u] + more(u)
                         /\ fetches.running[u] \in Nat /\ more(u) \in Nat
      /\ fetches'.done = << >> /\ Len(fetches'.done) = 0
      /\ fetches' \in [running : [Urls -> Nat], done : Seq([url : Urls, ok : BOOLEAN])]
  BY <1>1, <1>2, <1>4
<1>7. \A u : ~Answered(u)'
  BY <1>6 DEF Answered
<1>8. \A u \in Urls : /\ ~Answered(u) => BodiesNow[u] = sheets.bodies[u]
                      /\ Answered(u) => BodiesNow[u] # "none"
  BY Drained
<1>9. FetchedOnce'
  <2> SUFFICES ASSUME "twice" \notin faults', NEW u \in Urls
               PROVE  /\ u \notin sheets'.requested => sheets'.bodies[u] = "none" /\ fetches'.running[u] = 0
                      /\ fetches'.running[u] <= 1
                      /\ fetches'.running[u] = 1 => sheets'.bodies[u] = "none"
    BY <1>6, <1>7 DEF FetchedOnce
  <2>1. /\ u \notin sheets.requested => sheets.bodies[u] = "none" /\ fetches.running[u] = 0 /\ ~Answered(u)
        /\ fetches.running[u] <= 1
        /\ fetches.running[u] = 1 => sheets.bodies[u] = "none" /\ ~Answered(u)
    BY DEF RIInv, FetchedOnce
  <2>2. u \in us => ~(fetches'.running[u] > 1)
    OBVIOUS
  <2>3. CASE u \in us
    <3>1. u \notin sheets.requested /\ u \in LinkUrls(sources)
      BY <1>3, <1>4, <2>3
    <3>2. u \in sheets'.requested /\ sheets'.bodies[u] = "none"
      BY <1>5, <1>8, <2>1, <3>1
    <3>3. fetches'.running[u] <= 1
      BY <1>6, <2>2, <2>3
    <3> QED
      BY <3>2, <3>3
  <2>4. CASE u \notin us
    <3>1. fetches'.running[u] = fetches.running[u]
      BY <1>4, <1>6, <2>4
    <3> QED
      BY <1>5, <1>8, <2>1, <3>1
  <2> QED
    BY <2>3, <2>4
<1>10. ASSUME "thread" \notin faults, asked \subseteq us, NEW u \in sheets'.requested, sheets'.bodies[u] = "none"
       PROVE  fetches'.running[u] > 0
  <2>1. u \in Urls
    BY <1>2, <1>5, <1>10
  <2>2. CASE u \in sheets.requested
    <3>1. sheets.bodies[u] = "none" => fetches.running[u] > 0 \/ Answered(u)
      BY <1>10, <2>2 DEF RIInv, RequestedComes
    <3>2. ~Answered(u) /\ sheets.bodies[u] = "none"
      BY <1>5, <1>8, <1>10, <2>1
    <3> QED
      BY <1>6, <2>1, <3>1, <3>2
  <2>3. CASE u \notin sheets.requested
    <3>1. u \in us
      BY <1>4, <1>5, <1>10, <2>1, <2>3
    <3> QED
      BY <1>4, <1>6, <2>1, <3>1
  <2> QED
    BY <2>2, <2>3
<1> QED
  BY <1>5, <1>6, <1>9, <1>10 DEF asked

\* The cascade after the tick.
LEMMA Rebuilt ==
  ASSUME RIInv, NEW sources, SourcesKnown(sources, doc), Rebuild,
         sheets'.sources = sources, sheets'.bodies = BodiesNow, faults \subseteq faults'
  PROVE  /\ cssom' \in [sheets : Seq(SheetSet), gen : Nat] /\ cssom'.gen = cssom.gen
         /\ built'.gen \in Nat /\ built'.gen <= cssom'.gen
         /\ CascadeReadsSet'
<1> DEFINE changed == Landed \/ sources # sheets.sources
           live == LiveSheets(sources, BodiesNow)
<1>1. /\ cssom' = IF changed THEN [cssom EXCEPT !.sheets = live] ELSE cssom
      /\ built' = IF changed \/ cssom.gen # built.gen
                    THEN [sheets |-> ActiveSheets(cssom'.sheets), gen |-> cssom.gen]
                    ELSE built
  BY DEF Rebuild
<1>2. live \in Seq(SheetSet) /\ Plain(live) = live
  BY LiveSheetsFacts DEF SourcesKnown
<1>3. /\ cssom \in [sheets : Seq(SheetSet), gen : Nat] /\ cssom.gen \in Nat
      /\ built.gen \in Nat /\ built.gen <= cssom.gen
  BY DEF RIInv, ResourcesTyped, CountersBehind
<1>4. /\ built.sheets # ActiveSheets(cssom.sheets) => cssom.gen # built.gen
      /\ "twice" \in faults \/ Plain(cssom.sheets) = LiveSheets(sheets.sources, sheets.bodies)
  BY DEF RIInv, CascadeReadsSet, Plain
<1>5. ~changed /\ "twice" \notin faults => LiveSheets(sheets.sources, sheets.bodies) = live
  <2> SUFFICES ASSUME ~changed, "twice" \notin faults
               PROVE  LiveSheets(sheets.sources, sheets.bodies) = live
    OBVIOUS
  <2>1. sources = sheets.sources /\ ~Landed
    OBVIOUS
  <2>2. \A u \in Urls : sheets.bodies[u] = "held" <=> BodiesNow[u] = "held"
    <3>1. \A u \in Urls : Answered(u) => sheets.bodies[u] = "none"
      BY DEF RIInv, FetchedOnce
    <3> QED
      BY <2>1, <3>1, Drained
  <2>3. \A i \in 1..Len(sources) : sources[i].owner \in Links => sources[i].url \in Urls
    BY SeqElements DEF SourcesKnown
  <2>4. \A i \in 1..Len(sources) : sources[i].owner \in Links =>
           (sheets.bodies[sources[i].url] = "held" <=> BodiesNow[sources[i].url] = "held")
    BY <2>2, <2>3
  <2>5. LiveSheets(sources, sheets.bodies) = LiveSheets(sources, BodiesNow)
    BY <2>4, LiveSheetsSame
  <2> QED
    BY <2>1, <2>5
<1> HIDE DEF changed, live
<1>6. /\ cssom'.gen = cssom.gen /\ cssom'.sheets = (IF changed THEN live ELSE cssom.sheets)
      /\ cssom' \in [sheets : Seq(SheetSet), gen : Nat]
  BY <1>1, <1>2, <1>3
<1>7. "twice" \in faults' \/ Plain(cssom'.sheets) = live
  BY <1>2, <1>4, <1>5, <1>6
<1>8. /\ built'.sheets # ActiveSheets(cssom'.sheets) => cssom'.gen # built'.gen
      /\ built'.gen \in Nat /\ built'.gen <= cssom'.gen
  <2>1. CASE changed \/ cssom.gen # built.gen
    <3>1. built' = [sheets |-> ActiveSheets(cssom'.sheets), gen |-> cssom.gen]
      BY <1>1, <2>1
    <3> QED
      BY <1>3, <1>6, <3>1
  <2>2. CASE ~(changed \/ cssom.gen # built.gen)
    <3>1. built' = built /\ cssom' = cssom
      BY <1>1, <2>2
    <3> QED
      BY <1>3, <1>4, <3>1
  <2> QED
    BY <2>1, <2>2
<1>9. CascadeReadsSet'
  BY <1>7, <1>8 DEF CascadeReadsSet, Plain, live
<1> QED
  BY <1>6, <1>8, <1>9

\* The tick.
LEMMA FinishTickKeeps == ASSUME RIInv, FinishTick PROVE RIInv'
<1>1. PICK sources, up, us :
        LET asked == {u \in Urls : Asking(sources, u) # {}} IN
        /\ sources = Reread(Collect(dom.dirty))
        /\ up \in Startable(NewPreloads(dom.dirty)) /\ us \in Startable(asked)
        /\ PreloadsRefresh(dom.dirty, up)
        /\ SheetsRefresh(sources, us)
        /\ faults' = faults \cup {"thread" : n \in NewPreloads(dom.dirty) \ up}
                         \cup {"thread" : u \in asked \ us}
                         \cup {"twice" : u \in {v \in us : fetches'.running[v] > 1}}
  BY FinishTickStep
<1> DEFINE asked == {u \in Urls : Asking(sources, u) # {}}
           new == NewPreloads(dom.dirty)
           moved == dom.structure # sheets.structure \/ Marked(dom.dirty)
<1>2. /\ phase' = "idle" /\ Rebuild
      /\ dom' = [dom EXCEPT !.dirty = {}]
      /\ missed' = IF moved THEN [build |-> {}, event |-> {}] ELSE missed
      /\ UNCHANGED <<doc, due, fired>>
  BY DEF FinishTick
<1>3. /\ faults \subseteq faults' /\ faults' \subseteq {"thread", "twice"}
      /\ (\E v \in us : fetches'.running[v] > 1) => "twice" \in faults'
      /\ "thread" \notin faults' => "thread" \notin faults /\ asked \subseteq us /\ new \ up = {}
  <2>1. faults \subseteq {"thread", "twice"}
    BY DEF RIInv, ResourcesTyped
  <2> QED
    BY <1>1, <2>1
<1>4. /\ SourcesKnown(sources, doc)
      /\ sources = Listed(doc) \/ (missed.build \cup missed.event # {} /\ ~moved)
  BY <1>1, Collected
<1>5. /\ pre' \in [started : SUBSET Links, outstanding : Nat, structure : Nat]
      /\ early' \in [running : SUBSET Links, done : Seq(Links)]
      /\ PreloadedOnce'
      /\ new \ up = {} /\ pre.outstanding = Cardinality(early.running) + Len(early.done)
           => pre'.outstanding = Cardinality(early'.running) + Len(early'.done)
  BY <1>1, <1>2, PreloadsRefreshed
<1>6. us \in Startable(asked) /\ SheetsRefresh(sources, us)
  BY <1>1
<1>7. /\ sheets' \in [sources : Seq(SourceSet), bodies : [Urls -> Bodies],
                      requested : SUBSET Urls, structure : Nat, gen : Nat]
      /\ fetches' \in [running : [Urls -> Nat], done : Seq([url : Urls, ok : BOOLEAN])]
      /\ FetchedOnce'
      /\ "thread" \notin faults /\ asked \subseteq us =>
           \A u \in sheets'.requested : sheets'.bodies[u] = "none" => fetches'.running[u] > 0 \/ Answered(u)'
  BY <1>3, <1>4, <1>6, SheetsRefreshed
<1>8. /\ sheets'.sources = sources /\ sheets'.bodies = BodiesNow
      /\ sheets'.structure = dom.structure /\ sheets'.gen = dom.gen
  BY <1>6 DEF SheetsRefresh
<1>9. /\ cssom' \in [sheets : Seq(SheetSet), gen : Nat] /\ cssom'.gen = cssom.gen
      /\ built'.gen \in Nat /\ built'.gen <= cssom'.gen
      /\ CascadeReadsSet'
  BY <1>2, <1>3, <1>4, <1>8, Rebuilt
<1>10. /\ dom' \in [structure : Nat, gen : Nat, dirty : SUBSET Nodes]
       /\ dom'.structure = dom.structure /\ dom'.gen = dom.gen
       /\ dom.structure \in Nat /\ dom.gen \in Nat
       /\ missed' \in [build : SUBSET Nodes, event : SUBSET Nodes]
  <2>1. /\ missed \in [build : SUBSET Nodes, event : SUBSET Nodes]
        /\ dom \in [structure : Nat, gen : Nat, dirty : SUBSET Nodes]
    BY DEF RIInv, ResourcesTyped
  <2>2. [build |-> {}, event |-> {}] \in [build : SUBSET Nodes, event : SUBSET Nodes]
    OBVIOUS
  <2> HIDE DEF moved
  <2> QED
    BY <1>2, <2>1, <2>2
<1> HIDE DEF asked, new
<1>11. ResourcesTyped'
  BY <1>2, <1>3, <1>5, <1>7, <1>9, <1>10 DEF RIInv, ResourcesTyped, Phases
<1>12. CountersBehind'
  BY <1>8, <1>9, <1>10 DEF RIInv, CountersBehind
<1>13. SourcesInv'
  <2>1. SourcesKnown(sheets.sources, doc)'
    BY <1>2, <1>4, <1>8 DEF SourcesKnown
  <2>2. ChangesAreNoticed'
    BY <1>2, <1>4, <1>8 DEF ChangesAreNoticed
  <2> QED
    BY <1>2, <2>1, <2>2 DEF SourcesInv
<1>14. RequestedComes'
  <2> SUFFICES ASSUME "thread" \notin faults' PROVE
         /\ pre'.outstanding = Cardinality(early'.running) + Len(early'.done)
         /\ \A u \in sheets'.requested :
              sheets'.bodies[u] = "none" => fetches'.running[u] > 0 \/ Answered(u)'
    BY DEF RequestedComes
  <2>1. "thread" \notin faults /\ asked \subseteq us /\ new \ up = {}
    BY <1>3
  <2>2. pre.outstanding = Cardinality(early.running) + Len(early.done)
    BY <2>1 DEF RIInv, RequestedComes
  <2> QED
    BY <1>5, <1>7, <2>1, <2>2
<1> QED
  BY <1>5, <1>7, <1>9, <1>11, <1>12, <1>13, <1>14 DEF RIInv

-----------------------------------------------------------------------------
\* Every step keeps the invariant.
LEMMA ResourcesKept == RIInv /\ [Next]_vars => RIInv'
<1> SUFFICES ASSUME RIInv, [Next]_vars PROVE RIInv'
  OBVIOUS
<1>1. CASE EditTree
  BY <1>1, EditTreeKeeps
<1>2. CASE EditLink
  BY <1>2, EditLinkKeeps
<1>3. CASE EditStyleText
  BY <1>3, EditStyleTextKeeps
<1>4. CASE Splice
  BY <1>4, SpliceKeeps
<1>5. CASE StartTick \/ CallbacksThrow \/ StartEvent
  BY <1>5, QuietStepsKeep
<1>6. CASE DispatchPreload
  BY <1>6, DispatchPreloadKeeps
<1>7. CASE FinishTick
  BY <1>7, FinishTickKeeps
<1>8. CASE EndBuild
  BY <1>8, EndBuildKeeps
<1>9. CASE EndEvent
  BY <1>9, EndEventKeeps
<1>10. ASSUME NEW u \in Urls, SheetArrives(u) PROVE RIInv'
  BY <1>10, SheetArrivesKeeps
<1>11. ASSUME NEW n \in Links, PreloadArrives(n) PROVE RIInv'
  BY <1>11, PreloadArrivesKeeps
<1>12. CASE UNCHANGED vars
  <2>1. UNCHANGED <<doc, dom, sheets, pre, cssom, built, phase, due, missed, fired, fetches, early, faults>>
    BY <1>12 DEF vars, threadVars
  <2>2. ResourcesTyped' /\ CountersBehind'
    BY <2>1 DEF RIInv, ResourcesTyped, CountersBehind
  <2>3. SourcesInv'
    BY <2>1 DEF RIInv, SourcesInv, ChangesAreNoticed, Noticed
  <2>4. CascadeReadsSet' /\ FetchedOnce' /\ RequestedComes' /\ PreloadedOnce'
    BY <2>1, FetchesKept, CascadeKept
  <2> QED
    BY <2>2, <2>3, <2>4 DEF RIInv
<1> QED
  BY <1>1, <1>2, <1>3, <1>4, <1>5, <1>6, <1>7, <1>8, <1>9, <1>10, <1>11, <1>12
  DEF Next, Script, Tick, Drains, Returns, Arrival

\* What the runs check follows from the invariant.
LEMMA ResourcesImplied == RIInv => ResourcesInv /\ ChangesAreNoticed
<1> SUFFICES ASSUME RIInv PROVE ResourcesInv /\ ChangesAreNoticed
  OBVIOUS
<1>1. ResourcesTypeOK
  <2>1. ResourcesTyped /\ CountersBehind /\ Len(sheets.sources) <= MaxSources /\ MaxEdits \in Nat
    BY ResourcesAssumption DEF RIInv, SourcesInv, SourcesKnown
  <2>2. dom.structure \in 0..MaxEdits /\ dom.gen \in 0..MaxEdits
    <3>1. /\ dom.structure \in Nat /\ dom.gen \in Nat /\ cssom.gen \in Nat
          /\ dom.structure <= dom.gen /\ dom.gen + cssom.gen <= MaxEdits
      BY <2>1 DEF ResourcesTyped, CountersBehind
    <3> QED
      BY <2>1, <3>1
  <2> QED
    BY <2>1, <2>2 DEF ResourcesTyped, ResourcesTypeOK
<1>2. PollingAwaits
  BY DEF RIInv, RequestedComes, PollingAwaits, Answered
<1>3. HeardAtMostOnce
  BY DEF RIInv, PreloadedOnce, HeardAtMostOnce
<1> QED
  BY <1>1, <1>2, <1>3 DEF RIInv, SourcesInv, ResourcesInv

\* Whatever script does to the elements and the CSSOM, in whatever order fetches
\* end and however many of them fail to start: the cascade is that of the set,
\* the set holds the sheets of its sources, a preload is answered once, and the
\* window polls only for what comes (ResourcesInv).
THEOREM ResourcesSafe == Spec => []ResourcesInv
<1>1. RIInv => ResourcesInv
  BY ResourcesImplied
<1> QED
  BY ResourcesStart, ResourcesKept, <1>1, PTL DEF Spec

\* The set lists what the document lists, or the next tick will notice, or a
\* mark was drained by the page build or an event's repaint
\* (StyleSheetSet::refresh).
THEOREM ResourcesNoticed == Spec => []ChangesAreNoticed
<1>1. RIInv => ChangesAreNoticed
  BY ResourcesImplied
<1> QED
  BY ResourcesStart, ResourcesKept, <1>1, PTL DEF Spec

=============================================================================
