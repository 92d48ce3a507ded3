------------------------------ MODULE ListFacts ------------------------------
(***************************************************************************)
(* Facts about lists the proofs of several components rest on: minimum and *)
(* induction over the numbers, what Retain keeps, and that InOrder lays    *)
(* out every finite set an order is total on.                              *)
(***************************************************************************)
EXTENDS Lists, Integers, FiniteSetTheorems, SequenceTheorems, WellFoundedInduction, TLAPS

\* What a sequence is made of, and what Append, Head and Tail make of it.
LEMMA SeqElements ==
  ASSUME NEW M, NEW q \in Seq(M)
  PROVE  DOMAIN q = 1..Len(q) /\ Len(q) \in Nat /\ \A i \in DOMAIN q : q[i] \in M
OBVIOUS

LEMMA HeadAndTail ==
  ASSUME NEW M, NEW q \in Seq(M), q # << >>
  PROVE  /\ Len(q) \in Nat \ {0} /\ Head(q) = q[1] /\ q[1] \in M /\ 1 \in DOMAIN q
         /\ Tail(q) \in Seq(M) /\ Len(Tail(q)) = Len(q) - 1
         /\ DOMAIN Tail(q) = 1..(Len(q) - 1)
         /\ \A k \in DOMAIN Tail(q) : Tail(q)[k] = q[k + 1] /\ k + 1 \in DOMAIN q
         /\ \A k \in DOMAIN q : k = 1 \/ (k - 1 \in DOMAIN Tail(q) /\ Tail(q)[k - 1] = q[k])
<1>1. Len(q) \in Nat \ {0} /\ Head(q) = q[1] /\ q[1] \in M /\ DOMAIN q = 1..Len(q)
  OBVIOUS
<1>2. Tail(q) \in Seq(M) /\ Len(Tail(q)) = Len(q) - 1
  BY <1>1
<1>3. DOMAIN Tail(q) = 1..(Len(q) - 1)
  BY <1>2
<1>4. \A k \in DOMAIN Tail(q) : Tail(q)[k] = q[k + 1] /\ k + 1 \in DOMAIN q
  BY <1>1, <1>3
<1>5. \A k \in DOMAIN q : k = 1 \/ (k - 1 \in DOMAIN Tail(q) /\ Tail(q)[k - 1] = q[k])
  <2> SUFFICES ASSUME NEW k \in DOMAIN q, k # 1
               PROVE  k - 1 \in DOMAIN Tail(q) /\ Tail(q)[k - 1] = q[k]
    OBVIOUS
  <2>1. k - 1 \in DOMAIN Tail(q) /\ (k - 1) + 1 = k
    BY <1>1, <1>3
  <2> QED
    BY <1>4, <2>1
<1> QED
  BY <1>1, <1>2, <1>3, <1>4, <1>5

LEMMA AppendElements ==
  ASSUME NEW M, NEW q \in Seq(M), NEW e \in M
  PROVE  /\ Append(q, e) \in Seq(M) /\ Len(q) \in Nat /\ DOMAIN q = 1..Len(q)
         /\ DOMAIN Append(q, e) = 1..(Len(q) + 1)
         /\ Append(q, e)[Len(q) + 1] = e
         /\ \A i \in DOMAIN q : i \in DOMAIN Append(q, e) /\ Append(q, e)[i] = q[i] /\ i # Len(q) + 1
         /\ \A i \in DOMAIN Append(q, e) : i \in DOMAIN q \/ i = Len(q) + 1
OBVIOUS

\* A set of numbers has a least one, and so a set that holds 0 and is closed
\* under successor holds them all.
LEMMA NatMin ==
  ASSUME NEW T \in SUBSET Nat, T # {}
  PROVE  \E m \in T : \A k \in T : m <= k
<1>1. PICK m \in T : \A k \in T : ~ (<<k, m>> \in OpToRel(<, Nat))
  BY WFMin, NatLessThanWellFounded, Zenon
<1>2. \A k \in T : ~(k < m)
  BY <1>1 DEF OpToRel
<1> QED
  BY <1>2

LEMMA NatInductiveSet ==
  ASSUME NEW T, 0 \in T, \A n \in Nat : n \in T => n + 1 \in T
  PROVE  Nat \subseteq T
<1> SUFFICES ASSUME Nat \ T # {} PROVE FALSE
  OBVIOUS
<1>1. PICK m \in Nat \ T : \A k \in Nat \ T : m <= k
  BY NatMin
<1>2. m # 0 /\ m - 1 \in Nat /\ m - 1 \in T
  BY <1>1
<1> QED
  BY <1>1, <1>2

\* g[i] is what Retain keeps of the first i messages.
Steps(q, S, n, g) ==
  /\ g[0] = << >>
  /\ \A i \in 1..n : g[i] = IF q[i] \in S THEN Append(g[i - 1], q[i]) ELSE g[i - 1]

\* The recursion of Retain has a solution.
LEMMA StepsExist ==
  ASSUME NEW M, NEW q \in Seq(M), NEW S
  PROVE  \E g \in [0..Len(q) -> Seq(M)] : Steps(q, S, Len(q), g)
<1> DEFINE T == {n \in Nat : n <= Len(q) => \E g \in [0..n -> Seq(M)] : Steps(q, S, n, g)}
<1>1. 0 \in T
  <2> DEFINE g == [i \in 0..0 |-> << >>]
  <2>1. g \in [0..0 -> Seq(M)] /\ Steps(q, S, 0, g)
    BY DEF Steps
  <2> QED
    BY <2>1
<1>2. ASSUME NEW n \in Nat, n \in T PROVE n + 1 \in T
  <2> SUFFICES ASSUME n + 1 <= Len(q)
               PROVE  \E g \in [0..(n + 1) -> Seq(M)] : Steps(q, S, n + 1, g)
    OBVIOUS
  <2>1. PICK g \in [0..n -> Seq(M)] : Steps(q, S, n, g)
    BY <1>2
  <2> DEFINE e == IF q[n + 1] \in S THEN Append(g[n], q[n + 1]) ELSE g[n]
             h == [i \in 0..(n + 1) |-> IF i = n + 1 THEN e ELSE g[i]]
  <2>2. e \in Seq(M)
    BY <2>1
  <2> HIDE DEF e
  <2>3. h \in [0..(n + 1) -> Seq(M)]
    BY <2>1, <2>2
  <2>4. h[0] = << >> /\ h[n + 1] = e /\ \A i \in 0..n : h[i] = g[i]
    BY <2>1 DEF Steps
  <2> HIDE DEF h
  <2>5. Steps(q, S, n + 1, h)
    <3>1. ASSUME NEW i \in 1..n
          PROVE  h[i] = IF q[i] \in S THEN Append(h[i - 1], q[i]) ELSE h[i - 1]
      <4>1. i \in 0..n /\ i - 1 \in 0..n
        OBVIOUS
      <4>2. h[i] = g[i] /\ h[i - 1] = g[i - 1]
        BY <2>4, <4>1
      <4>3. g[i] = IF q[i] \in S THEN Append(g[i - 1], q[i]) ELSE g[i - 1]
        BY <2>1 DEF Steps
      <4> QED
        BY <4>2, <4>3, Zenon
    <3>2. h[n + 1] = IF q[n + 1] \in S THEN Append(h[(n + 1) - 1], q[n + 1]) ELSE h[(n + 1) - 1]
      BY <2>4 DEF e
    <3> QED
      BY <2>4, <3>1, <3>2 DEF Steps
  <2> QED
    BY <2>3, <2>5
<1> HIDE DEF T
<1>3. Len(q) \in T
  BY <1>1, <1>2, NatInductiveSet
<1> QED
  BY <1>3 DEF T

\* So Retain is the last step of one.
LEMMA RetainSteps ==
  ASSUME NEW M, NEW q \in Seq(M), NEW S
  PROVE  \E g \in [0..Len(q) -> Seq(M)] :
           Steps(q, S, Len(q), g) /\ Retain(q, S) = g[Len(q)]
<1> DEFINE Of(g) == [i \in 0..Len(q) |->
             IF i = 0 THEN << >>
             ELSE IF q[i] \in S THEN Append(g[i - 1], q[i]) ELSE g[i - 1]]
           g == CHOOSE f : f = Of(f)
<1>1. Retain(q, S) = g[Len(q)]
  BY DEF Retain
<1>2. PICK f \in [0..Len(q) -> Seq(M)] : Steps(q, S, Len(q), f)
  BY StepsExist
<1>3. f = Of(f)
  <2>1. ASSUME NEW i \in 0..Len(q) PROVE f[i] = Of(f)[i]
    <3>1. Of(f)[i] = IF i = 0 THEN << >>
                     ELSE IF q[i] \in S THEN Append(f[i - 1], q[i]) ELSE f[i - 1]
      BY Zenon
    <3> HIDE DEF Of
    <3>2. CASE i = 0
      BY <1>2, <3>1, <3>2 DEF Steps
    <3>3. CASE i \in 1..Len(q)
      <4>1. f[i] = IF q[i] \in S THEN Append(f[i - 1], q[i]) ELSE f[i - 1]
        BY <1>2, <3>3 DEF Steps
      <4>2. i # 0
        BY <3>3
      <4> QED
        BY <3>1, <4>1, <4>2
    <3> QED
      BY <3>2, <3>3
  <2>2. DOMAIN f = 0..Len(q) /\ f = [i \in DOMAIN f |-> f[i]]
    OBVIOUS
  <2>3. DOMAIN Of(f) = 0..Len(q) /\ Of(f) = [i \in DOMAIN Of(f) |-> Of(f)[i]]
    BY Zenon
  <2> HIDE DEF Of
  <2>4. [i \in 0..Len(q) |-> f[i]] = [i \in 0..Len(q) |-> Of(f)[i]]
    BY <2>1, Zenon
  <2> QED
    BY <2>2, <2>3, <2>4, Zenon
<1>4. g = Of(g)
  BY <1>3, Zenon
<1> HIDE DEF g
<1>5. /\ g[0] = << >>
      /\ \A i \in 1..Len(q) : g[i] = IF q[i] \in S THEN Append(g[i - 1], q[i]) ELSE g[i - 1]
  <2>1. \A i \in 0..Len(q) : g[i] = Of(g)[i]
    BY <1>4
  <2> QED
    BY <2>1
<1>6. Steps(q, S, Len(q), g)
  BY <1>5 DEF Steps
<1>7. g \in [0..Len(q) -> Seq(M)]
  <2> DEFINE T == {n \in Nat : n <= Len(q) => g[n] \in Seq(M)}
  <2>1. 0 \in T
    BY <1>5, EmptySeq
  <2>2. ASSUME NEW n \in Nat, n \in T PROVE n + 1 \in T
    <3> SUFFICES ASSUME n + 1 <= Len(q) PROVE g[n + 1] \in Seq(M)
      OBVIOUS
    <3>1. g[n] \in Seq(M) /\ n + 1 \in 1..Len(q) /\ (n + 1) - 1 = n /\ q[n + 1] \in M
      BY <2>2
    <3>2. g[n + 1] = IF q[n + 1] \in S THEN Append(g[n], q[n + 1]) ELSE g[n]
      BY <1>5, <3>1
    <3> QED
      BY <3>1, <3>2
  <2>3. Nat \subseteq T
    BY <2>1, <2>2, NatInductiveSet
  <2>4. \A i \in 0..Len(q) : g[i] \in Seq(M)
    BY <2>3
  <2>5. Of(g) = [i \in 0..Len(q) |-> Of(g)[i]]
    BY Zenon
  <2> HIDE DEF Of
  <2>6. g = [i \in 0..Len(q) |-> g[i]]
    BY <1>4, <2>5, Zenon
  <2> QED
    BY <2>4, <2>6
<1> QED
  BY <1>1, <1>6, <1>7
LEMMA StepsUnique ==
  ASSUME NEW q, NEW S, NEW n \in Nat, NEW g, NEW h, Steps(q, S, n, g), Steps(q, S, n, h)
  PROVE  g[n] = h[n]
<1> DEFINE T == {m \in Nat : m <= n => g[m] = h[m]}
<1>1. 0 \in T
  BY DEF Steps
<1>2. ASSUME NEW m \in Nat, m \in T PROVE m + 1 \in T
  <2> SUFFICES ASSUME m + 1 <= n PROVE g[m + 1] = h[m + 1]
    OBVIOUS
  <2>1. g[m] = h[m] /\ m + 1 \in 1..n /\ (m + 1) - 1 = m
    BY <1>2
  <2>2. g[m + 1] = IF q[m + 1] \in S THEN Append(g[m], q[m + 1]) ELSE g[m]
    BY <2>1 DEF Steps
  <2>3. h[m + 1] = IF q[m + 1] \in S THEN Append(h[m], q[m + 1]) ELSE h[m]
    BY <2>1 DEF Steps
  <2> QED
    BY <2>1, <2>2, <2>3
<1> HIDE DEF T
<1>3. n \in T
  BY <1>1, <1>2, NatInductiveSet
<1> QED
  BY <1>3 DEF T

-----------------------------------------------------------------------------
(***************************************************************************)
(* What Retain keeps.                                                      *)
(***************************************************************************)
LEMMA RetainEmpty == ASSUME NEW S PROVE Retain(<< >>, S) = << >>
<1>1. PICK g \in [0..Len(<< >>) -> Seq({})] :
        Steps(<< >>, S, Len(<< >>), g) /\ Retain(<< >>, S) = g[Len(<< >>)]
  BY RetainSteps, EmptySeq
<1> QED
  BY <1>1, EmptySeq DEF Steps

LEMMA RetainType ==
  ASSUME NEW M, NEW q \in Seq(M), NEW S
  PROVE  Retain(q, S) \in Seq(M)
BY RetainSteps

LEMMA RetainAppend ==
  ASSUME NEW M, NEW q \in Seq(M), NEW e \in M, NEW S
  PROVE  Retain(Append(q, e), S) = IF e \in S THEN Append(Retain(q, S), e) ELSE Retain(q, S)
<1> DEFINE n == Len(q)
           p == Append(q, e)
<1>1. /\ p \in Seq(M) /\ Len(p) = n + 1 /\ n \in Nat
      /\ p[n + 1] = e /\ \A i \in 1..n : p[i] = q[i]
  OBVIOUS
<1> HIDE DEF p, n
<1>2. PICK g \in [0..(n + 1) -> Seq(M)] : Steps(p, S, n + 1, g) /\ Retain(p, S) = g[n + 1]
  <2>1. \E g \in [0..Len(p) -> Seq(M)] : Steps(p, S, Len(p), g) /\ Retain(p, S) = g[Len(p)]
    BY <1>1, RetainSteps
  <2> QED
    BY <1>1, <2>1
<1>3. PICK h \in [0..n -> Seq(M)] : Steps(q, S, n, h) /\ Retain(q, S) = h[n]
  BY RetainSteps DEF n
<1>4. Steps(q, S, n, g)
  <2>1. ASSUME NEW i \in 1..n
        PROVE  g[i] = IF q[i] \in S THEN Append(g[i - 1], q[i]) ELSE g[i - 1]
    <3>1. i \in 1..(n + 1) /\ p[i] = q[i]
      BY <1>1
    <3> QED
      BY <1>2, <3>1 DEF Steps
  <2> QED
    BY <1>2, <2>1 DEF Steps
<1>5. g[n] = h[n]
  BY <1>1, <1>3, <1>4, StepsUnique
<1>6. n + 1 \in 1..(n + 1) /\ (n + 1) - 1 = n
  BY <1>1
<1>7. g[n + 1] = IF p[n + 1] \in S THEN Append(g[n], p[n + 1]) ELSE g[n]
  BY <1>2, <1>6 DEF Steps
<1>8. Retain(p, S) = IF e \in S THEN Append(Retain(q, S), e) ELSE Retain(q, S)
  BY <1>1, <1>2, <1>3, <1>5, <1>7
<1> QED
  BY <1>8 DEF p

\* at[j] is the place in q of the j-th element of r: the places rise, and no
\* element of S is left out.
Embeds(r, q, n, S, at) ==
  /\ at \in [1..Len(r) -> 1..n]
  /\ \A j, k \in 1..Len(r) : j < k => at[j] < at[k]
  /\ \A j \in 1..Len(r) : r[j] = q[at[j]] /\ r[j] \in S
  /\ \A i \in 1..n : q[i] \in S => \E j \in 1..Len(r) : at[j] = i

LEMMA RetainEmbeds ==
  ASSUME NEW M, NEW q \in Seq(M), NEW S
  PROVE  \E at : Embeds(Retain(q, S), q, Len(q), S, at)
<1>1. PICK g \in [0..Len(q) -> Seq(M)] : Steps(q, S, Len(q), g) /\ Retain(q, S) = g[Len(q)]
  BY RetainSteps
<1> DEFINE T == {n \in Nat : n <= Len(q) => \E at : Embeds(g[n], q, n, S, at)}
<1>2. 0 \in T
  <2>1. g[0] = << >>
    BY <1>1 DEF Steps
  <2>2. Embeds(<< >>, q, 0, S, [j \in 1..0 |-> 0])
    BY DEF Embeds
  <2> QED
    BY <2>1, <2>2
<1>3. ASSUME NEW n \in Nat, n \in T PROVE n + 1 \in T
  <2> SUFFICES ASSUME n + 1 <= Len(q) PROVE \E at : Embeds(g[n + 1], q, n + 1, S, at)
    OBVIOUS
  <2>1. PICK at : Embeds(g[n], q, n, S, at)
    BY <1>3
  <2>2. n + 1 \in 1..Len(q) /\ (n + 1) - 1 = n /\ g[n] \in Seq(M) /\ q[n + 1] \in M
    OBVIOUS
  <2>3. g[n + 1] = IF q[n + 1] \in S THEN Append(g[n], q[n + 1]) ELSE g[n]
    BY <1>1, <2>2 DEF Steps
  <2> DEFINE r == g[n]
             l == Len(r)
  <2>4. r \in Seq(M) /\ l \in Nat
    BY <2>2
  <2>5. CASE q[n + 1] \notin S
    <3>1. g[n + 1] = r
      BY <2>3, <2>5
    <3>2. Embeds(r, q, n + 1, S, at)
      <4>1. at \in [1..l -> 1..(n + 1)]
        BY <2>1 DEF Embeds
      <4>2. ASSUME NEW i \in 1..(n + 1), q[i] \in S PROVE \E j \in 1..l : at[j] = i
        <5>1. i \in 1..n
          BY <2>5, <4>2
        <5> QED
          BY <2>1, <4>2, <5>1 DEF Embeds
      <4> QED
        BY <2>1, <4>1, <4>2 DEF Embeds
    <3> QED
      BY <3>1, <3>2
  <2>6. CASE q[n + 1] \in S
    <3> DEFINE s == Append(r, q[n + 1])
               to == [j \in 1..(l + 1) |-> IF j = l + 1 THEN n + 1 ELSE at[j]]
    <3>1. g[n + 1] = s
      BY <2>3, <2>6
    <3>2. Len(s) = l + 1 /\ s[l + 1] = q[n + 1] /\ \A j \in 1..l : s[j] = r[j]
      BY <2>2, <2>4
    <3>3. to[l + 1] = n + 1 /\ \A j \in 1..l : to[j] = at[j] /\ at[j] \in 1..n
      BY <2>1, <2>4 DEF Embeds
    <3>4. to \in [1..(l + 1) -> 1..(n + 1)]
      BY <2>1, <2>4 DEF Embeds
    <3> HIDE DEF s, to, l, r
    <3>5. \A j, k \in 1..(l + 1) : j < k => to[j] < to[k]
      <4>1. ASSUME NEW j \in 1..(l + 1), NEW k \in 1..(l + 1), j < k PROVE to[j] < to[k]
        <5>1. j \in 1..l
          BY <2>4, <4>1
        <5>2. CASE k = l + 1
          BY <3>3, <5>1, <5>2
        <5>3. CASE k \in 1..l
          BY <2>1, <3>3, <4>1, <5>1, <5>3 DEF Embeds, l, r
        <5> QED
          BY <2>4, <5>2, <5>3
      <4> QED
        BY <4>1
    <3>6. \A j \in 1..(l + 1) : s[j] = q[to[j]] /\ s[j] \in S
      <4>1. \A j \in 1..l : s[j] = q[to[j]] /\ s[j] \in S
        BY <2>1, <3>2, <3>3 DEF Embeds, l, r
      <4>2. \A j \in 1..(l + 1) : j \in 1..l \/ j = l + 1
        BY <2>4
      <4> QED
        BY <2>6, <3>2, <3>3, <4>1, <4>2
    <3>7. \A i \in 1..(n + 1) : q[i] \in S => \E j \in 1..(l + 1) : to[j] = i
      <4>1. ASSUME NEW i \in 1..n, q[i] \in S PROVE \E j \in 1..(l + 1) : to[j] = i
        <5>1. PICK j \in 1..l : at[j] = i
          BY <2>1, <4>1 DEF Embeds, l, r
        <5>2. j \in 1..(l + 1) /\ to[j] = i
          BY <2>4, <3>3, <5>1
        <5> QED
          BY <5>2
      <4>2. l + 1 \in 1..(l + 1)
        BY <2>4
      <4> QED
        BY <3>3, <4>1, <4>2
    <3>8. Embeds(s, q, n + 1, S, to)
      BY <3>2, <3>4, <3>5, <3>6, <3>7 DEF Embeds
    <3> QED
      BY <3>1, <3>8
  <2> QED
    BY <2>5, <2>6
<1> HIDE DEF T
<1>4. Len(q) \in T
  BY <1>2, <1>3, NatInductiveSet
<1> QED
  BY <1>1, <1>4 DEF T

\* What follows of it when places do not matter.
LEMMA RetainFacts ==
  ASSUME NEW M, NEW q \in Seq(M), NEW S
  PROVE  /\ Retain(q, S) \in Seq(M) /\ Len(Retain(q, S)) <= Len(q)
         /\ \A j \in 1..Len(Retain(q, S)) :
              Retain(q, S)[j] \in S /\ \E i \in 1..Len(q) : Retain(q, S)[j] = q[i]
         /\ \A i \in 1..Len(q) : q[i] \in S =>
              \E j \in 1..Len(Retain(q, S)) : Retain(q, S)[j] = q[i]
<1> DEFINE r == Retain(q, S)
<1>1. PICK at : Embeds(r, q, Len(q), S, at)
  BY RetainEmbeds
<1>2. r \in Seq(M) /\ Len(r) \in Nat
  BY RetainType
<1> HIDE DEF r
<1>3. Len(r) <= Len(q)
  <2> DEFINE T == {j \in Nat : j \in 1..Len(r) => at[j] >= j}
  <2>1. 0 \in T
    OBVIOUS
  <2>2. ASSUME NEW j \in Nat, j \in T PROVE j + 1 \in T
    <3> SUFFICES ASSUME j + 1 \in 1..Len(r) PROVE at[j + 1] >= j + 1
      OBVIOUS
    <3>1. at[j + 1] \in Nat \ {0}
      BY <1>1 DEF Embeds
    <3>2. CASE j = 0
      BY <3>1, <3>2
    <3>3. CASE j \in 1..Len(r)
      <4>1. at[j] >= j /\ at[j] \in Nat
        BY <1>1, <2>2, <3>3 DEF Embeds
      <4>2. at[j] < at[j + 1]
        BY <1>1, <3>3 DEF Embeds
      <4> QED
        BY <3>1, <4>1, <4>2
    <3> QED
      BY <1>2, <3>2, <3>3
  <2> HIDE DEF T
  <2>3. Nat \subseteq T
    BY <2>1, <2>2, NatInductiveSet
  <2>4. CASE Len(r) # 0
    <3>1. at[Len(r)] >= Len(r) /\ at[Len(r)] \in 1..Len(q)
      BY <1>1, <1>2, <2>3, <2>4 DEF T, Embeds
    <3> QED
      BY <1>2, <3>1
  <2> QED
    BY <1>2, <2>4
<1>4. \A j \in 1..Len(r) : r[j] \in S /\ \E i \in 1..Len(q) : r[j] = q[i]
  BY <1>1 DEF Embeds
<1>5. \A i \in 1..Len(q) : q[i] \in S => \E j \in 1..Len(r) : r[j] = q[i]
  BY <1>1 DEF Embeds
<1> QED
  BY <1>2, <1>3, <1>4, <1>5 DEF r

-----------------------------------------------------------------------------
(***************************************************************************)
(* What InOrder lays out.  R is an order that is strict and total on S.    *)
(***************************************************************************)
StrictOrder(S, R) ==
  /\ \A x \in S : <<x, x>> \notin R
  /\ \A x, y \in S : x # y => <<x, y>> \in R \/ <<y, x>> \in R
  /\ \A x, y, z \in S : <<x, y>> \in R /\ <<y, z>> \in R => <<x, z>> \in R

Rising(list, R) == \A i, j \in DOMAIN list : i < j => <<list[i], list[j]>> \in R

\* A finite set has a last element.
LEMMA LastExists ==
  ASSUME NEW S, IsFiniteSet(S), S # {}, NEW R, StrictOrder(S, R)
  PROVE  \E x \in S : \A y \in S \ {x} : <<y, x>> \in R
<1> DEFINE T == {n \in Nat : \A U \in SUBSET S : Cardinality(U) = n + 1 =>
                   \E x \in U : \A y \in U \ {x} : <<y, x>> \in R}
<1>1. \A U \in SUBSET S : IsFiniteSet(U) /\ Cardinality(U) \in Nat
  BY FS_Subset, FS_CardinalityType
<1>2. 0 \in T
  <2> SUFFICES ASSUME NEW U \in SUBSET S, Cardinality(U) = 1
               PROVE  \E x \in U : \A y \in U \ {x} : <<y, x>> \in R
    OBVIOUS
  <2>1. \E x : U = {x}
    BY <1>1, FS_Singleton
  <2> QED
    BY <2>1
<1>3. ASSUME NEW n \in Nat, n \in T PROVE n + 1 \in T
  <2> SUFFICES ASSUME NEW U \in SUBSET S, Cardinality(U) = (n + 1) + 1
               PROVE  \E x \in U : \A y \in U \ {x} : <<y, x>> \in R
    OBVIOUS
  <2>1. U # {}
    BY FS_EmptySet
  <2>2. PICK u \in U : TRUE
    BY <2>1
  <2>3. Cardinality(U \ {u}) = n + 1
    BY <1>1, <2>2, FS_RemoveElement
  <2>4. PICK x \in U \ {u} : \A y \in (U \ {u}) \ {x} : <<y, x>> \in R
    BY <1>3, <2>3
  <2>5. CASE <<u, x>> \in R
    BY <2>4, <2>5
  <2>6. CASE <<u, x>> \notin R
    <3>1. <<x, u>> \in R
      BY <2>2, <2>4, <2>6 DEF StrictOrder
    <3>2. ASSUME NEW y \in U \ {u} PROVE <<y, u>> \in R
      <4>1. CASE y = x
        BY <3>1, <4>1
      <4>2. CASE y # x
        <5>1. <<y, x>> \in R /\ y \in S /\ x \in S /\ u \in S
          BY <2>2, <2>4, <4>2
        <5> QED
          BY <3>1, <5>1 DEF StrictOrder
      <4> QED
        BY <4>1, <4>2
    <3> QED
      BY <2>2, <3>2
  <2> QED
    BY <2>5, <2>6
<1> HIDE DEF T
<1>4. Nat \subseteq T
  BY <1>2, <1>3, NatInductiveSet
<1>5. Cardinality(S) \in Nat /\ Cardinality(S) # 0
  BY <1>1, FS_EmptySet
<1>6. Cardinality(S) - 1 \in T /\ Cardinality(S) = (Cardinality(S) - 1) + 1
  BY <1>4, <1>5
<1> QED
  BY <1>6 DEF T

\* So it can be laid out in order.
LEMMA RisingExists ==
  ASSUME NEW S, IsFiniteSet(S), NEW R, StrictOrder(S, R)
  PROVE  \E list \in [1..Cardinality(S) -> S] : Rising(list, R)
<1> DEFINE T == {n \in Nat : \A U \in SUBSET S : Cardinality(U) = n =>
                   \E list \in [1..n -> U] : Rising(list, R)}
<1>1. \A U \in SUBSET S : IsFiniteSet(U) /\ Cardinality(U) \in Nat
  BY FS_Subset, FS_CardinalityType
<1>2. 0 \in T
  <2> SUFFICES ASSUME NEW U \in SUBSET S
               PROVE  \E list \in [1..0 -> U] : Rising(list, R)
    OBVIOUS
  <2> DEFINE list == [i \in 1..0 |-> i]
  <2>1. list \in [1..0 -> U] /\ Rising(list, R)
    BY DEF Rising
  <2> QED
    BY <2>1
<1>3. ASSUME NEW n \in Nat, n \in T PROVE n + 1 \in T
  <2> SUFFICES ASSUME NEW U \in SUBSET S, Cardinality(U) = n + 1
               PROVE  \E list \in [1..(n + 1) -> U] : Rising(list, R)
    OBVIOUS
  <2>1. U # {} /\ IsFiniteSet(U)
    BY <1>1, FS_EmptySet
  <2>2. StrictOrder(U, R)
    BY DEF StrictOrder
  <2>3. PICK x \in U : \A y \in U \ {x} : <<y, x>> \in R
    BY <2>1, <2>2, LastExists
  <2>4. Cardinality(U \ {x}) = n
    <3>1. Cardinality(U \ {x}) = Cardinality(U) - 1
      BY <2>1, <2>3, FS_RemoveElement
    <3> QED
      BY <3>1
  <2>5. PICK front \in [1..n -> U \ {x}] : Rising(front, R)
    BY <1>3, <2>4
  <2> DEFINE list == [i \in 1..(n + 1) |-> IF i = n + 1 THEN x ELSE front[i]]
  <2>6. list \in [1..(n + 1) -> U] /\ list[n + 1] = x /\ DOMAIN list = 1..(n + 1)
    BY <2>3, <2>5
  <2>7. \A i \in 1..n : list[i] = front[i]
    BY <2>5
  <2> HIDE DEF list
  <2>8. ASSUME NEW i \in 1..(n + 1), NEW j \in 1..(n + 1), i < j
        PROVE  <<list[i], list[j]>> \in R
    <3>1. i \in 1..n /\ front[i] \in U \ {x}
      BY <2>5, <2>8
    <3>2. CASE j = n + 1
      BY <2>3, <2>6, <2>7, <3>1, <3>2
    <3>3. CASE j \in 1..n
      BY <2>5, <2>7, <2>8, <3>1, <3>3 DEF Rising
    <3> QED
      BY <3>2, <3>3
  <2>9. Rising(list, R)
    BY <2>6, <2>8 DEF Rising
  <2> QED
    BY <2>6, <2>9
<1> HIDE DEF T
<1>4. Cardinality(S) \in T
  BY <1>1, <1>2, <1>3, NatInductiveSet
<1> QED
  BY <1>4 DEF T

\* And a list in order holds every element once.
LEMMA RisingFacts ==
  ASSUME NEW S, IsFiniteSet(S), NEW R, StrictOrder(S, R),
         NEW list \in [1..Cardinality(S) -> S], Rising(list, R)
  PROVE  /\ Cardinality(S) \in Nat
         /\ list \in Seq(S) /\ Len(list) = Cardinality(S)
         /\ \A i, j \in 1..Len(list) : i # j => list[i] # list[j]
         /\ \A x \in S : \E i \in 1..Len(list) : list[i] = x
<1> DEFINE n == Cardinality(S)
<1>1. n \in Nat
  BY FS_CardinalityType
<1> HIDE DEF n
<1>2. list \in Seq(S) /\ Len(list) = n /\ DOMAIN list = 1..n
  BY <1>1 DEF n
<1>3. ASSUME NEW i \in 1..n, NEW j \in 1..n, i # j PROVE list[i] # list[j]
  <2>1. list[i] \in S /\ list[j] \in S
    BY DEF n
  <2>2. i < j \/ j < i
    BY <1>1, <1>3
  <2>3. <<list[i], list[j]>> \in R \/ <<list[j], list[i]>> \in R
    BY <1>2, <2>2 DEF Rising
  <2> QED
    BY <2>1, <2>3 DEF StrictOrder
<1>4. list \in Injection(1..n, S)
  BY <1>3 DEF Injection, IsInjective, n
<1>5. IsFiniteSet(1..n) /\ Cardinality(1..n) = n
  BY <1>1, FS_Interval
<1>6. list \in Surjection(1..n, S)
  BY <1>4, <1>5, FS_Injection DEF n
<1>7. \A x \in S : \E i \in 1..n : list[i] = x
  BY <1>6 DEF Surjection
<1> QED
  BY <1>1, <1>2, <1>3, <1>7 DEF n
=============================================================================
