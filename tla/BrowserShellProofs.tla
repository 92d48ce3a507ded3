--------------------------- MODULE BrowserShellProofs ---------------------------
(***************************************************************************)
(* Proofs about BrowserShell, for every set of addresses, every redirect   *)
(* and every number of navigations and history intents.                    *)
(*                                                                         *)
(* That an older worker's page never lands rests on three things kept by   *)
(* different handlers: start_navigation_worker replaces the channel with   *)
(* the generation, stop_navigation moves the generation past the channel,  *)
(* and handle_browser_wake drops the channel with the result it took.      *)
(* LoadsInv says them together: a channel of the current generation is the *)
(* pending navigation's.                                                   *)
(***************************************************************************)
EXTENDS BrowserShell, WellFoundedInduction, TLAPS

Steps == {"none", "loading", "sent", "woke"}

\* The state of navigation, history and page.
NavTypeOK ==
  /\ page \in [url : Urls, runtime : 0..MaxNavigations]
  /\ history \in Seq(Urls)
  /\ index \in Nat /\ (history = << >> => index = 0)
  /\ (history # << >> => index < Len(history))
  /\ pending \in BOOLEAN /\ gen \in 0..MaxNavigations /\ rx \in 0..Len(loads)
  /\ action \in {NoAction, Push} \cup {MoveTo(i) : i \in 0..Len(history)}
  /\ loads \in Seq([url : Texts, step : Steps, ok : BOOLEAN]) /\ Len(loads) <= gen
  /\ wake \in BOOLEAN /\ status \in Statuses
  /\ wanted \in Texts /\ crossed \in BOOLEAN /\ drift \in BOOLEAN

\* The channel of the current generation belongs to the pending navigation,
\* whose worker loads what was wanted.
LoadsInv ==
  /\ rx # NoChannel /\ rx = gen => pending
  /\ pending => gen # 0 /\ loads[gen].url = wanted /\ wanted \in Urls

\* A pending traversal goes at most one entry beyond the cursor, to an entry
\* that leads where the navigation is wanted, unless it was rewritten.
ActionInv ==
  action.kind = "move" =>
    /\ action.to <= index + 1
    /\ history # << >> /\ ~crossed =>
         action.to < Len(history) /\ Land[wanted] = Land[Entry(action.to)]

KeysTypeOK ==
  /\ bar \in [editing : BOOLEAN, text : Texts, caret : Carets]
  /\ focused \in 0..MaxNavigations

NavInv == NavTypeOK /\ LoadsInv /\ ActionInv /\ LoadingIsAwaited /\ CursorNamesPage
KeysInv == KeysTypeOK /\ KeysHaveOneTaker
ShellIInv == NavInv /\ KeysInv /\ intents \in Seq(Intents)

-----------------------------------------------------------------------------
(***************************************************************************)
(* What the page's history intents leave, drained one after another.       *)
(***************************************************************************)

\* A set of numbers has a least one, and so a set that holds 0 and is closed
\* under successor holds them all.
LEMMA NatMin ==
  ASSUME NEW T \in SUBSET Nat, T # {}
  PROVE  \E m \in T : \A k \in T : m <= k
<1>1. PICK m \in T : \A k \in T : ~ (<<k, m>> \in OpToRel(<, Nat))
  BY WFMin, NatLessThanWellFounded, Zenon
<1>2. \A k \in T : ~(k < m)
  BY <1>1 DEF OpToRel
<1> QED
  BY <1>2

LEMMA NatInductiveSet ==
  ASSUME NEW T, 0 \in T, \A n \in Nat : n \in T => n + 1 \in T
  PROVE  Nat \subseteq T
<1> SUFFICES ASSUME Nat \ T # {} PROVE FALSE
  OBVIOUS
<1>1. PICK m \in Nat \ T : \A k \in Nat \ T : m <= k
  BY NatMin
<1>2. m # 0 /\ m - 1 \in Nat /\ m - 1 \in T
  BY <1>1
<1> QED
  BY <1>1, <1>2

\* A history with its cursor inside, and the address of the page.
Sessions == {s \in [history : Seq(Urls), index : Nat, url : Urls] : s.index < Len(s.history)}

\* What any number n of intents may have made of the session it started from.
Good(s, n) ==
  /\ s \in Sessions /\ index <= s.index
  /\ Len(history) <= Len(s.history) \/ index + 2 <= Len(s.history)
  /\ n = 0 => s = [history |-> history, index |-> index, url |-> page.url]
  /\ n # 0 => s.url = s.history[s.index + 1]

LEMMA AppliedGood ==
  ASSUME NEW n \in Nat, NEW s, Good(s, n), NEW i \in Intents, NavTypeOK
  PROVE  Good(Applied(s, i), n + 1)
<1>1. PICK h \in Seq(Urls), k \in Nat :
        /\ s.history = h /\ s.index = k /\ k < Len(h) /\ index <= k
        /\ Len(history) <= Len(h) \/ index + 2 <= Len(h)
  BY DEF Good, Sessions
<1>2. i.url \in Urls /\ Len(history) \in Nat /\ index \in Nat /\ n + 1 # 0
  BY ShellAssumption DEF Intents, NavTypeOK
<1>3. CASE i.replace
  <2> DEFINE e == [h EXCEPT ![k + 1] = i.url]
  <2>1. e \in Seq(Urls) /\ Len(e) = Len(h) /\ e[k + 1] = i.url
    BY <1>1, <1>2
  <2> HIDE DEF e
  <2>2. Applied(s, i) = [history |-> e, index |-> k, url |-> i.url]
    BY <1>1, <1>3 DEF Applied, e
  <2> QED
    BY <1>1, <1>2, <2>1, <2>2 DEF Good, Sessions
<1>4. CASE ~i.replace
  <2> DEFINE p == SubSeq(h, 1, k + 1)
             e == Append(p, i.url)
  <2>1. p \in Seq(Urls) /\ Len(p) = k + 1
    BY <1>1
  <2> HIDE DEF p
  <2>2. e \in Seq(Urls) /\ Len(e) = k + 2 /\ e[k + 2] = i.url
    BY <1>1, <1>2, <2>1
  <2> HIDE DEF e
  <2>3. Applied(s, i) = [history |-> e, index |-> k + 1, url |-> i.url]
    BY <1>1, <1>4 DEF Applied, e, p
  <2> QED
    BY <1>1, <1>2, <2>2, <2>3 DEF Good, Sessions
<1> QED
  BY <1>3, <1>4

\* g[i] is what the first i intents leave.
Draining(n, g) ==
  /\ g[0] = [history |-> history, index |-> index, url |-> page.url]
  /\ \A i \in 1..n : g[i] = Applied(g[i - 1], intents[i])

LEMMA GoodAtStart ==
  ASSUME NavTypeOK, history # << >>
  PROVE  Good([history |-> history, index |-> index, url |-> page.url], 0)
BY DEF NavTypeOK, Good, Sessions

LEMMA StepsExist ==
  ASSUME NavTypeOK, history # << >>, intents \in Seq(Intents)
  PROVE  \E g : /\ g = [i \in 0..Len(intents) |-> g[i]]
                /\ Draining(Len(intents), g)
                /\ \A i \in 0..Len(intents) : Good(g[i], i)
<1> DEFINE Ok(n, g) == /\ g = [i \in 0..n |-> g[i]] /\ Draining(n, g)
                       /\ \A i \in 0..n : Good(g[i], i)
           T == {n \in Nat : n <= Len(intents) => \E g : Ok(n, g)}
<1>1. 0 \in T
  <2> DEFINE s == [history |-> history, index |-> index, url |-> page.url]
             g == [i \in 0..0 |-> s]
  <2>1. Good(s, 0)
    BY GoodAtStart
  <2> HIDE DEF s
  <2>2. g = [i \in 0..0 |-> g[i]] /\ g[0] = s
    OBVIOUS
  <2>3. Ok(0, g)
    BY <2>1, <2>2 DEF Draining, s
  <2> QED
    BY <2>3
<1>2. ASSUME NEW n \in Nat, n \in T PROVE n + 1 \in T
  <2> SUFFICES ASSUME n + 1 <= Len(intents) PROVE \E g : Ok(n + 1, g)
    OBVIOUS
  <2>1. PICK g : Ok(n, g)
    BY <1>2
  <2> DEFINE e == Applied(g[n], intents[n + 1])
             h == [i \in 0..(n + 1) |-> IF i = n + 1 THEN e ELSE g[i]]
  <2>2. Good(e, n + 1)
    BY <2>1, AppliedGood
  <2> HIDE DEF e
  <2>3. h[n + 1] = e /\ \A i \in 0..n : h[i] = g[i]
    OBVIOUS
  <2>4. h = [i \in 0..(n + 1) |-> h[i]]
    OBVIOUS
  <2> HIDE DEF h
  <2>5. Draining(n + 1, h)
    <3>1. ASSUME NEW i \in 1..n PROVE h[i] = Applied(h[i - 1], intents[i])
      <4>1. h[i] = g[i] /\ h[i - 1] = g[i - 1]
        BY <2>3
      <4>2. g[i] = Applied(g[i - 1], intents[i])
        BY <2>1 DEF Draining
      <4> QED
        BY <4>1, <4>2
    <3>2. h[n + 1] = Applied(h[(n + 1) - 1], intents[n + 1])
      BY <2>3 DEF e
    <3>3. h[0] = g[0]
      BY <2>3
    <3> QED
      BY <2>1, <3>1, <3>2, <3>3 DEF Draining
  <2>6. \A i \in 0..(n + 1) : Good(h[i], i)
    BY <2>1, <2>2, <2>3
  <2> QED
    BY <2>4, <2>5, <2>6
<1> HIDE DEF T
<1>3. Len(intents) \in T
  BY <1>1, <1>2, NatInductiveSet
<1> QED
  BY <1>3 DEF T

\* The tick drains the intents into such a session.
LEMMA DrainedGood ==
  ASSUME NavTypeOK, history # << >>, intents \in Seq(Intents)
  PROVE  Good(Drained, Len(intents))
<1> DEFINE Of(g) == [i \in 0..Len(intents) |->
             IF i = 0 THEN [history |-> history, index |-> index, url |-> page.url]
             ELSE Applied(g[i - 1], intents[i])]
           g == CHOOSE f : f = Of(f)
<1>1. Drained = g[Len(intents)]
  BY DEF Drained
<1>2. PICK f : /\ f = [i \in 0..Len(intents) |-> f[i]]
               /\ Draining(Len(intents), f)
               /\ \A i \in 0..Len(intents) : Good(f[i], i)
  BY StepsExist
<1>3. f = Of(f)
  <2>1. ASSUME NEW i \in 0..Len(intents)
        PROVE  f[i] = IF i = 0 THEN [history |-> history, index |-> index, url |-> page.url]
                      ELSE Applied(f[i - 1], intents[i])
    <3>1. CASE i = 0
      BY <1>2, <3>1, Zenon DEF Draining
    <3>2. CASE i # 0
      <4>1. i \in 1..Len(intents)
        BY <3>2
      <4> QED
        BY <1>2, <3>2, <4>1, Zenon DEF Draining
    <3> QED
      BY <3>1, <3>2
  <2>2. [i \in 0..Len(intents) |-> f[i]] = Of(f)
    BY <2>1, Zenon
  <2> QED
    BY <1>2, <2>2, Zenon
<1>4. g = Of(g)
  BY <1>3, Zenon
<1> HIDE DEF g
<1>5. /\ g[0] = [history |-> history, index |-> index, url |-> page.url]
      /\ \A i \in 1..Len(intents) : g[i] = Applied(g[i - 1], intents[i])
  <2>1. ASSUME NEW i \in 0..Len(intents)
        PROVE  g[i] = IF i = 0 THEN [history |-> history, index |-> index, url |-> page.url]
                      ELSE Applied(g[i - 1], intents[i])
    BY <1>4, Zenon
  <2>2. intents \in Seq(Intents) /\ Len(intents) \in Nat
    OBVIOUS
  <2>3. 0 \in 0..Len(intents) /\ \A i \in 1..Len(intents) : i \in 0..Len(intents) /\ i # 0
    BY <2>2
  <2> QED
    BY <2>1, <2>3, Zenon
<1> DEFINE U == {n \in Nat : n <= Len(intents) => Good(g[n], n)}
<1>6. 0 \in U
  BY <1>5, GoodAtStart
<1>7. ASSUME NEW n \in Nat, n \in U PROVE n + 1 \in U
  <2> SUFFICES ASSUME n + 1 <= Len(intents) PROVE Good(g[n + 1], n + 1)
    OBVIOUS
  <2>1. n + 1 \in 1..Len(intents) /\ (n + 1) - 1 = n /\ intents[n + 1] \in Intents
    OBVIOUS
  <2>2. Good(g[n], n) /\ g[n + 1] = Applied(g[n], intents[n + 1])
    BY <1>5, <1>7, <2>1
  <2> QED
    BY <2>1, <2>2, AppliedGood
<1> HIDE DEF U
<1>8. Len(intents) \in U
  BY <1>6, <1>7, NatInductiveSet
<1> QED
  BY <1>1, <1>8 DEF U

-----------------------------------------------------------------------------
(***************************************************************************)
(* Starting a navigation.                                                  *)
(***************************************************************************)
LEMMA Actions ==
  /\ Push.kind = "push" /\ NoAction.kind = "none" /\ Push # NoAction
  /\ \A i : MoveTo(i).kind = "move" /\ MoveTo(i).to = i /\ MoveTo(i) \notin {Push, NoAction}
BY DEF Push, NoAction, MoveTo

\* What the handlers ask for: a new entry, or an entry beside the cursor with
\* its own address, or the page's address at the cursor.
Target(a, u) ==
  /\ u \in Urls
  /\ \/ a = Push
     \/ \E i \in 0..Len(history) :
          /\ a = MoveTo(i) /\ i <= index + 1
          /\ history # << >> =>
               i < Len(history) /\ (u = Entry(i) \/ (i = index /\ u = page.url))

LEMMA StartFromKeeps ==
  ASSUME NavInv, NEW g \in {gen, gen + 1}, NEW a, NEW u, Target(a, u),
         StartFrom(g, a, u), UNCHANGED pageVars, wake' \in {wake, TRUE}
  PROVE  NavInv'
<1> USE DEF NavInv
<1>1. /\ g \in Nat /\ g + 1 \in 1..MaxNavigations
      /\ gen' = g + 1 /\ pending' = TRUE /\ action' = a /\ rx' = g + 1
      /\ status' = "loading" /\ wanted' = u
      /\ crossed' = (drift /\ a = MoveTo(index))
      /\ page' = page /\ history' = history /\ index' = index /\ drift' = drift
  BY ShellAssumption DEF StartFrom, NavTypeOK, pageVars
<1>2. u \in Urls /\ a # NoAction
  BY Actions DEF Target
<1> DEFINE L(i) == IF i = g + 1 THEN Load(u, "loading")
                   ELSE IF i <= Len(loads) THEN Load(NoUrl, loads[i].step)
                   ELSE Load(NoUrl, "none")
<1>3. loads' = [i \in 1..(g + 1) |-> L(i)]
  BY DEF StartFrom
<1>4. ASSUME NEW i \in 1..(g + 1) PROVE L(i) \in [url : Texts, step : Steps, ok : BOOLEAN]
  <2>1. Load(u, "loading") \in [url : Texts, step : Steps, ok : BOOLEAN]
    BY <1>2 DEF Load, Texts, Steps
  <2>2. Load(NoUrl, "none") \in [url : Texts, step : Steps, ok : BOOLEAN]
    BY DEF Load, Texts, Steps
  <2>3. i <= Len(loads) => Load(NoUrl, loads[i].step) \in [url : Texts, step : Steps, ok : BOOLEAN]
    <3>0. PICK S : S = [url : Texts, step : Steps, ok : BOOLEAN]
      OBVIOUS
    <3>1. i <= Len(loads) => loads[i] \in S
      <4>1. loads \in Seq(S) /\ i \in Nat \ {0}
        BY <1>1, <3>0 DEF NavTypeOK
      <4> QED
        BY <4>1
    <3>2. i <= Len(loads) => loads[i].step \in Steps
      BY <3>0, <3>1
    <3> QED
      BY <3>2 DEF Load, Texts
  <2> QED
    BY <2>1, <2>2, <2>3, Zenon
<1>5. L(g + 1) = Load(u, "loading")
  OBVIOUS
<1> HIDE DEF L
<1>6. /\ loads' \in Seq([url : Texts, step : Steps, ok : BOOLEAN])
      /\ Len(loads') = g + 1 /\ loads'[g + 1] = Load(u, "loading")
  BY <1>1, <1>3, <1>4, <1>5
<1>7. NavTypeOK'
  <2>1. pending' \in BOOLEAN /\ gen' \in 0..MaxNavigations /\ rx' \in 0..Len(loads')
        /\ Len(loads') <= gen'
    BY <1>1, <1>6
  <2>2. wake' \in BOOLEAN /\ crossed' \in BOOLEAN /\ drift' \in BOOLEAN
    BY <1>1, Zenon DEF NavTypeOK
  <2>3. action' \in {NoAction, Push} \cup {MoveTo(i) : i \in 0..Len(history')}
    BY <1>1 DEF Target
  <2>4. status' \in Statuses /\ wanted' \in Texts
    BY <1>1, <1>2 DEF Statuses, Texts
  <2>5. /\ page' \in [url : Urls, runtime : 0..MaxNavigations] /\ history' \in Seq(Urls)
        /\ index' \in Nat /\ (history' = << >> => index' = 0)
        /\ (history' # << >> => index' < Len(history'))
    BY <1>1 DEF NavTypeOK
  <2> QED
    BY <1>6, <2>1, <2>2, <2>3, <2>4, <2>5 DEF NavTypeOK
<1>8. LoadsInv'
  BY <1>1, <1>2, <1>6 DEF LoadsInv, Load
<1>9. LoadingIsAwaited'
  <2>1. pending' = (action' # NoAction)
    BY <1>1, <1>2
  <2>2. loads'[gen'].step = "loading" /\ rx' = gen'
    BY <1>1, <1>6 DEF Load
  <2>3. "loading" # "none" /\ "loading" # "woke"
    OBVIOUS
  <2> QED
    BY <1>1, <2>1, <2>2, <2>3, Zenon DEF LoadingIsAwaited
<1>10. ActionInv'
  <2> SUFFICES ASSUME a.kind = "move"
               PROVE  /\ a.to <= index + 1
                      /\ history # << >> /\ ~crossed' =>
                           a.to < Len(history) /\ Land[u] = Land[Entry(a.to)]
    BY <1>1 DEF ActionInv, Entry
  <2>1. PICK i \in 0..Len(history) :
          /\ a = MoveTo(i) /\ i <= index + 1
          /\ history # << >> =>
               i < Len(history) /\ (u = Entry(i) \/ (i = index /\ u = page.url))
    BY Actions DEF Target
  <2>2. a.to = i
    BY <2>1, Actions
  <2>3. ASSUME history # << >>, ~crossed', u = page.url, i = index
        PROVE  Land[u] = Land[Entry(i)]
    <3>1. ~drift
      BY <1>1, <2>1, <2>3
    <3>2. page.url \in {Entry(index), Land[Entry(index)]} /\ Entry(index) \in Urls
      BY <2>3, <3>1 DEF CursorNamesPage, NavTypeOK, Entry
    <3> QED
      BY <2>3, <3>2, ShellAssumption
  <2> QED
    BY <2>1, <2>2, <2>3
<1>11. CursorNamesPage'
  BY <1>1 DEF CursorNamesPage, Entry
<1> QED
  BY <1>7, <1>8, <1>9, <1>10, <1>11

\* A step that starts nothing and leaves page and history alone.
LEMMA NavStays ==
  ASSUME NavInv, UNCHANGED <<navVars, pageVars>>, wake' \in {wake, TRUE},
         status' \in {status, "message"}, started' = started \/ pending
  PROVE  NavInv'
<1>1. /\ page' = page /\ history' = history /\ index' = index /\ drift' = drift
      /\ pending' = pending /\ action' = action /\ gen' = gen /\ rx' = rx /\ loads' = loads
      /\ wanted' = wanted /\ crossed' = crossed
  BY DEF navVars, pageVars
<1>2. NavTypeOK'
  <2>1. wake' \in BOOLEAN /\ status' \in Statuses
    BY Zenon DEF NavInv, NavTypeOK, Statuses
  <2> QED
    BY <1>1, <2>1 DEF NavInv, NavTypeOK
<1>3. LoadsInv' /\ ActionInv' /\ CursorNamesPage'
  BY <1>1 DEF NavInv, LoadsInv, ActionInv, CursorNamesPage, Entry
<1>4. LoadingIsAwaited'
  <2>1. pending' = (action' # NoAction)
    BY <1>1 DEF NavInv, LoadingIsAwaited
  <2>2. pending' => rx' = gen' /\ loads'[gen'].step # "none"
                    /\ (loads'[gen'].step = "woke" => wake')
    BY <1>1 DEF NavInv, LoadingIsAwaited
  <2>3. started' /\ status' = "loading" => pending'
    BY <1>1 DEF NavInv, LoadingIsAwaited
  <2> QED
    BY <2>1, <2>2, <2>3 DEF LoadingIsAwaited
<1> QED
  BY <1>2, <1>3, <1>4 DEF NavInv

LEMMA StartKeeps ==
  ASSUME NavInv, NEW a, NEW u, Target(a, u), Start(a, u), UNCHANGED pageVars,
         wake' \in {wake, TRUE}
  PROVE  NavInv'
<1>1. CASE pending
  <2>1. UNCHANGED <<navVars, pageVars>> /\ status' = status
    BY <1>1 DEF Start
  <2> QED
    BY <1>1, <2>1, NavStays
<1>2. CASE ~pending
  BY <1>2, StartFromKeeps DEF Start
<1> QED
  BY <1>1, <1>2

\* The taker of the keys, when the page stays.
LEMMA KeysStay ==
  ASSUME NavTypeOK, KeysInv, page' = page,
         bar' \in [editing : BOOLEAN, text : Texts, caret : Carets],
         focused' \in {focused, NoPage, page.runtime},
         focused' # NoPage => ~bar'.editing
  PROVE  KeysInv'
<1>1. focused' \in 0..MaxNavigations
  BY ShellAssumption DEF NavTypeOK, KeysInv, KeysTypeOK, NoPage
<1>2. focused' # NoPage => focused' = page'.runtime
  BY DEF KeysInv, KeysHaveOneTaker
<1> QED
  BY <1>1, <1>2, Zenon DEF KeysInv, KeysTypeOK, KeysHaveOneTaker

LEMMA Bars ==
  /\ Closed \in [editing : BOOLEAN, text : Texts, caret : Carets] /\ ~Closed.editing
  /\ \A t \in Texts, c \in Carets :
       Open(t, c) \in [editing : BOOLEAN, text : Texts, caret : Carets]
BY DEF Closed, Open, Texts, Carets

-----------------------------------------------------------------------------
(***************************************************************************)
(* The input handlers.                                                     *)
(***************************************************************************)
LEMMA Entries ==
  ASSUME NavInv
  PROVE  /\ page.url \in Urls /\ index \in Nat /\ Len(history) \in Nat
         /\ history = << >> => index = 0 /\ Len(history) = 0
         /\ history # << >> => index < Len(history)
         /\ \A i \in 0..(Len(history) - 1) : Entry(i) \in Urls
         /\ BackTarget \cup ForwardTarget \subseteq 0..(Len(history) - 1)
         /\ \A i \in BackTarget \cup ForwardTarget : i <= index + 1 /\ history # << >>
<1>1. /\ page.url \in Urls /\ index \in Nat /\ history \in Seq(Urls)
      /\ history = << >> => index = 0
      /\ history # << >> => index < Len(history)
  BY DEF NavInv, NavTypeOK
<1>2. Len(history) \in Nat /\ (history = << >> <=> Len(history) = 0)
  BY <1>1
<1>3. \A i \in 0..(Len(history) - 1) : Entry(i) \in Urls
  BY <1>1 DEF Entry
<1>4. ASSUME NEW i \in BackTarget \cup ForwardTarget
      PROVE  i \in 0..(Len(history) - 1) /\ i <= index + 1
  BY <1>1, <1>2 DEF BackTarget, ForwardTarget
<1>5. ASSUME NEW i \in BackTarget \cup ForwardTarget PROVE history # << >>
  BY <1>2, <1>4
<1> QED
  BY <1>1, <1>2, <1>3, <1>4, <1>5

LEMMA Targets ==
  ASSUME NavInv
  PROVE  /\ \A u \in Urls : Target(Push, u)
         /\ Target(MoveTo(index), page.url)
         /\ \A i \in BackTarget \cup ForwardTarget : Target(MoveTo(i), Entry(i))
<1>1. Target(MoveTo(index), page.url)
  BY Entries DEF Target
<1>2. ASSUME NEW i \in BackTarget \cup ForwardTarget PROVE Target(MoveTo(i), Entry(i))
  BY Entries DEF Target
<1> QED
  BY <1>1, <1>2 DEF Target

LEMMA FirstPresentKeeps == ASSUME ShellIInv, FirstPresent PROVE ShellIInv'
<1>1. NavInv'
  <2>1. FirstUrl \in Urls
    BY ShellAssumption
  <2> QED
    BY <2>1, Targets, StartKeeps DEF ShellIInv, FirstPresent
<1>2. KeysInv' /\ (intents \in Seq(Intents))'
  <2>1. page' = page /\ bar' = bar /\ focused' = focused /\ intents' = intents
    BY DEF FirstPresent, pageVars
  <2> QED
    BY <2>1 DEF ShellIInv, KeysInv, KeysTypeOK, KeysHaveOneTaker
<1> QED
  BY <1>1, <1>2 DEF ShellIInv

LEMMA StopKeeps == ASSUME ShellIInv, Stop PROVE ShellIInv'
<1> USE DEF ShellIInv
<1>1. /\ gen \in Nat /\ gen + 1 \in 0..MaxNavigations /\ gen' = gen + 1
      /\ pending' = FALSE /\ action' = NoAction /\ status' = "message" /\ wanted' = NoUrl
      /\ rx' = rx /\ loads' = loads /\ crossed' = crossed /\ wake' = wake
      /\ page' = page /\ history' = history /\ index' = index /\ drift' = drift
      /\ intents' = intents /\ started' = started
  BY ShellAssumption DEF Stop, StopNavigation, Untouched, NavInv, NavTypeOK, pageVars
<1>2. NavTypeOK'
  <2>1. pending' \in BOOLEAN /\ crossed' \in BOOLEAN /\ drift' \in BOOLEAN /\ wake' \in BOOLEAN
    BY <1>1, Zenon DEF NavInv, NavTypeOK
  <2>2. status' \in Statuses /\ wanted' \in Texts /\ action' \in {NoAction, Push}
    BY <1>1 DEF Statuses, Texts
  <2>3. /\ loads' \in Seq([url : Texts, step : Steps, ok : BOOLEAN]) /\ Len(loads') <= gen'
        /\ rx' \in 0..Len(loads') /\ gen' \in 0..MaxNavigations
    BY <1>1 DEF NavInv, NavTypeOK
  <2> QED
    BY <1>1, <2>1, <2>2, <2>3 DEF NavInv, NavTypeOK
<1>3. LoadsInv'
  BY <1>1 DEF NavInv, NavTypeOK, LoadsInv
<1>4. ActionInv' /\ LoadingIsAwaited'
  BY <1>1, Actions DEF ActionInv, LoadingIsAwaited
<1>5. CursorNamesPage'
  BY <1>1 DEF NavInv, CursorNamesPage, Entry
<1>6. KeysInv'
  <2>1. \/ UNCHANGED <<focused, bar>>
        \/ focused' = NoPage /\ bar' = Closed
    BY DEF Stop
  <2> QED
    BY <1>1, <2>1, Bars, KeysStay DEF NavInv, KeysInv, KeysTypeOK, KeysHaveOneTaker
<1> QED
  BY <1>1, <1>2, <1>3, <1>4, <1>5, <1>6 DEF NavInv

\* The handlers that start a navigation and take the keys from the page.
LEMMA StartInput ==
  ASSUME ShellIInv, NEW a, NEW u, Target(a, u), Start(a, u), Untouched,
         focused' = NoPage, bar' \in {bar, Closed}
  PROVE  ShellIInv'
<1>1. NavInv'
  BY StartKeeps DEF ShellIInv, Untouched
<1>2. page' = page /\ intents' = intents
  BY DEF Untouched, pageVars
<1>3. KeysInv'
  BY <1>2, Bars, KeysStay DEF ShellIInv, NavInv, KeysInv, KeysTypeOK
<1> QED
  BY <1>1, <1>2, <1>3 DEF ShellIInv

LEMMA StartFromInput ==
  ASSUME ShellIInv, NEW g \in {gen, gen + 1}, NEW a, NEW u, Target(a, u),
         StartFrom(g, a, u), Untouched, focused' = NoPage, bar' \in {bar, Closed}
  PROVE  ShellIInv'
<1>1. NavInv'
  BY StartFromKeeps DEF ShellIInv, Untouched
<1>2. page' = page /\ intents' = intents
  BY DEF Untouched, pageVars
<1>3. KeysInv'
  BY <1>2, Bars, KeysStay DEF ShellIInv, NavInv, KeysInv, KeysTypeOK
<1> QED
  BY <1>1, <1>2, <1>3 DEF ShellIInv

\* The handlers that start none.
LEMMA OtherInput ==
  ASSUME ShellIInv, UNCHANGED <<navVars, pageVars, wake, started>>,
         status' \in {status, "message"}, intents' \in Seq(Intents),
         bar' \in [editing : BOOLEAN, text : Texts, caret : Carets],
         focused' \in {focused, NoPage, page.runtime},
         focused' # NoPage => ~bar'.editing
  PROVE  ShellIInv'
<1>1. NavInv'
  <2>1. started => LoadingIsAwaited
    BY DEF ShellIInv, NavInv
  <2>2. /\ page' = page /\ history' = history /\ index' = index /\ drift' = drift
        /\ pending' = pending /\ action' = action /\ gen' = gen /\ rx' = rx /\ loads' = loads
        /\ wanted' = wanted /\ crossed' = crossed /\ wake' = wake /\ started' = started
    BY DEF navVars, pageVars
  <2>3. NavTypeOK'
    <3>1. status' \in Statuses
      BY DEF ShellIInv, NavInv, NavTypeOK, Statuses
    <3> QED
      BY <2>2, <3>1 DEF ShellIInv, NavInv, NavTypeOK
  <2>4. LoadsInv' /\ ActionInv' /\ CursorNamesPage'
    BY <2>2 DEF ShellIInv, NavInv, LoadsInv, ActionInv, CursorNamesPage, Entry
  <2>5. LoadingIsAwaited'
    BY <2>2 DEF ShellIInv, NavInv, LoadingIsAwaited
  <2> QED
    BY <2>3, <2>4, <2>5 DEF NavInv
<1>2. page' = page
  BY DEF pageVars
<1>3. KeysInv'
  BY <1>2, KeysStay DEF ShellIInv, NavInv
<1> QED
  BY <1>1, <1>3 DEF ShellIInv

LEMMA InputKeeps == ASSUME ShellIInv, Input PROVE ShellIInv'
<1>1. CASE Stop
  BY <1>1, StopKeeps
<1>2. CASE TraverseByKey
  <2>1. PICK i \in BackTarget \cup ForwardTarget :
          focused' = NoPage /\ Start(MoveTo(i), Entry(i)) /\ bar' = bar /\ Untouched
    BY <1>2 DEF TraverseByKey
  <2>2. Target(MoveTo(i), Entry(i))
    BY Targets DEF ShellIInv
  <2> QED
    BY <2>1, <2>2, StartInput
<1>3. CASE ReloadByKey
  BY <1>3, Targets, StartInput DEF ReloadByKey, ShellIInv
<1>4. CASE ChromeButton
  <2>1. PICK a \in {MoveTo(i) : i \in BackTarget \cup ForwardTarget} \cup {MoveTo(index), Push} :
          LET u == IF a = Push THEN HomeUrl
                   ELSE IF a.to = index THEN page.url ELSE Entry(a.to)
          IN /\ focused' = NoPage
             /\ IF pending
                  THEN UNCHANGED <<navVars, status, bar>>
                  ELSE StartFrom(gen, a, u) /\ bar' = Closed
             /\ Untouched
    BY <1>4 DEF ChromeButton
  <2> DEFINE u == IF a = Push THEN HomeUrl
                  ELSE IF a.to = index THEN page.url ELSE Entry(a.to)
  <2>2. Target(a, u)
    <3>1. CASE a = Push
      BY <3>1, ShellAssumption, Targets DEF ShellIInv
    <3>2. CASE a = MoveTo(index)
      BY <3>2, Actions, Targets DEF ShellIInv
    <3>3. ASSUME NEW i \in BackTarget \cup ForwardTarget, a = MoveTo(i) PROVE Target(a, u)
      <4>1. i # index
        BY <3>3, Entries DEF ShellIInv, BackTarget, ForwardTarget
      <4>2. u = Entry(i)
        BY <3>3, <4>1, Actions
      <4> QED
        BY <3>3, <4>2, Targets DEF ShellIInv
    <3> QED
      BY <3>1, <3>2, <3>3
  <2> HIDE DEF u
  <2>3. focused' = NoPage /\ Untouched
    BY <2>1
  <2>4. CASE pending
    <3>1. UNCHANGED <<navVars, status, bar>>
      BY <2>1, <2>4
    <3>2. Start(a, u)
      BY <2>4, <3>1 DEF Start
    <3> QED
      BY <2>2, <2>3, <3>1, <3>2, StartInput
  <2>5. CASE ~pending
    <3>1. StartFrom(gen, a, u) /\ bar' = Closed
      BY <2>1, <2>5 DEF u
    <3> QED
      BY <2>2, <2>3, <3>1, StartFromInput
  <2> QED
    BY <2>4, <2>5
<1>5. CASE FollowLink
  <2>1. PICK u \in Named : bar' = Closed /\ focused' = NoPage /\ Start(Push, u) /\ Untouched
    BY <1>5 DEF FollowLink
  <2>2. Target(Push, u)
    BY ShellAssumption, Targets DEF ShellIInv
  <2> QED
    BY <2>1, <2>2, StartInput
<1>6. CASE ClickPage
  <2>1. /\ bar' = Closed /\ focused' \in {focused, NoPage}
        /\ UNCHANGED <<navVars, pageVars, wake, started>> /\ status' = status
    BY <1>6 DEF ClickPage
  <2>2. intents' \in Seq(Intents)
    BY <1>6 DEF ClickPage, ShellIInv
  <2> QED
    BY <2>1, <2>2, Bars, OtherInput
<1>7. CASE FocusInput
  BY <1>7, Bars, OtherInput DEF FocusInput, Untouched, ShellIInv
<1>8. CASE SubmitForm
  <2>1. CASE \E u \in Named : StartFrom(gen, Push, u) /\ focused' = NoPage /\ bar' = bar
    <3>1. PICK u \in Named : StartFrom(gen, Push, u) /\ focused' = NoPage /\ bar' = bar
      BY <2>1
    <3>2. Target(Push, u) /\ Untouched
      BY <1>8, ShellAssumption, Targets DEF ShellIInv, SubmitForm
    <3> QED
      BY <3>1, <3>2, StartFromInput
  <2>2. CASE status' = "message" /\ UNCHANGED <<navVars, bar, focused>>
    BY <1>8, <2>2, OtherInput
    DEF SubmitForm, Untouched, ShellIInv, KeysInv, KeysTypeOK, KeysHaveOneTaker
  <2> QED
    BY <1>8, <2>1, <2>2 DEF SubmitForm
<1>9. CASE FocusAddress
  <2>1. bar' \in [editing : BOOLEAN, text : Texts, caret : Carets]
    BY <1>9, Bars, Entries DEF FocusAddress, ShellIInv, Texts, Carets
  <2> QED
    BY <1>9, <2>1, OtherInput DEF FocusAddress, Untouched, ShellIInv
<1>10. CASE EditAddress
  <2>1. bar' \in [editing : BOOLEAN, text : Texts, caret : Carets]
    <3>1. Named \cup {NoUrl} \subseteq Texts /\ {"start", "inside"} \subseteq Carets
      BY ShellAssumption DEF Texts, Carets
    <3>2. bar.text \in Texts
      BY DEF ShellIInv, KeysInv, KeysTypeOK
    <3> QED
      BY <1>10, <3>1, <3>2, Bars DEF EditAddress
  <2>2. focused = NoPage
    BY <1>10 DEF EditAddress, ShellIInv, KeysInv, KeysHaveOneTaker
  <2> QED
    BY <1>10, <2>1, <2>2, OtherInput DEF EditAddress, Untouched, ShellIInv
<1>11. CASE Backspace
  <2>1. CASE /\ bar.editing /\ bar.caret # "start"
             /\ \/ bar.caret = "all" /\ bar' = Open(NoUrl, "start")
                \/ /\ bar.caret = "inside"
                   /\ \E t \in Named \cup {NoUrl}, c \in {"start", "inside"} : bar' = Open(t, c)
             /\ UNCHANGED <<navVars, status, focused>>
             /\ Untouched
    <3>1. bar' \in [editing : BOOLEAN, text : Texts, caret : Carets]
      <4>1. Named \cup {NoUrl} \subseteq Texts /\ {"start", "inside"} \subseteq Carets
        BY ShellAssumption DEF Texts, Carets
      <4> QED
        BY <2>1, <4>1, Bars
    <3>2. focused = NoPage
      BY <2>1 DEF ShellIInv, KeysInv, KeysHaveOneTaker
    <3> QED
      BY <2>1, <3>1, <3>2, OtherInput DEF Untouched, ShellIInv
  <2>2. CASE \E i \in BackTarget :
               focused' = NoPage /\ Start(MoveTo(i), Entry(i)) /\ UNCHANGED bar /\ Untouched
    <3>1. PICK i \in BackTarget \cup ForwardTarget :
            focused' = NoPage /\ Start(MoveTo(i), Entry(i)) /\ UNCHANGED bar /\ Untouched
      BY <2>2
    <3>2. Target(MoveTo(i), Entry(i))
      BY Targets DEF ShellIInv
    <3> QED
      BY <3>1, <3>2, StartInput
  <2> QED
    BY <1>11, <2>1, <2>2, Zenon DEF Backspace
<1>12. CASE SubmitAddress
  <2>1. CASE bar.text = NoUrl
    <3>1. status' = "message" /\ UNCHANGED <<navVars, bar, focused>> /\ Untouched
      BY <1>12, <2>1 DEF SubmitAddress
    <3> QED
      BY <3>1, OtherInput DEF Untouched, ShellIInv, KeysInv, KeysTypeOK, KeysHaveOneTaker
  <2>2. CASE bar.text # NoUrl
    <3>1. /\ StartFrom(IF pending THEN gen + 1 ELSE gen, Push, bar.text)
          /\ bar' = Closed /\ focused' = NoPage /\ Untouched
      BY <1>12, <2>2 DEF SubmitAddress
    <3>2. bar.text \in Urls
      BY <2>2 DEF ShellIInv, KeysInv, KeysTypeOK, Texts
    <3>3. Target(Push, bar.text)
      BY <3>2, Targets DEF ShellIInv
    <3> QED
      BY <3>1, <3>3, StartFromInput
  <2> QED
    BY <2>1, <2>2
<1> QED
  BY <1>1, <1>2, <1>3, <1>4, <1>5, <1>6, <1>7, <1>8, <1>9, <1>10, <1>11, <1>12 DEF Input

-----------------------------------------------------------------------------
(***************************************************************************)
(* The workers and the wake handler.                                       *)
(***************************************************************************)

LEMMA ElementOf ==
  ASSUME NEW S, NEW s \in Seq(S), NEW i \in 1..Len(s)
  PROVE  s[i] \in S
OBVIOUS

LEMMA ReplaceElement ==
  ASSUME NEW S, NEW s \in Seq(S), NEW g \in 1..Len(s), NEW e \in S,
         NEW t, t = [s EXCEPT ![g] = e]
  PROVE  /\ t \in Seq(S) /\ Len(t) = Len(s)
         /\ t[g] = e /\ \A i \in 1..Len(s) : i # g => t[i] = s[i]
OBVIOUS

\* What the workers, and the taking of a result, do to the list of workers.
LEMMA LoadsChange ==
  ASSUME NavInv, NEW g \in 1..Len(loads), NEW e \in [url : Texts, step : Steps, ok : BOOLEAN],
         loads' = [loads EXCEPT ![g] = e]
  PROVE  /\ loads' \in Seq([url : Texts, step : Steps, ok : BOOLEAN])
         /\ Len(loads') = Len(loads)
         /\ loads'[g] = e /\ \A i \in 1..Len(loads) : i # g => loads'[i] = loads[i]
         /\ loads[g] \in [url : Texts, step : Steps, ok : BOOLEAN]
<1>1. loads \in Seq([url : Texts, step : Steps, ok : BOOLEAN])
  BY DEF NavInv, NavTypeOK
<1>2. loads[g] \in [url : Texts, step : Steps, ok : BOOLEAN]
  BY <1>1, ElementOf, Zenon
<1>3. PICK S : S = [url : Texts, step : Steps, ok : BOOLEAN]
  OBVIOUS
<1>4. loads \in Seq(S) /\ e \in S
  BY <1>1, <1>3
<1>5. /\ loads' \in Seq(S) /\ Len(loads') = Len(loads)
      /\ loads'[g] = e /\ \A i \in 1..Len(loads) : i # g => loads'[i] = loads[i]
  BY <1>4, ReplaceElement
<1> QED
  BY <1>2, <1>3, <1>5

\* The newest worker's channel, while a navigation is pending.
LEMMA PendingLoad ==
  ASSUME NavInv, pending
  PROVE  /\ rx = gen /\ gen \in 1..Len(loads) /\ loads[gen].url = wanted /\ wanted \in Urls
         /\ action # NoAction
<1>1. rx = gen /\ gen # 0 /\ action # NoAction /\ loads[gen].url = wanted /\ wanted \in Urls
  BY DEF NavInv, LoadsInv, LoadingIsAwaited
<1>2. rx \in 0..Len(loads) /\ Len(loads) \in Nat
  BY DEF NavInv, NavTypeOK
<1> QED
  BY <1>1, <1>2

LEMMA WorkerKeeps == ASSUME ShellIInv, Worker PROVE ShellIInv'
<1>1. PICK g \in 1..Len(loads) : WorkerSends(g) \/ WorkerWakes(g)
  BY DEF Worker
<1>2. loads[g] \in [url : Texts, step : Steps, ok : BOOLEAN]
  <2>1. loads \in Seq([url : Texts, step : Steps, ok : BOOLEAN])
    BY DEF ShellIInv, NavInv, NavTypeOK
  <2> QED
    BY <2>1, ElementOf, Zenon
<1>3. PICK e \in [url : Texts, step : Steps, ok : BOOLEAN] :
        /\ loads' = [loads EXCEPT ![g] = e] /\ e.url = loads[g].url
        /\ \/ e.step = "sent" /\ wake' = wake
           \/ e.step = "woke" /\ wake' = TRUE
  <2>1. CASE WorkerSends(g)
    <3>1. PICK ok \in BOOLEAN : loads' = [loads EXCEPT ![g].step = "sent", ![g].ok = ok]
      BY <2>1 DEF WorkerSends
    <3>2. wake' = wake
      BY <2>1 DEF WorkerSends
    <3> DEFINE e == [loads[g] EXCEPT !.step = "sent", !.ok = ok]
    <3>3. loads' = [loads EXCEPT ![g] = e]
      BY <1>2, <3>1 DEF ShellIInv, NavInv, NavTypeOK
    <3>4. e \in [url : Texts, step : Steps, ok : BOOLEAN] /\ e.url = loads[g].url /\ e.step = "sent"
      BY <1>2 DEF Steps
    <3> HIDE DEF e
    <3> QED
      BY <3>2, <3>3, <3>4
  <2>2. CASE WorkerWakes(g)
    <3>1. loads' = [loads EXCEPT ![g].step = "woke"] /\ wake' = TRUE
      BY <2>2 DEF WorkerWakes
    <3> DEFINE e == [loads[g] EXCEPT !.step = "woke"]
    <3>3. loads' = [loads EXCEPT ![g] = e]
      BY <1>2, <3>1 DEF ShellIInv, NavInv, NavTypeOK
    <3>4. e \in [url : Texts, step : Steps, ok : BOOLEAN] /\ e.url = loads[g].url /\ e.step = "woke"
      BY <1>2 DEF Steps
    <3> HIDE DEF e
    <3> QED
      BY <3>1, <3>3, <3>4
  <2> QED
    BY <1>1, <2>1, <2>2
<1>4. /\ page' = page /\ history' = history /\ index' = index /\ drift' = drift
      /\ pending' = pending /\ action' = action /\ gen' = gen /\ rx' = rx
      /\ wanted' = wanted /\ crossed' = crossed /\ status' = status /\ started' = started
      /\ bar' = bar /\ focused' = focused /\ intents' = intents
  BY <1>1 DEF WorkerSends, WorkerWakes, pageVars
<1>5. /\ loads' \in Seq([url : Texts, step : Steps, ok : BOOLEAN])
      /\ Len(loads') = Len(loads)
      /\ loads'[g] = e /\ \A i \in 1..Len(loads) : i # g => loads'[i] = loads[i]
  BY <1>3, LoadsChange DEF ShellIInv
<1>6. NavTypeOK'
  <2>1. wake' \in BOOLEAN
    BY <1>3 DEF ShellIInv, NavInv, NavTypeOK
  <2> QED
    BY <1>4, <1>5, <2>1 DEF ShellIInv, NavInv, NavTypeOK
<1>7. ActionInv' /\ CursorNamesPage'
  BY <1>4 DEF ShellIInv, NavInv, ActionInv, CursorNamesPage, Entry
<1>8. LoadsInv'
  <2>1. pending => gen \in 1..Len(loads) /\ loads'[gen].url = loads[gen].url
    BY <1>3, <1>5, PendingLoad DEF ShellIInv
  <2> QED
    BY <1>4, <2>1 DEF ShellIInv, NavInv, LoadsInv
<1>9. LoadingIsAwaited'
  <2>1. pending => /\ loads'[gen].step # "none"
                   /\ loads'[gen].step = "woke" => wake'
    <3>1. CASE g = gen
      BY <1>3, <1>5, <3>1
    <3>2. CASE g # gen
      <4>1. pending => loads'[gen] = loads[gen]
        BY <1>5, <3>2, PendingLoad DEF ShellIInv
      <4> QED
        BY <1>3, <4>1 DEF ShellIInv, NavInv, LoadingIsAwaited
    <3> QED
      BY <3>1, <3>2
  <2> QED
    BY <1>4, <2>1 DEF ShellIInv, NavInv, LoadingIsAwaited
<1>10. KeysInv'
  BY <1>4 DEF ShellIInv, KeysInv, KeysTypeOK, KeysHaveOneTaker
<1> QED
  BY <1>4, <1>6, <1>7, <1>8, <1>9, <1>10 DEF ShellIInv, NavInv

\* The channel is closed and nothing is pending any more.
LEMMA TakenFacts ==
  ASSUME NavInv, Arrived, Taken
  PROVE  /\ loads' \in Seq([url : Texts, step : Steps, ok : BOOLEAN])
         /\ Len(loads') = Len(loads) /\ rx' = NoChannel
         /\ rx \in 1..Len(loads)
<1>1. rx \in 1..Len(loads) /\ rx' = NoChannel
  BY DEF NavInv, NavTypeOK, Arrived, Taken, NoChannel
<1>2. loads[rx].step \in Steps
  <2>1. loads \in Seq([url : Texts, step : Steps, ok : BOOLEAN])
    BY DEF NavInv, NavTypeOK
  <2>2. loads[rx] \in [url : Texts, step : Steps, ok : BOOLEAN]
    BY <1>1, <2>1, ElementOf, Zenon
  <2> QED
    BY <2>2
<1>3. Load(NoUrl, loads[rx].step) \in [url : Texts, step : Steps, ok : BOOLEAN]
  BY <1>2 DEF Load, Texts
<1> QED
  BY <1>1, <1>3, LoadsChange DEF Taken

LEMMA WokenType == ASSUME NavInv, Woken PROVE wake' \in BOOLEAN
BY DEF NavInv, NavTypeOK, Woken

LEMMA WakeStaleKeeps == ASSUME ShellIInv, WakeStale PROVE ShellIInv'
<1>1. /\ page' = page /\ history' = history /\ index' = index /\ drift' = drift
      /\ pending' = pending /\ action' = action /\ gen' = gen
      /\ wanted' = wanted /\ crossed' = crossed /\ status' = status /\ started' = started
      /\ bar' = bar /\ focused' = focused /\ intents' = intents
      /\ rx # gen /\ Arrived /\ Taken /\ Woken
  BY DEF WakeStale, pageVars
<1>2. /\ loads' \in Seq([url : Texts, step : Steps, ok : BOOLEAN])
      /\ Len(loads') = Len(loads) /\ rx' = NoChannel
  BY <1>1, TakenFacts DEF ShellIInv
<1>3. pending = FALSE
  BY <1>1, PendingLoad DEF ShellIInv, NavInv, NavTypeOK
<1>4. NavTypeOK'
  <2>1. wake' \in BOOLEAN /\ rx' \in 0..Len(loads')
    BY <1>1, <1>2, WokenType DEF ShellIInv, NoChannel
  <2> QED
    BY <1>1, <1>2, <2>1 DEF ShellIInv, NavInv, NavTypeOK
<1>5. LoadsInv' /\ ActionInv' /\ LoadingIsAwaited' /\ CursorNamesPage'
  BY <1>1, <1>2, <1>3
  DEF ShellIInv, NavInv, LoadsInv, ActionInv, LoadingIsAwaited, CursorNamesPage, Entry
<1>6. KeysInv'
  BY <1>1 DEF ShellIInv, KeysInv, KeysTypeOK, KeysHaveOneTaker
<1> QED
  BY <1>1, <1>4, <1>5, <1>6 DEF ShellIInv, NavInv

LEMMA WakeFailedKeeps == ASSUME ShellIInv, WakeFailed PROVE ShellIInv'
<1>1. /\ page' = page /\ history' = history /\ index' = index /\ drift' = drift
      /\ pending' = FALSE /\ action' = NoAction /\ gen' = gen
      /\ wanted' = NoUrl /\ crossed' = crossed /\ status' = "message" /\ started' = started
      /\ bar' = bar /\ focused' = focused /\ intents' = intents
      /\ Arrived /\ Taken /\ Woken
  BY DEF WakeFailed, pageVars
<1>2. /\ loads' \in Seq([url : Texts, step : Steps, ok : BOOLEAN])
      /\ Len(loads') = Len(loads) /\ rx' = NoChannel
  BY <1>1, TakenFacts DEF ShellIInv
<1>3. NavTypeOK'
  <2>1. wake' \in BOOLEAN /\ rx' \in 0..Len(loads')
    BY <1>1, <1>2, WokenType DEF ShellIInv, NoChannel
  <2>2. status' \in Statuses /\ wanted' \in Texts /\ pending' \in BOOLEAN
    BY <1>1 DEF Statuses, Texts
  <2> QED
    BY <1>1, <1>2, <2>1, <2>2 DEF ShellIInv, NavInv, NavTypeOK
<1>4. LoadsInv' /\ ActionInv' /\ LoadingIsAwaited'
  BY <1>1, <1>2, Actions DEF LoadsInv, ActionInv, LoadingIsAwaited
<1>5. CursorNamesPage'
  BY <1>1 DEF ShellIInv, NavInv, CursorNamesPage, Entry
<1>6. KeysInv'
  BY <1>1 DEF ShellIInv, KeysInv, KeysTypeOK, KeysHaveOneTaker
<1> QED
  BY <1>1, <1>3, <1>4, <1>5, <1>6 DEF ShellIInv, NavInv

\* A page that lands is the one the pending navigation wanted.
LEMMA LandsAsWanted ==
  ASSUME NavInv, WakeLoaded
  PROVE  /\ pending /\ wanted \in Urls
         /\ page' = [url |-> Land[wanted], runtime |-> gen] /\ gen # 0
<1>1. pending
  BY DEF NavInv, LoadsInv, WakeLoaded, Arrived
<1> QED
  BY <1>1, PendingLoad DEF WakeLoaded, NavInv, LoadsInv

\* apply_history_success leaves the cursor at an entry that leads to the page.
LEMMA HistoryKeeps ==
  ASSUME NavInv, pending, HistorySuccess(Land[wanted])
  PROVE  /\ history' \in Seq(Urls) /\ history' # << >>
         /\ index' \in Nat /\ index' < Len(history') /\ drift' \in BOOLEAN
         /\ ~drift' => Land[wanted] \in {history'[index' + 1], Land[history'[index' + 1]]}
<1> DEFINE u == Land[wanted]
<1>1. /\ u \in Urls /\ wanted \in Urls /\ action # NoAction /\ Land[u] = u
      /\ history \in Seq(Urls) /\ index \in Nat /\ (history # << >> => index < Len(history))
      /\ (history = << >> => index = 0)
  BY PendingLoad, ShellAssumption DEF NavInv, NavTypeOK
<1>2. /\ history' = CASE action = Push -> HistoryPushed(u)
                      [] action.kind = "move" /\ history = << >> -> <<u>>
                      [] OTHER -> history
      /\ index' = CASE action = Push -> Len(history') - 1
                    [] action.kind = "move" /\ action.to < Len(history) -> action.to
                    [] OTHER -> index
      /\ drift' = (action.kind = "move" /\ crossed /\ history # << >>)
  BY DEF HistorySuccess
<1> HIDE DEF u
<1>3. CASE action = Push
  <2>1. PICK k \in Seq(Urls) : k = Kept
    <3>1. CASE index + 1 < Len(history)
      <4>1. Kept = SubSeq(history, 1, index + 1)
        BY <3>1 DEF Kept
      <4>2. SubSeq(history, 1, index + 1) \in Seq(Urls)
        BY <1>1, <3>1
      <4> QED
        BY <4>1, <4>2
    <3>2. CASE ~(index + 1 < Len(history))
      <4>1. Kept = SubSeq(history, 1, Len(history))
        BY <3>2 DEF Kept
      <4>2. SubSeq(history, 1, Len(history)) \in Seq(Urls)
        BY <1>1
      <4> QED
        BY <4>1, <4>2
    <3> QED
      BY <3>1, <3>2
  <2>2. HistoryPushed(u) = IF k # << >> /\ k[Len(k)] = u THEN k ELSE Append(k, u)
    BY <2>1 DEF HistoryPushed, Last
  <2>3. /\ HistoryPushed(u) \in Seq(Urls) /\ Len(HistoryPushed(u)) \in Nat \ {0}
        /\ HistoryPushed(u)[Len(HistoryPushed(u))] = u
    <3>1. /\ Append(k, u) \in Seq(Urls) /\ Len(Append(k, u)) \in Nat \ {0}
          /\ Append(k, u)[Len(Append(k, u))] = u
      BY <1>1
    <3>2. k # << >> => Len(k) \in Nat \ {0}
      OBVIOUS
    <3> HIDE DEF HistoryPushed
    <3>3. CASE k # << >> /\ k[Len(k)] = u
      BY <2>2, <3>2, <3>3
    <3>4. CASE ~(k # << >> /\ k[Len(k)] = u)
      <4>1. HistoryPushed(u) = Append(k, u)
        BY <2>2, <3>4
      <4> QED
        BY <3>1, <4>1
    <3> QED
      BY <3>3, <3>4
  <2>4. history' = HistoryPushed(u) /\ index' = Len(history') - 1
    <3>1. action.kind # "move"
      BY <1>3, Actions
    <3> HIDE DEF HistoryPushed
    <3> QED
      BY <1>2, <1>3, <3>1
  <2> HIDE DEF HistoryPushed
  <2>5. history' # << >> /\ index' + 1 = Len(history')
    BY <2>3, <2>4
  <2>6. drift' \in BOOLEAN
    BY <1>2
  <2> QED
    BY <2>3, <2>4, <2>5, <2>6 DEF u
<1>4. CASE action # Push
  <2>1. PICK i \in 0..Len(history) : action = MoveTo(i)
    BY <1>1, <1>4 DEF NavInv, NavTypeOK
  <2>2. action.kind = "move" /\ action.to = i
    BY <2>1, Actions
  <2>3. drift' = (crossed /\ history # << >>) /\ drift' \in BOOLEAN
    BY <1>2, <2>2
  <2>4. CASE history = << >>
    <3>1. history' = <<u>>
      BY <1>2, <1>4, <2>2, <2>4
    <3>2. index' = 0
      BY <1>1, <1>2, <1>4, <2>2, <2>4
    <3> QED
      BY <1>1, <2>3, <3>1, <3>2 DEF u
  <2>5. CASE history # << >>
    <3>1. history' = history
      BY <1>2, <1>4, <2>5
    <3>2. index' = IF i < Len(history) THEN i ELSE index
      BY <1>2, <1>4, <2>2
    <3>3. index' \in Nat /\ index' < Len(history')
      BY <1>1, <2>5, <3>1, <3>2
    <3>4. ~drift' => i < Len(history) /\ u = Land[Entry(i)]
      BY <2>2, <2>3, <2>5 DEF NavInv, ActionInv, u
    <3> QED
      BY <1>1, <2>3, <2>5, <3>1, <3>2, <3>3, <3>4 DEF Entry, u
  <2> QED
    BY <2>4, <2>5
<1> QED
  BY <1>3, <1>4

LEMMA WakeLoadedKeeps == ASSUME ShellIInv, WakeLoaded PROVE ShellIInv'
<1>1. /\ pending /\ wanted \in Urls
      /\ page' = [url |-> Land[wanted], runtime |-> gen] /\ gen # 0
  BY LandsAsWanted DEF ShellIInv
<1>2. /\ pending' = FALSE /\ action' = NoAction /\ gen' = gen
      /\ wanted' = NoUrl /\ crossed' = crossed /\ status' = "message" /\ started' = started
      /\ bar' = Closed /\ focused' = NoPage
      /\ Arrived /\ Taken /\ Woken
  BY DEF WakeLoaded, TakesKeys
<1>3. /\ loads' \in Seq([url : Texts, step : Steps, ok : BOOLEAN])
      /\ Len(loads') = Len(loads) /\ rx' = NoChannel
  BY <1>2, TakenFacts DEF ShellIInv
<1>4. HistorySuccess(Land[wanted])
  BY <1>1, PendingLoad DEF WakeLoaded, ShellIInv
<1>5. /\ history' \in Seq(Urls) /\ history' # << >>
      /\ index' \in Nat /\ index' < Len(history') /\ drift' \in BOOLEAN
      /\ ~drift' => Land[wanted] \in {history'[index' + 1], Land[history'[index' + 1]]}
  BY <1>1, <1>4, HistoryKeeps DEF ShellIInv
<1>6. NavTypeOK'
  <2>1. wake' \in BOOLEAN /\ rx' \in 0..Len(loads')
    BY <1>2, <1>3, WokenType DEF ShellIInv, NoChannel
  <2>2. status' \in Statuses /\ wanted' \in Texts /\ pending' \in BOOLEAN
    BY <1>2 DEF Statuses, Texts
  <2>3. page' \in [url : Urls, runtime : 0..MaxNavigations]
    BY <1>1, ShellAssumption DEF ShellIInv, NavInv, NavTypeOK
  <2> QED
    BY <1>2, <1>3, <1>5, <2>1, <2>2, <2>3 DEF ShellIInv, NavInv, NavTypeOK
<1>7. LoadsInv' /\ ActionInv' /\ LoadingIsAwaited'
  BY <1>2, <1>3, Actions DEF LoadsInv, ActionInv, LoadingIsAwaited
<1>8. CursorNamesPage'
  <2>1. page'.url = Land[wanted] /\ page'.runtime # NoPage
    BY <1>1 DEF NoPage
  <2> QED
    BY <1>5, <2>1 DEF CursorNamesPage, Entry
<1>9. KeysInv'
  BY <1>2, Bars, ShellAssumption DEF KeysInv, KeysTypeOK, KeysHaveOneTaker, NoPage
<1>10. intents' \in Seq(Intents)
  <2>1. << >> \in Seq(Intents) /\ \A i \in Intents : <<i>> \in Seq(Intents)
    OBVIOUS
  <2> QED
    BY <2>1 DEF WakeLoaded
<1> QED
  BY <1>6, <1>7, <1>8, <1>9, <1>10 DEF ShellIInv, NavInv

\* A wake without a result: the page's tick drains its intents, or nothing
\* happens, or a callback throws.
LEMMA WakeTickKeeps == ASSUME ShellIInv, WakeTick PROVE ShellIInv'
<1>1. /\ pending' = pending /\ action' = action /\ gen' = gen /\ rx' = rx /\ loads' = loads
      /\ wanted' = wanted /\ focused' = focused /\ started' = started
      /\ ~Arrived /\ Woken
  BY DEF WakeTick
<1>2. wake' \in BOOLEAN
  BY <1>1, WokenType DEF ShellIInv
<1>3. ASSUME status' \in {status, "message"} PROVE LoadingIsAwaited'
  <2>1. pending => rx = gen /\ loads[gen].step # "none" /\ loads[gen].step # "woke"
    BY <1>1, PendingLoad DEF ShellIInv, NavInv, LoadingIsAwaited, Arrived, NoChannel
  <2>2. pending = (action # NoAction)
    BY DEF ShellIInv, NavInv, LoadingIsAwaited
  <2>3. started' /\ status' = "loading" => pending
    BY <1>1, <1>3 DEF ShellIInv, NavInv, LoadingIsAwaited
  <2> QED
    BY <1>1, <2>1, <2>2, <2>3 DEF LoadingIsAwaited
<1>4. LoadsInv'
  BY <1>1 DEF ShellIInv, NavInv, LoadsInv
<1>5. CASE UNCHANGED <<pageVars, bar, intents, crossed>> /\ status' \in {status, "message"}
  <2>1. /\ page' = page /\ history' = history /\ index' = index /\ drift' = drift
        /\ bar' = bar /\ intents' = intents /\ crossed' = crossed
    BY <1>5 DEF pageVars
  <2>2. status' \in Statuses
    BY <1>5 DEF ShellIInv, NavInv, NavTypeOK, Statuses
  <2>3. NavTypeOK'
    BY <1>1, <1>2, <2>1, <2>2 DEF ShellIInv, NavInv, NavTypeOK
  <2>4. ActionInv' /\ CursorNamesPage'
    BY <1>1, <2>1 DEF ShellIInv, NavInv, ActionInv, CursorNamesPage, Entry
  <2>5. KeysInv'
    BY <1>1, <2>1 DEF ShellIInv, KeysInv, KeysTypeOK, KeysHaveOneTaker
  <2> QED
    BY <1>3, <1>4, <1>5, <2>1, <2>3, <2>4, <2>5 DEF ShellIInv, NavInv
<1>6. CASE /\ page.runtime # NoPage
           /\ history' = Drained.history /\ index' = Drained.index
           /\ page' = [page EXCEPT !.url = Drained.url]
           /\ bar' = IF intents # << >> /\ bar.editing
                       THEN [bar EXCEPT !.text = Drained.url] ELSE bar
           /\ drift' = (drift /\ intents = << >>)
           /\ crossed' = \/ crossed
                         \/ action.kind = "move" /\ ~Intact(Drained.history, action.to)
           /\ intents' = << >>
           /\ UNCHANGED status
  <2>1. history # << >> /\ history \in Seq(Urls) /\ index \in Nat /\ index < Len(history)
    BY <1>6 DEF ShellIInv, NavInv, CursorNamesPage, NavTypeOK
  <2>2. PICK d : d = Drained
    OBVIOUS
  <2>3. Good(d, Len(intents))
    BY <2>1, <2>2, DrainedGood DEF ShellIInv, NavInv
  <2>4. /\ d.history \in Seq(Urls) /\ d.index \in Nat /\ d.url \in Urls
        /\ d.index < Len(d.history) /\ index <= d.index
        /\ Len(history) <= Len(d.history) \/ index + 2 <= Len(d.history)
    BY <2>3 DEF Good, Sessions
  <2>5. /\ history' = d.history /\ index' = d.index /\ page' = [page EXCEPT !.url = d.url]
        /\ drift' = (drift /\ intents = << >>) /\ intents' = << >> /\ status' = status
        /\ crossed' = (crossed \/ (action.kind = "move" /\ ~Intact(d.history, action.to)))
    BY <1>6, <2>2
  <2>6. page' \in [url : Urls, runtime : 0..MaxNavigations]
        /\ page'.url = d.url /\ page'.runtime = page.runtime
    BY <2>4, <2>5 DEF ShellIInv, NavInv, NavTypeOK
  <2>7. Len(d.history) \in Nat /\ d.history # << >>
    BY <2>4
  <2>8. action' \in {NoAction, Push} \cup {MoveTo(i) : i \in 0..Len(history')}
    <3>1. CASE action \in {NoAction, Push}
      BY <1>1, <3>1
    <3>2. ASSUME NEW i \in 0..Len(history), action = MoveTo(i)
          PROVE  action' \in {MoveTo(k) : k \in 0..Len(history')}
      <4>1. i <= index + 1
        BY <3>2, Actions DEF ShellIInv, NavInv, ActionInv
      <4>2. i \in 0..Len(d.history)
        BY <2>1, <2>4, <2>7, <4>1
      <4> QED
        BY <1>1, <2>5, <3>2, <4>2
    <3> QED
      BY <3>1, <3>2 DEF ShellIInv, NavInv, NavTypeOK
  <2>9. NavTypeOK'
    <3>1. crossed' \in BOOLEAN /\ drift' \in BOOLEAN
      BY <2>5, Zenon DEF ShellIInv, NavInv, NavTypeOK
    <3> QED
      BY <1>1, <1>2, <2>4, <2>5, <2>6, <2>7, <2>8, <3>1 DEF ShellIInv, NavInv, NavTypeOK
  <2>10. ActionInv'
    <3> SUFFICES ASSUME action.kind = "move"
                 PROVE  /\ action.to <= d.index + 1
                        /\ ~crossed' => /\ action.to < Len(d.history)
                                        /\ Land[wanted] = Land[d.history[action.to + 1]]
      BY <1>1, <2>5, <2>7 DEF ActionInv, Entry
    <3>1. PICK i \in 0..Len(history) : action = MoveTo(i)
      BY Actions DEF ShellIInv, NavInv, NavTypeOK
    <3>2. action.to = i /\ i <= index + 1
      BY <3>1, Actions DEF ShellIInv, NavInv, ActionInv
    <3>3. ASSUME ~crossed'
          PROVE  i < Len(d.history) /\ Land[wanted] = Land[d.history[i + 1]]
      <4>1. ~crossed /\ Intact(d.history, i)
        BY <2>5, <3>2, <3>3
      <4>2. i < Len(history) /\ Land[wanted] = Land[Entry(i)]
        BY <2>1, <3>2, <4>1 DEF ShellIInv, NavInv, ActionInv
      <4> QED
        BY <4>1, <4>2 DEF Intact
    <3> QED
      BY <2>1, <2>4, <3>2, <3>3
  <2>11. CursorNamesPage'
    <3>1. (page'.runtime # NoPage) = (history' # << >>)
      BY <1>6, <2>5, <2>6, <2>7
    <3>2. CASE intents = << >>
      <4>1. Len(intents) = 0
        BY <3>2
      <4>2. d = [history |-> history, index |-> index, url |-> page.url]
        BY <2>3, <4>1 DEF Good
      <4>3. d.history = history /\ d.index = index /\ d.url = page.url /\ drift' = drift
        BY <2>5, <3>2, <4>2 DEF ShellIInv, NavInv, NavTypeOK
      <4> QED
        BY <2>1, <2>5, <2>6, <3>1, <4>3 DEF ShellIInv, NavInv, CursorNamesPage, Entry
    <3>3. CASE intents # << >>
      <4>1. Len(intents) # 0
        BY <3>3 DEF ShellIInv
      <4>2. d.url = d.history[d.index + 1]
        BY <2>3, <4>1 DEF Good
      <4> QED
        BY <2>5, <2>6, <3>1, <4>2 DEF CursorNamesPage, Entry
    <3> QED
      BY <3>2, <3>3
  <2>12. KeysInv'
    <3>1. /\ bar' \in [editing : BOOLEAN, text : Texts, caret : Carets]
          /\ bar'.editing => bar.editing
      <4>1. CASE intents # << >> /\ bar.editing
        BY <1>6, <2>2, <2>4, <4>1 DEF ShellIInv, KeysInv, KeysTypeOK, Texts
      <4>2. CASE ~(intents # << >> /\ bar.editing)
        BY <1>6, <4>2 DEF ShellIInv, KeysInv, KeysTypeOK
      <4> QED
        BY <4>1, <4>2
    <3>2. focused' \in 0..MaxNavigations /\ (focused' # NoPage => focused' = page'.runtime)
      BY <1>1, <2>6 DEF ShellIInv, KeysInv, KeysTypeOK, KeysHaveOneTaker
    <3>3. ~(bar'.editing /\ focused' # NoPage)
      BY <1>1, <3>1 DEF ShellIInv, KeysInv, KeysHaveOneTaker
    <3> QED
      BY <3>1, <3>2, <3>3 DEF KeysInv, KeysTypeOK, KeysHaveOneTaker
  <2>13. intents' \in Seq(Intents)
    <3>1. << >> \in Seq(Intents)
      OBVIOUS
    <3> QED
      BY <2>5, <3>1
  <2>14. LoadingIsAwaited'
    BY <1>3, <2>5
  <2> QED
    BY <1>4, <2>9, <2>10, <2>11, <2>12, <2>13, <2>14 DEF ShellIInv, NavInv
<1>7. \/ UNCHANGED <<pageVars, bar, intents, crossed>> /\ status' \in {status, "message"}
      \/ /\ page.runtime # NoPage
         /\ history' = Drained.history /\ index' = Drained.index
         /\ page' = [page EXCEPT !.url = Drained.url]
         /\ bar' = IF intents # << >> /\ bar.editing
                     THEN [bar EXCEPT !.text = Drained.url] ELSE bar
         /\ drift' = (drift /\ intents = << >>)
         /\ crossed' = \/ crossed
                       \/ action.kind = "move" /\ ~Intact(Drained.history, action.to)
         /\ intents' = << >>
         /\ UNCHANGED status
  BY Zenon DEF WakeTick
<1> QED
  BY <1>5, <1>6, <1>7

-----------------------------------------------------------------------------
(***************************************************************************)
(* Theorems.                                                               *)
(***************************************************************************)
LEMMA InitHolds == Init => ShellIInv
<1> SUFFICES ASSUME Init PROVE ShellIInv
  OBVIOUS
<1>1. << >> \in Seq(Urls) /\ << >> \in Seq([url : Texts, step : Steps, ok : BOOLEAN])
      /\ << >> \in Seq(Intents) /\ Len(<< >>) = 0
  OBVIOUS
<1>2. NavTypeOK
  <2>1. page \in [url : Urls, runtime : 0..MaxNavigations]
    <3>1. FirstUrl \in Urls /\ NoPage \in 0..MaxNavigations
      BY ShellAssumption DEF NoPage
    <3>2. page = [url |-> FirstUrl, runtime |-> NoPage]
      BY DEF Init
    <3> QED
      BY <3>1, <3>2
  <2>2. history = << >> /\ index = 0 /\ loads = << >> /\ gen = 0 /\ rx = 0
    BY DEF Init, NoChannel
  <2>3. gen \in 0..MaxNavigations /\ rx \in 0..Len(loads) /\ Len(loads) <= gen /\ index \in Nat
    BY <1>1, <2>2, ShellAssumption
  <2>4. action \in {NoAction, Push} \cup {MoveTo(i) : i \in 0..Len(history)}
    BY Zenon DEF Init
  <2>5. pending \in BOOLEAN /\ wake \in BOOLEAN /\ crossed \in BOOLEAN /\ drift \in BOOLEAN
    BY DEF Init
  <2>6. status \in Statuses /\ wanted \in Texts
    BY DEF Init, Statuses, Texts
  <2>7. history \in Seq(Urls) /\ loads \in Seq([url : Texts, step : Steps, ok : BOOLEAN])
    BY <1>1, <2>2
  <2> QED
    BY <2>1, <2>2, <2>3, <2>4, <2>5, <2>6, <2>7, Zenon DEF NavTypeOK
<1>3. LoadsInv /\ ActionInv /\ LoadingIsAwaited /\ CursorNamesPage
  BY Actions DEF Init, LoadsInv, ActionInv, LoadingIsAwaited, CursorNamesPage, NoPage, NoChannel
<1>4. KeysInv
  BY Bars, ShellAssumption DEF Init, KeysInv, KeysTypeOK, KeysHaveOneTaker, NoPage
<1>5. intents \in Seq(Intents)
  BY <1>1 DEF Init
<1> QED
  BY <1>2, <1>3, <1>4, <1>5 DEF ShellIInv, NavInv

LEMMA StutterKeeps == ShellIInv /\ UNCHANGED vars => ShellIInv'
BY DEF vars, navVars, pageVars, ShellIInv, NavInv, KeysInv, NavTypeOK, LoadsInv, ActionInv,
       LoadingIsAwaited, CursorNamesPage, Entry, KeysTypeOK, KeysHaveOneTaker

LEMMA NextKeeps == ShellIInv /\ [Next]_vars => ShellIInv'
<1> SUFFICES ASSUME ShellIInv, [Next]_vars PROVE ShellIInv'
  OBVIOUS
<1>1. CASE FirstPresent
  BY <1>1, FirstPresentKeeps
<1>2. CASE Input
  BY <1>2, InputKeeps
<1>3. CASE Worker
  BY <1>3, WorkerKeeps
<1>4. CASE WakeStale
  BY <1>4, WakeStaleKeeps
<1>5. CASE WakeLoaded
  BY <1>5, WakeLoadedKeeps
<1>6. CASE WakeFailed
  BY <1>6, WakeFailedKeeps
<1>7. CASE WakeTick
  BY <1>7, WakeTickKeeps
<1>8. CASE UNCHANGED vars
  BY <1>8, StutterKeeps
<1> QED
  BY <1>1, <1>2, <1>3, <1>4, <1>5, <1>6, <1>7, <1>8 DEF Next, Wake

\* What the window shows and holds agrees through every order of inputs,
\* wakes and late workers: "loading" is shown only while a result is still to
\* come (LoadingIsAwaited), the history cursor names the page unless the page
\* rewrote the entry it is being left for (CursorNamesPage), and a focused
\* input is one of the page on the screen (KeysHaveOneTaker).
THEOREM WindowAgrees == Spec => []ShellInv
<1>1. ShellIInv => ShellInv
  <2> SUFFICES ASSUME ShellIInv PROVE ShellInv
    OBVIOUS
  <2>1. ShellTypeOK
    BY DEF ShellIInv, NavInv, KeysInv, NavTypeOK, KeysTypeOK, ShellTypeOK
  <2> QED
    BY <2>1 DEF ShellIInv, NavInv, KeysInv, ShellInv
<1> QED
  BY <1>1, InitHolds, NextKeeps, PTL DEF Spec

\* handle_browser_wake applies no page but the one the last accepted
\* navigation asked for, whatever the workers of stopped and replaced
\* navigations still send.
THEOREM OnlyTheWantedLands == Spec => SupersededNeverLands
<1>1. ShellIInv /\ [Next]_vars =>
        [page'.runtime # page.runtime => wanted # NoUrl /\ page'.url = Land[wanted]]_vars
  <2> SUFFICES ASSUME ShellIInv, [Next]_vars, page'.runtime # page.runtime
               PROVE  wanted # NoUrl /\ page'.url = Land[wanted]
    OBVIOUS
  <2>1. CASE WakeLoaded
    BY <2>1, LandsAsWanted, ShellAssumption DEF ShellIInv
  <2>2. CASE WakeTick
    <3>1. page' = page \/ page' = [page EXCEPT !.url = Drained.url]
      BY <2>2 DEF WakeTick, pageVars
    <3>2. page'.runtime = page.runtime
      BY <3>1 DEF ShellIInv, NavInv, NavTypeOK
    <3> QED
      BY <3>2
  <2>3. CASE ~WakeLoaded /\ ~WakeTick
    <3>1. page' = page
      BY <2>3
      DEF Next, vars, FirstPresent, Input, Stop, TraverseByKey, ReloadByKey, ChromeButton,
          FollowLink, ClickPage, FocusInput, SubmitForm, FocusAddress, EditAddress, Backspace,
          SubmitAddress, Worker, WorkerSends, WorkerWakes, Wake, WakeStale, WakeFailed,
          Untouched, pageVars
    <3> QED
      BY <3>1
  <2> QED
    BY <2>1, <2>2, <2>3
<1> QED
  BY <1>1, InitHolds, NextKeeps, PTL DEF Spec, SupersededNeverLands
=============================================================================
