----------------------------- MODULE EngineProofs -----------------------------
(***************************************************************************)
(* Proofs about the native engine: EngineWorker and EventIngress, each     *)
(* alone, and EngineSupervisor, which composes them.                       *)
(***************************************************************************)
EXTENDS EngineSupervisor, FiniteSetTheorems, SequenceTheorems, TLAPS

-----------------------------------------------------------------------------
(***************************************************************************)
(* Proofs about EngineWorker, for every set of views and profiles, every   *)
(* depth of the queue and the pipes and every largest generation.          *)
(*                                                                         *)
(* NoStaleCommit is not inductive: that the completion a view accepts is   *)
(* its own rests on the single fetch slot, so the inductive invariant adds *)
(* SlotInv (at most one fetch is spawning, running or queued, and inflight *)
(* counts it) and LinkInv (while a view waits, that fetch is the view's).  *)
(* That the slot is never held by nobody (SlotUsed) makes the count exact  *)
(* and leaves at most one view loading; with what each unwritten event     *)
(* still has to announce (EventInv) the events refine ViewProtocol.        *)
(***************************************************************************)

IInv == TypeOK /\ SlotInv /\ LinkInv

\* A message's kind tells what it carries.
LEMMA MessageKinds ==
  ASSUME NEW m \in Message
  PROVE  /\ m.kind = "Command" => m.cmd \in Command
         /\ m.kind = "NavigationComplete" =>
              m \in CompleteMessage /\ m.fetch \in Fetch
  BY DEF Message, CommandMessage, StreamMessage, CompleteMessage

\* Taking the head of a queue shifts what remains.
LEMMA TailFacts ==
  ASSUME NEW S, NEW q \in Seq(S), q # << >>
  PROVE  /\ Head(q) \in S /\ Head(q) = q[1] /\ 1 \in 1..Len(q)
         /\ Tail(q) \in Seq(S) /\ Len(Tail(q)) = Len(q) - 1
         /\ \A i \in 1..Len(Tail(q)) : i + 1 \in 1..Len(q) /\ Tail(q)[i] = q[i + 1]
  OBVIOUS

\* Appending to a queue keeps what is there.
LEMMA AppendFacts ==
  ASSUME NEW S, NEW q \in Seq(S), NEW m \in S
  PROVE  /\ Append(q, m) \in Seq(S) /\ Len(Append(q, m)) = Len(q) + 1
         /\ \A i \in 1..Len(q) : Append(q, m)[i] = q[i]
         /\ Append(q, m)[Len(q) + 1] = m
         /\ Len(q) \in Nat
         /\ \A i \in 1..(Len(q) + 1) : i \in 1..Len(q) \/ i = Len(q) + 1
  OBVIOUS

\* An absent and a new view are entries.
LEMMA EntryFacts ==
  /\ Absent \in Entry /\ NewView \in Entry
  /\ Absent.active = NoNavigation /\ NewView.active = NoNavigation
  BY WorkerAssumption DEF Absent, NewView, Entry, NoNavigation, Option

\* The initial state satisfies the inductive invariant.
LEMMA InitIInv == Init => IInv
<1> SUFFICES ASSUME Init PROVE IInv
  OBVIOUS
<1>1. Absent \in Entry
  BY WorkerAssumption DEF Absent, Entry, NoNavigation, Option
<1>2. TypeOK
  <2>1. PipesTypeOK
    BY PipeAssumption DEF Init, PipesInit, PipesTypeOK, ChildStates
  <2>2. views \in [Views -> Entry] /\ announced \in [Views -> LoadStates]
    BY <1>1 DEF Init, LoadStates
  <2>3. queue \in Seq(Message) /\ Len(queue) <= QueueDepth /\ outbox \in Seq(Event)
    BY WorkerAssumption DEF Init
  <2>4. readerDone \in BOOLEAN /\ draining \in BOOLEAN
    BY Zenon DEF Init
  <2>5. /\ profiles \subseteq Profiles
        /\ inflight \in 0..MaxInflight /\ starts \in Nat
        /\ fetches \subseteq Fetch /\ spawning \subseteq Fetch
        /\ building \subseteq CompleteMessage
    BY DEF Init, MaxInflight
  <2> QED
    BY <2>1, <2>2, <2>3, <2>4, <2>5 DEF TypeOK
<1>3. SlotInv
  BY DEF Init, SlotInv
<1>4. LinkInv
  BY DEF Init, LinkInv, Absent
<1> QED
  BY <1>2, <1>3, <1>4 DEF IInv

-----------------------------------------------------------------------------
(***************************************************************************)
(* Type correctness.  inflight stays within 0..1 because a fetch is only   *)
(* spawned while the slot is free, which is part of SlotInv.               *)
(***************************************************************************)

\* What every handler that takes a message leaves of the queue.
LEMMA ReceiveType ==
  ASSUME TypeOK, NEW k, Receive(k)
  PROVE  /\ queue' \in Seq(Message) /\ Len(queue') <= QueueDepth
         /\ Head(queue) \in Message
         /\ Head(queue).kind = k
         /\ k = "Command" => Cmd \in Command
         /\ k = "NavigationComplete" =>
              Head(queue) \in CompleteMessage /\ Head(queue).fetch \in Fetch
<1>1. queue \in Seq(Message) /\ queue # << >> /\ Len(queue) <= QueueDepth
  BY DEF TypeOK, Receive
<1>2. /\ Head(queue) \in Message /\ Tail(queue) \in Seq(Message)
      /\ Len(Tail(queue)) = Len(queue) - 1
  BY <1>1, TailFacts
<1>3. Len(Tail(queue)) <= QueueDepth
  BY <1>1, <1>2, WorkerAssumption
<1> QED
  BY <1>1, <1>2, <1>3, MessageKinds DEF Receive, Cmd

\* What the handlers write are sequences of events.
LEMMA EmitType ==
  ASSUME NEW v \in Views
  PROVE  /\ <<Ev("Crashed", v)>> \in Seq(Event)
         /\ <<Ev("ViewCreated", v)>> \in Seq(Event)
         /\ <<Ev("ViewClosed", v)>> \in Seq(Event)
         /\ <<Ev("Busy", v)>> \in Seq(Event)
         /\ <<Ev("Started", v)>> \in Seq(Event)
         /\ <<Ev("Idle", v), Ev("Stopped", v)>> \in Seq(Event)
         /\ FailureEvents(v) \in Seq(Event)
         /\ \A m : m.fetch.view = v => CommitEvents(m) \in Seq(Event)
<1>1. \A k \in EventKinds : Ev(k, v) \in Event
  BY DEF Ev, Event
<1>2. \A k, l, m, n \in EventKinds :
        /\ <<Ev(k, v)>> \in Seq(Event)
        /\ <<Ev(k, v), Ev(l, v)>> \in Seq(Event)
        /\ <<Ev(k, v), Ev(l, v), Ev(m, v), Ev(n, v)>> \in Seq(Event)
  BY <1>1
<1>3. {"Crashed", "ViewCreated", "ViewClosed", "Busy", "Started", "Idle",
       "Stopped", "Failed", "Error", "LongUrl", "UrlChanged", "Committed",
       "Interactive", "Complete"} \subseteq EventKinds
  BY DEF EventKinds
<1>4. \A m : m.fetch.view = v => CommitEvents(m) \in Seq(Event)
  BY <1>2, <1>3 DEF CommitEvents
<1> QED
  BY <1>2, <1>3, <1>4 DEF FailureEvents

\* An event changes the announced load state to a load state.
LEMMA LoadStateType ==
  ASSUME NEW k \in EventKinds, NEW s \in LoadStates
  PROVE  LoadStateAfter(k, s) \in LoadStates
  BY DEF LoadStateAfter, LoadStates, EventKinds

\* Nothing in the pipes changes.
LEMMA PipesUnchanged ==
  ASSUME PipesTypeOK, UNCHANGED pipeVars
  PROVE  PipesTypeOK'
  BY DEF PipesTypeOK, pipeVars

\* Only the fate of the process changes.
LEMMA ChildEnds ==
  ASSUME PipesTypeOK, UNCHANGED <<cmdPipe, cmdOpen, evPipe, evOpen, sent>>,
         child' \in ChildStates
  PROVE  PipesTypeOK'
  BY DEF PipesTypeOK

\* The updates the handlers make to an entry are entries.
LEMMA EntryUpdates ==
  ASSUME NEW vs \in [Views -> Entry], NEW v \in Views
  PROVE  /\ [vs EXCEPT ![v].active = NoNavigation] \in [Views -> Entry]
         /\ [vs EXCEPT ![v].active = NoNavigation, ![v].page = "None"]
              \in [Views -> Entry]
         /\ [vs EXCEPT ![v].page = "Some"] \in [Views -> Entry]
<1>1. \A e \in Entry : [e EXCEPT !.active = NoNavigation] \in Entry
  BY WorkerAssumption DEF Entry, NoNavigation
<1>2. \A e \in Entry : /\ [e EXCEPT !.page = "None"] \in Entry
                       /\ [e EXCEPT !.page = "Some"] \in Entry
  BY DEF Entry, Option
<1>3. \A e \in Entry :
        [e EXCEPT !.active = NoNavigation, !.page = "None"] \in Entry
  BY <1>1, <1>2
<1> QED
  BY <1>1, <1>2, <1>3

LEMMA EntryStarts ==
  ASSUME NEW vs \in [Views -> Entry], NEW v \in Views,
         NEW g \in 1..MaxGeneration, NEW n \in Nat
  PROVE  [vs EXCEPT ![v].generation = g, ![v].active = g,
                    ![v].requested = "Some", ![v].nav = n]
           \in [Views -> Entry]
<1>1. \A e \in Entry : /\ [e EXCEPT !.generation = g] \in Entry
                       /\ [e EXCEPT !.active = g] \in Entry
  BY WorkerAssumption DEF Entry
<1>2. \A e \in Entry : [e EXCEPT !.requested = "Some"] \in Entry
  BY DEF Entry, Option
<1>3. \A e \in Entry : [e EXCEPT !.nav = n] \in Entry
  BY DEF Entry
<1>4. \A e \in Entry : [e EXCEPT !.generation = g, !.active = g,
                                 !.requested = "Some", !.nav = n] \in Entry
  BY <1>1, <1>2, <1>3
<1> QED
  BY <1>4

\* start_navigation on a free slot keeps the types it touches.
LEMMA BeginType ==
  ASSUME TypeOK, NEW v \in Views, BeginNavigation(v)
  PROVE  /\ outbox' \in Seq(Event) /\ views' \in [Views -> Entry]
         /\ starts' \in Nat /\ spawning' \subseteq Fetch
<1> DEFINE g == NextGeneration(views[v].generation)
<1>1. views[v].generation \in 0..MaxGeneration /\ starts \in Nat
  BY DEF TypeOK, Entry
<1>2. g \in 1..MaxGeneration /\ starts + 1 \in Nat
  BY <1>1, WorkerAssumption DEF NextGeneration
<1>3. [view |-> v, generation |-> g, nav |-> starts + 1] \in Fetch
  BY <1>2 DEF Fetch
<1> HIDE DEF g
<1>4. views' = [views EXCEPT ![v].generation = g, ![v].active = g,
                             ![v].requested = "Some", ![v].nav = starts + 1]
  BY DEF BeginNavigation, g
<1>5. views' \in [Views -> Entry]
  BY <1>2, <1>4, EntryStarts DEF TypeOK
<1>6. spawning' = {[view |-> v, generation |-> g, nav |-> starts + 1]}
  BY DEF BeginNavigation, g
<1> QED
  BY <1>2, <1>3, <1>5, <1>6, EmitType DEF BeginNavigation, Emit

\* Every step preserves the type invariant.
LEMMA TypeStep ==
  ASSUME TypeOK, SlotInv, [Next]_vars
  PROVE  TypeOK'
<1> USE WorkerAssumption, PipeAssumption DEF MaxInflight
<1>1. CASE CreateView
  <2>1. queue' \in Seq(Message) /\ Len(queue') <= QueueDepth /\ Cmd \in Command
    BY <1>1, ReceiveType DEF CreateView, ReceiveCommand
  <2>2. Cmd.view \in Views /\ Cmd.profile \in Profiles
    BY <2>1 DEF Command
  <2>3. outbox' \in Seq(Event)
    BY <1>1, <2>2, EmitType DEF CreateView, ProtocolViolation, Emit
  <2>4. views' \in [Views -> Entry]
    BY <1>1, <2>2, EntryFacts DEF CreateView, TypeOK
  <2>5. profiles' \subseteq Profiles
    BY <1>1, <2>2, Zenon DEF CreateView, TypeOK
  <2>6. PipesTypeOK'
    BY <1>1, PipesUnchanged DEF CreateView, TypeOK
  <2> QED
    BY <1>1, <2>1, <2>3, <2>4, <2>5, <2>6 DEF CreateView, TypeOK
<1>2. CASE CloseView
  <2>1. queue' \in Seq(Message) /\ Len(queue') <= QueueDepth /\ Cmd \in Command
    BY <1>2, ReceiveType DEF CloseView, ReceiveCommand
  <2>2. Cmd.view \in Views
    BY <2>1 DEF Command
  <2>3. outbox' \in Seq(Event)
    BY <1>2, <2>2, EmitType DEF CloseView, ProtocolViolation, Emit
  <2>4. views' \in [Views -> Entry]
    BY <1>2, <2>2, EntryFacts DEF CloseView, TypeOK
  <2>5. PipesTypeOK'
    BY <1>2, PipesUnchanged DEF CloseView, TypeOK
  <2> QED
    BY <1>2, <2>1, <2>3, <2>4, <2>5 DEF CloseView, TypeOK
<1>3. ASSUME NEW v \in Views, StartNavigation(v)
      PROVE  /\ outbox' \in Seq(Event) /\ views' \in [Views -> Entry]
             /\ starts' \in Nat /\ spawning' \subseteq Fetch
  <2>1. CASE UNCHANGED <<views, starts, spawning>> /\ outbox' = <<Ev("Crashed", v)>>
    BY <2>1, EmitType DEF TypeOK
  <2>2. CASE UNCHANGED <<views, starts, spawning>> /\ outbox' = <<Ev("Busy", v)>>
    BY <2>2, EmitType DEF TypeOK
  <2>3. CASE BeginNavigation(v)
    BY <1>3, <2>3, BeginType
  <2> QED
    BY <1>3, <2>1, <2>2, <2>3 DEF StartNavigation, ProtocolViolation, Emit
<1>4. CASE Navigate
  <2>1. queue' \in Seq(Message) /\ Len(queue') <= QueueDepth /\ Cmd \in Command
    BY <1>4, ReceiveType DEF Navigate, ReceiveCommand
  <2>2. Cmd.view \in Views
    BY <2>1 DEF Command
  <2>3. PipesTypeOK'
    BY <1>4, PipesUnchanged DEF Navigate, TypeOK
  <2>4. StartNavigation(Cmd.view)
    BY <1>4 DEF Navigate
  <2> QED
    BY <1>3, <1>4, <2>1, <2>2, <2>3, <2>4 DEF Navigate, TypeOK
<1>5. CASE Reload
  <2>1. queue' \in Seq(Message) /\ Len(queue') <= QueueDepth /\ Cmd \in Command
    BY <1>5, ReceiveType DEF Reload, ReceiveCommand
  <2>2. Cmd.view \in Views
    BY <2>1 DEF Command
  <2>3. PipesTypeOK'
    BY <1>5, PipesUnchanged DEF Reload, TypeOK
  <2>4. /\ outbox' \in Seq(Event) /\ views' \in [Views -> Entry]
        /\ starts' \in Nat /\ spawning' \subseteq Fetch
    BY <1>3, <1>5, <2>2, EmitType DEF Reload, ProtocolViolation, Emit, TypeOK
  <2> QED
    BY <1>5, <2>1, <2>3, <2>4 DEF Reload, TypeOK
<1>6. CASE Stop
  <2>1. queue' \in Seq(Message) /\ Len(queue') <= QueueDepth /\ Cmd \in Command
    BY <1>6, ReceiveType DEF Stop, ReceiveCommand
  <2>2. Cmd.view \in Views
    BY <2>1 DEF Command
  <2>3. outbox' \in Seq(Event)
    BY <1>6, <2>2, EmitType DEF Stop, ProtocolViolation, Emit, TypeOK
  <2>4. views' \in [Views -> Entry]
    <3>1. views \in [Views -> Entry]
      BY DEF TypeOK
    <3>2. \/ views' = views
          \/ views' = [views EXCEPT ![Cmd.view].active = NoNavigation]
      BY <1>6 DEF Stop
    <3>3. [views EXCEPT ![Cmd.view].active = NoNavigation] \in [Views -> Entry]
      BY <2>2, <3>1, EntryUpdates
    <3> QED
      BY <3>1, <3>2, <3>3
  <2>5. PipesTypeOK'
    BY <1>6, PipesUnchanged DEF Stop, TypeOK
  <2> QED
    BY <1>6, <2>1, <2>3, <2>4, <2>5 DEF Stop, TypeOK
<1>7. ASSUME UNCHANGED <<cmdPipe, cmdOpen, evPipe, evOpen, sent>>,
             child' \in ChildStates
      PROVE  PipesTypeOK'
  BY <1>7, ChildEnds DEF TypeOK
<1>8. CASE UnboundCommand
  <2>1. queue' \in Seq(Message) /\ Len(queue') <= QueueDepth
    BY <1>8, ReceiveType DEF UnboundCommand, ReceiveCommand
  <2>2. PipesTypeOK'
    BY <1>7, <1>8 DEF UnboundCommand, ChildStates
  <2> QED
    BY <1>8, <2>1, <2>2 DEF UnboundCommand, TypeOK
<1>9. CASE StreamEnds
  <2>1. queue' \in Seq(Message) /\ Len(queue') <= QueueDepth
    BY <1>9, ReceiveType DEF StreamEnds
  <2>2. PipesTypeOK'
    BY <1>7, <1>9 DEF StreamEnds, ChildStates
  <2> QED
    BY <1>9, <2>1, <2>2 DEF StreamEnds, TypeOK
<1>10. CASE Shutdown
  <2>1. queue' \in Seq(Message) /\ Len(queue') <= QueueDepth
    BY <1>10, ReceiveType DEF Shutdown, ReceiveCommand
  <2>2. PipesTypeOK'
    BY <1>10, PipesUnchanged DEF Shutdown, TypeOK
  <2>3. draining' \in BOOLEAN
    BY <1>10, Zenon DEF Shutdown
  <2> QED
    BY <1>10, <2>1, <2>2, <2>3 DEF Shutdown, TypeOK
<1>11. CASE CloseNextView
  <2>1. PICK v \in Views : /\ views' = [views EXCEPT ![v] = Absent]
                           /\ outbox' = <<Ev("ViewClosed", v)>>
    BY <1>11 DEF CloseNextView, Emit
  <2>2. views' \in [Views -> Entry]
    BY <2>1, EntryFacts DEF TypeOK
  <2>3. outbox' \in Seq(Event)
    BY <2>1, EmitType
  <2>4. PipesTypeOK'
    BY <1>11, PipesUnchanged DEF CloseNextView, TypeOK
  <2> QED
    BY <1>11, <2>2, <2>3, <2>4 DEF CloseNextView, TypeOK
<1>12. CASE DrainDone
  <2>1. PipesTypeOK'
    BY <1>7, <1>12 DEF DrainDone, ChildStates
  <2> QED
    BY <1>12, <2>1 DEF DrainDone, TypeOK
<1>13. CASE NavigationComplete
  <2> DEFINE f == Head(queue).fetch
  <2>1. /\ queue' \in Seq(Message) /\ Len(queue') <= QueueDepth
        /\ Head(queue) \in CompleteMessage /\ f \in Fetch
    BY <1>13, ReceiveType DEF NavigationComplete
  <2>2. f.view \in Views
    BY <2>1 DEF Fetch
  <2>3. inflight' \in 0..MaxInflight
    BY <1>13 DEF NavigationComplete, SlotFreed, TypeOK
  <2>4. views \in [Views -> Entry]
    BY DEF TypeOK
  <2>5. \/ views' = views
        \/ views' = [views EXCEPT ![f.view].active = NoNavigation]
        \/ views' = [views EXCEPT ![f.view].active = NoNavigation,
                                  ![f.view].page = "None"]
    BY <1>13 DEF NavigationComplete
  <2>6. building' = building \/ building' = {Head(queue)}
    BY <1>13 DEF NavigationComplete
  <2>7. outbox' = outbox \/ outbox' = FailureEvents(f.view)
    BY <1>13 DEF NavigationComplete, Emit
  <2> HIDE DEF f
  <2>8. views' \in [Views -> Entry]
    <3>1. [views EXCEPT ![f.view].active = NoNavigation] \in [Views -> Entry]
      BY <2>2, <2>4, EntryUpdates
    <3>2. [views EXCEPT ![f.view].active = NoNavigation,
                        ![f.view].page = "None"] \in [Views -> Entry]
      BY <2>2, <2>4, EntryUpdates
    <3> QED
      BY <2>4, <2>5, <3>1, <3>2
  <2>9. building' \subseteq CompleteMessage
    BY <2>1, <2>6 DEF TypeOK
  <2>10. outbox' \in Seq(Event)
    BY <2>2, <2>7, EmitType DEF TypeOK
  <2>11. PipesTypeOK'
    BY <1>13, PipesUnchanged DEF NavigationComplete, TypeOK
  <2> QED
    BY <1>13, <2>1, <2>3, <2>8, <2>9, <2>10, <2>11
       DEF NavigationComplete, TypeOK
<1>14. CASE BuildReturns
  <2>1. PICK m \in building :
          \/ /\ views' = [views EXCEPT ![m.fetch.view].page = "Some"]
             /\ outbox' = CommitEvents(m)
          \/ outbox' = FailureEvents(m.fetch.view) /\ views' = views
    BY <1>14 DEF BuildReturns, Emit
  <2>2. m.fetch.view \in Views /\ views \in [Views -> Entry]
    BY DEF TypeOK, CompleteMessage, Fetch
  <2>3. [views EXCEPT ![m.fetch.view].page = "Some"] \in [Views -> Entry]
    BY <2>2, EntryUpdates
  <2>4. views' \in [Views -> Entry]
    BY <2>1, <2>2, <2>3
  <2>5. outbox' \in Seq(Event)
    BY <2>1, <2>2, EmitType
  <2>6. PipesTypeOK'
    BY <1>14, PipesUnchanged DEF BuildReturns, TypeOK
  <2> QED
    BY <1>14, <2>4, <2>5, <2>6 DEF BuildReturns, TypeOK
<1>15. CASE WriteEvent
  <2>1. outbox \in Seq(Event) /\ outbox # << >> /\ evPipe \in Seq(Event)
    BY <1>15 DEF WriteEvent, TypeOK, PipesTypeOK
  <2>2. Head(outbox) \in Event /\ Tail(outbox) \in Seq(Event)
    BY <2>1, TailFacts
  <2>3. Append(evPipe, Head(outbox)) \in Seq(Event)
    BY <2>1, <2>2, AppendFacts
  <2>4. Head(outbox).kind \in EventKinds /\ Head(outbox).view \in Views
    BY <2>2 DEF Event
  <2>5. announced' \in [Views -> LoadStates]
    <3>1. announced \in [Views -> LoadStates]
      BY DEF TypeOK
    <3>2. LoadStateAfter(Head(outbox).kind, announced[Head(outbox).view])
            \in LoadStates
      BY <2>4, <3>1, LoadStateType
    <3> QED
      BY <1>15, <2>4, <3>1, <3>2 DEF WriteEvent
  <2>6. PipesTypeOK'
    BY <1>15, <2>3 DEF WriteEvent, TypeOK, PipesTypeOK
  <2> QED
    BY <1>15, <2>2, <2>5, <2>6 DEF WriteEvent, TypeOK
<1>16. CASE WriteFails \/ SpawnFails
  <2>1. PipesTypeOK'
    BY <1>7, <1>16 DEF WriteFails, SpawnFails, ChildStates
  <2> QED
    BY <1>16, <2>1 DEF WriteFails, SpawnFails, TypeOK, workerVars
<1>17. CASE SpawnFetch
  <2>1. inflight' = 1
    BY <1>17 DEF SpawnFetch, SlotInv
  <2>2. fetches' \subseteq Fetch /\ spawning' \subseteq Fetch
    BY <1>17 DEF SpawnFetch, TypeOK
  <2>3. PipesTypeOK'
    BY <1>17, PipesUnchanged DEF SpawnFetch, TypeOK
  <2> QED
    BY <1>17, <2>1, <2>2, <2>3 DEF SpawnFetch, TypeOK
<1>18. CASE ReadCommand
  <2>1. cmdPipe \in Seq(Command) /\ cmdPipe # << >> /\ Len(cmdPipe) <= PipeDepth
    BY <1>18 DEF ReadCommand, TypeOK, PipesTypeOK
  <2>2. /\ Head(cmdPipe) \in Command /\ Tail(cmdPipe) \in Seq(Command)
        /\ Len(Tail(cmdPipe)) = Len(cmdPipe) - 1
    BY <2>1, TailFacts
  <2>3. CommandMessageFor(Head(cmdPipe)) \in Message
    BY <2>2 DEF CommandMessageFor, Message, CommandMessage, StreamMessage
  <2>4. queue' \in Seq(Message) /\ Len(queue') <= QueueDepth
    BY <1>18, <2>3, AppendFacts DEF ReadCommand, TypeOK
  <2>5. readerDone' \in BOOLEAN
    BY <1>18, Zenon DEF ReadCommand
  <2>6. PipesTypeOK'
    <3>1. Len(Tail(cmdPipe)) <= PipeDepth
      BY <2>1, <2>2
    <3> QED
      BY <1>18, <2>2, <3>1 DEF ReadCommand, TypeOK, PipesTypeOK
  <2> QED
    BY <1>18, <2>4, <2>5, <2>6 DEF ReadCommand, TypeOK
<1>19. CASE ReadEndOfFile
  <2>1. [kind |-> "CommandStreamClosed"] \in Message
    BY DEF Message, StreamMessage
  <2>2. queue' \in Seq(Message) /\ Len(queue') <= QueueDepth
    BY <1>19, <2>1, AppendFacts DEF ReadEndOfFile, TypeOK
  <2>3. readerDone' \in BOOLEAN
    BY <1>19, Zenon DEF ReadEndOfFile
  <2>4. PipesTypeOK'
    BY <1>19, PipesUnchanged DEF ReadEndOfFile, TypeOK
  <2> QED
    BY <1>19, <2>2, <2>3, <2>4 DEF ReadEndOfFile, TypeOK
<1>20. ASSUME NEW f \in fetches, NEW r \in Results, FetchReturns(f, r)
       PROVE  TypeOK'
  <2>1. [kind |-> "NavigationComplete", fetch |-> f, result |-> r] \in Message
    BY DEF Message, CompleteMessage, TypeOK
  <2>2. queue' \in Seq(Message) /\ Len(queue') <= QueueDepth
    BY <1>20, <2>1, AppendFacts DEF FetchReturns, TypeOK
  <2>3. PipesTypeOK'
    BY <1>20, PipesUnchanged DEF FetchReturns, TypeOK
  <2> QED
    BY <1>20, <2>2, <2>3 DEF FetchReturns, TypeOK
<1>21. CASE Shell
  <2>1. UNCHANGED workerVars
    BY <1>21 DEF Shell, ShellSends, ShellClosesCommands, ShellReadsEvent,
                 ShellStopsReading
  <2>2. ASSUME ShellSends PROVE PipesTypeOK'
    <3>1. PICK c \in Command : SendCommand(c)
      BY <2>2 DEF ShellSends
    <3>2. cmdPipe' \in Seq(Command) /\ Len(cmdPipe') <= PipeDepth
      BY <3>1, AppendFacts DEF SendCommand, TypeOK, PipesTypeOK
    <3> QED
      BY <3>1, <3>2 DEF SendCommand, TypeOK, PipesTypeOK
  <2>3. ASSUME ShellClosesCommands \/ ShellStopsReading PROVE PipesTypeOK'
    <3>1. cmdOpen' \in BOOLEAN /\ evOpen' \in BOOLEAN
      BY <2>3, Zenon DEF ShellClosesCommands, ShellStopsReading, TypeOK, PipesTypeOK
    <3>2. UNCHANGED <<cmdPipe, evPipe, child, sent>>
      BY <2>3 DEF ShellClosesCommands, ShellStopsReading
    <3> QED
      BY <3>1, <3>2 DEF TypeOK, PipesTypeOK
  <2>4. ASSUME ShellReadsEvent PROVE PipesTypeOK'
    <3>1. evPipe' \in Seq(Event)
      BY <2>4, TailFacts DEF ShellReadsEvent, TypeOK, PipesTypeOK
    <3> QED
      BY <2>4, <3>1 DEF ShellReadsEvent, TypeOK, PipesTypeOK
  <2>5. PipesTypeOK'
    BY <1>21, <2>2, <2>3, <2>4 DEF Shell, TypeOK
  <2> QED
    BY <2>1, <2>5 DEF TypeOK, workerVars
<1>22. CASE UNCHANGED vars
  BY <1>22 DEF vars, pipeVars, workerVars, TypeOK, PipesTypeOK
<1> QED
  BY <1>1, <1>2, <1>4, <1>5, <1>6, <1>8, <1>9, <1>10, <1>11, <1>12, <1>13,
     <1>14, <1>15, <1>16, <1>17, <1>18, <1>19, <1>20, <1>21, <1>22
     DEF Next, WorkerNext, CommandReader, Fetching, Actor

-----------------------------------------------------------------------------
(***************************************************************************)
(* The slot.                                                               *)
(***************************************************************************)

\* After a message is taken, what is queued was queued one place behind.
LEMMA QueueTail ==
  ASSUME TypeOK, queue # << >>, queue' = Tail(queue)
  PROVE  /\ 1 \in 1..Len(queue) /\ Head(queue) = queue[1]
         /\ \A i \in 1..Len(queue)' :
              i + 1 \in 1..Len(queue) /\ queue'[i] = queue[i + 1] /\ i + 1 # 1
<1>1. queue \in Seq(Message)
  BY DEF TypeOK
<1>2. \A i \in 1..Len(Tail(queue)) : i + 1 # 1
  BY <1>1
<1> QED
  BY <1>1, <1>2, TailFacts

\* After a message is added, what is queued was queued or is the message.
LEMMA QueueAppend ==
  ASSUME TypeOK, NEW m \in Message, queue' = Append(queue, m)
  PROVE  \A i \in 1..Len(queue)' :
           \/ i \in 1..Len(queue) /\ queue'[i] = queue[i]
           \/ queue'[i] = m /\ i = Len(queue) + 1 /\ i \notin 1..Len(queue)
<1>1. queue \in Seq(Message) /\ Len(queue) \in Nat
  BY DEF TypeOK
<1>2. Len(queue) + 1 \notin 1..Len(queue)
  BY <1>1
<1> QED
  BY <1>1, <1>2, AppendFacts

\* Taking any message keeps the slot's account when nothing else changes.
LEMMA SlotTail ==
  ASSUME TypeOK, SlotInv, queue # << >>, queue' = Tail(queue),
         UNCHANGED <<fetches, spawning, inflight>>
  PROVE  SlotInv'
<1>1. \A i, j \in 1..Len(queue)' : IsComplete(i)' /\ IsComplete(j)' => i = j
  <2> TAKE i, j \in 1..Len(queue)'
  <2>1. /\ i + 1 \in 1..Len(queue) /\ queue'[i] = queue[i + 1]
        /\ j + 1 \in 1..Len(queue) /\ queue'[j] = queue[j + 1]
    BY QueueTail
  <2>2. IsComplete(i)' /\ IsComplete(j)' => i + 1 = j + 1
    BY <2>1 DEF SlotInv, IsComplete
  <2>3. i \in Nat /\ j \in Nat
    OBVIOUS
  <2> QED
    BY <2>2, <2>3
<1>2. \A i \in 1..Len(queue)' : IsComplete(i)' =>
        \E k \in 1..Len(queue) : IsComplete(k)
  BY QueueTail DEF IsComplete
<1> QED
  BY <1>1, <1>2 DEF SlotInv

\* So does adding a message that is not a completion.
LEMMA SlotAppend ==
  ASSUME TypeOK, SlotInv, NEW m \in Message, m.kind # "NavigationComplete",
         queue' = Append(queue, m), UNCHANGED <<fetches, spawning, inflight>>
  PROVE  SlotInv'
<1>1. \A i \in 1..Len(queue)' : IsComplete(i)' =>
        i \in 1..Len(queue) /\ IsComplete(i)
  BY QueueAppend DEF IsComplete
<1> QED
  BY <1>1 DEF SlotInv

\* A command the reader has decoded is not a completion.
LEMMA ReaderMessage ==
  ASSUME NEW c \in Command
  PROVE  /\ CommandMessageFor(c) \in Message
         /\ CommandMessageFor(c).kind # "NavigationComplete"
  BY DEF CommandMessageFor, Message, CommandMessage, StreamMessage

\* Every step preserves the slot's account.
LEMMA SlotStep ==
  ASSUME TypeOK, SlotInv, [Next]_vars
  PROVE  SlotInv'
<1>1. CASE UNCHANGED <<queue, fetches, spawning, inflight>>
  BY <1>1 DEF SlotInv, IsComplete
<1>2. CASE CreateView \/ CloseView \/ Stop \/ UnboundCommand \/ StreamEnds
             \/ Shutdown
  <2>1. /\ queue # << >> /\ queue' = Tail(queue)
        /\ UNCHANGED <<fetches, spawning, inflight>>
    BY <1>2 DEF CreateView, CloseView, Stop, UnboundCommand, StreamEnds,
                Shutdown, ReceiveCommand, Receive
  <2> QED
    BY <2>1, SlotTail
<1>3. CASE Navigate \/ Reload
  <2>1. /\ queue # << >> /\ queue' = Tail(queue)
        /\ UNCHANGED <<fetches, inflight>>
    BY <1>3 DEF Navigate, Reload, ReceiveCommand, Receive
  <2>2. CASE UNCHANGED spawning
    BY <2>1, <2>2, SlotTail
  <2>3. CASE inflight < MaxInflight /\ \E f : spawning' = {f}
    <3>1. inflight = 0
      BY <2>3 DEF TypeOK, MaxInflight
    <3>2. fetches = {} /\ \A i \in 1..Len(queue) : ~IsComplete(i)
      BY <3>1 DEF SlotInv
    <3>3. \A i \in 1..Len(queue)' : ~IsComplete(i)'
      BY <2>1, <3>2, QueueTail DEF IsComplete
    <3> QED
      BY <2>1, <2>3, <3>1, <3>2, <3>3 DEF SlotInv
  <2> QED
    BY <1>3, <2>2, <2>3 DEF Navigate, Reload, StartNavigation, BeginNavigation
<1>4. CASE NavigationComplete
  <2>1. /\ queue # << >> /\ queue' = Tail(queue) /\ spawning = {}
        /\ Head(queue).kind = "NavigationComplete"
        /\ UNCHANGED <<fetches, spawning>> /\ inflight' = SlotFreed
    BY <1>4 DEF NavigationComplete, Receive, ActorIdle
  <2>2. 1 \in 1..Len(queue) /\ IsComplete(1)
    BY <2>1, QueueTail DEF IsComplete
  <2>3. fetches = {} /\ \A i \in 1..Len(queue)' : ~IsComplete(i)'
    BY <2>1, <2>2, QueueTail DEF SlotInv, IsComplete
  <2> QED
    BY <2>1, <2>3 DEF SlotInv
<1>5. ASSUME NEW f \in fetches, NEW r \in Results, FetchReturns(f, r)
      PROVE  SlotInv'
  <2> DEFINE m == [kind |-> "NavigationComplete", fetch |-> f, result |-> r]
  <2>1. m \in Message
    BY DEF Message, CompleteMessage, TypeOK
  <2>2. /\ queue' = Append(queue, m) /\ fetches' = fetches \ {f}
        /\ UNCHANGED <<inflight, spawning>>
    BY <1>5 DEF FetchReturns
  <2> HIDE DEF m
  <2>3. /\ fetches' = {} /\ inflight = 1
        /\ \A i \in 1..Len(queue) : ~IsComplete(i)
    BY <2>2 DEF SlotInv
  <2>4. \A i \in 1..Len(queue)' : IsComplete(i)' => i = Len(queue) + 1
    BY <2>1, <2>2, <2>3, QueueAppend DEF IsComplete
  <2> QED
    BY <2>2, <2>3, <2>4 DEF SlotInv
<1>6. CASE ReadCommand
  <2>1. Head(cmdPipe) \in Command
    BY <1>6, TailFacts DEF ReadCommand, TypeOK, PipesTypeOK
  <2> QED
    BY <1>6, <2>1, ReaderMessage, SlotAppend DEF ReadCommand
<1>7. CASE ReadEndOfFile
  <2>1. [kind |-> "CommandStreamClosed"] \in Message
    BY DEF Message, StreamMessage
  <2> QED
    BY <1>7, <2>1, SlotAppend DEF ReadEndOfFile
<1>8. CASE SpawnFetch
  <2>1. inflight = 0 /\ fetches = {} /\ \A i \in 1..Len(queue) : ~IsComplete(i)
    BY <1>8 DEF SpawnFetch, SlotInv
  <2>2. /\ fetches' = spawning /\ spawning' = {} /\ inflight' = 1
        /\ UNCHANGED queue
    BY <1>8, <2>1 DEF SpawnFetch
  <2> QED
    BY <2>1, <2>2 DEF SlotInv, IsComplete
<1>9. CASE CloseNextView \/ DrainDone \/ BuildReturns \/ WriteEvent
             \/ WriteFails \/ SpawnFails \/ Shell \/ UNCHANGED vars
  BY <1>1, <1>9 DEF CloseNextView, DrainDone, BuildReturns, WriteEvent,
                    WriteFails, SpawnFails, Shell, ShellSends,
                    ShellClosesCommands, ShellReadsEvent, ShellStopsReading,
                    vars, workerVars
<1> QED
  BY <1>2, <1>3, <1>4, <1>5, <1>6, <1>7, <1>8, <1>9
     DEF Next, WorkerNext, CommandReader, Fetching, Actor

-----------------------------------------------------------------------------
(***************************************************************************)
(* Identity.                                                               *)
(***************************************************************************)

\* A view whose own fields are kept stays linked when the fetches do and no
\* completion is added.
LEMMA LinkKept ==
  ASSUME NEW v \in Views, Linked(v), UNCHANGED <<fetches, spawning, inflight>>,
         views'[v].status = views[v].status,
         views'[v].active = views[v].active,
         views'[v].nav = views[v].nav,
         \A i \in 1..Len(queue)' : IsComplete(i)' =>
           \E k \in 1..Len(queue) : IsComplete(k) /\ queue'[i] = queue[k]
  PROVE  Linked(v)'
<1>1. \A f : Awaited(v, f)' <=> Awaited(v, f)
  BY DEF Awaited
<1>2. Present(v)'
  BY DEF Linked, Present
<1>3. \A i \in 1..Len(queue)' : IsComplete(i)' => Awaited(v, queue'[i].fetch)
  BY DEF Linked
<1>4. \A i \in 1..Len(queue)' : IsComplete(i)' => Awaited(v, queue[i].fetch)'
  BY <1>1, <1>3
<1> QED
  BY <1>1, <1>2, <1>4 DEF Linked

\* A message taken from the queue leaves only completions that were there.
LEMMA TailCompletes ==
  ASSUME TypeOK, queue # << >>, queue' = Tail(queue)
  PROVE  \A i \in 1..Len(queue)' : IsComplete(i)' =>
           \E k \in 1..Len(queue) : IsComplete(k) /\ queue'[i] = queue[k]
  BY QueueTail DEF IsComplete

LEMMA SameCompletes ==
  ASSUME queue' = queue
  PROVE  \A i \in 1..Len(queue)' : IsComplete(i)' =>
           \E k \in 1..Len(queue) : IsComplete(k) /\ queue'[i] = queue[k]
  BY DEF IsComplete

LEMMA AppendCompletes ==
  ASSUME TypeOK, NEW m \in Message, m.kind # "NavigationComplete",
         queue' = Append(queue, m)
  PROVE  \A i \in 1..Len(queue)' : IsComplete(i)' =>
           \E k \in 1..Len(queue) : IsComplete(k) /\ queue'[i] = queue[k]
  BY QueueAppend DEF IsComplete

\* While no fetch is about to start, running or queued, no view waits.
LEMMA FreeSlotNoneWait ==
  ASSUME LinkInv, inflight = 0, spawning = {}
  PROVE  \A v \in Views : views[v].active = NoNavigation
  BY DEF LinkInv, Linked

\* BeginNavigation links the view it starts.
LEMMA BeginLink ==
  ASSUME TypeOK, SlotInv, LinkInv, NEW v \in Views, BeginNavigation(v),
         Present(v), inflight < MaxInflight, spawning = {},
         queue # << >>, queue' = Tail(queue), UNCHANGED <<fetches, inflight>>
  PROVE  LinkInv'
<1> DEFINE g == NextGeneration(views[v].generation)
<1>1. /\ views' = [views EXCEPT ![v].generation = g, ![v].active = g,
                                ![v].requested = "Some", ![v].nav = starts + 1]
      /\ spawning' = {[view |-> v, generation |-> g, nav |-> starts + 1]}
  BY DEF BeginNavigation
<1> HIDE DEF g
<1>2. inflight = 0
  BY DEF TypeOK, MaxInflight
<1>3. fetches = {} /\ \A i \in 1..Len(queue) : ~IsComplete(i)
  BY <1>2 DEF SlotInv
<1>4. fetches' = {} /\ \A i \in 1..Len(queue)' : ~IsComplete(i)'
  BY <1>3, TailCompletes
<1>5. \A w \in Views : views[w].active = NoNavigation
  BY <1>2, FreeSlotNoneWait
<1>6. views \in [Views -> Entry] /\ views[v] \in Entry
  BY DEF TypeOK
<1>7. /\ views'[v].status = views[v].status /\ views'[v].active = g
      /\ views'[v].nav = starts + 1
  BY <1>1, <1>6 DEF Entry
<1>8. \A w \in Views : w # v => views'[w].active = NoNavigation
  BY <1>1, <1>5, <1>6
<1>9. Linked(v)'
  BY <1>1, <1>4, <1>7 DEF Linked, Present, Awaited
<1> QED
  BY <1>8, <1>9 DEF LinkInv

\* Every step preserves the link.
LEMMA LinkStep ==
  ASSUME TypeOK, SlotInv, LinkInv, [Next]_vars
  PROVE  LinkInv'
<1> DEFINE Kept ==
      \A i \in 1..Len(queue)' : IsComplete(i)' =>
        \E k \in 1..Len(queue) : IsComplete(k) /\ queue'[i] = queue[k]
<1>1. ASSUME Kept, UNCHANGED <<fetches, spawning, inflight>>,
             \A v \in Views : views'[v].active # NoNavigation =>
               /\ views'[v].status = views[v].status
               /\ views'[v].active = views[v].active
               /\ views'[v].nav = views[v].nav
      PROVE  LinkInv'
  BY <1>1, LinkKept DEF LinkInv
<1> HIDE DEF Kept
<1>2. queue' = queue => Kept
  BY SameCompletes DEF Kept
<1>3. ASSUME NEW k, Receive(k) PROVE queue # << >> /\ queue' = Tail(queue) /\ Kept
  BY <1>3, TailCompletes DEF Receive, Kept
<1>4. views \in [Views -> Entry]
  BY DEF TypeOK
<1>5. ASSUME NEW v \in Views, NEW e \in Entry, e.active = NoNavigation,
             views' = [views EXCEPT ![v] = e]
      PROVE  \A w \in Views : views'[w].active # NoNavigation =>
                                views'[w] = views[w]
  BY <1>4, <1>5
<1>6. ASSUME NEW v \in Views,
             views' = [views EXCEPT ![v].active = NoNavigation]
      PROVE  /\ views'[v].active = NoNavigation
             /\ \A w \in Views : w # v => views'[w] = views[w]
  BY <1>4, <1>6 DEF Entry
<1>7. CASE CreateView
  <2>1. Cmd \in Command /\ Kept
    BY <1>3, <1>7, ReceiveType DEF CreateView, ReceiveCommand
  <2>2. Cmd.view \in Views
    BY <2>1 DEF Command
  <2>3. \A w \in Views : views'[w].active # NoNavigation => views'[w] = views[w]
    <3>1. views' = views \/ views' = [views EXCEPT ![Cmd.view] = NewView]
      BY <1>7 DEF CreateView
    <3> QED
      BY <1>5, <2>2, <3>1, EntryFacts
  <2>4. UNCHANGED <<fetches, spawning, inflight>>
    BY <1>7 DEF CreateView
  <2> QED
    BY <1>1, <2>1, <2>3, <2>4
<1>8. CASE CloseView
  <2>1. Cmd \in Command /\ Kept
    BY <1>3, <1>8, ReceiveType DEF CloseView, ReceiveCommand
  <2>2. Cmd.view \in Views
    BY <2>1 DEF Command
  <2>3. \A w \in Views : views'[w].active # NoNavigation => views'[w] = views[w]
    <3>1. views' = views \/ views' = [views EXCEPT ![Cmd.view] = Absent]
      BY <1>8 DEF CloseView
    <3> QED
      BY <1>5, <2>2, <3>1, EntryFacts
  <2>4. UNCHANGED <<fetches, spawning, inflight>>
    BY <1>8 DEF CloseView
  <2> QED
    BY <1>1, <2>1, <2>3, <2>4
<1>9. CASE Navigate \/ Reload
  <2>1. /\ Cmd \in Command /\ Kept /\ queue # << >> /\ queue' = Tail(queue)
        /\ spawning = {}
    BY <1>3, <1>9, ReceiveType
       DEF Navigate, Reload, ReceiveCommand, Receive, ActorIdle
  <2>2. Cmd.view \in Views
    BY <2>1 DEF Command
  <2>3. UNCHANGED <<fetches, inflight>>
    BY <1>9 DEF Navigate, Reload
  <2>4. CASE UNCHANGED <<views, spawning>>
    BY <1>1, <2>1, <2>3, <2>4
  <2>5. CASE /\ Present(Cmd.view) /\ inflight < MaxInflight
             /\ BeginNavigation(Cmd.view)
    BY <2>1, <2>2, <2>3, <2>5, BeginLink
  <2> QED
    BY <1>9, <2>4, <2>5 DEF Navigate, Reload, StartNavigation
<1>10. CASE Stop
  <2>1. Cmd \in Command /\ Kept
    BY <1>3, <1>10, ReceiveType DEF Stop, ReceiveCommand
  <2>2. Cmd.view \in Views
    BY <2>1 DEF Command
  <2>3. \A w \in Views : views'[w].active # NoNavigation => views'[w] = views[w]
    <3>1. \/ views' = views
          \/ views' = [views EXCEPT ![Cmd.view].active = NoNavigation]
      BY <1>10 DEF Stop
    <3> QED
      BY <1>6, <2>2, <3>1
  <2>4. UNCHANGED <<fetches, spawning, inflight>>
    BY <1>10 DEF Stop
  <2> QED
    BY <1>1, <2>1, <2>3, <2>4
<1>11. CASE UnboundCommand \/ StreamEnds \/ Shutdown
  <2>1. Kept
    BY <1>3, <1>11 DEF UnboundCommand, StreamEnds, Shutdown, ReceiveCommand
  <2>2. UNCHANGED <<views, fetches, spawning, inflight>>
    BY <1>11 DEF UnboundCommand, StreamEnds, Shutdown
  <2> QED
    BY <1>1, <2>1, <2>2
<1>12. CASE CloseNextView
  <2>1. PICK v \in Views : views' = [views EXCEPT ![v] = Absent]
    BY <1>12 DEF CloseNextView
  <2>2. \A w \in Views : views'[w].active # NoNavigation => views'[w] = views[w]
    BY <1>5, <2>1, EntryFacts
  <2>3. Kept /\ UNCHANGED <<fetches, spawning, inflight>>
    BY <1>2, <1>12 DEF CloseNextView
  <2> QED
    BY <1>1, <2>2, <2>3
<1>13. CASE NavigationComplete
  <2> DEFINE f == Head(queue).fetch
  <2>1. /\ Head(queue).kind = "NavigationComplete" /\ queue # << >>
        /\ queue' = Tail(queue)
    BY <1>13 DEF NavigationComplete, Receive
  <2>2. 1 \in 1..Len(queue) /\ IsComplete(1) /\ f = queue[1].fetch
    BY <2>1, QueueTail DEF IsComplete
  <2>3. f.view \in Views
    BY <1>13, ReceiveType DEF NavigationComplete, Fetch
  <2>4. \A v \in Views : views[v].active # NoNavigation =>
                           v = f.view /\ Accepts(f)
    BY <2>2 DEF LinkInv, Linked, Awaited, Accepts, Present
  <2>5. \/ ~Accepts(f) /\ views' = views
        \/ views' = [views EXCEPT ![f.view].active = NoNavigation]
        \/ views' = [views EXCEPT ![f.view].active = NoNavigation,
                                  ![f.view].page = "None"]
    BY <1>13 DEF NavigationComplete
  <2> HIDE DEF f
  <2>6. \A v \in Views : views'[v].active = NoNavigation
    <3>1. CASE ~Accepts(f) /\ views' = views
      BY <2>4, <3>1
    <3>2. CASE views' = [views EXCEPT ![f.view].active = NoNavigation]
      <4>1. /\ views'[f.view].active = NoNavigation
            /\ \A v \in Views : v # f.view => views'[v] = views[v]
        BY <1>6, <2>3, <3>2
      <4> QED
        BY <2>4, <4>1
    <3>3. CASE views' = [views EXCEPT ![f.view].active = NoNavigation,
                                      ![f.view].page = "None"]
      <4>1. views'[f.view].active = NoNavigation
        BY <1>4, <2>3, <3>3 DEF Entry
      <4>2. \A v \in Views : v # f.view => views'[v] = views[v]
        BY <1>4, <2>3, <3>3
      <4> QED
        BY <2>4, <4>1, <4>2
    <3> QED
      BY <2>5, <3>1, <3>2, <3>3
  <2> QED
    BY <2>6 DEF LinkInv
<1>14. CASE BuildReturns
  <2>1. PICK m \in building :
          \/ views' = [views EXCEPT ![m.fetch.view].page = "Some"]
          \/ views' = views
    BY <1>14 DEF BuildReturns
  <2>2. m.fetch.view \in Views
    BY DEF TypeOK, CompleteMessage, Fetch
  <2>3. \A w \in Views : /\ views'[w].status = views[w].status
                         /\ views'[w].active = views[w].active
                         /\ views'[w].nav = views[w].nav
    BY <1>4, <2>1, <2>2 DEF Entry
  <2>4. Kept /\ UNCHANGED <<fetches, spawning, inflight>>
    BY <1>2, <1>14 DEF BuildReturns
  <2> QED
    BY <1>1, <2>3, <2>4
<1>15. CASE SpawnFetch
  <2>1. /\ spawning # {} /\ spawning' = {} /\ fetches' = fetches \cup spawning
        /\ inflight' = inflight + 1 /\ UNCHANGED <<queue, views>>
    BY <1>15 DEF SpawnFetch
  <2>2. inflight' = 1
    BY <2>1 DEF SlotInv
  <2>3. \A v \in Views : Linked(v) => Linked(v)'
    BY <2>1, <2>2 DEF Linked, Present, Awaited, IsComplete
  <2> QED
    BY <2>1, <2>3 DEF LinkInv
<1>16. ASSUME NEW f \in fetches, NEW r \in Results, FetchReturns(f, r)
       PROVE  LinkInv'
  <2> DEFINE m == [kind |-> "NavigationComplete", fetch |-> f, result |-> r]
  <2>1. m \in Message /\ m.fetch = f
    BY DEF Message, CompleteMessage, TypeOK
  <2>2. /\ queue' = Append(queue, m) /\ fetches' = fetches \ {f}
        /\ UNCHANGED <<inflight, spawning, views>>
    BY <1>16 DEF FetchReturns
  <2> HIDE DEF m
  <2>3. SUFFICES ASSUME NEW v \in Views, Linked(v) PROVE Linked(v)'
    BY <2>2 DEF LinkInv
  <2>4. Awaited(v, f)
    BY <2>3 DEF Linked
  <2>5. \A i \in 1..Len(queue)' : IsComplete(i)' => Awaited(v, queue'[i].fetch)
    BY <2>1, <2>2, <2>3, <2>4, QueueAppend DEF Linked, IsComplete
  <2> QED
    BY <2>2, <2>3, <2>5 DEF Linked, Present, Awaited
<1>17. CASE ReadCommand
  <2>1. Head(cmdPipe) \in Command
    BY <1>17, TailFacts DEF ReadCommand, TypeOK, PipesTypeOK
  <2>2. Kept
    BY <1>17, <2>1, ReaderMessage, AppendCompletes DEF ReadCommand, Kept
  <2> QED
    BY <1>1, <1>17, <2>2 DEF ReadCommand
<1>18. CASE ReadEndOfFile
  <2>1. [kind |-> "CommandStreamClosed"] \in Message
    BY DEF Message, StreamMessage
  <2>2. Kept
    BY <1>18, <2>1, AppendCompletes DEF ReadEndOfFile, Kept
  <2> QED
    BY <1>1, <1>18, <2>2 DEF ReadEndOfFile
<1>19. CASE DrainDone \/ WriteEvent \/ WriteFails \/ SpawnFails \/ Shell
              \/ UNCHANGED vars
  <2>1. UNCHANGED <<queue, views, fetches, spawning, inflight>>
    BY <1>19 DEF DrainDone, WriteEvent, WriteFails, SpawnFails, Shell,
                 ShellSends, ShellClosesCommands, ShellReadsEvent,
                 ShellStopsReading, vars, workerVars
  <2> QED
    BY <1>1, <1>2, <2>1
<1> QED
  BY <1>7, <1>8, <1>9, <1>10, <1>11, <1>12, <1>13, <1>14, <1>15, <1>16,
     <1>17, <1>18, <1>19 DEF Next, WorkerNext, CommandReader, Fetching, Actor

-----------------------------------------------------------------------------
\* The inductive invariant holds throughout.
LEMMA Invariance == Spec => []IInv
<1>1. IInv /\ [Next]_vars => IInv'
  BY TypeStep, SlotStep, LinkStep DEF IInv
<1> QED
  BY <1>1, InitIInv, PTL DEF Spec

\* The worker's state and both pipes keep their types; in particular the
\* slot counter of handle_navigation_complete never leaves 0..1 and the
\* generation counter never leaves its range.
THEOREM TypeCorrect == Spec => []TypeOK
<1>1. IInv => TypeOK
  BY DEF IInv
<1> QED
  BY <1>1, Invariance, PTL

\* However commands, closes, re-creations and late fetches interleave, a
\* completion handle_navigation_complete accepts is the one its view awaits.
THEOREM NeverStale == Spec => []NoStaleCommit
<1>1. IInv => NoStaleCommit
  <2> SUFFICES ASSUME IInv, NEW f \in Outstanding, Accepts(f)
               PROVE  views[f.view].nav = f.nav
    BY DEF NoStaleCommit
  <2>1. f \in Fetch
    <3>1. CASE f \in fetches
      BY <3>1 DEF IInv, TypeOK
    <3>2. CASE \E i \in 1..Len(queue) : IsComplete(i) /\ f = queue[i].fetch
      <4>1. PICK i \in 1..Len(queue) : IsComplete(i) /\ f = queue[i].fetch
        BY <3>2
      <4>2. queue[i] \in Message
        BY DEF IInv, TypeOK
      <4> QED
        BY <4>1, <4>2, MessageKinds DEF IsComplete
    <3> QED
      BY <3>1, <3>2 DEF Outstanding, Queued, IsComplete
  <2>2. f.view \in Views /\ views[f.view].active # NoNavigation
    BY <2>1 DEF Fetch, Accepts, NoNavigation
  <2>3. Linked(f.view)
    BY <2>2 DEF IInv, LinkInv
  <2> QED
    BY <2>3 DEF Linked, Awaited, Outstanding, Queued, IsComplete
<1> QED
  BY <1>1, Invariance, PTL

-----------------------------------------------------------------------------
(***************************************************************************)
(* The count of the slot.                                                  *)
(***************************************************************************)
\* The converse of SlotInv: a slot in use has its fetch, running or queued.
SlotUsed ==
  inflight # 0 => fetches # {} \/ \E i \in 1..Len(queue) : IsComplete(i)

\* A message that is not a completion leaves the slot as it is.
LEMMA UsedTail ==
  ASSUME TypeOK, SlotUsed, NEW k, k # "NavigationComplete", Receive(k),
         UNCHANGED <<fetches, inflight>>
  PROVE  SlotUsed'
<1>1. queue # << >> /\ queue' = Tail(queue) /\ Head(queue).kind = k
  BY DEF Receive
<1>2. ASSUME NEW i \in 1..Len(queue), IsComplete(i)
      PROVE  \E j \in 1..Len(queue)' : IsComplete(j)'
  <2>1. queue[1].kind = k
    BY <1>1, TailFacts DEF TypeOK
  <2>2. i # 1
    BY <1>2, <2>1 DEF IsComplete
  <2>3. i - 1 \in 1..Len(queue)' /\ queue'[i - 1] = queue[i]
    BY <1>1, <2>2 DEF TypeOK
  <2> QED
    BY <1>2, <2>3 DEF IsComplete
<1> QED
  BY <1>2 DEF SlotUsed

LEMMA UsedAppend ==
  ASSUME TypeOK, SlotUsed, NEW m \in Message, queue' = Append(queue, m),
         UNCHANGED <<fetches, inflight>>
  PROVE  SlotUsed'
<1>1. ASSUME NEW i \in 1..Len(queue), IsComplete(i)
      PROVE  i \in 1..Len(queue)' /\ IsComplete(i)'
  BY <1>1, AppendFacts DEF IsComplete, TypeOK
<1> QED
  BY <1>1 DEF SlotUsed

\* Every step keeps the slot in use only by its fetch.
LEMMA UsedStep ==
  ASSUME TypeOK, SlotInv, SlotUsed, [Next]_vars
  PROVE  SlotUsed'
<1>1. CASE CreateView \/ CloseView \/ Navigate \/ Reload \/ Stop
             \/ UnboundCommand \/ StreamEnds \/ Shutdown
  BY <1>1, UsedTail
     DEF CreateView, CloseView, Navigate, Reload, Stop, UnboundCommand,
         StreamEnds, Shutdown, ReceiveCommand
<1>2. CASE NavigationComplete
  <2>1. inflight' = 0
    BY <1>2 DEF NavigationComplete, SlotFreed, TypeOK, MaxInflight
  <2> QED
    BY <2>1 DEF SlotUsed
<1>3. ASSUME NEW f \in fetches, NEW r \in Results, FetchReturns(f, r)
      PROVE  SlotUsed'
  <2> DEFINE m == [kind |-> "NavigationComplete", fetch |-> f, result |-> r]
  <2>1. m \in Message /\ m.kind = "NavigationComplete"
    BY DEF Message, CompleteMessage, TypeOK
  <2>2. queue' = Append(queue, m)
    BY <1>3 DEF FetchReturns
  <2> HIDE DEF m
  <2>3. Len(queue) + 1 \in 1..Len(queue)' /\ queue'[Len(queue) + 1] = m
    BY <2>1, <2>2, AppendFacts DEF TypeOK
  <2> QED
    BY <2>1, <2>3 DEF SlotUsed, IsComplete
<1>4. CASE ReadCommand
  <2>1. Head(cmdPipe) \in Command
    BY <1>4, TailFacts DEF ReadCommand, TypeOK, PipesTypeOK
  <2> QED
    BY <1>4, <2>1, ReaderMessage, UsedAppend DEF ReadCommand
<1>5. CASE ReadEndOfFile
  <2>1. [kind |-> "CommandStreamClosed"] \in Message
    BY DEF Message, StreamMessage
  <2> QED
    BY <1>5, <2>1, UsedAppend DEF ReadEndOfFile
<1>6. CASE SpawnFetch
  BY <1>6 DEF SpawnFetch, SlotUsed
<1>7. CASE CloseNextView \/ DrainDone \/ BuildReturns \/ WriteEvent
             \/ WriteFails \/ SpawnFails \/ Shell \/ UNCHANGED vars
  <2>1. UNCHANGED <<queue, fetches, inflight>>
    BY <1>7 DEF CloseNextView, DrainDone, BuildReturns, WriteEvent,
                WriteFails, SpawnFails, Shell, ShellSends,
                ShellClosesCommands, ShellReadsEvent, ShellStopsReading,
                vars, workerVars
  <2> QED
    BY <2>1 DEF SlotUsed, IsComplete
<1> QED
  BY <1>1, <1>2, <1>3, <1>4, <1>5, <1>6, <1>7
     DEF Next, WorkerNext, CommandReader, Fetching, Actor

\* At most one view waits for a navigation.
LEMMA OneWaits ==
  ASSUME TypeOK, LinkInv, SlotUsed, NEW v \in Views, NEW w \in Views,
         views[v].active # NoNavigation, views[w].active # NoNavigation
  PROVE  v = w
  BY DEF LinkInv, Linked, Awaited, SlotUsed

\* inflight counts the one fetch there can be.
LEMMA SlotCounted ==
  ASSUME TypeOK, SlotInv, SlotUsed
  PROVE  inflight = Cardinality(fetches) + Cardinality(Queued)
<1>0. Cardinality({}) = 0 /\ \A x : Cardinality({x}) = 1
  BY FS_EmptySet, FS_Singleton
<1>1. CASE fetches # {}
  <2>1. Queued = {} /\ inflight = 1
    BY <1>1 DEF SlotInv, Queued, IsComplete
  <2>2. PICK f \in fetches : fetches = {f}
    BY <1>1 DEF SlotInv
  <2>3. Cardinality(fetches) = 1 /\ Cardinality(Queued) = 0
    BY <1>0, <2>1, <2>2, Zenon
  <2> QED
    BY <2>1, <2>3
<1>2. CASE \E i \in 1..Len(queue) : IsComplete(i)
  <2>1. PICK i \in 1..Len(queue) : IsComplete(i)
    BY <1>2
  <2>2. Queued = {i} /\ inflight = 1 /\ fetches = {}
    BY <2>1 DEF SlotInv, Queued, IsComplete
  <2>3. Cardinality(fetches) = 0 /\ Cardinality(Queued) = 1
    BY <1>0, <2>2, Zenon
  <2> QED
    BY <2>2, <2>3
<1>3. CASE fetches = {} /\ \A i \in 1..Len(queue) : ~IsComplete(i)
  <2>1. Queued = {} /\ inflight = 0
    BY <1>3 DEF SlotUsed, Queued, IsComplete
  <2> QED
    BY <1>0, <1>3, <2>1
<1> QED
  BY <1>1, <1>2, <1>3

-----------------------------------------------------------------------------
(***************************************************************************)
(* The events.  Between two messages the written events and the views      *)
(* agree.  While a handler's events are being written they agree for every *)
(* view but the one the events are about, for which Unwritten says what    *)
(* has been announced and what is still to be.                             *)
(***************************************************************************)
Agrees(v) ==
  /\ announced[v] = "Absent" <=> ~Present(v)
  /\ announced[v] = "Loading" <=> views[v].active # NoNavigation
  /\ announced[v] \notin {"Committed", "Interactive"}

\* The navigation of view v is over and the shell has not been told yet.
LoadEnds(v) ==
  /\ announced[v] = "Loading"
  /\ Present(v) /\ views[v].active = NoNavigation

\* The three events of a commit, while they are being written.
ToCommit(v) ==
  /\ announced[v] = "Loading"
  /\ outbox = <<Ev("Committed", v), Ev("Interactive", v), Ev("Complete", v)>>

ToInteractive(v) ==
  /\ announced[v] = "Committed"
  /\ outbox = <<Ev("Interactive", v), Ev("Complete", v)>>

ToComplete(v) ==
  /\ announced[v] = "Interactive"
  /\ outbox = <<Ev("Complete", v)>>

Unwritten(v) ==
  \/ /\ \E k \in {"Crashed", "Busy", "Error", "Stopped"} : outbox = <<Ev(k, v)>>
     /\ Agrees(v)
  \/ /\ outbox = <<Ev("ViewCreated", v)>>
     /\ announced[v] = "Absent"
     /\ Present(v) /\ views[v].active = NoNavigation
  \/ /\ outbox = <<Ev("ViewClosed", v)>>
     /\ announced[v] \in {"Idle", "Loading", "Complete", "Failed"}
     /\ ~Present(v) /\ views[v].active = NoNavigation
  \/ /\ outbox = <<Ev("Started", v)>>
     /\ announced[v] \in {"Idle", "Complete", "Failed"}
     /\ Present(v) /\ views[v].active # NoNavigation
  \/ /\ \/ outbox = <<Ev("Idle", v), Ev("Stopped", v)>>
        \/ outbox = FailureEvents(v)
        \/ \E k \in {"UrlChanged", "LongUrl"} :
             outbox = <<Ev(k, v), Ev("Committed", v), Ev("Interactive", v),
                        Ev("Complete", v)>>
     /\ LoadEnds(v)
  \/ /\ ToCommit(v) \/ ToInteractive(v) \/ ToComplete(v)
     /\ Present(v) /\ views[v].active = NoNavigation

Others(v) == \A w \in Views \ {v} : Agrees(w)

EventInv ==
  /\ outbox = << >> /\ building = {} => \A v \in Views : Agrees(v)
  /\ outbox # << >> => building = {} /\ \E v \in Views : Others(v) /\ Unwritten(v)
  /\ \A m \in building : Others(m.fetch.view) /\ LoadEnds(m.fetch.view)
  /\ \A m, n \in building : m = n
  /\ draining => building = {} /\ spawning = {}

\* A step that leaves the views, the announced states and the events alone.
LEMMA EventKept ==
  ASSUME EventInv, UNCHANGED <<views, announced, outbox, building>>,
         draining' => building' = {} /\ spawning' = {}
  PROVE  EventInv'
<1>1. \A v : Agrees(v)' <=> Agrees(v)
  BY DEF Agrees, Present
<1>2. \A v : Others(v)' <=> Others(v)
  BY <1>1 DEF Others
<1>3. \A v : LoadEnds(v)' <=> LoadEnds(v)
  BY DEF LoadEnds, Present
<1>4. \A v : Unwritten(v)' <=> Unwritten(v)
  BY <1>1, <1>3 DEF Unwritten, ToCommit, ToInteractive, ToComplete, Present
<1> QED
  BY <1>1, <1>2, <1>3, <1>4 DEF EventInv

\* What an idle actor knows.
LEMMA IdleAgrees ==
  ASSUME EventInv, outbox = << >>, building = {}
  PROVE  \A v \in Views : Agrees(v)
  BY DEF EventInv

\* A handler writes events about one view and changes no other.
LEMMA HandlerEvents ==
  ASSUME EventInv, outbox = << >>, building = {}, building' = {},
         NEW v \in Views,
         \A w \in Views \ {v} : views'[w] = views[w],
         UNCHANGED announced, ~draining', outbox' # << >>, Unwritten(v)'
  PROVE  EventInv'
<1>1. \A w \in Views \ {v} : Agrees(w)'
  BY IdleAgrees DEF Agrees, Present
<1>2. Others(v)'
  BY <1>1 DEF Others
<1> QED
  BY <1>2 DEF EventInv

\* The fields of an entry the events depend on, after each kind of update.
LEMMA EntryFields ==
  ASSUME TypeOK, NEW v \in Views, NEW e \in Entry
  PROVE  /\ [views EXCEPT ![v] = e][v] = e
         /\ \A w \in Views \ {v} : [views EXCEPT ![v] = e][w] = views[w]
  BY DEF TypeOK

LEMMA ActiveCleared ==
  ASSUME TypeOK, NEW v \in Views,
         \/ views' = [views EXCEPT ![v].active = NoNavigation]
         \/ views' = [views EXCEPT ![v].active = NoNavigation,
                                   ![v].page = "None"]
  PROVE  /\ views'[v].active = NoNavigation
         /\ views'[v].status = views[v].status
         /\ \A w \in Views \ {v} : views'[w] = views[w]
<1>1. views \in [Views -> Entry] /\ views[v] \in Entry
  BY DEF TypeOK
<1> QED
  BY <1>1 DEF Entry

\* An outbox with one event about v.
LEMMA OneEvent ==
  ASSUME NEW v, NEW k
  PROVE  /\ <<Ev(k, v)>> # << >> /\ Head(<<Ev(k, v)>>) = Ev(k, v)
         /\ Tail(<<Ev(k, v)>>) = << >>
         /\ Ev(k, v).kind = k /\ Ev(k, v).view = v
  BY DEF Ev

\* create_view and close_view.
LEMMA EventCreate ==
  ASSUME TypeOK, EventInv, CreateView
  PROVE  EventInv'
<1>1. /\ outbox = << >> /\ building = {} /\ building' = {} /\ ~draining'
      /\ UNCHANGED announced
  BY DEF CreateView, ReceiveCommand, Receive, ActorIdle
<1>2. PICK v \in Views : v = Cmd.view
  BY ReceiveType DEF CreateView, ReceiveCommand, Command
<1>3. Agrees(v)
  BY <1>1, <1>2, IdleAgrees
<1>4. CASE UNCHANGED views /\ outbox' = <<Ev("Crashed", v)>>
  <2>1. Unwritten(v)'
    BY <1>1, <1>3, <1>4 DEF Unwritten, Agrees, Present
  <2> QED
    BY <1>1, <1>2, <1>4, <2>1, HandlerEvents
<1>5. CASE /\ ~Present(v) /\ views' = [views EXCEPT ![v] = NewView]
           /\ outbox' = <<Ev("ViewCreated", v)>>
  <2>1. views'[v] = NewView /\ \A w \in Views \ {v} : views'[w] = views[w]
    BY <1>2, <1>5, EntryFacts, EntryFields
  <2>2. Unwritten(v)'
    BY <1>1, <1>3, <1>5, <2>1 DEF Unwritten, Agrees, Present, NewView
  <2> QED
    BY <1>1, <1>2, <1>5, <2>1, <2>2, HandlerEvents
<1> QED
  BY <1>2, <1>4, <1>5 DEF CreateView, ProtocolViolation, Emit

LEMMA EventClose ==
  ASSUME TypeOK, EventInv, CloseView
  PROVE  EventInv'
<1>1. /\ outbox = << >> /\ building = {} /\ building' = {} /\ ~draining'
      /\ UNCHANGED announced
  BY DEF CloseView, ReceiveCommand, Receive, ActorIdle
<1>2. PICK v \in Views : v = Cmd.view
  BY ReceiveType DEF CloseView, ReceiveCommand, Command
<1>3. Agrees(v) /\ announced[v] \in LoadStates
  BY <1>1, <1>2, IdleAgrees DEF TypeOK
<1>4. CASE UNCHANGED views /\ outbox' = <<Ev("Crashed", v)>>
  <2>1. Unwritten(v)'
    BY <1>1, <1>3, <1>4 DEF Unwritten, Agrees, Present
  <2> QED
    BY <1>1, <1>2, <1>4, <2>1, HandlerEvents
<1>5. CASE /\ Present(v) /\ views' = [views EXCEPT ![v] = Absent]
           /\ outbox' = <<Ev("ViewClosed", v)>>
  <2>1. views'[v] = Absent /\ \A w \in Views \ {v} : views'[w] = views[w]
    BY <1>2, <1>5, EntryFacts, EntryFields
  <2>2. Unwritten(v)'
    BY <1>1, <1>3, <1>5, <2>1 DEF Unwritten, Agrees, Present, Absent, LoadStates
  <2> QED
    BY <1>1, <1>2, <1>5, <2>1, <2>2, HandlerEvents
<1> QED
  BY <1>2, <1>4, <1>5 DEF CloseView, ProtocolViolation, Emit

\* start_navigation, from Navigate and Reload.
LEMMA EventStart ==
  ASSUME TypeOK, LinkInv, EventInv, Navigate \/ Reload
  PROVE  EventInv'
<1>1. /\ outbox = << >> /\ building = {} /\ building' = {} /\ ~draining'
      /\ spawning = {} /\ UNCHANGED announced
  BY DEF Navigate, Reload, ReceiveCommand, Receive, ActorIdle
<1>2. PICK v \in Views : v = Cmd.view
  BY ReceiveType DEF Navigate, Reload, ReceiveCommand, Command
<1>3. Agrees(v) /\ announced[v] \in LoadStates
  BY <1>1, <1>2, IdleAgrees DEF TypeOK
<1>4. CASE UNCHANGED views /\ \E k \in {"Crashed", "Busy"} : outbox' = <<Ev(k, v)>>
  <2>1. Unwritten(v)'
    BY <1>1, <1>3, <1>4 DEF Unwritten, Agrees, Present
  <2> QED
    BY <1>1, <1>2, <1>4, <2>1, HandlerEvents
<1>5. CASE Present(v) /\ inflight < MaxInflight /\ BeginNavigation(v)
  <2> DEFINE g == NextGeneration(views[v].generation)
  <2>1. inflight = 0
    BY <1>5 DEF TypeOK, MaxInflight
  <2>2. views[v].active = NoNavigation
    BY <1>1, <1>2, <2>1, FreeSlotNoneWait
  <2>3. views \in [Views -> Entry] /\ views[v] \in Entry
    BY <1>2 DEF TypeOK
  <2>4. g \in 1..MaxGeneration
    BY <2>3, WorkerAssumption DEF Entry, NextGeneration
  <2>5. views' = [views EXCEPT ![v].generation = g, ![v].active = g,
                               ![v].requested = "Some", ![v].nav = starts + 1]
    BY <1>5 DEF BeginNavigation
  <2> HIDE DEF g
  <2>6. /\ views'[v].active = g /\ views'[v].status = views[v].status
        /\ \A w \in Views \ {v} : views'[w] = views[w]
    BY <1>2, <2>3, <2>5 DEF Entry
  <2>7. g # NoNavigation
    BY <2>4 DEF NoNavigation
  <2>8. outbox' = <<Ev("Started", v)>>
    BY <1>5 DEF BeginNavigation, Emit
  <2>9. announced[v] \in {"Idle", "Complete", "Failed"}
    BY <1>3, <1>5, <2>2 DEF Agrees, LoadStates
  <2>10. Unwritten(v)'
    BY <1>1, <1>5, <2>6, <2>7, <2>8, <2>9 DEF Unwritten, Present
  <2> QED
    BY <1>1, <1>2, <2>6, <2>8, <2>10, HandlerEvents
<1> QED
  BY <1>2, <1>4, <1>5 DEF Navigate, Reload, StartNavigation, ProtocolViolation, Emit

\* stop_navigation.
LEMMA EventStop ==
  ASSUME TypeOK, EventInv, Stop
  PROVE  EventInv'
<1>1. /\ outbox = << >> /\ building = {} /\ building' = {} /\ ~draining'
      /\ UNCHANGED announced
  BY DEF Stop, ReceiveCommand, Receive, ActorIdle
<1>2. PICK v \in Views : v = Cmd.view
  BY ReceiveType DEF Stop, ReceiveCommand, Command
<1>3. Agrees(v)
  BY <1>1, <1>2, IdleAgrees
<1>4. CASE UNCHANGED views /\ outbox' = <<Ev("Crashed", v)>>
  <2>1. Unwritten(v)'
    BY <1>1, <1>3, <1>4 DEF Unwritten, Agrees, Present
  <2> QED
    BY <1>1, <1>2, <1>4, <2>1, HandlerEvents
<1>5. CASE UNCHANGED <<views, outbox>>
  BY <1>1, <1>5, EventKept
<1>6. CASE /\ Present(v) /\ views[v].active # NoNavigation
           /\ views' = [views EXCEPT ![v].active = NoNavigation]
           /\ outbox' = <<Ev("Idle", v), Ev("Stopped", v)>>
  <2>1. /\ views'[v].active = NoNavigation
        /\ views'[v].status = views[v].status
        /\ \A w \in Views \ {v} : views'[w] = views[w]
    BY <1>2, <1>6, ActiveCleared
  <2>2. LoadEnds(v)'
    BY <1>1, <1>3, <1>6, <2>1 DEF LoadEnds, Agrees, Present
  <2>3. Unwritten(v)'
    BY <1>6, <2>2 DEF Unwritten
  <2> QED
    BY <1>1, <1>2, <1>6, <2>1, <2>3, HandlerEvents
<1> QED
  BY <1>2, <1>4, <1>5, <1>6 DEF Stop, ProtocolViolation, Emit

\* close_all_views, one view.
LEMMA EventDrain ==
  ASSUME TypeOK, EventInv, CloseNextView
  PROVE  EventInv'
<1>1. /\ outbox = << >> /\ draining /\ draining' = draining
      /\ UNCHANGED <<announced, building, spawning>>
  BY DEF CloseNextView
<1>2. building = {} /\ spawning = {}
  BY <1>1 DEF EventInv
<1>3. PICK v \in Views : /\ Present(v) /\ views' = [views EXCEPT ![v] = Absent]
                         /\ outbox' = <<Ev("ViewClosed", v)>>
  BY DEF CloseNextView, Emit
<1>4. \A w \in Views : Agrees(w)
  BY <1>1, <1>2, IdleAgrees
<1>5. views'[v] = Absent /\ \A w \in Views \ {v} : views'[w] = views[w]
  BY <1>3, EntryFacts, EntryFields
<1>6. announced[v] \in LoadStates
  BY DEF TypeOK
<1>7. Unwritten(v)'
  BY <1>1, <1>3, <1>4, <1>5, <1>6
     DEF Unwritten, Agrees, Present, Absent, LoadStates
<1>8. Others(v)'
  BY <1>1, <1>4, <1>5 DEF Others, Agrees, Present
<1>9. outbox' # << >>
  BY <1>3
<1> QED
  BY <1>1, <1>2, <1>7, <1>8, <1>9 DEF EventInv

\* handle_navigation_complete up to the page build.
LEMMA EventComplete ==
  ASSUME TypeOK, EventInv, NavigationComplete
  PROVE  EventInv'
<1>1. /\ outbox = << >> /\ building = {} /\ ~draining /\ ~draining'
      /\ UNCHANGED announced
  BY DEF NavigationComplete, Receive, ActorIdle
<1>2. /\ Head(queue) \in CompleteMessage /\ Head(queue).fetch \in Fetch
  BY ReceiveType DEF NavigationComplete
<1>3. PICK v \in Views : v = Head(queue).fetch.view
  BY <1>2 DEF Fetch
<1>4. PICK m : m = Head(queue)
  OBVIOUS
<1>5. \A w \in Views : Agrees(w)
  BY <1>1, IdleAgrees
<1>6. CASE UNCHANGED <<views, building, outbox>>
  BY <1>1, <1>6, EventKept
<1>7. ASSUME Accepts(Head(queue).fetch),
             \/ views' = [views EXCEPT ![v].active = NoNavigation]
             \/ views' = [views EXCEPT ![v].active = NoNavigation,
                                       ![v].page = "None"]
      PROVE  LoadEnds(v)' /\ \A w \in Views \ {v} : views'[w] = views[w]
  <2>1. /\ views'[v].active = NoNavigation
        /\ views'[v].status = views[v].status
        /\ \A w \in Views \ {v} : views'[w] = views[w]
    BY <1>7, ActiveCleared
  <2>2. Present(v) /\ views[v].active # NoNavigation
    BY <1>2, <1>3, <1>7 DEF Accepts, Fetch, NoNavigation
  <2> QED
    BY <1>1, <1>5, <2>1, <2>2 DEF LoadEnds, Agrees, Present
<1>8. CASE /\ Accepts(Head(queue).fetch)
           /\ views' = [views EXCEPT ![v].active = NoNavigation]
           /\ outbox' = FailureEvents(v) /\ UNCHANGED building
  <2>1. LoadEnds(v)' /\ \A w \in Views \ {v} : views'[w] = views[w]
    BY <1>7, <1>8
  <2>2. Unwritten(v)' /\ outbox' # << >>
    BY <1>8, <2>1 DEF Unwritten, FailureEvents
  <2> QED
    BY <1>1, <1>8, <2>1, <2>2, HandlerEvents
<1>9. CASE /\ Accepts(Head(queue).fetch)
           /\ views' = [views EXCEPT ![v].active = NoNavigation,
                                     ![v].page = "None"]
           /\ building' = {m} /\ UNCHANGED outbox
  <2>1. LoadEnds(v)' /\ \A w \in Views \ {v} : views'[w] = views[w]
    BY <1>7, <1>9
  <2>2. Others(v)'
    BY <1>1, <1>5, <2>1 DEF Others, Agrees, Present
  <2>3. m.fetch.view = v
    BY <1>3, <1>4
  <2> QED
    BY <1>1, <1>9, <2>1, <2>2, <2>3 DEF EventInv
<1> QED
  BY <1>3, <1>4, <1>6, <1>8, <1>9 DEF NavigationComplete, Emit

\* build_browser_page returns.
LEMMA EventBuilt ==
  ASSUME TypeOK, EventInv, BuildReturns
  PROVE  EventInv'
<1>1. PICK m \in building :
        \/ /\ views' = [views EXCEPT ![m.fetch.view].page = "Some"]
           /\ outbox' = CommitEvents(m)
        \/ outbox' = FailureEvents(m.fetch.view) /\ UNCHANGED views
  BY DEF BuildReturns, Emit
<1>2. PICK v \in Views : v = m.fetch.view
  BY DEF TypeOK, CompleteMessage, Fetch
<1>3. Others(v) /\ LoadEnds(v) /\ ~draining
  BY <1>2 DEF EventInv
<1>4. building' = {} /\ UNCHANGED <<announced, draining, spawning>>
  BY DEF BuildReturns
<1>5. \A w \in Views : /\ views'[w].status = views[w].status
                       /\ views'[w].active = views[w].active
  <2>1. views' = views \/ views' = [views EXCEPT ![v].page = "Some"]
    BY <1>1, <1>2
  <2>2. views \in [Views -> Entry]
    BY DEF TypeOK
  <2> QED
    BY <2>1, <2>2 DEF Entry
<1>6. Others(v)' /\ LoadEnds(v)'
  BY <1>3, <1>4, <1>5 DEF Others, LoadEnds, Agrees, Present
<1>7. \/ outbox' = FailureEvents(v)
      \/ \E k \in {"UrlChanged", "LongUrl"} :
           outbox' = <<Ev(k, v), Ev("Committed", v), Ev("Interactive", v),
                       Ev("Complete", v)>>
  BY <1>1, <1>2 DEF CommitEvents
<1>8. Unwritten(v)'
  BY <1>6, <1>7 DEF Unwritten, FailureEvents
<1>9. outbox' # << >>
  BY <1>7 DEF FailureEvents
<1> QED
  BY <1>3, <1>4, <1>6, <1>8, <1>9 DEF EventInv

\* What writing an event of kind k about view v does to the announced states.
LEMMA Announces ==
  ASSUME TypeOK, WriteEvent, NEW v \in Views, NEW k, Head(outbox) = Ev(k, v)
  PROVE  /\ announced'[v] = LoadStateAfter(k, announced[v])
         /\ announced' = [announced EXCEPT ![v] = LoadStateAfter(k, announced[v])]
         /\ \A w \in Views \ {v} : announced'[w] = announced[w]
<1>1. Head(outbox).kind = k /\ Head(outbox).view = v
  BY DEF Ev
<1>2. announced' = [announced EXCEPT ![v] = LoadStateAfter(k, announced[v])]
  BY <1>1 DEF WriteEvent
<1> QED
  BY <1>2 DEF TypeOK

\* Writing one event: the invariant is kept, and the announced states change
\* as ViewProtocol allows.
LEMMA EventWritten ==
  ASSUME TypeOK, LinkInv, SlotUsed, EventInv, WriteEvent
  PROVE  EventInv' /\ (Protocol!Next \/ UNCHANGED announced)
<1>1. /\ outbox # << >> /\ outbox' = Tail(outbox)
      /\ UNCHANGED <<views, building, draining, spawning>>
  BY DEF WriteEvent
<1>2. building = {}
  BY <1>1 DEF EventInv
<1>3. PICK v \in Views : Others(v) /\ Unwritten(v)
  BY <1>1 DEF EventInv
<1>4. announced[v] \in LoadStates
  BY DEF TypeOK
<1>5. \A w \in Views \ {v} : ~Protocol!InBurst(w)
  BY <1>3 DEF Others, Agrees, Protocol!InBurst
<1>6. SUFFICES /\ \/ Unwritten(v)' /\ outbox' # << >>
                  \/ Agrees(v)' /\ outbox' = << >>
               /\ \A w \in Views \ {v} : announced'[w] = announced[w]
               /\ Protocol!Step(v) \/ UNCHANGED announced
  <2>1. ASSUME \A w \in Views \ {v} : announced'[w] = announced[w]
        PROVE  Others(v)'
    BY <1>1, <1>3, <2>1 DEF Others, Agrees, Present
  <2>2. ASSUME Others(v)', Agrees(v)' PROVE \A w \in Views : Agrees(w)'
    BY <2>2 DEF Others
  <2>3. Protocol!Step(v) => Protocol!Next
    BY <1>5 DEF Protocol!Next
  <2> QED
    BY <1>1, <1>2, <1>6, <2>1, <2>2, <2>3 DEF EventInv
<1>7. CASE /\ \E k \in {"Crashed", "Busy", "Error", "Stopped"} : outbox = <<Ev(k, v)>>
           /\ Agrees(v)
  <2>1. PICK k \in {"Crashed", "Busy", "Error", "Stopped"} : outbox = <<Ev(k, v)>>
    BY <1>7
  <2>2. Head(outbox) = Ev(k, v) /\ outbox' = << >>
    BY <1>1, <2>1, OneEvent
  <2>3. LoadStateAfter(k, announced[v]) = announced[v]
    BY DEF LoadStateAfter
  <2>4. UNCHANGED announced
    BY <2>2, <2>3, Announces DEF TypeOK
  <2> QED
    BY <1>1, <1>7, <2>2, <2>4 DEF Agrees, Present
<1>8. CASE /\ outbox = <<Ev("ViewCreated", v)>>
           /\ announced[v] = "Absent"
           /\ Present(v) /\ views[v].active = NoNavigation
  <2>1. Head(outbox) = Ev("ViewCreated", v) /\ outbox' = << >>
    BY <1>1, <1>8, OneEvent
  <2>2. LoadStateAfter("ViewCreated", announced[v]) = "Idle"
    BY DEF LoadStateAfter
  <2>3. /\ announced'[v] = "Idle" /\ announced' = [announced EXCEPT ![v] = "Idle"]
        /\ \A w \in Views \ {v} : announced'[w] = announced[w]
    BY <2>1, <2>2, Announces
  <2> QED
    BY <1>1, <1>8, <2>1, <2>3
       DEF Agrees, Present, Protocol!Step, Protocol!Create, Protocol!Move
<1>9. CASE /\ outbox = <<Ev("ViewClosed", v)>>
           /\ announced[v] \in {"Idle", "Loading", "Complete", "Failed"}
           /\ ~Present(v) /\ views[v].active = NoNavigation
  <2>1. Head(outbox) = Ev("ViewClosed", v) /\ outbox' = << >>
    BY <1>1, <1>9, OneEvent
  <2>2. LoadStateAfter("ViewClosed", announced[v]) = "Absent"
    BY DEF LoadStateAfter
  <2>3. /\ announced'[v] = "Absent"
        /\ announced' = [announced EXCEPT ![v] = "Absent"]
        /\ \A w \in Views \ {v} : announced'[w] = announced[w]
    BY <2>1, <2>2, Announces
  <2> QED
    BY <1>1, <1>9, <2>1, <2>3
       DEF Agrees, Present, Protocol!Step, Protocol!Close, Protocol!Move
<1>10. CASE /\ outbox = <<Ev("Started", v)>>
            /\ announced[v] \in {"Idle", "Complete", "Failed"}
            /\ Present(v) /\ views[v].active # NoNavigation
  <2>1. Head(outbox) = Ev("Started", v) /\ outbox' = << >>
    BY <1>1, <1>10, OneEvent
  <2>2. LoadStateAfter("Started", announced[v]) = "Loading"
    BY DEF LoadStateAfter
  <2>3. /\ announced'[v] = "Loading"
        /\ announced' = [announced EXCEPT ![v] = "Loading"]
        /\ \A w \in Views \ {v} : announced'[w] = announced[w]
    BY <2>1, <2>2, Announces
  <2>4. \A w \in Views \ {v} : views[w].active = NoNavigation
    BY <1>10, OneWaits
  <2>5. \A w \in Views : announced[w] # "Loading"
    BY <1>3, <1>10, <2>4 DEF Others, Agrees
  <2> QED
    BY <1>1, <1>10, <2>1, <2>3, <2>5
       DEF Agrees, Present, Protocol!Step, Protocol!Start, Protocol!AtRest
<1>11. CASE outbox = <<Ev("Idle", v), Ev("Stopped", v)>> /\ LoadEnds(v)
  <2>1. Head(outbox) = Ev("Idle", v) /\ outbox' = <<Ev("Stopped", v)>>
    BY <1>1, <1>11
  <2>2. LoadStateAfter("Idle", announced[v]) = "Idle"
    BY DEF LoadStateAfter
  <2>3. /\ announced'[v] = "Idle" /\ announced' = [announced EXCEPT ![v] = "Idle"]
        /\ \A w \in Views \ {v} : announced'[w] = announced[w]
    BY <2>1, <2>2, Announces
  <2>4. Agrees(v)'
    BY <1>1, <1>11, <2>3 DEF Agrees, LoadEnds, Present
  <2>5. Unwritten(v)' /\ outbox' # << >>
    BY <2>1, <2>4 DEF Unwritten
  <2> QED
    BY <1>11, <2>3, <2>5 DEF LoadEnds, Protocol!Step, Protocol!Stop, Protocol!Move
<1>12. CASE outbox = FailureEvents(v) /\ LoadEnds(v)
  <2>1. Head(outbox) = Ev("Failed", v) /\ outbox' = <<Ev("Error", v)>>
    BY <1>1, <1>12 DEF FailureEvents
  <2>2. LoadStateAfter("Failed", announced[v]) = "Failed"
    BY DEF LoadStateAfter
  <2>3. /\ announced'[v] = "Failed" /\ announced' = [announced EXCEPT ![v] = "Failed"]
        /\ \A w \in Views \ {v} : announced'[w] = announced[w]
    BY <2>1, <2>2, Announces
  <2>4. Agrees(v)'
    BY <1>1, <1>12, <2>3 DEF Agrees, LoadEnds, Present
  <2>5. Unwritten(v)' /\ outbox' # << >>
    BY <2>1, <2>4 DEF Unwritten
  <2> QED
    BY <1>12, <2>3, <2>5 DEF LoadEnds, Protocol!Step, Protocol!Fail, Protocol!Move
<1>13. CASE /\ \E k \in {"UrlChanged", "LongUrl"} :
                 outbox = <<Ev(k, v), Ev("Committed", v), Ev("Interactive", v),
                            Ev("Complete", v)>>
            /\ LoadEnds(v)
  <2>1. PICK k \in {"UrlChanged", "LongUrl"} :
          outbox = <<Ev(k, v), Ev("Committed", v), Ev("Interactive", v),
                     Ev("Complete", v)>>
    BY <1>13
  <2>2. /\ Head(outbox) = Ev(k, v)
        /\ outbox' = <<Ev("Committed", v), Ev("Interactive", v), Ev("Complete", v)>>
    BY <1>1, <2>1
  <2>3. LoadStateAfter(k, announced[v]) = announced[v]
    BY DEF LoadStateAfter
  <2>4. UNCHANGED announced
    BY <2>2, <2>3, Announces DEF TypeOK
  <2>5. ToCommit(v)' /\ outbox' # << >>
    BY <1>13, <2>2, <2>4 DEF ToCommit, LoadEnds
  <2>6. Present(v)' /\ views'[v].active = NoNavigation
    BY <1>1, <1>13 DEF LoadEnds, Present
  <2>7. Unwritten(v)'
    BY <2>5, <2>6 DEF Unwritten
  <2> QED
    BY <2>4, <2>5, <2>7
<1>14. CASE ToCommit(v) /\ Present(v) /\ views[v].active = NoNavigation
  <2>1. /\ Head(outbox) = Ev("Committed", v)
        /\ outbox' = <<Ev("Interactive", v), Ev("Complete", v)>>
        /\ announced[v] = "Loading"
    BY <1>1, <1>14 DEF ToCommit
  <2>2. LoadStateAfter("Committed", announced[v]) = "Committed"
    BY DEF LoadStateAfter
  <2>3. /\ announced'[v] = "Committed"
        /\ announced' = [announced EXCEPT ![v] = "Committed"]
        /\ \A w \in Views \ {v} : announced'[w] = announced[w]
    BY <2>1, <2>2, Announces
  <2>4. ToInteractive(v)' /\ outbox' # << >>
    BY <2>1, <2>3 DEF ToInteractive
  <2>5. Unwritten(v)'
    BY <1>1, <1>14, <2>4 DEF Unwritten, Present
  <2> QED
    BY <2>1, <2>3, <2>4, <2>5 DEF Protocol!Step, Protocol!Commit, Protocol!Move
<1>15. CASE ToInteractive(v) /\ Present(v) /\ views[v].active = NoNavigation
  <2>1. /\ Head(outbox) = Ev("Interactive", v)
        /\ outbox' = <<Ev("Complete", v)>>
        /\ announced[v] = "Committed"
    BY <1>1, <1>15 DEF ToInteractive
  <2>2. LoadStateAfter("Interactive", announced[v]) = "Interactive"
    BY DEF LoadStateAfter
  <2>3. /\ announced'[v] = "Interactive"
        /\ announced' = [announced EXCEPT ![v] = "Interactive"]
        /\ \A w \in Views \ {v} : announced'[w] = announced[w]
    BY <2>1, <2>2, Announces
  <2>4. ToComplete(v)' /\ outbox' # << >>
    BY <2>1, <2>3 DEF ToComplete
  <2>5. Unwritten(v)'
    BY <1>1, <1>15, <2>4 DEF Unwritten, Present
  <2> QED
    BY <2>1, <2>3, <2>4, <2>5 DEF Protocol!Step, Protocol!Commit, Protocol!Move
<1>16. CASE ToComplete(v) /\ Present(v) /\ views[v].active = NoNavigation
  <2>1. /\ Head(outbox) = Ev("Complete", v) /\ outbox' = << >>
        /\ announced[v] = "Interactive"
    BY <1>1, <1>16 DEF ToComplete
  <2>2. LoadStateAfter("Complete", announced[v]) = "Complete"
    BY DEF LoadStateAfter
  <2>3. /\ announced'[v] = "Complete"
        /\ announced' = [announced EXCEPT ![v] = "Complete"]
        /\ \A w \in Views \ {v} : announced'[w] = announced[w]
    BY <2>1, <2>2, Announces
  <2>4. Agrees(v)'
    BY <1>1, <1>16, <2>3 DEF Agrees, Present
  <2> QED
    BY <2>1, <2>3, <2>4 DEF Protocol!Step, Protocol!Commit, Protocol!Move
<1> QED
  BY <1>3, <1>7, <1>8, <1>9, <1>10, <1>11, <1>12, <1>13, <1>14, <1>15, <1>16
     DEF Unwritten

\* Every other step leaves the announced states alone.
LEMMA EventStep ==
  ASSUME TypeOK, SlotInv, LinkInv, SlotUsed, EventInv, [Next]_vars
  PROVE  EventInv' /\ (Protocol!Next \/ UNCHANGED announced)
<1>1. CASE CreateView \/ CloseView \/ Navigate \/ Reload \/ Stop
  <2>1. UNCHANGED announced
    BY <1>1 DEF CreateView, CloseView, Navigate, Reload, Stop
  <2> QED
    BY <1>1, <2>1, EventCreate, EventClose, EventStart, EventStop
<1>2. CASE UnboundCommand \/ StreamEnds \/ Shutdown
  <2>1. /\ UNCHANGED <<views, announced, outbox, building>>
        /\ building = {} /\ spawning = {} /\ UNCHANGED spawning
    BY <1>2 DEF UnboundCommand, StreamEnds, Shutdown, ReceiveCommand, Receive,
                ActorIdle
  <2> QED
    BY <2>1, EventKept
<1>3. CASE CloseNextView \/ NavigationComplete \/ BuildReturns
  <2>1. UNCHANGED announced
    BY <1>3 DEF CloseNextView, NavigationComplete, BuildReturns
  <2> QED
    BY <1>3, <2>1, EventDrain, EventComplete, EventBuilt
<1>4. CASE WriteEvent
  BY <1>4, EventWritten
<1>5. CASE SpawnFetch
  <2>1. UNCHANGED <<views, announced, outbox, building, draining>> /\ spawning' = {}
    BY <1>5 DEF SpawnFetch
  <2> QED
    BY <2>1, EventKept DEF EventInv
<1>6. CASE ReadCommand \/ ReadEndOfFile \/ DrainDone \/ WriteFails \/ SpawnFails
             \/ Shell \/ UNCHANGED vars
  <2>1. UNCHANGED <<views, announced, outbox, building, draining, spawning>>
    BY <1>6 DEF ReadCommand, ReadEndOfFile, DrainDone, WriteFails, SpawnFails,
                Shell, ShellSends, ShellClosesCommands, ShellReadsEvent,
                ShellStopsReading, vars, workerVars
  <2> QED
    BY <2>1, EventKept DEF EventInv
<1>7. ASSUME NEW f \in fetches, NEW r \in Results, FetchReturns(f, r)
      PROVE  EventInv' /\ UNCHANGED announced
  <2>1. UNCHANGED <<views, announced, outbox, building, draining, spawning>>
    BY <1>7 DEF FetchReturns
  <2> QED
    BY <2>1, EventKept DEF EventInv
<1> QED
  BY <1>1, <1>2, <1>3, <1>4, <1>5, <1>6, <1>7
     DEF Next, WorkerNext, CommandReader, Fetching, Actor

LEMMA EventInit == Init => EventInv /\ SlotUsed
<1> SUFFICES ASSUME Init PROVE EventInv /\ SlotUsed
  OBVIOUS
<1>1. \A v \in Views : Agrees(v)
  BY DEF Init, Agrees, Present, Absent
<1> QED
  BY <1>1 DEF Init, EventInv, SlotUsed

\* The invariants of the slot and of the events hold throughout.
LEMMA EventInvariance == Spec => [](IInv /\ SlotUsed /\ EventInv)
<1>1. SlotUsed /\ EventInv /\ IInv /\ [Next]_vars => SlotUsed' /\ EventInv'
  BY UsedStep, EventStep DEF IInv
<1> QED
  BY <1>1, EventInit, Invariance, PTL DEF Spec

\* The slot counter of the worker is exact in every reachable state: neither a
\* closed view, nor a stopped or superseded navigation, nor a late completion
\* leaks a slot or frees one twice.
THEOREM SlotNeverLeaks == Spec => []SlotCountExact
<1>1. IInv /\ SlotUsed => SlotCountExact
  BY SlotCounted DEF IInv, SlotCountExact
<1> QED
  BY <1>1, EventInvariance, PTL

\* Between two messages what write_event has told the shell of each view is
\* what the worker's own table says of it.
THEOREM EventsTellTheState == Spec => []AnnouncedMatchesActive
<1>1. EventInv => AnnouncedMatchesActive
  <2> SUFFICES ASSUME EventInv, ActorIdle, NEW v \in Views PROVE Agrees(v)
    BY DEF AnnouncedMatchesActive, Agrees
  <2> QED
    BY IdleAgrees DEF ActorIdle
<1> QED
  BY <1>1, EventInvariance, PTL

\* The event stream of the worker implements ViewProtocol: every event is a
\* step the protocol allows in the state the earlier events announced.
THEOREM WorkerImplementsViewProtocol == Spec => ImplementsViewProtocol
<1>1. Init => Protocol!Init
  BY DEF Init, Protocol!Init
<1>2. IInv /\ SlotUsed /\ EventInv /\ [Next]_vars => [Protocol!Next]_announced
  BY EventStep DEF IInv
<1> QED
  BY <1>1, <1>2, EventInvariance, PTL
     DEF Spec, ImplementsViewProtocol, Protocol!Spec

-----------------------------------------------------------------------------
(***************************************************************************)
(* Proofs about EventIngress, for every pipe, channel and byte budget and  *)
(* every size of event.                                                    *)
(*                                                                         *)
(* The charge is exact because each step moves an envelope inside          *)
(* InTransit, adds one at its end or takes one from either end; the        *)
(* running totals that witness it are ordered, which is what lets the      *)
(* first one be taken off all the others (ChargedInv).  The reason of the  *)
(* end reaches the shell because the reader's place, its outcome, the slot *)
(* and the verdict follow one another (OutcomeInv).                        *)
(***************************************************************************)

\* c bytes is what the envelopes of s weigh, and no prefix weighs more than
\* a longer one.
Charges(s, c) ==
  \E total \in [0..Len(s) -> 0..ByteBudget] :
    /\ Totals(s, total) /\ c = total[Len(s)]
    /\ \A i, j \in 0..Len(s) : i <= j => total[i] <= total[j]

ChargedInv == Charges(InTransit, outstanding)

OutcomeInv ==
  /\ (ingress = "reserved") = (held # << >>)
  /\ (ingress \in {"reading", "reserved"}) = (outcome = "none")
  /\ ingress = "failing" => outcome \in Reasons
  /\ ingress \in {"reading", "reserved", "failing"} => failure = "none"
  /\ ingress # "disconnected" => verdict = "none"
  /\ ingress \in {"returning", "disconnected"} /\ verdict = "none" =>
       failure = IF outcome \in Reasons THEN outcome ELSE "none"
  /\ verdict # "none" => failure = "none"

IngressIInv == IngressTypeOK /\ ChargedInv /\ OutcomeInv

-----------------------------------------------------------------------------
(***************************************************************************)
(* Where an envelope stands among those in transit.                        *)
(***************************************************************************)
LEMMA TransitAccepts ==
  ASSUME NEW S, NEW s \in Seq(S), NEW t \in Seq(S), NEW e \in S
  PROVE  /\ s \o t \o <<e>> = Append(s \o t \o << >>, e)
         /\ s \o t \o << >> \in Seq(S)
  OBVIOUS

LEMMA TransitQueues ==
  ASSUME NEW S, NEW s \in Seq(S), NEW t \in Seq(S), NEW u \in Seq(S)
  PROVE  s \o (t \o u) \o << >> = s \o t \o u
  OBVIOUS

LEMMA TransitRefuses ==
  ASSUME NEW S, NEW s \in Seq(S), NEW t \in Seq(S), NEW e \in S
  PROVE  /\ Len(s \o t \o <<e>>) = Len(s \o t \o << >>) + 1
         /\ s \o t \o << >> = SubSeq(s \o t \o <<e>>, 1, Len(s \o t \o <<e>>) - 1)
         /\ (s \o t \o <<e>>)[Len(s \o t \o <<e>>)] = e
  OBVIOUS

LEMMA TransitHandsOver ==
  ASSUME NEW S, NEW t \in Seq(S), NEW u \in Seq(S), t # << >>
  PROVE  <<Head(t)>> \o Tail(t) \o u = << >> \o t \o u
  OBVIOUS

LEMMA TransitReleases ==
  ASSUME NEW S, NEW e \in S, NEW t \in Seq(S), NEW u \in Seq(S)
  PROVE  /\ << >> \o t \o u = Tail(<<e>> \o t \o u)
         /\ Head(<<e>> \o t \o u) = e /\ <<e>> \o t \o u # << >>
  OBVIOUS

LEMMA NoEvents ==
  ASSUME NEW S, NEW s, s = << >>
  PROVE  s \in Seq(S) /\ Len(s) <= 1
  OBVIOUS

\* The same, of the variables.
LEMMA InTransitType ==
  ASSUME IngressTypeOK
  PROVE  InTransit \in Seq(Event) /\ taken \in Seq(Event) /\ events \in Seq(Event)
           /\ held \in Seq(Event)
  BY DEF IngressTypeOK, InTransit

\* Sizes are positive and fit the budget.
LEMMA BytesType ==
  ASSUME NEW e \in Event
  PROVE  Bytes(e) \in Nat /\ Bytes(e) <= ByteBudget
  BY IngressAssumption DEF Bytes, Event

\* A function that witnesses a charge.
LEMMA ChargesBy ==
  ASSUME NEW s, NEW n, Len(s) = n, NEW c,
         NEW total \in [0..n -> 0..ByteBudget], Totals(s, total), c = total[n],
         \A i, j \in 0..n : i <= j => total[i] <= total[j]
  PROVE  Charges(s, c)
  BY Zenon DEF Charges

\* The charge after an envelope joins at the end.
LEMMA ChargeAppend ==
  ASSUME NEW s \in Seq(Event), NEW e \in Event, NEW c, Charges(s, c),
         c + Bytes(e) <= ByteBudget
  PROVE  Charges(Append(s, e), c + Bytes(e)) /\ c + Bytes(e) \in 0..ByteBudget
<1> DEFINE n == Len(s)
<1>0. n \in Nat /\ ByteBudget \in Nat /\ Bytes(e) \in Nat
  BY BytesType, IngressAssumption
<1>1. PICK total \in [0..n -> 0..ByteBudget] :
        /\ Totals(s, total) /\ c = total[n]
        /\ \A i, j \in 0..n : i <= j => total[i] <= total[j]
  BY DEF Charges
<1> DEFINE new == [i \in 0..(n + 1) |-> IF i = n + 1 THEN total[n] + Bytes(e) ELSE total[i]]
<1>2. Len(Append(s, e)) = n + 1 /\ c \in Nat
  BY <1>0, <1>1
<1>3. new \in [0..(n + 1) -> 0..ByteBudget] /\ c + Bytes(e) = new[n + 1]
  BY <1>0, <1>1, <1>2
<1>4. Totals(Append(s, e), new)
  <2>1. new[0] = 0
    BY <1>0, <1>1 DEF Totals
  <2>2. ASSUME NEW i \in 1..n PROVE new[i] = new[i - 1] + Bytes(Append(s, e)[i])
    BY <1>0, <1>1 DEF Totals
  <2>3. new[n + 1] = new[n] + Bytes(Append(s, e)[n + 1])
    BY <1>0, <1>1
  <2> HIDE DEF new
  <2> QED
    BY <1>0, <1>2, <2>1, <2>2, <2>3 DEF Totals
<1>5. \A i, j \in 0..(n + 1) : i <= j => new[i] <= new[j]
  <2>1. \A i \in 0..n : total[i] <= total[n] /\ total[i] \in Nat
    BY <1>0, <1>1
  <2> QED
    BY <1>0, <1>1, <1>2, <2>1
<1> HIDE DEF new
<1>6. Charges(Append(s, e), c + Bytes(e))
  BY <1>2, <1>3, <1>4, <1>5, ChargesBy
<1> QED
  BY <1>0, <1>2, <1>6

\* The charge after the last envelope is dropped.
LEMMA ChargeFront ==
  ASSUME NEW s \in Seq(Event), s # << >>, NEW c, Charges(s, c)
  PROVE  /\ Charges(SubSeq(s, 1, Len(s) - 1), Minus(c, Bytes(s[Len(s)])))
         /\ Minus(c, Bytes(s[Len(s)])) \in 0..ByteBudget
<1> DEFINE n == Len(s)
<1>0. n \in Nat \ {0} /\ ByteBudget \in Nat
  BY IngressAssumption
<1>1. PICK total \in [0..n -> 0..ByteBudget] :
        /\ Totals(s, total) /\ c = total[n]
        /\ \A i, j \in 0..n : i <= j => total[i] <= total[j]
  BY DEF Charges
<1>2. Bytes(s[n]) \in Nat /\ total[n] = total[n - 1] + Bytes(s[n])
  BY <1>0, <1>1, BytesType DEF Totals
<1>3. Minus(c, Bytes(s[n])) = total[n - 1]
  BY <1>0, <1>1, <1>2 DEF Minus
<1> DEFINE new == [i \in 0..(n - 1) |-> total[i]]
           front == SubSeq(s, 1, n - 1)
<1>4. Len(front) = n - 1 /\ \A i \in 1..(n - 1) : front[i] = s[i]
  BY <1>0
<1>5. new \in [0..(n - 1) -> 0..ByteBudget] /\ total[n - 1] = new[n - 1]
  BY <1>0, <1>1
<1> HIDE DEF front
<1>6. Totals(front, new)
  BY <1>0, <1>1, <1>4 DEF Totals
<1>7. \A i, j \in 0..(n - 1) : i <= j => new[i] <= new[j]
  BY <1>0, <1>1
<1> HIDE DEF new
<1>8. Charges(front, total[n - 1])
  BY <1>4, <1>5, <1>6, <1>7, ChargesBy
<1>9. total[n - 1] \in 0..ByteBudget
  BY <1>0, <1>1
<1> QED
  BY <1>3, <1>8, <1>9 DEF front

\* The charge after the first envelope is released.
LEMMA ChargeTail ==
  ASSUME NEW s \in Seq(Event), s # << >>, NEW c, Charges(s, c)
  PROVE  /\ Charges(Tail(s), Minus(c, Bytes(Head(s))))
         /\ Minus(c, Bytes(Head(s))) \in 0..ByteBudget
<1> DEFINE n == Len(s)
<1>0. n \in Nat \ {0} /\ ByteBudget \in Nat
  BY IngressAssumption
<1>1. PICK total \in [0..n -> 0..ByteBudget] :
        /\ Totals(s, total) /\ c = total[n]
        /\ \A i, j \in 0..n : i <= j => total[i] <= total[j]
  BY DEF Charges
<1>2. total[1] = Bytes(Head(s))
  <2>1. Head(s) = s[1] /\ s[1] \in Event
    BY <1>0
  <2>2. Bytes(s[1]) \in Nat
    BY <2>1, BytesType
  <2>3. total[1] = total[0] + Bytes(s[1]) /\ total[0] = 0
    <3>1. 1 \in 1..n /\ 1 - 1 = 0
      BY <1>0
    <3> QED
      BY <1>1, <3>1 DEF Totals
  <2> QED
    BY <2>1, <2>2, <2>3
<1>3. \A i \in 0..(n - 1) : /\ total[i + 1] \in Nat /\ total[i + 1] <= ByteBudget
                            /\ total[i + 1] >= total[1]
  BY <1>0, <1>1
<1>4. total[1] \in Nat /\ total[n] \in Nat /\ total[n] >= total[1]
  BY <1>0, <1>1
<1>5. Minus(c, Bytes(Head(s))) = total[n] - total[1]
  BY <1>1, <1>2, <1>4 DEF Minus
<1> DEFINE new == [i \in 0..(n - 1) |-> total[i + 1] - total[1]]
           rest == Tail(s)
<1>6. Len(rest) = n - 1 /\ \A i \in 1..(n - 1) : rest[i] = s[i + 1]
  BY <1>0
<1> HIDE DEF rest
<1>7. new \in [0..(n - 1) -> 0..ByteBudget]
  BY <1>0, <1>3, <1>4
<1>8. total[n] - total[1] = new[n - 1] /\ new[n - 1] \in 0..ByteBudget
  BY <1>0, <1>3, <1>4
<1>9. Totals(rest, new)
  <2>1. new[0] = 0
    BY <1>0, <1>4
  <2>2. ASSUME NEW i \in 1..(n - 1) PROVE new[i] = new[i - 1] + Bytes(rest[i])
    <3>1. total[i + 1] = total[i] + Bytes(s[i + 1])
      <4>1. i + 1 \in 1..n /\ (i + 1) - 1 = i
        BY <1>0
      <4> QED
        BY <1>1, <4>1 DEF Totals
    <3>2. Bytes(s[i + 1]) \in Nat
      BY <1>0, BytesType
    <3>3. total[i] \in Nat /\ (i - 1) + 1 = i
      BY <1>0, <1>1
    <3>4. new[i] = total[i + 1] - total[1] /\ new[i - 1] = total[i] - total[1]
      BY <1>0, <3>3
    <3> QED
      BY <1>4, <1>6, <3>1, <3>2, <3>3, <3>4
  <2> QED
    BY <1>6, <2>1, <2>2 DEF Totals
<1>10. \A i, j \in 0..(n - 1) : i <= j => new[i] <= new[j]
  BY <1>0, <1>1, <1>3, <1>4
<1> HIDE DEF new
<1>11. Charges(rest, total[n] - total[1])
  BY <1>6, <1>7, <1>8, <1>9, <1>10, ChargesBy
<1> QED
  BY <1>5, <1>8, <1>11 DEF rest

-----------------------------------------------------------------------------
(***************************************************************************)
(* The steps of the reader thread and of the shell.                        *)
(***************************************************************************)

\* What a step does to the envelopes in transit and to their charge.
Move(s, t, c, d) ==
  \/ t = s /\ d = c
  \/ \E e \in Event : t = Append(s, e) /\ d = c + Bytes(e) /\ d <= ByteBudget
  \/ s # << >> /\ t = SubSeq(s, 1, Len(s) - 1) /\ d = Minus(c, Bytes(s[Len(s)]))
  \/ s # << >> /\ t = Tail(s) /\ d = Minus(c, Bytes(Head(s)))

LEMMA MoveKeepsCharge ==
  ASSUME NEW s \in Seq(Event), NEW t, NEW c \in 0..ByteBudget, NEW d,
         Charges(s, c), Move(s, t, c, d)
  PROVE  Charges(t, d) /\ d \in 0..ByteBudget
  BY ChargeAppend, ChargeFront, ChargeTail DEF Move

\* A sequence of one event.
LEMMA AtMostOne ==
  ASSUME NEW n \in Nat, n # 0, n <= 1
  PROVE  n = 1
  OBVIOUS

LEMMA SingleEvent ==
  ASSUME NEW s \in Seq(Event), Len(s) <= 1, s # << >>
  PROVE  Head(s) \in Event /\ s = <<Head(s)>>
<1>1. Len(s) = 1 /\ Head(s) = s[1] /\ s[1] \in Event
  <2>1. Len(s) \in Nat /\ Len(s) # 0
    BY LenProperties, EmptySeq
  <2>2. Len(s) = 1
    BY <2>1, AtMostOne, Zenon
  <2>3. Head(s) = s[1]
    OBVIOUS
  <2> QED
    BY <2>2, <2>3, ElementOfSeq
<1>2. PICK t : t = <<s[1]>>
  OBVIOUS
<1>3. t \in Seq(Event) /\ Len(t) = 1 /\ t[1] = s[1]
  BY <1>1, <1>2
<1>4. s = t
  BY <1>1, <1>3
<1> QED
  BY <1>1, <1>2, <1>4

LEMMA ReaderMoves ==
  ASSUME IngressTypeOK, OutcomeInv, IngressReader
  PROVE  Move(InTransit, InTransit', outstanding, outstanding')
<1>0. taken \in Seq(Event) /\ events \in Seq(Event) /\ held \in Seq(Event)
  BY DEF IngressTypeOK
<1>1. CASE Reserve
  <2>1. held = << >> /\ NextEnvelope \in Event
    BY <1>1 DEF Reserve, OutcomeInv, IngressTypeOK, PipesTypeOK, NextEnvelope
  <2>2. /\ held' = <<NextEnvelope>> /\ taken' = taken /\ events' = events
        /\ outstanding' = outstanding + Bytes(NextEnvelope)
        /\ outstanding + Bytes(NextEnvelope) <= ByteBudget
    BY <1>1 DEF Reserve, Fits
  <2>3. InTransit' = Append(InTransit, NextEnvelope)
    BY <1>0, <2>1, <2>2, TransitAccepts DEF InTransit
  <2> QED
    BY <2>1, <2>2, <2>3 DEF Move
<1>2. CASE ReadFails \/ ReadEof \/ RecordFailure \/ Return
  BY <1>2 DEF ReadFails, ReadEof, RecordFailure, Return, InTransit, Move
<1>3. CASE TrySend
  <2>1. /\ events' = events \o held /\ held' = << >>
        /\ taken' = taken /\ outstanding' = outstanding
    BY <1>3 DEF TrySend
  <2>2. InTransit' = InTransit
    BY <1>0, <2>1, TransitQueues DEF InTransit
  <2> QED
    BY <2>1, <2>2 DEF Move
<1>4. CASE TrySendFull
  <2>1. /\ held # << >> /\ held' = << >> /\ events' = events /\ taken' = taken
        /\ outstanding' = Minus(outstanding, Bytes(Head(held)))
    BY <1>4 DEF TrySendFull, OutcomeInv
  <2>2. PICK e \in Event : e = Head(held) /\ held = <<e>>
    BY <1>0, <2>1, SingleEvent DEF IngressTypeOK
  <2>3. /\ InTransit # << >>
        /\ InTransit' = SubSeq(InTransit, 1, Len(InTransit) - 1)
        /\ InTransit[Len(InTransit)] = e
    BY <1>0, <2>1, <2>2, TransitRefuses DEF InTransit
  <2> QED
    BY <2>1, <2>2, <2>3 DEF Move
<1> QED
  BY <1>1, <1>2, <1>3, <1>4 DEF IngressReader

LEMMA ShellMoves ==
  ASSUME IngressTypeOK, ShellReceives
  PROVE  Move(InTransit, InTransit', outstanding, outstanding')
<1>0. taken \in Seq(Event) /\ events \in Seq(Event) /\ held \in Seq(Event)
  BY DEF IngressTypeOK
<1>1. CASE Dequeue
  <2>1. /\ taken = << >> /\ events # << >> /\ taken' = <<Head(events)>>
        /\ events' = Tail(events) /\ held' = held /\ outstanding' = outstanding
    BY <1>1 DEF Dequeue
  <2>2. InTransit' = InTransit
    BY <1>0, <2>1, TransitHandsOver DEF InTransit
  <2> QED
    BY <2>1, <2>2 DEF Move
<1>2. CASE Release
  <2>1. /\ taken # << >> /\ taken' = << >> /\ events' = events /\ held' = held
        /\ outstanding' = Minus(outstanding, Bytes(Head(taken)))
    BY <1>2 DEF Release
  <2>2. PICK e \in Event : e = Head(taken) /\ taken = <<e>>
    BY <1>0, <2>1, SingleEvent DEF IngressTypeOK
  <2>3. InTransit # << >> /\ InTransit' = Tail(InTransit) /\ Head(InTransit) = e
    BY <1>0, <2>1, <2>2, TransitReleases DEF InTransit
  <2> QED
    BY <2>1, <2>2, <2>3 DEF Move
<1>3. CASE TerminalFailure
  BY <1>3 DEF TerminalFailure, InTransit, Move
<1> QED
  BY <1>1, <1>2, <1>3 DEF ShellReceives

\* The charge, through any step of the reader thread or of the shell.
LEMMA ChargeStep ==
  ASSUME IngressTypeOK, ChargedInv, OutcomeInv, IngressReader \/ ShellReceives
  PROVE  ChargedInv' /\ outstanding' \in 0..ByteBudget
<1>1. Move(InTransit, InTransit', outstanding, outstanding')
  BY ReaderMoves, ShellMoves
<1>2. InTransit \in Seq(Event) /\ outstanding \in 0..ByteBudget
  BY InTransitType DEF IngressTypeOK
<1> QED
  BY <1>1, <1>2, MoveKeepsCharge DEF ChargedInv, Charges, Totals, Bytes

LEMMA OutcomeStep ==
  ASSUME IngressTypeOK, OutcomeInv, IngressReader \/ ShellReceives
  PROVE  OutcomeInv'
<1>0. /\ ingress \in IngressPcs /\ outcome \in Reasons \cup {"none", "EventStreamClosed"}
      /\ failure \in Reasons \cup {"none"} /\ held \in Seq(Event)
  BY DEF IngressTypeOK
<1>1. CASE Reserve
  BY <1>0, <1>1 DEF Reserve, OutcomeInv
<1>2. CASE ReadFails
  BY <1>0, <1>2 DEF ReadFails, OutcomeInv, Reasons
<1>3. CASE ReadEof
  BY <1>0, <1>3 DEF ReadEof, OutcomeInv, Reasons
<1>4. CASE TrySend
  BY <1>0, <1>4 DEF TrySend, OutcomeInv
<1>5. CASE TrySendFull
  BY <1>0, <1>5 DEF TrySendFull, OutcomeInv, Reasons
<1>6. CASE RecordFailure
  BY <1>0, <1>6 DEF RecordFailure, OutcomeInv, Reasons
<1>7. CASE Return
  BY <1>0, <1>7 DEF Return, OutcomeInv, Reasons
<1>8. CASE Dequeue \/ Release
  BY <1>8 DEF Dequeue, Release, OutcomeInv
<1>9. CASE TerminalFailure
  <2>1. verdict' # "none"
    BY <1>9 DEF TerminalFailure
  <2> QED
    BY <1>0, <1>9, <2>1 DEF TerminalFailure, OutcomeInv, Reasons, IngressPcs
<1> QED
  BY <1>1, <1>2, <1>3, <1>4, <1>5, <1>6, <1>7, <1>8, <1>9
     DEF IngressReader, ShellReceives

LEMMA IngressTypeStep ==
  ASSUME IngressTypeOK, ChargedInv, OutcomeInv, IngressReader \/ ShellReceives
  PROVE  IngressTypeOK'
<1>0. /\ evPipe \in Seq(Event) /\ held \in Seq(Event) /\ Len(held) <= 1
      /\ taken \in Seq(Event) /\ Len(taken) <= 1
      /\ events \in Seq(Event) /\ Len(events) <= EventQueueDepth
      /\ EventQueueDepth \in Nat
  BY IngressAssumption DEF IngressTypeOK, PipesTypeOK
<1>1. outstanding' \in 0..ByteBudget
  BY ChargeStep
<1>2. UNCHANGED <<cmdPipe, cmdOpen, child, sent>>
  BY DEF IngressReader, ShellReceives, Reserve, ReadFails, ReadEof, TrySend,
         TrySendFull, RecordFailure, Return, Dequeue, Release, TerminalFailure, pipeVars
<1>3. evOpen' \in BOOLEAN
  BY DEF IngressReader, ShellReceives, Reserve, ReadFails, ReadEof, TrySend,
         TrySendFull, RecordFailure, Return, Dequeue, Release, TerminalFailure,
         pipeVars, IngressTypeOK, PipesTypeOK
<1>4. evPipe' \in Seq(Event)
  <2>1. evPipe' = evPipe \/ (evPipe # << >> /\ evPipe' = Tail(evPipe))
    BY DEF IngressReader, ShellReceives, Reserve, ReadFails, ReadEof, TrySend,
           TrySendFull, RecordFailure, Return, Dequeue, Release, TerminalFailure, pipeVars
  <2>2. ASSUME NEW s \in Seq(Event), s # << >> PROVE Tail(s) \in Seq(Event)
    BY <2>2, HeadTailProperties, Zenon
  <2> QED
    BY <1>0, <2>1, <2>2, Zenon
<1>5. ingress' \in IngressPcs
  BY DEF IngressReader, ShellReceives, Reserve, ReadFails, ReadEof, TrySend,
         TrySendFull, RecordFailure, Return, Dequeue, Release, TerminalFailure,
         IngressTypeOK, IngressPcs
<1>6. held' \in Seq(Event) /\ Len(held') <= 1
  <2>1. CASE Reserve
    BY <1>0, <2>1 DEF Reserve, NextEnvelope
  <2>2. CASE ~Reserve
    <3>1. held' = held \/ held' = << >>
      BY <2>2
         DEF IngressReader, ShellReceives, ReadFails, ReadEof, TrySend,
             TrySendFull, RecordFailure, Return, Dequeue, Release, TerminalFailure
    <3> QED
      BY <1>0, <3>1, NoEvents
  <2> QED
    BY <2>1, <2>2
<1>7. taken' \in Seq(Event) /\ Len(taken') <= 1
  <2>1. CASE Dequeue
    BY <1>0, <2>1 DEF Dequeue
  <2>2. CASE ~Dequeue
    <3>1. taken' = taken \/ taken' = << >>
      BY <2>2
         DEF IngressReader, ShellReceives, Reserve, ReadFails, ReadEof, TrySend,
             TrySendFull, RecordFailure, Return, Release, TerminalFailure
    <3> QED
      BY <1>0, <3>1, NoEvents
  <2> QED
    BY <2>1, <2>2
<1>8. events' \in Seq(Event) /\ Len(events') <= EventQueueDepth
  <2>1. CASE Dequeue
    BY <1>0, <2>1 DEF Dequeue
  <2>2. CASE TrySend
    BY <1>0, <2>2 DEF TrySend
  <2>3. CASE ~Dequeue /\ ~TrySend
    BY <1>0, <2>3
       DEF IngressReader, ShellReceives, Reserve, ReadFails, ReadEof,
           TrySendFull, RecordFailure, Return, Release, TerminalFailure
  <2> QED
    BY <2>1, <2>2, <2>3
<1>9. outcome' \in Reasons \cup {"none", "EventStreamClosed"}
  BY DEF IngressReader, ShellReceives, Reserve, ReadFails, ReadEof, TrySend,
         TrySendFull, RecordFailure, Return, Dequeue, Release, TerminalFailure,
         IngressTypeOK, Reasons
<1>10. failure' \in Reasons \cup {"none"}
  BY DEF IngressReader, ShellReceives, Reserve, ReadFails, ReadEof, TrySend,
         TrySendFull, RecordFailure, Return, Dequeue, Release, TerminalFailure,
         IngressTypeOK, OutcomeInv
<1>11. verdict' \in Reasons \cup {"none", "EventStreamClosed"}
  BY DEF IngressReader, ShellReceives, Reserve, ReadFails, ReadEof, TrySend,
         TrySendFull, RecordFailure, Return, Dequeue, Release, TerminalFailure,
         IngressTypeOK
<1>12. PipesTypeOK'
  BY <1>2, <1>3, <1>4 DEF IngressTypeOK, PipesTypeOK
<1> QED
  BY <1>1, <1>5, <1>6, <1>7, <1>8, <1>9, <1>10, <1>11, <1>12 DEF IngressTypeOK

\* Nothing the worker does to the pipe touches what the ingress holds.
LEMMA IngressUnchanged ==
  ASSUME ChargedInv, OutcomeInv, UNCHANGED ingressVars
  PROVE  ChargedInv' /\ OutcomeInv' /\ UNCHANGED InTransit
<1>1. UNCHANGED <<ingress, held, outcome, events, outstanding, failure, taken, verdict>>
  BY DEF ingressVars
<1>2. UNCHANGED InTransit
  BY <1>1 DEF InTransit
<1>3. ChargedInv'
  BY <1>1, <1>2 DEF ChargedInv, Charges, Totals, Bytes
<1>4. OutcomeInv'
  BY <1>1 DEF OutcomeInv
<1> QED
  BY <1>2, <1>3, <1>4

\* The empty channel is charged nothing.
LEMMA IngressStarts ==
  ASSUME IngressInit
  PROVE  ChargedInv /\ OutcomeInv /\ InTransit = << >>
<1>1. InTransit = << >> /\ outstanding = 0
  BY DEF IngressInit, InTransit
<1> DEFINE total == [i \in 0..0 |-> 0]
<1>2. total \in [0..0 -> 0..ByteBudget] /\ total[0] = 0
  BY IngressAssumption
<1>3. \A i, j \in 0..0 : i <= j => total[i] <= total[j]
  OBVIOUS
<1>4. Totals(<< >>, total)
  BY <1>2 DEF Totals
<1> HIDE DEF total
<1>5. Charges(<< >>, 0)
  BY <1>2, <1>3, <1>4, ChargesBy
<1>6. OutcomeInv
  BY DEF IngressInit, OutcomeInv
<1> QED
  BY <1>1, <1>5, <1>6 DEF ChargedInv

-----------------------------------------------------------------------------
(***************************************************************************)
(* The ingress on its own.                                                 *)
(***************************************************************************)
LEMMA PeerFacts ==
  ASSUME IngressTypeOK, PeerWrites
  PROVE  /\ \E e \in Event : evPipe' = Append(evPipe, e)
         /\ sent' \in Nat
         /\ UNCHANGED <<cmdPipe, cmdOpen, evOpen, child, ingressVars>>
<1>1. \A k \in PeerKinds, v \in Views : Ev(k, v) \in Event
  BY IngressAssumption DEF Ev, Event
<1> QED
  BY <1>1 DEF PeerWrites, IngressTypeOK, PipesTypeOK

LEMMA IngressInitially == IngressAloneInit => IngressIInv
<1> SUFFICES ASSUME IngressAloneInit PROVE IngressIInv
  OBVIOUS
<1>1. ChargedInv /\ OutcomeInv
  BY IngressStarts DEF IngressAloneInit
<1>2. PipesTypeOK
  BY PipeAssumption DEF IngressAloneInit, PipesInit, PipesTypeOK, ChildStates
<1>3. IngressTypeOK
  BY <1>2, IngressAssumption DEF IngressAloneInit, IngressInit, IngressTypeOK, IngressPcs
<1> QED
  BY <1>1, <1>3 DEF IngressIInv

LEMMA IngressStepInv ==
  ASSUME IngressIInv, [IngressNext]_allIngressVars
  PROVE  IngressIInv'
<1>0. IngressTypeOK /\ ChargedInv /\ OutcomeInv
  BY DEF IngressIInv
<1>1. CASE IngressReader \/ ShellReceives
  BY <1>0, <1>1, ChargeStep, OutcomeStep, IngressTypeStep DEF IngressIInv
<1>2. CASE PeerWrites
  <2>1. /\ evPipe' \in Seq(Event) /\ sent' \in Nat
        /\ UNCHANGED <<cmdPipe, cmdOpen, evOpen, child, ingressVars>>
    <3>1. PICK e \in Event : evPipe' = Append(evPipe, e)
      BY <1>0, <1>2, PeerFacts
    <3>2. evPipe' \in Seq(Event)
      BY <1>0, <3>1 DEF IngressTypeOK, PipesTypeOK
    <3> QED
      BY <1>0, <1>2, <3>2, PeerFacts
  <2>2. PipesTypeOK'
    BY <1>0, <2>1 DEF IngressTypeOK, PipesTypeOK
  <2>3. ChargedInv' /\ OutcomeInv'
    BY <1>0, <2>1, IngressUnchanged
  <2> QED
    BY <1>0, <2>1, <2>2, <2>3 DEF IngressIInv, IngressTypeOK, ingressVars
<1>3. CASE PeerEnds \/ UNCHANGED allIngressVars
  <2>1. /\ UNCHANGED <<cmdPipe, cmdOpen, evPipe, evOpen, sent, ingressVars>>
        /\ child' = "exited" \/ child' = child
    BY <1>3 DEF PeerEnds, allIngressVars, pipeVars
  <2>2. PipesTypeOK'
    BY <1>0, <2>1 DEF IngressTypeOK, PipesTypeOK, ChildStates
  <2>3. ChargedInv' /\ OutcomeInv'
    BY <1>0, <2>1, IngressUnchanged
  <2> QED
    BY <1>0, <2>1, <2>2, <2>3 DEF IngressIInv, IngressTypeOK, ingressVars
<1> QED
  BY <1>1, <1>2, <1>3 DEF IngressNext

LEMMA IngressInvariance == IngressSpec => []IngressIInv
  BY IngressInitially, IngressStepInv, PTL DEF IngressSpec

\* The channel keeps its bounds in events and in bytes, and the charge is
\* what the events between reserve and release weigh, to the byte, on every
\* path of the reader thread and of the shell.
THEOREM ChargeNeverLeaks == IngressSpec => []IngressInv
<1>1. IngressIInv => IngressInv
  BY DEF IngressIInv, IngressInv, ChargedInv, Charges, ChargeExact
<1> QED
  BY <1>1, IngressInvariance, PTL

\* The envelope the ingress takes from the pipe joins what is in transit,
\* and its end costs at most one of them.
LEMMA ReaderRefines ==
  ASSUME IngressTypeOK, OutcomeInv, IngressReader
  PROVE  [Stream!Next]_(Stream!vars)
<1>0. taken \in Seq(Event) /\ events \in Seq(Event) /\ held \in Seq(Event)
  BY DEF IngressTypeOK
<1>1. CASE Reserve
  <2>1. /\ held = << >> /\ NextEnvelope \in Event /\ outcome = "none"
        /\ evPipe # << >> /\ evPipe' = Tail(evPipe) /\ UNCHANGED <<outcome, verdict>>
    BY <1>1 DEF Reserve, OutcomeInv, IngressTypeOK, PipesTypeOK, NextEnvelope
  <2>2. held' = <<NextEnvelope>> /\ taken' = taken /\ events' = events
    BY <1>1 DEF Reserve
  <2>3. InTransit' = Append(InTransit, Head(evPipe))
    BY <1>0, <2>1, <2>2, TransitAccepts DEF InTransit, NextEnvelope
  <2>4. Stream!Accept
    BY <2>1, <2>3 DEF Stream!Accept
  <2> QED
    BY <2>4 DEF Stream!Next
<1>2. CASE ReadFails
  <2>1. /\ outcome = "none" /\ outcome' # "none" /\ evPipe # << >>
        /\ evPipe' = Tail(evPipe) /\ UNCHANGED <<InTransit, verdict>>
    BY <1>2 DEF ReadFails, OutcomeInv, InTransit
  <2>2. Stream!End
    BY <2>1 DEF Stream!End
  <2> QED
    BY <2>2 DEF Stream!Next
<1>3. CASE ReadEof
  <2>1. /\ outcome = "none" /\ outcome' # "none"
        /\ UNCHANGED <<evPipe, InTransit, verdict>>
    BY <1>3 DEF ReadEof, OutcomeInv, InTransit, pipeVars
  <2>2. Stream!End
    BY <2>1 DEF Stream!End
  <2> QED
    BY <2>2 DEF Stream!Next
<1>4. CASE TrySend
  <2>1. /\ events' = events \o held /\ held' = << >> /\ taken' = taken
        /\ UNCHANGED <<evPipe, outcome, verdict>>
    BY <1>4 DEF TrySend, pipeVars
  <2>2. taken \o (events \o held) \o << >> = taken \o events \o held
    BY <1>0, TransitQueues
  <2>3. InTransit' = InTransit
    BY <2>1, <2>2 DEF InTransit
  <2> QED
    BY <2>1, <2>3 DEF Stream!vars
<1>5. CASE TrySendFull
  <2>1. /\ held # << >> /\ held' = << >> /\ events' = events /\ taken' = taken
        /\ outcome = "none" /\ outcome' # "none" /\ UNCHANGED <<evPipe, verdict>>
    BY <1>5 DEF TrySendFull, OutcomeInv, pipeVars
  <2>2. PICK e \in Event : held = <<e>>
    BY <1>0, <2>1, SingleEvent DEF IngressTypeOK
  <2>3. /\ InTransit # << >>
        /\ InTransit' = SubSeq(InTransit, 1, Len(InTransit) - 1)
    BY <1>0, <2>1, <2>2, TransitRefuses DEF InTransit
  <2>4. Stream!End
    BY <2>1, <2>3 DEF Stream!End
  <2> QED
    BY <2>4 DEF Stream!Next
<1>6. CASE RecordFailure \/ Return
  BY <1>6 DEF RecordFailure, Return, pipeVars, InTransit, Stream!vars
<1> QED
  BY <1>1, <1>2, <1>3, <1>4, <1>5, <1>6 DEF IngressReader

\* The shell takes the envelopes in order and hears the cause of the end.
LEMMA ShellRefines ==
  ASSUME IngressTypeOK, OutcomeInv, ShellReceives
  PROVE  [Stream!Next]_(Stream!vars)
<1>0. taken \in Seq(Event) /\ events \in Seq(Event) /\ held \in Seq(Event)
  BY DEF IngressTypeOK
<1>1. CASE Dequeue
  <2>1. /\ taken = << >> /\ events # << >> /\ taken' = <<Head(events)>>
        /\ events' = Tail(events) /\ held' = held
        /\ UNCHANGED <<evPipe, outcome, verdict>>
    BY <1>1 DEF Dequeue, pipeVars
  <2>2. InTransit' = InTransit
    BY <1>0, <2>1, TransitHandsOver DEF InTransit
  <2> QED
    BY <2>1, <2>2 DEF Stream!vars
<1>2. CASE Release
  <2>1. /\ taken # << >> /\ taken' = << >> /\ events' = events /\ held' = held
        /\ UNCHANGED <<evPipe, outcome, verdict>>
    BY <1>2 DEF Release, pipeVars
  <2>2. PICK e \in Event : taken = <<e>>
    BY <1>0, <2>1, SingleEvent DEF IngressTypeOK
  <2>3. InTransit # << >> /\ InTransit' = Tail(InTransit)
    BY <1>0, <2>1, <2>2, TransitReleases DEF InTransit
  <2>4. Stream!Deliver
    BY <2>1, <2>3 DEF Stream!Deliver
  <2> QED
    BY <2>4 DEF Stream!Next
<1>3. CASE TerminalFailure
  <2>1. /\ taken = << >> /\ events = << >> /\ ingress = "disconnected"
        /\ verdict' = IF failure = "none" THEN "EventStreamClosed" ELSE failure
        /\ UNCHANGED <<evPipe, outcome, taken, events, held>>
    BY <1>3 DEF TerminalFailure, pipeVars
  <2>2. held = << >> /\ outcome # "none"
    BY <2>1 DEF OutcomeInv
  <2>3. InTransit = << >> /\ UNCHANGED InTransit
    BY <2>1, <2>2 DEF InTransit
  <2>4. outcome \in Reasons \/ outcome = "EventStreamClosed"
    BY <2>2 DEF IngressTypeOK
  <2>5. verdict = "none" => verdict' = outcome
    BY <2>1, <2>2, <2>4 DEF OutcomeInv, Reasons
  <2>6. verdict # "none" => verdict' = "EventStreamClosed"
    BY <2>1 DEF OutcomeInv
  <2>7. Stream!Report
    BY <2>1, <2>2, <2>3, <2>5, <2>6 DEF Stream!Report
  <2> QED
    BY <2>7 DEF Stream!Next
<1> QED
  BY <1>1, <1>2, <1>3 DEF ShellReceives

\* The thread, the channel, the charge and the failure slot together keep
\* the promise of EventStream: wire order, no gap, at most one envelope lost
\* to the end, and the recorded cause is what the shell hears first.
THEOREM IngressImplementsEventStream == IngressSpec => ImplementsEventStream
<1>1. IngressAloneInit => Stream!Init
  <2> SUFFICES ASSUME IngressAloneInit PROVE Stream!Init
    OBVIOUS
  <2>1. InTransit = << >>
    BY IngressStarts DEF IngressAloneInit
  <2> QED
    BY <2>1 DEF IngressAloneInit, IngressInit, PipesInit, Stream!Init
<1>2. IngressIInv /\ [IngressNext]_allIngressVars => [Stream!Next]_(Stream!vars)
  <2> SUFFICES ASSUME IngressTypeOK, OutcomeInv, ChargedInv, [IngressNext]_allIngressVars
               PROVE  [Stream!Next]_(Stream!vars)
    BY DEF IngressIInv
  <2>1. CASE PeerWrites
    <3>1. PICK e \in Event : evPipe' = Append(evPipe, e)
      BY <2>1, PeerFacts
    <3>2. UNCHANGED <<InTransit, outcome, verdict>>
      BY <2>1, PeerFacts, IngressUnchanged DEF ingressVars
    <3>3. Stream!Write
      BY <3>1, <3>2 DEF Stream!Write
    <3> QED
      BY <3>3 DEF Stream!Next
  <2>2. CASE PeerEnds \/ UNCHANGED allIngressVars
    <3>1. UNCHANGED evPipe /\ UNCHANGED ingressVars
      BY <2>2 DEF PeerEnds, allIngressVars, pipeVars
    <3>2. UNCHANGED <<InTransit, outcome, verdict>>
      BY <3>1, IngressUnchanged DEF ingressVars
    <3> QED
      BY <3>1, <3>2 DEF Stream!vars
  <2> QED
    BY <2>1, <2>2, ReaderRefines, ShellRefines DEF IngressNext
<1> QED
  BY <1>1, <1>2, IngressInvariance, PTL DEF IngressSpec, ImplementsEventStream, Stream!Spec

-----------------------------------------------------------------------------
(***************************************************************************)
(* Proofs about the composed shell, ingress and worker, for every set of   *)
(* views and profiles and every depth and budget.                          *)
(*                                                                         *)
(* What the worker's proofs and the ingress's proofs establish of each     *)
(* alone carries over: a step of one leaves the other's variables alone    *)
(* and the pipes between them keep their types.  The composition adds      *)
(* ReapInv: nobody writes to the event pipe after the ingress has seen its *)
(* end of file, and the child has ended before the thread is joined.       *)
(***************************************************************************)

WorkerInv == IInv /\ SlotUsed /\ EventInv

ReapInv ==
  /\ shell \in {"joining", "done"} => ~Running
  /\ outcome = "EventStreamClosed" => evPipe = << >> /\ ~Running
  /\ shell = "done" => ingress = "disconnected"

SupIInv == WorkerInv /\ IngressIInv /\ shell \in ShellPcs /\ ReapInv /\ CleanExitClosesViews

-----------------------------------------------------------------------------
(***************************************************************************)
(* A component that does not move keeps its invariant.                     *)
(***************************************************************************)
LEMMA WorkerKept ==
  ASSUME WorkerInv, UNCHANGED workerVars, PipesTypeOK'
  PROVE  WorkerInv'
<1>0. UNCHANGED <<readerDone, queue, views, profiles, inflight, fetches,
                  spawning, building, outbox, draining, starts, announced>>
  BY DEF workerVars
<1>1. TypeOK'
  BY <1>0 DEF WorkerInv, IInv, TypeOK
<1>2. SlotInv'
  BY <1>0 DEF WorkerInv, IInv, SlotInv, IsComplete
<1>3. LinkInv'
  BY <1>0 DEF WorkerInv, IInv, LinkInv, Linked, Awaited, Present, IsComplete
<1>4. SlotUsed'
  BY <1>0 DEF WorkerInv, SlotUsed, IsComplete
<1>5. EventInv'
  <2>1. EventInv /\ (draining' => building' = {} /\ spawning' = {})
    BY <1>0 DEF WorkerInv, EventInv
  <2> QED
    BY <1>0, <2>1, EventKept
<1> QED
  BY <1>1, <1>2, <1>3, <1>4, <1>5 DEF WorkerInv, IInv

LEMMA IngressKept ==
  ASSUME IngressIInv, UNCHANGED ingressVars, PipesTypeOK'
  PROVE  IngressIInv'
<1>1. UNCHANGED <<ingress, held, outcome, events, outstanding, failure, taken, verdict>>
  BY DEF ingressVars
<1>2. ChargedInv' /\ OutcomeInv'
  BY IngressUnchanged DEF IngressIInv
<1> QED
  BY <1>1, <1>2 DEF IngressIInv, IngressTypeOK

\* A worker that has ended does nothing more, and a running one that ends
\* by itself after Shutdown has closed and announced every view.
LEMMA WorkerEnds ==
  ASSUME EventInv, WorkerNext
  PROVE  /\ Running
         /\ child' = "exited" /\ draining' => \A v \in Views : announced'[v] = "Absent"
<1>1. Running
  BY DEF WorkerNext, CommandReader, Fetching, Actor, ReadCommand, ReadEndOfFile,
         FetchReturns, CreateView, CloseView, Navigate, Reload, Stop,
         UnboundCommand, StreamEnds, Shutdown, CloseNextView, DrainDone,
         NavigationComplete, WriteEvent, WriteFails, SpawnFetch, SpawnFails,
         BuildReturns, ReceiveCommand, Receive, ActorIdle
<1>2. CASE DrainDone
  <2>1. /\ draining /\ outbox = << >> /\ UNCHANGED announced
        /\ \A v \in Views : ~Present(v)
    BY <1>2 DEF DrainDone
  <2>2. \A v \in Views : Agrees(v)
    BY <2>1, IdleAgrees DEF EventInv
  <2> QED
    BY <1>1, <2>1, <2>2 DEF Agrees
<1>3. CASE StreamEnds
  <2>1. ~draining /\ UNCHANGED draining
    BY <1>3 DEF StreamEnds, Receive, ActorIdle
  <2> QED
    BY <1>1, <2>1
<1>4. CASE UnboundCommand \/ WriteFails \/ SpawnFails
  <2>1. child' = "failed"
    BY <1>4 DEF UnboundCommand, WriteFails, SpawnFails
  <2> QED
    BY <1>1, <2>1
<1>5. CASE ~DrainDone /\ ~StreamEnds /\ ~(UnboundCommand \/ WriteFails \/ SpawnFails)
  <2>1. UNCHANGED child
    BY <1>5
       DEF WorkerNext, CommandReader, Fetching, Actor, ReadCommand, ReadEndOfFile,
           FetchReturns, CreateView, CloseView, Navigate, Reload, Stop,
           Shutdown, CloseNextView, NavigationComplete, WriteEvent, SpawnFetch,
           BuildReturns, pipeVars
  <2> QED
    BY <1>1, <2>1 DEF Running
<1> QED
  BY <1>2, <1>3, <1>4, <1>5

LEMMA SupStarts == SupInit => SupIInv
<1> SUFFICES ASSUME SupInit PROVE SupIInv
  OBVIOUS
<1>1. Init /\ IngressInit /\ shell = "open"
  BY DEF SupInit
<1>2. WorkerInv
  BY <1>1, InitIInv, EventInit DEF WorkerInv
<1>3. IngressIInv
  BY <1>1, IngressInitially DEF Init, IngressAloneInit
<1>4. ReapInv /\ CleanExitClosesViews
  BY <1>1 DEF ReapInv, CleanExitClosesViews, Init, PipesInit, IngressInit
<1> QED
  BY <1>1, <1>2, <1>3, <1>4 DEF SupIInv, ShellPcs

-----------------------------------------------------------------------------
(***************************************************************************)
(* One step of each party.                                                 *)
(***************************************************************************)
LEMMA WorkerStepKeeps ==
  ASSUME SupIInv, WorkerStep
  PROVE  SupIInv'
<1>0. WorkerNext /\ UNCHANGED <<ingressVars, shell>>
  BY DEF WorkerStep
<1>1. WorkerInv'
  BY <1>0, TypeStep, SlotStep, LinkStep, UsedStep, EventStep
     DEF SupIInv, WorkerInv, IInv, Next
<1>2. IngressIInv'
  BY <1>0, <1>1, IngressKept DEF SupIInv, WorkerInv, IInv, TypeOK
<1>3. Running /\ CleanExitClosesViews'
  BY <1>0, WorkerEnds DEF SupIInv, WorkerInv, CleanExitClosesViews
<1>4. UNCHANGED <<outcome, ingress, shell>>
  BY <1>0 DEF ingressVars
<1>5. ReapInv'
  BY <1>3, <1>4 DEF SupIInv, ReapInv
<1> QED
  BY <1>1, <1>2, <1>3, <1>4, <1>5 DEF SupIInv

LEMMA IngressStepKeeps ==
  ASSUME SupIInv, (IngressReader \/ ShellReceives), UNCHANGED <<workerVars, shell>>,
         IngressReader \/ shell # "done"
  PROVE  SupIInv'
<1>0. IngressIInv /\ IngressTypeOK /\ OutcomeInv /\ ChargedInv
  BY DEF SupIInv, IngressIInv
<1>1. IngressIInv'
  BY <1>0, ChargeStep, OutcomeStep, IngressTypeStep DEF IngressIInv
<1>2. WorkerInv'
  BY <1>1, WorkerKept DEF SupIInv, IngressIInv, IngressTypeOK
<1>3. UNCHANGED <<child, draining, announced>>
  BY DEF IngressReader, ShellReceives, Reserve, ReadFails, ReadEof, TrySend,
         TrySendFull, RecordFailure, Return, Dequeue, Release, TerminalFailure,
         pipeVars, workerVars
<1>4. CleanExitClosesViews'
  BY <1>3 DEF SupIInv, CleanExitClosesViews
<1>5. shell # "done"
  <2>1. IngressReader => ingress # "disconnected"
    BY DEF IngressReader, Reserve, ReadFails, ReadEof, TrySend, TrySendFull,
           RecordFailure, Return
  <2> QED
    BY <2>1 DEF SupIInv, ReapInv
<1>6. ASSUME outcome' = "EventStreamClosed" PROVE evPipe' = << >> /\ ~Running
  <2>1. CASE outcome = "EventStreamClosed"
    <3>1. ingress \notin {"reading", "reserved", "failing"}
      BY <1>0, <2>1 DEF OutcomeInv, Reasons
    <3>2. UNCHANGED evPipe
      BY <3>1 DEF IngressReader, ShellReceives, Reserve, ReadFails, ReadEof, TrySend,
         TrySendFull, RecordFailure, Return, Dequeue, Release, TerminalFailure, pipeVars
    <3> QED
      BY <2>1, <3>2 DEF SupIInv, ReapInv
  <2>2. CASE outcome # "EventStreamClosed"
    <3>1. ReadEof
      BY <1>6, <2>2
         DEF IngressReader, ShellReceives, Reserve, ReadFails, TrySend,
             TrySendFull, RecordFailure, Return, Dequeue, Release, TerminalFailure
    <3> QED
      BY <3>1 DEF ReadEof, pipeVars
  <2> QED
    BY <2>1, <2>2
<1>7. ReapInv'
  BY <1>3, <1>5, <1>6 DEF SupIInv, ReapInv, Running
<1> QED
  BY <1>1, <1>2, <1>4, <1>7 DEF SupIInv

\* A step of the shell that leaves worker and ingress alone, and the event
\* pipe of a worker that has ended.
LEMMA ShellStepKeeps ==
  ASSUME SupIInv, UNCHANGED workerVars, UNCHANGED ingressVars,
         PipesTypeOK', shell' \in ShellPcs,
         Running \/ UNCHANGED evPipe,
         child' = child \/ (Running /\ child' = "killed"),
         shell' \in {"joining", "done"} => child' # "running",
         shell' = "done" => ingress = "disconnected"
  PROVE  SupIInv'
<1>1. WorkerInv' /\ IngressIInv'
  BY WorkerKept, IngressKept DEF SupIInv
<1>2. UNCHANGED <<outcome, ingress, draining, announced>>
  BY DEF ingressVars, workerVars
<1>3. CleanExitClosesViews'
  BY <1>2 DEF SupIInv, CleanExitClosesViews
<1>4. ReapInv'
  BY <1>2 DEF SupIInv, ReapInv, Running
<1> QED
  BY <1>1, <1>3, <1>4 DEF SupIInv

\* Child::kill leaves the pipe a pipe of envelopes.
LEMMA KillFacts ==
  ASSUME SupIInv, Kill
  PROVE  /\ evPipe' \in Seq(Event) /\ child' \in ChildStates /\ child' # "running"
         /\ child' = child \/ (Running /\ child' = "killed")
         /\ \/ UNCHANGED evPipe
            \/ Running /\ \E e \in Event : evPipe' = Append(evPipe, e)
<1>1. /\ evPipe \in Seq(Event) /\ outbox \in Seq(Event) /\ child \in ChildStates
  BY DEF SupIInv, WorkerInv, IInv, TypeOK, PipesTypeOK
<1>2. /\ child' \in ChildStates /\ child' # "running"
      /\ child' = child \/ (Running /\ child' = "killed")
  BY <1>1 DEF Kill, Running, ChildStates
<1>3. \/ UNCHANGED evPipe
      \/ /\ Running /\ outbox # << >>
         /\ evPipe' = Append(evPipe, Ev("Torn", Head(outbox).view))
  BY DEF Kill
<1>4. outbox # << >> => Ev("Torn", Head(outbox).view) \in Event
  <2>1. outbox # << >> => Head(outbox) \in Event
    BY <1>1
  <2>2. \A e \in Event : Ev("Torn", e.view) \in Event
    BY DEF Ev, Event, EventKinds
  <2> QED
    BY <2>1, <2>2
<1>5. \/ UNCHANGED evPipe
      \/ Running /\ \E e \in Event : evPipe' = Append(evPipe, e)
  BY <1>3, <1>4
<1>6. evPipe' \in Seq(Event)
  BY <1>1, <1>5
<1> QED
  BY <1>2, <1>5, <1>6

LEMMA SupStep ==
  ASSUME SupIInv, [SupNext]_supVars
  PROVE  SupIInv'
<1>0. PipesTypeOK /\ shell \in ShellPcs
  BY DEF SupIInv, WorkerInv, IInv, TypeOK
<1>1. CASE WorkerStep
  BY <1>1, WorkerStepKeeps
<1>2. CASE IngressStep \/ ReceiveStep
  BY <1>2, IngressStepKeeps DEF IngressStep, ReceiveStep
<1>3. CASE Send
  <2>1. PICK c \in Command : SendCommand(c)
    BY <1>3 DEF Send
  <2>2. /\ UNCHANGED <<cmdOpen, evPipe, evOpen, child>>
        /\ cmdPipe' \in Seq(Command) /\ Len(cmdPipe') <= PipeDepth /\ sent' \in Nat
    BY <1>0, <2>1, PipeAssumption DEF SendCommand, PipesTypeOK
  <2>3. PipesTypeOK'
    BY <1>0, <2>2 DEF PipesTypeOK
  <2> QED
    BY <1>0, <1>3, <2>2, <2>3, ShellStepKeeps DEF Send
<1>4. CASE BeginShutdown \/ Reap \/ Join \/ UNCHANGED supVars
  <2>1. UNCHANGED workerVars /\ UNCHANGED ingressVars /\ UNCHANGED pipeVars
    BY <1>4 DEF BeginShutdown, Reap, Join, supVars, vars
  <2>2. UNCHANGED <<cmdPipe, cmdOpen, evPipe, evOpen, child, sent>>
    BY <2>1 DEF pipeVars
  <2>3. PipesTypeOK'
    BY <1>0, <2>2 DEF PipesTypeOK
  <2>4. /\ shell' \in ShellPcs
        /\ shell' \in {"joining", "done"} => ~Running
        /\ shell' = "done" => ingress = "disconnected"
    BY <1>0, <1>4 DEF BeginShutdown, Reap, Join, supVars, ShellPcs, SupIInv, ReapInv
  <2> QED
    BY <2>1, <2>2, <2>3, <2>4, ShellStepKeeps DEF Running
<1>5. CASE SendShutdown
  <2>1. /\ shell' = "reaping" /\ cmdOpen' = FALSE
        /\ UNCHANGED <<evPipe, evOpen, child, sent>>
        /\ UNCHANGED workerVars /\ UNCHANGED ingressVars
    BY <1>5 DEF SendShutdown
  <2>2. ShutdownCommand \in Command
    <3>1. AnyOf(Views) \in Views /\ AnyOf(Profiles) \in Profiles
      BY SupAssumption DEF AnyOf
    <3> HIDE DEF AnyOf
    <3> QED
      BY <3>1 DEF ShutdownCommand, Command, Ops
  <2>3. \/ UNCHANGED cmdPipe
        \/ Len(cmdPipe) < PipeDepth /\ cmdPipe' = Append(cmdPipe, ShutdownCommand)
    BY <1>5 DEF SendShutdown
  <2>4. cmdPipe' \in Seq(Command) /\ Len(cmdPipe') <= PipeDepth
    BY <1>0, <2>2, <2>3, PipeAssumption DEF PipesTypeOK
  <2>5. PipesTypeOK'
    BY <1>0, <2>1, <2>4 DEF PipesTypeOK
  <2> QED
    BY <2>1, <2>5, ShellStepKeeps DEF ShellPcs
<1>6. CASE DeadlineKill \/ DropProcess
  <2>1. /\ Kill /\ shell' = "joining" /\ UNCHANGED <<cmdPipe, evOpen, sent>>
        /\ UNCHANGED workerVars /\ UNCHANGED ingressVars
        /\ cmdOpen' = cmdOpen \/ cmdOpen' = FALSE
    BY <1>6 DEF DeadlineKill, DropProcess
  <2>2. PipesTypeOK'
    <3>1. cmdOpen' \in BOOLEAN
      BY <1>0, <2>1 DEF PipesTypeOK
    <3> QED
      BY <1>0, <2>1, <3>1, KillFacts DEF PipesTypeOK
  <2> QED
    BY <2>1, <2>2, KillFacts, ShellStepKeeps DEF ShellPcs
<1> QED
  BY <1>1, <1>2, <1>3, <1>4, <1>5, <1>6 DEF SupNext, ShutdownStep

LEMMA SupInvariance == SupSpec => []SupIInv
  BY SupStarts, SupStep, PTL DEF SupSpec

\* Every end of the process is orderly: shutdown_within and Drop return only
\* with the child gone, the thread joined and every envelope accounted for,
\* and a worker that exits after Shutdown has announced every view closed.
THEOREM EveryEndIsOrderly == SupSpec => []SupInv
<1>1. SupIInv => SupInv
  <2> SUFFICES ASSUME SupIInv PROVE SupInv
    OBVIOUS
  <2>1. SupTypeOK
    BY DEF SupIInv, SupTypeOK, WorkerInv, IInv, IngressIInv
  <2>2. ReapsEveryPath
    <3> SUFFICES ASSUME shell = "done"
                 PROVE  /\ ~Running /\ ingress = "disconnected" /\ held = << >>
                        /\ evPipe = << >> \/ outcome \in Reasons
      BY DEF ReapsEveryPath
    <3>1. ~Running /\ ingress = "disconnected"
      BY DEF SupIInv, ReapInv
    <3>2. held = << >> /\ outcome # "none"
      BY <3>1 DEF SupIInv, IngressIInv, OutcomeInv
    <3>3. outcome \in Reasons \/ outcome = "EventStreamClosed"
      BY <3>2 DEF SupIInv, IngressIInv, IngressTypeOK
    <3> QED
      BY <3>1, <3>2, <3>3 DEF SupIInv, ReapInv
  <2> QED
    BY <2>1, <2>2 DEF SupIInv, SupInv
<1> QED
  BY <1>1, SupInvariance, PTL

-----------------------------------------------------------------------------
(***************************************************************************)
(* The composition keeps both promises: what the worker announces is a     *)
(* ViewProtocol and what the shell takes is an EventStream, whatever kills *)
(* the one or ends the other.                                              *)
(***************************************************************************)

\* A step that leaves the ingress alone and writes at most one envelope.
LEMMA WriteRefines ==
  ASSUME UNCHANGED ingressVars, ChargedInv, OutcomeInv,
         UNCHANGED evPipe \/ \E e \in Event : evPipe' = Append(evPipe, e)
  PROVE  [Stream!Next]_(Stream!vars)
<1>1. UNCHANGED <<InTransit, outcome, verdict>>
  BY IngressUnchanged DEF ingressVars
<1>2. CASE UNCHANGED evPipe
  BY <1>1, <1>2 DEF Stream!vars
<1>3. CASE \E e \in Event : evPipe' = Append(evPipe, e)
  BY <1>1, <1>3 DEF Stream!Next, Stream!Write
<1> QED
  BY <1>2, <1>3

LEMMA WorkerWrites ==
  ASSUME TypeOK, WorkerNext
  PROVE  UNCHANGED evPipe \/ \E e \in Event : evPipe' = Append(evPipe, e)
<1>1. CASE WriteEvent
  <2>1. outbox \in Seq(Event) /\ outbox # << >> /\ evPipe' = Append(evPipe, Head(outbox))
    BY <1>1 DEF WriteEvent, TypeOK
  <2>2. Head(outbox) \in Event
    BY <2>1
  <2> QED
    BY <2>1, <2>2
<1>2. CASE ~WriteEvent
  BY <1>2
     DEF WorkerNext, CommandReader, Fetching, Actor, ReadCommand, ReadEndOfFile,
         FetchReturns, CreateView, CloseView, Navigate, Reload, Stop,
         UnboundCommand, StreamEnds, Shutdown, CloseNextView, DrainDone,
         NavigationComplete, WriteFails, SpawnFetch, SpawnFails, BuildReturns, pipeVars
<1> QED
  BY <1>1, <1>2

LEMMA SupStreamStep ==
  ASSUME SupIInv, [SupNext]_supVars
  PROVE  [Stream!Next]_(Stream!vars)
<1>0. IngressTypeOK /\ OutcomeInv /\ ChargedInv /\ TypeOK
  BY DEF SupIInv, IngressIInv, WorkerInv, IInv
<1>1. CASE WorkerStep
  BY <1>0, <1>1, WorkerWrites, WriteRefines DEF WorkerStep
<1>2. CASE IngressStep \/ ReceiveStep
  BY <1>0, <1>2, ReaderRefines, ShellRefines DEF IngressStep, ReceiveStep
<1>3. CASE \/ Send \/ BeginShutdown \/ SendShutdown \/ Reap \/ Join
           \/ UNCHANGED supVars
  <2>1. UNCHANGED ingressVars /\ UNCHANGED evPipe
    BY <1>3 DEF Send, SendCommand, BeginShutdown, SendShutdown, Reap, Join,
                supVars, vars, pipeVars
  <2> QED
    BY <1>0, <2>1, WriteRefines
<1>4. CASE DeadlineKill \/ DropProcess
  <2>1. Kill /\ UNCHANGED ingressVars
    BY <1>4 DEF DeadlineKill, DropProcess
  <2> QED
    BY <1>0, <2>1, KillFacts, WriteRefines
<1> QED
  BY <1>1, <1>2, <1>3, <1>4 DEF SupNext, ShutdownStep

LEMMA SupProtocolStep ==
  ASSUME SupIInv, [SupNext]_supVars
  PROVE  [Protocol!Next]_announced
<1>1. CASE WorkerStep
  <2>1. Next
    BY <1>1 DEF WorkerStep, Next
  <2> QED
    BY <2>1, EventStep DEF SupIInv, WorkerInv, IInv
<1>2. CASE ~WorkerStep
  BY <1>2
     DEF SupNext, ShutdownStep, IngressStep, ReceiveStep, Send, BeginShutdown,
         SendShutdown, Reap, Join, DeadlineKill, DropProcess, supVars, vars, workerVars
<1> QED
  BY <1>1, <1>2

\* The composed system implements ViewProtocol on the worker's side of the
\* event pipe.
THEOREM ComposedImplementsViewProtocol == SupSpec => ImplementsViewProtocol
<1>1. SupInit => Protocol!Init
  BY DEF SupInit, Init, Protocol!Init
<1> QED
  BY <1>1, SupProtocolStep, SupInvariance, PTL
     DEF SupSpec, ImplementsViewProtocol, Protocol!Spec

\* The composed system implements EventStream on the shell's side, the
\* envelope a kill cuts short included.
THEOREM ComposedImplementsEventStream == SupSpec => ImplementsEventStream
<1>1. SupInit => Stream!Init
  <2> SUFFICES ASSUME SupInit PROVE Stream!Init
    OBVIOUS
  <2>1. InTransit = << >>
    BY IngressStarts DEF SupInit
  <2> QED
    BY <2>1 DEF SupInit, Init, IngressInit, PipesInit, Stream!Init
<1> QED
  BY <1>1, SupStreamStep, SupInvariance, PTL
     DEF SupSpec, ImplementsEventStream, Stream!Spec
==============================================================================
