-------------------------- MODULE EngineSupervisor --------------------------
(***************************************************************************)
(* NativeEngineProcess (engine_process.rs): the shell that spawned a       *)
(* worker, its event ingress and the worker itself, from the first command *)
(* to the reaped child.  The pipes of EnginePipes join the two components: *)
(* the worker blocks on a full event pipe, the shell on a full command     *)
(* pipe, and only the ingress thread never blocks.                         *)
(***************************************************************************)
EXTENDS EngineWorker, EventIngress

\* The shell can name a view and a profile.
ASSUME SupAssumption == Views # {} /\ Profiles # {}

VARIABLE shell  \* where the owner of the NativeEngineProcess is

supVars == <<vars, ingressVars, shell>>

ShellPcs == {"open", "sending", "reaping", "joining", "done"}

SupInit == Init /\ IngressInit /\ shell = "open"

WorkerStep == WorkerNext /\ UNCHANGED <<ingressVars, shell>>
IngressStep == IngressReader /\ UNCHANGED <<workerVars, shell>>
ReceiveStep == shell = "open" /\ ShellReceives /\ UNCHANGED <<workerVars, shell>>

\* NativeEngineProcess::send.  A shell only encodes well-formed commands and
\* says Shutdown through shutdown_within.
ShellOps == Ops \ {"Malformed", "Shutdown"}
Send ==
  /\ shell = "open"
  /\ \E c \in Command : c.op \in ShellOps /\ SendCommand(c)
  /\ UNCHANGED <<workerVars, ingressVars, shell>>

(***************************************************************************)
(* shutdown_within.                                                        *)
(***************************************************************************)
BeginShutdown ==
  /\ shell = "open" /\ taken = << >>
  /\ shell' = "sending"
  /\ UNCHANGED <<vars, ingressVars>>

AnyOf(S) == CHOOSE x \in S : TRUE
ShutdownCommand ==
  [op |-> "Shutdown", view |-> AnyOf(Views), profile |-> AnyOf(Profiles)]

\* The write of Shutdown blocks while the command pipe is full and fails once
\* the worker is gone; either way the writer is dropped.
SendShutdown ==
  /\ shell = "sending"
  /\ \/ /\ Running /\ Len(cmdPipe) < PipeDepth
        /\ cmdPipe' = Append(cmdPipe, ShutdownCommand)
     \/ ~Running /\ UNCHANGED cmdPipe
  /\ cmdOpen' = FALSE
  /\ shell' = "reaping"
  /\ UNCHANGED <<evPipe, evOpen, child, sent, workerVars, ingressVars>>

\* reap_within: try_wait finds the child gone.
Reap ==
  /\ shell = "reaping" /\ ~Running
  /\ shell' = "joining"
  /\ UNCHANGED <<vars, ingressVars>>

\* Child::kill may cut the envelope the actor is writing.
Kill ==
  /\ child' = IF Running THEN "killed" ELSE child
  /\ evPipe' \in {evPipe} \cup
       (IF Running /\ outbox # << >> /\ evOpen /\ Len(evPipe) < PipeDepth
        THEN {Append(evPipe, Ev("Torn", Head(outbox).view))} ELSE {})

\* reap_within: the deadline has passed.
WaitsForever == FALSE

DeadlineKill ==
  /\ shell = "reaping" /\ Running
  /\ Kill
  /\ shell' = "joining"
  /\ UNCHANGED <<cmdPipe, cmdOpen, evOpen, sent, workerVars, ingressVars>>

\* Drop: no Shutdown, the child is killed and reaped at once.
DropProcess ==
  /\ shell = "open" /\ taken = << >>
  /\ cmdOpen' = FALSE
  /\ Kill
  /\ shell' = "joining"
  /\ UNCHANGED <<cmdPipe, evOpen, sent, workerVars, ingressVars>>

\* EventIngress::join
JoinAtOnce ==
  /\ shell = "joining"
  /\ shell' = "done"
  /\ UNCHANGED <<vars, ingressVars>>

Join ==
  /\ shell = "joining" /\ ingress = "disconnected"
  /\ shell' = "done"
  /\ UNCHANGED <<vars, ingressVars>>

ShutdownStep == SendShutdown \/ Reap \/ DeadlineKill \/ Join

SupNext ==
  \/ WorkerStep \/ IngressStep \/ ReceiveStep
  \/ Send \/ BeginShutdown \/ DropProcess \/ ShutdownStep

SupSpec == SupInit /\ [][SupNext]_supVars

(***************************************************************************)
(* Threads are scheduled, the deadline passes.  The shell need not receive *)
(* and a page build need not return.                                       *)
(***************************************************************************)
SupFairSpec ==
  /\ SupSpec
  /\ WF_supVars(CommandReader /\ UNCHANGED <<ingressVars, shell>>)
  /\ WF_supVars(Fetching /\ UNCHANGED <<ingressVars, shell>>)
  /\ WF_supVars(Actor /\ UNCHANGED <<ingressVars, shell>>)
  /\ WF_supVars(IngressStep)
  /\ WF_supVars(ShutdownStep)

-----------------------------------------------------------------------------
(***************************************************************************)
(* Properties.                                                             *)
(***************************************************************************)

\* Type invariant of the composed system.
SupTypeOK == TypeOK /\ IngressTypeOK /\ shell \in ShellPcs

\* Every path reaps: when shutdown_within or Drop has returned, the child
\* has ended and the ingress thread has returned with every event it was
\* sent either in the channel or accounted for by a recorded outcome.
ReapsEveryPath ==
  shell = "done" =>
    /\ ~Running
    /\ ingress = "disconnected" /\ held = << >>
    /\ evPipe = << >> \/ outcome \in Reasons

\* A worker that read the whole Shutdown handshake closed every view it had
\* announced, unless a write failed or it was killed.
CleanExitClosesViews ==
  child = "exited" /\ draining => \A v \in Views : announced[v] = "Absent"

\* Every end of the process is an orderly one: both facts above, whatever the
\* pipes, the queues and the channel held when it came.
SupInv == SupTypeOK /\ ReapsEveryPath /\ CleanExitClosesViews

\* A shell that sends and never receives cannot block the worker for ever:
\* if page builds return, every command it wrote is read or the worker ends,
\* because the ingress thread fails rather than waits when its channel is full.
CommandsAreRead ==
  BuildsReturn => []<>(cmdPipe = << >> \/ ~Running)

\* Once Shutdown is written or refused, the call returns whatever the worker
\* does: the child is reaped and the ingress thread joined.
ReapIsBounded == []<>(shell \notin {"reaping", "joining"})

\* STATUS: "shutdown has a deadline".  The same from the start of the call.
ShutdownReturns == shell = "sending" ~> shell = "done"
=============================================================================
