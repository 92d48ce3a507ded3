---------------------------- MODULE EnginePipes ----------------------------
(***************************************************************************)
(* What the shell and the native engine worker share: the worker process   *)
(* and the two pipes of crates/silksurf-app/src/engine_process.rs.         *)
(*                                                                         *)
(*   shell --cmdPipe--> worker stdin      worker stdout --evPipe--> shell   *)
(*                                                                         *)
(* One element of a pipe is one length-prefixed envelope.  A pipe holds at *)
(* most PipeDepth envelopes; a writer of a full pipe blocks.  The bytes in *)
(* a pipe outlive its writer, so end of file is an empty pipe whose write  *)
(* end is gone.                                                            *)
(***************************************************************************)
EXTENDS Naturals, Sequences

CONSTANTS
  Views,       \* the ViewIds the shell names
  Profiles,    \* the ProfileIds the shell names
  PipeDepth,   \* envelopes one OS pipe buffers before its writer blocks
  MaxCommands  \* model bound: commands one behaviour sends

ASSUME PipeAssumption ==
  /\ PipeDepth \in Nat \ {0}
  /\ MaxCommands \in Nat

VARIABLES
  cmdPipe,  \* envelopes in the worker's stdin
  cmdOpen,  \* the shell still holds command_writer
  evPipe,   \* envelopes in the worker's stdout
  evOpen,   \* the ingress thread still holds the read end
  child,    \* the worker process, and once it has ended how
  sent      \* commands sent so far, for the bound

pipeVars == <<cmdPipe, cmdOpen, evPipe, evOpen, child, sent>>

(***************************************************************************)
(* Commands.  Unbound stands for every command handle_command answers with *)
(* UnsupportedCommand; Malformed for an envelope that does not decode, is  *)
(* truncated, or carries an Event.                                         *)
(***************************************************************************)
Ops == {"CreateView", "CloseView", "Navigate", "Reload", "Stop",
        "Unbound", "Shutdown", "Malformed"}

Command == [op : Ops, view : Views, profile : Profiles]

(***************************************************************************)
(* Events.  The load states of LoadStateChanged are kinds of their own;    *)
(* Busy, Stopped and Error are the three StatusChanged texts; LongUrl is a *)
(* UrlChanged whose URL exceeds MAX_STRING_BYTES and which cannot be       *)
(* encoded; Torn is an envelope cut short by the death of its writer.      *)
(***************************************************************************)
EventKinds == {"ViewCreated", "ViewClosed", "Started", "Idle", "Committed",
               "Interactive", "Complete", "Failed", "Busy", "Stopped",
               "Error", "UrlChanged", "LongUrl", "Crashed", "Torn"}

Event == [kind : EventKinds, view : Views]

Ev(k, v) == [kind |-> k, view |-> v]

ChildStates == {"running", "exited", "failed", "killed"}

Running == child = "running"

PipesInit ==
  /\ cmdPipe = << >> /\ cmdOpen = TRUE
  /\ evPipe = << >> /\ evOpen = TRUE
  /\ child = "running"
  /\ sent = 0

PipesTypeOK ==
  /\ cmdPipe \in Seq(Command) /\ Len(cmdPipe) <= PipeDepth
  /\ cmdOpen \in BOOLEAN
  /\ evPipe \in Seq(Event)
  /\ evOpen \in BOOLEAN
  /\ child \in ChildStates
  /\ sent \in Nat

(***************************************************************************)
(* NativeEngineProcess::send on a pipe with room and a living reader.      *)
(***************************************************************************)
SendCommand(c) ==
  /\ cmdOpen /\ Running
  /\ Len(cmdPipe) < PipeDepth
  /\ sent < MaxCommands
  /\ cmdPipe' = Append(cmdPipe, c)
  /\ sent' = sent + 1
  /\ UNCHANGED <<cmdOpen, evPipe, evOpen, child>>
=============================================================================
