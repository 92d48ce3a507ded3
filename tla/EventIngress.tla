---------------------------- MODULE EventIngress ----------------------------
(***************************************************************************)
(* The shell's half of the event pipe (EventIngress, QueueCharge and       *)
(* read_events_until_closed in engine_process.rs): a reader thread moves   *)
(* envelopes from the pipe to a channel bounded in events and in wire      *)
(* bytes, and never blocks; the shell takes events from the channel and    *)
(* then, in a second step, returns their bytes to the charge.              *)
(***************************************************************************)
EXTENDS EnginePipes

CONSTANTS
  EventQueueDepth,  \* EVENT_QUEUE_DEPTH
  ByteBudget,       \* EVENT_QUEUE_BYTE_BUDGET
  WireBytes,        \* encoded size of an event of each kind
  PeerKinds         \* the kinds of envelope a worker on its own writes

ASSUME IngressAssumption ==
  /\ EventQueueDepth \in Nat \ {0}
  /\ ByteBudget \in Nat \ {0}
  /\ WireBytes \in [EventKinds -> 1..ByteBudget]
  /\ PeerKinds \subseteq EventKinds

VARIABLES
  ingress,      \* where the reader thread is
  held,         \* the event it has reserved bytes for, as a sequence
  outcome,      \* the reason it ends, once decided
  events,       \* the channel
  outstanding,  \* QueueCharge::outstanding
  failure,      \* the shared failure slot
  taken,        \* the event the shell has dequeued and not yet released
  verdict       \* what the shell last heard about the end of the stream

ingressVars == <<ingress, held, outcome, events, outstanding, failure,
                 taken, verdict>>

Reasons == {"EventQueueOverflow", "EventQueueByteOverflow", "Protocol"}
IngressPcs == {"reading", "reserved", "failing", "returning", "disconnected"}

IngressInit ==
  /\ ingress = "reading"
  /\ held = << >> /\ taken = << >> /\ events = << >>
  /\ outstanding = 0
  /\ outcome = "none" /\ failure = "none" /\ verdict = "none"

Bytes(e) == WireBytes[e.kind]

-----------------------------------------------------------------------------
(***************************************************************************)
(* The reader thread.                                                      *)
(***************************************************************************)

\* QueueCharge::reserve: the compare-exchange loop takes effect at its last
\* load or exchange, so it is one step.
FitsBefore(e) == outstanding <= ByteBudget
Fits(e) == outstanding + Bytes(e) <= ByteBudget

NextEnvelope == Head(evPipe)

\* read_engine_envelope returns an event and the charge admits it.
Reserve ==
  /\ ingress = "reading" /\ evPipe # << >>
  /\ NextEnvelope.kind # "Torn"
  /\ Fits(NextEnvelope)
  /\ outstanding' = outstanding + Bytes(NextEnvelope)
  /\ held' = <<NextEnvelope>>
  /\ evPipe' = Tail(evPipe)
  /\ ingress' = "reserved"
  /\ UNCHANGED <<cmdPipe, cmdOpen, evOpen, child, sent, outcome, events,
                 failure, taken, verdict>>

\* The charge refuses the event, or the envelope does not decode, is cut
\* short, or carries a Command.
ReadFails ==
  /\ ingress = "reading" /\ evPipe # << >>
  /\ \/ /\ NextEnvelope.kind = "Torn"
        /\ outcome' = "Protocol"
     \/ /\ NextEnvelope.kind # "Torn"
        /\ ~Fits(NextEnvelope)
        /\ outcome' = "EventQueueByteOverflow"
  /\ evPipe' = Tail(evPipe)
  /\ ingress' = "failing"
  /\ UNCHANGED <<cmdPipe, cmdOpen, evOpen, child, sent, held, events,
                 outstanding, failure, taken, verdict>>

\* End of file: the thread returns without recording a failure.
ReadEof ==
  /\ ingress = "reading" /\ evPipe = << >> /\ ~Running
  /\ outcome' = "EventStreamClosed"
  /\ ingress' = "returning"
  /\ UNCHANGED <<pipeVars, held, events, outstanding, failure, taken, verdict>>

\* SyncSender::try_send.  Its Disconnected arm is never taken: shutdown and
\* Drop join the thread before the receiver is dropped.
TrySend ==
  /\ ingress = "reserved"
  /\ Len(events) < EventQueueDepth
  /\ events' = events \o held
  /\ held' = << >>
  /\ ingress' = "reading"
  /\ UNCHANGED <<pipeVars, outcome, outstanding, failure, taken, verdict>>

\* usize::saturating_sub
Minus(a, b) == IF a < b THEN 0 ELSE a - b

TrySendBlocks == FALSE

TrySendKeepsCharge ==
  /\ ingress = "reserved"
  /\ Len(events) >= EventQueueDepth
  /\ held' = << >>
  /\ outcome' = "EventQueueOverflow"
  /\ ingress' = "failing"
  /\ UNCHANGED <<pipeVars, events, outstanding, failure, taken, verdict>>

TrySendFull ==
  /\ ingress = "reserved"
  /\ Len(events) >= EventQueueDepth
  /\ outstanding' = Minus(outstanding, Bytes(Head(held)))
  /\ held' = << >>
  /\ outcome' = "EventQueueOverflow"
  /\ ingress' = "failing"
  /\ UNCHANGED <<pipeVars, events, failure, taken, verdict>>

\* record_terminal_failure
RecordNothing ==
  /\ ingress = "failing"
  /\ ingress' = "returning"
  /\ UNCHANGED <<pipeVars, held, outcome, events, outstanding, failure, taken,
                 verdict>>

RecordFailure ==
  /\ ingress = "failing"
  /\ failure' = outcome
  /\ ingress' = "returning"
  /\ UNCHANGED <<pipeVars, held, outcome, events, outstanding, taken, verdict>>

\* Returning drops the pipe's read end, then the sender.
ReturnKeepsSender ==
  /\ ingress = "returning" /\ evOpen /\ evOpen' = FALSE
  /\ UNCHANGED <<cmdPipe, cmdOpen, evPipe, child, sent, ingressVars>>

Return ==
  /\ ingress = "returning"
  /\ \/ evOpen /\ evOpen' = FALSE /\ UNCHANGED ingress
     \/ ~evOpen /\ ingress' = "disconnected" /\ UNCHANGED evOpen
  /\ UNCHANGED <<cmdPipe, cmdOpen, evPipe, child, sent, held, outcome, events,
                 outstanding, failure, taken, verdict>>

IngressReader ==
  Reserve \/ ReadFails \/ ReadEof \/ TrySend \/ TrySendFull
    \/ RecordFailure \/ Return

-----------------------------------------------------------------------------
(***************************************************************************)
(* The shell's receive.  A timeout or an empty channel changes nothing.    *)
(***************************************************************************)

\* receive_timeout and try_receive: the channel hands over an event.
Dequeue ==
  /\ taken = << >> /\ events # << >>
  /\ taken' = <<Head(events)>>
  /\ events' = Tail(events)
  /\ UNCHANGED <<pipeVars, ingress, held, outcome, outstanding, failure,
                 verdict>>

\* EventIngress::release
Release ==
  /\ taken # << >>
  /\ outstanding' = Minus(outstanding, Bytes(Head(taken)))
  /\ taken' = << >>
  /\ UNCHANGED <<pipeVars, ingress, held, outcome, events, failure, verdict>>

\* terminal_failure: the channel is empty and disconnected; the slot is
\* taken, so a second call hears EventStreamClosed.
TerminalFailure ==
  /\ taken = << >> /\ events = << >> /\ ingress = "disconnected"
  /\ verdict' = IF failure = "none" THEN "EventStreamClosed" ELSE failure
  /\ failure' = "none"
  /\ UNCHANGED <<pipeVars, ingress, held, outcome, events, outstanding, taken>>

ShellReceives == Dequeue \/ Release \/ TerminalFailure

-----------------------------------------------------------------------------
(***************************************************************************)
(* The ingress on its own, facing any worker: one that writes any events   *)
(* and ends at any time, perhaps in the middle of an envelope.  sent       *)
(* counts the events it writes.                                            *)
(***************************************************************************)
PeerWrites ==
  /\ Running /\ evOpen /\ Len(evPipe) < PipeDepth /\ sent < MaxCommands
  /\ \E k \in PeerKinds, v \in Views : evPipe' = Append(evPipe, Ev(k, v))
  /\ sent' = sent + 1
  /\ UNCHANGED <<cmdPipe, cmdOpen, evOpen, child, ingressVars>>

PeerEnds ==
  /\ Running
  /\ child' = "exited"
  /\ UNCHANGED <<cmdPipe, cmdOpen, evPipe, evOpen, sent, ingressVars>>

IngressNext == IngressReader \/ ShellReceives \/ PeerWrites \/ PeerEnds

allIngressVars == <<pipeVars, ingressVars>>

IngressAloneInit == PipesInit /\ IngressInit

IngressSpec == IngressAloneInit /\ [][IngressNext]_allIngressVars

\* The reader thread is scheduled and the shell keeps receiving.
IngressFairSpec ==
  /\ IngressSpec
  /\ WF_allIngressVars(IngressReader)
  /\ WF_allIngressVars(ShellReceives)

-----------------------------------------------------------------------------
(***************************************************************************)
(* Properties.                                                             *)
(***************************************************************************)

\* Type invariant of the ingress.
IngressTypeOK ==
  /\ PipesTypeOK
  /\ ingress \in IngressPcs
  /\ held \in Seq(Event) /\ Len(held) <= 1
  /\ taken \in Seq(Event) /\ Len(taken) <= 1
  /\ events \in Seq(Event) /\ Len(events) <= EventQueueDepth
  /\ outstanding \in 0..ByteBudget
  /\ outcome \in Reasons \cup {"none", "EventStreamClosed"}
  /\ failure \in Reasons \cup {"none"}
  /\ verdict \in Reasons \cup {"none", "EventStreamClosed"}

\* Every event between the reserve and the release is charged, exactly once:
\* no path, the full channel included, leaks bytes or returns them twice.
InTransit == taken \o events \o held

\* total[i] is the size of the first i envelopes of s.
Totals(s, total) ==
  /\ total[0] = 0
  /\ \A i \in 1..Len(s) : total[i] = total[i - 1] + Bytes(s[i])

ChargeExact ==
  \E total \in [0..Len(InTransit) -> 0..ByteBudget] :
    Totals(InTransit, total) /\ outstanding = total[Len(InTransit)]

\* The channel keeps its bounds in events and in bytes, and the charge that
\* enforces the second is exact.
IngressInv == IngressTypeOK /\ ChargeExact

\* The ingress keeps the promise of EventStream: wire order, no gap, and the
\* recorded cause reaching the shell although the failure slot and the
\* channel's disconnection are two separate things.
Stream == INSTANCE EventStream WITH
  Envelopes <- Event, pipe <- evPipe, chan <- InTransit,
  cause <- outcome, report <- verdict
ImplementsEventStream == Stream!Spec

\* A shell that keeps receiving learns of the worker's end, whichever thread
\* was ahead when the worker ended.
EndIsHeard == []<>(Running \/ verdict # "none")
=============================================================================
