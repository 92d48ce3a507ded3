----------------------------- MODULE EventStream -----------------------------
(***************************************************************************)
(* What EventIngress promises the shell, without its thread, its byte      *)
(* charge or its mutex: the envelopes of the pipe arrive whole, in wire    *)
(* order and without a gap; when the stream ends, its cause is fixed once, *)
(* and the shell learns that cause, and nothing else, the first time it    *)
(* asks after the last event.                                              *)
(***************************************************************************)
EXTENDS Naturals, Sequences

CONSTANT Envelopes  \* what the worker can write

VARIABLES
  pipe,    \* envelopes the worker has written and nobody has read
  chan,    \* events accepted and not yet handed to the shell
  cause,   \* why the stream ended, or "none"
  report   \* what the shell was told about the end, or "none"

vars == <<pipe, chan, cause, report>>

Init == pipe = << >> /\ chan = << >> /\ cause = "none" /\ report = "none"

Write ==
  /\ \E e \in Envelopes : pipe' = Append(pipe, e)
  /\ UNCHANGED <<chan, cause, report>>

Accept ==
  /\ cause = "none" /\ pipe # << >>
  /\ pipe' = Tail(pipe)
  /\ chan' = Append(chan, Head(pipe))
  /\ UNCHANGED <<cause, report>>

Deliver ==
  /\ chan # << >>
  /\ chan' = Tail(chan)
  /\ UNCHANGED <<pipe, cause, report>>

\* The end costs at most one envelope: the one that could not be read or
\* charged, or the one accepted last, which found no room.
End ==
  /\ cause = "none" /\ cause' # "none"
  /\ \/ UNCHANGED <<pipe, chan>>
     \/ pipe # << >> /\ pipe' = Tail(pipe) /\ UNCHANGED chan
     \/ chan # << >> /\ chan' = SubSeq(chan, 1, Len(chan) - 1) /\ UNCHANGED pipe
  /\ UNCHANGED report

Report ==
  /\ chan = << >> /\ cause # "none"
  /\ report' = IF report = "none" THEN cause ELSE "EventStreamClosed"
  /\ UNCHANGED <<pipe, chan, cause>>

Next == Write \/ Accept \/ Deliver \/ End \/ Report

Spec == Init /\ [][Next]_vars
=============================================================================
