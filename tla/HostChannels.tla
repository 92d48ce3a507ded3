---------------------------- MODULE HostChannels ----------------------------
(***************************************************************************)
(* The network channels of a page: fetch() over net_queue.rs, WebSocket    *)
(* over websocket_session.rs and EventSource over sse.rs, and the part of  *)
(* run_host_callbacks (boa_backend/mod.rs) that pumps them into the page.  *)
(*                                                                         *)
(* Every request and every stream has a thread of its own that talks to    *)
(* the page only through channels.  A tick takes what has arrived, copies  *)
(* it out of the sessions, and calls the page's handlers one by one; a     *)
(* handler may open, use and close streams, and may throw, which ends the  *)
(* tick on the spot.  Between ticks the window sleeps unless something is  *)
(* pending (has_pending_host_callbacks), so a count that is wrong strands  *)
(* a page.                                                                 *)
(*                                                                         *)
(* Payloads are numbers: the n-th text of the server or of the page.       *)
(* Timers, frames, window messages and mutation records of the same tick   *)
(* are HostTimers, WindowMessages and MutationObservers.                   *)
(***************************************************************************)
EXTENDS Naturals, FiniteSets, FiniteSetsExt, Sequences, SequencesExt

CONSTANTS
  Sockets,      \* WebSocket objects a page may make
  Sources,      \* EventSource objects a page may make
  MaxFetches,   \* model bound: calls of fetch
  MaxTexts,     \* model bound: texts a server sends on one stream
  MaxCalls      \* model bound: calls scripts make

Streams == Sockets \cup Sources

ASSUME ChannelsAssumption ==
  /\ Sockets \cap Sources = {} /\ IsFiniteSet(Streams)
  /\ MaxFetches \in Nat /\ MaxTexts \in Nat /\ MaxCalls \in Nat

VARIABLES
  flights,    \* the request threads that have not answered
  answers,    \* the completion channel of NetQueue
  inFlight,   \* NetShared::in_flight
  parked,     \* __silksurfPendingNet
  nextFetch,  \* NetShared::next_id
  streams,    \* the sessions and subscriptions, and their threads
  pump,       \* where the tick is, and what it took and has not delivered
  calls,      \* calls scripts have made
  story       \* history: what the page and the server saw of each stream

channelVars == <<flights, answers, inFlight, parked, nextFetch, streams, pump,
                 calls, story>>

Event(what, n) == [what |-> what, n |-> n]
NoStream == [made |-> FALSE, thread |-> "none", out |-> << >>, incoming |-> << >>,
             bound |-> FALSE, instance |-> FALSE, ready |-> 0, texts |-> 0, asked |-> 0]
Resting == [at |-> "rest", batch |-> << >>, closed |-> {}, handling |-> FALSE]

ChannelsInit ==
  /\ flights = {} /\ answers = << >> /\ inFlight = 0 /\ parked = {} /\ nextFetch = 0
  /\ streams = [k \in Streams |-> NoStream]
  /\ pump = Resting
  /\ calls = 0
  /\ story = [k \in Streams |-> [heard |-> << >>, sent |-> << >>, over |-> FALSE, thrown |-> FALSE]]

-----------------------------------------------------------------------------
(* What a script calls: between ticks, or in the handler that is running.  *)

PageRuns == pump.at = "rest" \/ pump.handling
PageCall == PageRuns /\ calls < MaxCalls /\ calls' = calls + 1

\* Mutant: the request is counted by its thread, when that answers.
FetchUncounted ==
  /\ PageCall /\ nextFetch < MaxFetches
  /\ nextFetch' = nextFetch + 1
  /\ parked' = parked \cup {nextFetch} /\ flights' = flights \cup {nextFetch}
  /\ UNCHANGED <<inFlight, answers, streams, pump, story>>

\* begin_request, park_net_resolvers, spawn_request.
Fetch ==
  /\ PageCall /\ nextFetch < MaxFetches
  /\ nextFetch' = nextFetch + 1
  /\ inFlight' = inFlight + 1
  /\ parked' = parked \cup {nextFetch} /\ flights' = flights \cup {nextFetch}
  /\ UNCHANGED <<answers, streams, pump, story>>

\* The constructors bind the session before the page has the object.
Construct(k) ==
  /\ PageCall /\ ~streams[k].made
  /\ streams' = [streams EXCEPT ![k] =
                   [NoStream EXCEPT !.made = TRUE, !.thread = "connecting",
                                    !.bound = TRUE, !.instance = TRUE]]
  /\ UNCHANGED <<flights, answers, inFlight, parked, nextFetch, pump, story>>

\* WebSocket send and close: a session that is no longer bound ignores both.
SendText(k) ==
  /\ PageCall /\ streams[k].bound
  /\ streams' = [streams EXCEPT ![k].out = Append(@, Event("Text", streams[k].asked + 1)),
                                ![k].asked = @ + 1]
  /\ UNCHANGED <<flights, answers, inFlight, parked, nextFetch, pump, story>>

CloseSocket(k) ==
  /\ PageCall /\ streams[k].bound
  /\ streams' = [streams EXCEPT ![k].out = Append(@, Event("Close", 0))]
  /\ UNCHANGED <<flights, answers, inFlight, parked, nextFetch, pump, story>>

\* Mutant: closing a source leaves the readyState of a closed WebSocket.
CloseAsSocket(k) ==
  /\ PageCall /\ streams[k].made
  /\ streams' = [streams EXCEPT ![k].bound = FALSE, ![k].incoming = << >>, ![k].ready = 3]
  /\ UNCHANGED <<flights, answers, inFlight, parked, nextFetch, pump, story>>

\* EventSource close drops the subscription; the object stays registered.
CloseSource(k) ==
  /\ PageCall /\ streams[k].made
  /\ streams' = [streams EXCEPT ![k].bound = FALSE, ![k].incoming = << >>, ![k].ready = 2]
  /\ UNCHANGED <<flights, answers, inFlight, parked, nextFetch, pump, story>>

-----------------------------------------------------------------------------
(* The threads.                                                            *)

\* A request thread answers, with a response or an error.
Answer(id) ==
  /\ flights' = flights \ {id}
  /\ answers' = Append(answers, id)
  /\ UNCHANGED <<inFlight, parked, nextFetch, streams, pump, calls, story>>

\* Mutant: what is sent last is received first.
SendingAhead(s, sent) == [s EXCEPT !.incoming = IF s.bound THEN sent \o @ ELSE @]

\* Sending on a channel whose receiver is gone has no effect.
Sending(s, sent) == [s EXCEPT !.incoming = IF s.bound THEN @ \o sent ELSE @]

ThreadStep(k, s) ==
  /\ streams' = [streams EXCEPT ![k] = s]
  /\ UNCHANGED <<flights, answers, inFlight, parked, nextFetch, pump, calls>>

Connected(k) ==
  /\ streams[k].thread = "connecting"
  /\ ThreadStep(k, [Sending(streams[k], <<Event("Open", 0)>>) EXCEPT !.thread = "open"])
  /\ UNCHANGED story

\* Every failure reports an error and then that the stream is closed.
ConnectFails(k) ==
  /\ streams[k].thread = "connecting"
  /\ ThreadStep(k, [Sending(streams[k], <<Event("Error", 0), Event("Closed", 0)>>)
                      EXCEPT !.thread = "ended"])
  /\ UNCHANGED story

\* A source's thread ends without a word when its receiver is gone.
Receives(k) ==
  LET s == streams[k] IN
  /\ s.thread = "open" /\ s.texts < MaxTexts
  /\ IF k \in Sources /\ ~s.bound
     THEN ThreadStep(k, [s EXCEPT !.thread = "ended"])
     ELSE ThreadStep(k, [Sending(s, <<Event("Text", s.texts + 1)>>) EXCEPT !.texts = @ + 1])
  /\ UNCHANGED story

\* The server closes the stream, or it breaks.
ServerEnds(k, sent) ==
  /\ streams[k].thread = "open"
  /\ ThreadStep(k, [Sending(streams[k], sent) EXCEPT !.thread = "ended"])
  /\ UNCHANGED story

\* Mutant: the loop looks for a close request before it looks at the frames.
TakeCloseFirst(k) ==
  LET s == streams[k] IN
  /\ s.thread = "open" /\ s.out # << >>
  /\ IF \E i \in DOMAIN s.out : s.out[i].what = "Close"
     THEN /\ ThreadStep(k, [Sending(s, <<Event("Closed", 0)>>) EXCEPT !.thread = "ended"])
          /\ story' = [story EXCEPT ![k].over = TRUE]
     ELSE /\ ThreadStep(k, [s EXCEPT !.out = Tail(@)])
          /\ story' = [story EXCEPT ![k].sent = Append(@, Head(s.out).n)]

\* The session's loop takes the page's frames in order: a text goes to the
\* server, a close request (dropping the session asks for one) ends it.
TakeOutbound(k) ==
  LET s == streams[k] IN
  /\ s.thread = "open" /\ s.out # << >>
  /\ IF Head(s.out).what = "Close"
     THEN /\ ThreadStep(k, [Sending(s, <<Event("Closed", 0)>>) EXCEPT !.thread = "ended"])
          /\ story' = [story EXCEPT ![k].over = TRUE]
     ELSE /\ ThreadStep(k, [s EXCEPT !.out = Tail(@)])
          /\ story' = [story EXCEPT ![k].sent = Append(@, Head(s.out).n)]

OutboundFails(k) ==
  LET s == streams[k] IN
  /\ s.thread = "open" /\ s.out # << >> /\ Head(s.out).what = "Text"
  /\ ThreadStep(k, [Sending(s, <<Event("Error", 0), Event("Closed", 0)>>)
                      EXCEPT !.thread = "ended"])
  /\ UNCHANGED story

-----------------------------------------------------------------------------
(* The tick.                                                               *)

\* Mutants: only requests, or only streams, keep the window awake.
PendingFetchesOnly == inFlight > 0
PendingStreamsOnly == \E k \in Streams : streams[k].bound

\* has_pending_host_callbacks and next_host_callback_deadline: while a request
\* is in flight or a stream is bound the window wakes every 10 ms.
HasPending == inFlight > 0 \/ \E k \in Streams : streams[k].bound

\* drain_net_completions: settling a promise only queues its reactions, so no
\* script runs here; a request without resolvers would be passed over.
BeginPump ==
  /\ pump.at = "rest"
  /\ inFlight' = IF inFlight >= Len(answers) THEN inFlight - Len(answers) ELSE 0
  /\ parked' = parked \ ToSet(answers)
  /\ answers' = << >>
  /\ pump' = [pump EXCEPT !.at = "sockets?"]
  /\ UNCHANGED <<flights, nextFetch, streams, calls, story>>

\* The events of a stream, each with its stream, in the order they arrived.
Labelled(k) == [i \in DOMAIN streams[k].incoming |->
                  [key |-> k, what |-> streams[k].incoming[i].what,
                   n |-> streams[k].incoming[i].n]]

\* drain_ws_events, drain_sse_events: every event of every bound stream is
\* taken before the first handler runs.
CollectEvents(kind, from, to) ==
  LET bound == {k \in kind : streams[k].bound}
      all   == FlattenSeq([i \in 1..Cardinality(bound) |-> Labelled(SetToSeq(bound)[i])])
  IN
  /\ pump.at = from
  /\ pump' = [at |-> to, batch |-> all, handling |-> FALSE,
              closed |-> {all[i].key : i \in {j \in DOMAIN all : all[j].what = "Closed"}}]
  /\ streams' = [k \in Streams |-> IF k \in bound THEN [streams[k] EXCEPT !.incoming = << >>]
                                   ELSE streams[k]]
  /\ UNCHANGED <<flights, answers, inFlight, parked, nextFetch, calls, story>>

CollectSockets == CollectEvents(Sockets, "sockets?", "sockets")
CollectSources == CollectEvents(Sources, "sources?", "sources")

ReadyAfter(k, what) ==
  CASE what = "Open" -> 1
    [] what = "Closed" -> IF k \in Sockets THEN 3 ELSE 2
    [] OTHER -> streams[k].ready

\* One event: readyState, and the handler of the page if it has one; a source
\* has none for its end.  An object that was dropped hears nothing.
Deliver ==
  LET e == Head(pump.batch)
      k == e.key
  IN
  /\ pump.at \in {"sockets", "sources"} /\ ~pump.handling /\ pump.batch # << >>
  /\ IF streams[k].instance
     THEN /\ streams' = [streams EXCEPT ![k].ready = ReadyAfter(k, e.what)]
          /\ story' = [story EXCEPT ![k].heard = Append(@, Event(e.what, e.n))]
          /\ \E handled \in IF k \in Sources /\ e.what = "Closed" THEN {FALSE} ELSE BOOLEAN :
               pump' = [pump EXCEPT !.batch = Tail(@), !.handling = handled]
     ELSE /\ pump' = [pump EXCEPT !.batch = Tail(@)]
          /\ UNCHANGED <<streams, story>>
  /\ UNCHANGED <<flights, answers, inFlight, parked, nextFetch, calls>>

HandlerReturns ==
  /\ pump.handling
  /\ pump' = [pump EXCEPT !.handling = FALSE]
  /\ UNCHANGED <<flights, answers, inFlight, parked, nextFetch, streams, calls, story>>

\* A throw leaves run_host_callbacks: what was taken and not delivered is
\* gone, and no stream is unbound.
HandlerThrows ==
  /\ pump.handling
  /\ pump' = Resting
  /\ story' = [k \in Streams |->
                 IF k \in pump.closed \cup {pump.batch[i].key : i \in DOMAIN pump.batch}
                 THEN [story[k] EXCEPT !.thrown = TRUE] ELSE story[k]]
  /\ UNCHANGED <<flights, answers, inFlight, parked, nextFetch, streams, calls>>

\* Mutant: the session of a closed stream stays bound.
UnboundKeepsSession(k) ==
  IF k \in pump.closed THEN [streams[k] EXCEPT !.instance = FALSE] ELSE streams[k]

\* A closed stream's session goes and its object leaves the registry.
Unbound(k) ==
  IF k \in pump.closed
  THEN [streams[k] EXCEPT !.bound = FALSE, !.instance = FALSE, !.incoming = << >>]
  ELSE streams[k]

Delivered(at, next) ==
  /\ pump.at = at /\ ~pump.handling /\ pump.batch = << >>
  /\ pump' = [Resting EXCEPT !.at = next]
  /\ streams' = [k \in Streams |-> Unbound(k)]
  /\ UNCHANGED <<flights, answers, inFlight, parked, nextFetch, calls, story>>

SocketsDelivered == Delivered("sockets", "sources?")
SourcesDelivered == Delivered("sources", "rest")

-----------------------------------------------------------------------------
PageActs ==
  \/ Fetch
  \/ \E k \in Streams : Construct(k)
  \/ \E k \in Sockets : SendText(k) \/ CloseSocket(k)
  \/ \E k \in Sources : CloseSource(k)

Fails == <<Event("Error", 0), Event("Closed", 0)>>
Closes == <<Event("Closed", 0)>>

ThreadActs(k) ==
  \/ Connected(k) \/ ConnectFails(k) \/ Receives(k)
  \/ \E sent \in {Closes, Fails} : ServerEnds(k, sent)
  \/ TakeOutbound(k) \/ OutboundFails(k)

PumpActs == CollectSockets \/ CollectSources \/ Deliver \/ HandlerReturns
            \/ HandlerThrows \/ SocketsDelivered \/ SourcesDelivered

ChannelsNext ==
  \/ PageActs
  \/ \E id \in flights : Answer(id)
  \/ \E k \in Streams : ThreadActs(k)
  \/ BeginPump \/ PumpActs

(***************************************************************************)
(* Fairness: every request answers (the client's own timeouts), a thread    *)
(* gets on with connecting and with the page's frames, a tick that began    *)
(* goes on, a handler ends, and the window ticks while something is         *)
(* pending, but need not otherwise.                                        *)
(***************************************************************************)
ChannelsFairSpec ==
  /\ ChannelsInit /\ [][ChannelsNext]_channelVars
  /\ \A id \in 0..MaxFetches - 1 : WF_channelVars(id \in flights /\ Answer(id))
  /\ \A k \in Streams : WF_channelVars(Connected(k) \/ ConnectFails(k))
  /\ \A k \in Streams : WF_channelVars(TakeOutbound(k))
  /\ WF_channelVars(HasPending /\ BeginPump)
  /\ WF_channelVars(PumpActs)

-----------------------------------------------------------------------------
(* Properties.                                                             *)

\* The state has its shape, and readyState only the values of its interface.
ChannelsTypeOK ==
  /\ flights \subseteq 0..MaxFetches - 1 /\ parked \subseteq 0..MaxFetches - 1
  /\ inFlight \in 0..MaxFetches
  /\ pump.at \in {"rest", "sockets?", "sockets", "sources?", "sources"}
  /\ pump.closed \subseteq Streams
  /\ \A k \in Sockets : streams[k].ready \in {0, 1, 3}
  /\ \A k \in Sources : streams[k].ready \in {0, 1, 2}

\* net_queue.rs counts a request from the call until its completion is
\* consumed, not until it is sent: the count is exact in between as well, and
\* every promise still to settle is behind it.
InFlightExact ==
  /\ inFlight = Cardinality(flights) + Len(answers)
  /\ parked = flights \cup ToSet(answers)

TextsIn(heard) == SelectSeq(heard, LAMBDA e : e.what = "Text")

\* What a page hears of a stream is its story in order: the opening first, the
\* texts as the server numbered them with none missing or repeated, nothing
\* after the end; only a handler that threw may have lost some.
StoryInOrder ==
  \A k \in Streams :
    LET heard == story[k].heard IN
      /\ \A i \in DOMAIN heard : heard[i].what \in {"Open", "Closed"} =>
           i = IF heard[i].what = "Open" THEN 1 ELSE Len(heard)
      /\ \A i, j \in DOMAIN TextsIn(heard) :
           i < j => TextsIn(heard)[i].n < TextsIn(heard)[j].n
      /\ ~story[k].thrown => \A i \in DOMAIN TextsIn(heard) : TextsIn(heard)[i].n = i

\* A closing WebSocket has sent what the page gave it before: the server gets
\* the page's texts in order from the first, frames of before the handshake
\* included, and a close request overtakes none of them.
SentInOrder ==
  \A k \in Sockets :
    LET sent == story[k].sent IN
      /\ \A i \in DOMAIN sent : sent[i] = i
      /\ story[k].over => ~\E i \in DOMAIN streams[k].out :
           /\ streams[k].out[i].what = "Text"
           /\ \A j \in 1..i : streams[k].out[j].what = "Text"

\* mod.rs drain_ws_events: a stream whose end the page has seen is not bound
\* any more once the tick is over, so that it does not keep the window awake.
\* This needs every handler of that tick to return.
EndedReleased ==
  \A k \in Streams :
    (/\ pump.at = "rest" /\ streams[k].bound /\ ~story[k].thrown
     /\ story[k].heard # << >>) => Last(story[k].heard).what # "Closed"

\* What is counted, bound and parked is what is under way, and no more; both
\* directions of a stream keep their order.
ChannelsInv ==
  ChannelsTypeOK /\ InFlightExact /\ EndedReleased /\ StoryInOrder /\ SentInOrder

\* Every promise of fetch settles, and what a bound stream's thread has sent is
\* heard or lost to a throw, although the window only ticks while something is
\* pending (has_pending_host_callbacks).  Calls and texts are bounded, so at
\* last nothing is left waiting.
ArrivalsAreHeard ==
  <>[](/\ parked = {}
       /\ \A k \in Streams : streams[k].bound => streams[k].incoming = << >>)
=============================================================================
