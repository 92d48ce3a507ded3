----------------------------- MODULE MCPageTick -----------------------------
(***************************************************************************)
(* What a page is called back for besides events: its timers and animation *)
(* frames (HostTimers), its fetches, sockets and event sources             *)
(* (HostChannels), and its layouts and timeline (FrameObservers).  The     *)
(* window's tick serves them one after the other on one thread; they share *)
(* no state, so each is explored while the others rest: focus, fixed by    *)
(* the initial state, names the one that moves.                            *)
(*                                                                         *)
(* Layouts: of two boxes one is in view, or after a scroll out of it, and  *)
(* one half in view before and after; or there is none.                    *)
(***************************************************************************)
EXTENDS HostTimers, HostChannels, FrameObservers

MCBoxes == {[y |-> 0, height |-> 2, edge |-> 0], [y |-> 1, height |-> 2, edge |-> 1]}

MCMarks == {<<0, 1>>, <<1, 1>>}

Wish(types, threshold, asked) ==
  [types |-> types, threshold |-> threshold, buffered |-> asked]

MCWishes == {Wish({"mark", "longtask"}, 0, FALSE), Wish({"longtask"}, 2, TRUE)}

VARIABLE focus

tickVars == <<timerVars, channelVars, observerVars, focus>>

TickInit ==
  /\ TimersInit /\ ChannelsInit /\ FrameObserversInit
  /\ focus \in {"timers", "channels", "layout", "timeline"}

TickNext ==
  /\ UNCHANGED focus
  /\ \/ focus = "timers" /\ TimersNext /\ UNCHANGED <<channelVars, observerVars>>
     \/ focus = "channels" /\ ChannelsNext /\ UNCHANGED <<timerVars, observerVars>>
     \/ /\ focus = "layout" /\ (GeometryMoves \/ FrameSteps)
        /\ UNCHANGED <<timerVars, channelVars>>
     \/ /\ focus = "timeline" /\ (TimelineMoves \/ FrameSteps)
        /\ UNCHANGED <<timerVars, channelVars>>

TimersMove(A) == focus = "timers" /\ A
ChannelsMove(A) == focus = "channels" /\ A

\* The fairness of the component that moves.
TickSpec ==
  /\ TickInit /\ [][TickNext]_tickVars
  /\ WF_timerVars(TimersMove(BeginTick /\ WakeDue))
  /\ WF_timerVars(TimersMove(CallNext))
  /\ WF_timerVars(TimersMove(CallbackEnds))
  /\ WF_timerVars(TimersMove(BeginFrames))
  /\ WF_timerVars(TimersMove(EndTick))
  /\ WF_timerVars(TimersMove(TimePasses))
  /\ \A id \in 0..MaxFetches - 1 :
       WF_channelVars(ChannelsMove(id \in flights /\ Answer(id)))
  /\ \A k \in Streams :
       /\ WF_channelVars(ChannelsMove(Connected(k) \/ ConnectFails(k)))
       /\ WF_channelVars(ChannelsMove(TakeOutbound(k)))
  /\ WF_channelVars(ChannelsMove(HasPending /\ BeginPump))
  /\ WF_channelVars(ChannelsMove(PumpActs))
=============================================================================
