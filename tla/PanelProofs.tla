----------------------------- MODULE PanelProofs -----------------------------
(***************************************************************************)
(* Proofs about the claimed panel, for every number of keys, presses,       *)
(* gestures and starts, and whatever Windows refuses and whoever is late:   *)
(*                                                                          *)
(*   Shape     what the typethrough, its queue and the session hold is well  *)
(*             formed; every step keeps it                                  *)
(*   Held      what Windows believes held is what the thread remembers, and *)
(*             every key of it is owed a release                            *)
(*   Stages    where the daemon, the session and its adapter can be         *)
(*   Fresh     a session attaches once, under a number nobody had           *)
(*   Told      whose word about the panel is the last one                   *)
(***************************************************************************)
EXTENDS Panel, SequenceTheorems, TLAPS

-----------------------------------------------------------------------------
(* The shape of the state.                                                  *)

\* The shape of the state that the arguments below use.
QueueOK == ctl \in Seq(Messages)
ThreadRec == [asked : BOOLEAN, emulating : BOOLEAN, held : SUBSET Keys,
              session : 0 .. MaxStarts, up : BOOLEAN]
ThreadOK == tt \in ThreadRec
KeysOK == /\ down \subseteq Keys /\ windows \subseteq Keys /\ lost \subseteq Keys
          /\ refused \subseteq Keys
          /\ events \in Seq(Events) /\ Len(events) <= EventCap
          /\ claim \in BOOLEAN /\ presses \in 0 .. MaxPresses
CountsOK == /\ escape \in [latch : BOOLEAN, toggles : Nat, stops : Nat]
            /\ muted \in [toggles : Nat, stops : Nat]
            /\ gestures \in 0 .. MaxGestures /\ starts \in 0 .. MaxStarts
SupRec == [phase : {"none", "entry", "plugging", "attaching", "running", "ending", "over"},
           id : 0 .. MaxStarts, stop : BOOLEAN, blocking : BOOLEAN, engine : BOOLEAN,
           seen : [toggles : Nat, stops : Nat]]
AdapterRec == [phase : {"off", "loop", "detaching", "done"}, attached : BOOLEAN, ctl : Seq(Modes)]
SessionOK ==
  /\ pc \in {"idle", "start", "stopping", "restart", "quitting", "closing", "joining", "gone"}
  /\ sup \in SupRec /\ adapter \in AdapterRec
  /\ pc = "restart" => starts < MaxStarts
  /\ sup.seen.toggles <= escape.toggles /\ sup.seen.stops <= escape.stops
Shape == QueueOK /\ ThreadOK /\ KeysOK /\ CountsOK /\ SessionOK

LEMMA SendQueue ==
  ASSUME Shape, NEW client \in Clients \cup {"nobody"}, NEW command \in Commands,
         Send(client, command)
  PROVE  ctl' \in Seq(Messages)
<1>1. [command |-> command, ack |-> client, session |-> sup.id] \in Messages
  BY DEF Shape, SessionOK, SupRec, Messages
<1> QED  BY <1>1 DEF Send, Shape, QueueOK

LEMMA ExpireQueue ==
  ASSUME Shape, NEW client \in Clients, Expire(client)
  PROVE  ctl' \in Seq(Messages)
<1>1. ctl \in Seq(Messages)
  BY DEF Shape, QueueOK
<1>2. \A i \in DOMAIN ctl : ctl[i] \in Messages /\ [ctl[i] EXCEPT !.ack = "nobody"] \in Messages
  <2>1. ASSUME NEW m \in Messages
        PROVE  [m EXCEPT !.ack = "nobody"] \in Messages
    BY DEF Messages
  <2>2. \A i \in DOMAIN ctl : ctl[i] \in Messages
    BY <1>1
  <2> QED  BY <2>1, <2>2
<1>3. ctl' = [i \in 1..Len(ctl) |-> IF ctl[i].ack = client
                                    THEN [ctl[i] EXCEPT !.ack = "nobody"] ELSE ctl[i]]
  BY <1>1 DEF Expire
<1>4. \A i \in 1..Len(ctl) : ctl'[i] \in Messages
  BY <1>1, <1>2, <1>3
<1>5. Len(ctl) \in Nat
  BY <1>1
<1> QED  BY <1>3, <1>4, <1>5

LEMMA QueueStep == Shape /\ [Next]_vars => QueueOK'
<1> SUFFICES ASSUME Shape, [Next]_vars PROVE ctl' \in Seq(Messages)
  BY DEF QueueOK
<1>1. ctl \in Seq(Messages)
  BY DEF Shape, QueueOK
<1>2. CASE UNCHANGED ctl
  BY <1>1, <1>2
<1>3. CASE ctl' = <<>>
  BY <1>3
<1>4. CASE PumpCtl
  BY <1>1, <1>4 DEF PumpCtl
<1>5. ASSUME NEW client \in Clients, Expire(client) PROVE ctl' \in Seq(Messages)
  BY <1>5, ExpireQueue
<1>6. ASSUME NEW client \in Clients \cup {"nobody"}, NEW command \in Commands, Send(client, command)
      PROVE  ctl' \in Seq(Messages)
  BY <1>6, SendQueue
<1>7. CASE Start \/ NotLaunched \/ HandBack \/ Restart \/ Quitting \/ Join
  BY <1>6, <1>7 DEF Start, NotLaunched, LaunchFails, HandBack, Restart, Quitting, Join,
                    Clients, Commands
<1>8. CASE Attach \/ PanelLost
  BY <1>6, <1>8 DEF Attach, PanelLost, Clients, Commands
<1>13. CASE Adapt
  <2>1. Head(adapter.ctl) \in Modes
    BY <1>13 DEF Adapt, Shape, SessionOK, AdapterRec
  <2>2. PICK command \in Commands : Send("adapter", command)
    BY <1>13, <2>1, Zenon DEF Adapt, Modes, Commands
  <2> QED  BY <1>6, <2>2 DEF Clients
<1>9. CASE Player \/ PumpEvent \/ PumpEnds
  BY <1>2, <1>3, <1>9 DEF Player, Press, Release, Toggle, EmergencyStop, Unplug, PumpEvent, PumpEnds
<1>10. CASE Stop \/ Reload \/ Quit \/ Launch \/ Close
  BY <1>2, <1>10 DEF Stop, Reload, Quit, Raise, Launch, Close
<1>11. CASE TakeBaseline \/ Refused \/ Run \/ Polls \/ EndAsked \/ Joined \/ Detached
            \/ EndItself \/ EngineDies
  BY <1>2, <1>11 DEF TakeBaseline, Refused, Run, Polls, EndAsked, Joined, Detached, EndItself, EngineDies
<1>12. CASE UNCHANGED vars
  BY <1>2, <1>12 DEF vars
<1> QED
  BY <1>4, <1>5, <1>7, <1>8, <1>9, <1>10, <1>11, <1>12, <1>13
     DEF Next, Pump, Command, Control, Session, Thread

\* Recomputing the mode touches the mode and the held set only.
LEMMA ModeFields ==
  ASSUME NEW t \in ThreadRec, escape.latch \in BOOLEAN
  PROVE  /\ Mode(t) \in ThreadRec
         /\ Mode(t).asked = t.asked /\ Mode(t).session = t.session /\ Mode(t).up = t.up
         /\ Mode(t).emulating <=> t.asked /\ ~escape.latch
         /\ Mode(t).held = IF Mode(t).emulating THEN {} ELSE t.held
<1>1. t = [asked |-> t.asked, emulating |-> t.emulating, held |-> t.held,
           session |-> t.session, up |-> t.up]
  BY DEF ThreadRec
<1>2. CASE t.asked /\ ~escape.latch
  <2>1. Mode(t) = [t EXCEPT !.emulating = TRUE, !.held = {}]
    BY <1>2 DEF Mode
  <2> QED  BY <1>2, <2>1 DEF ThreadRec
<1>3. CASE ~(t.asked /\ ~escape.latch)
  <2>1. Mode(t) = [t EXCEPT !.emulating = FALSE, !.held = t.held]
    BY <1>3 DEF Mode
  <2> QED  BY <1>3, <2>1 DEF ThreadRec
<1> QED  BY <1>2, <1>3

LEMMA ForwardFields ==
  ASSUME NEW t \in ThreadRec
  PROVE  /\ Forward(t) \in ThreadRec
         /\ Forward(t).asked = t.asked /\ Forward(t).held = t.held /\ Forward(t).up = t.up
         /\ Forward(t).session \in {t.session, 0}
<1>1. 0 \in 0 .. MaxStarts
  BY PanelAssumption
<1> QED  BY <1>1 DEF Forward, ThreadRec

LEMMA ObeyFields ==
  ASSUME NEW t \in ThreadRec, NEW m \in Messages, m.command # "Shutdown"
  PROVE  /\ Obey(t, m) \in ThreadRec
         /\ Obey(t, m).held = t.held /\ Obey(t, m).up = t.up
         /\ Obey(t, m).asked = IF m.command = "Emulating" THEN TRUE
                               ELSE IF m.command = "Typing" THEN FALSE ELSE t.asked
         /\ Obey(t, m).session = IF m.command = "Attach" THEN m.session
                                 ELSE IF m.command = "Detach" THEN 0 ELSE t.session
<1>1. m.command \in {"Emulating", "Typing", "Attach", "Detach"} /\ m.session \in 0 .. MaxStarts
      /\ 0 \in 0 .. MaxStarts
  BY PanelAssumption DEF Messages, Commands
<1>2. CASE m.command = "Emulating"
  <2>1. Obey(t, m) = [t EXCEPT !.asked = TRUE]
    BY <1>2 DEF Obey
  <2> QED  BY <1>2, <2>1 DEF ThreadRec
<1>3. CASE m.command = "Typing"
  <2>1. Obey(t, m) = [t EXCEPT !.asked = FALSE]
    BY <1>3 DEF Obey
  <2> QED  BY <1>3, <2>1 DEF ThreadRec
<1>4. CASE m.command = "Attach"
  <2>1. Obey(t, m) = [t EXCEPT !.session = m.session]
    BY <1>4 DEF Obey
  <2> QED  BY <1>1, <1>4, <2>1 DEF ThreadRec
<1>5. CASE m.command = "Detach"
  <2>1. Obey(t, m) = [t EXCEPT !.session = 0]
    BY <1>5 DEF Obey
  <2> QED  BY <1>1, <1>5, <2>1 DEF ThreadRec
<1> QED  BY <1>1, <1>2, <1>3, <1>4, <1>5

\* What PumpCtl and PumpEvent start from.
LEMMA Obeyed ==
  ASSUME Shape, PumpCtl
  PROVE  LET m == Head(ctl) IN
         /\ m \in Messages /\ m.command # "Shutdown" /\ ctl # <<>>
         /\ tt' \in ThreadRec /\ tt'.up = tt.up
         /\ tt'.held = IF tt'.emulating THEN {} ELSE tt.held
         /\ tt'.asked = IF m.command = "Emulating" THEN TRUE
                        ELSE IF m.command = "Typing" THEN FALSE ELSE tt.asked
         /\ tt'.session = IF m.command = "Attach" THEN m.session
                          ELSE IF m.command = "Detach" THEN 0 ELSE tt.session
<1> DEFINE m == Head(ctl)
<1>1. m \in Messages /\ m.command # "Shutdown" /\ ctl # <<>> /\ tt' = Mode(Obey(tt, m))
  BY DEF PumpCtl, Shape, QueueOK
<1>2. tt \in ThreadRec /\ escape.latch \in BOOLEAN
  BY DEF Shape, ThreadOK, CountsOK
<1> HIDE DEF m
<1> DEFINE q == Obey(tt, m)
<1>3. /\ q \in ThreadRec /\ q.held = tt.held /\ q.up = tt.up
      /\ q.asked = IF m.command = "Emulating" THEN TRUE
                   ELSE IF m.command = "Typing" THEN FALSE ELSE tt.asked
      /\ q.session = IF m.command = "Attach" THEN m.session
                     ELSE IF m.command = "Detach" THEN 0 ELSE tt.session
  BY <1>1, <1>2, ObeyFields
<1>4. tt' = Mode(q)
  BY <1>1
<1> HIDE DEF q
<1>5. /\ tt' \in ThreadRec /\ tt'.up = q.up /\ tt'.asked = q.asked /\ tt'.session = q.session
      /\ tt'.held = IF tt'.emulating THEN {} ELSE q.held
  BY <1>2, <1>3, <1>4, ModeFields
<1> QED  BY <1>1, <1>3, <1>5 DEF m

LEMMA Pumped ==
  ASSUME Shape
  PROVE  LET t == Mode(Forward(tt)) IN
         /\ t \in ThreadRec /\ t.up = tt.up /\ t.asked = tt.asked
         /\ t.session \in {tt.session, 0}
         /\ t.emulating <=> tt.asked /\ ~escape.latch
         /\ t.held = IF t.emulating THEN {} ELSE tt.held
<1>1. tt \in ThreadRec /\ escape.latch \in BOOLEAN
  BY DEF Shape, ThreadOK, CountsOK
<1>2. Forward(tt) \in ThreadRec
  BY <1>1, ForwardFields
<1> QED  BY <1>1, <1>2, ForwardFields, ModeFields

\* What an event does: nothing is typed and the mode is applied, or the key is
\* handed to Windows, which may refuse it.
Quietly(t) ==
  tt' = t /\ LetGo(tt.held \ t.held)
Typed(t, e, taken) ==
  /\ ~t.emulating /\ (e.down \/ e.key \in t.held)
  /\ tt' = [t EXCEPT !.held = Remember(t.held, e.key, e.down, taken)]
  /\ windows' = IF ~taken THEN windows
                ELSE IF e.down THEN windows \union {e.key} ELSE windows \ {e.key}
  /\ refused' = IF e.down THEN refused
                ELSE IF taken THEN refused \ {e.key} ELSE refused \union {e.key}

LEMMA EventCases ==
  ASSUME Shape, PumpEvent
  PROVE  LET t == Mode(Forward(tt))
             e == Head(events)
         IN /\ e \in Events /\ events # <<>> /\ events' = Tail(events) /\ tt.up
            /\ \/ (t.emulating \/ (~e.down /\ e.key \notin t.held)) /\ Quietly(t)
               \/ \E taken \in BOOLEAN : Typed(t, e, taken)
<1>1. Head(events) \in Events /\ events # <<>>
  BY DEF PumpEvent, Shape, KeysOK
<1>2. StrokesFail \in BOOLEAN
  BY PanelAssumption
<1> QED  BY <1>1, <1>2 DEF PumpEvent, Quietly, Typed

LEMMA TypedThread ==
  ASSUME NEW t \in ThreadRec, NEW e \in Events, NEW taken \in BOOLEAN, Typed(t, e, taken)
  PROVE  /\ tt' \in ThreadRec /\ tt'.up = t.up /\ tt'.asked = t.asked /\ tt'.session = t.session
         /\ tt'.held = Remember(t.held, e.key, e.down, taken)
<1>1. e.key \in Keys /\ t.held \subseteq Keys
  BY DEF Events, ThreadRec
<1>2. Remember(t.held, e.key, e.down, taken) \subseteq Keys
  BY <1>1 DEF Remember
<1> QED  BY <1>2 DEF Typed, ThreadRec

LEMMA ThreadStep == Shape /\ [Next]_vars => ThreadOK'
<1> SUFFICES ASSUME Shape, [Next]_vars PROVE tt' \in ThreadRec
  BY DEF ThreadOK
<1>1. tt \in ThreadRec
  BY DEF Shape, ThreadOK
<1>2. CASE UNCHANGED tt
  BY <1>1, <1>2
<1>3. CASE PumpCtl
  BY <1>3, Obeyed
<1>4. CASE PumpEvent
  BY <1>4, EventCases, Pumped, TypedThread DEF Quietly
<1>5. CASE PumpEnds
  <2>1. 0 \in 0 .. MaxStarts
    BY PanelAssumption
  <2> QED  BY <1>1, <1>5, <2>1 DEF PumpEnds, ThreadRec
<1>6. CASE Player \/ Command \/ Control \/ (\E client \in Clients : Expire(client))
  BY <1>2, <1>6
     DEF Player, Press, Release, Toggle, EmergencyStop, Unplug, Command, Start, Stop, Reload, Quit,
         Raise, Control, Launch, NotLaunched, HandBack, Restart, Quitting, Reap, Close, Join, Expire
<1>7. CASE Session \/ Thread \/ EndItself \/ EngineDies
  BY <1>2, <1>7
     DEF Session, TakeBaseline, Refused, Attach, Run, Polls, Poll, EndAsked, Joined, Thread, Adapt,
         PanelLost, Detached, EndItself, EngineDies, Supervise, Adapter
<1> QED  BY <1>2, <1>3, <1>4, <1>5, <1>6, <1>7 DEF Next, Pump, vars

LEMMA LetGoKeys ==
  ASSUME NEW keys, keys \subseteq Keys, windows \subseteq Keys, refused \subseteq Keys, LetGo(keys)
  PROVE  windows' \subseteq Keys /\ refused' \subseteq Keys
BY DEF LetGo

LEMMA EmitKeys ==
  ASSUME KeysOK, NEW key \in Keys, NEW isDown \in BOOLEAN, Emit(key, isDown)
  PROVE  events' \in Seq(Events) /\ Len(events') <= EventCap /\ lost' \subseteq Keys
<1>1. [key |-> key, down |-> isDown] \in Events
  BY DEF Events
<1>2. EventCap \in Nat /\ events \in Seq(Events) /\ Len(events) <= EventCap
  BY PanelAssumption DEF KeysOK
<1>3. CASE Len(events) < EventCap
  <2>1. events' = Append(events, [key |-> key, down |-> isDown])
    BY <1>3 DEF Emit
  <2>2. events' \in Seq(Events) /\ Len(events') = Len(events) + 1
    BY <1>1, <1>2, <2>1
  <2> QED  BY <1>2, <1>3, <2>2 DEF Emit, KeysOK
<1>4. CASE ~(Len(events) < EventCap)
  BY <1>2, <1>4 DEF Emit, KeysOK
<1> QED  BY <1>3, <1>4

LEMMA KeysStep == Shape /\ [Next]_vars => KeysOK'
<1> SUFFICES ASSUME Shape, [Next]_vars PROVE KeysOK'
  OBVIOUS
<1>0. KeysOK /\ tt.held \subseteq Keys /\ MaxPresses \in Nat /\ EventCap \in Nat
  BY PanelAssumption DEF Shape, ThreadOK, ThreadRec
<1>1. CASE UNCHANGED <<down, windows, lost, refused, events, claim, presses>>
  BY <1>0, <1>1 DEF KeysOK
<1>2. ASSUME NEW k \in Keys, Press(k) PROVE KeysOK'
  <2>1. presses' \in 0 .. MaxPresses
    BY <1>0, <1>2 DEF Press, KeysOK
  <2> QED  BY <1>0, <1>2, <2>1, EmitKeys DEF Press, KeysOK
<1>3. ASSUME NEW k \in Keys, Release(k) PROVE KeysOK'
  BY <1>0, <1>3, EmitKeys DEF Release, KeysOK
<1>4. CASE Unplug \/ Close
  BY <1>0, <1>4 DEF Unplug, Close, KeysOK
<1>5. CASE PumpCtl
  <2>1. LetGo(tt.held \ tt'.held) /\ UNCHANGED <<down, lost, events, claim, presses>>
    BY <1>5 DEF PumpCtl, player
  <2> QED  BY <1>0, <2>1, LetGoKeys DEF KeysOK
<1>6. CASE PumpEnds
  <2>1. LetGo(tt.held) /\ UNCHANGED <<down, lost, events, claim, presses>>
    BY <1>6 DEF PumpEnds, EndReleases, player
  <2> QED  BY <1>0, <2>1, LetGoKeys DEF KeysOK
<1>7. CASE PumpEvent
  <2> DEFINE t == Mode(Forward(tt))
             e == Head(events)
  <2>1. /\ e \in Events /\ events # <<>> /\ events' = Tail(events)
        /\ Quietly(t) \/ \E taken \in BOOLEAN : Typed(t, e, taken)
    BY <1>7, EventCases
  <2>2. UNCHANGED <<down, lost, claim, presses>>
    BY <1>7 DEF PumpEvent
  <2>3. events' \in Seq(Events) /\ Len(events') <= EventCap
    BY <1>0, <2>1 DEF KeysOK
  <2>4. windows' \subseteq Keys /\ refused' \subseteq Keys
    <3> HIDE DEF t, e
    <3>1. CASE Quietly(t)
      BY <1>0, <3>1, LetGoKeys DEF Quietly, KeysOK
    <3>2. CASE \E taken \in BOOLEAN : Typed(t, e, taken)
      BY <1>0, <2>1, <3>2 DEF Typed, Events, KeysOK
    <3> QED  BY <2>1, <3>1, <3>2
  <2> QED  BY <1>0, <2>2, <2>3, <2>4 DEF KeysOK
<1>8. CASE Toggle \/ EmergencyStop \/ Command \/ (\E client \in Clients : Expire(client))
  BY <1>1, <1>8 DEF Toggle, EmergencyStop, Command, Start, Stop, Reload, Quit, Raise, Expire, player
<1>9. CASE Launch \/ NotLaunched \/ HandBack \/ Restart \/ Quitting \/ Join
  BY <1>1, <1>9 DEF Launch, NotLaunched, HandBack, Restart, Quitting, Reap, Join, player
<1>10. CASE Session \/ Thread \/ EndItself \/ EngineDies
  BY <1>1, <1>10
     DEF Session, TakeBaseline, Refused, Attach, Run, Polls, Poll, EndAsked, Joined, Thread, Adapt,
         PanelLost, Detached, EndItself, EngineDies, Supervise, Adapter, player
<1>11. CASE UNCHANGED vars
  BY <1>1, <1>11 DEF vars
<1> QED
  BY <1>2, <1>3, <1>4, <1>5, <1>6, <1>7, <1>8, <1>9, <1>10, <1>11 DEF Next, Player, Pump, Control

\* The counters of the latch only grow.
Grows == escape'.toggles >= escape.toggles /\ escape'.stops >= escape.stops

LEMMA CountsStep == Shape /\ [Next]_vars => CountsOK' /\ Grows
<1> SUFFICES ASSUME Shape, [Next]_vars PROVE CountsOK' /\ Grows
  OBVIOUS
<1>0. /\ escape \in [latch : BOOLEAN, toggles : Nat, stops : Nat]
      /\ muted \in [toggles : Nat, stops : Nat]
      /\ gestures \in 0 .. MaxGestures /\ starts \in 0 .. MaxStarts
      /\ escape.toggles \in Nat /\ escape.stops \in Nat
      /\ MaxGestures \in Nat /\ MaxStarts \in Nat
      /\ Counted \in [toggles : Nat, stops : Nat]
  BY PanelAssumption DEF Shape, CountsOK, Counted
<1>1. CASE UNCHANGED <<escape, muted, gestures, starts>>
  BY <1>0, <1>1 DEF CountsOK, Grows
<1>2. CASE Toggle
  <2>1. escape' = [latch |-> ~escape.latch, toggles |-> escape.toggles + 1, stops |-> escape.stops]
    BY <1>0, <1>2 DEF Toggle
  <2>2. escape' \in [latch : BOOLEAN, toggles : Nat, stops : Nat]
    <3>1. (~escape.latch) \in BOOLEAN
      OBVIOUS
    <3> QED  BY <1>0, <2>1, <3>1
  <2>3. Grows
    BY <1>0, <2>1 DEF Grows
  <2>4. gestures' \in 0 .. MaxGestures
    BY <1>0, <1>2 DEF Toggle
  <2> QED  BY <1>0, <1>2, <2>2, <2>3, <2>4 DEF Toggle, CountsOK
<1>3. CASE EmergencyStop
  <2>1. escape' = [latch |-> TRUE, toggles |-> escape.toggles, stops |-> escape.stops + 1]
    BY <1>0, <1>3 DEF EmergencyStop
  <2>2. Grows /\ escape' \in [latch : BOOLEAN, toggles : Nat, stops : Nat]
    BY <1>0, <2>1 DEF Grows
  <2>3. gestures' \in 0 .. MaxGestures
    BY <1>0, <1>3 DEF EmergencyStop
  <2> QED  BY <1>0, <1>3, <2>2, <2>3 DEF EmergencyStop, CountsOK
<1>4. CASE Start
  <2>1. escape' = [latch |-> FALSE, toggles |-> escape.toggles, stops |-> escape.stops]
    BY <1>0, <1>4 DEF Start
  <2>2. Grows /\ escape' \in [latch : BOOLEAN, toggles : Nat, stops : Nat]
    BY <1>0, <2>1 DEF Grows
  <2>3. starts' \in 0 .. MaxStarts
    BY <1>0, <1>4 DEF Start
  <2> QED  BY <1>0, <1>4, <2>2, <2>3 DEF Start, CountsOK
<1>5. CASE Restart
  <2>1. starts' \in 0 .. MaxStarts
    BY <1>0, <1>5 DEF Restart, Daemon, Shape, SessionOK
  <2> QED  BY <1>0, <1>5, <2>1 DEF Restart, Reap, CountsOK, Grows
<1>7. CASE Player
  BY <1>1, <1>2, <1>3, <1>7 DEF Player, Press, Release, Unplug, counts
<1>8. CASE Pump \/ (\E client \in Clients : Expire(client))
  BY <1>1, <1>8 DEF Pump, PumpCtl, PumpEvent, PumpEnds, Expire, counts
<1>9. CASE Stop \/ Reload \/ Quit \/ Launch \/ NotLaunched \/ HandBack \/ Quitting \/ Close \/ Join
  BY <1>1, <1>9 DEF Stop, Reload, Quit, Raise, Launch, NotLaunched, HandBack, Quitting, Reap,
                    Close, Join, counts
<1>10. CASE Session \/ Thread \/ EndItself \/ EngineDies
  BY <1>1, <1>10
     DEF Session, TakeBaseline, Refused, Attach, Run, Polls, Poll, EndAsked, Joined, Thread, Adapt,
         PanelLost, Detached, EndItself, EngineDies, Supervise, Adapter, counts
<1>11. CASE UNCHANGED vars
  BY <1>1, <1>11 DEF vars
<1> QED
  BY <1>4, <1>5, <1>7, <1>8, <1>9, <1>10, <1>11 DEF Next, Command, Control

LEMMA MirrorModes ==
  ASSUME NEW b \in BOOLEAN, NEW n \in Nat
  PROVE  /\ Mirror(b, n) \in Seq(Modes) /\ Len(Mirror(b, n)) = n
         /\ n > 0 => Mirror(b, n)[n] = Capture(IF n % 2 = 1 THEN ~b ELSE b)
<1>1. \A x : Capture(x) \in Modes
  BY DEF Capture, Modes
<1>2. Mirror(b, n) = [i \in 1 .. n |-> Capture(IF i % 2 = 1 THEN ~b ELSE b)]
  BY DEF Mirror
<1>3. \A i \in 1 .. n : Mirror(b, n)[i] \in Modes
  BY <1>1, <1>2
<1> HIDE DEF Mirror
<1>4. Mirror(b, n) \in Seq(Modes) /\ Len(Mirror(b, n)) = n
  BY <1>2, <1>3
<1>5. n > 0 => Mirror(b, n)[n] = Capture(IF n % 2 = 1 THEN ~b ELSE b)
  <2>1. n > 0 => n \in 1 .. n
    OBVIOUS
  <2> QED  BY <1>2, <2>1
<1> QED  BY <1>4, <1>5

LEMMA NoSessionTyped == NoSession \in SupRec /\ NoAdapter \in AdapterRec
<1>1. 0 \in 0 .. MaxStarts
  BY PanelAssumption
<1>2. NoSession \in SupRec
  BY <1>1 DEF NoSession, SupRec
<1>3. <<>> \in Seq(Modes)
  OBVIOUS
<1> QED  BY <1>2, <1>3 DEF NoAdapter, AdapterRec

\* New gestures: the adapter is told of each, and of the end if one asked for it.
LEMMA PollFields ==
  ASSUME Shape, Poll
  PROVE  LET n == escape.toggles - sup.seen.toggles
             ends == escape.stops > sup.seen.stops
         IN /\ n \in Nat /\ (n = 0 => ends)
            /\ sup' \in SupRec /\ adapter' \in AdapterRec
            /\ sup'.phase = IF ends THEN "ending" ELSE "running"
            /\ sup'.id = sup.id /\ sup'.engine = sup.engine /\ sup'.seen = Counted
            /\ sup'.blocking = IF n % 2 = 1 THEN ~sup.blocking ELSE sup.blocking
            /\ adapter'.phase = adapter.phase
            /\ ~ends => adapter'.ctl = adapter.ctl \o Mirror(sup.blocking, n)
<1> DEFINE n == escape.toggles - sup.seen.toggles
           ends == escape.stops > sup.seen.stops
           tail == IF ends THEN Release_All ELSE <<>>
           flip == IF n % 2 = 1 THEN ~sup.blocking ELSE sup.blocking
<1>1. /\ escape.toggles \in Nat /\ escape.stops \in Nat
      /\ sup.seen.toggles \in Nat /\ sup.seen.stops \in Nat
      /\ sup.seen.toggles <= escape.toggles /\ sup.seen.stops <= escape.stops
      /\ sup.seen = [toggles |-> sup.seen.toggles, stops |-> sup.seen.stops]
      /\ Counted \in [toggles : Nat, stops : Nat]
  BY DEF Shape, CountsOK, SessionOK, SupRec, Counted
<1>2. n \in Nat
  BY <1>1
<1>3. n = 0 => ends
  <2>1. Counted # sup.seen
    BY DEF Poll
  <2>2. Counted = [toggles |-> escape.toggles, stops |-> escape.stops]
    BY DEF Counted
  <2>3. n = 0 => escape.toggles = sup.seen.toggles
    BY <1>1
  <2>4. escape.toggles # sup.seen.toggles \/ escape.stops # sup.seen.stops
    BY <1>1, <2>1, <2>2
  <2> QED  BY <1>1, <2>3, <2>4
<1>4. /\ sup' = [sup EXCEPT !.seen = Counted, !.blocking = flip,
                            !.phase = IF ends THEN "ending" ELSE sup.phase]
      /\ adapter' = [adapter EXCEPT !.ctl = adapter.ctl \o Mirror(sup.blocking, n) \o tail]
      /\ sup.phase = "running"
  BY DEF Poll, Supervise
<1>5. sup \in SupRec /\ adapter \in AdapterRec /\ sup.blocking \in BOOLEAN
  BY DEF Shape, SessionOK, SupRec
<1>6. tail \in Seq(Modes)
  <2>1. Release_All \in Seq(Modes)
    <3>1. "SetPassthrough" \in Modes /\ "Shutdown" \in Modes
      BY DEF Modes
    <3> QED  BY <3>1 DEF Release_All
  <2>2. <<>> \in Seq(Modes)
    OBVIOUS
  <2> QED  BY <2>1, <2>2 DEF tail
<1>7. flip \in BOOLEAN
  <2>1. (~sup.blocking) \in BOOLEAN
    OBVIOUS
  <2> QED  BY <1>5, <2>1
<1> HIDE DEF n, ends, tail, flip
<1>8. Mirror(sup.blocking, n) \in Seq(Modes) /\ adapter.ctl \in Seq(Modes)
  BY <1>2, <1>5, MirrorModes DEF AdapterRec
<1>9. adapter.ctl \o Mirror(sup.blocking, n) \o tail \in Seq(Modes)
  BY <1>6, <1>8
<1>10. adapter' \in AdapterRec /\ adapter'.phase = adapter.phase
       /\ adapter'.ctl = adapter.ctl \o Mirror(sup.blocking, n) \o tail
  BY <1>4, <1>5, <1>9 DEF AdapterRec
<1>11. ~ends => adapter'.ctl = adapter.ctl \o Mirror(sup.blocking, n)
  <2>1. ~ends => tail = <<>>
    BY DEF tail
  <2>2. adapter.ctl \o Mirror(sup.blocking, n) \in Seq(Modes)
    BY <1>8
  <2>3. adapter.ctl \o Mirror(sup.blocking, n) \o <<>> = adapter.ctl \o Mirror(sup.blocking, n)
    BY <2>2, ConcatEmptySeq
  <2> QED  BY <1>10, <2>1, <2>3
<1>12. /\ sup' \in SupRec /\ sup'.phase = IF ends THEN "ending" ELSE "running"
       /\ sup'.id = sup.id /\ sup'.engine = sup.engine /\ sup'.seen = Counted /\ sup'.blocking = flip
  BY <1>1, <1>4, <1>5, <1>7 DEF SupRec
<1> QED  BY <1>2, <1>3, <1>10, <1>11, <1>12 DEF n, ends, flip

\* The end of a session's own teardown is the end of its adapter too.
LEMMA TeardownFields ==
  ASSUME Shape, Teardown
  PROVE  /\ sup' \in SupRec /\ adapter' \in AdapterRec
         /\ sup' = [sup EXCEPT !.phase = "ending"] /\ sup'.phase = "ending"
         /\ sup'.seen = sup.seen /\ sup'.id = sup.id /\ adapter'.phase = adapter.phase
<1>1. sup \in SupRec /\ adapter \in AdapterRec
  BY DEF Shape, SessionOK
<1>2. "SetPassthrough" \in Modes /\ "Shutdown" \in Modes
  BY DEF Modes
<1>3. Release_All \in Seq(Modes)
  BY <1>2 DEF Release_All
<1>4. adapter.ctl \o Release_All \in Seq(Modes)
  BY <1>1, <1>3 DEF AdapterRec
<1>5. adapter' = [adapter EXCEPT !.ctl = adapter.ctl \o Release_All]
      /\ sup' = [sup EXCEPT !.phase = "ending"]
  BY DEF Teardown
<1>6. adapter' \in AdapterRec /\ adapter'.phase = adapter.phase
  BY <1>1, <1>4, <1>5 DEF AdapterRec
<1> QED  BY <1>1, <1>5, <1>6 DEF SupRec

\* Only these calls touch the session's own state.
Touched == \/ Launch \/ Stop \/ Reload \/ Quit \/ HandBack \/ Restart \/ Quitting
           \/ Session \/ Thread \/ EndItself \/ EngineDies

LEMMA UntouchedSession ==
  ASSUME [Next]_vars
  PROVE  \/ Touched
         \/ UNCHANGED <<sup, adapter>> /\ pc' # "restart"
         \/ UNCHANGED <<sup, adapter, pc, starts>>
<1>1. CASE Player
  BY <1>1 DEF Player, Press, Release, Toggle, EmergencyStop, Unplug, counts
<1>2. CASE Pump \/ (\E client \in Clients : Expire(client))
  BY <1>2 DEF Pump, PumpCtl, PumpEvent, PumpEnds, Expire, counts
<1>3. CASE Start \/ NotLaunched \/ Close \/ Join
  BY <1>3 DEF Start, NotLaunched, LaunchFails, Close, Join, Daemon
<1> QED  BY <1>1, <1>2, <1>3 DEF Next, Command, Control, Touched, vars

LEMMA SessionStep == Shape /\ [Next]_vars => SessionOK'
<1> SUFFICES ASSUME Shape, [Next]_vars PROVE SessionOK'
  OBVIOUS
<1>0. /\ sup \in SupRec /\ adapter \in AdapterRec
      /\ pc \in {"idle", "start", "stopping", "restart", "quitting", "closing", "joining", "gone"}
      /\ pc = "restart" => starts < MaxStarts
      /\ starts \in 0 .. MaxStarts
  BY DEF Shape, SessionOK, CountsOK
<1>1. pc' \in {"idle", "start", "stopping", "restart", "quitting", "closing", "joining", "gone"}
      /\ (pc' = "restart" => starts' < MaxStarts)
  <2>1. CASE UNCHANGED <<pc, starts>>
    BY <1>0, <2>1
  <2>2. CASE Player \/ Pump \/ (\E client \in Clients : Expire(client))
    BY <2>1, <2>2 DEF Player, Press, Release, Toggle, EmergencyStop, Unplug, Pump, PumpCtl, PumpEvent,
                      PumpEnds, Expire, counts
  <2>3. CASE Command
    BY <2>3 DEF Command, Start, Stop, Reload, Quit, Raise, Daemon, counts
  <2>4. CASE Control
    BY <2>4 DEF Control, Launch, NotLaunched, LaunchFails, HandBack, Restart, Quitting, Close, Join, Daemon
  <2>5. CASE Session \/ Thread \/ EndItself \/ EngineDies
    BY <2>1, <2>5 DEF Session, TakeBaseline, Refused, Attach, Run, Polls, Poll, EndAsked, Joined, Thread,
                      Adapt, PanelLost, Detached, EndItself, EngineDies, Supervise, Adapter, counts
  <2> QED  BY <2>1, <2>2, <2>3, <2>4, <2>5 DEF Next, vars
<1>2. /\ escape.toggles \in Nat /\ escape.stops \in Nat /\ escape'.toggles \in Nat
      /\ escape'.stops \in Nat
      /\ escape'.toggles >= escape.toggles /\ escape'.stops >= escape.stops
      /\ sup.seen.toggles \in Nat /\ sup.seen.stops \in Nat
      /\ sup.seen.toggles <= escape.toggles /\ sup.seen.stops <= escape.stops
  BY CountsStep DEF CountsOK, Grows, Shape, SessionOK, SupRec
<1>3. ASSUME sup' \in SupRec, adapter' \in AdapterRec, sup'.seen = sup.seen
      PROVE  SessionOK'
  BY <1>1, <1>2, <1>3 DEF SessionOK
<1>4. ASSUME sup' \in SupRec, adapter' \in AdapterRec, sup'.seen = [toggles |-> 0, stops |-> 0]
      PROVE  SessionOK'
  BY <1>1, <1>2, <1>4 DEF SessionOK
<1>5. ASSUME sup' \in SupRec, adapter' \in AdapterRec, sup'.seen = Counted
      PROVE  SessionOK'
  BY <1>1, <1>2, <1>5 DEF SessionOK, Counted
<1>6. CASE UNCHANGED <<sup, adapter>>
  BY <1>0, <1>3, <1>6
<1>7. CASE Launch
  <2>1. sup' = [NoSession EXCEPT !.phase = "entry", !.id = starts, !.engine = TRUE] /\ adapter' = adapter
    BY <1>7 DEF Launch
  <2>2. sup' \in SupRec /\ sup'.seen = [toggles |-> 0, stops |-> 0]
    BY <1>0, <2>1, NoSessionTyped DEF NoSession, SupRec
  <2> QED  BY <1>0, <1>4, <2>1, <2>2
<1>8. CASE Stop \/ Reload \/ Quit
  <2>1. (sup' = sup \/ sup' = [sup EXCEPT !.stop = TRUE]) /\ adapter' = adapter
    BY <1>8 DEF Stop, Reload, Quit, Raise
  <2>2. sup' \in SupRec /\ sup'.seen = sup.seen
    BY <1>0, <2>1 DEF SupRec
  <2> QED  BY <1>0, <1>3, <2>1, <2>2
<1>9. CASE HandBack \/ Restart \/ Quitting
  <2>1. sup' = NoSession /\ adapter' = NoAdapter
    BY <1>9 DEF HandBack, Restart, Quitting, Reap
  <2>2. sup'.seen = [toggles |-> 0, stops |-> 0]
    BY <2>1 DEF NoSession
  <2> QED  BY <1>4, <2>1, <2>2, NoSessionTyped
<1>10. CASE TakeBaseline
  <2>1. sup' = [sup EXCEPT !.phase = "plugging", !.seen = Counted] /\ adapter' = adapter
    BY <1>10 DEF TakeBaseline
  <2>2. Counted \in [toggles : Nat, stops : Nat]
    BY <1>2 DEF Counted
  <2>3. sup' \in SupRec /\ sup'.seen = Counted
    BY <1>0, <2>1, <2>2 DEF SupRec
  <2> QED  BY <1>0, <1>5, <2>1, <2>3
<1>11. CASE Refused \/ EngineDies \/ Joined
  <2>1. /\ adapter' = adapter
        /\ \/ sup' = [sup EXCEPT !.phase = "over", !.engine = FALSE]
           \/ sup' = [sup EXCEPT !.engine = FALSE]
    BY <1>11 DEF Refused, EngineDies, Joined
  <2>2. sup' \in SupRec /\ sup'.seen = sup.seen
    BY <1>0, <2>1 DEF SupRec
  <2> QED  BY <1>0, <1>3, <2>1, <2>2
<1>12. CASE Attach
  <2>1. sup' = [sup EXCEPT !.phase = "attaching"] /\ adapter' = [adapter EXCEPT !.attached = TRUE]
    BY <1>12 DEF Attach
  <2>2. sup' \in SupRec /\ sup'.seen = sup.seen /\ adapter' \in AdapterRec
    BY <1>0, <2>1 DEF SupRec, AdapterRec
  <2> QED  BY <1>3, <2>2
<1>13. CASE Run
  <2>1. sup' = [sup EXCEPT !.phase = "running", !.blocking = Blocks]
        /\ adapter' = [adapter EXCEPT !.phase = "loop", !.ctl = <<Capture(Blocks)>>]
    BY <1>13 DEF Run
  <2>2. Blocks \in BOOLEAN /\ Capture(Blocks) \in Modes
    BY PanelAssumption DEF Capture, Modes
  <2>3. <<Capture(Blocks)>> \in Seq(Modes)
    BY <2>2
  <2>4. sup' \in SupRec /\ sup'.seen = sup.seen /\ adapter' \in AdapterRec
    BY <1>0, <2>1, <2>2, <2>3 DEF SupRec, AdapterRec
  <2> QED  BY <1>3, <2>4
<1>14. CASE Polls
  BY <1>5, <1>14, PollFields DEF Polls
<1>15. CASE EndAsked \/ EndItself
  BY <1>3, <1>15, TeardownFields DEF EndAsked, EndItself
<1>16. CASE Adapt \/ PanelLost \/ Detached
  <2>1. sup' = sup
    BY <1>16 DEF Adapt, PanelLost, Detached, Adapter
  <2>2. adapter' \in AdapterRec
    <3>1. CASE Adapt
      <4>1. Tail(adapter.ctl) \in Seq(Modes)
        BY <1>0, <3>1 DEF Adapt, AdapterRec
      <4>2. \/ adapter' = [adapter EXCEPT !.ctl = Tail(adapter.ctl), !.phase = "detaching"]
            \/ adapter' = [adapter EXCEPT !.ctl = Tail(adapter.ctl), !.phase = adapter.phase]
        BY <3>1 DEF Adapt
      <4> QED  BY <1>0, <4>1, <4>2 DEF AdapterRec
    <3>2. CASE PanelLost
      BY <1>0, <3>2 DEF PanelLost, AdapterRec
    <3>3. CASE Detached
      <4>1. <<>> \in Seq(Modes)
        OBVIOUS
      <4>2. adapter' = [adapter EXCEPT !.phase = "done", !.attached = FALSE, !.ctl = <<>>]
        BY <3>3 DEF Detached
      <4> QED  BY <1>0, <4>1, <4>2 DEF AdapterRec
    <3> QED  BY <1>16, <3>1, <3>2, <3>3
  <2> QED  BY <1>0, <1>3, <2>1, <2>2
<1> QED
  BY <1>6, <1>7, <1>8, <1>9, <1>10, <1>11, <1>12, <1>13, <1>14, <1>15, <1>16, UntouchedSession
     DEF Touched, Session, Thread

LEMMA AlwaysShaped == Spec => []Shape
<1>1. Init => Shape
  <2> SUFFICES ASSUME Init PROVE Shape
    OBVIOUS
  <2>1. 0 \in 0 .. MaxStarts /\ 0 \in 0 .. MaxPresses /\ 0 \in 0 .. MaxGestures /\ EventCap \in Nat
    BY PanelAssumption
  <2>2. QueueOK /\ ThreadOK
    BY <2>1 DEF Init, QueueOK, ThreadOK, ThreadRec
  <2>3. KeysOK
    BY <2>1 DEF Init, KeysOK
  <2>4. CountsOK
    BY <2>1 DEF Init, CountsOK, Counted
  <2>5. SessionOK
    BY <2>1, NoSessionTyped DEF Init, SessionOK, NoSession
  <2> QED  BY <2>2, <2>3, <2>4, <2>5 DEF Shape
<1>2. Shape /\ [Next]_vars => Shape'
  BY QueueStep, ThreadStep, KeysStep, CountsStep, SessionStep DEF Shape
<1> QED  BY <1>1, <1>2, PTL DEF Spec

\* The typethrough, its queue, the panel's keys and the session stay well formed
\* for every panel and every bound.
THEOREM TypeCorrect == Spec => []TypeOK
<1>1. Shape => TypeOK
  BY DEF Shape, QueueOK, ThreadOK, ThreadRec, KeysOK, CountsOK, SessionOK, SupRec, AdapterRec, TypeOK
<1> QED  BY <1>1, AlwaysShaped, PTL

-----------------------------------------------------------------------------
(* No key is stuck.                                                         *)

\* A release of key k that the channel still carries after place i.
ReleaseAfter(q, k, i) == \E j \in DOMAIN q : j > i /\ ~q[j].down /\ q[j].key = k

\* What Windows believes held, the thread remembers, or Windows refused its
\* release; what the thread remembers was really typed; a thread that has ended
\* remembers nothing.  While the board is claimed, whatever the thread holds and
\* whatever press it has yet to hear will be let go: a finger is on it, its
\* release is behind it in the channel, or the release was dropped.
Held ==
  /\ windows \subseteq tt.held \union refused
  /\ tt.held \subseteq windows
  /\ ~tt.up => tt.held = {}
  /\ claim =>
       /\ \A k \in tt.held : k \in down \/ k \in lost \/ ReleaseAfter(events, k, 0)
       /\ \A i \in DOMAIN events : events[i].down =>
            LET k == events[i].key IN k \in down \/ k \in lost \/ ReleaseAfter(events, k, i)

\* The part of Held about the channel, for a key.
LEMMA AppendedRelease ==
  ASSUME NEW q \in Seq(Events), NEW e \in Events, NEW k, NEW i \in Nat
  PROVE  /\ ReleaseAfter(q, k, i) => ReleaseAfter(Append(q, e), k, i)
         /\ ~e.down /\ e.key = k /\ i <= Len(q) => ReleaseAfter(Append(q, e), k, i)
<1>1. /\ Append(q, e) \in Seq(Events) /\ Len(Append(q, e)) = Len(q) + 1 /\ Len(q) \in Nat
      /\ \A j \in 1 .. Len(q) : Append(q, e)[j] = q[j]
      /\ Append(q, e)[Len(q) + 1] = e
  OBVIOUS
<1>2. DOMAIN q = 1 .. Len(q) /\ DOMAIN Append(q, e) = 1 .. (Len(q) + 1)
  BY <1>1
<1>3. ReleaseAfter(q, k, i) => ReleaseAfter(Append(q, e), k, i)
  BY <1>1, <1>2 DEF ReleaseAfter
<1>4. ~e.down /\ e.key = k /\ i <= Len(q) => ReleaseAfter(Append(q, e), k, i)
  <2>1. Len(q) + 1 \in DOMAIN Append(q, e) /\ (i <= Len(q) => Len(q) + 1 > i)
    BY <1>1, <1>2
  <2> QED  BY <1>1, <2>1 DEF ReleaseAfter
<1> QED  BY <1>3, <1>4

LEMMA TailRelease ==
  ASSUME NEW q \in Seq(Events), q # <<>>, NEW k, NEW i \in Nat,
         ReleaseAfter(q, k, i), i > 0 \/ Head(q).down \/ Head(q).key # k
  PROVE  ReleaseAfter(Tail(q), k, IF i = 0 THEN 0 ELSE i - 1)
<1>1. PICK j \in DOMAIN q : j > i /\ ~q[j].down /\ q[j].key = k
  BY DEF ReleaseAfter
<1>2. /\ Len(q) \in Nat /\ DOMAIN q = 1 .. Len(q) /\ Len(Tail(q)) = Len(q) - 1
      /\ DOMAIN Tail(q) = 1 .. (Len(q) - 1) /\ Head(q) = q[1]
      /\ \A x \in 1 .. (Len(q) - 1) : Tail(q)[x] = q[x + 1]
  OBVIOUS
<1>3. j # 1
  BY <1>1, <1>2
<1>4. j - 1 \in DOMAIN Tail(q) /\ j - 1 > (IF i = 0 THEN 0 ELSE i - 1) /\ Tail(q)[j - 1] = q[j]
  BY <1>1, <1>2, <1>3
<1> QED  BY <1>1, <1>4 DEF ReleaseAfter

LEMMA LetGoHeld ==
  ASSUME NEW keys, NEW rest, LetGo(keys), windows \subseteq (rest \union keys) \union refused,
         rest \subseteq windows, rest \cap keys = {}
  PROVE  windows' \subseteq rest \union refused' /\ rest \subseteq windows'
BY DEF LetGo

LEMMA PressHeld ==
  ASSUME Shape, Held, NEW k \in Keys, Press(k)
  PROVE  Held'
<1>1. /\ down' = down \union {k} /\ lost' = lost /\ UNCHANGED <<claim, tt, windows, refused>>
      /\ events' = events \/ events' = Append(events, [key |-> k, down |-> TRUE])
  BY DEF Press, Emit
<1> DEFINE e == [key |-> k, down |-> TRUE]
<1>2. e \in Events /\ e.key = k /\ events \in Seq(Events)
  BY DEF Events, Shape, KeysOK
<1>3. CASE events' = events
  BY <1>1, <1>3 DEF Held
<1>4. CASE events' = Append(events, e)
  <2> HIDE DEF e
  <2>1. \A x, i \in Nat : ReleaseAfter(events, x, i) => ReleaseAfter(events', x, i)
    BY <1>2, <1>4, AppendedRelease
  <2>2. \A x : ReleaseAfter(events, x, 0) => ReleaseAfter(events', x, 0)
    BY <1>2, <1>4, AppendedRelease
  <2>3. DOMAIN events' = 1 .. (Len(events) + 1) /\ Len(events) \in Nat
        /\ DOMAIN events = 1 .. Len(events)
        /\ (\A i \in 1 .. Len(events) : events'[i] = events[i]) /\ events'[Len(events) + 1] = e
    BY <1>2, <1>4
  <2>4. ASSUME claim, NEW i \in DOMAIN events', events'[i].down
        PROVE  LET x == events'[i].key IN x \in down' \/ x \in lost' \/ ReleaseAfter(events', x, i)
    <3>1. CASE i = Len(events) + 1
      BY <1>1, <1>2, <2>3, <3>1
    <3>2. CASE i # Len(events) + 1
      <4>1. i \in DOMAIN events /\ events'[i] = events[i] /\ i \in Nat
        BY <2>3, <3>2
      <4>2. ReleaseAfter(events, events[i].key, i) => ReleaseAfter(events', events[i].key, i)
        BY <1>2, <1>4, <4>1, AppendedRelease
      <4> QED  BY <1>1, <2>4, <4>1, <4>2 DEF Held
    <3> QED  BY <3>1, <3>2
  <2> QED  BY <1>1, <2>2, <2>4 DEF Held
<1> QED  BY <1>1, <1>3, <1>4

LEMMA ReleaseHeld ==
  ASSUME Shape, Held, NEW k \in Keys, Release(k)
  PROVE  Held'
<1> DEFINE e == [key |-> k, down |-> FALSE]
<1>1. /\ down' = down \ {k} /\ UNCHANGED <<claim, tt, windows, refused>>
      /\ \/ events' = Append(events, e) /\ lost' = lost \ {k}
         \/ events' = events /\ lost' = lost \union {k}
  BY DEF Release, Emit
<1>2. e \in Events /\ e.key = k /\ ~e.down /\ events \in Seq(Events)
  BY DEF Events, Shape, KeysOK
<1>3. CASE events' = events /\ lost' = lost \union {k}
  BY <1>1, <1>3 DEF Held
<1>4. CASE events' = Append(events, e) /\ lost' = lost \ {k}
  <2> HIDE DEF e
  <2>1. Len(events) \in Nat
    BY <1>2
  <2>2. ASSUME NEW x, NEW i \in Nat, i <= Len(events),
               x \in down \/ x \in lost \/ ReleaseAfter(events, x, i)
        PROVE  x \in down' \/ x \in lost' \/ ReleaseAfter(events', x, i)
    BY <1>1, <1>2, <1>4, <2>2, AppendedRelease
  <2>3. DOMAIN events' = 1 .. (Len(events) + 1) /\ DOMAIN events = 1 .. Len(events)
        /\ (\A i \in 1 .. Len(events) : events'[i] = events[i]) /\ events'[Len(events) + 1] = e
    BY <1>2, <1>4
  <2>4. ASSUME claim, NEW i \in DOMAIN events', events'[i].down
        PROVE  LET x == events'[i].key IN x \in down' \/ x \in lost' \/ ReleaseAfter(events', x, i)
    <3>1. i # Len(events) + 1
      BY <1>2, <2>3, <2>4
    <3>2. i \in DOMAIN events /\ events'[i] = events[i] /\ i \in Nat /\ i <= Len(events)
      BY <2>1, <2>3, <3>1
    <3> QED  BY <2>2, <2>4, <3>2 DEF Held
  <2>5. 0 <= Len(events)
    BY <2>1
  <2>6. ASSUME claim, NEW x \in tt.held
        PROVE  x \in down' \/ x \in lost' \/ ReleaseAfter(events', x, 0)
    BY <2>2, <2>5, <2>6 DEF Held
  <2> QED  BY <1>1, <2>4, <2>6 DEF Held
<1> QED  BY <1>1, <1>3, <1>4

\* A key that is owed a release is still owed one when the head of the channel,
\* not that release, has been heard.
LEMMA OwedAfterHead ==
  ASSUME Shape, events # <<>>, events' = Tail(events), UNCHANGED <<down, lost>>
  PROVE  /\ \A x : /\ x \in down \/ x \in lost \/ ReleaseAfter(events, x, 0)
                   /\ Head(events).down \/ Head(events).key # x
                   => x \in down' \/ x \in lost' \/ ReleaseAfter(events', x, 0)
         /\ \A x : x \in down \/ x \in lost \/ ReleaseAfter(events, x, 1)
                   => x \in down' \/ x \in lost' \/ ReleaseAfter(events', x, 0)
         /\ (\A i \in DOMAIN events : events[i].down =>
               LET k == events[i].key IN k \in down \/ k \in lost \/ ReleaseAfter(events, k, i))
            => \A i \in DOMAIN events' : events'[i].down =>
               LET k == events'[i].key IN k \in down' \/ k \in lost' \/ ReleaseAfter(events', k, i)
<1>1. events \in Seq(Events)
  BY DEF Shape, KeysOK
<1>2. \A x : /\ ReleaseAfter(events, x, 0)
             /\ Head(events).down \/ Head(events).key # x
             => ReleaseAfter(Tail(events), x, 0)
  BY <1>1, TailRelease
<1>3. \A x, i \in Nat : ReleaseAfter(events, x, i) /\ i > 0 => ReleaseAfter(Tail(events), x, i - 1)
  BY <1>1, TailRelease
<1>4. \A x : ReleaseAfter(events, x, 1) => ReleaseAfter(Tail(events), x, 0)
  <2> SUFFICES ASSUME NEW x, ReleaseAfter(events, x, 1) PROVE ReleaseAfter(Tail(events), x, 0)
    OBVIOUS
  <2>1. ReleaseAfter(Tail(events), x, IF 1 = 0 THEN 0 ELSE 1 - 1)
    BY <1>1, TailRelease
  <2> QED  BY <2>1
<1>5. ASSUME \A i \in DOMAIN events : events[i].down =>
               LET k == events[i].key IN k \in down \/ k \in lost \/ ReleaseAfter(events, k, i),
             NEW i \in DOMAIN events', events'[i].down
      PROVE  LET k == events'[i].key IN k \in down' \/ k \in lost' \/ ReleaseAfter(events', k, i)
  <2>1. i \in Nat /\ i + 1 \in DOMAIN events /\ events'[i] = events[i + 1]
    BY <1>1
  <2> DEFINE k == events[i + 1].key
  <2>2. k \in down \/ k \in lost \/ ReleaseAfter(events, k, i + 1)
    BY <1>5, <2>1
  <2>3. ReleaseAfter(events, k, i + 1) => ReleaseAfter(events', k, i)
    <3> HIDE DEF k
    <3>1. SUFFICES ASSUME ReleaseAfter(events, k, i + 1) PROVE ReleaseAfter(Tail(events), k, i)
      OBVIOUS
    <3>2. ReleaseAfter(Tail(events), k, IF i + 1 = 0 THEN 0 ELSE (i + 1) - 1)
      BY <1>1, <2>1, <3>1, TailRelease
    <3> QED  BY <2>1, <3>2
  <2> QED  BY <2>1, <2>2, <2>3
<1> QED  BY <1>2, <1>4, <1>5

LEMMA EventHeld ==
  ASSUME Shape, Held, PumpEvent
  PROVE  Held'
<1> DEFINE t == Mode(Forward(tt))
           e == Head(events)
<1>1. /\ e \in Events /\ events # <<>> /\ events' = Tail(events) /\ tt.up
      /\ \/ (t.emulating \/ (~e.down /\ e.key \notin t.held)) /\ Quietly(t)
         \/ \E taken \in BOOLEAN : Typed(t, e, taken)
  BY EventCases
<1>2. /\ t \in ThreadRec /\ t.up = tt.up
      /\ t.held = IF t.emulating THEN {} ELSE tt.held
  BY Pumped
<1>3. UNCHANGED <<down, lost, claim>>
  BY DEF PumpEvent
<1>4. /\ \A x : /\ x \in down \/ x \in lost \/ ReleaseAfter(events, x, 0)
                /\ e.down \/ e.key # x
                => x \in down' \/ x \in lost' \/ ReleaseAfter(events', x, 0)
      /\ \A x : x \in down \/ x \in lost \/ ReleaseAfter(events, x, 1)
                => x \in down' \/ x \in lost' \/ ReleaseAfter(events', x, 0)
  BY <1>1, <1>3, OwedAfterHead
<1>5. claim' => \A i \in DOMAIN events' : events'[i].down =>
        LET k == events'[i].key IN k \in down' \/ k \in lost' \/ ReleaseAfter(events', k, i)
  BY <1>1, <1>3, OwedAfterHead DEF Held
<1>6. claim /\ e.down => LET x == e.key IN x \in down \/ x \in lost \/ ReleaseAfter(events, x, 1)
  <2>1. 1 \in DOMAIN events /\ e = events[1]
    BY <1>1 DEF Shape, KeysOK
  <2> QED  BY <2>1 DEF Held
<1>7. claim => \A k \in tt.held : k \in down \/ k \in lost \/ ReleaseAfter(events, k, 0)
  BY DEF Held
<1>8. windows \subseteq tt.held \union refused /\ tt.held \subseteq windows
  BY DEF Held
<1> HIDE DEF t, e
<1>9. CASE (t.emulating \/ (~e.down /\ e.key \notin t.held)) /\ Quietly(t)
  <2>1. tt' = t /\ LetGo(tt.held \ t.held)
    BY <1>9 DEF Quietly
  <2>2. windows' \subseteq t.held \union refused' /\ t.held \subseteq windows'
    <3>1. t.held \subseteq tt.held
      BY <1>2
    <3> QED  BY <1>8, <2>1, <3>1, LetGoHeld
  <2>3. \A k \in t.held : k \in tt.held /\ (e.down \/ e.key # k)
    BY <1>2, <1>9
  <2>4. claim' => \A k \in tt'.held : k \in down' \/ k \in lost' \/ ReleaseAfter(events', k, 0)
    BY <1>3, <1>4, <1>7, <2>1, <2>3
  <2> QED  BY <1>1, <1>2, <1>5, <2>1, <2>2, <2>4 DEF Held
<1>10. ASSUME NEW taken \in BOOLEAN, Typed(t, e, taken) PROVE Held'
  <2>1. /\ ~t.emulating /\ tt'.held = Remember(t.held, e.key, e.down, taken)
        /\ tt'.up = t.up /\ t.held = tt.held
    BY <1>1, <1>2, <1>10, TypedThread DEF Typed
  <2>2. windows' \subseteq tt'.held \union refused' /\ tt'.held \subseteq windows'
    BY <1>8, <1>10, <2>1 DEF Typed, Remember
  <2>3. ASSUME claim', NEW k \in tt'.held
        PROVE  k \in down' \/ k \in lost' \/ ReleaseAfter(events', k, 0)
    <3>1. CASE e.down /\ k = e.key
      BY <1>3, <1>4, <1>6, <2>3, <3>1
    <3>2. CASE ~(e.down /\ k = e.key)
      <4>1. k \in tt.held /\ (e.down \/ e.key # k)
        BY <2>1, <2>3, <3>2 DEF Remember
      <4> QED  BY <1>3, <1>4, <1>7, <2>3, <4>1
    <3> QED  BY <3>1, <3>2
  <2> QED  BY <1>1, <1>2, <1>5, <2>1, <2>2, <2>3 DEF Held
<1> QED  BY <1>1, <1>9, <1>10

\* The calls that touch nothing Held speaks of.
LEMMA Elsewhere ==
  ASSUME [Next]_vars
  PROVE  \/ UNCHANGED <<down, events, claim, lost, tt, windows, refused>>
         \/ \E k \in Keys : Press(k) \/ Release(k)
         \/ Unplug \/ Close \/ Pump
<1>1. CASE Toggle \/ EmergencyStop \/ Command \/ (\E client \in Clients : Expire(client))
  BY <1>1 DEF Toggle, EmergencyStop, Command, Start, Stop, Reload, Quit, Raise, Expire, player
<1>2. CASE Launch \/ NotLaunched \/ HandBack \/ Restart \/ Quitting \/ Join
  BY <1>2 DEF Launch, NotLaunched, HandBack, Restart, Quitting, Reap, Join, player
<1>3. CASE Session \/ Thread \/ EndItself \/ EngineDies
  BY <1>3
     DEF Session, TakeBaseline, Refused, Attach, Run, Polls, Poll, EndAsked, Joined, Thread, Adapt,
         PanelLost, Detached, EndItself, EngineDies, Supervise, Adapter, player
<1> QED  BY <1>1, <1>2, <1>3 DEF Next, Player, Control, vars

LEMMA HeldStep == Shape /\ Held /\ [Next]_vars => Held'
<1> SUFFICES ASSUME Shape, Held, [Next]_vars PROVE Held'
  OBVIOUS
<1>1. CASE UNCHANGED <<down, events, claim, lost, tt, windows, refused>>
  BY <1>1 DEF Held, ReleaseAfter
<1>2. CASE \E k \in Keys : Press(k) \/ Release(k)
  BY <1>2, PressHeld, ReleaseHeld
<1>3. CASE Unplug \/ Close
  BY <1>3 DEF Unplug, Close, Held
<1>4. CASE PumpCtl
  <2>1. /\ tt'.up = tt.up /\ tt'.held = IF tt'.emulating THEN {} ELSE tt.held
    BY <1>4, Obeyed
  <2>2. /\ tt.up /\ LetGo(tt.held \ tt'.held)
        /\ UNCHANGED <<down, events, claim, lost>>
    BY <1>4 DEF PumpCtl, player
  <2>3. windows' \subseteq tt'.held \union refused' /\ tt'.held \subseteq windows'
    BY <2>1, <2>2, LetGoHeld DEF Held
  <2>4. tt'.held \subseteq tt.held
    BY <2>1
  <2> QED  BY <2>1, <2>2, <2>3, <2>4 DEF Held, ReleaseAfter
<1>5. CASE PumpEvent
  BY <1>5, EventHeld
<1>6. CASE PumpEnds
  <2>1. /\ tt'.held = {} /\ LetGo(tt.held) /\ UNCHANGED <<down, events, claim, lost>>
    BY <1>6 DEF PumpEnds, EndReleases, player, Shape, ThreadOK, ThreadRec
  <2>2. windows' \subseteq {} \union refused' /\ {} \subseteq windows'
    BY <2>1, LetGoHeld DEF Held
  <2> QED  BY <2>1, <2>2 DEF Held, ReleaseAfter
<1> QED  BY <1>1, <1>2, <1>3, <1>4, <1>5, <1>6, Elsewhere DEF Pump

LEMMA AlwaysHeld == Spec => []Held
<1>1. Init => Held
  BY DEF Init, Held
<1> QED  BY <1>1, HeldStep, AlwaysShaped, PTL DEF Spec

\* Windows never believes a panel key is held unless a finger is on it, its
\* release is on the way or was dropped or refused: while the board is claimed,
\* and after the thread has ended.
THEOREM NoKeyIsEverStuck == Spec => []NoKeyStuck
<1>1. Shape /\ Held => NoKeyStuck
  <2> SUFFICES ASSUME Shape, Held, claim \/ ~tt.up, NEW k \in windows
               PROVE  k \in down \union Coming \union lost \union refused
    BY DEF NoKeyStuck
  <2>1. ReleaseAfter(events, k, 0) => k \in Coming
    BY DEF ReleaseAfter, Coming
  <2>2. k \in tt.held \union refused /\ (~tt.up => tt.held = {})
    BY DEF Held
  <2> QED  BY <2>1, <2>2 DEF Held
<1> QED  BY <1>1, AlwaysShaped, AlwaysHeld, PTL

-----------------------------------------------------------------------------
(* Who has the last word.                                                   *)

\* Where the session, its adapter and the daemon can be together.
Stages ==
  /\ sup.phase \in {"none", "entry", "plugging", "attaching"} => adapter.phase = "off"
  /\ sup.phase = "running" => adapter.phase # "off"
  /\ sup.phase \in {"none", "over"} => ~sup.engine
  /\ pc \in {"start", "closing", "joining", "gone"} => sup.phase = "none"
  /\ pc = "start" => starts > 0
  /\ sup.phase \in {"entry", "plugging", "attaching"} => sup.id > 0

\* Whatever is or will be attached is a session started before the n-th.
Before(t, q, n) ==
  /\ t.session < n
  /\ \A i \in DOMAIN q : q[i].command = "Attach" => q[i].session < n

\* A session that has not attached finds nothing attached under its own name.
Fresh ==
  /\ sup.id <= starts /\ Before(tt, ctl, starts + 1)
  /\ pc = "start" => Before(tt, ctl, starts)
  /\ sup.phase \in {"entry", "plugging"} => Before(tt, ctl, sup.id)

\* From the word that mutes the panel for a start until its adapter speaks.
Muting == pc = "start" \/ sup.phase \in {"entry", "plugging", "attaching"}

\* The session attaches behind the word that muted the panel for it.
AttachLast ==
  sup.phase = "attaching" =>
       /\ tt.session = sup.id => Words = {}
       /\ \A i \in DOMAIN ctl : ctl[i].command = "Attach" /\ ctl[i].session = sup.id
            => \A j \in Words : j < i

\* The adapter has passed on what the supervisor decided, or has it in its queue.
AdapterTold ==
  sup.phase = "running" /\ adapter.phase = "loop" =>
       IF adapter.ctl = <<>> THEN LastWord <=> sup.blocking
       ELSE adapter.ctl[Len(adapter.ctl)] = Capture(sup.blocking)

Told ==
  tt.up =>
    /\ pc = "idle" /\ sup.phase = "none" => ~LastWord
    /\ Muting => LastWord
    /\ AttachLast
    /\ AdapterTold

LEMMA StagesStep == Shape /\ Stages /\ [Next]_vars => Stages'
<1> SUFFICES ASSUME Shape, Stages, [Next]_vars PROVE Stages'
  OBVIOUS
<1>0. sup \in SupRec /\ adapter \in AdapterRec /\ starts \in Nat
  BY PanelAssumption DEF Shape, SessionOK, CountsOK
<1>1. CASE UNCHANGED <<sup, adapter, pc, starts>>
  BY <1>1 DEF Stages
<1>2. CASE UNCHANGED <<sup, adapter, starts>> /\ pc' # "start"
           /\ (pc' \in {"closing", "joining", "gone"} => sup.phase = "none")
  BY <1>2 DEF Stages
<1>3. CASE Start
  BY <1>0, <1>3 DEF Start, Daemon, Stages
<1>4. CASE Launch
  <2>1. /\ sup' = [NoSession EXCEPT !.phase = "entry", !.id = starts, !.engine = TRUE]
        /\ adapter' = adapter /\ pc' = "idle" /\ pc = "start"
    BY <1>4 DEF Launch, Daemon
  <2>2. sup'.phase = "entry" /\ sup'.id = starts
    BY <2>1 DEF NoSession
  <2> QED  BY <2>1, <2>2 DEF Stages
<1>5. CASE Stop \/ Reload \/ Quit
  <2>1. /\ sup' = sup \/ sup' = [sup EXCEPT !.stop = TRUE]
        /\ UNCHANGED <<adapter, starts>> /\ pc' \in {"stopping", "restart", "quitting"}
    BY <1>5 DEF Stop, Reload, Quit, Raise, Daemon, counts
  <2>2. sup'.phase = sup.phase /\ sup'.engine = sup.engine /\ sup'.id = sup.id
    BY <1>0, <2>1 DEF SupRec
  <2> QED  BY <2>1, <2>2 DEF Stages
<1>6. CASE HandBack \/ Restart \/ Quitting
  <2>1. /\ sup' = NoSession /\ adapter' = NoAdapter
        /\ pc' = "start" => starts' = starts + 1
    BY <1>6 DEF HandBack, Restart, Quitting, Reap, Daemon
  <2>2. sup'.phase = "none" /\ ~sup'.engine /\ adapter'.phase = "off"
    BY <2>1 DEF NoSession, NoAdapter
  <2> QED  BY <1>0, <2>1, <2>2 DEF Stages
<1>7. ASSUME sup'.phase # "none", pc' = pc, starts' = starts, sup.phase # "none",
             sup'.phase \in {"entry", "plugging", "attaching"} => sup'.id > 0,
             sup'.phase = "over" => ~sup'.engine,
             sup'.phase \in {"entry", "plugging", "attaching"} => adapter'.phase = "off",
             sup'.phase = "running" => adapter'.phase # "off"
      PROVE  Stages'
  BY <1>7 DEF Stages
<1>8. CASE TakeBaseline \/ Attach
  <2>1. /\ sup.phase \in {"entry", "plugging"} /\ pc' = pc /\ starts' = starts
        /\ \/ sup' = [sup EXCEPT !.phase = "plugging", !.seen = Counted]
           \/ sup' = [sup EXCEPT !.phase = "attaching"]
        /\ adapter' = adapter \/ adapter' = [adapter EXCEPT !.attached = TRUE]
    BY <1>8 DEF TakeBaseline, Attach, Supervise, counts
  <2>2. sup'.phase \in {"plugging", "attaching"} /\ sup'.id = sup.id /\ adapter'.phase = adapter.phase
    BY <1>0, <2>1 DEF SupRec, AdapterRec
  <2> QED  BY <1>7, <2>1, <2>2 DEF Stages
<1>9. CASE Refused \/ Joined
  <2>1. /\ sup.phase \in {"plugging", "ending"} /\ pc' = pc /\ starts' = starts
        /\ sup' = [sup EXCEPT !.phase = "over", !.engine = FALSE]
    BY <1>9 DEF Refused, Joined, Supervise, counts
  <2>2. sup'.phase = "over" /\ ~sup'.engine
    BY <1>0, <2>1 DEF SupRec
  <2> QED  BY <1>7, <2>1, <2>2
<1>10. CASE EngineDies
  <2>1. /\ sup.phase = "running" /\ pc' = pc /\ starts' = starts /\ adapter' = adapter
        /\ sup' = [sup EXCEPT !.engine = FALSE]
    BY <1>10 DEF EngineDies, Supervise, counts
  <2>2. sup'.phase = "running"
    BY <1>0, <2>1 DEF SupRec
  <2> QED  BY <1>7, <2>1, <2>2 DEF Stages
<1>11. CASE Run
  <2>1. /\ sup.phase = "attaching" /\ pc' = pc /\ starts' = starts
        /\ sup' = [sup EXCEPT !.phase = "running", !.blocking = Blocks]
        /\ adapter' = [adapter EXCEPT !.phase = "loop", !.ctl = <<Capture(Blocks)>>]
    BY <1>11 DEF Run, Supervise, counts
  <2>2. sup'.phase = "running" /\ adapter'.phase = "loop"
    BY <1>0, <2>1 DEF SupRec, AdapterRec
  <2> QED  BY <1>7, <2>1, <2>2
<1>12. CASE Polls \/ EndAsked \/ EndItself
  <2>1. sup.phase = "running" /\ pc' = pc /\ starts' = starts
    BY <1>12 DEF Polls, Poll, EndAsked, EndItself, Supervise, counts
  <2>2. sup'.phase \in {"running", "ending"} /\ adapter'.phase = adapter.phase
    BY <1>12, PollFields, TeardownFields DEF Polls, EndAsked, EndItself
  <2> QED  BY <1>7, <2>1, <2>2 DEF Stages
<1>13. CASE Adapt \/ PanelLost \/ Detached
  <2>1. UNCHANGED <<pc, sup, starts>> /\ adapter.phase # "off"
    BY <1>13 DEF Adapt, PanelLost, Detached, Adapter, counts
  <2>2. adapter'.phase \in {adapter.phase, "detaching", "done"}
    <3>1. CASE Adapt
      <4>1. \/ adapter' = [adapter EXCEPT !.ctl = Tail(adapter.ctl), !.phase = "detaching"]
            \/ adapter' = [adapter EXCEPT !.ctl = Tail(adapter.ctl), !.phase = adapter.phase]
        BY <3>1 DEF Adapt
      <4> QED  BY <1>0, <4>1 DEF AdapterRec
    <3> QED  BY <1>0, <1>13, <3>1 DEF PanelLost, Detached, AdapterRec
  <2> QED  BY <1>7, <2>1, <2>2 DEF Stages
<1>14. \/ Touched
       \/ UNCHANGED <<sup, adapter, pc, starts>>
       \/ UNCHANGED <<sup, adapter, starts>> /\ pc' # "start"
          /\ (pc' \in {"closing", "joining", "gone"} => sup.phase = "none")
       \/ Start
  <2>1. CASE Player
    BY <2>1 DEF Player, Press, Release, Toggle, EmergencyStop, Unplug, counts
  <2>2. CASE Pump \/ (\E client \in Clients : Expire(client))
    BY <2>2 DEF Pump, PumpCtl, PumpEvent, PumpEnds, Expire, counts
  <2>3. CASE NotLaunched \/ Close \/ Join
    BY <2>3 DEF NotLaunched, LaunchFails, Close, Join, Daemon, counts, Stages
  <2> QED  BY <2>1, <2>2, <2>3 DEF Next, Command, Control, Touched, vars
<1> QED
  BY <1>1, <1>2, <1>3, <1>4, <1>5, <1>6, <1>8, <1>9, <1>10, <1>11, <1>12, <1>13, <1>14
     DEF Touched, Session, Thread

\* The queue keeps what it says when a sender stops waiting for an answer.
SameQueue ==
  /\ DOMAIN ctl' = DOMAIN ctl
  /\ \A i \in DOMAIN ctl : ctl'[i].command = ctl[i].command /\ ctl'[i].session = ctl[i].session
SameThread == tt'.asked = tt.asked /\ tt'.up = tt.up /\ tt'.session \in {tt.session, 0}

LEMMA SameWord ==
  ASSUME SameQueue, SameThread
  PROVE  Words' = Words /\ (LastWord' <=> LastWord)
<1>1. Words' = Words
  BY DEF SameQueue, Words
<1>2. \A i \in Words : ctl'[i].command = ctl[i].command
  BY DEF SameQueue, Words
<1> QED  BY <1>1, <1>2 DEF SameThread, LastWord

LEMMA ExpireSame ==
  ASSUME Shape, NEW client \in Clients, Expire(client)
  PROVE  SameQueue /\ SameThread
<1>1. \A i \in DOMAIN ctl : ctl[i] \in Messages
  BY DEF Shape, QueueOK
<1>2. ctl' = [i \in DOMAIN ctl |-> IF ctl[i].ack = client
                                   THEN [ctl[i] EXCEPT !.ack = "nobody"] ELSE ctl[i]]
  BY DEF Expire
<1>3. \A m \in Messages : [m EXCEPT !.ack = "nobody"].command = m.command
                          /\ [m EXCEPT !.ack = "nobody"].session = m.session
  BY DEF Messages
<1>4. SameQueue
  BY <1>1, <1>2, <1>3 DEF SameQueue
<1> QED  BY <1>4 DEF Expire, SameThread

LEMMA SentWord ==
  ASSUME Shape, tt.up, NEW client \in Clients \cup {"nobody"}, NEW command \in Commands,
         Send(client, command), tt' = tt
  PROVE  /\ command = "Emulating" => LastWord'
         /\ command = "Typing" => ~LastWord'
         /\ command \notin {"Emulating", "Typing"} => Words' = Words /\ (LastWord' <=> LastWord)
<1> DEFINE m == [command |-> command, ack |-> client, session |-> sup.id]
<1>1. /\ ctl' = Append(ctl, m) /\ ctl \in Seq(Messages) /\ m.command = command
  BY DEF Send, Shape, QueueOK
<1> HIDE DEF m
<1>2. /\ Len(ctl) \in Nat /\ DOMAIN ctl = 1 .. Len(ctl) /\ DOMAIN ctl' = 1 .. (Len(ctl) + 1)
      /\ ctl'[Len(ctl) + 1] = m
      /\ \A i \in 1 .. Len(ctl) : ctl'[i] = ctl[i]
  BY <1>1
<1>3. CASE command \in {"Emulating", "Typing"}
  <2>1. Len(ctl) + 1 \in Words' /\ \A j \in Words' : j \in Nat /\ j <= Len(ctl) + 1
    BY <1>1, <1>2, <1>3 DEF Words
  <2>2. \A i \in Words' : (\A j \in Words' : j <= i) => i = Len(ctl) + 1
    BY <1>2, <2>1
  <2>3. LastWord' <=> ctl'[Len(ctl) + 1].command = "Emulating"
    BY <2>1, <2>2 DEF LastWord
  <2> QED  BY <1>1, <1>2, <1>3, <2>3
<1>4. CASE command \notin {"Emulating", "Typing"}
  <2>1. Words' = Words
    BY <1>1, <1>2, <1>4 DEF Words
  <2>2. \A i \in Words : ctl'[i] = ctl[i]
    BY <1>2 DEF Words
  <2> QED  BY <1>4, <2>1, <2>2 DEF LastWord
<1> QED  BY <1>3, <1>4

\* Hearing a command changes what is asked or shortens the queue, never the last word.
LEMMA HeardWord ==
  ASSUME Shape, PumpCtl
  PROVE  /\ \A i : i \in Words' <=> i \in Nat \ {0} /\ i + 1 \in Words
         /\ LastWord' <=> LastWord
<1>1. ctl \in Seq(Messages) /\ ctl # <<>> /\ ctl' = Tail(ctl)
  BY DEF Shape, QueueOK, PumpCtl
<1>2. tt'.asked = IF Head(ctl).command = "Emulating" THEN TRUE
                  ELSE IF Head(ctl).command = "Typing" THEN FALSE ELSE tt.asked
  BY Obeyed
<1>3. /\ Len(ctl) \in Nat \ {0} /\ DOMAIN ctl = 1 .. Len(ctl) /\ DOMAIN ctl' = 1 .. (Len(ctl) - 1)
      /\ Head(ctl) = ctl[1] /\ \A i \in 1 .. (Len(ctl) - 1) : ctl'[i] = ctl[i + 1]
  BY <1>1
<1>4. \A i : i \in Words' <=> i \in Nat \ {0} /\ i + 1 \in Words
  BY <1>3 DEF Words
<1>5. \A i \in Words : i \in Nat \ {0}
  BY <1>3 DEF Words
<1>6. CASE \E i \in Words : i # 1
  <2>1. Words' # {} /\ Words # {}
    <3>1. PICK i \in Words : i # 1
      BY <1>6
    <3>2. i - 1 \in Nat \ {0} /\ (i - 1) + 1 = i
      BY <1>5, <3>1
    <3> QED  BY <1>4, <3>1, <3>2
  <2>2. ASSUME LastWord PROVE LastWord'
    <3>1. PICK i \in Words : ctl[i].command = "Emulating" /\ \A j \in Words : j <= i
      BY <2>1, <2>2 DEF LastWord
    <3>2. i # 1
      BY <1>5, <1>6, <3>1
    <3>3. /\ i - 1 \in Nat \ {0} /\ (i - 1) + 1 = i /\ i - 1 \in Words'
      BY <1>4, <1>5, <3>1, <3>2
    <3>4. ctl'[i - 1] = ctl[i]
      BY <1>3, <3>3 DEF Words
    <3>5. \A j \in Words' : j <= i - 1
      BY <1>4, <1>5, <3>1
    <3> QED  BY <3>1, <3>3, <3>4, <3>5 DEF LastWord
  <2>3. ASSUME LastWord' PROVE LastWord
    <3>1. PICK i \in Words' : ctl'[i].command = "Emulating" /\ \A j \in Words' : j <= i
      BY <2>1, <2>3 DEF LastWord
    <3>2. i \in Nat \ {0} /\ i + 1 \in Words
      BY <1>4, <3>1
    <3>3. ctl'[i] = ctl[i + 1]
      BY <1>3, <3>1 DEF Words
    <3>4. ASSUME NEW j \in Words PROVE j <= i + 1
      <4>1. CASE j = 1
        BY <3>2, <4>1
      <4>2. CASE j # 1
        <5>1. j - 1 \in Nat \ {0} /\ (j - 1) + 1 = j
          BY <1>5, <4>2
        <5>2. j - 1 \in Words'
          BY <1>4, <5>1
        <5> QED  BY <3>1, <3>2, <5>1, <5>2
      <4> QED  BY <4>1, <4>2
    <3> QED  BY <2>1, <3>1, <3>2, <3>3, <3>4 DEF LastWord
  <2> QED  BY <1>4, <2>2, <2>3
<1>7. CASE Words = {1}
  <2>1. Words' = {}
    BY <1>4, <1>7
  <2>2. LastWord' <=> tt'.asked
    BY <2>1 DEF LastWord
  <2>3. LastWord <=> ctl[1].command = "Emulating"
    BY <1>7 DEF LastWord
  <2>4. ctl[1].command \in {"Emulating", "Typing"}
    BY <1>7 DEF Words
  <2> QED  BY <1>2, <1>3, <1>4, <2>2, <2>3, <2>4
<1>8. CASE Words = {}
  <2>1. Words' = {}
    BY <1>4, <1>8
  <2>2. ctl[1].command \notin {"Emulating", "Typing"}
    BY <1>3, <1>8 DEF Words
  <2>3. tt'.asked = tt.asked
    BY <1>2, <1>3, <2>2
  <2> QED  BY <1>4, <1>8, <2>1, <2>3 DEF LastWord
<1> QED  BY <1>6, <1>7, <1>8

LEMMA EventSame ==
  ASSUME Shape, PumpEvent
  PROVE  SameQueue /\ SameThread
<1> DEFINE t == Mode(Forward(tt))
           e == Head(events)
<1>1. /\ t \in ThreadRec /\ t.up = tt.up /\ t.asked = tt.asked /\ t.session \in {tt.session, 0}
  BY Pumped
<1>2. e \in Events /\ (Quietly(t) \/ \E taken \in BOOLEAN : Typed(t, e, taken))
  BY EventCases
<1> HIDE DEF t, e
<1>3. SameThread
  BY <1>1, <1>2, TypedThread DEF SameThread, Quietly
<1> QED  BY <1>3 DEF SameQueue, PumpEvent

\* A command is sent by nobody while another actor's step is only its own.
Sends(command) == \E client \in Clients \cup {"nobody"} : Send(client, command) /\ tt' = tt

LEMMA QueueMoves ==
  ASSUME Shape, [Next]_vars
  PROVE  \/ SameQueue /\ SameThread
         \/ PumpCtl
         \/ PumpEnds
         \/ Attach /\ Sends("Attach")
         \/ \E command \in Commands \ {"Attach"} : Sends(command)
<1>1. CASE UNCHANGED <<ctl, tt>>
  BY <1>1 DEF SameQueue, SameThread
<1>2. CASE \E client \in Clients : Expire(client)
  BY <1>2, ExpireSame
<1>3. CASE PumpEvent
  BY <1>3, EventSame
<1>4. CASE Start \/ NotLaunched \/ HandBack \/ Restart \/ Quitting \/ Join \/ PanelLost \/ Attach
  BY <1>4 DEF Start, NotLaunched, LaunchFails, HandBack, Restart, Quitting, Join, PanelLost, Attach,
              Reap, Adapter, Supervise, Sends, Clients, Commands
<1>5. CASE Adapt
  <2>1. Head(adapter.ctl) \in Modes
    BY <1>5 DEF Adapt, Shape, SessionOK, AdapterRec
  <2>2. PICK command \in Commands \ {"Attach"} : Send("adapter", command)
    BY <1>5, <2>1, Zenon DEF Adapt, Modes, Commands
  <2>3. tt' = tt
    BY <1>5 DEF Adapt, Adapter
  <2> QED  BY <2>2, <2>3 DEF Sends, Clients
<1>6. CASE Player \/ Stop \/ Reload \/ Quit \/ Launch \/ Close
  BY <1>1, <1>6 DEF Player, Press, Release, Toggle, EmergencyStop, Unplug, Stop, Reload, Quit, Raise,
                    Launch, Close
<1>7. CASE TakeBaseline \/ Refused \/ Run \/ Polls \/ EndAsked \/ Joined \/ Detached
            \/ EndItself \/ EngineDies
  BY <1>1, <1>7 DEF TakeBaseline, Refused, Run, Polls, Poll, EndAsked, Joined, Detached, EndItself,
                    EngineDies, Supervise, Adapter
<1>8. CASE UNCHANGED vars
  BY <1>1, <1>8 DEF vars
<1> QED
  BY <1>2, <1>3, <1>4, <1>5, <1>6, <1>7, <1>8 DEF Next, Pump, Command, Control, Session, Thread

LEMMA BeforeStep ==
  ASSUME Shape, [Next]_vars, NEW n \in Nat \ {0}, Before(tt, ctl, n), Attach => sup.id < n
  PROVE  Before(tt', ctl', n)
<1>0. ctl \in Seq(Messages) /\ tt \in ThreadRec
  BY DEF Shape, QueueOK, ThreadOK
<1>1. CASE SameQueue /\ SameThread
  BY <1>1 DEF SameQueue, SameThread, Before
<1>2. CASE PumpCtl
  <2>1. /\ tt'.session = IF Head(ctl).command = "Attach" THEN Head(ctl).session
                         ELSE IF Head(ctl).command = "Detach" THEN 0 ELSE tt.session
        /\ ctl # <<>>
    BY <1>2, Obeyed
  <2>2. ctl' = Tail(ctl) /\ 1 \in DOMAIN ctl /\ Head(ctl) = ctl[1]
    BY <1>0, <1>2, <2>1 DEF PumpCtl
  <2>3. tt'.session < n
    BY <2>1, <2>2 DEF Before
  <2>4. \A i \in DOMAIN ctl' : i + 1 \in DOMAIN ctl /\ ctl'[i] = ctl[i + 1]
    BY <1>0, <2>1, <2>2
  <2> QED  BY <2>3, <2>4 DEF Before
<1>3. CASE PumpEnds
  BY <1>0, <1>3 DEF PumpEnds, ThreadRec, Before
<1>4. ASSUME NEW command, Sends(command), command = "Attach" => sup.id < n
      PROVE  Before(tt', ctl', n)
  <2>1. PICK client : Send(client, command) /\ tt' = tt
    BY <1>4 DEF Sends
  <2> DEFINE m == [command |-> command, ack |-> client, session |-> sup.id]
  <2>2. (ctl' = ctl \/ ctl' = Append(ctl, m)) /\ m.command = command /\ m.session = sup.id
    BY <2>1 DEF Send
  <2> HIDE DEF m
  <2>3. CASE ctl' = Append(ctl, m)
    <3>1. \A i \in DOMAIN ctl' : (i \in DOMAIN ctl /\ ctl'[i] = ctl[i]) \/ ctl'[i] = m
      <4>0. Len(ctl) \in Nat
        BY <1>0
      <4>1. \A i \in 1 .. (Len(ctl) + 1) : i \in 1 .. Len(ctl) \/ i = Len(ctl) + 1
        BY <4>0
      <4>2. DOMAIN ctl' = 1 .. (Len(ctl) + 1) /\ DOMAIN ctl = 1 .. Len(ctl)
            /\ ctl'[Len(ctl) + 1] = m /\ \A i \in 1 .. Len(ctl) : ctl'[i] = ctl[i]
        BY <1>0, <2>3, <4>0
      <4> QED  BY <4>1, <4>2
    <3> QED  BY <1>4, <2>1, <2>2, <3>1 DEF Before
  <2> QED  BY <2>1, <2>2, <2>3 DEF Before
<1> QED  BY <1>1, <1>2, <1>3, <1>4, QueueMoves

LEMMA FreshStep == Shape /\ Stages /\ Fresh /\ [Next]_vars => Fresh'
<1> SUFFICES ASSUME Shape, Stages, Fresh, [Next]_vars PROVE Fresh'
  OBVIOUS
<1>0. sup \in SupRec /\ adapter \in AdapterRec /\ starts \in Nat /\ sup.id \in Nat
      /\ tt' \in ThreadRec /\ ctl' \in Seq(Messages) /\ tt'.session \in Nat
      /\ \A i \in DOMAIN ctl' : ctl'[i].session \in Nat
  <2>1. tt' \in ThreadRec /\ ctl' \in Seq(Messages)
    BY QueueStep, ThreadStep DEF QueueOK, ThreadOK
  <2>2. \A i \in DOMAIN ctl' : ctl'[i] \in Messages
    BY <2>1
  <2>3. /\ tt'.session \in 0 .. MaxStarts /\ sup.id \in 0 .. MaxStarts /\ starts \in 0 .. MaxStarts
        /\ \A i \in DOMAIN ctl' : ctl'[i].session \in 0 .. MaxStarts
    BY <2>1, <2>2 DEF Shape, SessionOK, CountsOK, SupRec, ThreadRec, Messages
  <2>4. \A x \in 0 .. MaxStarts : x \in Nat
    BY PanelAssumption
  <2> QED  BY <2>1, <2>3, <2>4 DEF Shape, SessionOK
\* The number of the session.
<1>1. \/ sup'.id = sup.id /\ (sup'.phase \in {"entry", "plugging"} =>
                                sup.phase \in {"entry", "plugging"} /\ ~Attach)
      \/ sup'.id = starts /\ pc = "start" /\ starts' = starts
      \/ sup'.id = 0 /\ sup'.phase = "none"
  <2>1. CASE UNCHANGED sup /\ ~Attach
    BY <2>1
  <2>2. CASE Launch
    <3>1. sup'.id = starts
      BY <2>2 DEF Launch, NoSession
    <3> QED  BY <2>2, <3>1 DEF Launch, Daemon, counts
  <2>3. CASE HandBack \/ Restart \/ Quitting
    BY <2>3 DEF HandBack, Restart, Quitting, Reap, NoSession
  <2>4. CASE Stop \/ Reload \/ Quit
    <3>1. (sup' = sup \/ sup' = [sup EXCEPT !.stop = TRUE]) /\ adapter' = adapter /\ pc' # pc
      BY <2>4 DEF Stop, Reload, Quit, Raise, Daemon
    <3> QED  BY <1>0, <3>1 DEF SupRec, Attach, Supervise
  <2>5. CASE TakeBaseline
    <3>1. sup' = [sup EXCEPT !.phase = "plugging", !.seen = Counted] /\ sup.phase = "entry"
      BY <2>5 DEF TakeBaseline, Supervise
    <3> QED  BY <1>0, <3>1 DEF SupRec, Attach, Supervise
  <2>6. CASE Refused \/ Attach \/ Run \/ Joined \/ EngineDies \/ EndAsked \/ EndItself
    <3>1. \/ sup' = [sup EXCEPT !.phase = "over", !.engine = FALSE]
          \/ sup' = [sup EXCEPT !.phase = "attaching"]
          \/ sup' = [sup EXCEPT !.phase = "running", !.blocking = Blocks]
          \/ sup' = [sup EXCEPT !.engine = FALSE] /\ sup.phase = "running"
          \/ sup' = [sup EXCEPT !.phase = "ending"]
      BY <2>6 DEF Refused, Attach, Run, Joined, EngineDies, EndAsked, EndItself, Teardown, Supervise
    <3> QED  BY <1>0, <3>1 DEF SupRec, Attach, Supervise
  <2>7. CASE Polls
    <3>1. sup'.id = sup.id /\ sup'.phase \in {"running", "ending"}
      BY <2>7, PollFields DEF Polls
    <3> QED  BY <3>1
  <2>8. CASE Thread
    BY <2>1, <2>8 DEF Thread, Adapt, PanelLost, Detached, Adapter, Attach, Supervise, Stages
  <2>9. CASE Touched
    BY <2>2, <2>3, <2>4, <2>5, <2>6, <2>7, <2>8, <2>9 DEF Touched, Session
  <2>10. CASE ~Touched
    <3>1. UNCHANGED sup
      BY <2>10, UntouchedSession
    <3> QED  BY <2>1, <2>10, <3>1 DEF Touched, Session
  <2> QED  BY <2>9, <2>10
\* The number of starts.
<1>2. \/ starts' = starts /\ (pc' = "start" => pc = "start")
      \/ starts' = starts + 1
  <2>1. CASE Player \/ Pump \/ (\E client \in Clients : Expire(client))
    BY <2>1 DEF Player, Press, Release, Toggle, EmergencyStop, Unplug, Pump, PumpCtl, PumpEvent,
                PumpEnds, Expire, counts
  <2>2. CASE Command
    BY <2>2 DEF Command, Start, Stop, Reload, Quit, Raise, Daemon, counts
  <2>3. CASE Control
    BY <2>3 DEF Control, Launch, NotLaunched, LaunchFails, HandBack, Restart, Quitting, Close, Join,
                Daemon, counts
  <2>4. CASE Session \/ Thread \/ EndItself \/ EngineDies
    BY <2>4 DEF Session, TakeBaseline, Refused, Attach, Run, Polls, Poll, EndAsked, Joined, Thread,
                Adapt, PanelLost, Detached, EndItself, EngineDies, Supervise, Adapter, counts
  <2> QED  BY <2>1, <2>2, <2>3, <2>4 DEF Next, vars
<1>3. sup'.id <= starts'
  BY <1>0, <1>1, <1>2 DEF Fresh
<1>4. Before(tt', ctl', starts + 1)
  <2>1. starts + 1 \in Nat \ {0} /\ sup.id < starts + 1
    BY <1>0 DEF Fresh
  <2> QED  BY <2>1, BeforeStep DEF Fresh
<1>5. Before(tt', ctl', starts' + 1)
  BY <1>0, <1>2, <1>4 DEF Before
<1>6. pc = "start" => Before(tt', ctl', starts)
  <2> SUFFICES ASSUME pc = "start" PROVE Before(tt', ctl', starts)
    OBVIOUS
  <2>1. starts \in Nat \ {0} /\ ~Attach /\ Before(tt, ctl, starts)
    BY <1>0 DEF Stages, Fresh, Attach, Supervise
  <2> QED  BY <2>1, BeforeStep
<1>7. pc' = "start" => Before(tt', ctl', starts')
  BY <1>2, <1>4, <1>6
<1>8. ASSUME sup'.phase \in {"entry", "plugging"} PROVE Before(tt', ctl', sup'.id)
  <2>1. CASE sup'.id = sup.id /\ sup.phase \in {"entry", "plugging"} /\ ~Attach
    <3>1. sup.id \in Nat \ {0} /\ Before(tt, ctl, sup.id)
      BY <1>0, <2>1 DEF Stages, Fresh
    <3>2. Before(tt', ctl', sup.id)
      BY <2>1, <3>1, BeforeStep
    <3> QED  BY <2>1, <3>2
  <2>2. CASE sup'.id = starts /\ pc = "start"
    BY <1>6, <2>2
  <2> QED  BY <1>1, <1>8, <2>1, <2>2
<1> QED  BY <1>3, <1>5, <1>7, <1>8 DEF Fresh

\* Hearing a command leaves the session's attachment behind the muting word.
LEMMA AttachHeard ==
  ASSUME Shape, Stages, AttachLast, PumpCtl
  PROVE  AttachLast'
<1> SUFFICES ASSUME sup.phase = "attaching"
             PROVE  /\ tt'.session = sup.id => Words' = {}
                    /\ \A i \in DOMAIN ctl' : ctl'[i].command = "Attach" /\ ctl'[i].session = sup.id
                          => \A j \in Words' : j < i
  BY DEF AttachLast, PumpCtl
<1>1. ctl \in Seq(Messages) /\ ctl # <<>> /\ ctl' = Tail(ctl) /\ sup.id # 0
  BY DEF Shape, QueueOK, PumpCtl, Stages
<1>2. /\ Len(ctl) \in Nat \ {0} /\ DOMAIN ctl = 1 .. Len(ctl) /\ DOMAIN ctl' = 1 .. (Len(ctl) - 1)
      /\ Head(ctl) = ctl[1] /\ \A i \in 1 .. (Len(ctl) - 1) : ctl'[i] = ctl[i + 1]
  BY <1>1
<1>3. tt'.session = IF ctl[1].command = "Attach" THEN ctl[1].session
                    ELSE IF ctl[1].command = "Detach" THEN 0 ELSE tt.session
  BY <1>2, Obeyed
<1>4. \A i : i \in Words' <=> i \in Nat \ {0} /\ i + 1 \in Words
  BY HeardWord
<1>5. ASSUME tt'.session = sup.id PROVE Words' = {}
  <2>1. CASE ctl[1].command = "Attach"
    <3>1. 1 \in DOMAIN ctl /\ ctl[1].session = sup.id
      BY <1>2, <1>3, <1>5, <2>1
    <3>2. \A j \in Words : j < 1
      BY <2>1, <3>1 DEF AttachLast
    <3> QED  BY <1>4, <3>2
  <2>2. CASE ctl[1].command # "Attach"
    <3>1. tt.session = sup.id
      BY <1>1, <1>3, <1>5, <2>2
    <3>2. Words = {}
      BY <3>1 DEF AttachLast
    <3> QED  BY <1>4, <3>2
  <2> QED  BY <2>1, <2>2
<1>6. ASSUME NEW i \in DOMAIN ctl', ctl'[i].command = "Attach", ctl'[i].session = sup.id,
             NEW j \in Words'
      PROVE  j < i
  <2>1. i + 1 \in DOMAIN ctl /\ ctl[i + 1] = ctl'[i] /\ i \in Nat
    BY <1>2
  <2>2. j + 1 \in Words /\ j \in Nat
    BY <1>4
  <2>3. j + 1 < i + 1
    BY <1>6, <2>1, <2>2 DEF AttachLast
  <2> QED  BY <2>1, <2>2, <2>3
<1> QED  BY <1>5, <1>6

\* The session attaches: its command is the last in the queue.
LEMMA AttachTold ==
  ASSUME Shape, Stages, Fresh, Told, Attach, tt.up
  PROVE  LastWord' /\ AttachLast' /\ sup'.phase = "attaching"
<1>1. /\ sup.phase = "plugging" /\ sup' = [sup EXCEPT !.phase = "attaching"] /\ tt' = tt
      /\ Send("session", "Attach")
  BY DEF Attach, Supervise
<1>2. sup'.id = sup.id /\ sup'.phase = "attaching"
  BY <1>1 DEF Shape, SessionOK, SupRec
<1>3. Words' = Words /\ (LastWord' <=> LastWord)
  BY <1>1, SentWord DEF Clients, Commands
<1>4. LastWord /\ Before(tt, ctl, sup.id)
  BY <1>1 DEF Told, Muting, Fresh
<1> DEFINE m == [command |-> "Attach", ack |-> "session", session |-> sup.id]
<1>5. ctl' = Append(ctl, m) /\ ctl \in Seq(Messages)
  BY <1>1 DEF Send, Shape, QueueOK
<1> HIDE DEF m
<1>6. /\ Len(ctl) \in Nat /\ DOMAIN ctl = 1 .. Len(ctl) /\ DOMAIN ctl' = 1 .. (Len(ctl) + 1)
      /\ \A i \in 1 .. Len(ctl) : ctl'[i] = ctl[i]
  BY <1>5
<1>7. tt'.session # sup.id /\ sup.id \in Nat
  <2>1. sup.id \in 0 .. MaxStarts /\ tt.session \in 0 .. MaxStarts
    BY DEF Shape, SessionOK, SupRec, ThreadOK, ThreadRec
  <2> QED  BY <1>1, <1>4, <2>1, PanelAssumption DEF Before
<1>8. ASSUME NEW i \in DOMAIN ctl', ctl'[i].command = "Attach", ctl'[i].session = sup.id,
             NEW j \in Words
      PROVE  j < i
  <2>1. i \notin DOMAIN ctl
    BY <1>4, <1>6, <1>7, <1>8 DEF Before
  <2> QED  BY <1>6, <2>1 DEF Words
<1> QED  BY <1>2, <1>3, <1>4, <1>7, <1>8 DEF AttachLast

\* The adapter passes on the oldest of what it was told.
LEMMA AdaptTold ==
  ASSUME Shape, AdapterTold, Adapt, tt.up
  PROVE  AdapterTold'
<1> SUFFICES ASSUME sup.phase = "running", adapter'.phase = "loop"
             PROVE  IF adapter'.ctl = <<>> THEN LastWord' <=> sup.blocking
                    ELSE adapter'.ctl[Len(adapter'.ctl)] = Capture(sup.blocking)
  BY DEF AdapterTold, Adapt, Adapter
<1> DEFINE q == adapter.ctl
           m == Head(q)
<1>1. /\ adapter \in AdapterRec /\ q \in Seq(Modes) /\ q # <<>> /\ adapter.phase = "loop"
      /\ tt' = tt /\ sup.blocking \in BOOLEAN
  BY DEF Adapt, Adapter, Shape, SessionOK, AdapterRec, SupRec
<1>2. q[Len(q)] = Capture(sup.blocking)
  BY <1>1 DEF AdapterTold
<1>3. adapter'.ctl = Tail(q)
  <2>1. \/ adapter' = [adapter EXCEPT !.ctl = Tail(q), !.phase = "detaching"]
        \/ adapter' = [adapter EXCEPT !.ctl = Tail(q), !.phase = adapter.phase]
    BY DEF Adapt
  <2> QED  BY <1>1, <2>1 DEF AdapterRec
<1>4. Send("adapter", CASE m = "SetCaptured" -> "Emulating"
                        [] m = "SetPassthrough" -> "Typing"
                        [] m = "Shutdown" -> "Detach")
  BY DEF Adapt
<1> HIDE DEF q
<1>5. /\ Len(q) \in Nat \ {0} /\ Len(Tail(q)) = Len(q) - 1 /\ Head(q) = q[1]
      /\ \A i \in 1 .. (Len(q) - 1) : Tail(q)[i] = q[i + 1]
      /\ Tail(q) \in Seq(Modes)
  BY ONLY <1>1
<1>8. Tail(q) = <<>> => Len(q) = 1
  <2> SUFFICES ASSUME Tail(q) = <<>> PROVE Len(q) = 1
    OBVIOUS
  <2>1. Len(Tail(q)) = 0
    BY EmptySeq
  <2>2. Len(q) \in Nat /\ Len(q) - 1 = 0
    BY ONLY <1>5, <2>1
  <2> QED  BY ONLY <2>2
<1>9. Tail(q) # <<>> => Len(Tail(q)) \in 1 .. (Len(q) - 1)
  BY <1>5
<1>6. CASE Tail(q) # <<>>
  <2>1. Tail(q)[Len(Tail(q))] = q[Len(q)]
    BY <1>5, <1>6, <1>9
  <2> QED  BY <1>2, <1>3, <1>6, <2>1
<1>7. CASE Tail(q) = <<>>
  <2>1. m = Capture(sup.blocking)
    BY <1>2, <1>5, <1>7, <1>8
  <2> HIDE DEF m
  <2>2. CASE sup.blocking
    <3>1. Send("adapter", "Emulating")
      BY <1>4, <2>1, <2>2 DEF Capture
    <3>2. LastWord'
      BY <1>1, <3>1, SentWord DEF Clients, Commands
    <3> QED  BY <1>3, <1>7, <2>2, <3>2
  <2>3. CASE ~sup.blocking
    <3>1. Send("adapter", "Typing")
      BY <1>4, <2>1, <2>3 DEF Capture
    <3>2. ~LastWord'
      BY <1>1, <3>1, SentWord DEF Clients, Commands
    <3> QED  BY <1>3, <1>7, <2>3, <3>2
  <2> QED  BY <1>1, <2>2, <2>3
<1> QED  BY <1>6, <1>7

\* New gestures: the last of what the adapter is told is where blocking ends up.
LEMMA PollTold ==
  ASSUME Shape, Poll
  PROVE  AdapterTold'
<1> SUFFICES ASSUME sup'.phase = "running"
             PROVE  adapter'.ctl # <<>> /\ adapter'.ctl[Len(adapter'.ctl)] = Capture(sup'.blocking)
  BY DEF AdapterTold
<1> DEFINE n == escape.toggles - sup.seen.toggles
           q == adapter.ctl
           M == Mirror(sup.blocking, n)
<1>1. /\ n \in Nat \ {0} /\ adapter'.ctl = q \o M
      /\ sup'.blocking = IF n % 2 = 1 THEN ~sup.blocking ELSE sup.blocking
  BY PollFields
<1>2. q \in Seq(Modes) /\ sup.blocking \in BOOLEAN
  BY DEF Shape, SessionOK, AdapterRec, SupRec
<1> HIDE DEF n, q
<1>3. M \in Seq(Modes) /\ Len(M) = n /\ M[n] = Capture(sup'.blocking)
  BY <1>1, <1>2, MirrorModes
<1> HIDE DEF M
<1>4. Len(q \o M) = Len(q) + n /\ Len(q) \in Nat
  <2>1. Len(q \o M) = Len(q) + Len(M)
    BY <1>2, <1>3
  <2> QED  BY <1>2, <1>3, <2>1
<1>5. (q \o M)[Len(q) + n] = M[(Len(q) + n) - Len(q)] /\ (Len(q) + n) - Len(q) = n
  <2>1. Len(q) + n \in 1 .. Len(q) + Len(M) /\ ~(Len(q) + n <= Len(q))
    BY <1>1, <1>3, <1>4
  <2> QED  BY <1>1, <1>2, <1>3, <1>4, <2>1, ConcatProperties
<1>6. q \o M # <<>>
  <2>1. Len(q \o M) # 0
    BY <1>1, <1>4
  <2> QED  BY <2>1
<1> QED  BY <1>1, <1>3, <1>4, <1>5, <1>6

LEMMA ToldStep == Shape /\ Stages /\ Fresh /\ Told /\ [Next]_vars => Told'
<1> SUFFICES ASSUME Shape, Stages, Fresh, Told, [Next]_vars, tt'.up
             PROVE  /\ pc' = "idle" /\ sup'.phase = "none" => ~LastWord'
                    /\ Muting' => LastWord'
                    /\ AttachLast' /\ AdapterTold'
  BY DEF Told
<1> DEFINE Goal == /\ pc' = "idle" /\ sup'.phase = "none" => ~LastWord'
                   /\ Muting' => LastWord'
                   /\ AttachLast' /\ AdapterTold'
<1>0. /\ sup \in SupRec /\ adapter \in AdapterRec
      /\ tt.up
  <2>1. ~PumpEnds
    BY DEF PumpEnds, Shape, ThreadOK, ThreadRec
  <2>2. PumpCtl => tt'.up = tt.up
    BY Obeyed
  <2>3. tt'.up = tt.up
    BY <2>1, <2>2, QueueMoves DEF SameThread, Sends
  <2> QED  BY <2>3 DEF Shape, SessionOK
<1>1. /\ pc = "idle" /\ sup.phase = "none" => ~LastWord
      /\ Muting => LastWord
      /\ AttachLast /\ AdapterTold
  BY <1>0 DEF Told
<1>2. CASE SameQueue /\ SameThread /\ UNCHANGED <<sup, adapter, pc>>
  <2>1. Words' = Words /\ (LastWord' <=> LastWord)
    BY <1>2, SameWord
  <2>2. AttachLast'
    BY <1>1, <1>2, <2>1 DEF AttachLast, SameQueue, SameThread, Stages
  <2> QED  BY <1>1, <1>2, <2>1, <2>2 DEF Muting, AdapterTold
<1>3. CASE PumpCtl
  <2>1. LastWord' <=> LastWord
    BY <1>3, HeardWord
  <2>2. UNCHANGED <<sup, adapter, pc>>
    BY <1>3 DEF PumpCtl
  <2>3. AttachLast'
    BY <1>1, <1>3, AttachHeard
  <2> QED  BY <1>1, <2>1, <2>2, <2>3 DEF Muting, AdapterTold
\* With the session gone, or on its way out, only the daemon's word is left.
<1>4. ASSUME sup'.phase \in {"none", "ending", "over"},
             pc' = "idle" /\ sup'.phase = "none" => ~LastWord', pc' = "start" => LastWord'
      PROVE  Goal
  BY <1>4 DEF Muting, AttachLast, AdapterTold
<1>5. CASE Start \/ Restart
  <2>1. Send("daemon", "Emulating") /\ tt' = tt /\ pc' = "start"
    BY <1>5 DEF Start, Restart, Reap, Daemon
  <2>2. sup'.phase = "none"
    BY <1>5 DEF Start, Restart, Reap, NoSession
  <2> QED  BY <1>0, <1>4, <2>1, <2>2, SentWord DEF Clients, Commands
<1>6. CASE NotLaunched \/ HandBack \/ Quitting
  <2>1. Send("daemon", "Typing") /\ tt' = tt /\ pc' # "start"
    BY <1>6 DEF NotLaunched, LaunchFails, HandBack, Quitting, Reap, Daemon
  <2>2. sup'.phase = "none"
    BY <1>6 DEF NotLaunched, LaunchFails, HandBack, Quitting, Reap, Daemon, NoSession, Stages
  <2> QED  BY <1>0, <1>4, <2>1, <2>2, SentWord DEF Clients, Commands
<1>7. CASE Close \/ Join
  BY <1>4, <1>7 DEF Close, Join, Daemon, Stages
<1>8. CASE Stop \/ Reload \/ Quit
  <2>1. /\ sup' = sup \/ sup' = [sup EXCEPT !.stop = TRUE]
        /\ UNCHANGED <<adapter, ctl, tt>> /\ pc' \in {"stopping", "restart", "quitting"}
        /\ pc = "idle"
    BY <1>8 DEF Stop, Reload, Quit, Raise, Daemon
  <2>2. sup'.phase = sup.phase /\ sup'.id = sup.id /\ sup'.blocking = sup.blocking
    BY <1>0, <2>1 DEF SupRec
  <2> QED  BY <1>1, <2>1, <2>2 DEF Muting, AttachLast, AdapterTold, LastWord, Words
<1>9. CASE Launch
  <2>1. /\ sup' = [NoSession EXCEPT !.phase = "entry", !.id = starts, !.engine = TRUE]
        /\ UNCHANGED <<ctl, tt>> /\ pc = "start"
    BY <1>9 DEF Launch, Daemon
  <2>2. sup'.phase = "entry" /\ LastWord
    BY <1>1, <2>1 DEF NoSession, Muting
  <2> QED  BY <2>1, <2>2 DEF Muting, AttachLast, AdapterTold, LastWord, Words
<1>10. CASE TakeBaseline
  <2>1. /\ sup' = [sup EXCEPT !.phase = "plugging", !.seen = Counted]
        /\ UNCHANGED <<ctl, tt>> /\ sup.phase = "entry"
    BY <1>10 DEF TakeBaseline, Supervise
  <2>2. sup'.phase = "plugging" /\ LastWord
    BY <1>0, <1>1, <2>1 DEF SupRec, Muting
  <2> QED  BY <2>1, <2>2 DEF Muting, AttachLast, AdapterTold, LastWord, Words
<1>11. CASE Attach
  <2>1. LastWord' /\ AttachLast' /\ sup'.phase = "attaching"
    BY <1>0, <1>11, AttachTold
  <2> QED  BY <2>1 DEF AdapterTold
<1>12. CASE Run
  <2>1. /\ sup.phase = "attaching" /\ pc' = pc
        /\ sup' = [sup EXCEPT !.phase = "running", !.blocking = Blocks]
        /\ adapter' = [adapter EXCEPT !.phase = "loop", !.ctl = <<Capture(Blocks)>>]
    BY <1>12 DEF Run, Supervise
  <2>2. sup'.phase = "running" /\ sup'.blocking = Blocks /\ adapter'.ctl = <<Capture(Blocks)>>
    BY <1>0, <2>1 DEF SupRec, AdapterRec
  <2>3. pc' # "start"
    BY <2>1 DEF Stages
  <2>4. AdapterTold'
    BY <2>2 DEF AdapterTold
  <2> QED  BY <2>2, <2>3, <2>4 DEF Muting, AttachLast
<1>13. CASE Polls
  <2>1. sup'.phase \in {"running", "ending"} /\ pc' = pc /\ sup.phase = "running"
    BY <1>13, PollFields DEF Polls, Poll, Supervise
  <2>2. AdapterTold'
    BY <1>13, PollTold DEF Polls
  <2> QED  BY <2>1, <2>2 DEF Muting, AttachLast, Stages
<1>14. CASE EndAsked \/ EndItself \/ Refused \/ Joined
  <2>1. pc' = pc /\ sup.phase # "none"
    BY <1>14 DEF EndAsked, EndItself, Refused, Joined, Supervise
  <2>2. sup'.phase \in {"ending", "over"}
    BY <1>0, <1>14 DEF EndAsked, EndItself, Refused, Joined, Teardown, SupRec
  <2> QED  BY <1>4, <2>1, <2>2 DEF Stages
<1>15. CASE EngineDies
  <2>1. sup' = [sup EXCEPT !.engine = FALSE] /\ UNCHANGED <<ctl, adapter, tt, pc>>
    BY <1>15 DEF EngineDies, Supervise
  <2>2. sup'.phase = sup.phase /\ sup'.id = sup.id /\ sup'.blocking = sup.blocking
    BY <1>0, <2>1 DEF SupRec
  <2> QED  BY <1>1, <2>1, <2>2 DEF Muting, AttachLast, AdapterTold, LastWord, Words
<1>16. CASE Adapt \/ PanelLost \/ Detached
  <2>1. UNCHANGED <<sup, pc>> /\ adapter.phase # "off"
    BY <1>16 DEF Adapt, PanelLost, Detached, Adapter
  <2>2. sup.phase \notin {"none", "entry", "plugging", "attaching"} /\ pc # "start"
    BY <2>1 DEF Stages
  <2>3. AdapterTold'
    <3>1. CASE Adapt
      BY <1>0, <1>1, <3>1, AdaptTold
    <3>2. CASE PanelLost \/ Detached
      BY <1>0, <3>2 DEF PanelLost, Detached, AdapterRec, AdapterTold
    <3> QED  BY <1>16, <3>1, <3>2
  <2> QED  BY <2>1, <2>2, <2>3 DEF Muting, AttachLast
<1>17. CASE Player
  <2>1. UNCHANGED <<ctl, tt, sup, adapter, pc>>
    BY <1>17 DEF Player, Press, Release, Toggle, EmergencyStop, Unplug
  <2> QED  BY <1>2, <2>1 DEF SameQueue, SameThread
<1>18. CASE PumpEvent \/ (\E client \in Clients : Expire(client))
  <2>1. UNCHANGED <<sup, adapter, pc>>
    BY <1>18 DEF PumpEvent, Expire
  <2>2. SameQueue /\ SameThread
    BY <1>18, EventSame, ExpireSame
  <2> QED  BY <1>2, <2>1, <2>2
<1>19. CASE UNCHANGED vars
  BY <1>2, <1>19 DEF vars, SameQueue, SameThread
<1>20. ~PumpEnds
  BY DEF PumpEnds, Shape, ThreadOK, ThreadRec
<1> QED
  BY <1>3, <1>5, <1>6, <1>7, <1>8, <1>9, <1>10, <1>11, <1>12, <1>13, <1>14, <1>15, <1>16, <1>17,
     <1>18, <1>19, <1>20 DEF Next, Pump, Command, Control, Session, Thread

LEMMA AlwaysTold == Spec => [](Stages /\ Fresh /\ Told)
<1>1. Init => Stages /\ Fresh /\ Told
  <2> SUFFICES ASSUME Init PROVE Stages /\ Fresh /\ Told
    OBVIOUS
  <2>1. sup.phase = "none" /\ ~sup.engine /\ adapter.phase = "off" /\ sup.id = 0
    BY DEF Init, NoSession, NoAdapter
  <2>2. Stages
    BY <2>1 DEF Init, Stages
  <2>3. Fresh
    BY <2>1 DEF Init, Fresh, Before
  <2>4. Told
    BY <2>1 DEF Init, Told, Muting, AttachLast, AdapterTold, LastWord, Words
  <2> QED  BY <2>2, <2>3, <2>4
<1>2. Shape /\ Stages /\ Fresh /\ Told /\ [Next]_vars => (Stages /\ Fresh /\ Told)'
  BY StagesStep, FreshStep, ToldStep
<1> QED  BY <1>1, <1>2, AlwaysShaped, PTL DEF Spec

\* With no session and nothing in hand the panel is a keyboard, or the word that
\* makes it one is the last in the queue: no failed start, no session that ended
\* on its own and no late acknowledgement leaves a panel muted for nobody.
THEOREM IdlePanelTypes == Spec => []IdleMeansTyping
<1>1. Told => IdleMeansTyping
  BY DEF Told, IdleMeansTyping
<1> QED  BY <1>1, AlwaysTold, PTL

\* Only a press the thread was not muted for is typed.
LEMMA TypesWhenHeard ==
  ASSUME Shape, Held, [Next]_vars, Types
  PROVE  PumpEvent /\ tt.up /\ (escape.latch \/ ~tt.asked)
<1>0. tt.held \subseteq windows /\ windows' \ windows # {}
  BY DEF Held, Types
<1>1. ASSUME NEW keys, keys \subseteq tt.held, LetGo(keys) PROVE FALSE
  BY <1>0, <1>1 DEF LetGo
<1>2. ~PumpCtl /\ ~PumpEnds
  <2>1. ASSUME PumpCtl PROVE FALSE
    BY <1>1, <2>1 DEF PumpCtl
  <2>2. ASSUME PumpEnds PROVE FALSE
    BY <1>1, <2>2 DEF PumpEnds, EndReleases
  <2> QED  BY <2>1, <2>2
<1>3. PumpEvent
  BY <1>0, <1>2, Elsewhere DEF Pump, Press, Release, Unplug, Close
<1> DEFINE t == Mode(Forward(tt))
           e == Head(events)
<1>4. /\ tt.up
      /\ \/ Quietly(t)
         \/ \E taken \in BOOLEAN : Typed(t, e, taken)
  BY <1>3, EventCases
<1>5. ~Quietly(t)
  BY <1>1 DEF Quietly
<1>6. ~t.emulating
  BY <1>4, <1>5 DEF Typed
<1>7. t.emulating <=> tt.asked /\ ~escape.latch
  BY Pumped
<1> QED  BY <1>3, <1>4, <1>6, <1>7

\* A press that reaches the engine is not also typed: from the moment the session
\* hears the panel until it lets go, the thread is muted, or the escape latch is
\* up, or blocking is off or on its way back on.  No acknowledgement has to be in time.
THEOREM NothingIsTypedTwice == Spec => NoDouble
<1>1. Shape /\ Held /\ Stages /\ Fresh /\ Told /\ [Next]_vars =>
        [Types /\ Hears(tt) =>
          \/ escape.latch
          \/ Leaving
          \/ sup.phase = "running" /\ (~sup.blocking \/ Rearming)]_vars
  <2> SUFFICES ASSUME Shape, Held, Stages, Fresh, Told, [Next]_vars, Types, Hears(tt),
                      ~escape.latch, ~Leaving
               PROVE  sup.phase = "running" /\ (~sup.blocking \/ Rearming)
    OBVIOUS
  <2>1. tt.up /\ ~tt.asked
    BY TypesWhenHeard
  <2>2. /\ sup.phase \in {"entry", "plugging", "attaching", "running"}
        /\ adapter.phase \in {"off", "loop"}
        /\ tt.session = sup.id
    BY DEF Hears, Leaving, Stages, Shape, SessionOK, SupRec, AdapterRec
  <2>3. CASE sup.phase = "attaching"
    <3>1. Words = {} /\ LastWord
      BY <2>1, <2>2, <2>3 DEF Told, Muting, AttachLast
    <3> QED  BY <2>1, <3>1 DEF LastWord
  <2>4. CASE sup.phase = "running"
    <3> SUFFICES ASSUME sup.blocking, ~Rearming PROVE FALSE
      BY <2>4
    <3>1. adapter.phase = "loop" /\ adapter.ctl \in Seq(Modes)
      BY <2>2, <2>4 DEF Stages, Shape, SessionOK, AdapterRec
    <3>2. CASE adapter.ctl = <<>>
      <4>1. LastWord
        BY <2>1, <2>4, <3>1, <3>2 DEF Told, AdapterTold
      <4>2. Words # {}
        BY <2>1, <4>1 DEF LastWord
      <4>3. \E i \in Words : ctl[i].command = "Emulating"
        BY <4>1, <4>2 DEF LastWord
      <4> QED  BY <4>3 DEF Rearming, Words
    <3>3. CASE adapter.ctl # <<>>
      <4>1. adapter.ctl[Len(adapter.ctl)] = "SetCaptured"
        BY <2>1, <2>4, <3>1, <3>3 DEF Told, AdapterTold, Capture
      <4>2. Len(adapter.ctl) \in DOMAIN adapter.ctl
        BY <3>1, <3>3
      <4> QED  BY <4>1, <4>2 DEF Rearming
    <3> QED  BY <3>2, <3>3
  <2>5. CASE sup.phase \in {"entry", "plugging"}
    <3>1. tt.session < sup.id /\ sup.id \in Nat
      BY <2>5, PanelAssumption DEF Fresh, Before, Shape, SessionOK, SupRec
    <3> QED  BY <2>2, <3>1
  <2> QED  BY <2>2, <2>3, <2>4, <2>5
<1> QED  BY <1>1, AlwaysShaped, AlwaysHeld, AlwaysTold, PTL DEF Spec, NoDouble
=============================================================================
