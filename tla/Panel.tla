------------------------------- MODULE Panel -------------------------------
(***************************************************************************)
(* Who owns the keys of a claimed arcade panel.  Windows cannot see the     *)
(* board, so whatever it types goes through one thread, the typethrough,    *)
(* which is told by two others whether the panel is a keyboard or a         *)
(* gamepad: the daemon's control loop (around a session) and the session's  *)
(* capture adapter (within one).  A third voice is the escape latch, set by *)
(* the capture thread without asking anybody.                               *)
(*                                                                          *)
(*   daemon/panel.rs, daemon/typethrough.rs   Panel, PanelSession, pump     *)
(*   daemon/mod.rs                            control_loop_with, restart    *)
(*   run/supervisor.rs                        the session's own thread      *)
(*   ksx-platform/src/inject.rs               Typethrough                   *)
(***************************************************************************)
EXTENDS Naturals, Sequences

CONSTANTS
    Keys,           \* the keys of the panel
    EventCap,       \* EVENT_CHANNEL_CAPACITY of the claim -> typethrough channel
    Blocks,         \* the plan blocks keyboards (block_keyboards)
    StrokesFail,    \* SendInput may be refused (UIPI, the secure desktop)
    AcksExpire,     \* the typethrough may be slower than ACK_TIMEOUT
    MaxPresses,     \* bound: key presses
    MaxGestures,    \* bound: escape gestures
    MaxStarts       \* bound: attempts to start a session

ASSUME PanelAssumption ==
    /\ EventCap \in Nat \ {0}
    /\ {Blocks, StrokesFail, AcksExpire} \subseteq BOOLEAN
    /\ {MaxPresses, MaxGestures, MaxStarts} \subseteq Nat

VARIABLES
    down,       \* the keys a finger is on
    events,     \* the claim -> typethrough channel
    claim,      \* the claim's capture thread is alive
    escape,     \* EscapeHandle: the latch and the two counters
    ctl,        \* the typethrough's command queue
    tt,         \* the typethrough thread: asked mode, effective mode, held, session
    windows,    \* what Windows believes is held because of us
    pc,         \* where the daemon's control loop is
    sup,        \* the session's supervisor
    adapter,    \* the session's capture adapter: its thread and its queue
    lost,       \* history: keys whose last release was dropped at a full channel
    refused,    \* history: keys whose last release Windows refused
    muted,      \* history: the escape counters when the panel was last muted for a start
    presses, gestures, starts

vars == <<down, events, claim, escape, ctl, tt, windows, pc, sup, adapter, lost,
          refused, muted, presses, gestures, starts>>
player == <<down, events, presses>>
counts == <<gestures, starts>>

----------------------------------------------------------------------------
Events == [key : Keys, down : BOOLEAN]
Clients == {"daemon", "session", "adapter"}
Commands == {"Emulating", "Typing", "Attach", "Detach", "Shutdown"}
Messages == [command : Commands, ack : Clients \union {"nobody"}, session : 0 .. MaxStarts]
Counters == [toggles : 0 .. MaxGestures, stops : 0 .. MaxGestures]
Modes == {"SetCaptured", "SetPassthrough", "Shutdown"}

NoSession == [phase |-> "none", id |-> 0, stop |-> FALSE, blocking |-> FALSE,
              engine |-> FALSE, seen |-> [toggles |-> 0, stops |-> 0]]
NoAdapter == [phase |-> "off", attached |-> FALSE, ctl |-> <<>>]
Counted == [toggles |-> escape.toggles, stops |-> escape.stops]

Init ==
    /\ down = {} /\ events = <<>> /\ claim = TRUE
    /\ escape = [latch |-> FALSE, toggles |-> 0, stops |-> 0]
    /\ ctl = <<>>
    /\ tt = [asked |-> FALSE, emulating |-> FALSE, held |-> {}, session |-> 0, up |-> TRUE]
    /\ windows = {} /\ lost = {} /\ refused = {}
    /\ pc = "idle" /\ sup = NoSession /\ adapter = NoAdapter
    /\ muted = Counted
    /\ presses = 0 /\ gestures = 0 /\ starts = 0

----------------------------------------------------------------------------
(* TypethroughCtl::send: queue the command, then wait for the acknowledgement *)

Waiting(client) == \E i \in DOMAIN ctl : ctl[i].ack = client

Send(client, command) ==
    ctl' = IF tt.up THEN Append(ctl, [command |-> command, ack |-> client,
                                            session |-> sup.id]) ELSE ctl

\* After ACK_TIMEOUT the sender goes on; its message stays where it is.
Expire(client) ==
    /\ AcksExpire /\ Waiting(client)
    /\ ctl' = [i \in DOMAIN ctl |-> IF ctl[i].ack = client
                                    THEN [ctl[i] EXCEPT !.ack = "nobody"] ELSE ctl[i]]
    /\ UNCHANGED <<player, claim, escape, tt, windows, pc, sup, adapter, lost, refused, muted, counts>>

----------------------------------------------------------------------------
(* The player and the claim's capture thread                                *)

\* The capture thread's try_send: at a full channel the event is dropped.
Emit(key, isDown) ==
    IF Len(events) < EventCap
    THEN /\ events' = Append(events, [key |-> key, down |-> isDown])
         /\ lost' = IF isDown THEN lost ELSE lost \ {key}
    ELSE UNCHANGED events /\ lost' = IF isDown THEN lost ELSE lost \union {key}

Press(key) ==
    /\ claim /\ key \notin down /\ presses < MaxPresses
    /\ presses' = presses + 1
    /\ down' = down \union {key} /\ Emit(key, TRUE)
    /\ UNCHANGED <<claim, escape, ctl, tt, windows, pc, sup, adapter, refused, muted, counts>>

Release(key) ==
    /\ claim /\ key \in down
    /\ down' = down \ {key} /\ Emit(key, FALSE)
    /\ UNCHANGED <<presses, claim, escape, ctl, tt, windows, pc, sup, adapter, refused, muted, counts>>

\* LeftCtrl x5: the capture thread flips the latch itself.
Toggle ==
    /\ claim /\ gestures < MaxGestures
    /\ gestures' = gestures + 1
    /\ escape' = [escape EXCEPT !.latch = ~@, !.toggles = @ + 1]
    /\ UNCHANGED <<player, claim, ctl, tt, windows, pc, sup, adapter, lost, refused, muted, starts>>

\* Ctrl+Alt+Del: the latch is forced on and a stop is requested.
EmergencyStop ==
    /\ claim /\ gestures < MaxGestures
    /\ gestures' = gestures + 1
    /\ escape' = [escape EXCEPT !.latch = TRUE, !.stops = @ + 1]
    /\ UNCHANGED <<player, claim, ctl, tt, windows, pc, sup, adapter, lost, refused, muted, starts>>

\* The board is pulled out: the capture thread ends and its channel with it.
Unplug ==
    /\ claim /\ claim' = FALSE /\ down' = {}
    /\ UNCHANGED <<events, presses, escape, ctl, tt, windows, pc, sup, adapter, lost, refused, muted, counts>>

----------------------------------------------------------------------------
(* The typethrough thread                                                   *)

\* Mutant: going quiet keeps what is held.
Mode_KeepsHeld(t) == [t EXCEPT !.emulating = t.asked /\ ~escape.latch]
\* The mode asked for, overridden by the latch; going in, the held set is let go.
Mode(t) ==
    LET muting == t.asked /\ ~escape.latch
    IN  [t EXCEPT !.emulating = muting, !.held = IF muting THEN {} ELSE @]

\* The releases of `keys`; a refused one is never retried.
LetGo(keys) ==
    \E kept \in IF StrokesFail THEN SUBSET keys ELSE {{}} :
        /\ windows' = (windows \ keys) \union kept
        /\ refused' = (refused \ keys) \union kept

Obey(t, m) ==
    CASE m.command = "Emulating" -> [t EXCEPT !.asked = TRUE]
      [] m.command = "Typing" -> [t EXCEPT !.asked = FALSE]
      [] m.command = "Attach" -> [t EXCEPT !.session = m.session]
      [] m.command = "Detach" -> [t EXCEPT !.session = 0]

PumpCtl ==
    /\ tt.up /\ ctl # <<>> /\ Head(ctl).command # "Shutdown"
    /\ tt' = Mode(Obey(tt, Head(ctl)))
    /\ LetGo(tt.held \ tt'.held)
    /\ ctl' = Tail(ctl)
    /\ UNCHANGED <<player, claim, escape, pc, sup, adapter, lost, muted, counts>>

\* The session hears the event first; a session whose engine is gone is dropped.
Hears(t) == t.session # 0 /\ t.session = sup.id /\ sup.engine
Forward(t) == IF Hears(t) THEN t ELSE [t EXCEPT !.session = 0]

\* on_key: a press is held once Windows took it, a release is forgotten either way.
Remember(held, key, isDown, taken) ==
    IF isDown THEN (IF taken THEN held \union {key} ELSE held) ELSE held \ {key}

PumpEvent ==
    /\ tt.up /\ events # <<>>
    /\ events' = Tail(events)
    /\ LET e == Head(events)
           t == Mode(Forward(tt))
       IN  IF t.emulating \/ (~e.down /\ e.key \notin t.held)
           THEN tt' = t /\ LetGo(tt.held \ t.held)
           ELSE \E taken \in {TRUE, ~StrokesFail} :
                /\ tt' = [t EXCEPT !.held = Remember(@, e.key, e.down, taken)]
                /\ windows' = IF ~taken THEN windows
                              ELSE IF e.down THEN windows \union {e.key} ELSE windows \ {e.key}
                /\ refused' = IF e.down THEN refused
                              ELSE IF taken THEN refused \ {e.key} ELSE refused \union {e.key}
    /\ UNCHANGED <<down, presses, claim, escape, ctl, pc, sup, adapter, lost, muted, counts>>

\* Mutant: the thread ends with its keys down.
EndReleases_Nothing == UNCHANGED <<windows, refused>>

\* Drop for Typethrough.
EndReleases == LetGo(tt.held)

\* The thread ends, on Shutdown or when the claim is gone and drained.
PumpEnds ==
    /\ tt.up
    /\ \/ ctl # <<>> /\ Head(ctl).command = "Shutdown"
       \/ ~claim /\ events = <<>>
    /\ EndReleases
    /\ tt' = [tt EXCEPT !.up = FALSE, !.held = {}, !.session = 0]
    /\ ctl' = <<>>
    /\ UNCHANGED <<player, claim, escape, pc, sup, adapter, lost, muted, counts>>

----------------------------------------------------------------------------
(* The daemon's control loop.  It does nothing while it waits for an ack.   *)

Daemon(at, to) == pc = at /\ ~Waiting("daemon") /\ pc' = to

Start ==
    /\ Daemon("idle", "start") /\ sup.phase = "none" /\ starts < MaxStarts
    /\ starts' = starts + 1
    /\ escape' = [escape EXCEPT !.latch = FALSE]
    /\ Send("daemon", "Emulating")
    /\ muted' = Counted
    /\ UNCHANGED <<player, claim, tt, windows, sup, adapter, lost, refused, gestures>>

\* start(): the session's thread is spawned; it has not run a line yet.
Launch ==
    /\ Daemon("start", "idle")
    /\ sup' = [NoSession EXCEPT !.phase = "entry", !.id = starts, !.engine = TRUE]
    /\ UNCHANGED <<player, claim, escape, ctl, tt, windows, adapter, lost, refused, muted, counts>>

\* Mutant: a failed start leaves the panel muted.
LaunchFails_Mute == Daemon("start", "idle") /\ UNCHANGED ctl

\* Nothing started, so nothing owns the panel: it is handed back.
LaunchFails == Daemon("start", "idle") /\ Send("daemon", "Typing")

NotLaunched ==
    /\ LaunchFails
    /\ UNCHANGED <<player, claim, escape, tt, windows, sup, adapter, lost, refused, muted, counts>>

\* Stop, and the first half of Reload, of a bounce and of Quit: raise the flag, join.
Raise(to) ==
    /\ Daemon("idle", to)
    /\ sup' = IF sup.phase = "none" THEN sup ELSE [sup EXCEPT !.stop = TRUE]
    /\ UNCHANGED <<player, claim, escape, ctl, tt, windows, adapter, lost, refused, muted, counts>>

Stop == sup.phase # "none" /\ Raise("stopping")
Reload == starts < MaxStarts /\ Raise("restart")
Quit == Raise("quitting")

Reaped == sup.phase \in {"none", "over"}
Reap ==
    /\ sup' = NoSession /\ adapter' = NoAdapter
    /\ UNCHANGED <<player, claim, escape, tt, windows, lost, refused, gestures>>

\* A session that ended on its own, or was stopped, is joined: the panel types again.
HandBack ==
    /\ \/ Daemon("idle", "idle") \/ Daemon("stopping", "idle")
    /\ sup.phase = "over" /\ Reap
    /\ Send("daemon", "Typing")
    /\ UNCHANGED <<muted, starts>>

\* Mutant: the bounce does not mute the panel again.
Restart_Unmuted ==
    /\ Daemon("restart", "start") /\ Reaped /\ Reap
    /\ starts' = starts + 1 /\ muted' = Counted
    /\ UNCHANGED ctl

\* restart(): mute and start again.  The escape latch is left as it is.
Restart ==
    /\ Daemon("restart", "start") /\ Reaped /\ Reap
    /\ starts' = starts + 1 /\ muted' = Counted
    /\ Send("daemon", "Emulating")

Quitting ==
    /\ Daemon("quitting", "closing") /\ Reaped /\ Reap
    /\ Send("daemon", "Typing")
    /\ UNCHANGED <<muted, starts>>

\* Panel::shutdown: the claim first, so no further event can arrive ...
Close ==
    /\ Daemon("closing", "joining")
    /\ claim' = FALSE /\ down' = {}
    /\ UNCHANGED <<events, presses, escape, ctl, tt, windows, sup, adapter, lost, refused, muted, counts>>

\* ... then the typethrough, which releases what it holds on the way out.
Join ==
    /\ Daemon("joining", "gone")
    /\ Send("nobody", "Shutdown")
    /\ UNCHANGED <<player, claim, escape, tt, windows, sup, adapter, lost, refused, muted, counts>>

----------------------------------------------------------------------------
(* The session: supervise() and, once it has the panel, the capture adapter *)

Supervise(at) ==
    /\ sup.phase = at /\ ~Waiting("session")
    /\ UNCHANGED <<player, claim, escape, tt, windows, pc, lost, refused, muted, counts>>

\* The escape baseline is supervise()'s first statement.
TakeBaseline ==
    /\ Supervise("entry")
    /\ sup' = [sup EXCEPT !.phase = "plugging", !.seen = Counted]
    /\ UNCHANGED <<ctl, adapter>>

\* No pads, or a panel that is lost or already lent: nothing was captured.
Refused ==
    /\ Supervise("plugging")
    /\ sup' = [sup EXCEPT !.phase = "over", !.engine = FALSE]
    /\ UNCHANGED <<ctl, adapter>>

\* PanelSession::run, attaching before its thread exists.
Attach ==
    /\ Supervise("plugging") /\ claim /\ ~adapter.attached
    /\ sup' = [sup EXCEPT !.phase = "attaching"]
    /\ adapter' = [adapter EXCEPT !.attached = TRUE]
    /\ Send("session", "Attach")

\* apply_capture: what the adapter is told.
Capture(blocking) == IF blocking THEN "SetCaptured" ELSE "SetPassthrough"

Run ==
    /\ Supervise("attaching")
    /\ sup' = [sup EXCEPT !.phase = "running", !.blocking = Blocks]
    /\ adapter' = [adapter EXCEPT !.phase = "loop", !.ctl = <<Capture(Blocks)>>]
    /\ UNCHANGED ctl

\* CaptureGuard::release, then Shutdown.
Release_All == <<"SetPassthrough", "Shutdown">>

\* mirror_escapes flips `blocking` and tells the adapter, once per counted gesture.
Mirror(blocking, n) == [i \in 1 .. n |-> Capture(IF i % 2 = 1 THEN ~blocking ELSE blocking)]

\* One pass of the supervisor's loop that finds new gestures: toggles, then stops.
Poll ==
    LET n == escape.toggles - sup.seen.toggles
        ends == escape.stops > sup.seen.stops
    IN  /\ Supervise("running") /\ ~sup.stop /\ Counted # sup.seen
        /\ sup' = [sup EXCEPT !.seen = Counted, !.blocking = IF n % 2 = 1 THEN ~@ ELSE @,
                              !.phase = IF ends THEN "ending" ELSE @]
        /\ adapter' = [adapter EXCEPT !.ctl = @ \o Mirror(sup.blocking, n)
                                                \o (IF ends THEN Release_All ELSE <<>>)]

Polls == Poll /\ UNCHANGED ctl

\* Every other way out of the loop: the flag, a dead worker, or the game's own end.
Teardown ==
    /\ sup' = [sup EXCEPT !.phase = "ending"]
    /\ adapter' = [adapter EXCEPT !.ctl = @ \o Release_All]

\* Mutant: the stop flag is not read.
Fatal_Deaf == ~sup.engine \/ adapter.phase = "done"
Fatal == sup.stop \/ ~sup.engine \/ adapter.phase = "done"
EndAsked == Supervise("running") /\ Fatal /\ Teardown /\ UNCHANGED ctl
EndItself == Supervise("running") /\ Teardown /\ UNCHANGED ctl

EngineDies ==
    /\ Supervise("running") /\ sup.engine
    /\ sup' = [sup EXCEPT !.engine = FALSE]
    /\ UNCHANGED <<ctl, adapter>>

\* The capture adapter is joined, then the engine and the output threads.
Joined ==
    /\ Supervise("ending") /\ adapter.phase = "done"
    /\ sup' = [sup EXCEPT !.phase = "over", !.engine = FALSE]
    /\ UNCHANGED <<ctl, adapter>>

Adapter ==
    /\ ~Waiting("adapter")
    /\ UNCHANGED <<player, claim, escape, tt, windows, pc, sup, lost, refused, muted, counts>>

\* session_loop: one message of the supervisor's, translated to a panel mode.
Adapt ==
    /\ Adapter /\ adapter.phase = "loop" /\ adapter.ctl # <<>>
    /\ LET m == Head(adapter.ctl)
       IN  /\ adapter' = [adapter EXCEPT !.ctl = Tail(@),
                            !.phase = IF m = "Shutdown" THEN "detaching" ELSE @]
           /\ Send("adapter", CASE m = "SetCaptured" -> "Emulating"
                                [] m = "SetPassthrough" -> "Typing"
                                [] m = "Shutdown" -> "Detach")

\* The 50 ms timeout finds the claim gone under the session.
PanelLost ==
    /\ Adapter /\ adapter.phase = "loop" /\ adapter.ctl = <<>> /\ ~claim
    /\ adapter' = [adapter EXCEPT !.phase = "detaching"]
    /\ Send("adapter", "Detach")

Detached ==
    /\ Adapter /\ adapter.phase = "detaching"
    /\ adapter' = [adapter EXCEPT !.phase = "done", !.attached = FALSE, !.ctl = <<>>]
    /\ UNCHANGED ctl

----------------------------------------------------------------------------
Player == (\E k \in Keys : Press(k) \/ Release(k)) \/ Toggle \/ EmergencyStop \/ Unplug
Pump == PumpCtl \/ PumpEvent \/ PumpEnds
Command == Start \/ Stop \/ Reload \/ Quit
Control == \/ Launch \/ NotLaunched \/ HandBack
           \/ Restart
           \/ Quitting \/ Close \/ Join
Session == \/ TakeBaseline \/ Refused \/ Attach \/ Run \/ Polls \/ EndAsked \/ Joined
Thread == Adapt \/ PanelLost \/ Detached

Next ==
    \/ Player \/ Pump \/ Command \/ Control \/ Session \/ Thread
    \/ EndItself \/ EngineDies
    \/ \E client \in Clients : Expire(client)

Spec == Init /\ [][Next]_vars

(***************************************************************************)
(* Every thread runs when it can: crossbeam's select! picks at random among *)
(* the ready channels, so neither starves; every wait of the daemon and of  *)
(* the session is bounded (ACK_TIMEOUT, the plug deadline) or a join.  The  *)
(* player and the commands owe nothing.                                     *)
(***************************************************************************)
FairSpec ==
    /\ Spec
    /\ WF_vars(PumpCtl) /\ WF_vars(PumpEvent) /\ WF_vars(PumpEnds)
    /\ WF_vars(Control) /\ WF_vars(Session) /\ WF_vars(Thread)

----------------------------------------------------------------------------
(* Properties                                                               *)

TypeOK ==
    /\ down \subseteq Keys /\ {windows, lost, refused} \subseteq SUBSET Keys
    /\ events \in Seq(Events) /\ Len(events) <= EventCap
    /\ claim \in BOOLEAN
    /\ escape \in [latch : BOOLEAN, toggles : Nat, stops : Nat]
    /\ ctl \in Seq(Messages)
    /\ tt \in [asked : BOOLEAN, emulating : BOOLEAN, held : SUBSET Keys,
               session : 0 .. MaxStarts, up : BOOLEAN]
    /\ pc \in {"idle", "start", "stopping", "restart", "quitting", "closing", "joining", "gone"}
    /\ sup \in [phase : {"none", "entry", "plugging", "attaching", "running", "ending", "over"},
                id : 0 .. MaxStarts, stop : BOOLEAN, blocking : BOOLEAN, engine : BOOLEAN,
                seen : [toggles : Nat, stops : Nat]]
    /\ adapter \in [phase : {"off", "loop", "detaching", "done"}, attached : BOOLEAN,
                    ctl : Seq(Modes)]
    /\ muted \in [toggles : Nat, stops : Nat]
    /\ presses \in 0 .. MaxPresses /\ gestures \in 0 .. MaxGestures /\ starts \in 0 .. MaxStarts

\* The bug Typethrough exists to prevent (inject.rs): Windows never believes a
\* panel key is held unless a finger is on it, its release is still on the way,
\* or that release was dropped at a full channel or refused by Windows.
Coming == {events[i].key : i \in {j \in DOMAIN events : ~events[j].down}}
NoKeyStuck == (claim \/ ~tt.up) => windows \subseteq down \union Coming \union lost \union refused

\* A key newly typed on the desktop by this step.
Types == windows' \ windows # {}
Rearming == \/ "SetCaptured" \in {adapter.ctl[i] : i \in DOMAIN adapter.ctl}
            \/ \E i \in DOMAIN ctl : ctl[i].command = "Emulating"
Leaving == sup.phase = "ending" \/ adapter.phase \in {"detaching", "done"}

\* daemon/mod.rs: a press that reaches the engine is not also typed, from the
\* moment the session hears the panel, unless the escape latch is up, blocking
\* is off or on its way back on, or the session is letting go.  No acknowledgement has to be in time.
NoDouble ==
    [][Types /\ Hears(tt) =>
          \/ escape.latch
          \/ Leaving
          \/ sup.phase = "running" /\ (~sup.blocking \/ Rearming)]_vars

\* control_loop_with: no session and nothing in hand means the panel is a
\* keyboard, or the word that makes it one is the last in the queue.
Words == {i \in DOMAIN ctl : ctl[i].command \in {"Emulating", "Typing"}}
LastWord == IF Words = {} THEN tt.asked
            ELSE \E i \in Words : ctl[i].command = "Emulating" /\ \A j \in Words : j <= i
IdleMeansTyping == (pc = "idle" /\ sup.phase = "none" /\ tt.up) => ~LastWord

\* A stop is heard: whatever the session was doing when it was asked to end, when
\* Ctrl+Alt+Del moved the counter it polls, or when the board was pulled out under
\* it, it ends and is reaped.
StopIsHeard ==
    (\/ sup.stop
     \/ sup.phase = "running" /\ (escape.stops > sup.seen.stops \/ ~claim))
        ~> sup.phase = "none"

\* Quit ends with the thread gone and nothing of ours held down on the desktop.
QuitLetsGo == pc = "quitting" ~> ~tt.up /\ windows = {}

\* supervisor.rs:65-70: a gesture from a game already quit does not keep the
\* panel typing behind the new session.  restart() does not re-arm the latch.
FreshStartIsMuted ==
    [][Types /\ Hears(tt) /\ sup.phase = "running" /\ sup.blocking
          => Counted # muted \/ Rearming]_vars

\* supervisor.rs: a Ctrl+Alt+Del made since the panel was muted ends the session.
\* One made before the session's thread takes its baseline is absorbed by it.
NoStopIsAbsorbed == (sup.phase = "running" /\ escape.stops > muted.stops)
                        ~> sup.phase # "running"
============================================================================
