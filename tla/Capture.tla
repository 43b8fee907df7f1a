-------------------------------- MODULE Capture --------------------------------
(***************************************************************************)
(* The capture session of `ksx run` (ksx-capture): a CompositeBackend over *)
(* one Interception thread, which sits in the keyboard stack of the Desks  *)
(* and re-sends what may pass, and one WinUSB thread per claimed panel,    *)
(* which injects what may pass because Windows sees nothing else of it.    *)
(* The threads share the escape latch and the bounded event channel, and   *)
(* each has its own control queue, fed by the composite's coordinator.     *)
(*                                                                         *)
(* A stroke of a thread is not atomic: the latch is read and written by    *)
(* separate instructions, and what the driver thread suppresses follows a  *)
(* snapshot that has to be published after them.                           *)
(***************************************************************************)
EXTENDS EscapeDetector, Sequences

CONSTANTS
  Keys,        \* the keys of a board
  Desks,       \* keyboards read through the Interception driver
  Panels,      \* claimed WinUSB boards, each with a thread of its own name
  Driver,      \* the Interception thread
  TakenKeys,   \* [board -> keys it suppresses once captured] (Take)
  Orders,      \* the device sets the supervisor may ask to capture
  Capacity,    \* slots of the event channel
  MayBlock,    \* may SendInput be refused?
  MayFail,     \* may threads panic, boards leave and the engine's end close?
  MaxStrokes,  \* bound on the strokes of all boards together
  MaxOrders    \* bound on the supervisor's messages

ASSUME CaptureAssumption ==
  /\ Boards = Desks \cup Panels /\ Desks \cap Panels = {} /\ Driver \notin Panels
  /\ TakenKeys \in [Boards -> SUBSET Keys]
  /\ Capacity \in Nat \ {0}

Threads == Panels \cup {Driver}
Hears(t) == IF t = Driver THEN Desks ELSE {t}
Nothing == [board |-> Driver, key |-> Driver, down |-> FALSE]   \* no stroke

VARIABLES
  phys,      \* keys physically down on each board
  win,       \* keys Windows believes down because of each board
  refused,   \* panels whose injection SendInput has refused: not in the program
  strokes,   \* strokes so far
  latch,     \* EscapeHandle's passthrough flag
  escapes,   \* gestures that moved the latch so far: [toggles, stops]
  pc,        \* per thread: "loop", "toggle", "publish", "decide" or "gone"
  cur,       \* the stroke a thread is working on
  next,      \* the latch value a toggling thread computed
  det,       \* each thread's detector
  ctlPass,   \* passthrough the supervisor asked for
  wdPass,    \* passthrough the stall watchdog forced
  wd,        \* the watchdog: "ok", "failing" or "tripped"
  captured,  \* captured_ids: the boards the thread was told to capture
  known,     \* the driver thread's slot table: boards it can attribute
  snap,      \* its published decision: [pass, taken]
  inbox,     \* control messages each thread has not drained yet
  exit,      \* the ExitReason of each thread, "none" while it runs
  orders,    \* control messages the coordinator has not drained yet
  asked,     \* messages the supervisor sent so far
  hub,       \* the coordinator: "run", "joining" or "done"
  reason,    \* the session's ExitReason, as the coordinator reports it
  chan,      \* events waiting in the channel
  engine     \* is the receiving end of the channel still open?

panel  == <<phys, win, refused, strokes>>
shared == <<latch, escapes>>
thread == <<pc, cur, next, det, ctlPass, wdPass, wd, captured, known, snap, inbox, exit>>
session == <<orders, asked, hub, reason>>
sink   == <<chan, engine>>
vars   == <<panel, shared, thread, session, sink>>

Init ==
  /\ phys = [b \in Boards |-> {}] /\ win = [b \in Boards |-> {}] /\ refused = {} /\ strokes = 0
  /\ latch = FALSE /\ escapes = [toggles |-> 0, stops |-> 0]
  /\ pc = [t \in Threads |-> "loop"]
  /\ cur = [t \in Threads |-> Nothing]
  /\ next = [t \in Threads |-> FALSE]
  /\ det = [t \in Threads |-> NewDetector]
  /\ ctlPass = [t \in Threads |-> TRUE] /\ wdPass = [t \in Threads |-> FALSE]
  /\ wd = [t \in Threads |-> "ok"]
  /\ captured = [t \in Threads |-> {}]
  /\ known = Desks /\ snap = [pass |-> TRUE, taken |-> {}]
  /\ inbox = [t \in Threads |-> <<>>] /\ exit = [t \in Threads |-> "none"]
  /\ orders = <<>> /\ asked = 0 /\ hub = "run" /\ reason = "none"
  /\ chan = 0 /\ engine = TRUE

-----------------------------------------------------------------------------
(* Deciding.                                                               *)

\* Does the thread have any of its three reasons to let everything through?
Freed(t) == ctlPass[t] \/ wdPass[t] \/ latch

\* publish: only the driver thread has a snapshot to publish.
Publish(t, pass, ids) ==
  snap' = IF t = Driver THEN [pass |-> pass, taken |-> ids \cap known'] ELSE snap

\* should_resend: what reaches Windows.  The driver thread asks its snapshot, a
\* panel thread the latch itself (may_reach_windows).
LetsThrough(t, s) ==
  IF t = Driver
    THEN snap.pass \/ ~(s.board \in known \cap snap.taken /\ s.key \in TakenKeys[s.board])
    ELSE Freed(t) \/ t \notin captured[t]

Typed(s) == [win EXCEPT ![s.board] = IF s.down THEN @ \cup {s.key} ELSE @ \ {s.key}]

-----------------------------------------------------------------------------
(* Strokes.                                                                 *)

\* A key moves, or repeats because it is held.
Moves(b, k, isDown) ==
  /\ strokes < MaxStrokes
  /\ isDown \/ k \in phys[b]
  /\ strokes' = strokes + 1
  /\ phys' = [phys EXCEPT ![b] = IF isDown THEN @ \cup {k} ELSE @ \ {k}]

\* The thread receives a stroke and feeds the detector, before anything is
\* decided.  A board on a slot the driver thread did not know is learned first.
Stroke(t, b, k, isDown) ==
  /\ pc[t] = "loop" /\ b \in Hears(t)
  /\ Moves(b, k, isDown)
  /\ cur' = [cur EXCEPT ![t] = [board |-> b, key |-> k, down |-> isDown]]
  /\ IF t = Driver /\ b \notin known
       THEN known' = known \cup {b} /\ Publish(t, Freed(t), captured[t])
       ELSE UNCHANGED <<known, snap>>
  /\ LET seen == Observe(det[t], b, k, isDown)
     IN /\ det' = [det EXCEPT ![t] = seen.det]
        /\ \/ /\ seen.escape \in {"none", "right"}
              /\ pc' = [pc EXCEPT ![t] = "decide"]
              /\ UNCHANGED <<next, latch, escapes>>
           \/ /\ seen.escape = "left"
              /\ pc' = [pc EXCEPT ![t] = "toggle"]
              /\ next' = [next EXCEPT ![t] = ~latch]
              /\ UNCHANGED <<latch, escapes>>
           \/ /\ seen.escape = "stop"
              /\ pc' = [pc EXCEPT ![t] = "publish"]
              /\ latch' = TRUE
              /\ escapes' = [escapes EXCEPT !.stops = @ + 1]
              /\ UNCHANGED next
  /\ UNCHANGED <<win, refused, ctlPass, wdPass, wd, captured, inbox, exit, session, sink>>

\* LeftCtrl x5: the value computed from the latch is stored.
Toggle(t) ==
  /\ pc[t] = "toggle"
  /\ latch' = next[t]
  /\ escapes' = [escapes EXCEPT !.toggles = @ + 1]
  /\ pc' = [pc EXCEPT ![t] = "publish"]
  /\ UNCHANGED <<panel, cur, next, det, ctlPass, wdPass, wd, captured, known, snap, inbox,
                 exit, session, sink>>

\* changed_passthrough: the rest of the batch obeys the new state.
PublishEscape(t) ==
  /\ pc[t] = "publish"
  /\ known' = known /\ Publish(t, Freed(t), captured[t])
  /\ pc' = [pc EXCEPT ![t] = "decide"]
  /\ UNCHANGED <<panel, shared, cur, next, det, ctlPass, wdPass, wd, captured, inbox, exit,
                 session, sink>>

\* Mutant: the claim is dropped and the injected keys are not.
Leave_KeysHeld(t, why, releases) ==
  /\ pc' = [pc EXCEPT ![t] = "gone"]
  /\ exit' = [exit EXCEPT ![t] = why]
  /\ cur' = [cur EXCEPT ![t] = Nothing]
  /\ UNCHANGED <<win, refused>>

\* What a thread that ends leaves behind: the driver thread's filter is off, and
\* a panel thread releases every key it injected, unless SendInput refuses.
Leave(t, why, releases) ==
  /\ pc' = [pc EXCEPT ![t] = "gone"]
  /\ exit' = [exit EXCEPT ![t] = why]
  /\ cur' = [cur EXCEPT ![t] = Nothing]
  /\ win' = IF t \in Panels /\ releases THEN [win EXCEPT ![t] = {}] ELSE win
  /\ refused' = IF t \in Panels /\ ~releases THEN refused \cup {t} ELSE refused

\* Mutant: the watchdog raises its flag and publishes nothing.
Stalled_NoPublish(t) ==
  \/ /\ wd[t] = "ok" /\ wd' = [wd EXCEPT ![t] = "failing"]
     /\ UNCHANGED <<wdPass, known, snap>>
  \/ /\ wd[t] # "ok" /\ UNCHANGED <<wd, wdPass, known, snap>>
  \/ /\ wd[t] = "failing" /\ wd' = [wd EXCEPT ![t] = "tripped"]
     /\ wdPass' = [wdPass EXCEPT ![t] = TRUE]
     /\ UNCHANGED <<known, snap>>

\* on_send_failed: the window opens, stays open or has lasted too long.
Stalled(t) ==
  \/ /\ wd[t] = "ok" /\ wd' = [wd EXCEPT ![t] = "failing"]
     /\ UNCHANGED <<wdPass, known, snap>>
  \/ /\ wd[t] # "ok" /\ UNCHANGED <<wd, wdPass, known, snap>>
  \/ /\ wd[t] = "failing" /\ wd' = [wd EXCEPT ![t] = "tripped"]
     /\ wdPass' = [wdPass EXCEPT ![t] = TRUE]
     /\ known' = known /\ Publish(t, TRUE, captured[t])

\* The stroke is re-sent, injected or withheld, and the event is sent on.  With
\* nobody left to send it to, the thread ends.
Decide(t, blocked, releases) ==
  /\ pc[t] = "decide"
  /\ blocked \/ ~releases => MayBlock /\ t \in Panels
  /\ cur' = [cur EXCEPT ![t] = Nothing]
  /\ refused' = IF blocked \/ (~engine /\ ~releases) THEN refused \cup {t} ELSE refused
  /\ LET typed == IF LetsThrough(t, cur[t]) /\ ~blocked THEN Typed(cur[t]) ELSE win
     IN \/ /\ engine
           /\ win' = typed
           /\ pc' = [pc EXCEPT ![t] = "loop"]
           /\ UNCHANGED exit
           /\ \/ /\ chan < Capacity
                 /\ chan' = chan + 1
                 /\ wd' = [wd EXCEPT ![t] = IF @ = "failing" THEN "ok" ELSE @]
                 /\ UNCHANGED <<wdPass, known, snap>>
              \/ chan = Capacity /\ Stalled(t) /\ UNCHANGED chan
        \/ /\ ~engine
           /\ win' = IF t \in Panels /\ releases THEN [typed EXCEPT ![t] = {}] ELSE typed
           /\ pc' = [pc EXCEPT ![t] = "gone"]
           /\ exit' = [exit EXCEPT ![t] = "ChannelClosed"]
           /\ UNCHANGED <<wd, wdPass, known, snap, chan>>
  /\ UNCHANGED <<phys, strokes, shared, next, det, ctlPass, captured, inbox, engine, session>>

\* A board no thread reads: the driver passes it on, a claimed panel is mute.
Unread(b, k, isDown) ==
  /\ \E t \in Threads : b \in Hears(t) /\ pc[t] = "gone"
  /\ Moves(b, k, isDown)
  /\ win' = IF b \in Desks THEN Typed([board |-> b, key |-> k, down |-> isDown]) ELSE win
  /\ UNCHANGED <<refused, shared, thread, session, sink>>

\* Mutant: the rescan publishes what the control channel and the watchdog want.
Rescan_NoLatch(ids) ==
  /\ pc[Driver] = "loop"
  /\ known' = ids
  /\ det' = [det EXCEPT ![Driver].mods =
               [b \in Boards |-> IF b \in known \ ids THEN {} ELSE @[b]]]
  /\ Publish(Driver, ctlPass[Driver] \/ wdPass[Driver], captured[Driver])
  /\ UNCHANGED <<panel, shared, pc, cur, next, ctlPass, wdPass, wd, captured, inbox, exit,
                 session, sink>>

\* The driver is idle for a while: the slot table is read again.  A board whose
\* id cannot be read is dropped, and what it held half-pressed forgotten.
Rescan(ids) ==
  /\ pc[Driver] = "loop"
  /\ known' = ids
  /\ det' = [det EXCEPT ![Driver].mods =
               [b \in Boards |-> IF b \in known \ ids THEN {} ELSE @[b]]]
  /\ Publish(Driver, Freed(Driver), captured[Driver])
  /\ UNCHANGED <<panel, shared, pc, cur, next, ctlPass, wdPass, wd, captured, inbox, exit,
                 session, sink>>

-----------------------------------------------------------------------------
(* Control.                                                                 *)

Capturing(ids) == [type |-> "capture", ids |-> ids]
Passthrough    == [type |-> "passthrough", ids |-> {}]
Shutdown       == [type |-> "shutdown", ids |-> {}]

\* Mutants: re-enabling capture forgets the escape, or leaves the watchdog spent.
SetCaptured_Rearms(t, ids) ==
  /\ captured' = [captured EXCEPT ![t] = ids]
  /\ ctlPass' = [ctlPass EXCEPT ![t] = FALSE] /\ wdPass' = [wdPass EXCEPT ![t] = FALSE]
  /\ wd' = [wd EXCEPT ![t] = IF @ = "tripped" THEN "ok" ELSE @]
  /\ known' = known /\ Publish(t, FALSE, ids)
SetCaptured_SpentWatchdog(t, ids) ==
  /\ captured' = [captured EXCEPT ![t] = ids]
  /\ ctlPass' = [ctlPass EXCEPT ![t] = FALSE] /\ wdPass' = [wdPass EXCEPT ![t] = FALSE]
  /\ known' = known /\ Publish(t, latch, ids) /\ UNCHANGED wd

\* SetCaptured and SetCapturedWith: a recovery decision, so a tripped watchdog
\* is replaced, but never a way around an escape.
SetCaptured(t, ids) ==
  /\ captured' = [captured EXCEPT ![t] = ids]
  /\ ctlPass' = [ctlPass EXCEPT ![t] = FALSE] /\ wdPass' = [wdPass EXCEPT ![t] = FALSE]
  /\ wd' = [wd EXCEPT ![t] = IF @ = "tripped" THEN "ok" ELSE @]
  /\ known' = known /\ Publish(t, latch, ids)

SetPassthrough(t) ==
  /\ ctlPass' = [ctlPass EXCEPT ![t] = TRUE]
  /\ known' = known /\ Publish(t, TRUE, captured[t])
  /\ UNCHANGED <<captured, wdPass, wd>>

\* Control is drained at the top of the loop, between two batches.
Drain(t) ==
  /\ pc[t] = "loop" /\ inbox[t] # <<>>
  /\ inbox' = [inbox EXCEPT ![t] = Tail(@)]
  /\ LET m == Head(inbox[t])
     IN \/ m.type = "capture" /\ SetCaptured(t, m.ids) /\ UNCHANGED <<pc, cur, exit, win, refused>>
        \/ m.type = "passthrough" /\ SetPassthrough(t) /\ UNCHANGED <<pc, cur, exit, win, refused>>
        \/ /\ m.type = "shutdown"
           /\ \E releases \in BOOLEAN : (releases \/ MayBlock) /\ Leave(t, "Shutdown", releases)
           /\ UNCHANGED <<captured, ctlPass, wdPass, wd, known, snap>>
  /\ UNCHANGED <<phys, strokes, shared, next, det, session, sink>>

\* A panic anywhere in the loop unwinds through the same guards.
Panic(t) ==
  /\ MayFail /\ pc[t] # "gone"
  /\ \E releases \in BOOLEAN : (releases \/ MayBlock) /\ Leave(t, "Panicked", releases)
  /\ UNCHANGED <<phys, strokes, shared, next, det, ctlPass, wdPass, wd, captured, known, snap,
                 inbox, session, sink>>

\* A panel is unplugged: the keys it held are reported up while there is room.
DeviceLost(t) ==
  /\ MayFail /\ t \in Panels /\ pc[t] = "loop"
  /\ phys' = [phys EXCEPT ![t] = {}]
  /\ det' = [det EXCEPT ![t] = IF phys[t] = {} THEN @ ELSE ForgetDevice(@, t)]
  /\ chan' = IF ~engine THEN chan
             ELSE IF chan + Cardinality(phys[t]) <= Capacity THEN chan + Cardinality(phys[t])
             ELSE Capacity
  /\ \E releases \in BOOLEAN : (releases \/ MayBlock) /\ Leave(t, "DeviceLost", releases)
  /\ UNCHANGED <<strokes, shared, next, ctlPass, wdPass, wd, captured, known, snap, inbox,
                 engine, session>>

\* The supervisor asks; losing its end of the queue counts as asking to stop.
Order(m) ==
  /\ asked < MaxOrders
  /\ hub = "run" /\ \A i \in DOMAIN orders : orders[i].type # "shutdown"
  /\ orders' = Append(orders, m) /\ asked' = asked + 1
  /\ UNCHANGED <<panel, shared, thread, hub, reason, sink>>

Broadcast(m) == inbox' = [t \in Threads |-> IF pc[t] = "gone" THEN inbox[t]
                                              ELSE Append(inbox[t], m)]

\* coordinate: one message goes to every child, and one child's end is everybody's.
Relay ==
  /\ hub = "run" /\ orders # <<>>
  /\ orders' = Tail(orders)
  /\ Broadcast(Head(orders))
  /\ hub' = IF Head(orders).type = "shutdown" THEN "joining" ELSE "run"
  /\ UNCHANGED <<panel, shared, pc, cur, next, det, ctlPass, wdPass, wd, captured, known,
                 snap, exit, asked, reason, sink>>

\* Mutant: the other children are left running.
ChildDown_NoBroadcast ==
  /\ hub = "run" /\ \E t \in Threads : pc[t] = "gone"
  /\ hub' = "joining"
  /\ UNCHANGED <<panel, shared, thread, orders, asked, reason, sink>>

ChildDown ==
  /\ hub = "run" /\ \E t \in Threads : pc[t] = "gone"
  /\ hub' = "joining"
  /\ Broadcast(Shutdown)
  /\ UNCHANGED <<panel, shared, pc, cur, next, det, ctlPass, wdPass, wd, captured, known,
                 snap, exit, orders, asked, reason, sink>>

Severity(why) ==
  CASE why = "Panicked" -> 4 [] why = "DeviceLost" -> 3
    [] why = "ChannelClosed" -> 2 [] why = "Shutdown" -> 0

Joined ==
  /\ hub = "joining" /\ \A t \in Threads : pc[t] = "gone"
  /\ hub' = "done"
  /\ reason' \in {exit[t] : t \in {x \in Threads :
                     \A y \in Threads : Severity(exit[x]) >= Severity(exit[y])}}
  /\ UNCHANGED <<panel, shared, thread, orders, asked, sink>>

\* The engine thread takes an event, or its end of the channel closes.
Consume ==
  /\ engine /\ chan > 0
  /\ chan' = chan - 1
  /\ UNCHANGED <<panel, shared, thread, session, engine>>
EngineGone ==
  /\ MayFail /\ engine
  /\ engine' = FALSE
  /\ UNCHANGED <<panel, shared, thread, session, chan>>

-----------------------------------------------------------------------------

Messages == {Capturing(ids) : ids \in Orders} \cup {Passthrough, Shutdown}

Typing == \E b \in Boards, k \in Keys, isDown \in BOOLEAN :
            Unread(b, k, isDown) \/ \E t \in Threads : Stroke(t, b, k, isDown)

Working(t) == \/ Toggle(t)
              \/ PublishEscape(t)
              \/ \E blocked, releases \in BOOLEAN : Decide(t, blocked, releases)
              \/ Drain(t)

Next ==
  \/ Typing
  \/ \E t \in Threads : Working(t) \/ Panic(t) \/ DeviceLost(t)
  \/ \E ids \in SUBSET Desks : Rescan(ids)
  \/ \E m \in Messages : Order(m)
  \/ Relay
  \/ ChildDown
  \/ Joined
  \/ Consume
  \/ EngineGone

Spec == Init /\ [][Next]_vars

\* Threads keep running, the coordinator keeps polling, and the driver falls
\* idle for two seconds once the boards are left alone.
FairSpec ==
  /\ Spec
  /\ \A t \in Threads : WF_vars(Working(t))
  /\ WF_vars(Rescan(Desks)) /\ WF_vars(Relay) /\ WF_vars(ChildDown) /\ WF_vars(Joined)

-----------------------------------------------------------------------------
(* Correctness.                                                             *)

TypeOK ==
  /\ phys \in [Boards -> SUBSET Keys] /\ win \in [Boards -> SUBSET Keys]
  /\ latch \in BOOLEAN
  /\ pc \in [Threads -> {"loop", "toggle", "publish", "decide", "gone"}]
  /\ wd \in [Threads -> {"ok", "failing", "tripped"}]
  /\ captured \in [Threads -> SUBSET Boards]
  /\ known \subseteq Desks /\ snap.taken \subseteq Desks
  /\ \A t \in Threads : det[t] \in Detectors /\ (pc[t] = "gone" <=> exit[t] # "none")
  /\ chan \in 0..Capacity

\* The reasons for passthrough are independent: while the supervisor or the
\* watchdog wants a desk keyboard free, no publication, for whatever reason it
\* was made, lets the driver thread suppress.
ReasonsAreKept == ctlPass[Driver] \/ wdPass[Driver] => snap.pass

\* A thread whose watchdog is spent suppresses nothing: whoever lets it suppress
\* again gives it a fresh one, so a consumer that is still stalled cannot
\* swallow the keyboards unguarded.
WatchdogGuards == \A t \in Threads : wd[t] = "tripped" => wdPass[t]

\* Nothing a supervisor does re-captures behind an escape's back: while the
\* latch is up, a desk keyboard that was free stays free.
EscapeSticks == [][latch /\ latch' /\ snap.pass => snap'.pass]_vars

\* A desk keyboard obeys a foreign escape by the next idle rescan at the latest.
EscapeReachesDesks == latch ~> ~latch \/ snap.pass \/ pc[Driver] = "gone"

\* Every way out of a panel thread lets go of what it injected, unless SendInput
\* refuses.
PanelsLetGo == \A t \in Panels \ refused : pc[t] = "gone" => win[t] = {}

\* Any child that ends takes the session with it: no thread is left holding a
\* filter or a claim that nobody controls, and a panic is what the session reports.
OneEndsAll ==
  /\ (\E t \in Threads : pc[t] = "gone") ~> hub = "done"
  /\ (\E t \in Threads : exit[t] = "Panicked") ~> hub = "done" /\ reason = "Panicked"

\* escape.rs: LeftCtrl x5 on any one board has to free them all, so a stroke that
\* is received while the latch is already up is let through by every thread.
EscapeFreesEveryBoard ==
  [][\A t \in Threads : latch /\ pc[t] = "loop" /\ pc'[t] = "decide"
       => LetsThrough(t, cur[t])']_vars

\* escape.rs: the toggle is computed from the shared latch, so a gesture flips it.
GestureFlipsLatch ==
  [][\A t \in Threads : pc[t] = "toggle" /\ pc'[t] = "publish" => latch' = ~latch]_vars

\* inject.rs: a key held across a mode change must not stay down in Windows.
NothingLeftHeld == (\A t \in Threads : pc[t] \in {"loop", "gone"}) =>
                     \A b \in Boards : win[b] \subseteq phys[b]

=============================================================================
