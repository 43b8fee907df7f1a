------------------------------- MODULE Session -------------------------------
(***************************************************************************)
(* One session, from its plan to its outcome (run/supervisor.rs): the       *)
(* supervisor, which decides and orders, the output thread, which is alone  *)
(* with the pad driver, the capture session, which obeys a queue of control *)
(* messages and its own escape latch, and the engine thread.  Each is as    *)
(* slow as it likes and may die.  What a capture thread does with a stroke  *)
(* is in Capture, what the engine does with an event in Engine, the way to  *)
(* the pads in Deltas, the game in Game.                                    *)
(***************************************************************************)
EXTENDS Naturals, Sequences, FiniteSets

CONSTANTS
    Devices,        \* the keyboards bound to a slot (plan.captureable)
    Pads,           \* how many slots are plugged
    MayDie,         \* may threads die, and may the hook panic?
    MaxOutside      \* bound: gestures, and devices that leave or come back

ASSUME SessionAssumption ==
    /\ IsFiniteSet(Devices) /\ Devices # {}
    /\ Pads \in Nat \ {0}
    /\ MayDie \in BOOLEAN
    /\ MaxOutside \in Nat

VARIABLES
    \* the supervisor
    main,       \* where supervise() is
    stop,       \* the StopReason, "none" while the session goes on
    blocks,     \* plan.block_keyboards.captures()
    blocking,   \* its blocking
    seen,       \* seen_escapes: gestures mirrored, and the stop noticed
    present,    \* bound devices it takes to be there
    hook,       \* SessionHook: off, started, finished
    published,  \* is an engine handle in the HotSwapSlot?
    \* what it shares
    msgs,       \* worker -> supervisor
    ctl,        \* supervisor -> capture; the sender's end closed shows as "shutdown"
    octl,       \* has OutputCtl::Stop been sent, or the sender been dropped?
    ectl,       \* the same for EngineCtl::Stop
    \* the capture session
    capture,    \* none, on, gone
    captured,   \* the devices its threads were last told to take
    pass,       \* let everything through, because told to or because it stalled
    latch,      \* EscapeHandle's passthrough flag
    escapes,    \* EscapeStatus: [toggles, stops]
    health,     \* ok, panicked, tripped
    there,      \* bound devices that are plugged in
    hotplugs,   \* bound: devices that left or came back so far
    \* the workers
    engine,     \* none, on, gone
    output,     \* plug, undo, on, failed, unplug, gone
    plugged     \* pads on the bus

super   == <<main, stop, blocking, seen, present, hook, published>>
queues  == <<msgs, ctl, octl, ectl>>
catcher == <<capture, captured, pass, latch, escapes, health>>
boards  == <<there, hotplugs>>
workers == <<engine, output, plugged>>
rest    == <<blocks, catcher, boards, workers>>
mind    == <<blocking, seen, present, hook, published>>
vars    == <<super, queues, rest>>

----------------------------------------------------------------------------
Ended == main \in {"ended", "unwound"}
Loop  == {"top", "escapes", "presence", "game", "workers", "mail"}

\* The baseline of the counters is the session's first statement: they start at
\* nothing here, and a gesture made while the pads are plugged counts.
Init ==
    /\ main = "start" /\ stop = "none" /\ blocks \in BOOLEAN /\ blocking = blocks
    /\ seen = [toggles |-> 0, stops |-> 0]
    /\ there \in SUBSET Devices /\ present = there
    /\ hook = "off" /\ published = FALSE
    /\ msgs = <<>> /\ ctl = <<>> /\ octl = FALSE /\ ectl = FALSE
    /\ capture = "none" /\ captured = {} /\ pass = TRUE /\ latch = FALSE
    /\ escapes = [toggles |-> 0, stops |-> 0] /\ health = "ok"
    /\ hotplugs = 0
    /\ engine = "none" /\ output = "none" /\ plugged = 0

----------------------------------------------------------------------------
(* Orders                                                                   *)

Take(ids)   == [type |-> "take", ids |-> ids]
Passthrough == [type |-> "pass", ids |-> {}]
Shutdown    == [type |-> "shutdown", ids |-> {}]

\* apply_capture: only what is bound, there and to be blocked is ever taken.
ApplyCapture(block, ids) ==
    IF block /\ ids # {} THEN Take(ids) ELSE Passthrough

Other(b, n) == IF n % 2 = 0 THEN b ELSE ~b

\* Mutant: however many gestures there were, capture is toggled once.
Mirrored_Once(b, n, ids) == [i \in 1 .. (IF n = 0 THEN 0 ELSE 1) |-> ApplyCapture(~b, ids)]

\* What mirror_escapes sends: capture as each gesture left it, the oldest first.
Mirrored(b, n, ids) == [i \in 1..n |-> ApplyCapture(Other(b, i), ids)]

Finished(thread) == thread \in {"gone", "dead"}

----------------------------------------------------------------------------
(* supervise(): start-up                                                    *)

\* Two boards share an id: refused, with nothing plugged.
Refuse ==
    /\ main = "start" /\ main' = "ended" /\ stop' = "ambiguous"
    /\ UNCHANGED <<mind, queues, rest>>

SpawnOutput ==
    /\ main = "start" /\ main' = "plugging" /\ output' = "plug"
    /\ UNCHANGED <<stop, mind, queues, blocks, catcher, boards, engine, plugged>>

\* Mutant: the output thread is told, and not waited for.
GiveUp_NoJoin(why) ==
    /\ stop' = why /\ octl' = TRUE /\ main' = "ended"

\* Nothing is captured yet: the output thread is told to stop, and joined.
GiveUp(why) ==
    /\ stop' = why /\ octl' = TRUE /\ main' = "joinOutput"

\* wait_for_pads: the deadline, a thread that ended, or its message.
WaitForPads ==
    /\ main = "plugging"
    /\ \/ GiveUp("plugTimeout") /\ UNCHANGED msgs
       \/ Finished(output) /\ GiveUp("plugEnded") /\ UNCHANGED msgs
       \/ /\ msgs # <<>> /\ msgs' = Tail(msgs)
          /\ \/ Head(msgs) = "plugFailed" /\ GiveUp("plugFailed")
             \/ Head(msgs) = "ready" /\ main' = "capture" /\ UNCHANGED <<stop, octl>>
    /\ UNCHANGED <<mind, ctl, ectl, rest>>

SpawnCapture ==
    /\ main = "capture"
    /\ \/ GiveUp("captureFailed") /\ UNCHANGED <<capture>>
       \/ capture' = "on" /\ main' = "engine" /\ UNCHANGED <<stop, octl>>
    /\ UNCHANGED <<mind, msgs, ctl, ectl, blocks, captured, pass, latch, escapes, health,
                   boards, workers>>

\* What a supervisor that unwinds leaves: CaptureGuard's Drop asks for
\* passthrough, and every queue loses its sender.  An engine handle that is
\* still published keeps its own sender.
Unwind ==
    /\ main' = "unwound"
    /\ ctl' = ctl \o <<Passthrough, Shutdown>> /\ octl' = TRUE
    /\ ectl' = ~published
    /\ UNCHANGED <<stop, mind, msgs>>

\* The engine thread, and then the handle by which its tables can be swapped.
SpawnEngine ==
    /\ main = "engine"
    /\ \/ /\ engine' = "on" /\ published' = TRUE /\ main' = "block"
          /\ UNCHANGED <<stop, blocking, seen, present, hook, queues>>
       \/ MayDie /\ Unwind /\ UNCHANGED engine
    /\ UNCHANGED <<blocks, catcher, boards, output, plugged>>

Block ==
    /\ main = "block" /\ main' = "hook"
    /\ ctl' = Append(ctl, ApplyCapture(blocking, present))
    /\ UNCHANGED <<stop, mind, msgs, octl, ectl, rest>>

\* Mutant: the capture session is freed, and never ended.
Close_NoShutdown ==
    /\ hook' = "finished" /\ published' = FALSE
    /\ ctl' = Append(ctl, Passthrough)
    /\ main' = "joinCapture"

\* The common end: the hook is told, nobody may hand tables over any more, the
\* capture session is freed and then ended.
Close ==
    /\ hook' = "finished" /\ published' = FALSE
    /\ ctl' = ctl \o <<Passthrough, Shutdown>>
    /\ main' = "joinCapture"

StartHook ==
    /\ main = "hook"
    /\ \/ /\ hook' = "started" /\ main' = "top"
          /\ UNCHANGED <<stop, blocking, seen, present, published, queues>>
       \/ stop' = "launchFailed" /\ Close /\ UNCHANGED <<blocking, seen, present, msgs, octl, ectl>>
       \/ MayDie /\ Unwind
    /\ UNCHANGED rest

----------------------------------------------------------------------------
(* supervise(): one pass of the loop                                        *)

Goto(next) == main' = next /\ UNCHANGED stop
Decide(why) == stop' = why /\ main' = "closing"

\* The caller's stop flag, then the capture session's health, before anything
\* that could change what is captured.
CheckHealth ==
    /\ main = "top"
    /\ \/ Decide("asked")
       \/ health # "ok" /\ Decide(health)
       \/ health = "ok" /\ Goto("escapes")
    /\ UNCHANGED <<mind, queues, rest>>

\* mirror_escapes, and the emergency stop of the same snapshot.  (A toggle that
\* frees the keyboards also ends the running macros: Engine's CancelMacros.)
MirrorEscapes ==
    /\ main = "escapes"
    /\ LET n == escapes.toggles - seen.toggles
       IN /\ ctl' = ctl \o Mirrored(blocking, n, present)
          /\ blocking' = Other(blocking, n)
    /\ seen' = escapes
    /\ IF escapes.stops > seen.stops THEN Decide("emergency") ELSE Goto("presence")
    /\ UNCHANGED <<present, hook, published, msgs, octl, ectl, rest>>

\* Devices left and came back, as far as the last idle rescan has published it:
\* what is there is taken.  (What the others held is released: Engine's Yank.)
Hotplug ==
    /\ main = "presence" /\ Goto("game")
    /\ \E now \in {present, there} :
         /\ present' = now
         /\ ctl' = IF now = present THEN ctl ELSE Append(ctl, ApplyCapture(blocking, now))
    /\ UNCHANGED <<blocking, seen, hook, published, msgs, octl, ectl, rest>>

PollHook ==
    /\ main = "game"
    /\ \/ Decide("gameExited") /\ UNCHANGED <<mind, queues>>
       \/ Goto("workers") /\ UNCHANGED <<mind, queues>>
       \/ MayDie /\ Unwind
    /\ UNCHANGED rest

CheckWorkers ==
    /\ main = "workers"
    /\ \/ Finished(capture) /\ Decide("captureEnded")
       \/ ~Finished(capture) /\ Finished(engine) /\ Decide("engineDied")
       \/ /\ ~Finished(capture) /\ ~Finished(engine) /\ Finished(output)
          /\ Decide("outputDied")
       \/ /\ ~Finished(capture) /\ ~Finished(engine) /\ ~Finished(output)
          /\ Goto("mail")
    /\ UNCHANGED <<mind, queues, rest>>

\* A message, or 50 ms without one, or nobody left to send any.
ReadMail ==
    /\ main = "mail"
    /\ \/ msgs # <<>> /\ msgs' = Tail(msgs) /\ Decide(Head(msgs))
       \/ msgs = <<>> /\ Finished(engine) /\ Finished(output) /\ Decide("engineDied") /\ UNCHANGED msgs
       \/ msgs = <<>> /\ ~(Finished(engine) /\ Finished(output)) /\ Goto("top") /\ UNCHANGED msgs
    /\ UNCHANGED <<mind, ctl, octl, ectl, rest>>

----------------------------------------------------------------------------
(* supervise(): teardown, uncapture and then unplug                         *)

\* The last gestures are counted, and change nothing any more.
Teardown ==
    /\ main = "closing" /\ Close
    /\ blocking' = Other(blocking, escapes.toggles - seen.toggles)
    /\ seen' = [seen EXCEPT !.toggles = escapes.toggles]
    /\ UNCHANGED <<stop, present, msgs, octl, ectl, rest>>

JoinCapture ==
    /\ main = "joinCapture" /\ Finished(capture) /\ Goto("joinEngine")
    /\ ectl' = TRUE
    /\ UNCHANGED <<mind, msgs, ctl, octl, rest>>

JoinEngine ==
    /\ main = "joinEngine" /\ Finished(engine) /\ Goto("joinOutput")
    /\ octl' = TRUE
    /\ UNCHANGED <<mind, msgs, ctl, ectl, rest>>

JoinOutput ==
    /\ main = "joinOutput" /\ Finished(output) /\ Goto("ended")
    /\ UNCHANGED <<mind, queues, rest>>

Supervisor ==
    \/ Refuse \/ SpawnOutput \/ WaitForPads \/ SpawnCapture \/ SpawnEngine \/ Block \/ StartHook
    \/ CheckHealth \/ MirrorEscapes \/ Hotplug \/ PollHook \/ CheckWorkers \/ ReadMail
    \/ Teardown \/ JoinCapture \/ JoinEngine \/ JoinOutput

----------------------------------------------------------------------------
(* The output thread                                                        *)

PlugPad ==
    /\ output = "plug" /\ plugged < Pads
    /\ \/ plugged' = plugged + 1 /\ UNCHANGED output
       \/ output' = "undo" /\ UNCHANGED plugged
    /\ UNCHANGED <<super, blocks, queues, catcher, boards, engine>>

\* One plug failed: those before it are taken out again, and then it says so.
Undo ==
    /\ output = "undo"
    /\ \/ plugged > 0 /\ plugged' = plugged - 1 /\ UNCHANGED <<output, msgs>>
       \/ /\ plugged = 0 /\ output' = "gone" /\ msgs' = Append(msgs, "plugFailed")
          /\ UNCHANGED plugged
    /\ UNCHANGED <<super, blocks, ctl, octl, ectl, catcher, boards, engine>>

PadsReady ==
    /\ output = "plug" /\ plugged = Pads
    /\ output' = "on" /\ msgs' = Append(msgs, "ready")
    /\ UNCHANGED <<super, blocks, ctl, octl, ectl, catcher, boards, engine, plugged>>

\* Mutant: the output thread cleans up after itself.
UpdateFails_Unplugs ==
    /\ output = "on" /\ output' = "unplug" /\ msgs' = Append(msgs, "outputError")
    /\ UNCHANGED <<super, blocks, ctl, octl, ectl, catcher, boards, engine, plugged>>

\* A failed update is reported, and no pad is touched until the order to stop.
UpdateFails ==
    /\ output = "on" /\ output' = "failed" /\ msgs' = Append(msgs, "outputError")
    /\ UNCHANGED <<super, blocks, ctl, octl, ectl, catcher, boards, engine, plugged>>

Unplug ==
    /\ \/ output \in {"on", "failed"} /\ octl /\ output' = "unplug" /\ UNCHANGED plugged
       \/ output = "unplug" /\ plugged > 0 /\ plugged' = plugged - 1 /\ UNCHANGED output
       \/ output = "unplug" /\ plugged = 0 /\ output' = "gone" /\ UNCHANGED plugged
    /\ UNCHANGED <<super, blocks, queues, catcher, boards, engine>>

\* A panic: the backend is dropped, and its pads with it.
OutputDies ==
    /\ MayDie /\ ~Finished(output) /\ output # "none"
    /\ output' = "dead" /\ plugged' = 0
    /\ UNCHANGED <<super, blocks, queues, catcher, boards, engine>>

Output == PlugPad \/ Undo \/ PadsReady \/ UpdateFails \/ Unplug \/ OutputDies

----------------------------------------------------------------------------
(* The capture session                                                      *)

Outside == escapes.toggles + escapes.stops + hotplugs < MaxOutside

\* Its threads obey one order; an escape, and a tripped watchdog, stay theirs.
Obey ==
    /\ capture = "on" /\ ctl # <<>> /\ ctl' = Tail(ctl)
    /\ LET order == Head(ctl)
       IN /\ captured' = IF order.type = "take" THEN order.ids ELSE captured
          /\ pass' = (order.type # "take")
          /\ capture' = IF order.type = "shutdown" THEN "gone" ELSE "on"
    /\ UNCHANGED <<super, blocks, msgs, octl, ectl, latch, escapes, health, boards, workers>>

\* LeftCtrl x5, or Ctrl+Alt+Del: acted on at once, counted for the supervisor.
\* A claimed panel is heard before the session runs its capture.
Gesture ==
    /\ Outside /\ ~Finished(capture)
    /\ \/ latch' = ~latch /\ escapes' = [escapes EXCEPT !.toggles = @ + 1]
       \/ /\ escapes.stops = 0
          /\ latch' = TRUE /\ escapes' = [escapes EXCEPT !.stops = 1]
    /\ UNCHANGED <<super, blocks, queues, capture, captured, pass, health, boards, workers>>

WatchdogTrips ==
    /\ MayDie /\ capture = "on" /\ health = "ok"
    /\ health' = "tripped" /\ pass' = TRUE
    /\ UNCHANGED <<super, blocks, queues, capture, captured, latch, escapes, boards, workers>>

\* A panic, a claimed board that leaves, or an engine that listens no more.
CaptureEnds ==
    /\ capture = "on" /\ capture' = "gone"
    /\ \/ MayDie /\ health' = "panicked"
       \/ (MayDie \/ Finished(engine)) /\ UNCHANGED health
    /\ UNCHANGED <<super, blocks, queues, captured, pass, latch, escapes, boards, workers>>

Capture == Obey \/ WatchdogTrips \/ CaptureEnds

----------------------------------------------------------------------------
(* The engine thread                                                        *)

\* It is told to stop, its events or its pads have gone, or it panics.
EngineEnds ==
    /\ engine = "on" /\ (ectl \/ Finished(capture) \/ Finished(output) \/ MayDie)
    /\ engine' = "gone"
    /\ UNCHANGED <<super, blocks, queues, catcher, boards, output, plugged>>

----------------------------------------------------------------------------
(* Outside                                                                  *)

PlugBoard(d) ==
    /\ Outside /\ hotplugs' = hotplugs + 1
    /\ there' = (there \ {d}) \cup ({d} \ there)
    /\ UNCHANGED <<super, blocks, queues, catcher, workers>>

----------------------------------------------------------------------------
Next ==
    \/ Supervisor \/ Output \/ Capture \/ EngineEnds
    \/ Gesture \/ \E d \in Devices : PlugBoard(d)

Spec == Init /\ [][Next]_vars

\* The supervisor's waits are bounded or are joins, a driver call returns, and
\* every thread reads its queue.  Nobody owes a gesture, a key or a stop.
FairSpec ==
    /\ Spec
    /\ WF_vars(Supervisor)
    /\ WF_vars(PlugPad \/ Undo \/ PadsReady \/ Unplug)
    /\ WF_vars(Obey) /\ WF_vars(CaptureEnds /\ Finished(engine))
    /\ WF_vars(EngineEnds /\ (ectl \/ Finished(capture) \/ Finished(output)))

----------------------------------------------------------------------------
(* Properties                                                               *)

\* The keyboards that Windows does not get.
Taken == IF capture = "on" /\ ~pass /\ ~latch THEN captured ELSE {}

TypeOK ==
    /\ blocking \in BOOLEAN /\ present \subseteq Devices /\ captured \subseteq Devices
    /\ hook \in {"off", "started", "finished"} /\ published \in BOOLEAN
    /\ capture \in {"none", "on", "gone"} /\ engine \in {"none", "on", "gone"}
    /\ output \in {"none", "plug", "undo", "on", "failed", "unplug", "gone", "dead"}
    /\ plugged \in 0..Pads

\* The session implements the contract of start-up and teardown.
Contract == INSTANCE SessionOrder
    WITH taken   <- Taken # {},
         closing <- stop # "none" \/ main = "unwound",
         broken  <- main = "unwound" \/ output = "dead"
KeepsOrder == Contract!Spec
LetsGo == Contract!Over

\* Whatever ended it, a session that returns has told the hook it once started,
\* has taken its engine handle back, and has joined every thread it spawned.
NothingIsLeft ==
    main = "ended" =>
        /\ hook # "started" /\ ~published
        /\ capture # "on" /\ engine # "on" /\ output \notin {"plug", "undo", "on", "failed", "unplug"}

\* The supervisor's blocking and the capture thread's latch are two switches,
\* moved by different threads at different times.  Once every order is obeyed
\* and every gesture mirrored they agree: a bound keyboard that is there is
\* taken exactly when the plan blocks and no escape is in force.
Settled ==
    /\ main \in Loop \ {"presence"} /\ ctl = <<>> /\ capture = "on" /\ health = "ok"
    /\ seen = escapes /\ escapes.stops = 0
SwitchesAgree == Settled => Taken = IF blocks /\ ~latch THEN present ELSE {}

\* supervisor.rs: "uncapture before unplug, always", so that no fatal condition
\* has the pads vanish while a keyboard is taken.
UncaptureFirst == [][Taken # {} => plugged' = plugged]_vars

\* The banner: LeftCtrl x5 toggles keyboard capture, and the high beep says that
\* it is on now.
BeepTellsTruth == Settled /\ escapes.toggles > 0 => (blocking => ~latch)

\* wait_for_pads: a plug that failed is reported with its own reason.
PlugFailureIsTold == stop = "plugEnded" => msgs = <<>>
=============================================================================
