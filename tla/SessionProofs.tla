---------------------------- MODULE SessionProofs ----------------------------
(***************************************************************************)
(* Theorems about Session, for any keyboards, any number of pads, threads   *)
(* that die or not and any number of outside events: what it leaves behind, *)
(* the order of its start-up and teardown, and its two capture switches.    *)
(***************************************************************************)
EXTENDS Session, SequenceTheorems, TLAPS

-----------------------------------------------------------------------------
(* The inductive invariant.                                                 *)

Reports == {"plugFailed", "ready", "outputError"}
Orders  == [type : {"take", "pass", "shutdown"}, ids : SUBSET Devices]
Count   == [toggles : Nat, stops : Nat]

Shape ==
    /\ TypeOK
    /\ msgs \in Seq(Reports) /\ ctl \in Seq(Orders)
    /\ blocks \in BOOLEAN /\ pass \in BOOLEAN /\ latch \in BOOLEAN
    /\ seen \in Count /\ escapes \in Count /\ seen.toggles <= escapes.toggles
    /\ health \in {"ok", "panicked", "tripped"}
    /\ there \subseteq Devices /\ hotplugs \in Nat

\* The output thread has reported that the pads are all there.
Reported == \E i \in DOMAIN msgs : msgs[i] = "ready"

\* How far each thread can be for where supervise() is.
Phases ==
    /\ main \in {"start", "plugging", "capture"} =>
         capture = "none" /\ engine = "none" /\ hook = "off" /\ ~published
    /\ main = "start" => output = "none" /\ msgs = <<>>
    /\ main \in {"engine", "block"} => hook = "off"
    /\ main = "engine" => ~published
    /\ main \in {"joinCapture", "joinEngine"} => hook = "finished" /\ ~published
    /\ main \in {"joinEngine", "joinOutput", "ended"} => capture # "on"
    /\ main \in {"joinOutput", "ended"} => hook # "started" /\ ~published /\ engine # "on"
    /\ main = "ended" => output = "none" \/ Finished(output)

\* The pads are told to go only after the keyboards are free, and the keyboards
\* may be taken only after the pads are there.
Pacing ==
    /\ capture = "none" => pass
    /\ octl => main \in {"joinOutput", "ended", "unwound"}
    /\ output = "unplug" => octl
    /\ output = "none" => plugged = 0
    /\ output \in {"on", "failed"} => plugged = Pads
    /\ output \in {"none", "plug", "undo"} \/ (output = "gone" /\ ~octl) =>
         /\ ~Reported /\ capture = "none"
         /\ main \in {"start", "plugging", "joinOutput", "ended"}

\* What the capture session will have been told once it has obeyed every order.
Told ==
    IF ctl = <<>>
    THEN health = "ok" => (IF pass THEN {} ELSE captured) = (IF blocking THEN present ELSE {})
    ELSE ctl[Len(ctl)] = ApplyCapture(blocking, present)

\* The supervisor's switch follows the gestures it has seen, the latch follows
\* those that were made, and the orders follow the switch.
Switches ==
    /\ main \in Loop \cup {"hook"} => Told
    /\ blocking = Other(blocks, seen.toggles)
    /\ escapes.stops = 0 => (latch <=> escapes.toggles % 2 = 1)

Joined == Shape /\ Phases
Paced  == Joined /\ Pacing
Synced == Shape /\ Switches

-----------------------------------------------------------------------------
(* The shape of the state.                                                  *)

LEMMA OrdersAreOrders ==
  /\ Passthrough \in Orders /\ Shutdown \in Orders
  /\ \A block \in BOOLEAN, ids \in SUBSET Devices : ApplyCapture(block, ids) \in Orders
BY DEF Passthrough, Shutdown, ApplyCapture, Take, Orders

LEMMA OtherIsBoolean ==
  ASSUME NEW b \in BOOLEAN, NEW n
  PROVE  Other(b, n) \in BOOLEAN
BY DEF Other

\* As many orders as gestures, the last of them what all of them come to.
LEMMA MirroredIsSeq ==
  ASSUME NEW b \in BOOLEAN, NEW n \in Nat, NEW ids \in SUBSET Devices
  PROVE  /\ Mirrored(b, n, ids) \in Seq(Orders)
         /\ Len(Mirrored(b, n, ids)) = n
         /\ n > 0 => Mirrored(b, n, ids)[n] = ApplyCapture(Other(b, n), ids)
<1>1. \A i \in 1 .. n : ApplyCapture(Other(b, i), ids) \in Orders
  BY OrdersAreOrders, OtherIsBoolean
<1>2. Mirrored(b, n, ids) \in [1 .. n -> Orders]
  BY <1>1 DEF Mirrored
<1>3. Mirrored(b, n, ids) \in Seq(Orders) /\ Len(Mirrored(b, n, ids)) = n
  BY <1>2
<1> QED  BY <1>3 DEF Mirrored

\* The two closing orders, at the end of the queue.
LEMMA FarewellIsSeq ==
  ASSUME ctl \in Seq(Orders), Unwind \/ Close
  PROVE  ctl' \in Seq(Orders)
<1>1. ctl' = ctl \o <<Passthrough, Shutdown>>
  BY DEF Unwind, Close
<1> QED  BY <1>1, OrdersAreOrders

\* A supervisor that unwinds changes its queues alone.
LEMMA UnwindIsQuiet ==
  ASSUME Unwind
  PROVE  main' = "unwound" /\ octl' = TRUE /\ UNCHANGED <<stop, blocking, seen, present, hook, published, msgs>>
BY DEF Unwind, mind

\* Reading a report leaves the others.
LEMMA MailIsSeq ==
  ASSUME msgs \in Seq(Reports), UNCHANGED msgs \/ (msgs # <<>> /\ msgs' = Tail(msgs))
  PROVE  msgs' \in Seq(Reports)
BY HeadTailProperties

LEMMA SupervisorShape ==
  ASSUME Shape, Supervisor
  PROVE  Shape'
<1> USE DEF Shape, TypeOK, super, queues, catcher, boards, workers, rest, mind
<1>1. CASE Refuse \/ SpawnOutput
  BY <1>1 DEF Refuse, SpawnOutput
<1>2. CASE WaitForPads
  <2>0. UNCHANGED msgs \/ (msgs # <<>> /\ msgs' = Tail(msgs))
    BY <1>2 DEF WaitForPads
  <2>1. msgs' \in Seq(Reports)
    BY <2>0, MailIsSeq
  <2> QED  BY <1>2, <2>1 DEF WaitForPads, GiveUp
<1>3. CASE SpawnCapture
  BY <1>3 DEF SpawnCapture, GiveUp
<1>4. CASE SpawnEngine
  <2>1. ctl' \in Seq(Orders)
    BY <1>4, FarewellIsSeq DEF SpawnEngine
  <2>2. UNCHANGED <<blocking, seen, present, hook, msgs>>
    BY <1>4, UnwindIsQuiet DEF SpawnEngine
  <2>3. published' \in BOOLEAN /\ engine' \in {"none", "on", "gone"}
    BY <1>4, UnwindIsQuiet DEF SpawnEngine
  <2> QED  BY <1>4, <2>1, <2>2, <2>3 DEF SpawnEngine
<1>5. CASE Block
  <2>1. ctl' \in Seq(Orders)
    BY <1>5, OrdersAreOrders DEF Block
  <2> QED  BY <1>5, <2>1 DEF Block
<1>6. CASE StartHook
  <2>1. CASE Unwind
    BY <1>6, <2>1, FarewellIsSeq, UnwindIsQuiet DEF StartHook
  <2>2. CASE ~Unwind
    <3>1. ctl' \in Seq(Orders)
      BY <1>6, <2>2, FarewellIsSeq DEF StartHook
    <3>2. /\ UNCHANGED <<blocking, seen, present, msgs>>
          /\ hook' \in {"started", "finished"} /\ published' \in BOOLEAN
      BY <1>6, <2>2 DEF StartHook, Close
    <3> QED  BY <1>6, <3>1, <3>2 DEF StartHook
  <2> QED  BY <2>1, <2>2
<1>7. CASE CheckHealth
  BY <1>7 DEF CheckHealth, Decide, Goto
<1>8. CASE MirrorEscapes
  <2>1. escapes.toggles - seen.toggles \in Nat /\ seen' \in Count
    BY <1>8 DEF MirrorEscapes, Count
  <2>2. blocking' \in BOOLEAN
    BY <1>8, OtherIsBoolean DEF MirrorEscapes
  <2>3. ctl' \in Seq(Orders)
    BY <1>8, <2>1, MirroredIsSeq DEF MirrorEscapes
  <2>4. seen'.toggles <= escapes'.toggles
    BY <1>8 DEF MirrorEscapes, Count
  <2> QED  BY <1>8, <2>1, <2>2, <2>3, <2>4 DEF MirrorEscapes, Decide, Goto
<1>9. CASE Hotplug
  <2>1. PICK now \in {present, there} :
          /\ present' = now
          /\ ctl' = IF now = present THEN ctl ELSE Append(ctl, ApplyCapture(blocking, now))
    BY <1>9 DEF Hotplug
  <2>2. ApplyCapture(blocking, now) \in Orders
    BY OrdersAreOrders
  <2>3. ctl' \in Seq(Orders)
    BY <2>1, <2>2
  <2> QED  BY <1>9, <2>1, <2>3 DEF Hotplug, Goto
<1>10. CASE PollHook
  <2>1. ctl' \in Seq(Orders)
    BY <1>10, FarewellIsSeq DEF PollHook
  <2>2. UNCHANGED <<blocking, seen, present, hook, published, msgs>>
    BY <1>10, UnwindIsQuiet DEF PollHook
  <2> QED  BY <1>10, <2>1, <2>2 DEF PollHook
<1>11. CASE CheckWorkers
  BY <1>11 DEF CheckWorkers, Decide, Goto
<1>12. CASE ReadMail
  <2>0. UNCHANGED msgs \/ (msgs # <<>> /\ msgs' = Tail(msgs))
    BY <1>12 DEF ReadMail
  <2>1. msgs' \in Seq(Reports)
    BY <2>0, MailIsSeq
  <2> QED  BY <1>12, <2>1 DEF ReadMail, Decide, Goto
<1>13. CASE Teardown
  <2>1. blocking' \in BOOLEAN
    BY <1>13, OtherIsBoolean DEF Teardown
  <2>2. seen' \in Count
    BY <1>13 DEF Teardown, Count
  <2>3. ctl' \in Seq(Orders)
    BY <1>13, FarewellIsSeq DEF Teardown
  <2>4. seen'.toggles <= escapes'.toggles
    BY <1>13 DEF Teardown, Count
  <2> QED  BY <1>13, <2>1, <2>2, <2>3, <2>4 DEF Teardown, Close
<1>14. CASE JoinCapture \/ JoinEngine \/ JoinOutput
  BY <1>14 DEF JoinCapture, JoinEngine, JoinOutput, Goto
<1> QED  BY <1>1, <1>2, <1>3, <1>4, <1>5, <1>6, <1>7, <1>8, <1>9, <1>10, <1>11, <1>12, <1>13,
            <1>14 DEF Supervisor

LEMMA OutputShape ==
  ASSUME Shape, Output
  PROVE  Shape'
<1> USE SessionAssumption DEF Shape, TypeOK, super, queues, catcher, boards, workers, rest, mind
<1>1. CASE PlugPad
  BY <1>1 DEF PlugPad
<1>2. CASE Undo
  <2>1. msgs' \in Seq(Reports)
    BY <1>2 DEF Undo, Reports
  <2> QED  BY <1>2, <2>1 DEF Undo
<1>3. CASE PadsReady \/ UpdateFails
  <2>1. PICK m \in Reports : msgs' = Append(msgs, m)
    BY <1>3 DEF PadsReady, UpdateFails, Reports
  <2> QED  BY <1>3, <2>1 DEF PadsReady, UpdateFails
<1>4. CASE Unplug
  BY <1>4 DEF Unplug
<1>5. CASE OutputDies
  BY <1>5 DEF OutputDies
<1> QED  BY <1>1, <1>2, <1>3, <1>4, <1>5 DEF Output

LEMMA RestShape ==
  ASSUME Shape, Capture \/ EngineEnds \/ Gesture \/ \E d \in Devices : PlugBoard(d)
  PROVE  Shape'
<1> USE DEF Shape, TypeOK, super, queues, catcher, boards, workers, rest, mind
<1>1. CASE Obey
  <2>1. Head(ctl) \in Orders /\ ctl' \in Seq(Orders)
    BY <1>1 DEF Obey
  <2>2. captured' \subseteq Devices
    BY <1>1, <2>1 DEF Obey, Orders
  <2> QED  BY <1>1, <2>1, <2>2 DEF Obey
<1>2. CASE WatchdogTrips \/ CaptureEnds
  BY <1>2 DEF WatchdogTrips, CaptureEnds
<1>3. CASE EngineEnds
  BY <1>3 DEF EngineEnds
<1>4. CASE Gesture
  <2>1. escapes' \in Count /\ seen.toggles <= escapes'.toggles
    BY <1>4 DEF Gesture, Count
  <2>2. latch' \in BOOLEAN
    BY <1>4 DEF Gesture
  <2> QED  BY <1>4, <2>1, <2>2 DEF Gesture
<1>5. CASE \E d \in Devices : PlugBoard(d)
  BY <1>5 DEF PlugBoard
<1> QED  BY <1>1, <1>2, <1>3, <1>4, <1>5 DEF Capture

LEMMA NextShape == Shape /\ [Next]_vars => Shape'
<1>1. Shape /\ UNCHANGED vars => Shape'
  BY DEF Shape, TypeOK, vars, super, queues, catcher, boards, workers, rest
<1> QED  BY <1>1, SupervisorShape, OutputShape, RestShape DEF Next

LEMMA InitShape == Init => Shape
<1> SUFFICES ASSUME Init  PROVE Shape
  OBVIOUS
<1>1. seen \in Count /\ escapes \in Count /\ seen.toggles <= escapes.toggles
  BY DEF Init, Count
<1>2. msgs \in Seq(Reports) /\ ctl \in Seq(Orders)
  BY DEF Init
<1>3. TypeOK
  <2>1. blocking \in BOOLEAN /\ published \in BOOLEAN
    BY DEF Init
  <2>2. plugged \in 0 .. Pads
    BY SessionAssumption DEF Init
  <2>3. present \subseteq Devices /\ captured \subseteq Devices
    BY DEF Init
  <2>4. /\ capture = "none" /\ engine = "none" /\ output = "none" /\ hook = "off"
    BY DEF Init
  <2> QED  BY <2>1, <2>2, <2>3, <2>4 DEF TypeOK
<1> QED  BY <1>1, <1>2, <1>3 DEF Init, Shape

\* The types of the session's variables.
THEOREM TypeCorrect == Spec => []TypeOK
<1>1. Shape => TypeOK
  BY DEF Shape
<1> QED  BY InitShape, NextShape, <1>1, PTL DEF Spec

-----------------------------------------------------------------------------
(* What a session leaves behind.                                            *)

\* The common end takes the handle back and tells the hook.
LEMMA CloseIsQuiet ==
  ASSUME Close
  PROVE  main' = "joinCapture" /\ hook' = "finished" /\ ~published'
BY DEF Close

LEMMA SupervisorPhases ==
  ASSUME Phases, Supervisor
  PROVE  Phases'
<1> USE DEF Phases, Finished, super, queues, catcher, boards, workers, rest, mind
<1>1. CASE Refuse \/ SpawnOutput
  BY <1>1 DEF Refuse, SpawnOutput
<1>2. CASE WaitForPads
  BY <1>2 DEF WaitForPads, GiveUp
<1>3. CASE SpawnCapture
  BY <1>3 DEF SpawnCapture, GiveUp
<1>4. CASE SpawnEngine
  BY <1>4, UnwindIsQuiet DEF SpawnEngine
<1>5. CASE Block
  BY <1>5 DEF Block
<1>6. CASE StartHook
  BY <1>6, UnwindIsQuiet, CloseIsQuiet DEF StartHook
<1>7. CASE CheckHealth
  BY <1>7 DEF CheckHealth, Decide, Goto
<1>8. CASE MirrorEscapes
  BY <1>8 DEF MirrorEscapes, Decide, Goto
<1>9. CASE Hotplug
  BY <1>9 DEF Hotplug, Goto
<1>10. CASE PollHook
  BY <1>10, UnwindIsQuiet DEF PollHook, Decide, Goto
<1>11. CASE CheckWorkers
  BY <1>11 DEF CheckWorkers, Decide, Goto
<1>12. CASE ReadMail
  BY <1>12 DEF ReadMail, Decide, Goto
<1>13. CASE Teardown
  BY <1>13, CloseIsQuiet DEF Teardown
<1>14. CASE JoinCapture \/ JoinEngine \/ JoinOutput
  BY <1>14 DEF JoinCapture, JoinEngine, JoinOutput, Goto
<1> QED  BY <1>1, <1>2, <1>3, <1>4, <1>5, <1>6, <1>7, <1>8, <1>9, <1>10, <1>11, <1>12, <1>13,
            <1>14 DEF Supervisor

LEMMA OthersPhases ==
  ASSUME Phases, Output \/ Capture \/ EngineEnds \/ Gesture \/ \E d \in Devices : PlugBoard(d)
  PROVE  Phases'
<1> USE DEF Phases, Finished, super, queues, catcher, boards, workers, rest, mind
<1>1. CASE Output
  <2>1. UNCHANGED <<main, capture, engine, hook, published>>
    BY <1>1 DEF Output, PlugPad, Undo, PadsReady, UpdateFails, Unplug, OutputDies
  <2>2. output # "none" /\ (Finished(output) => Finished(output'))
    BY <1>1 DEF Output, PlugPad, Undo, PadsReady, UpdateFails, Unplug, OutputDies
  <2> QED  BY <2>1, <2>2
<1>2. CASE Capture
  BY <1>2 DEF Capture, Obey, WatchdogTrips, CaptureEnds
<1>3. CASE EngineEnds
  BY <1>3 DEF EngineEnds
<1>4. CASE Gesture \/ \E d \in Devices : PlugBoard(d)
  BY <1>4 DEF Gesture, PlugBoard
<1> QED  BY <1>1, <1>2, <1>3, <1>4

LEMMA NextPhases == Phases /\ [Next]_vars => Phases'
<1>1. Phases /\ UNCHANGED vars => Phases'
  BY DEF Phases, Finished, vars, super, queues, catcher, boards, workers, rest
<1> QED  BY <1>1, SupervisorPhases, OthersPhases DEF Next

LEMMA InitPhases == Init => Phases
BY DEF Init, Phases

\* Whatever ended it, a session that returns has told the hook it once started,
\* has taken its engine handle back, and has joined every thread it spawned.
THEOREM NothingIsLeftBehind == Spec => []NothingIsLeft
<1>1. Phases => NothingIsLeft
  BY DEF Phases, NothingIsLeft, Finished
<1> QED  BY InitPhases, NextPhases, <1>1, PTL DEF Spec

-----------------------------------------------------------------------------
(* The order of start-up and teardown.                                      *)

LEMMA ReportedFrom ==
  ASSUME msgs \in Seq(Reports)
  PROVE  /\ msgs # <<>> /\ Head(msgs) = "ready" => Reported
         /\ msgs # <<>> /\ msgs' = Tail(msgs) /\ Reported' => Reported
         /\ \A m \in Reports \ {"ready"} : msgs' = Append(msgs, m) /\ Reported' => Reported
         /\ msgs' = msgs => (Reported' <=> Reported)
<1>1. ASSUME msgs # <<>>, Head(msgs) = "ready"
      PROVE  Reported
  <2>1. 1 \in DOMAIN msgs /\ msgs[1] = "ready"
    BY <1>1
  <2> QED  BY <2>1 DEF Reported
<1>2. ASSUME msgs # <<>>, msgs' = Tail(msgs), Reported'
      PROVE  Reported
  <2>1. PICK i \in DOMAIN msgs' : msgs'[i] = "ready"
    BY <1>2 DEF Reported
  <2>2. i + 1 \in DOMAIN msgs /\ msgs[i + 1] = "ready"
    BY <1>2, <2>1
  <2> QED  BY <2>2 DEF Reported
<1>3. ASSUME NEW m \in Reports \ {"ready"}, msgs' = Append(msgs, m), Reported'
      PROVE  Reported
  <2>1. PICK i \in DOMAIN msgs' : msgs'[i] = "ready"
    BY <1>3 DEF Reported
  <2>2. i \in DOMAIN msgs /\ msgs[i] = "ready"
    BY <1>3, <2>1
  <2> QED  BY <2>2 DEF Reported
<1>4. msgs' = msgs => (Reported' <=> Reported)
  BY DEF Reported
<1> QED  BY <1>1, <1>2, <1>3, <1>4

LEMMA SupervisorPacing ==
  ASSUME Joined, Pacing, Supervisor
  PROVE  Pacing'
<1>s. msgs \in Seq(Reports)
  BY DEF Joined, Shape
<1> USE DEF Joined, Phases, Pacing, Finished, super, queues, catcher, boards, workers, rest, mind
<1>u. ASSUME Unwind, main \in {"engine", "hook", "game"}, UNCHANGED <<capture, output, plugged, pass>>
      PROVE  Pacing'
  <2>1. main' = "unwound" /\ octl' = TRUE /\ msgs' = msgs
    BY <1>u, UnwindIsQuiet
  <2>2. output \notin {"none", "plug", "undo"}
    BY <1>u
  <2> QED  BY <1>u, <2>1, <2>2
<1>1. CASE Refuse \/ SpawnOutput
  BY <1>1, <1>s, ReportedFrom DEF Refuse, SpawnOutput
<1>2. CASE WaitForPads
  BY <1>2, <1>s, ReportedFrom DEF WaitForPads, GiveUp
<1>3. CASE SpawnCapture
  BY <1>3, <1>s, ReportedFrom DEF SpawnCapture, GiveUp
<1>4. CASE SpawnEngine
  <2>1. CASE Unwind
    BY <1>4, <2>1, <1>u DEF SpawnEngine
  <2>2. CASE ~Unwind
    BY <1>4, <2>2, <1>s, ReportedFrom DEF SpawnEngine
  <2> QED  BY <2>1, <2>2
<1>5. CASE Block
  BY <1>5, <1>s, ReportedFrom DEF Block
<1>6. CASE StartHook
  <2>1. CASE Unwind
    BY <1>6, <2>1, <1>u DEF StartHook
  <2>2. CASE ~Unwind
    <3>1. main' \in {"top", "joinCapture"} /\ UNCHANGED <<octl, msgs>>
      BY <1>6, <2>2, CloseIsQuiet DEF StartHook
    <3> QED  BY <1>6, <3>1, <1>s, ReportedFrom DEF StartHook
  <2> QED  BY <2>1, <2>2
<1>7. CASE CheckHealth
  BY <1>7, <1>s, ReportedFrom DEF CheckHealth, Decide, Goto
<1>8. CASE MirrorEscapes
  BY <1>8, <1>s, ReportedFrom DEF MirrorEscapes, Decide, Goto
<1>9. CASE Hotplug
  BY <1>9, <1>s, ReportedFrom DEF Hotplug, Goto
<1>10. CASE PollHook
  <2>1. CASE Unwind
    BY <1>10, <2>1, <1>u DEF PollHook
  <2>2. CASE ~Unwind
    BY <1>10, <2>2, <1>s, ReportedFrom DEF PollHook, Decide, Goto
  <2> QED  BY <2>1, <2>2
<1>11. CASE CheckWorkers
  BY <1>11, <1>s, ReportedFrom DEF CheckWorkers, Decide, Goto
<1>12. CASE ReadMail
  BY <1>12, <1>s, ReportedFrom DEF ReadMail, Decide, Goto
<1>13. CASE Teardown
  BY <1>13, <1>s, ReportedFrom, CloseIsQuiet DEF Teardown
<1>14. CASE JoinCapture \/ JoinEngine \/ JoinOutput
  BY <1>14, <1>s, ReportedFrom DEF JoinCapture, JoinEngine, JoinOutput, Goto
<1> QED  BY <1>1, <1>2, <1>3, <1>4, <1>5, <1>6, <1>7, <1>8, <1>9, <1>10, <1>11, <1>12, <1>13,
            <1>14 DEF Supervisor

LEMMA OthersPacing ==
  ASSUME Joined, Pacing, Output \/ Capture \/ EngineEnds \/ Gesture \/ \E d \in Devices : PlugBoard(d)
  PROVE  Pacing'
<1>s. msgs \in Seq(Reports)
  BY DEF Joined, Shape
<1> USE DEF Joined, Phases, Pacing, Finished, super, queues, catcher, boards, workers, rest, mind
<1>1. CASE PlugPad
  BY <1>1, <1>s, ReportedFrom DEF PlugPad
<1>2. CASE Undo
  BY <1>2, <1>s, ReportedFrom DEF Undo, Reports
<1>3. CASE PadsReady
  BY <1>3 DEF PadsReady
<1>4. CASE UpdateFails
  BY <1>4 DEF UpdateFails
<1>5. CASE Unplug
  BY <1>5, <1>s, ReportedFrom DEF Unplug
<1>6. CASE OutputDies
  BY <1>6 DEF OutputDies
<1>7. CASE Obey
  BY <1>7, <1>s, ReportedFrom DEF Obey
<1>8. CASE WatchdogTrips \/ CaptureEnds
  BY <1>8, <1>s, ReportedFrom DEF WatchdogTrips, CaptureEnds
<1>9. CASE EngineEnds
  BY <1>9, <1>s, ReportedFrom DEF EngineEnds
<1>10. CASE Gesture \/ \E d \in Devices : PlugBoard(d)
  BY <1>10, <1>s, ReportedFrom DEF Gesture, PlugBoard
<1> QED  BY <1>1, <1>2, <1>3, <1>4, <1>5, <1>6, <1>7, <1>8, <1>9, <1>10 DEF Output, Capture

LEMMA NextPaced == Paced /\ [Next]_vars => Paced'
<1>1. Pacing /\ UNCHANGED vars => Pacing'
  BY DEF Pacing, Reported, vars, super, queues, catcher, boards, workers, rest
<1>2. Joined /\ [Next]_vars => Joined'
  BY NextShape, NextPhases DEF Joined
<1> QED  BY <1>1, <1>2, SupervisorPacing, OthersPacing DEF Next, Paced

LEMMA InitPaced == Init => Paced
<1>1. Init => Pacing
  BY DEF Init, Pacing, Reported
<1> QED  BY <1>1, InitShape, InitPhases DEF Paced, Joined

-----------------------------------------------------------------------------
(* Session implements SessionOrder.                                         *)

Busy    == Taken # {}
Closing == stop # "none" \/ main = "unwound"
Broken  == main = "unwound" \/ output = "dead"

\* The steps of the contract, over the three conditions it is about.
LEMMA ContractSteps ==
  ASSUME \/ plugged' = plugged /\ (Busy' <=> Busy) /\ (Closing' <=> Closing) /\ (Broken' <=> Broken)
         \/ plugged' = plugged /\ (Busy' <=> Busy) /\ Closing' /\ (Broken' <=> Broken)
         \/ plugged' \in {0, plugged} /\ (Busy' <=> Busy) /\ (Closing => Closing') /\ Broken'
         \/ /\ plugged' = plugged /\ (plugged = Pads \/ Broken \/ ~Busy')
            /\ (Closing' <=> Closing) /\ (Broken' <=> Broken)
         \/ /\ ~Busy /\ ~Busy' /\ plugged < Pads /\ plugged' = plugged + 1
            /\ (Closing' <=> Closing) /\ (Broken' <=> Broken)
         \/ /\ (Busy' <=> Busy) /\ plugged > 0 /\ (~Busy \/ Broken) /\ plugged' \in 0 .. plugged - 1
            /\ (Closing' <=> Closing) /\ (Broken' <=> Broken)
  PROVE  [Contract!Next]_(Contract!vars)
BY DEF Contract!Next, Contract!vars, Contract!Plug, Contract!Unplug, Contract!Take, Contract!Free,
       Contract!Close, Contract!Break, Busy, Closing, Broken

\* While the capture session lives, the pads are all there or excused.
LEMMA PadsAreThere ==
  ASSUME Paced, capture = "on"
  PROVE  plugged = Pads \/ Broken
<1>1. Shape /\ Phases /\ Pacing
  BY DEF Paced, Joined
<1>2. CASE main # "unwound"
  <2>1. ~octl
    BY <1>1, <1>2 DEF Phases, Pacing
  <2>2. output \in {"on", "failed", "dead"}
    BY <1>1, <2>1 DEF Shape, TypeOK, Pacing
  <2> QED  BY <1>1, <2>2 DEF Pacing, Broken
<1> QED  BY <1>2 DEF Broken

LEMMA SupervisorImplements ==
  ASSUME Paced, Supervisor
  PROVE  [Contract!Next]_(Contract!vars)
<1>1. msgs \in Seq(Reports) /\ health \in {"ok", "panicked", "tripped"} /\ (capture = "none" => pass)
  BY DEF Paced, Joined, Shape, Pacing
<1>s. (main = "start" => output = "none") /\ (main = "capture" => capture = "none")
  BY DEF Paced, Joined, Phases
<1> USE DEF Closing, Broken, Finished, super, queues, catcher, boards, workers, rest, mind
<1>2. /\ main # "unwound" /\ plugged' = plugged /\ (Closing => Closing')
      /\ output' = "dead" <=> output = "dead"
  <2>1. CASE Refuse \/ SpawnOutput \/ WaitForPads \/ SpawnCapture \/ Block
    BY <2>1, <1>s DEF Refuse, SpawnOutput, WaitForPads, GiveUp, SpawnCapture, Block
  <2>2. CASE SpawnEngine
    BY <2>2, UnwindIsQuiet DEF SpawnEngine
  <2>3. CASE StartHook
    BY <2>3, UnwindIsQuiet DEF StartHook, Close
  <2>4. CASE CheckHealth
    BY <2>4, <1>1 DEF CheckHealth, Decide, Goto
  <2>5. CASE MirrorEscapes \/ Hotplug
    BY <2>5 DEF MirrorEscapes, Hotplug, Decide, Goto
  <2>6. CASE PollHook
    BY <2>6, UnwindIsQuiet DEF PollHook, Decide, Goto
  <2>7. CASE CheckWorkers
    BY <2>7 DEF CheckWorkers, Decide, Goto
  <2>8. CASE ReadMail
    <3>1. msgs # <<>> => Head(msgs) # "none"
      BY <1>1 DEF Reports
    <3> QED  BY <2>8, <3>1 DEF ReadMail, Decide, Goto
  <2>9. CASE Teardown \/ JoinCapture \/ JoinEngine \/ JoinOutput
    BY <2>9 DEF Teardown, Close, JoinCapture, JoinEngine, JoinOutput, Goto
  <2> QED  BY <2>1, <2>2, <2>3, <2>4, <2>5, <2>6, <2>7, <2>8, <2>9 DEF Supervisor
<1>3. Busy' <=> Busy
  <2>1. CASE SpawnCapture
    BY <2>1, <1>1, <1>s DEF SpawnCapture, Busy, Taken
  <2>2. CASE ~SpawnCapture
    <3>1. UNCHANGED <<capture, captured, pass, latch>>
      BY <2>2 DEF Supervisor, Refuse, SpawnOutput, WaitForPads, SpawnEngine, Block, StartHook,
                  CheckHealth, MirrorEscapes, Hotplug, PollHook, CheckWorkers, ReadMail, Teardown,
                  JoinCapture, JoinEngine, JoinOutput
    <3> QED  BY <3>1 DEF Busy, Taken
  <2> QED  BY <2>1, <2>2
<1>4. CASE main' = "unwound"
  BY <1>2, <1>3, <1>4, ContractSteps
<1>5. CASE main' # "unwound"
  <2>1. Broken' <=> Broken
    BY <1>2, <1>5
  <2>2. (Closing' <=> Closing) \/ Closing'
    BY <1>2
  <2> QED  BY <1>2, <1>3, <2>1, <2>2, ContractSteps
<1> QED  BY <1>4, <1>5

LEMMA OutputImplements ==
  ASSUME Paced, Output
  PROVE  [Contract!Next]_(Contract!vars)
<1>1. Shape /\ Phases /\ Pacing
  BY DEF Paced, Joined
<1>2. plugged \in 0 .. Pads /\ Pads \in Nat
  BY <1>1, SessionAssumption DEF Shape, TypeOK
<1>3. /\ UNCHANGED <<main, stop, capture, captured, pass, latch>>
      /\ (Busy' <=> Busy) /\ (Closing' <=> Closing)
  <2>1. UNCHANGED <<main, stop, capture, captured, pass, latch>>
    BY DEF Output, PlugPad, Undo, PadsReady, UpdateFails, Unplug, OutputDies, super, catcher
  <2> QED  BY <2>1 DEF Busy, Taken, Closing
<1>4. CASE output \in {"plug", "undo"} /\ ~OutputDies
  <2>1. ~Busy
    BY <1>1, <1>4 DEF Pacing, Busy, Taken
  <2>2. /\ \/ plugged' = plugged
           \/ plugged < Pads /\ plugged' = plugged + 1
           \/ plugged > 0 /\ plugged' = plugged - 1
        /\ output' # "dead"
    BY <1>4 DEF Output, PlugPad, Undo, PadsReady, UpdateFails, Unplug
  <2>3. Broken' <=> Broken
    BY <1>3, <1>4, <2>2 DEF Broken
  <2>4. plugged' = plugged \/ (plugged < Pads /\ plugged' = plugged + 1)
          \/ (plugged > 0 /\ plugged' \in 0 .. plugged - 1)
    BY <1>2, <2>2
  <2> QED  BY <1>3, <2>1, <2>3, <2>4, ContractSteps
<1>5. CASE output \in {"on", "failed"} /\ ~OutputDies
  <2>1. plugged' = plugged /\ output' # "dead"
    BY <1>5 DEF Output, PlugPad, Undo, PadsReady, UpdateFails, Unplug
  <2>2. Broken' <=> Broken
    BY <1>3, <1>5, <2>1 DEF Broken
  <2> QED  BY <1>3, <2>1, <2>2, ContractSteps
<1>6. CASE output = "unplug" /\ ~OutputDies
  <2>1. ~Busy \/ Broken
    BY <1>1, <1>6 DEF Phases, Pacing, Busy, Taken, Broken
  <2>2. (plugged' = plugged \/ (plugged > 0 /\ plugged' = plugged - 1)) /\ output' # "dead"
    BY <1>6 DEF Output, PlugPad, Undo, PadsReady, UpdateFails, Unplug
  <2>3. Broken' <=> Broken
    BY <1>3, <1>6, <2>2 DEF Broken
  <2>4. plugged' = plugged \/ (plugged > 0 /\ plugged' \in 0 .. plugged - 1)
    BY <1>2, <2>2
  <2> QED  BY <1>3, <2>1, <2>3, <2>4, ContractSteps
<1>7. CASE OutputDies
  <2>1. plugged' = 0 /\ Broken'
    BY <1>7 DEF OutputDies, Broken
  <2> QED  BY <1>3, <2>1, ContractSteps
<1> QED  BY <1>4, <1>5, <1>6, <1>7 DEF Output, PlugPad, Undo, PadsReady, UpdateFails, Unplug

LEMMA RestImplements ==
  ASSUME Paced, Capture \/ EngineEnds \/ Gesture \/ \E d \in Devices : PlugBoard(d)
  PROVE  [Contract!Next]_(Contract!vars)
<1>1. /\ UNCHANGED <<main, stop, output, plugged>>
      /\ (Closing' <=> Closing) /\ (Broken' <=> Broken)
  <2>1. UNCHANGED <<main, stop, output, plugged>>
    BY DEF Capture, Obey, WatchdogTrips, CaptureEnds, EngineEnds, Gesture, PlugBoard, super, workers
  <2> QED  BY <2>1 DEF Closing, Broken
<1>2. Busy' => capture = "on"
  <2>1. capture' = "on" => capture = "on"
    BY DEF Capture, Obey, WatchdogTrips, CaptureEnds, EngineEnds, Gesture, PlugBoard, catcher
  <2> QED  BY <2>1 DEF Busy, Taken
<1>3. plugged = Pads \/ Broken \/ ~Busy'
  BY <1>2, PadsAreThere
<1> QED  BY <1>1, <1>3, ContractSteps

\* The session keeps "the two orders that matter": the pads are all there before
\* a keyboard is taken, none leaves while one is taken, and only a driver thread
\* that dies, or a supervisor that unwinds, is excused.
THEOREM SessionKeepsOrder == Spec => KeepsOrder
<1>1. Init => Contract!Init
  BY DEF Init, Contract!Init, Taken
<1>2. Paced /\ [Next]_vars => [Contract!Next]_(Contract!vars)
  <2>1. UNCHANGED vars => UNCHANGED Contract!vars
    BY DEF vars, super, queues, catcher, boards, workers, rest, Contract!vars, Taken
  <2> QED  BY <2>1, SupervisorImplements, OutputImplements, RestImplements DEF Next
<1> QED  BY <1>1, <1>2, InitPaced, NextPaced, PTL DEF Spec, KeepsOrder, Contract!Spec

-----------------------------------------------------------------------------
(* The two switches agree.                                                  *)

LEMMA OtherTwice ==
  ASSUME NEW b \in BOOLEAN, NEW m \in Nat, NEW n \in Nat
  PROVE  Other(Other(b, m), n) = Other(b, m + n)
<1>1. (m + n) % 2 = 0 <=> (m % 2 = 0 <=> n % 2 = 0)
  OBVIOUS
<1> QED  BY <1>1 DEF Other

\* The last order in the queue after more have been put at its end.
LEMMA LastOrder ==
  ASSUME NEW s \in Seq(Orders), NEW t \in Seq(Orders)
  PROVE  /\ t # <<>> => s \o t # <<>> /\ (s \o t)[Len(s \o t)] = t[Len(t)]
         /\ t = <<>> => s \o t = s
         /\ \A m \in Orders : Append(s, m) # <<>> /\ Append(s, m)[Len(Append(s, m))] = m
         /\ s # <<>> /\ Tail(s) # <<>> => Tail(s)[Len(Tail(s))] = s[Len(s)]
         /\ s # <<>> /\ Tail(s) = <<>> => Head(s) = s[Len(s)]
<1>1. /\ t # <<>> => s \o t # <<>> /\ (s \o t)[Len(s \o t)] = t[Len(t)]
      /\ t = <<>> => s \o t = s
  OBVIOUS
<1>2. \A m \in Orders : Append(s, m) # <<>> /\ Append(s, m)[Len(Append(s, m))] = m
  OBVIOUS
<1>3. ASSUME s # <<>>
      PROVE  /\ Tail(s) # <<>> => Tail(s)[Len(Tail(s))] = s[Len(s)]
             /\ Tail(s) = <<>> => Head(s) = s[Len(s)]
  <2>1. /\ Len(s) \in Nat /\ Len(s) > 0 /\ Len(Tail(s)) = Len(s) - 1 /\ Head(s) = s[1]
        /\ \A i \in 1 .. Len(s) - 1 : Tail(s)[i] = s[i + 1]
        /\ Tail(s) \in Seq(Orders)
    BY <1>3
  <2>2. Tail(s) # <<>> => Len(Tail(s)) > 0
    BY ONLY <2>1
  <2>3. Tail(s) = <<>> => Len(Tail(s)) = 0
    <3>1. Len(<<>>) = 0
      OBVIOUS
    <3> QED  BY ONLY <3>1
  <2>4. Tail(s) = <<>> => Len(s) = 1
    BY ONLY <2>1, <2>3
  <2>5. Tail(s) # <<>> => Len(s) - 1 \in 1 .. Len(s) - 1 /\ (Len(s) - 1) + 1 = Len(s)
    BY ONLY <2>1, <2>2
  <2> QED  BY ONLY <2>1, <2>4, <2>5
<1> QED  BY ONLY <1>1, <1>2, <1>3

\* Every gesture that is mirrored moves the switch and the last order with it.
LEMMA MirrorKeepsTold ==
  ASSUME Shape, Told, MirrorEscapes
  PROVE  Told'
<1> DEFINE n == escapes.toggles - seen.toggles
           orders == Mirrored(blocking, n, present)
<1>1. /\ n \in Nat /\ blocking \in BOOLEAN /\ present \in SUBSET Devices /\ ctl \in Seq(Orders)
  BY DEF Shape, TypeOK, Count
<1>2. /\ orders \in Seq(Orders) /\ Len(orders) = n
      /\ n > 0 => orders[n] = ApplyCapture(Other(blocking, n), present)
  BY <1>1, MirroredIsSeq
<1>3. /\ ctl' = ctl \o orders /\ blocking' = Other(blocking, n)
      /\ UNCHANGED <<present, pass, captured, health>>
  BY DEF MirrorEscapes, rest, catcher
<1> HIDE DEF n, orders
<1>4. CASE n = 0
  <2>1. orders = <<>>
    BY <1>2, <1>4
  <2>2. ctl' = ctl /\ blocking' = blocking
    BY <1>1, <1>2, <1>3, <1>4, <2>1, LastOrder DEF Other
  <2> QED  BY <1>3, <2>2 DEF Told
<1>5. CASE n > 0
  <2>1. orders # <<>>
    BY <1>2, <1>5
  <2>2. ctl' # <<>> /\ ctl'[Len(ctl')] = ApplyCapture(blocking', present')
    BY <1>1, <1>2, <1>3, <1>5, <2>1, LastOrder
  <2> QED  BY <2>2 DEF Told
<1> QED  BY <1>1, <1>4, <1>5

\* A capture thread that obeys comes one order closer to the last.
LEMMA ObeyKeepsTold ==
  ASSUME Shape, Told, Obey
  PROVE  Told'
<1>1. ctl \in Seq(Orders) /\ ctl # <<>> /\ ctl' = Tail(ctl) /\ UNCHANGED <<blocking, present, health>>
  BY DEF Shape, Obey, super
<1>2. ctl[Len(ctl)] = ApplyCapture(blocking, present)
  BY <1>1 DEF Told
<1>3. CASE ctl' # <<>>
  BY <1>1, <1>2, <1>3, LastOrder DEF Told
<1>4. CASE ctl' = <<>>
  <2>1. Head(ctl) = ApplyCapture(blocking, present)
    BY <1>1, <1>2, <1>4, LastOrder
  <2>2. /\ captured' = (IF Head(ctl).type = "take" THEN Head(ctl).ids ELSE captured)
        /\ pass' <=> Head(ctl).type # "take"
    BY DEF Obey
  <2>3. CASE blocking /\ present # {}
    <3>1. Head(ctl).type = "take" /\ Head(ctl).ids = present
      BY <2>1, <2>3 DEF ApplyCapture, Take
    <3> QED  BY <1>1, <1>4, <2>2, <2>3, <3>1 DEF Told
  <2>4. CASE ~(blocking /\ present # {})
    <3>1. Head(ctl).type # "take"
      BY <2>1, <2>4 DEF ApplyCapture, Passthrough
    <3> QED  BY <1>1, <1>4, <2>2, <2>4, <3>1 DEF Told
  <2> QED  BY <2>3, <2>4
<1> QED  BY <1>3, <1>4

LEMMA SupervisorSwitches ==
  ASSUME Shape, Switches, Supervisor
  PROVE  Switches'
<1> USE DEF super, queues, catcher, boards, workers, rest, mind
<1>1. UNCHANGED <<blocks, latch, escapes, pass, captured, health>>
  BY DEF Supervisor, Refuse, SpawnOutput, WaitForPads, SpawnCapture, SpawnEngine, Block, StartHook,
         CheckHealth, MirrorEscapes, Hotplug, PollHook, CheckWorkers, ReadMail, Teardown,
         JoinCapture, JoinEngine, JoinOutput
<1>2. blocking' = Other(blocks', seen'.toggles)
  <2>1. CASE UNCHANGED <<blocking, seen>>
    BY <1>1, <2>1 DEF Switches
  <2>2. CASE MirrorEscapes \/ Teardown
    <3>1. /\ blocking' = Other(blocking, escapes.toggles - seen.toggles)
          /\ seen'.toggles = escapes.toggles
      BY <2>2 DEF MirrorEscapes, Teardown, Shape, Count
    <3>2. /\ seen.toggles \in Nat /\ escapes.toggles - seen.toggles \in Nat /\ blocks \in BOOLEAN
          /\ seen.toggles + (escapes.toggles - seen.toggles) = escapes.toggles
      BY DEF Shape, Count
    <3>3. blocking = Other(blocks, seen.toggles)
      BY DEF Switches
    <3> QED  BY <1>1, <3>1, <3>2, <3>3, OtherTwice
  <2>3. UNCHANGED <<blocking, seen>> \/ MirrorEscapes \/ Teardown
    BY UnwindIsQuiet
       DEF Supervisor, Refuse, SpawnOutput, WaitForPads, SpawnCapture, SpawnEngine, Block, StartHook,
           CheckHealth, Hotplug, PollHook, CheckWorkers, ReadMail, JoinCapture, JoinEngine, JoinOutput
  <2> QED  BY <2>1, <2>2, <2>3
<1>3. ASSUME main' \in Loop \cup {"hook"}
      PROVE  Told'
  <2>1. CASE Block
    <3>1. ApplyCapture(blocking, present) \in Orders /\ ctl \in Seq(Orders)
      BY OrdersAreOrders DEF Shape, TypeOK
    <3>2. ctl' = Append(ctl, ApplyCapture(blocking, present)) /\ UNCHANGED <<blocking, present>>
      BY <2>1 DEF Block
    <3> QED  BY <3>1, <3>2, LastOrder DEF Told
  <2>2. CASE MirrorEscapes
    BY <2>2, MirrorKeepsTold DEF Switches, MirrorEscapes, Loop
  <2>3. CASE Hotplug
    <3>1. Told
      BY <2>3 DEF Switches, Hotplug, Loop
    <3>2. PICK now \in {present, there} :
            /\ present' = now
            /\ ctl' = IF now = present THEN ctl ELSE Append(ctl, ApplyCapture(blocking, now))
      BY <2>3 DEF Hotplug
    <3>3. ApplyCapture(blocking, now) \in Orders /\ ctl \in Seq(Orders) /\ blocking' = blocking
      BY <2>3, OrdersAreOrders DEF Shape, TypeOK, Hotplug
    <3>4. CASE now = present
      BY <1>1, <3>1, <3>2, <3>3, <3>4 DEF Told
    <3>5. CASE now # present
      BY <3>2, <3>3, <3>5, LastOrder DEF Told
    <3> QED  BY <3>4, <3>5
  <2>4. CASE ~Block /\ ~MirrorEscapes /\ ~Hotplug
    <3>1. main \in Loop \cup {"hook"} /\ UNCHANGED <<ctl, blocking, present>>
      BY <1>3, <2>4, UnwindIsQuiet, CloseIsQuiet
         DEF Supervisor, Refuse, SpawnOutput, WaitForPads, GiveUp, SpawnCapture, SpawnEngine,
             StartHook, CheckHealth, PollHook, CheckWorkers, ReadMail, Teardown, JoinCapture,
             JoinEngine, JoinOutput, Goto, Decide, Loop
    <3> QED  BY <1>1, <3>1 DEF Switches, Told
  <2> QED  BY <2>1, <2>2, <2>3, <2>4
<1> QED  BY <1>1, <1>2, <1>3 DEF Switches

LEMMA OthersSwitches ==
  ASSUME Shape, Switches, Output \/ Capture \/ EngineEnds \/ Gesture \/ \E d \in Devices : PlugBoard(d)
  PROVE  Switches'
<1> USE DEF super, queues, catcher, boards, workers, rest, mind
<1>1. CASE Output
  BY <1>1 DEF Output, PlugPad, Undo, PadsReady, UpdateFails, Unplug, OutputDies, Switches, Told
<1>2. CASE EngineEnds \/ \E d \in Devices : PlugBoard(d)
  BY <1>2 DEF EngineEnds, PlugBoard, Switches, Told
<1>3. CASE Obey
  <2>1. UNCHANGED <<main, blocks, blocking, seen, escapes, latch>>
    BY <1>3 DEF Obey
  <2> QED  BY <1>3, <2>1, ObeyKeepsTold DEF Switches
<1>4. CASE WatchdogTrips \/ CaptureEnds
  <2>1. /\ UNCHANGED <<main, blocks, blocking, present, seen, ctl, captured, escapes, latch>>
        /\ UNCHANGED <<pass, health>> \/ health' # "ok"
    BY <1>4 DEF WatchdogTrips, CaptureEnds
  <2> QED  BY <2>1 DEF Switches, Told
<1>5. CASE Gesture
  <2>1. UNCHANGED <<main, blocks, blocking, present, seen, ctl, captured, pass, health>>
    BY <1>5 DEF Gesture
  <2>2. escapes'.stops = 0 => (latch' <=> escapes'.toggles % 2 = 1)
    <3>1. escapes \in Count
      BY DEF Shape
    <3>2. CASE latch' = ~latch /\ escapes' = [escapes EXCEPT !.toggles = @ + 1]
      <4>1. escapes'.stops = escapes.stops /\ escapes'.toggles = escapes.toggles + 1
        BY <3>1, <3>2 DEF Count
      <4>2. escapes'.toggles % 2 = 1 <=> ~(escapes.toggles % 2 = 1)
        BY <3>1, <4>1 DEF Count
      <4> QED  BY <3>2, <4>1, <4>2 DEF Switches
    <3>3. CASE escapes' = [escapes EXCEPT !.stops = 1]
      BY <3>1, <3>3 DEF Count
    <3> QED  BY <1>5, <3>2, <3>3 DEF Gesture
  <2> QED  BY <2>1, <2>2 DEF Switches, Told
<1> QED  BY <1>1, <1>2, <1>3, <1>4, <1>5 DEF Capture

LEMMA NextSynced == Synced /\ [Next]_vars => Synced'
<1>1. Switches /\ UNCHANGED vars => Switches'
  BY DEF Switches, Told, vars, super, queues, catcher, boards, workers, rest
<1> QED  BY <1>1, NextShape, SupervisorSwitches, OthersSwitches DEF Next, Synced

LEMMA InitSynced == Init => Synced
<1>1. Init => Switches
  BY DEF Init, Switches, Other, Loop
<1> QED  BY <1>1, InitShape DEF Synced

\* The supervisor's blocking and the capture threads' latch are moved by
\* different threads at different times.  Once every order is obeyed and every
\* gesture mirrored, a bound keyboard that is there is taken exactly when the
\* plan blocks and no escape is in force, whatever happened on the way.
THEOREM SwitchesComeToAgree == Spec => []SwitchesAgree
<1>1. Synced => SwitchesAgree
  <2> SUFFICES ASSUME Synced, Settled  PROVE Taken = IF blocks /\ ~latch THEN present ELSE {}
    BY DEF SwitchesAgree
  <2>1. /\ (IF pass THEN {} ELSE captured) = (IF blocking THEN present ELSE {})
        /\ blocking = Other(blocks, seen.toggles)
        /\ latch <=> seen.toggles % 2 = 1
    BY DEF Synced, Settled, Switches, Told
  <2>2. seen.toggles \in Nat /\ capture = "on"
    BY DEF Synced, Settled, Shape, Count
  <2>3. CASE latch
    BY <2>3 DEF Taken
  <2>4. CASE ~latch
    <3>1. seen.toggles % 2 = 0
      BY <2>1, <2>2, <2>4
    <3>2. blocking = blocks
      BY <2>1, <3>1 DEF Other
    <3> QED  BY <2>1, <2>2, <2>4, <3>2 DEF Taken
  <2> QED  BY <2>3, <2>4
<1> QED  BY <1>1, InitSynced, NextSynced, PTL DEF Spec
=============================================================================
