---------------------------- MODULE CaptureProofs ----------------------------
(***************************************************************************)
(* Theorems about Capture, for any boards, keys and queues: no switch of   *)
(* the driver thread or of its watchdog overrides another, and every panel *)
(* thread lets go of what it injected.                                     *)
(***************************************************************************)
EXTENDS Capture, TLAPS

LEMMA DriverRuns == Driver \in Threads /\ Panels \subseteq Threads
BY DEF Threads

-----------------------------------------------------------------------------
(* The reasons for passthrough.                                             *)

Flags ==
  /\ ctlPass \in [Threads -> BOOLEAN] /\ wdPass \in [Threads -> BOOLEAN]
  /\ wd \in [Threads -> {"ok", "failing", "tripped"}]

Reasons == Flags /\ ReasonsAreKept /\ WatchdogGuards

\* A thread that finds the channel full: only the driver thread publishes, and
\* what it publishes is passthrough.
LEMMA StalledReasons ==
  ASSUME Reasons, NEW t \in Threads, Stalled(t), ctlPass' = ctlPass
  PROVE  Reasons'
<1> USE DEF Reasons, Flags, ReasonsAreKept, WatchdogGuards
<1>1. CASE wd[t] = "ok" /\ wd' = [wd EXCEPT ![t] = "failing"] /\ UNCHANGED <<wdPass, known, snap>>
  BY <1>1
<1>2. CASE UNCHANGED <<wd, wdPass, known, snap>>
  BY <1>2
<1>3. CASE /\ wd[t] = "failing" /\ wd' = [wd EXCEPT ![t] = "tripped"]
           /\ wdPass' = [wdPass EXCEPT ![t] = TRUE]
           /\ known' = known /\ Publish(t, TRUE, captured[t])
  BY <1>3, DriverRuns DEF Publish
<1> QED  BY <1>1, <1>2, <1>3 DEF Stalled

LEMMA StrokeReasons ==
  ASSUME Reasons, NEW t \in Threads, NEW b \in Boards, NEW k \in Keys, NEW isDown \in BOOLEAN,
         Stroke(t, b, k, isDown)
  PROVE  Reasons'
<1>1. UNCHANGED <<ctlPass, wdPass, wd>>
  BY DEF Stroke
<1>2. snap' = snap \/ (t = Driver /\ snap'.pass = Freed(t))
  BY DEF Stroke, Publish
<1> QED  BY <1>1, <1>2 DEF Reasons, Flags, ReasonsAreKept, WatchdogGuards, Freed

LEMMA DrainReasons ==
  ASSUME Reasons, NEW t \in Threads, Drain(t)
  PROVE  Reasons'
<1> USE DriverRuns DEF Reasons, Flags, ReasonsAreKept, WatchdogGuards, Publish
<1> DEFINE m == Head(inbox[t])
<1>1. CASE SetCaptured(t, m.ids)
  BY <1>1 DEF SetCaptured
<1>2. CASE SetPassthrough(t)
  BY <1>2 DEF SetPassthrough
<1>3. CASE UNCHANGED <<captured, ctlPass, wdPass, wd, known, snap>>
  BY <1>3
<1> QED  BY <1>1, <1>2, <1>3 DEF Drain

LEMMA NextReasons == Reasons /\ [Next]_vars => Reasons'
<1> SUFFICES ASSUME Reasons, [Next]_vars  PROVE Reasons'
  OBVIOUS
<1> USE DEF thread, shared, panel, session, sink
<1>1. CASE Typing
  <2>1. ASSUME NEW b \in Boards, NEW k \in Keys, NEW isDown \in BOOLEAN, Unread(b, k, isDown)
        PROVE  Reasons'
    BY <2>1 DEF Unread, Reasons, Flags, ReasonsAreKept, WatchdogGuards
  <2> QED  BY <1>1, <2>1, StrokeReasons DEF Typing
<1>2. ASSUME NEW t \in Threads, Working(t)
      PROVE  Reasons'
  <2>1. CASE Toggle(t)
    BY <2>1 DEF Toggle, Reasons, Flags, ReasonsAreKept, WatchdogGuards
  <2>2. CASE PublishEscape(t)
    BY <2>2 DEF PublishEscape, Publish, Freed, Reasons, Flags, ReasonsAreKept, WatchdogGuards
  <2>3. ASSUME NEW blocked \in BOOLEAN, NEW releases \in BOOLEAN, Decide(t, blocked, releases)
        PROVE  Reasons'
    <3>1. ctlPass' = ctlPass
      BY <2>3 DEF Decide
    <3>2. CASE Stalled(t)
      BY <3>1, <3>2, StalledReasons
    <3>3. CASE ~Stalled(t)
      <4>1. /\ UNCHANGED <<wdPass, known, snap>>
            /\ wd' \in {wd, [wd EXCEPT ![t] = IF @ = "failing" THEN "ok" ELSE @]}
        BY <2>3, <3>3 DEF Decide
      <4> QED  BY <3>1, <4>1 DEF Reasons, Flags, ReasonsAreKept, WatchdogGuards
    <3> QED  BY <3>2, <3>3
  <2>4. CASE Drain(t)
    BY <2>4, DrainReasons
  <2> QED  BY <1>2, <2>1, <2>2, <2>3, <2>4 DEF Working
<1>3. ASSUME NEW t \in Threads, Panic(t) \/ DeviceLost(t)
      PROVE  Reasons'
  BY <1>3 DEF Panic, DeviceLost, Reasons, Flags, ReasonsAreKept, WatchdogGuards
<1>4. ASSUME NEW ids \in SUBSET Desks, Rescan(ids)
      PROVE  Reasons'
  BY <1>4 DEF Rescan, Publish, Freed, Reasons, Flags, ReasonsAreKept, WatchdogGuards
<1>5. CASE (\E m \in Messages : Order(m)) \/ Relay \/ ChildDown \/ Joined \/ Consume \/ EngineGone
            \/ UNCHANGED vars
  BY <1>5 DEF Order, Relay, ChildDown, Joined, Consume, EngineGone, vars,
              Reasons, Flags, ReasonsAreKept, WatchdogGuards
<1> QED  BY <1>1, <1>2, <1>3, <1>4, <1>5 DEF Next

LEMMA InitReasons == Init => Reasons
BY DEF Init, Reasons, Flags, ReasonsAreKept, WatchdogGuards

\* While the supervisor or the watchdog wants a desk keyboard free, no
\* publication, for whatever reason it was made, lets the driver thread suppress.
THEOREM ReasonsAreIndependent == Spec => []ReasonsAreKept
<1>1. Reasons => ReasonsAreKept
  BY DEF Reasons
<1> QED  BY <1>1, InitReasons, NextReasons, PTL DEF Spec

\* A thread whose watchdog is spent suppresses nothing: whoever lets it suppress
\* again gives it a fresh one.
THEOREM NobodySuppressesUnguarded == Spec => []WatchdogGuards
<1>1. Reasons => WatchdogGuards
  BY DEF Reasons
<1> QED  BY <1>1, InitReasons, NextReasons, PTL DEF Spec

-----------------------------------------------------------------------------
(* The escape is not undone from outside.                                   *)

\* A published snapshot lets everything through while the latch is up.
LEMMA PublishedWhileEscaped ==
  ASSUME NEW t \in Threads, NEW pass, NEW ids, pass, Publish(t, pass, ids), snap.pass
  PROVE  snap'.pass
BY DEF Publish

LEMMA NextSticks ==
  ASSUME [Next]_vars, latch, snap.pass
  PROVE  snap'.pass
<1> USE DEF thread, shared, panel, session, sink
<1>1. CASE Typing
  <2>1. ASSUME NEW b \in Boards, NEW k \in Keys, NEW isDown \in BOOLEAN, Unread(b, k, isDown)
        PROVE  snap'.pass
    BY <2>1 DEF Unread
  <2>2. ASSUME NEW t \in Threads, NEW b \in Boards, NEW k \in Keys, NEW isDown \in BOOLEAN,
               Stroke(t, b, k, isDown)
        PROVE  snap'.pass
    <3>1. snap' = snap \/ Publish(t, Freed(t), captured[t])
      BY <2>2 DEF Stroke
    <3> QED  BY <3>1, PublishedWhileEscaped DEF Freed
  <2> QED  BY <1>1, <2>1, <2>2 DEF Typing
<1>2. ASSUME NEW t \in Threads, Working(t)
      PROVE  snap'.pass
  <2>1. CASE Toggle(t)
    BY <2>1 DEF Toggle
  <2>2. CASE PublishEscape(t)
    BY <2>2, PublishedWhileEscaped DEF PublishEscape, Freed
  <2>3. ASSUME NEW blocked \in BOOLEAN, NEW releases \in BOOLEAN, Decide(t, blocked, releases)
        PROVE  snap'.pass
    <3>1. snap' = snap \/ Publish(t, TRUE, captured[t])
      BY <2>3 DEF Decide, Stalled
    <3> QED  BY <3>1, PublishedWhileEscaped
  <2>4. CASE Drain(t)
    <3>1. snap' = snap \/ (\E ids : Publish(t, latch, ids)) \/ Publish(t, TRUE, captured[t])
      BY <2>4 DEF Drain, SetCaptured, SetPassthrough
    <3> QED  BY <3>1, PublishedWhileEscaped
  <2> QED  BY <1>2, <2>1, <2>2, <2>3, <2>4 DEF Working
<1>3. ASSUME NEW t \in Threads, Panic(t) \/ DeviceLost(t)
      PROVE  snap'.pass
  BY <1>3 DEF Panic, DeviceLost
<1>4. ASSUME NEW ids \in SUBSET Desks, Rescan(ids)
      PROVE  snap'.pass
  BY <1>4, DriverRuns, PublishedWhileEscaped DEF Rescan, Freed
<1>5. CASE (\E m \in Messages : Order(m)) \/ Relay \/ ChildDown \/ Joined \/ Consume \/ EngineGone
            \/ UNCHANGED vars
  BY <1>5 DEF Order, Relay, ChildDown, Joined, Consume, EngineGone, vars
<1> QED  BY <1>1, <1>2, <1>3, <1>4, <1>5 DEF Next

\* Nothing a supervisor, a watchdog or a rescan does re-captures behind an
\* escape's back: while the latch is up, a desk keyboard that is free stays free.
THEOREM EscapesStick == Spec => EscapeSticks
<1>1. [Next]_vars => [latch /\ latch' /\ snap.pass => snap'.pass]_vars
  BY NextSticks
<1> QED  BY <1>1, PTL DEF Spec, EscapeSticks

-----------------------------------------------------------------------------
(* Panel threads let go.                                                    *)

\* A thread works on strokes of boards that it reads.
Hearing ==
  /\ pc \in [Threads -> {"loop", "toggle", "publish", "decide", "gone"}]
  /\ win = [b \in Boards |-> win[b]] /\ cur = [t \in Threads |-> cur[t]]
  /\ \A t \in Threads : pc[t] \in {"toggle", "publish", "decide"} => cur[t].board \in Hears(t)

LetGo == Hearing /\ PanelsLetGo

\* No board is read by a panel thread and by another.
LEMMA OwnBoards ==
  ASSUME NEW t \in Threads, NEW u \in Panels, u \in Hears(t)
  PROVE  t = u
BY CaptureAssumption DEF Hears, Threads

LEMMA StrokeLetGo ==
  ASSUME LetGo, NEW t \in Threads, NEW b \in Boards, NEW k \in Keys, NEW isDown \in BOOLEAN,
         Stroke(t, b, k, isDown)
  PROVE  LetGo'
<1>1. /\ UNCHANGED <<win, refused>> /\ pc[t] = "loop" /\ b \in Hears(t)
      /\ cur' = [cur EXCEPT ![t] = [board |-> b, key |-> k, down |-> isDown]]
  BY DEF Stroke
<1>2. \E p \in {"decide", "toggle", "publish"} : pc' = [pc EXCEPT ![t] = p]
  BY DEF Stroke
<1> QED  BY <1>1, <1>2 DEF LetGo, Hearing, PanelsLetGo

\* Whatever ends a panel thread releases its keys, or SendInput refuses.
LEMMA LeaveLetGo ==
  ASSUME LetGo, NEW t \in Threads, NEW why, NEW releases \in BOOLEAN, Leave(t, why, releases)
  PROVE  LetGo'
<1>1. /\ pc' = [pc EXCEPT ![t] = "gone"] /\ cur' = [cur EXCEPT ![t] = Nothing]
      /\ win' = IF t \in Panels /\ releases THEN [win EXCEPT ![t] = {}] ELSE win
      /\ refused' = IF t \in Panels /\ ~releases THEN refused \cup {t} ELSE refused
  BY DEF Leave
<1>2. Hearing'
  BY <1>1 DEF LetGo, Hearing
<1>3. PanelsLetGo'
  <2> SUFFICES ASSUME NEW u \in Panels \ refused', pc'[u] = "gone"  PROVE win'[u] = {}
    BY DEF PanelsLetGo
  <2>1. u \in Boards /\ u \in Threads
    BY CaptureAssumption DEF Threads
  <2>2. CASE u = t
    BY <1>1, <2>1, <2>2 DEF LetGo, Hearing
  <2>3. CASE u # t
    BY <1>1, <2>1, <2>3 DEF LetGo, Hearing, PanelsLetGo
  <2> QED  BY <2>2, <2>3
<1> QED  BY <1>2, <1>3 DEF LetGo

LEMMA DecideLetGo ==
  ASSUME LetGo, NEW t \in Threads, NEW blocked \in BOOLEAN, NEW releases \in BOOLEAN,
         Decide(t, blocked, releases)
  PROVE  LetGo'
<1> DEFINE typed == IF LetsThrough(t, cur[t]) /\ ~blocked THEN Typed(cur[t]) ELSE win
<1>1. /\ cur' = [cur EXCEPT ![t] = Nothing]
      /\ refused' = IF blocked \/ (~engine /\ ~releases) THEN refused \cup {t} ELSE refused
      /\ \/ win' = typed /\ pc' = [pc EXCEPT ![t] = "loop"]
         \/ /\ ~engine /\ pc' = [pc EXCEPT ![t] = "gone"]
            /\ win' = IF t \in Panels /\ releases THEN [typed EXCEPT ![t] = {}] ELSE typed
      /\ pc[t] = "decide"
  BY DEF Decide
<1>2. cur[t].board \in Hears(t)
  BY <1>1 DEF LetGo, Hearing
<1>3. typed = [b \in Boards |-> typed[b]] /\ \A u \in Boards : u # cur[t].board => typed[u] = win[u]
  BY DEF Typed, LetGo, Hearing
<1>4. \A u \in Panels : u # t => typed[u] = win[u]
  BY <1>2, <1>3, OwnBoards, CaptureAssumption
<1> HIDE DEF typed
<1>5. Hearing'
  BY <1>1, <1>3 DEF LetGo, Hearing
<1>6. PanelsLetGo'
  <2> SUFFICES ASSUME NEW u \in Panels \ refused', pc'[u] = "gone"  PROVE win'[u] = {}
    BY DEF PanelsLetGo
  <2>1. u \in Boards /\ u \in Threads
    BY CaptureAssumption DEF Threads
  <2>2. CASE u = t
    BY <1>1, <1>3, <2>1, <2>2 DEF LetGo, Hearing
  <2>3. CASE u # t
    <3>1. pc[u] = "gone" /\ u \notin refused
      BY <1>1, <2>1, <2>3 DEF LetGo, Hearing
    <3>2. win'[u] = typed[u]
      BY <1>1, <1>3, <2>1, <2>3
    <3> QED  BY <1>4, <2>3, <3>1, <3>2 DEF LetGo, PanelsLetGo
  <2> QED  BY <2>2, <2>3
<1> QED  BY <1>5, <1>6 DEF LetGo

LEMMA NextLetGo == LetGo /\ [Next]_vars => LetGo'
<1> SUFFICES ASSUME LetGo, [Next]_vars  PROVE LetGo'
  OBVIOUS
<1> USE DEF thread, shared, panel, session, sink
<1>q. ASSUME UNCHANGED <<pc, cur, win, refused>>
      PROVE  LetGo'
  BY <1>q DEF LetGo, Hearing, PanelsLetGo
<1>1. CASE Typing
  <2>1. ASSUME NEW b \in Boards, NEW k \in Keys, NEW isDown \in BOOLEAN, Unread(b, k, isDown)
        PROVE  LetGo'
    <3>1. UNCHANGED <<pc, cur, refused>>
      BY <2>1 DEF Unread
    <3>2. \A u \in Panels : win'[u] = win[u]
      BY <2>1, CaptureAssumption DEF Unread, Typed, LetGo, Hearing
    <3>3. win' = [c \in Boards |-> win'[c]]
      BY <2>1 DEF Unread, Typed, LetGo, Hearing
    <3> QED  BY <3>1, <3>2, <3>3 DEF LetGo, Hearing, PanelsLetGo
  <2> QED  BY <1>1, <2>1, StrokeLetGo DEF Typing
<1>2. ASSUME NEW t \in Threads, Working(t)
      PROVE  LetGo'
  <2>1. CASE Toggle(t)
    BY <2>1 DEF Toggle, LetGo, Hearing, PanelsLetGo
  <2>2. CASE PublishEscape(t)
    BY <2>2 DEF PublishEscape, LetGo, Hearing, PanelsLetGo
  <2>3. CASE Drain(t)
    <3>1. \/ UNCHANGED <<pc, cur, win, refused>>
          \/ \E releases \in BOOLEAN : Leave(t, "Shutdown", releases)
      BY <2>3 DEF Drain
    <3> QED  BY <3>1, <1>q, LeaveLetGo
  <2> QED  BY <1>2, <2>1, <2>2, <2>3, DecideLetGo DEF Working
<1>3. ASSUME NEW t \in Threads, Panic(t) \/ DeviceLost(t)
      PROVE  LetGo'
  <2>1. PICK why \in {"Panicked", "DeviceLost"}, releases \in BOOLEAN : Leave(t, why, releases)
    BY <1>3 DEF Panic, DeviceLost
  <2> QED  BY <2>1, LeaveLetGo
<1>4. ASSUME NEW ids \in SUBSET Desks, Rescan(ids)
      PROVE  LetGo'
  BY <1>4, <1>q DEF Rescan
<1>5. CASE (\E m \in Messages : Order(m)) \/ Relay \/ ChildDown \/ Joined \/ Consume \/ EngineGone
            \/ UNCHANGED vars
  BY <1>5, <1>q DEF Order, Relay, ChildDown, Joined, Consume, EngineGone, vars
<1> QED  BY <1>1, <1>2, <1>3, <1>4, <1>5 DEF Next

LEMMA InitLetGo == Init => LetGo
<1> SUFFICES ASSUME Init  PROVE LetGo
  OBVIOUS
<1>1. pc = [t \in Threads |-> "loop"]
  BY DEF Init
<1>2. win = [b \in Boards |-> win[b]]
  BY DEF Init
<1>3. cur = [t \in Threads |-> cur[t]]
  BY DEF Init
<1>4. \A t \in Threads : pc[t] = "loop"
  BY <1>1
<1> QED  BY <1>1, <1>2, <1>3, <1>4, DriverRuns DEF LetGo, Hearing, PanelsLetGo

\* Every way out of a panel thread, a shutdown, an engine that is gone, a board
\* that leaves or a panic at any instruction, lets go of the keys it injected.
THEOREM PanelsAlwaysLetGo == Spec => []PanelsLetGo
<1>1. LetGo => PanelsLetGo
  BY DEF LetGo
<1> QED  BY <1>1, InitLetGo, NextLetGo, PTL DEF Spec
=============================================================================
