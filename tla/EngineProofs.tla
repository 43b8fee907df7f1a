---------------------------- MODULE EngineProofs ----------------------------
(***************************************************************************)
(* Theorems about Engine, for every preset and every bound.                *)
(***************************************************************************)
EXTENDS Engine, TLAPS

-----------------------------------------------------------------------------
(* The pad follows the holders.                                             *)

\* Driven grows with its argument and splits over a union.
LEMMA DrivenSplit ==
  ASSUME NEW S, NEW T, NEW b, b \in Driven(S), b \notin Driven(S \ T)
  PROVE  b \in Driven(S \cap T)
BY DEF Driven

LEMMA DrivenSub ==
  ASSUME NEW S, NEW T, S \subseteq T
  PROVE  Driven(S) \subseteq Driven(T)
BY DEF Driven

\* One scan keeps the pad equal to what the holders drive: the all-keys-up rule
\* and the opposite-axis snap, for any scan list and any answer of holder_now.
LEMMA ScanKeepsPadTruth ==
  ASSUME NEW scan, NEW holding, PadTruth, ApplyScan(scan, holding)
  PROVE  PadTruth'
<1> DEFINE pressed  == Driven(held' \ held)
           released == Driven(held \ held') \ Driven(held')
<1>1. /\ buttons' = {b \in Buttons : \/ ButtonB(b) \in pressed
                                     \/ b \in buttons /\ ButtonB(b) \notin released}
      /\ axis' \in {f \in [Axes -> Values \cup {0}] :
                      \A a \in Axes : f[a] \in AxisAfter(a, released, pressed, held')}
  BY DEF ApplyScan
<1>2. pressed \subseteq Driven(held')
  BY DrivenSub
<1>3. ASSUME NEW x, x \in Driven(held), x \notin Driven(held')
      PROVE  x \in released
  BY <1>3 DEF Driven
<1>4. ASSUME NEW x, x \in Driven(held'), x \notin pressed
      PROVE  x \in Driven(held)
  BY <1>4 DEF Driven
<1>5. ASSUME NEW b \in Buttons
      PROVE  b \in buttons' <=> ButtonB(b) \in Driven(held')
  <2>1. b \in buttons <=> ButtonB(b) \in Driven(held)
    BY DEF PadTruth
  <2>2. b \in buttons' <=> \/ ButtonB(b) \in pressed
                           \/ b \in buttons /\ ButtonB(b) \notin released
    BY <1>1
  <2>3. ASSUME ButtonB(b) \in Driven(held')
        PROVE  b \in buttons'
    BY <2>1, <2>2, <2>3, <1>4
  <2>4. ASSUME b \in buttons'
        PROVE  ButtonB(b) \in Driven(held')
    BY <2>1, <2>2, <2>4, <1>2, <1>3
  <2> QED  BY <2>3, <2>4
<1>6. ASSUME NEW a \in Axes, axis'[a] # 0
      PROVE  AxisB(a, axis'[a]) \in Driven(held')
  <2> DEFINE ups   == {v \in Values : AxisB(a, v) \in released}
             downs == {v \in Values : AxisB(a, v) \in pressed}
  <2>1. axis'[a] \in AxisAfter(a, released, pressed, held')
    BY <1>1
  <2>2. axis'[a] \in Values \cup {0}
    BY <1>1
  <2>3. CASE downs # {}
    <3>1. axis'[a] \in downs
      BY <2>1, <2>3 DEF AxisAfter
    <3> QED  BY <3>1, <1>2
  <2>4. CASE downs = {} /\ ups # {}
    <3>1. PICK v \in ups : axis'[a] \in Snap(a, v, held')
      BY <2>1, <2>4 DEF AxisAfter
    <3> QED  BY <3>1, <1>6 DEF Snap
  <2>5. CASE downs = {} /\ ups = {}
    <3>1. axis'[a] = axis[a]
      BY <2>1, <2>5 DEF AxisAfter
    <3>2. AxisB(a, axis[a]) \in Driven(held)
      BY <3>1, <1>6 DEF PadTruth
    <3>3. axis[a] \in Values
      BY <3>1, <2>2, <1>6
    <3>4. AxisB(a, axis[a]) \notin released
      BY <2>5, <3>3
    <3> QED  BY <3>1, <3>2, <3>4, <1>3
  <2> QED  BY <2>3, <2>4, <2>5
<1>7. ASSUME NEW a \in Axes, NEW v \in Values, NEW w \in Values, v < 0, w > 0,
             AxisB(a, v) \in Driven(held'), AxisB(a, w) \in Driven(held')
      PROVE  axis'[a] # 0
  <2> DEFINE ups   == {u \in Values : AxisB(a, u) \in released}
             downs == {u \in Values : AxisB(a, u) \in pressed}
  <2>1. axis'[a] \in AxisAfter(a, released, pressed, held')
    BY <1>1
  <2>2. Values \subseteq Int \ {0}
    BY TablesAssumption
  <2>3. CASE downs # {}
    <3>1. axis'[a] \in downs
      BY <2>1, <2>3 DEF AxisAfter
    <3> QED  BY <3>1, <2>2
  <2>4. CASE downs = {} /\ ups # {}
    <3>1. PICK u \in ups : axis'[a] \in Snap(a, u, held')
      BY <2>1, <2>4 DEF AxisAfter
    <3> DEFINE opposite == {x \in Values : AxisB(a, x) \in Driven(held') /\ ((u < 0) # (x < 0))}
    <3>2. opposite # {}
      <4>1. u \in Int /\ v \in Int /\ w \in Int
        BY <2>2
      <4>2. u < 0 => (u < 0) # (w < 0)
        BY <4>1, <1>7
      <4>3. ~(u < 0) => (u < 0) # (v < 0)
        BY <4>1, <1>7
      <4> QED  BY <4>2, <4>3, <1>7
    <3>3. axis'[a] \in opposite
      BY <3>1, <3>2 DEF Snap
    <3> QED  BY <3>3, <2>2
  <2>5. CASE downs = {} /\ ups = {}
    <3>1. axis'[a] = axis[a]
      BY <2>1, <2>5 DEF AxisAfter
    <3>2. AxisB(a, v) \notin pressed /\ AxisB(a, w) \notin pressed
      BY <2>5
    <3>3. AxisB(a, v) \in Driven(held) /\ AxisB(a, w) \in Driven(held)
      BY <3>2, <1>4, <1>7
    <3>4. axis[a] # 0
      BY <3>3, <1>7 DEF PadTruth
    <3> QED  BY <3>1, <3>4
  <2> QED  BY <2>3, <2>4, <2>5
<1>8. \A a \in Axes, v, w \in Values :
        axis'[a] = 0 /\ v < 0 /\ w > 0 => ~({AxisB(a, v), AxisB(a, w)} \subseteq Driven(held'))
  BY <1>7
<1> QED  BY <1>5, <1>6, <1>8 DEF PadTruth

\* A neutral pad with nothing held.
LEMMA NeutralPadTruth ==
  ASSUME held' = {}, buttons' = {}, axis' = [a \in Axes |-> 0]
  PROVE  PadTruth'
<1>1. Driven(held') = {}
  BY DEF Driven
<1> QED  BY <1>1 DEF PadTruth

LEMMA SamePadTruth ==
  ASSUME PadTruth, UNCHANGED <<held, buttons, axis>>
  PROVE  PadTruth'
BY DEF PadTruth

\* Whatever a key event does, it goes through one scan or changes nothing.
LEMMA HandleKeepsPadTruth ==
  ASSUME NEW k, NEW isDown, PadTruth, Handle(k, isDown)
  PROVE  PadTruth'
<1>1. CASE k \notin Touches
  <2>1. UNCHANGED <<held, buttons, axis>>
    BY <1>1 DEF Handle
  <2> QED  BY <2>1, SamePadTruth
<1>2. CASE k \in Touches \cap MouseKeys
  <2>1. HandleMouse(k)
    BY <1>2 DEF Handle
  <2> QED  BY <2>1, ScanKeepsPadTruth DEF HandleMouse
<1>3. CASE k \in Touches \ MouseKeys
  <2>1. HandleKeyboard(k, isDown)
    BY <1>3 DEF Handle
  <2> QED  BY <2>1, ScanKeepsPadTruth DEF HandleKeyboard, Sync
<1> QED  BY <1>1, <1>2, <1>3

\* For every preset: a control is pressed exactly while one of its holders is
\* held, an axis off centre rests where a held holder asks, and an axis at centre
\* is not pulled both ways (engine.rs,
\* apply_scan, press, release, opposite_snap), through every call there is.
THEOREM PadIsTruthful == Spec => []PadTruth
<1>1. Init => PadTruth
  BY DEF Init, PadTruth, Driven
<1>2. PadTruth /\ [Next]_vars => PadTruth'
  <2> SUFFICES ASSUME PadTruth, [Next]_vars PROVE PadTruth'
    OBVIOUS
  <2>1. CASE KeyEvents
    <3>1. PICK k \in Keys, isDown \in BOOLEAN, heard \in BOOLEAN : KeyEvent(k, isDown, heard)
      BY <2>1 DEF KeyEvents
    <3>2. CASE heard
      BY <3>1, <3>2, HandleKeepsPadTruth DEF KeyEvent
    <3>3. CASE ~heard
      BY <3>1, <3>3, SamePadTruth DEF KeyEvent
    <3> QED  BY <3>2, <3>3
  <2>2. ASSUME NEW k \in Keys, AutoRepeat(k) PROVE PadTruth'
    BY <2>2, HandleKeepsPadTruth DEF AutoRepeat
  <2>3. CASE ReleaseKeyboard
    BY <2>3, ScanKeepsPadTruth DEF ReleaseKeyboard, Sync
  <2>4. CASE ReleaseMouse
    BY <2>4, ScanKeepsPadTruth DEF ReleaseMouse
  <2>5. CASE CancelMacros
    BY <2>5, ScanKeepsPadTruth DEF CancelMacros, ApplyMoves
  <2>6. ASSUME NEW m \in Macros, NEW e \in BOOLEAN, SetMacroEnabled(m, e) PROVE PadTruth'
    BY <2>6, ScanKeepsPadTruth DEF SetMacroEnabled, ApplyMoves
  <2>7. ASSUME NEW on \in BOOLEAN, SetSlotMacros(on) PROVE PadTruth'
    BY <2>7, ScanKeepsPadTruth DEF SetSlotMacros, ApplyMoves
  <2>8. CASE SwapTables
    BY <2>8, NeutralPadTruth DEF SwapTables
  <2>9. CASE Reset
    BY <2>9, NeutralPadTruth DEF Reset
  <2>10. CASE TickBegin
    BY <2>10, SamePadTruth DEF TickBegin
  <2>11. ASSUME NEW m \in Macros, PopMacro(m) PROVE PadTruth'
    BY <2>11, SamePadTruth DEF PopMacro
  <2>12. ASSUME NEW t \in Turbo, PopTurbo(t) PROVE PadTruth'
    BY <2>12, SamePadTruth DEF PopTurbo
  <2>13. CASE TickEnd
    BY <2>13, ScanKeepsPadTruth DEF TickEnd, ApplyMoves
  <2>14. CASE Elapse
    BY <2>14, SamePadTruth DEF Elapse
  <2>15. CASE UNCHANGED vars
    BY <2>15, SamePadTruth DEF vars
  <2> QED
    BY <2>1, <2>2, <2>3, <2>4, <2>5, <2>6, <2>7, <2>8, <2>9, <2>10, <2>11, <2>12,
       <2>13, <2>14, <2>15 DEF Next
<1> QED  BY <1>1, <1>2, PTL DEF Spec

-----------------------------------------------------------------------------
(* The scheduler: what every macro and every turbo row satisfies.           *)

\* One macro's record is well formed, its deadline matches its run, and it is
\* silent while a switch is off.
MacOK(m, r, on) ==
  /\ r \in MacRec
  /\ r.step <= NSteps(m)
  /\ r.gapping => NSteps(m) > 0
  /\ r.due # Off <=> r.step # 0 \/ r.gapping
  /\ ~(on /\ r.enabled) => r.step = 0 /\ ~r.gapping

TurOK(r) ==
  /\ r \in TurRec
  /\ r.due # Off <=> r.running
  /\ r.on => r.running

SchedInv ==
  /\ now \in Nat /\ macrosOn \in BOOLEAN
  /\ mac \in [Macros -> MacRec]
  /\ \A m \in Macros : MacOK(m, mac[m], macrosOn)
  /\ tur \in [Turbo -> TurRec]
  /\ \A t \in Turbo : TurOK(tur[t])

\* An entry of a table of numbers is a number.
LEMMA NatEntry ==
  ASSUME NEW s \in Seq(Nat), NEW i \in 1..Len(s)
  PROVE  s[i] \in Nat
OBVIOUS

LEMMA DeadlineType ==
  ASSUME NEW m \in Macros, NEW i \in 1..NSteps(m), NEW start \in Nat, now \in Nat
  PROVE  Deadline(m, i, start) \in Nat
<1>1. MacroDef[m].ends \in Seq(Nat) /\ MacroDef[m].min \in Seq(Nat)
      /\ Len(MacroDef[m].ends) = NSteps(m) /\ Len(MacroDef[m].min) = NSteps(m)
      /\ NSteps(m) \in Nat
  BY TablesAssumption
<1>2. i \in 1..Len(MacroDef[m].ends) /\ i \in 1..Len(MacroDef[m].min)
  BY ONLY <1>1, i \in 1..NSteps(m)
<1>3. MacroDef[m].ends[i] \in Nat /\ MacroDef[m].min[i] \in Nat
  BY ONLY <1>1, <1>2, NatEntry
<1> QED  BY <1>3 DEF Deadline

LEMMA BeginOK ==
  ASSUME NEW m \in Macros, NEW r \in MacRec, now \in Nat, NSteps(m) > 0, r.enabled
  PROVE  MacOK(m, MacroBegin(m, r), TRUE) /\ MacroBegin(m, r).enabled = r.enabled
<1>1. NSteps(m) \in Nat
  BY TablesAssumption
<1>2. Deadline(m, 1, now) \in Nat
  BY <1>1, DeadlineType
<1> DEFINE q == MacroBegin(m, r)
<1>3. q.step = 1 /\ q.gapping = FALSE /\ q.due = Deadline(m, 1, now) /\ q.enabled = r.enabled
  BY DEF MacroBegin, MacRec
<1>4. q \in MacRec
  BY <1>2 DEF MacroBegin, MacRec
<1> QED  BY <1>1, <1>2, <1>3, <1>4 DEF MacOK, Off

LEMMA CancelOK ==
  ASSUME NEW m \in Macros, NEW r \in MacRec, NEW on \in BOOLEAN
  PROVE  MacOK(m, MacroCancel(r), on) /\ MacroCancel(r).enabled = r.enabled
<1>1. NSteps(m) \in Nat
  BY TablesAssumption
<1> DEFINE q == MacroCancel(r)
<1>2. q.step = 0 /\ q.gapping = FALSE /\ q.due = Off /\ q.enabled = r.enabled
  BY DEF MacroCancel, MacRec
<1>3. q \in MacRec
  BY DEF MacroCancel, MacRec
<1> QED  BY <1>1, <1>2, <1>3 DEF MacOK, Off

LEMMA StartOK ==
  ASSUME NEW m \in Macros, NEW r, MacOK(m, r, macrosOn), now \in Nat, macrosOn \in BOOLEAN
  PROVE  MacOK(m, MacroStart(m, r), macrosOn)
<1>1. NSteps(m) \in Nat /\ r \in MacRec
  BY TablesAssumption DEF MacOK
<1>2. CASE NSteps(m) = 0 \/ ~macrosOn \/ ~r.enabled \/ (r.step # 0 /\ ~MacroDef[m].restart)
  BY <1>2 DEF MacroStart
<1>3. CASE ~(NSteps(m) = 0 \/ ~macrosOn \/ ~r.enabled \/ (r.step # 0 /\ ~MacroDef[m].restart))
  <2>1. NSteps(m) > 0 /\ macrosOn = TRUE /\ r.enabled
    BY <1>1, <1>3
  <2>2. MacroStart(m, r) = MacroBegin(m, r)
    BY <1>3 DEF MacroStart
  <2> QED  BY <1>1, <2>1, <2>2, BeginOK
<1> QED  BY <1>2, <1>3

LEMMA KeyOK ==
  ASSUME NEW m \in Macros, NEW r, MacOK(m, r, macrosOn), now \in Nat, macrosOn \in BOOLEAN,
         NEW k, NEW isDown
  PROVE  MacOK(m, MacroKey(m, r, k, isDown), macrosOn)
<1>1. r \in MacRec
  BY DEF MacOK
<1> QED  BY <1>1, StartOK, CancelOK DEF MacroKey

LEMMA InterruptOK ==
  ASSUME NEW m \in Macros, NEW r, MacOK(m, r, macrosOn), macrosOn \in BOOLEAN, NEW k
  PROVE  MacOK(m, MacroInterrupt(m, r, k), macrosOn)
<1>1. r \in MacRec
  BY DEF MacOK
<1>2. MacroInterrupt(m, r, k) = r \/ MacroInterrupt(m, r, k) = MacroCancel(r)
  BY DEF MacroInterrupt
<1> QED  BY <1>1, <1>2, CancelOK

\* The four ways a popped timer can leave its macro.
LEMMA AdvanceOK ==
  ASSUME NEW m \in Macros, NEW r, MacOK(m, r, macrosOn), now \in Nat, macrosOn \in BOOLEAN,
         NEW again
  PROVE  MacOK(m, MacroAdvance(m, r, again), macrosOn)
<1> DEFINE ended == MacroCancel(r)
<1>1. r \in MacRec /\ NSteps(m) \in Nat
  BY TablesAssumption DEF MacOK
<1>2. r.step \in Nat /\ r.gapping \in BOOLEAN /\ r.enabled \in BOOLEAN /\ r.start \in Nat
      /\ r.since \in Nat
  BY <1>1 DEF MacRec
<1>3. MacOK(m, ended, macrosOn) /\ ended \in MacRec /\ ended.enabled = r.enabled
  BY <1>1, CancelOK DEF MacOK
<1>4. CASE r.step = 0 /\ r.gapping
  <2>1. macrosOn = TRUE /\ r.enabled /\ NSteps(m) > 0
    BY <1>4 DEF MacOK
  <2>2. CASE again
    <3>1. MacroAdvance(m, r, again) = MacroBegin(m, r)
      BY <1>4, <2>2 DEF MacroAdvance
    <3> QED  BY <3>1, <2>1, <1>1, BeginOK
  <2>3. CASE ~again
    <3>1. MacroAdvance(m, r, again) = [r EXCEPT !.gapping = FALSE, !.due = Off]
      BY <1>4, <2>3 DEF MacroAdvance
    <3>2. MacroAdvance(m, r, again) = [step |-> r.step, gapping |-> FALSE, start |-> r.start,
            since |-> r.since, due |-> Off, enabled |-> r.enabled]
      BY <3>1, <1>1 DEF MacRec
    <3> QED  BY <3>2, <1>1, <1>2, <1>4 DEF MacOK, MacRec, Off
  <2> QED  BY <2>2, <2>3
<1>5. CASE r.step = 0 /\ ~r.gapping
  <2>1. MacroAdvance(m, r, again) = [r EXCEPT !.due = Off]
    BY <1>5 DEF MacroAdvance
  <2>2. MacroAdvance(m, r, again) = [step |-> r.step, gapping |-> r.gapping, start |-> r.start,
          since |-> r.since, due |-> Off, enabled |-> r.enabled]
    BY <2>1, <1>1 DEF MacRec
  <2> QED  BY <2>2, <1>1, <1>2, <1>5 DEF MacOK, MacRec, Off
<1>6. CASE r.step # 0 /\ r.step + 1 <= NSteps(m)
  <2>1. r.step + 1 \in 1..NSteps(m)
    BY <1>1, <1>2, <1>6
  <2>2. Deadline(m, r.step + 1, r.start) \in Nat
    BY <2>1, <1>2, DeadlineType
  <2>3. MacroAdvance(m, r, again) =
          [r EXCEPT !.step = r.step + 1, !.since = now, !.due = Deadline(m, r.step + 1, r.start)]
    BY <1>1, <1>2, <1>6 DEF MacroAdvance
  <2>4. MacroAdvance(m, r, again) =
          [step |-> r.step + 1, gapping |-> r.gapping, start |-> r.start, since |-> now,
           due |-> Deadline(m, r.step + 1, r.start), enabled |-> r.enabled]
    BY <2>3, <1>1 DEF MacRec
  <2> QED  BY <2>1, <2>2, <2>4, <1>1, <1>2, <1>6 DEF MacOK, MacRec, Off
<1>7. CASE r.step # 0 /\ r.step + 1 > NSteps(m)
  <2>1. macrosOn = TRUE /\ r.enabled /\ NSteps(m) > 0
    BY <1>1, <1>2, <1>7 DEF MacOK
  <2>2. CASE MacroDef[m].repeat = "once" \/ ~again
    <3>1. MacroAdvance(m, r, again) = ended
      BY <1>7, <2>2 DEF MacroAdvance
    <3> QED  BY <3>1, <1>3
  <2>3. CASE ~(MacroDef[m].repeat = "once" \/ ~again) /\ MacroDef[m].repeat = "turbo"
    <3>1. MacroAdvance(m, r, again) =
            [ended EXCEPT !.gapping = TRUE, !.since = now, !.due = now + MacroDef[m].gap]
      BY <1>7, <2>3 DEF MacroAdvance
    <3>2. MacroAdvance(m, r, again) =
            [step |-> ended.step, gapping |-> TRUE, start |-> ended.start, since |-> now,
             due |-> now + MacroDef[m].gap, enabled |-> r.enabled]
      BY <3>1, <1>3 DEF MacRec
    <3>3. MacroDef[m].gap \in Nat
      BY TablesAssumption
    <3>4. now + MacroDef[m].gap \in Nat
      BY <3>3
    <3> QED  BY <3>2, <3>4, <2>1, <1>1, <1>2, <1>3 DEF MacOK, MacRec, Off
  <2>4. CASE ~(MacroDef[m].repeat = "once" \/ ~again) /\ MacroDef[m].repeat # "turbo"
    <3>1. MacroAdvance(m, r, again) = MacroBegin(m, ended)
      BY <1>7, <2>4 DEF MacroAdvance
    <3> QED  BY <3>1, <2>1, <1>3, BeginOK
  <2> QED  BY <2>2, <2>3, <2>4
<1> QED  BY <1>1, <1>2, <1>4, <1>5, <1>6, <1>7

LEMMA TurboOffOK == TurOK(TurboOff)
BY DEF TurOK, TurRec, TurboOff, Off

LEMMA TurboSyncOK ==
  ASSUME NEW t \in Turbo, NEW r, TurOK(r), now \in Nat, NEW holding
  PROVE  TurOK(TurboSync(t, r, holding))
<1> DEFINE driven == Sources(t) \cap holding # {}
<1>1. TurboMs[t].on \in Nat
  BY TablesAssumption
<1>2. driven \in BOOLEAN
  OBVIOUS
<1>3. CASE driven = r.running
  BY <1>3 DEF TurboSync
<1>4. CASE driven # r.running
  <2>1. TurboSync(t, r, holding) =
          [running |-> driven, on |-> driven, since |-> now,
           due |-> IF driven THEN now + TurboMs[t].on ELSE Off]
    BY <1>4 DEF TurboSync
  <2>2. now + TurboMs[t].on \in Nat
    BY <1>1
  <2>3. CASE driven
    <3>1. TurboSync(t, r, holding) =
            [running |-> TRUE, on |-> TRUE, since |-> now, due |-> now + TurboMs[t].on]
      BY <2>1, <2>3
    <3> QED  BY <3>1, <2>2 DEF TurOK, TurRec, Off
  <2>4. CASE ~driven
    <3>1. TurboSync(t, r, holding) =
            [running |-> FALSE, on |-> FALSE, since |-> now, due |-> Off]
      BY <2>1, <2>4
    <3> QED  BY <3>1 DEF TurOK, TurRec, Off
  <2> QED  BY <2>3, <2>4
<1> QED  BY <1>3, <1>4

LEMMA TurboAdvanceOK ==
  ASSUME NEW t \in Turbo, NEW r, TurOK(r), now \in Nat
  PROVE  TurOK(TurboAdvance(t, r))
<1> DEFINE q == TurboAdvance(t, r)
           ms == IF r.on THEN TurboMs[t].off ELSE TurboMs[t].on
<1>1. TurboMs[t].on \in Nat /\ TurboMs[t].off \in Nat /\ r \in TurRec
  BY TablesAssumption DEF TurOK
<1>2. CASE ~r.running
  <2>1. q = [r EXCEPT !.due = Off]
    BY <1>2 DEF TurboAdvance
  <2>2. q \in TurRec /\ q.due = Off /\ q.running = r.running /\ q.on = r.on
    BY <2>1, <1>1 DEF TurRec
  <2> QED  BY <2>2, <1>2 DEF TurOK
<1>3. CASE r.running
  <2>1. now + ms \in Nat
    BY <1>1
  <2>2. q = [running |-> TRUE, on |-> ~r.on, since |-> now, due |-> now + ms]
    BY <1>3 DEF TurboAdvance
  <2>3. CASE r.on
    <3>1. q = [running |-> TRUE, on |-> FALSE, since |-> now, due |-> now + ms]
      BY <2>2, <2>3
    <3> QED  BY <3>1, <2>1 DEF TurOK, TurRec, Off
  <2>4. CASE ~r.on
    <3>1. q = [running |-> TRUE, on |-> TRUE, since |-> now, due |-> now + ms]
      BY <2>2, <2>4
    <3> QED  BY <3>1, <2>1 DEF TurOK, TurRec, Off
  <2> QED  BY <2>3, <2>4
<1> QED  BY <1>2, <1>3

\* The invariant only reads four variables.
LEMMA SameSched ==
  ASSUME SchedInv, UNCHANGED <<mac, tur, macrosOn>>, now' \in Nat
  PROVE  SchedInv'
BY DEF SchedInv

\* New records that are each in order make a state that is.
LEMMA MovedSched ==
  ASSUME SchedInv, now' = now, macrosOn' \in BOOLEAN,
         DOMAIN mac' = Macros, mac' = [m \in Macros |-> mac'[m]],
         tur' = [t \in Turbo |-> tur'[t]],
         \A m \in Macros : MacOK(m, mac'[m], macrosOn'),
         \A t \in Turbo : TurOK(tur'[t])
  PROVE  SchedInv'
BY DEF SchedInv, MacOK, TurOK

LEMMA SyncKeepsSched ==
  ASSUME SchedInv, NEW d, NEW scan, NEW macs, NEW turs,
         macs = [m \in Macros |-> macs[m]],
         \A m \in Macros : MacOK(m, macs[m], macrosOn),
         \A t \in Turbo : TurOK(turs[t]),
         Sync(d, macs, turs, scan), UNCHANGED <<now, macrosOn>>
  PROVE  SchedInv'
<1> DEFINE act  == ActiveChords(d)
           cons == UNION {Guard(c) : c \in act}
           h    == Holding(d, act, cons, macs, turs)
<1>1. mac' = macs /\ tur' = [t \in Turbo |-> TurboSync(t, turs[t], h)]
  BY DEF Sync
<1>2. now \in Nat /\ macrosOn \in BOOLEAN
  BY DEF SchedInv
<1>3. \A t \in Turbo : TurOK(TurboSync(t, turs[t], h))
  BY <1>2, TurboSyncOK
<1>4. \A t \in Turbo : TurOK(tur'[t])
  BY <1>1, <1>3
<1> QED  BY <1>1, <1>2, <1>4, MovedSched

LEMMA ApplyMovesKeepsSched ==
  ASSUME SchedInv, NEW macs, NEW turs, NEW marks,
         macs = [m \in Macros |-> macs[m]], turs = [t \in Turbo |-> turs[t]],
         macrosOn' \in BOOLEAN,
         \A m \in Macros : MacOK(m, macs[m], macrosOn'),
         \A t \in Turbo : TurOK(turs[t]),
         ApplyMoves(macs, turs, marks)
  PROVE  SchedInv'
<1>1. mac' = macs /\ tur' = turs /\ now' = now
  BY DEF ApplyMoves
<1> QED  BY <1>1, MovedSched

LEMMA CancelledOK ==
  ASSUME SchedInv, NEW on \in BOOLEAN
  PROVE  /\ MacrosCancelled = [m \in Macros |-> MacrosCancelled[m]]
         /\ \A m \in Macros : MacOK(m, MacrosCancelled[m], on)
         /\ TurbosCancelled = [t \in Turbo |-> TurbosCancelled[t]]
         /\ \A t \in Turbo : TurOK(TurbosCancelled[t])
<1>1. ASSUME NEW m \in Macros
      PROVE  MacOK(m, MacrosCancelled[m], on)
  <2>1. MacOK(m, mac[m], macrosOn) /\ mac[m] \in MacRec
    BY DEF SchedInv, MacOK
  <2>2. CASE mac[m].step # 0 \/ mac[m].gapping
    BY <2>1, <2>2, CancelOK DEF MacrosCancelled
  <2>3. CASE ~(mac[m].step # 0 \/ mac[m].gapping)
    BY <2>1, <2>3 DEF MacrosCancelled, MacOK
  <2> QED  BY <2>2, <2>3
<1>2. ASSUME NEW t \in Turbo
      PROVE  TurOK(TurbosCancelled[t])
  BY TurboOffOK DEF TurbosCancelled, SchedInv
<1> QED  BY <1>1, <1>2 DEF MacrosCancelled, TurbosCancelled

LEMMA HandleKeepsSched ==
  ASSUME SchedInv, NEW k, NEW isDown, Handle(k, isDown), UNCHANGED <<now, macrosOn>>
  PROVE  SchedInv'
<1>1. now \in Nat /\ macrosOn \in BOOLEAN
  BY DEF SchedInv
<1>2. CASE k \notin Touches /\ UNCHANGED <<active, consumed, held, mac, tur, buttons, axis>>
  BY <1>1, <1>2, SameSched
<1>3. CASE HandleMouse(k)
  BY <1>1, <1>3, SameSched DEF HandleMouse
<1>4. CASE HandleKeyboard(k, isDown)
  <2> DEFINE edge == (k \in down) # isDown
             Interrupted(m) == IF isDown THEN MacroInterrupt(m, mac[m], k) ELSE mac[m]
             macs == IF edge THEN [m \in Macros |-> MacroKey(m, Interrupted(m), k, isDown)]
                             ELSE mac
  <2>1. ASSUME NEW m \in Macros
        PROVE  MacOK(m, macs[m], macrosOn)
    <3>1. MacOK(m, mac[m], macrosOn)
      BY DEF SchedInv
    <3>2. MacOK(m, Interrupted(m), macrosOn)
      BY <3>1, <1>1, InterruptOK
    <3>3. MacOK(m, MacroKey(m, Interrupted(m), k, isDown), macrosOn)
      BY <3>2, <1>1, KeyOK
    <3> QED  BY <3>1, <3>3
  <2>2. macs = [m \in Macros |-> macs[m]]
    BY DEF SchedInv
  <2>3. \A t \in Turbo : TurOK(tur[t])
    BY DEF SchedInv
  <2>4. Sync(down' \ MouseKeys, macs, tur,
             {KeyH(x) : x \in ChordKeys \cup {k}} \cup {ChordH(c) : c \in Chords})
    BY <1>4 DEF HandleKeyboard
  <2> HIDE DEF macs
  <2> QED  BY <2>1, <2>2, <2>3, <2>4, SyncKeepsSched
<1> QED  BY <1>2, <1>3, <1>4 DEF Handle

\* The inductive invariant of the scheduler.
THEOREM SchedulerInvariant == Spec => []SchedInv
<1>1. Init => SchedInv
  <2> SUFFICES ASSUME Init PROVE SchedInv
    OBVIOUS
  <2>1. ASSUME NEW m \in Macros
        PROVE  MacOK(m, mac[m], macrosOn)
    <3>1. mac[m] = MacroOff(MacroDef[m].enabled) /\ MacroDef[m].enabled \in BOOLEAN
          /\ NSteps(m) \in Nat
      BY TablesAssumption DEF Init
    <3> QED  BY <3>1 DEF MacOK, MacroOff, MacRec, Off
  <2>2. ASSUME NEW t \in Turbo
        PROVE  TurOK(tur[t])
    BY TurboOffOK DEF Init
  <2> QED  BY <2>1, <2>2 DEF Init, SchedInv, MacOK, TurOK
<1>2. SchedInv /\ [Next]_vars => SchedInv'
  <2> SUFFICES ASSUME SchedInv, [Next]_vars PROVE SchedInv'
    OBVIOUS
  <2>0. /\ now \in Nat /\ macrosOn \in BOOLEAN
        /\ mac = [m \in Macros |-> mac[m]] /\ tur = [t \in Turbo |-> tur[t]]
        /\ \A m \in Macros : MacOK(m, mac[m], macrosOn) /\ mac[m] \in MacRec
        /\ \A t \in Turbo : TurOK(tur[t])
    BY DEF SchedInv
  <2>1. CASE KeyEvents
    <3>1. PICK k \in Keys, isDown \in BOOLEAN, heard \in BOOLEAN : KeyEvent(k, isDown, heard)
      BY <2>1 DEF KeyEvents
    <3>2. CASE heard
      BY <3>1, <3>2, HandleKeepsSched DEF KeyEvent, Calm
    <3>3. CASE ~heard
      BY <3>1, <3>3, <2>0, SameSched DEF KeyEvent, Calm
    <3> QED  BY <3>2, <3>3
  <2>2. ASSUME NEW k \in Keys, AutoRepeat(k) PROVE SchedInv'
    BY <2>2, HandleKeepsSched DEF AutoRepeat, Calm
  <2>3. CASE ReleaseKeyboard
    <3>1. Sync({}, MacrosCancelled, TurbosCancelled, AllHolders) /\ UNCHANGED <<now, macrosOn>>
      BY <2>3 DEF ReleaseKeyboard, Calm
    <3> QED  BY <3>1, <2>0, CancelledOK, SyncKeepsSched
  <2>4. CASE ReleaseMouse
    BY <2>4, <2>0, SameSched DEF ReleaseMouse, Calm
  <2>5. CASE CancelMacros
    <3>1. PICK marks : ApplyMoves(MacrosCancelled, TurbosCancelled, marks)
      BY <2>5 DEF CancelMacros
    <3>2. macrosOn' = macrosOn
      BY <2>5 DEF CancelMacros
    <3> QED  BY <3>1, <3>2, <2>0, CancelledOK, ApplyMovesKeepsSched
  <2>6. ASSUME NEW m \in Macros, NEW e \in BOOLEAN, SetMacroEnabled(m, e) PROVE SchedInv'
    <3> DEFINE r    == [mac[m] EXCEPT !.enabled = e]
               macs == [mac EXCEPT ![m] = IF e THEN r ELSE MacroCancel(r)]
    <3>1. ApplyMoves(macs, tur, Marks(mac, macs)) /\ macrosOn' = macrosOn
      BY <2>6 DEF SetMacroEnabled
    <3>2. r \in MacRec /\ r.step = mac[m].step /\ r.gapping = mac[m].gapping
          /\ r.due = mac[m].due /\ r.enabled = e
      BY <2>0 DEF MacRec
    <3>3. MacOK(m, IF e THEN r ELSE MacroCancel(r), macrosOn)
      <4>1. CASE e
        BY <4>1, <3>2, <2>0 DEF MacOK
      <4>2. CASE ~e
        BY <4>2, <3>2, <2>0, CancelOK
      <4> QED  BY <4>1, <4>2
    <3>4. macs = [x \in Macros |-> macs[x]] /\ \A x \in Macros : MacOK(x, macs[x], macrosOn)
      BY <3>3, <2>0
    <3> HIDE DEF macs
    <3> QED  BY <3>1, <3>4, <2>0, ApplyMovesKeepsSched
  <2>7. ASSUME NEW on \in BOOLEAN, SetSlotMacros(on) PROVE SchedInv'
    <3> DEFINE macs == IF on THEN mac ELSE MacrosCancelled
    <3>1. ApplyMoves(macs, tur, Marks(mac, macs)) /\ macrosOn' = on
      BY <2>7 DEF SetSlotMacros
    <3>2. CASE on
      <4>1. \A m \in Macros : MacOK(m, mac[m], macrosOn')
        BY <3>1, <3>2, <2>0 DEF MacOK
      <4> QED  BY <4>1, <3>1, <3>2, <2>0, ApplyMovesKeepsSched
    <3>3. CASE ~on
      BY <3>1, <3>3, <2>0, CancelledOK, ApplyMovesKeepsSched
    <3> QED  BY <3>2, <3>3
  <2>8. CASE SwapTables
    <3>1. ASSUME NEW m \in Macros
          PROVE  MacOK(m, mac'[m], macrosOn')
      <4>1. mac'[m] = MacroOff(MacroDef[m].enabled) /\ MacroDef[m].enabled \in BOOLEAN
            /\ NSteps(m) \in Nat
        BY <2>8, TablesAssumption DEF SwapTables
      <4> QED  BY <4>1 DEF MacOK, MacroOff, MacRec, Off
    <3>2. ASSUME NEW t \in Turbo
          PROVE  TurOK(tur'[t])
      BY <2>8, TurboOffOK DEF SwapTables
    <3> QED  BY <2>8, <3>1, <3>2, MovedSched DEF SwapTables
  <2>9. CASE Reset
    <3>1. ASSUME NEW m \in Macros
          PROVE  MacOK(m, mac'[m], macrosOn')
      <4>1. mac'[m] = MacroOff(mac[m].enabled) /\ mac[m].enabled \in BOOLEAN
            /\ NSteps(m) \in Nat
        BY <2>9, <2>0, TablesAssumption DEF Reset, MacRec
      <4> QED  BY <4>1 DEF MacOK, MacroOff, MacRec, Off
    <3>2. ASSUME NEW t \in Turbo
          PROVE  TurOK(tur'[t])
      BY <2>9, TurboOffOK DEF Reset
    <3> QED  BY <2>9, <2>0, <3>1, <3>2, MovedSched DEF Reset
  <2>10. CASE TickBegin
    BY <2>10, <2>0, SameSched DEF TickBegin
  <2>11. ASSUME NEW m \in Macros, PopMacro(m) PROVE SchedInv'
    <3> DEFINE again == MacroDef[m].triggers \cap (down \ MouseKeys) # {}
    <3>1. mac' = [mac EXCEPT ![m] = MacroAdvance(m, mac[m], again)]
          /\ UNCHANGED <<tur, now, macrosOn>>
      BY <2>11 DEF PopMacro
    <3>2. MacOK(m, MacroAdvance(m, mac[m], again), macrosOn)
      BY <2>0, AdvanceOK
    <3> HIDE DEF again
    <3> QED  BY <3>1, <3>2, <2>0, MovedSched
  <2>12. ASSUME NEW t \in Turbo, PopTurbo(t) PROVE SchedInv'
    <3>1. tur' = [tur EXCEPT ![t] = TurboAdvance(t, tur[t])] /\ UNCHANGED <<mac, now, macrosOn>>
      BY <2>12 DEF PopTurbo
    <3>2. TurOK(TurboAdvance(t, tur[t]))
      BY <2>0, TurboAdvanceOK
    <3> QED  BY <3>1, <3>2, <2>0, MovedSched
  <2>13. CASE TickEnd
    <3>1. ApplyMoves(mac, tur, dirty) /\ macrosOn' = macrosOn
      BY <2>13 DEF TickEnd
    <3> QED  BY <3>1, <2>0, SameSched DEF ApplyMoves
  <2>14. CASE Elapse
    BY <2>14, <2>0, SameSched DEF Elapse
  <2>15. CASE UNCHANGED vars
    BY <2>15, <2>0, SameSched DEF vars
  <2> QED
    BY <2>1, <2>2, <2>3, <2>4, <2>5, <2>6, <2>7, <2>8, <2>9, <2>10, <2>11, <2>12,
       <2>13, <2>14, <2>15 DEF Next
<1> QED  BY <1>1, <1>2, PTL DEF Spec

\* For every preset: a deadline is armed exactly while something scheduled is
\* running, so whatever the scheduler holds has a wake that releases it.
THEOREM TimersAlwaysMatch == Spec => []TimersMatchRuns
<1>1. SchedInv => TimersMatchRuns
  BY DEF SchedInv, MacOK, TurOK, TimersMatchRuns
<1> QED  BY <1>1, SchedulerInvariant, PTL

\* For every preset: no run survives its macro's switch or the slot's.
THEOREM SwitchedOffStaysSilent == Spec => []SwitchedOffIsSilent
<1>1. SchedInv => SwitchedOffIsSilent
  BY DEF SchedInv, MacOK, SwitchedOffIsSilent
<1> QED  BY <1>1, SchedulerInvariant, PTL

-----------------------------------------------------------------------------
(* Type correctness.  The records are typed by SchedInv; what is left are the *)
(* sets, which have to stay inside the tables' vocabulary.                   *)

SetsOK ==
  /\ phys \subseteq Keys /\ down \subseteq Keys
  /\ active \subseteq Chords /\ consumed \subseteq Keys
  /\ held \subseteq Holders /\ dirty \subseteq Holders
  /\ buttons \subseteq Buttons /\ axis \in [Axes -> Values \cup {0}]
  /\ pc \in {"idle", "ticking"}

MacsOK(macs) == \A m \in Macros : macs[m].step \in Nat /\ macs[m].step <= NSteps(m)

LEMMA StepIsHolder ==
  ASSUME NEW m \in Macros, NEW i \in Nat \ {0}, i <= NSteps(m)
  PROVE  StepH(m, i) \in Holders
<1>1. i \in 1..NSteps(m)
  BY TablesAssumption
<1> QED  BY <1>1 DEF Holders

LEMMA HoldingInHolders ==
  ASSUME NEW d \in SUBSET Keys, NEW act \in SUBSET Chords, NEW cons,
         NEW macs, MacsOK(macs), NEW turs
  PROVE  Holding(d, act, cons, macs, turs) \subseteq Holders
<1>1. {KeyH(k) : k \in d \ cons} \subseteq Holders
  BY DEF Holders, KeyHolders
<1>2. {ChordH(c) : c \in act} \subseteq Holders
  BY DEF Holders
<1>3. {StepH(m, macs[m].step) : m \in {x \in Macros : macs[x].step # 0}} \subseteq Holders
  BY StepIsHolder DEF MacsOK
<1>4. {TurboH(t) : t \in {x \in Turbo : turs[x].running /\ turs[x].on}} \subseteq Holders
  BY DEF Holders
<1> QED  BY <1>1, <1>2, <1>3, <1>4 DEF Holding

LEMMA MarksInHolders ==
  ASSUME NEW ms, NEW ms2, MacsOK(ms), MacsOK(ms2), NEW ts, NEW ts2
  PROVE  Marks(ms, ms2) \cup TurboMarks(ts, ts2) \subseteq Holders
<1>1. ASSUME NEW m \in Macros, NEW i \in {ms[m].step, ms2[m].step} \ {0}
      PROVE  StepH(m, i) \in Holders
  BY <1>1, StepIsHolder DEF MacsOK
<1>2. Marks(ms, ms2) \subseteq Holders
  BY <1>1 DEF Marks
<1>3. TurboMarks(ts, ts2) \subseteq Holders
  BY DEF TurboMarks, Holders
<1> QED  BY <1>2, <1>3

LEMMA ScanKeepsTypes ==
  ASSUME NEW scan, NEW holding, held \subseteq Holders, holding \subseteq Holders,
         ApplyScan(scan, holding)
  PROVE  /\ held' \subseteq Holders
         /\ buttons' \subseteq Buttons
         /\ axis' \in [Axes -> Values \cup {0}]
BY DEF ApplyScan

LEMMA SyncKeepsTypes ==
  ASSUME NEW d \in SUBSET Keys, NEW macs, MacsOK(macs), NEW turs, NEW scan,
         held \subseteq Holders, Sync(d, macs, turs, scan)
  PROVE  /\ active' \subseteq Chords /\ consumed' \subseteq Keys
         /\ held' \subseteq Holders
         /\ buttons' \subseteq Buttons
         /\ axis' \in [Axes -> Values \cup {0}]
<1> DEFINE act  == ActiveChords(d)
           cons == UNION {Guard(c) : c \in act}
           turs2 == [t \in Turbo |-> TurboSync(t, turs[t], Holding(d, act, cons, macs, turs))]
<1>1. act \subseteq Chords
  BY DEF ActiveChords
<1>2. cons \subseteq Keys
  BY <1>1, TablesAssumption
<1>3. PICK s : ApplyScan(s, Holding(d, act, cons, macs, turs2))
  BY DEF Sync
<1>4. Holding(d, act, cons, macs, turs2) \subseteq Holders
  <2> HIDE DEF act, cons, turs2
  <2> QED  BY <1>1, HoldingInHolders
<1>5. active' = act /\ consumed' = cons
  BY DEF Sync
<1> HIDE DEF act, cons, turs2
<1> QED  BY <1>1, <1>2, <1>3, <1>4, <1>5, ScanKeepsTypes

LEMMA SchedMacsOK == SchedInv => MacsOK(mac) /\ MacsOK(MacrosCancelled)
<1> SUFFICES ASSUME SchedInv PROVE MacsOK(mac) /\ MacsOK(MacrosCancelled)
  OBVIOUS
<1>1. \A m \in Macros : MacOK(m, mac[m], macrosOn)
  BY DEF SchedInv
<1>2. \A m \in Macros : MacOK(m, MacrosCancelled[m], TRUE)
  BY CancelledOK
<1> QED  BY <1>1, <1>2 DEF MacsOK, MacOK, MacRec

\* Handle never leaves the vocabulary: the macros it moves are those of mac'.
LEMMA HandleKeepsTypes ==
  ASSUME SetsOK, SchedInv, SchedInv', NEW k \in Keys, NEW isDown, Handle(k, isDown)
  PROVE  /\ down' \subseteq Keys
         /\ active' \subseteq Chords /\ consumed' \subseteq Keys
         /\ held' \subseteq Holders
         /\ buttons' \subseteq Buttons
         /\ axis' \in [Axes -> Values \cup {0}]
<1>1. down' \in SUBSET Keys
  BY DEF Handle, SetsOK
<1>2. CASE UNCHANGED <<active, consumed, held, mac, tur, buttons, axis>>
  BY <1>1, <1>2 DEF SetsOK
<1>3. CASE HandleMouse(k)
  <2>1. Holding(down' \cap MouseKeys, active, consumed, mac, tur) \subseteq Holders
    BY <1>1, SchedMacsOK, HoldingInHolders DEF SetsOK
  <2> QED  BY <1>1, <1>3, <2>1, ScanKeepsTypes DEF HandleMouse, SetsOK
<1>4. CASE HandleKeyboard(k, isDown)
  <2>1. PICK macs : Sync(down' \ MouseKeys, macs, tur,
             {KeyH(x) : x \in ChordKeys \cup {k}} \cup {ChordH(c) : c \in Chords})
    BY <1>4 DEF HandleKeyboard
  <2>2. mac' = macs
    BY <2>1 DEF Sync
  <2>3. MacsOK(macs)
    BY <2>2 DEF SchedInv, MacOK, MacRec, MacsOK
  <2> QED  BY <1>1, <2>1, <2>3, SyncKeepsTypes DEF SetsOK
<1> QED  BY <1>2, <1>3, <1>4 DEF Handle

LEMMA ApplyMovesKeepsTypes ==
  ASSUME SetsOK, SchedInv', NEW macs, NEW turs, NEW marks, ApplyMoves(macs, turs, marks),
         pc' \in {"idle", "ticking"}
  PROVE  SetsOK'
<1>1. mac' = macs
  BY DEF ApplyMoves
<1>2. MacsOK(macs)
  BY <1>1 DEF SchedInv, MacOK, MacRec, MacsOK
<1>3. Holding(down \ MouseKeys, active, consumed, macs, turs) \subseteq Holders
  BY <1>2, HoldingInHolders DEF SetsOK
<1> QED  BY <1>3, ScanKeepsTypes DEF ApplyMoves, SetsOK

LEMMA SetsStep == SetsOK /\ SchedInv /\ SchedInv' /\ [Next]_vars => SetsOK'
<1> SUFFICES ASSUME SetsOK, SchedInv, SchedInv', [Next]_vars PROVE SetsOK'
  OBVIOUS
<1>0. MacsOK(mac) /\ MacsOK(mac') /\ MacsOK(MacrosCancelled)
  BY SchedMacsOK DEF SchedInv, MacOK, MacRec, MacsOK
<1>1. CASE KeyEvents
  <2>1. PICK k \in Keys, isDown \in BOOLEAN, heard \in BOOLEAN : KeyEvent(k, isDown, heard)
    BY <1>1 DEF KeyEvents
  <2>2. phys' \subseteq Keys /\ UNCHANGED <<dirty, pc>>
    BY <2>1 DEF KeyEvent, Calm, SetsOK
  <2>3. CASE heard
    BY <2>1, <2>2, <2>3, HandleKeepsTypes DEF KeyEvent, SetsOK
  <2>4. CASE ~heard
    BY <2>1, <2>2, <2>4 DEF KeyEvent, SetsOK
  <2> QED  BY <2>3, <2>4
<1>2. ASSUME NEW k \in Keys, AutoRepeat(k) PROVE SetsOK'
  BY <1>2, HandleKeepsTypes DEF AutoRepeat, Calm, SetsOK
<1>3. CASE ReleaseKeyboard
  <2>1. Sync({}, MacrosCancelled, TurbosCancelled, AllHolders)
    BY <1>3 DEF ReleaseKeyboard
  <2> QED  BY <1>0, <1>3, <2>1, SyncKeepsTypes DEF ReleaseKeyboard, Calm, SetsOK
<1>4. CASE ReleaseMouse
  <2>1. Holding({}, active, consumed, mac, tur) \subseteq Holders
    BY <1>0, HoldingInHolders DEF SetsOK
  <2> QED  BY <1>4, <2>1, ScanKeepsTypes DEF ReleaseMouse, Calm, SetsOK
<1>5. CASE CancelMacros
  BY <1>5, ApplyMovesKeepsTypes DEF CancelMacros, SetsOK
<1>6. ASSUME NEW m \in Macros, NEW e \in BOOLEAN, SetMacroEnabled(m, e) PROVE SetsOK'
  <2>1. PICK macs, marks : ApplyMoves(macs, tur, marks)
    BY <1>6 DEF SetMacroEnabled
  <2> QED  BY <1>6, <2>1, ApplyMovesKeepsTypes DEF SetMacroEnabled, SetsOK
<1>7. ASSUME NEW on \in BOOLEAN, SetSlotMacros(on) PROVE SetsOK'
  <2>1. PICK macs, marks : ApplyMoves(macs, tur, marks)
    BY <1>7 DEF SetSlotMacros
  <2> QED  BY <1>7, <2>1, ApplyMovesKeepsTypes DEF SetSlotMacros, SetsOK
<1>8. CASE SwapTables
  BY <1>8 DEF SwapTables, SetsOK
<1>9. CASE Reset
  BY <1>9 DEF Reset, SetsOK
<1>10. CASE TickBegin
  BY <1>10 DEF TickBegin, SetsOK
<1>11. ASSUME NEW m \in Macros, PopMacro(m) PROVE SetsOK'
  <2>1. dirty' = dirty \cup Marks(mac, mac')
    BY <1>11 DEF PopMacro
  <2>2. Marks(mac, mac') \subseteq Holders
    BY <1>0, MarksInHolders
  <2> QED  BY <1>11, <2>1, <2>2 DEF PopMacro, SetsOK
<1>12. ASSUME NEW t \in Turbo, PopTurbo(t) PROVE SetsOK'
  <2>1. dirty' = dirty \cup TurboMarks(tur, tur')
    BY <1>12 DEF PopTurbo
  <2>2. TurboMarks(tur, tur') \subseteq Holders
    BY <1>0, MarksInHolders
  <2> QED  BY <1>12, <2>1, <2>2 DEF PopTurbo, SetsOK
<1>13. CASE TickEnd
  BY <1>13, ApplyMovesKeepsTypes DEF TickEnd
<1>14. CASE Elapse
  BY <1>14 DEF Elapse, SetsOK
<1>15. CASE UNCHANGED vars
  BY <1>15 DEF vars, SetsOK
<1> QED
  BY <1>1, <1>2, <1>3, <1>4, <1>5, <1>6, <1>7, <1>8, <1>9, <1>10, <1>11, <1>12,
     <1>13, <1>14, <1>15 DEF Next

\* Type correctness for every preset: in particular no macro ever points past
\* its last step and no scan names a holder the tables do not have.
THEOREM TypeCorrect == Spec => []TypeOK
<1>1. Init => SetsOK
  BY DEF Init, SetsOK
<1>2. SetsOK /\ SchedInv => TypeOK
  BY DEF SetsOK, SchedInv, MacOK, TypeOK
<1> QED  BY <1>1, <1>2, SetsStep, SchedulerInvariant, PTL DEF Spec

-----------------------------------------------------------------------------
(* The scheduler's clock: deadlines are absolute and never early.           *)

\* What a call outside the scheduler can do to a macro: leave its run alone,
\* end it, or begin one now.
RunMoves(m, r, r2) ==
  \/ /\ r2.step = r.step /\ r2.start = r.start /\ r2.since = r.since /\ r2.due = r.due
  \/ r2.step = 0 /\ r2.due = Off
  \/ /\ NSteps(m) > 0
     /\ r2.step = 1 /\ r2.start = now /\ r2.since = now /\ r2.due = Deadline(m, 1, now)

TurboMoves(t, r, r2) ==
  \/ r2 = r
  \/ ~r2.running
  \/ r2.running /\ r2.on /\ r2.since = now /\ r2.due = now + TurboMs[t].on

LEMMA CancelMoves ==
  ASSUME NEW m, NEW r, NEW q \in MacRec
  PROVE  RunMoves(m, r, MacroCancel(q))
<1>1. MacroCancel(q).step = 0 /\ MacroCancel(q).due = Off
  BY DEF MacroCancel, MacRec
<1> QED  BY <1>1 DEF RunMoves

LEMMA BeginMoves ==
  ASSUME NEW m, NEW r, NEW q \in MacRec, NSteps(m) > 0
  PROVE  RunMoves(m, r, MacroBegin(m, q))
BY DEF RunMoves, MacroBegin, MacRec

LEMMA KeyMoves ==
  ASSUME NEW m \in Macros, NEW r \in MacRec, NEW k, NEW isDown
  PROVE  LET q == IF isDown THEN MacroInterrupt(m, r, k) ELSE r
         IN RunMoves(m, r, MacroKey(m, q, k, isDown))
<1> DEFINE q == IF isDown THEN MacroInterrupt(m, r, k) ELSE r
<1>1. NSteps(m) \in Nat
  BY TablesAssumption
<1>2. q = r \/ q = MacroCancel(r)
  BY DEF MacroInterrupt
<1> HIDE DEF q
<1>3. q \in MacRec
  <2>1. MacroCancel(r) \in MacRec
    BY CancelOK DEF MacOK
  <2> QED  BY <1>2, <2>1
<1>4. RunMoves(m, r, q)
  BY <1>2, CancelMoves DEF RunMoves
<1>5. MacroStart(m, q) = q \/ (NSteps(m) > 0 /\ MacroStart(m, q) = MacroBegin(m, q))
  <2>1. NSteps(m) = 0 \/ NSteps(m) > 0
    BY <1>1
  <2> QED  BY <2>1, Zenon DEF MacroStart
<1>6. \/ MacroKey(m, q, k, isDown) = q
      \/ MacroKey(m, q, k, isDown) = MacroCancel(q)
      \/ NSteps(m) > 0 /\ MacroKey(m, q, k, isDown) = MacroBegin(m, q)
  BY <1>5 DEF MacroKey
<1>7. RunMoves(m, r, MacroKey(m, q, k, isDown))
  BY <1>3, <1>4, <1>6, CancelMoves, BeginMoves
<1> QED  BY <1>7 DEF q

LEMMA SyncTurboMoves ==
  ASSUME NEW t \in Turbo, NEW r, NEW holding
  PROVE  TurboMoves(t, r, TurboSync(t, r, holding))
<1> DEFINE driven == Sources(t) \cap holding # {}
<1>1. CASE driven = r.running
  BY <1>1 DEF TurboSync, TurboMoves
<1>2. CASE driven # r.running /\ driven
  <2>1. TurboSync(t, r, holding) =
          [running |-> driven, on |-> driven, since |-> now, due |-> now + TurboMs[t].on]
    BY <1>2 DEF TurboSync
  <2> QED  BY <1>2, <2>1 DEF TurboMoves
<1>3. CASE driven # r.running /\ ~driven
  <2>1. TurboSync(t, r, holding).running = driven
    BY <1>3 DEF TurboSync
  <2> QED  BY <1>3, <2>1 DEF TurboMoves
<1> QED  BY <1>1, <1>2, <1>3

\* Between ticks every macro and turbo moves in one of those ways.
OrderlyMoves == /\ \A m \in Macros : RunMoves(m, mac[m], mac'[m])
                /\ \A t \in Turbo : TurboMoves(t, tur[t], tur'[t])

LEMMA SameIsOrderly ==
  ASSUME UNCHANGED <<mac, tur>>
  PROVE  OrderlyMoves
BY DEF OrderlyMoves, RunMoves, TurboMoves

LEMMA CancelledMoves ==
  ASSUME SchedInv
  PROVE  /\ \A m \in Macros : RunMoves(m, mac[m], MacrosCancelled[m])
         /\ \A t \in Turbo : TurboMoves(t, tur[t], TurbosCancelled[t])
<1>1. \A m \in Macros : mac[m] \in MacRec
  BY DEF SchedInv
<1>2. ASSUME NEW m \in Macros
      PROVE  RunMoves(m, mac[m], MacrosCancelled[m])
  <2>1. MacrosCancelled[m] = mac[m] \/ MacrosCancelled[m] = MacroCancel(mac[m])
    BY DEF MacrosCancelled
  <2> QED  BY <1>1, <2>1, CancelMoves DEF RunMoves
<1>3. ASSUME NEW t \in Turbo
      PROVE  TurboMoves(t, tur[t], TurbosCancelled[t])
  BY DEF TurbosCancelled, TurboMoves, TurboOff
<1> QED  BY <1>2, <1>3

LEMMA SyncMoves ==
  ASSUME NEW d, NEW macs, NEW turs, NEW scan, Sync(d, macs, turs, scan),
         \A m \in Macros : RunMoves(m, mac[m], macs[m]),
         \A t \in Turbo : turs[t] = tur[t] \/ ~turs[t].running
  PROVE  OrderlyMoves
<1>1. mac' = macs
  BY DEF Sync
<1>2. \E h : tur' = [t \in Turbo |-> TurboSync(t, turs[t], h)]
  BY DEF Sync
<1>3. PICK h : tur' = [t \in Turbo |-> TurboSync(t, turs[t], h)]
  BY <1>2
<1>4. ASSUME NEW t \in Turbo
      PROVE  TurboMoves(t, tur[t], tur'[t])
  <2>1. TurboMoves(t, turs[t], tur'[t])
    BY <1>3, SyncTurboMoves
  <2> QED  BY <2>1 DEF TurboMoves
<1> QED  BY <1>1, <1>4 DEF OrderlyMoves

LEMMA HandleMoves ==
  ASSUME SchedInv, NEW k, NEW isDown, Handle(k, isDown)
  PROVE  OrderlyMoves
<1>1. CASE UNCHANGED <<mac, tur>>
  BY <1>1, SameIsOrderly
<1>2. CASE HandleKeyboard(k, isDown)
  <2> DEFINE Interrupted(m) == IF isDown THEN MacroInterrupt(m, mac[m], k) ELSE mac[m]
             macs == IF (k \in down) # isDown
                     THEN [m \in Macros |-> MacroKey(m, Interrupted(m), k, isDown)] ELSE mac
  <2>1. PICK scan : Sync(down' \ MouseKeys, macs, tur, scan)
    BY <1>2 DEF HandleKeyboard
  <2>2. ASSUME NEW m \in Macros
        PROVE  RunMoves(m, mac[m], macs[m])
    <3>1. mac[m] \in MacRec
      BY DEF SchedInv
    <3>2. RunMoves(m, mac[m], MacroKey(m, Interrupted(m), k, isDown))
      BY <3>1, KeyMoves
    <3>3. RunMoves(m, mac[m], mac[m])
      BY DEF RunMoves
    <3> QED  BY <3>2, <3>3
  <2> HIDE DEF macs
  <2> QED  BY <2>1, <2>2, SyncMoves
<1> QED  BY <1>1, <1>2 DEF Handle, HandleMouse

LEMMA IdleMoves ==
  ASSUME SchedInv, [Next]_vars
  PROVE  \/ OrderlyMoves /\ now' = now
         \/ UNCHANGED <<mac, tur>> /\ now' = now + 1 /\ Elapse
         \/ \E m \in Macros : PopMacro(m)
         \/ \E t \in Turbo : PopTurbo(t)
<1>1. CASE KeyEvents
  <2>1. PICK k \in Keys, isDown \in BOOLEAN, heard \in BOOLEAN : KeyEvent(k, isDown, heard)
    BY <1>1 DEF KeyEvents
  <2> QED  BY <2>1, HandleMoves, SameIsOrderly DEF KeyEvent, Calm
<1>2. ASSUME NEW k \in Keys, AutoRepeat(k)
      PROVE  OrderlyMoves /\ now' = now
  BY <1>2, HandleMoves DEF AutoRepeat, Calm
<1>3. CASE ReleaseKeyboard
  <2>1. Sync({}, MacrosCancelled, TurbosCancelled, AllHolders) /\ now' = now
    BY <1>3 DEF ReleaseKeyboard, Calm
  <2>2. \A t \in Turbo : TurbosCancelled[t] = tur[t] \/ ~TurbosCancelled[t].running
    BY DEF TurbosCancelled, TurboOff
  <2> QED  BY <2>1, <2>2, CancelledMoves, SyncMoves
<1>4. CASE ReleaseMouse \/ TickBegin \/ TickEnd
  BY <1>4, SameIsOrderly DEF ReleaseMouse, Calm, TickBegin, TickEnd, ApplyMoves
<1>5. CASE CancelMacros
  BY <1>5, CancelledMoves DEF CancelMacros, ApplyMoves, OrderlyMoves
<1>6. ASSUME NEW m \in Macros, NEW e \in BOOLEAN, SetMacroEnabled(m, e)
      PROVE  OrderlyMoves /\ now' = now
  <2> DEFINE r == [mac[m] EXCEPT !.enabled = e]
             q == IF e THEN r ELSE MacroCancel(r)
  <2>1. mac' = [mac EXCEPT ![m] = q] /\ tur' = tur /\ now' = now
    BY <1>6 DEF SetMacroEnabled, ApplyMoves
  <2>2. mac \in [Macros -> MacRec]
    BY DEF SchedInv
  <2>3. r \in MacRec /\ r.step = mac[m].step /\ r.start = mac[m].start
        /\ r.since = mac[m].since /\ r.due = mac[m].due
    BY <2>2 DEF MacRec
  <2>4. RunMoves(m, mac[m], q)
    BY <2>3, CancelMoves DEF RunMoves
  <2> HIDE DEF q
  <2>5. ASSUME NEW x \in Macros
        PROVE  RunMoves(x, mac[x], mac'[x])
    BY <2>1, <2>2, <2>4 DEF RunMoves
  <2> QED  BY <2>1, <2>5 DEF OrderlyMoves, TurboMoves
<1>7. ASSUME NEW on \in BOOLEAN, SetSlotMacros(on)
      PROVE  OrderlyMoves /\ now' = now
  <2>1. (mac' = mac \/ mac' = MacrosCancelled) /\ tur' = tur /\ now' = now
    BY <1>7 DEF SetSlotMacros, ApplyMoves
  <2> QED  BY <2>1, CancelledMoves, SameIsOrderly DEF OrderlyMoves, TurboMoves
<1>8. CASE SwapTables \/ Reset
  <2>1. /\ \A m \in Macros : mac'[m].step = 0 /\ mac'[m].due = Off
        /\ \A t \in Turbo : ~tur'[t].running
        /\ now' = now
    BY <1>8 DEF SwapTables, Reset, MacroOff, TurboOff
  <2> QED  BY <2>1 DEF OrderlyMoves, RunMoves, TurboMoves
<1>9. CASE UNCHANGED vars
  BY <1>9, SameIsOrderly DEF vars
<1>10. CASE Elapse
  BY <1>10 DEF Elapse
<1> QED
  BY <1>1, <1>2, <1>3, <1>4, <1>5, <1>6, <1>7, <1>8, <1>9, <1>10 DEF Next

\* No deadline comes before the minimum of what it ends.
Waits ==
  /\ \A m \in Macros : mac[m].step # 0 => mac[m].due >= mac[m].since + MacroDef[m].min[mac[m].step]
  /\ \A t \in Turbo : tur[t].running =>
       tur[t].due = tur[t].since + IF tur[t].on THEN TurboMs[t].on ELSE TurboMs[t].off

LEMMA DeadlineWaits ==
  ASSUME NEW m \in Macros, NEW i \in 1..NSteps(m), NEW start \in Nat, now \in Nat
  PROVE  /\ MacroDef[m].min[i] \in Nat /\ MacroDef[m].ends[i] \in Nat
         /\ Deadline(m, i, start) >= now + MacroDef[m].min[i]
<1>1. MacroDef[m].ends \in Seq(Nat) /\ MacroDef[m].min \in Seq(Nat)
      /\ Len(MacroDef[m].ends) = NSteps(m) /\ Len(MacroDef[m].min) = NSteps(m)
      /\ NSteps(m) \in Nat
  BY TablesAssumption
<1>2. i \in 1..Len(MacroDef[m].ends) /\ i \in 1..Len(MacroDef[m].min)
  BY ONLY <1>1, i \in 1..NSteps(m)
<1>3. MacroDef[m].ends[i] \in Nat /\ MacroDef[m].min[i] \in Nat
  BY ONLY <1>1, <1>2, NatEntry
<1> QED  BY <1>3 DEF Deadline

\* The four ways a popped timer can leave its macro, as moves: a begin, an end,
\* or the next step of the run.
LEMMA AdvanceMoves ==
  ASSUME NEW m \in Macros, NEW r, MacOK(m, r, macrosOn), macrosOn \in BOOLEAN, NEW again
  PROVE  LET q == MacroAdvance(m, r, again) IN
         \/ q.step = 0 /\ (q.due = Off \/ q.due = now + MacroDef[m].gap)
         \/ NSteps(m) > 0 /\ q.step = 1 /\ q.start = now /\ q.since = now
            /\ q.due = Deadline(m, 1, now)
         \/ /\ r.step # 0 /\ r.step + 1 <= NSteps(m)
            /\ q.step = r.step + 1 /\ q.start = r.start /\ q.since = now
            /\ q.due = Deadline(m, r.step + 1, r.start)
<1> DEFINE q == MacroAdvance(m, r, again)
           ended == MacroCancel(r)
           Begins(x) == x.step = 1 /\ x.start = now /\ x.since = now /\ x.due = Deadline(m, 1, now)
<1>1. r \in MacRec /\ NSteps(m) \in Nat /\ r.step \in Nat
  BY TablesAssumption DEF MacOK, MacRec
<1>2. ended \in MacRec /\ ended.step = 0 /\ ended.due = Off
  <2>1. ended.step = 0 /\ ended.due = Off
    BY <1>1 DEF MacroCancel, MacRec
  <2> QED  BY <1>1, <2>1, CancelOK DEF MacOK
<1>3. Begins(MacroBegin(m, r)) /\ Begins(MacroBegin(m, ended))
  BY <1>1, <1>2 DEF MacroBegin, MacRec
<1>4. CASE r.step = 0 /\ r.gapping
  <2>1. NSteps(m) > 0
    BY <1>4 DEF MacOK
  <2>2. q = MacroBegin(m, r) \/ q = [r EXCEPT !.gapping = FALSE, !.due = Off]
    BY <1>4 DEF MacroAdvance
  <2>3. q = [r EXCEPT !.gapping = FALSE, !.due = Off] => q.step = 0 /\ q.due = Off
    BY <1>1, <1>4 DEF MacRec
  <2> QED  BY <1>3, <2>1, <2>2, <2>3
<1>5. CASE r.step = 0 /\ ~r.gapping
  <2>1. q = [r EXCEPT !.due = Off]
    BY <1>5 DEF MacroAdvance
  <2>2. q.step = 0 /\ q.due = Off
    BY <1>1, <1>5, <2>1 DEF MacRec
  <2> QED  BY <2>2
<1>6. CASE r.step # 0 /\ r.step + 1 <= NSteps(m)
  <2>1. q = [r EXCEPT !.step = r.step + 1, !.since = now, !.due = Deadline(m, r.step + 1, r.start)]
    BY <1>1, <1>6 DEF MacroAdvance
  <2>2. q.step = r.step + 1 /\ q.start = r.start /\ q.since = now
        /\ q.due = Deadline(m, r.step + 1, r.start)
    BY <1>1, <2>1 DEF MacRec
  <2> QED  BY <1>6, <2>2
<1>7. CASE r.step # 0 /\ r.step + 1 > NSteps(m)
  <2>1. NSteps(m) > 0
    BY <1>1, <1>7 DEF MacOK
  <2>2. \/ q = ended
        \/ q = [ended EXCEPT !.gapping = TRUE, !.since = now, !.due = now + MacroDef[m].gap]
        \/ q = MacroBegin(m, ended)
    BY <1>7 DEF MacroAdvance
  <2>3. q = [ended EXCEPT !.gapping = TRUE, !.since = now, !.due = now + MacroDef[m].gap]
          => q.step = 0 /\ q.due = now + MacroDef[m].gap
    BY <1>2 DEF MacRec
  <2> QED  BY <1>2, <1>3, <2>1, <2>2, <2>3
<1> QED  BY <1>1, <1>4, <1>5, <1>6, <1>7

\* A popped turbo flips its half and waits out the new one.
LEMMA FlipWaits ==
  ASSUME NEW t \in Turbo, NEW r, TurOK(r), now \in Nat, TurboAdvance(t, r).running
  PROVE  LET q == TurboAdvance(t, r)
         IN q.due = q.since + IF q.on THEN TurboMs[t].on ELSE TurboMs[t].off
<1> DEFINE q == TurboAdvance(t, r)
<1>1. r \in TurRec
  BY DEF TurOK
<1>2. r.running
  <2>1. ~r.running => q = [r EXCEPT !.due = Off]
    BY DEF TurboAdvance
  <2> QED  BY <1>1, <2>1 DEF TurRec
<1>3. q = [running |-> TRUE, on |-> ~r.on, since |-> now,
           due |-> now + IF r.on THEN TurboMs[t].off ELSE TurboMs[t].on]
  BY <1>2 DEF TurboAdvance
<1>4. CASE r.on
  <2>1. q = [running |-> TRUE, on |-> FALSE, since |-> now, due |-> now + TurboMs[t].off]
    BY <1>3, <1>4
  <2> HIDE DEF q
  <2>2. q.due = q.since + IF q.on THEN TurboMs[t].on ELSE TurboMs[t].off
    BY <2>1
  <2> QED  BY <2>2 DEF q
<1>5. CASE ~r.on
  <2>1. q = [running |-> TRUE, on |-> TRUE, since |-> now, due |-> now + TurboMs[t].on]
    BY <1>3, <1>5
  <2> HIDE DEF q
  <2>2. q.due = q.since + IF q.on THEN TurboMs[t].on ELSE TurboMs[t].off
    BY <2>1
  <2> QED  BY <2>2 DEF q
<1> QED  BY <1>4, <1>5

LEMMA AlwaysWaits == Spec => []Waits
<1>1. Init => Waits
  <2> SUFFICES ASSUME Init PROVE Waits
    OBVIOUS
  <2>1. \A m \in Macros : mac[m].step = 0
    BY DEF Init, MacroOff
  <2>2. \A t \in Turbo : tur[t].running = FALSE
    BY DEF Init, TurboOff
  <2> QED  BY <2>1, <2>2 DEF Waits
<1>2. Waits /\ SchedInv /\ [Next]_vars => Waits'
  <2> SUFFICES ASSUME Waits, SchedInv, [Next]_vars PROVE Waits'
    OBVIOUS
  <2>0. /\ now \in Nat /\ macrosOn \in BOOLEAN
        /\ mac \in [Macros -> MacRec] /\ tur \in [Turbo -> TurRec]
        /\ \A m \in Macros : MacOK(m, mac[m], macrosOn) /\ NSteps(m) \in Nat
                             /\ mac[m].step \in Nat /\ mac[m].start \in Nat
        /\ \A t \in Turbo : TurOK(tur[t])
    BY TablesAssumption DEF SchedInv, MacRec
  <2>1. ASSUME NEW m \in Macros, NSteps(m) > 0
        PROVE  Deadline(m, 1, now) >= now + MacroDef[m].min[1]
    <3>1. 1 \in 1..NSteps(m)
      BY <2>0, <2>1
    <3> QED  BY <2>0, <3>1, DeadlineWaits
  <2>2. CASE OrderlyMoves
    <3>1. ASSUME NEW m \in Macros, mac'[m].step # 0
          PROVE  mac'[m].due >= mac'[m].since + MacroDef[m].min[mac'[m].step]
      <4>1. RunMoves(m, mac[m], mac'[m])
        BY <2>2 DEF OrderlyMoves
      <4>2. CASE mac'[m].step = mac[m].step /\ mac'[m].since = mac[m].since /\ mac'[m].due = mac[m].due
        BY <3>1, <4>2 DEF Waits
      <4>3. CASE NSteps(m) > 0 /\ mac'[m].step = 1 /\ mac'[m].since = now
                 /\ mac'[m].due = Deadline(m, 1, now)
        BY <2>1, <4>3
      <4> QED  BY <3>1, <4>1, <4>2, <4>3 DEF RunMoves
    <3>2. ASSUME NEW t \in Turbo, tur'[t].running
          PROVE  tur'[t].due = tur'[t].since + IF tur'[t].on THEN TurboMs[t].on ELSE TurboMs[t].off
      <4>1. TurboMoves(t, tur[t], tur'[t])
        BY <2>2 DEF OrderlyMoves
      <4> QED  BY <3>2, <4>1 DEF TurboMoves, Waits
    <3> QED  BY <3>1, <3>2 DEF Waits
  <2>3. CASE UNCHANGED <<mac, tur>>
    BY <2>3 DEF Waits
  <2>4. ASSUME NEW m \in Macros, PopMacro(m) PROVE Waits'
    <3> DEFINE again == MacroDef[m].triggers \cap (down \ MouseKeys) # {}
               q == MacroAdvance(m, mac[m], again)
    <3>1. mac' = [mac EXCEPT ![m] = q] /\ tur' = tur
      BY <2>4 DEF PopMacro
    <3>2. \/ q.step = 0
          \/ NSteps(m) > 0 /\ q.step = 1 /\ q.start = now /\ q.since = now
             /\ q.due = Deadline(m, 1, now)
          \/ /\ mac[m].step # 0 /\ mac[m].step + 1 <= NSteps(m)
             /\ q.step = mac[m].step + 1 /\ q.start = mac[m].start /\ q.since = now
             /\ q.due = Deadline(m, mac[m].step + 1, mac[m].start)
      BY <2>0, AdvanceMoves
    <3> HIDE DEF q
    <3>3. mac[m].step # 0 /\ mac[m].step + 1 <= NSteps(m) =>
            Deadline(m, mac[m].step + 1, mac[m].start) >= now + MacroDef[m].min[mac[m].step + 1]
      <4>1. mac[m].step # 0 /\ mac[m].step + 1 <= NSteps(m) => mac[m].step + 1 \in 1..NSteps(m)
        BY <2>0
      <4> QED  BY <2>0, <4>1, DeadlineWaits
    <3>4. q.step # 0 => q.due >= q.since + MacroDef[m].min[q.step]
      BY <2>1, <3>2, <3>3
    <3> QED  BY <2>0, <3>1, <3>4 DEF Waits
  <2>5. ASSUME NEW t \in Turbo, PopTurbo(t) PROVE Waits'
    <3> DEFINE q == TurboAdvance(t, tur[t])
    <3>1. tur' = [tur EXCEPT ![t] = q] /\ mac' = mac
      BY <2>5 DEF PopTurbo
    <3>2. q.running => q.due = q.since + IF q.on THEN TurboMs[t].on ELSE TurboMs[t].off
      BY <2>0, FlipWaits
    <3> HIDE DEF q
    <3> QED  BY <2>0, <3>1, <3>2 DEF Waits
  <2> QED  BY <2>2, <2>3, <2>4, <2>5, IdleMoves
<1> QED  BY <1>1, <1>2, SchedulerInvariant, PTL DEF Spec

\* For every preset and however late the engine thread wakes: the scheduler
\* leaves a step only after its sampling minimum, a turbo half only after it
\* has lasted (macro_deadline, turbo_advance).
THEOREM StepsAreAlwaysSeen == Spec => StepsAreSeen
<1> DEFINE Seen ==
      pc = "ticking" =>
        /\ \A m \in Macros :
             mac[m].step # 0 /\ mac'[m] # mac[m]
               => now >= mac[m].since + MacroDef[m].min[mac[m].step]
        /\ \A t \in Turbo :
             tur[t].running /\ tur'[t] # tur[t]
               => now >= tur[t].since + IF tur[t].on THEN TurboMs[t].on ELSE TurboMs[t].off
<1>1. Waits /\ SchedInv /\ [Next]_vars => [Seen]_vars
  <2> SUFFICES ASSUME Waits, SchedInv, [Next]_vars, pc = "ticking" PROVE Seen
    OBVIOUS
  <2>0. /\ now \in Nat /\ mac \in [Macros -> MacRec] /\ tur \in [Turbo -> TurRec]
    BY DEF SchedInv
  <2>1. \/ UNCHANGED <<mac, tur>>
        \/ \E m \in Macros : PopMacro(m)
        \/ \E t \in Turbo : PopTurbo(t)
    BY DEF Next, KeyEvents, KeyEvent, AutoRepeat, ReleaseKeyboard, ReleaseMouse, CancelMacros,
           SetMacroEnabled, SetSlotMacros, SwapTables, Reset, Panel, TickBegin, TickEnd,
           ApplyMoves, Elapse, vars
  <2>2. CASE UNCHANGED <<mac, tur>>
    BY <2>2
  <2>3. ASSUME NEW m \in Macros, PopMacro(m) PROVE Seen
    <3>1. /\ mac[m].due <= now /\ mac[m].due # Off /\ tur' = tur
          /\ \A x \in Macros \ {m} : mac'[x] = mac[x]
      BY <2>0, <2>3 DEF PopMacro, DueNow
    <3>2. mac[m].step # 0 => /\ mac[m].due >= mac[m].since + MacroDef[m].min[mac[m].step]
                             /\ mac[m].due \in Nat /\ mac[m].since \in Nat
                             /\ MacroDef[m].min[mac[m].step] \in Nat
      <4>1. mac[m].step # 0 => mac[m].step \in 1..NSteps(m)
        BY TablesAssumption DEF SchedInv, MacOK, MacRec
      <4>2. mac[m] \in MacRec
        BY <2>0
      <4> QED  BY <2>0, <3>1, <4>1, <4>2, DeadlineWaits DEF Waits, MacRec
    <3>3. mac[m].step # 0 => now >= mac[m].since + MacroDef[m].min[mac[m].step]
      BY ONLY <2>0, <3>1, <3>2
    <3> QED  BY <3>1, <3>3
  <2>4. ASSUME NEW t \in Turbo, PopTurbo(t) PROVE Seen
    <3>1. /\ tur[t].due <= now /\ mac' = mac
          /\ \A x \in Turbo \ {t} : tur'[x] = tur[x]
      BY <2>0, <2>4 DEF PopTurbo, DueNow
    <3>2. tur[t].running => now >= tur[t].since + IF tur[t].on THEN TurboMs[t].on ELSE TurboMs[t].off
      BY <3>1 DEF Waits
    <3> QED  BY <3>1, <3>2
  <2> QED  BY <2>1, <2>2, <2>3, <2>4
<1> QED  BY <1>1, AlwaysWaits, SchedulerInvariant, PTL DEF Spec, StepsAreSeen

-----------------------------------------------------------------------------
(* Lateness does not add up.                                                *)

\* Every step but the last leaves room for its sampling minimum and one late wake.
Roomy ==
  \A m \in Macros : \A i \in 1..NSteps(m) :
    i < NSteps(m) =>
      MacroDef[m].min[i] + (IF i = 1 THEN 0 ELSE MacroDef[m].ends[i - 1] + MaxLate)
        <= MacroDef[m].ends[i]

\* A macro on its run's timeline: its deadline is the step's place in the run,
\* the step began no later than MaxLate after its own place, and no armed
\* deadline is further behind the clock than the engine thread is ever late.
OnTime(m, r) ==
  /\ r.step # 0 /\ r.step < NSteps(m) => r.due = r.start + MacroDef[m].ends[r.step]
  /\ r.step > 1 => r.since <= r.start + MacroDef[m].ends[r.step - 1] + MaxLate
  /\ r.due # Off => now <= r.due + MaxLate

LEMMA BegunOnTime ==
  ASSUME Roomy, NEW m \in Macros, NEW r, NSteps(m) > 0, now \in Nat, MaxLate \in Nat,
         r.step = 1, r.start = now, r.due = Deadline(m, 1, now)
  PROVE  OnTime(m, r)
<1>1. NSteps(m) \in Nat /\ 1 \in 1..NSteps(m)
  BY TablesAssumption
<1>2. /\ MacroDef[m].min[1] \in Nat /\ MacroDef[m].ends[1] \in Nat
      /\ r.due >= now + MacroDef[m].min[1] /\ r.due \in Nat
  BY <1>1, DeadlineWaits, DeadlineType
<1>3. 1 < NSteps(m) => MacroDef[m].min[1] + 0 <= MacroDef[m].ends[1]
  BY <1>1 DEF Roomy
<1>4. 1 < NSteps(m) => r.due = now + MacroDef[m].ends[1]
  BY <1>2, <1>3 DEF Deadline
<1> QED  BY <1>2, <1>4 DEF OnTime

LEMMA NextStepOnTime ==
  ASSUME Roomy, NEW m \in Macros, NEW r, MacOK(m, r, macrosOn), OnTime(m, r),
         r.step # 0, r.step + 1 <= NSteps(m), now \in Nat, MaxLate \in Nat,
         NEW q, q.step = r.step + 1, q.start = r.start, q.since = now,
         q.due = Deadline(m, r.step + 1, r.start)
  PROVE  OnTime(m, q)
<1> DEFINE i == r.step
           ends == MacroDef[m].ends
           min == MacroDef[m].min
<1>1. NSteps(m) \in Nat /\ i \in Nat /\ r.start \in Nat /\ r.due # Off
  BY TablesAssumption DEF MacOK, MacRec
<1>2. i \in 1..NSteps(m) /\ i + 1 \in 1..NSteps(m) /\ i < NSteps(m) /\ (i + 1) - 1 = i /\ i + 1 # 1
  BY ONLY <1>1, r.step # 0, r.step + 1 <= NSteps(m)
<1>3. ends[i] \in Nat /\ ends[i + 1] \in Nat /\ min[i + 1] \in Nat
  BY <1>2, DeadlineWaits, <1>1
<1>4. q.due >= now + min[i + 1] /\ q.due \in Nat
  BY <1>1, <1>2, DeadlineWaits, DeadlineType
<1>5. now <= r.start + ends[i] + MaxLate
  BY <1>1, <1>2, <1>3 DEF OnTime
<1>6. i + 1 < NSteps(m) => min[i + 1] + (ends[i] + MaxLate) <= ends[i + 1]
  BY <1>2 DEF Roomy
<1>7. i + 1 < NSteps(m) => r.start + ends[i + 1] >= now + min[i + 1]
  BY ONLY <1>1, <1>3, <1>5, <1>6, now \in Nat, MaxLate \in Nat
<1>8. i + 1 < NSteps(m) => q.due = r.start + ends[i + 1]
  BY <1>7 DEF Deadline
<1> QED  BY ONLY <1>2, <1>3, <1>4, <1>5, <1>8, now \in Nat, MaxLate \in Nat,
           q.step = r.step + 1, q.start = r.start, q.since = now DEF OnTime

\* For every preset whose steps leave room for their minimum and one late wake:
\* a step begins at most MaxLate after its place in the run, however many late
\* wakes came before it.
THEOREM LatenessDoesNotAddUp ==
  ASSUME Roomy, MaxLate \in Nat
  PROVE  Spec => []NoDrift
<1> DEFINE Timeline == \A m \in Macros : OnTime(m, mac[m])
<1>1. Init => Timeline
  <2> SUFFICES ASSUME Init, NEW m \in Macros PROVE OnTime(m, mac[m])
    OBVIOUS
  <2>1. mac[m].step = 0 /\ mac[m].due = Off
    BY DEF Init, MacroOff
  <2> QED  BY <2>1 DEF OnTime
<1>2. Timeline /\ SchedInv /\ [Next]_vars => Timeline'
  <2> SUFFICES ASSUME Timeline, SchedInv, [Next]_vars, NEW m \in Macros
               PROVE  OnTime(m, mac[m])'
    OBVIOUS
  <2>0. /\ now \in Nat /\ macrosOn \in BOOLEAN /\ mac \in [Macros -> MacRec]
        /\ MacOK(m, mac[m], macrosOn) /\ OnTime(m, mac[m])
    BY DEF SchedInv
  <2>1. CASE OrderlyMoves /\ now' = now
    <3>1. RunMoves(m, mac[m], mac'[m])
      BY <2>1 DEF OrderlyMoves
    <3>2. CASE mac'[m].step = mac[m].step /\ mac'[m].start = mac[m].start
               /\ mac'[m].since = mac[m].since /\ mac'[m].due = mac[m].due
      BY <2>0, <2>1, <3>2 DEF OnTime
    <3>3. CASE mac'[m].step = 0 /\ mac'[m].due = Off
      BY <3>3 DEF OnTime
    <3>4. CASE NSteps(m) > 0 /\ mac'[m].step = 1 /\ mac'[m].start = now
               /\ mac'[m].due = Deadline(m, 1, now)
      <4>1. OnTime(m, mac'[m])
        BY <2>0, <3>4, BegunOnTime
      <4> QED  BY <2>1, <4>1 DEF OnTime
    <3> QED  BY <3>1, <3>2, <3>3, <3>4 DEF RunMoves
  <2>2. CASE UNCHANGED <<mac, tur>> /\ now' = now + 1 /\ Elapse
    <3>1. mac[m].due # Off => now < mac[m].due + MaxLate /\ mac[m].due \in Nat
      <4>1. mac[m].due # Off => mac[m].due \in Deadlines
        BY DEF Deadlines
      <4> QED  BY <2>0, <2>2, <4>1 DEF Elapse, MacRec
    <3> QED  BY <2>0, <2>2, <3>1 DEF OnTime
  <2>3. ASSUME NEW x \in Macros, PopMacro(x) PROVE OnTime(m, mac[m])'
    <3> DEFINE again == MacroDef[x].triggers \cap (down \ MouseKeys) # {}
               q == MacroAdvance(x, mac[x], again)
    <3>1. mac' = [mac EXCEPT ![x] = q] /\ now' = now
      BY <2>3 DEF PopMacro
    <3>2. CASE x # m
      BY <2>0, <3>1, <3>2 DEF OnTime
    <3>3. CASE x = m
      <4>1. \/ q.step = 0 /\ (q.due = Off \/ q.due = now + MacroDef[m].gap)
            \/ NSteps(m) > 0 /\ q.step = 1 /\ q.start = now /\ q.since = now
               /\ q.due = Deadline(m, 1, now)
            \/ /\ mac[m].step # 0 /\ mac[m].step + 1 <= NSteps(m)
               /\ q.step = mac[m].step + 1 /\ q.start = mac[m].start /\ q.since = now
               /\ q.due = Deadline(m, mac[m].step + 1, mac[m].start)
        BY <2>0, <3>3, AdvanceMoves
      <4>2. mac'[m] = q
        BY <2>0, <3>1, <3>3
      <4> HIDE DEF q
      <4>3. CASE q.step = 0 /\ (q.due = Off \/ q.due = now + MacroDef[m].gap)
        <5>1. q.due # Off => q.due \in Nat /\ q.due >= now
          BY <2>0, <4>3, TablesAssumption
        <5> QED  BY <2>0, <3>1, <4>2, <4>3, <5>1 DEF OnTime
      <4>4. CASE NSteps(m) > 0 /\ q.step = 1 /\ q.start = now /\ q.due = Deadline(m, 1, now)
        <5>1. OnTime(m, q)
          BY <2>0, <4>4, BegunOnTime
        <5> QED  BY <3>1, <4>2, <5>1 DEF OnTime
      <4>5. CASE /\ mac[m].step # 0 /\ mac[m].step + 1 <= NSteps(m)
                 /\ q.step = mac[m].step + 1 /\ q.start = mac[m].start /\ q.since = now
                 /\ q.due = Deadline(m, mac[m].step + 1, mac[m].start)
        <5>1. OnTime(m, q)
          BY <2>0, <4>5, NextStepOnTime
        <5> QED  BY <3>1, <4>2, <5>1 DEF OnTime
      <4> QED  BY <4>1, <4>3, <4>4, <4>5
    <3> QED  BY <3>2, <3>3
  <2>4. ASSUME NEW t \in Turbo, PopTurbo(t) PROVE OnTime(m, mac[m])'
    BY <2>0, <2>4 DEF PopTurbo, OnTime
  <2> QED  BY <2>1, <2>2, <2>3, <2>4, IdleMoves
<1>3. Timeline => NoDrift
  BY DEF NoDrift, OnTime
<1> QED  BY <1>1, <1>2, <1>3, SchedulerInvariant, PTL DEF Spec

=============================================================================
