------------------------------- MODULE Engine -------------------------------
(***************************************************************************)
(* The translation engine of ksx-core (crates/ksx-core/src/engine.rs): key *)
(* events in, pad states out.  The module models one STATEFUL slot, that   *)
(* is one with chords, macros or turbo rows, fed by the two devices a slot *)
(* may have: the keyboard, which decides its chords and macros, and a      *)
(* mouse, whose keys only press plain bindings.  Slots share nothing but   *)
(* the clock, so one slot meets every order of calls the engine thread can *)
(* make.                                                                   *)
(*                                                                         *)
(* A HOLDER is whatever can keep a binding pressed: a key, a chord, one    *)
(* step of a macro, or a turbo endpoint.  Dense ids and bitsets are sets   *)
(* here, and the order of holders inside one scan is left open: the code's *)
(* fixed order is one of the outcomes allowed.                             *)
(***************************************************************************)
EXTENDS Integers, FiniteSets, Sequences

CONSTANTS
  Keys,       \* the key names the slot's preset knows
  MouseKeys,  \* those of them that arrive from the slot's mouse
  Buttons,    \* two-state controls: buttons, triggers, dpad directions
  Opposed,    \* pairs of dpad directions that cancel, as two-element sets
  Axes,       \* the stick axes
  Values,     \* the deflections the preset binds, none of them 0
  Entries,    \* [bindings] rows: pairs <<key, binding>>
  Chords,     \* guarded rows, and what each one says:
  ChordDef,   \*   [bind, trigger, when, unless]
  Macros,     \* macro definitions, and what each one says:
  MacroDef,   \*   [triggers, hold, ends, min, abort, restart, interrupt,
              \*    repeat, gap, enabled], durations already in milliseconds
  Turbo,      \* the bindings with a turbo row
  TurboMs,    \* milliseconds of a turbo's pressed and released half: [on, off]
  Lossy,      \* may the bounded capture channel drop an event?
  LastInput,  \* bound: nobody touches the panel after this instant
  MaxTime,    \* bound on the clock
  MaxLate     \* bound on how late the engine thread wakes for a deadline

Off == -1     \* a deadline that is not armed
Consume == <<"consume">>
ButtonB(b)  == <<"button", b>>
AxisB(a, v) == <<"axis", a, v>>
Bindings == {ButtonB(b) : b \in Buttons} \cup {AxisB(a, v) : a \in Axes, v \in Values}

KeyH(k)     == <<"key", k>>
ChordH(c)   == <<"chord", c>>
StepH(m, i) == <<"step", m, i>>
TurboH(t)   == <<"turbo", t>>

NSteps(m) == Len(MacroDef[m].hold)
KeyHolders == {KeyH(k) : k \in Keys}
Holders == KeyHolders \cup {ChordH(c) : c \in Chords}
                      \cup {TurboH(t) : t \in Turbo}
                      \cup UNION {{StepH(m, i) : i \in 1..NSteps(m)} : m \in Macros}

BindingsOf(k) == {e[2] : e \in {r \in Entries : r[1] = k}}

\* The keys and chords that only ask for a turbo endpoint, because the table
\* build took the binding away from them and gave it to the turbo holder.
Sources(t) == {KeyH(k) : k \in {x \in Keys : t \in BindingsOf(x)}}
         \cup {ChordH(c) : c \in {x \in Chords : ChordDef[x].bind = t}}

\* holder_bindings: what each holder presses.
Drives == [h \in Holders |->
  CASE h[1] = "key"   -> BindingsOf(h[2]) \ (Turbo \cup {Consume})
    [] h[1] = "chord" -> {ChordDef[h[2]].bind} \ (Turbo \cup {Consume})
    [] h[1] = "step"  -> MacroDef[h[2]].hold[h[3]] \ {Consume}
    [] h[1] = "turbo" -> IF Sources(h[2]) = {} THEN {} ELSE {h[2]}]

Guard(c)    == {ChordDef[c].trigger} \cup ChordDef[c].when
Specific(c) == Cardinality(ChordDef[c].when) + Cardinality(ChordDef[c].unless)
ChordKeys   == UNION {Guard(c) : c \in Chords}

\* sync_slots: the keys whose events make the slot resync.
Touches == {k \in Keys : BindingsOf(k) \ {Consume} # {}}
      \cup ChordKeys \cup UNION {ChordDef[c].unless : c \in Chords}
      \cup UNION {MacroDef[m].triggers : m \in Macros}

\* all_holders: a key that presses nothing itself is not rescanned by a yank.
AllHolders == {h \in Holders : h \notin KeyHolders \/ Drives[h] # {}}

\* What EngineTables::build guarantees of the tables it hands over.
ASSUME TablesAssumption ==
  /\ MouseKeys \subseteq Keys
  /\ Entries \subseteq Keys \X (Bindings \cup {Consume})
  /\ Values \subseteq Int \ {0}
  /\ \A m \in Macros :
       /\ MacroDef[m].ends \in Seq(Nat) /\ Len(MacroDef[m].ends) = NSteps(m)
       /\ MacroDef[m].min \in Seq(Nat) /\ Len(MacroDef[m].min) = NSteps(m)
       /\ MacroDef[m].gap \in Nat /\ MacroDef[m].enabled \in BOOLEAN
       /\ NSteps(m) \in Nat
  /\ \A c \in Chords : Guard(c) \subseteq Keys /\ ChordDef[c].unless \subseteq Keys
  /\ \A t \in Turbo : TurboMs[t].on \in Nat /\ TurboMs[t].off \in Nat

VARIABLES
  phys,      \* keys physically down: the panel, not the program
  down,      \* the engine's key bitsets
  active,    \* chords whose guard holds
  consumed,  \* keys the active chords have taken
  held,      \* holders as of the last scan
  mac,       \* per macro: [step (0: none), gapping, start, since, due, enabled]
  macrosOn,  \* the slot's master switch
  tur,       \* per turbo row: [running, on, since, due]
  dirty,     \* holders the scheduler moved and no scan has applied yet
  buttons,   \* pad state: the pressed two-state controls
  axis,      \* pad state: the deflection of each axis
  now,       \* the clock the engine thread passes in
  pc         \* "idle", or "ticking" inside the loop of Engine::tick

pad   == <<buttons, axis>>
vars  == <<phys, down, active, consumed, held, mac, macrosOn, tur, dirty,
           buttons, axis, now, pc>>

MacroOff(e) == [step |-> 0, gapping |-> FALSE, start |-> 0, since |-> 0,
                due |-> Off, enabled |-> e]
TurboOff == [running |-> FALSE, on |-> FALSE, since |-> 0, due |-> Off]

Init ==
  /\ phys = {} /\ down = {}
  /\ active = {} /\ consumed = {} /\ held = {}
  /\ mac = [m \in Macros |-> MacroOff(MacroDef[m].enabled)]
  /\ macrosOn = TRUE
  /\ tur = [t \in Turbo |-> TurboOff]
  /\ dirty = {}
  /\ buttons = {} /\ axis = [a \in Axes |-> 0]
  /\ now = 0 /\ pc = "idle"

-----------------------------------------------------------------------------
(* The scan: which holders hold now, and what that does to the pad.        *)

\* holder_now, as the set of holders it answers TRUE for.  d is the bitset of
\* the device whose event is being handled.
Holding(d, act, cons, macs, turs) ==
  {KeyH(k) : k \in d \ cons} \cup {ChordH(c) : c \in act}
    \cup {StepH(m, macs[m].step) : m \in {x \in Macros : macs[x].step # 0}}
    \cup {TurboH(t) : t \in {x \in Turbo : turs[x].running /\ turs[x].on}}

Driven(hs) == UNION {Drives[h] : h \in hs}

Magnitude(v) == IF v < 0 THEN -v ELSE v

\* opposite_snap: where an axis goes when the deflection v is released and the
\* holders hs remain: the largest opposite deflection still held, else centre.
Snap(a, v, hs) ==
  LET opposite == {w \in Values : AxisB(a, w) \in Driven(hs) /\ ((v < 0) # (w < 0))}
  IN IF opposite = {} THEN {0}
     ELSE {w \in opposite : \A x \in opposite : Magnitude(w) >= Magnitude(x)}

\* The values axis a may end on once the bindings in "released", which no
\* holder in hs drives, are released and those in "pressed" are pressed.
AxisAfter(a, released, pressed, hs) ==
  LET ups   == {v \in Values : AxisB(a, v) \in released}
      downs == {v \in Values : AxisB(a, v) \in pressed}
  IN IF downs # {} THEN downs
     ELSE IF ups # {} THEN UNION {Snap(a, v, hs) : v \in ups}
     ELSE {axis[a]}

\* Mutant: a release that does not ask whether another holder remains.
ApplyScan_NoSharing(scan, holding) ==
  /\ held' = (held \ scan) \cup (scan \cap holding)
  /\ LET pressed  == Driven(held' \ held)
         released == Driven(held \ held')
     IN /\ buttons' = {b \in Buttons : \/ ButtonB(b) \in pressed
                                       \/ b \in buttons /\ ButtonB(b) \notin released}
        /\ axis' \in {f \in [Axes -> Values \cup {0}] :
                        \A a \in Axes : f[a] \in AxisAfter(a, released, pressed, held')}

\* apply_scan: releases first, then presses.
ApplyScan(scan, holding) ==
  /\ held' = (held \ scan) \cup (scan \cap holding)
  /\ LET pressed  == Driven(held' \ held)
         released == Driven(held \ held') \ Driven(held')
     IN /\ buttons' = {b \in Buttons : \/ ButtonB(b) \in pressed
                                       \/ b \in buttons /\ ButtonB(b) \notin released}
        /\ axis' \in {f \in [Axes -> Values \cup {0}] :
                        \A a \in Axes : f[a] \in AxisAfter(a, released, pressed, held')}

-----------------------------------------------------------------------------
(* Chords.                                                                  *)

\* Mutant: overlapping chords all fire.
ActiveChords_NoBlocking(d) ==
  {c \in Chords : Guard(c) \subseteq d /\ ChordDef[c].unless \cap d = {}}

\* recompute_chords: most specific first, and a chord is blocked by a more
\* specific active chord that took one of its keys.
ActiveChords(d) ==
  LET Satisfied(c) == Guard(c) \subseteq d /\ ChordDef[c].unless \cap d = {}
      top == 2 * Cardinality(Keys) + 1
      atLeast[n \in 0..top] ==
        IF n = top THEN {}
        ELSE LET above == atLeast[n + 1]
                 taken == UNION {Guard(c) : c \in above}
             IN above \cup {c \in Chords : /\ Specific(c) = n
                                           /\ Satisfied(c)
                                           /\ Guard(c) \cap taken = {}}
  IN {c \in Chords : c \in atLeast[0]}

-----------------------------------------------------------------------------
(* Macros.  Each operator maps a macro's record to the record after a call. *)

\* Mutants: a step measured from the last wake, from the start of the session
\* rather than of its run, and a step with no minimum.
Deadline_Relative(m, i, start) ==
  now + MacroDef[m].ends[i] - IF i = 1 THEN 0 ELSE MacroDef[m].ends[i - 1]
Deadline_FromZero(m, i, start) == MacroDef[m].ends[i]
Deadline_NoMinimum(m, i, start) == start + MacroDef[m].ends[i]

Deadline(m, i, start) ==
  LET scheduled == start + MacroDef[m].ends[i]
      visible   == now + MacroDef[m].min[i]
  IN IF scheduled >= visible THEN scheduled ELSE visible

\* Mutant: a run whose origin is not the instant it began.
MacroBegin_EarlyOrigin(m, r) ==
  [r EXCEPT !.step = 1, !.gapping = FALSE, !.start = now - 1, !.since = now,
            !.due = Deadline(m, 1, now)]

MacroBegin(m, r) ==
  [r EXCEPT !.step = 1, !.gapping = FALSE, !.start = now, !.since = now,
            !.due = Deadline(m, 1, now)]

MacroCancel(r) == [r EXCEPT !.step = 0, !.gapping = FALSE, !.due = Off]

MacroStart(m, r) ==
  IF \/ NSteps(m) = 0
     \/ ~macrosOn \/ ~r.enabled
     \/ r.step # 0 /\ ~MacroDef[m].restart
  THEN r ELSE MacroBegin(m, r)

\* Mutant: a run repeats whether or not a trigger is still down.
MacroAdvance_Endless(m, r, again) ==
  IF r.step # 0 /\ r.step < NSteps(m)
    THEN [r EXCEPT !.step = r.step + 1, !.since = now, !.due = Deadline(m, r.step + 1, r.start)]
    ELSE MacroBegin(m, r)

\* macro_advance: its deadline was reached; "again" is whether a trigger is down.
MacroAdvance(m, r, again) ==
  LET ended == MacroCancel(r)
      next  == r.step + 1
  IN CASE r.step = 0 /\ r.gapping ->
            IF again THEN MacroBegin(m, r) ELSE [r EXCEPT !.gapping = FALSE, !.due = Off]
       [] r.step = 0 /\ ~r.gapping -> [r EXCEPT !.due = Off]
       [] r.step # 0 /\ next <= NSteps(m) ->
            [r EXCEPT !.step = next, !.since = now, !.due = Deadline(m, next, r.start)]
       [] r.step # 0 /\ next > NSteps(m) ->
            IF MacroDef[m].repeat = "once" \/ ~again THEN ended
            ELSE IF MacroDef[m].repeat = "turbo"
              THEN [ended EXCEPT !.gapping = TRUE, !.since = now,
                                 !.due = now + MacroDef[m].gap]
            ELSE MacroBegin(m, ended)

\* macro_key: the trigger half of an edge on the keyboard.
MacroKey(m, r, k, isDown) ==
  IF k \notin MacroDef[m].triggers THEN r
  ELSE IF isDown THEN MacroStart(m, r)
  ELSE IF MacroDef[m].abort THEN MacroCancel(r)
  ELSE r

\* socd::opposes, for two bindings of one slot.
Opposes(p, q) ==
  \/ \E a \in Axes, v, w \in Values :
       p = AxisB(a, v) /\ q = AxisB(a, w) /\ ((v < 0) # (w < 0))
  \/ p[1] = "button" /\ q[1] = "button" /\ {p[2], q[2]} \in Opposed

\* macro_interrupt: another key of the slot went down.
MacroInterrupt(m, r, k) ==
  LET contradicts == \E p \in Drives[KeyH(k)], q \in Drives[StepH(m, r.step)] : Opposes(p, q)
      another     == \E o \in Macros \ {m} : k \in MacroDef[o].triggers
      aborts == CASE MacroDef[m].interrupt = "none"     -> FALSE
                  [] MacroDef[m].interrupt = "any"      -> TRUE
                  [] MacroDef[m].interrupt = "opposing" -> contradicts \/ another
  IN IF r.step # 0 /\ k \notin MacroDef[m].triggers /\ aborts
       THEN MacroCancel(r) ELSE r

\* Mutant: the step that is entered is not marked.
Marks_LeftOnly(ms, ms2) ==
  UNION {{StepH(m, i) : i \in {ms[m].step} \ {0}} : m \in {x \in Macros : ms[x] # ms2[x]}}

\* mark: the step holders a change from ms to ms2 leaves to be rescanned.
Marks(ms, ms2) ==
  UNION {{StepH(m, i) : i \in {ms[m].step, ms2[m].step} \ {0}} :
           m \in {x \in Macros : ms[x] # ms2[x]}}

-----------------------------------------------------------------------------
(* Turbo rows.                                                              *)

\* Mutant: the last source's release leaves the timer armed.
TurboSync_TimerLeft(t, r, holding) ==
  LET driven == Sources(t) \cap holding # {}
  IN IF driven = r.running THEN r
     ELSE [running |-> driven, on |-> driven, since |-> now,
           due |-> IF driven THEN now + TurboMs[t].on ELSE r.due]

\* sync_turbo: the clock starts and stops with the first and last source.
TurboSync(t, r, holding) ==
  LET driven == Sources(t) \cap holding # {}
  IN IF driven = r.running THEN r
     ELSE [running |-> driven, on |-> driven, since |-> now,
           due |-> IF driven THEN now + TurboMs[t].on ELSE Off]

TurboAdvance(t, r) ==
  IF ~r.running THEN [r EXCEPT !.due = Off]
  ELSE [running |-> TRUE, on |-> ~r.on, since |-> now,
        due |-> now + IF r.on THEN TurboMs[t].off ELSE TurboMs[t].on]

TurboMarks(ts, ts2) == {TurboH(t) : t \in {x \in Turbo : ts[x] # ts2[x]}}

-----------------------------------------------------------------------------
(* The calls the engine thread makes.                                       *)

\* SlotRuntime::sync after the macros moved to macs and the turbos to turs; d is
\* the keyboard's bitset, scan what the event asks to be scanned.
Sync(d, macs, turs, scan) ==
  LET act  == ActiveChords(d)
      cons == UNION {Guard(c) : c \in act}
      turs2 == [t \in Turbo |-> TurboSync(t, turs[t], Holding(d, act, cons, macs, turs))]
  IN /\ active' = act /\ consumed' = cons
     /\ mac' = macs /\ tur' = turs2
     /\ ApplyScan(scan \cup Marks(mac, macs) \cup TurboMarks(tur, turs2),
                  Holding(d, act, cons, macs, turs2))

\* Mutant: the keys a chord takes or gives back are not rescanned.
HandleKeyboard_NoHandover(k, isDown) ==
  Sync(down' \ MouseKeys, mac, tur, {KeyH(k)} \cup {ChordH(c) : c \in Chords})

\* handle_at for a key of the keyboard: interrupts, then triggers, both on
\* edges only, then one scan.
HandleKeyboard(k, isDown) ==
  LET d == down' \ MouseKeys
      edge == (k \in down) # isDown
      Interrupted(m) == IF isDown THEN MacroInterrupt(m, mac[m], k) ELSE mac[m]
      macs == IF edge THEN [m \in Macros |-> MacroKey(m, Interrupted(m), k, isDown)]
                      ELSE mac
  IN Sync(d, macs, tur, {KeyH(x) : x \in ChordKeys \cup {k}}
                          \cup {ChordH(c) : c \in Chords})

\* sync_key, for a key of the other device: chords and macros do not see it.
HandleMouse(k) ==
  /\ ApplyScan({KeyH(k)}, Holding(down' \cap MouseKeys, active, consumed, mac, tur))
  /\ UNCHANGED <<active, consumed, mac, tur>>

Handle(k, isDown) ==
  /\ down' = IF isDown THEN down \cup {k} ELSE down \ {k}
  /\ \/ /\ k \notin Touches
        /\ UNCHANGED <<active, consumed, held, mac, tur, buttons, axis>>
     \/ k \in Touches \cap MouseKeys /\ HandleMouse(k)
     \/ k \in Touches \ MouseKeys /\ HandleKeyboard(k, isDown)

Panel == pc = "idle" /\ now <= LastInput
Calm  == UNCHANGED <<macrosOn, dirty, now, pc>>

\* A key moves.  heard = FALSE: the channel was full and the event dropped.
KeyEvent(k, isDown, heard) ==
  /\ Panel
  /\ (k \in phys) # isDown
  /\ heard \/ Lossy
  /\ phys' = IF isDown THEN phys \cup {k} ELSE phys \ {k}
  /\ IF heard THEN Handle(k, isDown)
     ELSE UNCHANGED <<down, active, consumed, held, mac, tur, buttons, axis>>
  /\ Calm

\* The keyboard repeats a key that is physically down.
AutoRepeat(k) ==
  /\ Panel
  /\ k \in phys \ MouseKeys
  /\ Handle(k, TRUE)
  /\ UNCHANGED phys /\ Calm

MacrosCancelled == [m \in Macros |-> IF mac[m].step # 0 \/ mac[m].gapping
                                       THEN MacroCancel(mac[m]) ELSE mac[m]]
TurbosCancelled == [t \in Turbo |-> IF tur[t].running \/ tur[t].on
                                       THEN TurboOff ELSE tur[t]]

\* release_device, for the keyboard: nothing it held survives.
ReleaseKeyboard ==
  /\ Panel
  /\ phys' = phys \cap MouseKeys /\ down' = down \cap MouseKeys
  /\ Sync({}, MacrosCancelled, TurbosCancelled, AllHolders)
  /\ Calm

\* release_device, for the mouse: one sync_key per key it had down, in any order.
ReleaseMouse ==
  /\ Panel
  /\ phys' = phys \ MouseKeys /\ down' = down \ MouseKeys
  /\ ApplyScan({KeyH(k) : k \in down \cap MouseKeys \cap Touches},
               Holding({}, active, consumed, mac, tur))
  /\ UNCHANGED <<active, consumed, mac, tur>> /\ Calm

\* apply_macro_moves, after macros and turbos moved to macs and turs: only the
\* marked holders are scanned.
ApplyMoves(macs, turs, marks) ==
  /\ mac' = macs /\ tur' = turs /\ dirty' = {}
  /\ ApplyScan(marks, Holding(down \ MouseKeys, active, consumed, macs, turs))
  /\ UNCHANGED <<phys, down, active, consumed, now>>

\* cancel_macros: the player leaves, by the escape gesture or a session stop.
CancelMacros ==
  /\ Panel
  /\ LET macs == MacrosCancelled
         turs == TurbosCancelled
     IN ApplyMoves(macs, turs, Marks(mac, macs) \cup TurboMarks(tur, turs))
  /\ UNCHANGED <<macrosOn, pc>>

\* set_macro_enabled and set_slot_macros: switching off is an exit.
SetMacroEnabled(m, e) ==
  /\ Panel
  /\ LET r == [mac[m] EXCEPT !.enabled = e]
         macs == [mac EXCEPT ![m] = IF e THEN r ELSE MacroCancel(r)]
     IN ApplyMoves(macs, tur, Marks(mac, macs))
  /\ UNCHANGED <<macrosOn, pc>>

SetSlotMacros(on) ==
  /\ Panel
  /\ macrosOn' = on
  /\ LET macs == IF on THEN mac ELSE MacrosCancelled
     IN ApplyMoves(macs, tur, Marks(mac, macs))
  /\ UNCHANGED pc

\* swap_tables: the preset is rebuilt, and every control is released.  The keys
\* that were physically down stay down, unknown to the new tables.
SwapTables ==
  /\ Panel
  /\ down' = {} /\ active' = {} /\ consumed' = {} /\ held' = {} /\ dirty' = {}
  /\ mac' = [m \in Macros |-> MacroOff(MacroDef[m].enabled)]
  /\ macrosOn' = TRUE
  /\ tur' = [t \in Turbo |-> TurboOff]
  /\ buttons' = {} /\ axis' = [a \in Axes |-> 0]
  /\ UNCHANGED <<phys, now, pc>>

\* reset: everything back to neutral, the switches as they are.
Reset ==
  /\ Panel
  /\ down' = {} /\ active' = {} /\ consumed' = {} /\ held' = {} /\ dirty' = {}
  /\ mac' = [m \in Macros |-> MacroOff(mac[m].enabled)]
  /\ tur' = [t \in Turbo |-> TurboOff]
  /\ buttons' = {} /\ axis' = [a \in Axes |-> 0]
  /\ UNCHANGED <<phys, macrosOn, now, pc>>

\* tick, the loop over due timers: every popped timer may mark holders, and one
\* scan at the end publishes them all.
Deadlines == ({mac[m].due : m \in Macros} \cup {tur[t].due : t \in Turbo}) \ {Off}
DueNow(d) == d # Off /\ d <= now /\ \A e \in Deadlines : d <= e

TickBegin ==
  /\ pc = "idle"
  /\ \E d \in Deadlines : d <= now
  /\ pc' = "ticking"
  /\ UNCHANGED <<phys, down, active, consumed, held, mac, macrosOn, tur, dirty,
                 buttons, axis, now>>

PopMacro(m) ==
  /\ pc = "ticking"
  /\ DueNow(mac[m].due)
  /\ LET again == MacroDef[m].triggers \cap (down \ MouseKeys) # {}
         macs == [mac EXCEPT ![m] = MacroAdvance(m, mac[m], again)]
     IN /\ mac' = macs
        /\ dirty' = dirty \cup Marks(mac, macs)
  /\ UNCHANGED <<phys, down, active, consumed, held, macrosOn, tur, buttons, axis, now, pc>>

PopTurbo(t) ==
  /\ pc = "ticking"
  /\ DueNow(tur[t].due)
  /\ LET turs == [tur EXCEPT ![t] = TurboAdvance(t, tur[t])]
     IN /\ tur' = turs
        /\ dirty' = dirty \cup TurboMarks(tur, turs)
  /\ UNCHANGED <<phys, down, active, consumed, held, mac, macrosOn, buttons, axis, now, pc>>

TickEnd ==
  /\ pc = "ticking"
  /\ \A d \in Deadlines : d > now
  /\ ApplyMoves(mac, tur, dirty)
  /\ pc' = "idle"
  /\ UNCHANGED macrosOn

\* The clock runs between calls; the engine thread wakes at most MaxLate late.
Elapse ==
  /\ pc = "idle"
  /\ now < MaxTime
  /\ \A d \in Deadlines : now < d + MaxLate
  /\ now' = now + 1
  /\ UNCHANGED <<phys, down, active, consumed, held, mac, macrosOn, tur, dirty,
                 buttons, axis, pc>>

KeyEvents == \E k \in Keys, isDown, heard \in BOOLEAN : KeyEvent(k, isDown, heard)

Next ==
  \/ KeyEvents
  \/ \E k \in Keys : AutoRepeat(k)
  \/ ReleaseKeyboard
  \/ ReleaseMouse
  \/ CancelMacros
  \/ \E m \in Macros, e \in BOOLEAN : SetMacroEnabled(m, e)
  \/ \E on \in BOOLEAN : SetSlotMacros(on)
  \/ SwapTables
  \/ Reset
  \/ TickBegin
  \/ \E m \in Macros : PopMacro(m)
  \/ \E t \in Turbo : PopTurbo(t)
  \/ TickEnd
  \/ Elapse

Spec == Init /\ [][Next]_vars

Pop == (\E m \in Macros : PopMacro(m)) \/ (\E t \in Turbo : PopTurbo(t))

\* The engine thread is never blocked and its clock never stops.
FairSpec == Spec /\ WF_vars(TickBegin) /\ WF_vars(Pop) /\ WF_vars(TickEnd) /\ WF_vars(Elapse)

-----------------------------------------------------------------------------
(* Correctness.                                                             *)

MacRec == [step : Nat, gapping : BOOLEAN, start : Nat, since : Nat,
           due : Nat \cup {Off}, enabled : BOOLEAN]
TurRec == [running : BOOLEAN, on : BOOLEAN, since : Nat, due : Nat \cup {Off}]

\* The shape of the state; a macro's step never points past its last step.
TypeOK ==
  /\ phys \subseteq Keys /\ down \subseteq Keys
  /\ active \subseteq Chords /\ consumed \subseteq Keys
  /\ held \subseteq Holders /\ dirty \subseteq Holders
  /\ mac \in [Macros -> MacRec] /\ \A m \in Macros : mac[m].step <= NSteps(m)
  /\ macrosOn \in BOOLEAN
  /\ tur \in [Turbo -> TurRec]
  /\ buttons \subseteq Buttons /\ axis \in [Axes -> Values \cup {0}]
  /\ now \in Nat /\ pc \in {"idle", "ticking"}

\* The all-keys-up rule and the opposite-axis snap (release, opposite_snap): a
\* control is pressed exactly while some holder of it is held; an axis away from
\* centre rests on a deflection some held holder asks for, and an axis at centre
\* has not two held that pull it opposite ways, for the one must have been
\* released into the other.
PadTruth ==
  /\ \A b \in Buttons : b \in buttons <=> ButtonB(b) \in Driven(held)
  /\ \A a \in Axes : axis[a] # 0 => AxisB(a, axis[a]) \in Driven(held)
  /\ \A a \in Axes, v, w \in Values :
       axis[a] = 0 /\ v < 0 /\ w > 0 => ~({AxisB(a, v), AxisB(a, w)} \subseteq Driven(held))

\* Between calls no holder is stale: one that presses something is held only
\* if its key is down and unconsumed, its chord active, its step current or its
\* turbo in the pressed half (the scan lists of sync, sync_key and tick miss
\* nothing that moved).
HeldIsLive ==
  pc = "idle" => {h \in held : Drives[h] # {}} \subseteq Holding(down, active, consumed, mac, tur)

\* Nor is one forgotten: with a keyboard alone, whatever should press does.
LiveIsHeld ==
  pc = "idle" => \A h \in Holding(down, active, consumed, mac, tur) : Drives[h] # {} => h \in held

\* recompute_chords: a satisfied chord is active unless a strictly more
\* specific active chord shares a key with it, and then it is not.
ChordPriority ==
  \A c \in Chords :
    c \in active <=>
      /\ Guard(c) \subseteq down \ MouseKeys
      /\ ChordDef[c].unless \cap (down \ MouseKeys) = {}
      /\ \A e \in active : Specific(e) > Specific(c) => Guard(e) \cap Guard(c) = {}

\* The timer list and the runs agree: a deadline is armed exactly for a macro on
\* a step or in a turbo gap and for a running turbo, so nothing held by the
\* scheduler can be left without the wake that releases it.
TimersMatchRuns ==
  /\ \A m \in Macros : mac[m].due # Off <=> mac[m].step # 0 \/ mac[m].gapping
  /\ \A t \in Turbo : /\ tur[t].due # Off <=> tur[t].running
                      /\ tur[t].on => tur[t].running

\* A macro switched off, by itself or by the slot's master switch, is neither on
\* a step nor waiting out a gap (macro_start, set_macro_enabled, set_slot_macros).
SwitchedOffIsSilent ==
  \A m \in Macros : ~(macrosOn /\ mac[m].enabled) => mac[m].step = 0 /\ ~mac[m].gapping

\* Deadlines are absolute (macro_deadline), so lateness does not add up: step i
\* begins at most MaxLate after its place in the run's timeline, whenever each
\* step is longer than its sampling minimum by MaxLate.
NoDrift ==
  \A m \in Macros : mac[m].step > 1 =>
    mac[m].since <= mac[m].start + MacroDef[m].ends[mac[m].step - 1] + MaxLate

\* The sampling rule: however late the wake, the scheduler leaves a macro step
\* only after the step's minimum and a turbo half only after that half.
StepsAreSeen ==
  [][pc = "ticking" =>
       /\ \A m \in Macros :
            mac[m].step # 0 /\ mac'[m] # mac[m]
              => now >= mac[m].since + MacroDef[m].min[mac[m].step]
       /\ \A t \in Turbo :
            tur[t].running /\ tur'[t] # tur[t]
              => now >= tur[t].since + IF tur[t].on THEN TurboMs[t].on ELSE TurboMs[t].off]_vars

\* tick never blocks the engine thread: every call returns.
TickReturns == pc = "ticking" ~> pc = "idle"

\* A run ends, or its trigger is held and asks for another.
RunsEnd ==
  \A m \in Macros : mac[m].step # 0 \/ mac[m].gapping
     ~> \/ mac[m].step = 0 /\ ~mac[m].gapping
        \/ MacroDef[m].triggers \cap down # {}

\* A turbo begins on a new key press or release, never on the autorepeat of a
\* key that was already down: cancel_macros says an escaped auto-fire is over.
TurboStartsOnPress ==
  [][UNCHANGED <<phys, down>> => \A t \in Turbo : tur'[t].running => tur[t].running]_vars

\* macro_start says keyboard autorepeat cannot re-arm a finished run: outside
\* the scheduler a run begins only when the panel moves.
RunsStartOnPress ==
  [][pc = "idle" /\ phys' = phys =>
       \A m \in Macros : mac[m].step = 0 => mac'[m].step = 0]_vars

=============================================================================
