-------------------------- MODULE EngineScanProofs --------------------------
(***************************************************************************)
(* More theorems about Engine: what its scans leave held, and which chords *)
(* they leave active.                                                      *)
(***************************************************************************)
EXTENDS EngineProofs, FiniteSetTheorems, WellFoundedInduction

-----------------------------------------------------------------------------
(* The scan lists miss nothing.                                             *)

HoldingNow == Holding(down, active, consumed, mac, tur)

\* No holder that presses something is stale, except one the scheduler has
\* marked for the scan that ends the tick.
NoneStale ==
  \A h \in held \ dirty : Drives[h] # {} => h \in HoldingNow

\* Nor is one forgotten.
NoneForgotten ==
  \A h \in HoldingNow \ dirty : Drives[h] # {} => h \in held

Quiet ==
  /\ consumed \subseteq ChordKeys
  /\ pc = "idle" => dirty = {}

\* What it is to hold, kind by kind.
LEMMA HoldingKinds ==
  ASSUME NEW d, NEW act, NEW cons, NEW macs, NEW turs
  PROVE  /\ \A k : KeyH(k) \in Holding(d, act, cons, macs, turs) <=> k \in d /\ k \notin cons
         /\ \A c : ChordH(c) \in Holding(d, act, cons, macs, turs) <=> c \in act
         /\ \A m, i : StepH(m, i) \in Holding(d, act, cons, macs, turs)
              <=> m \in Macros /\ macs[m].step # 0 /\ i = macs[m].step
         /\ \A t : TurboH(t) \in Holding(d, act, cons, macs, turs)
              <=> t \in Turbo /\ turs[t].running /\ turs[t].on
BY DEF Holding, KeyH, ChordH, StepH, TurboH

LEMMA HolderKinds ==
  ASSUME NEW h \in Holders
  PROVE  \/ \E k \in Keys : h = KeyH(k)
         \/ \E c \in Chords : h = ChordH(c)
         \/ \E m \in Macros : \E i \in 1..NSteps(m) : h = StepH(m, i)
         \/ \E t \in Turbo : h = TurboH(t)
BY DEF Holders, KeyHolders

\* A holder that no mark names answers as it did before the change.
LEMMA UnmarkedSame ==
  ASSUME NEW ms, NEW ms2, NEW ts, NEW ts2, NEW d, NEW act, NEW cons,
         NEW h, h \notin Marks(ms, ms2), h \notin TurboMarks(ts, ts2)
  PROVE  h \in Holding(d, act, cons, ms, ts) <=> h \in Holding(d, act, cons, ms2, ts2)
<1>1. ASSUME NEW m \in Macros, ms[m].step # 0, h = StepH(m, ms[m].step)
      PROVE  ms2[m] = ms[m]
  BY <1>1 DEF Marks
<1>2. ASSUME NEW m \in Macros, ms2[m].step # 0, h = StepH(m, ms2[m].step)
      PROVE  ms2[m] = ms[m]
  BY <1>2 DEF Marks
<1>3. ASSUME NEW t \in Turbo, h = TurboH(t)
      PROVE  ts2[t] = ts[t]
  BY <1>3 DEF TurboMarks
<1>4. h \in {StepH(m, ms[m].step) : m \in {x \in Macros : ms[x].step # 0}}
        <=> h \in {StepH(m, ms2[m].step) : m \in {x \in Macros : ms2[x].step # 0}}
  BY <1>1, <1>2
<1>5. h \in {TurboH(t) : t \in {x \in Turbo : ts[x].running /\ ts[x].on}}
        <=> h \in {TurboH(t) : t \in {x \in Turbo : ts2[x].running /\ ts2[x].on}}
  BY <1>3
<1> QED  BY <1>4, <1>5 DEF Holding

\* One scan: a scanned holder is as holder_now says, the others are as they were.
LEMMA ScanAnswers ==
  ASSUME NEW scan, NEW holding, ApplyScan(scan, holding), NEW h
  PROVE  h \in held' <=> IF h \in scan THEN h \in holding ELSE h \in held
BY DEF ApplyScan

\* apply_macro_moves leaves nothing stale, whatever moved, when every mover is
\* marked or was marked already.
LEMMA MovesKeepStale ==
  ASSUME NoneStale, NEW macs, NEW turs, NEW marks, ApplyMoves(macs, turs, marks),
         Marks(mac, macs) \cup TurboMarks(tur, turs) \cup dirty \subseteq marks
  PROVE  NoneStale'
<1>1. /\ mac' = macs /\ tur' = turs /\ dirty' = {}
      /\ UNCHANGED <<down, active, consumed>>
      /\ ApplyScan(marks, Holding(down \ MouseKeys, active, consumed, macs, turs))
  BY DEF ApplyMoves
<1> SUFFICES ASSUME NEW h \in held', Drives[h] # {}
             PROVE  h \in Holding(down, active, consumed, macs, turs)
  BY <1>1 DEF NoneStale, HoldingNow
<1>2. CASE h \in marks
  <2>1. h \in Holding(down \ MouseKeys, active, consumed, macs, turs)
    BY <1>1, <1>2, ScanAnswers
  <2> QED  BY <2>1 DEF Holding
<1>3. CASE h \notin marks
  <2>1. h \in held \ dirty
    BY <1>1, <1>3, ScanAnswers
  <2>2. h \in Holding(down, active, consumed, mac, tur)
    BY <2>1 DEF NoneStale, HoldingNow
  <2> QED  BY <2>2, <1>3, UnmarkedSame
<1> QED  BY <1>2, <1>3

LEMMA MovesForgetNone ==
  ASSUME NoneForgotten, MouseKeys = {}, NEW macs, NEW turs, NEW marks,
         ApplyMoves(macs, turs, marks),
         Marks(mac, macs) \cup TurboMarks(tur, turs) \cup dirty \subseteq marks
  PROVE  NoneForgotten'
<1>1. /\ mac' = macs /\ tur' = turs /\ dirty' = {}
      /\ UNCHANGED <<down, active, consumed>>
      /\ ApplyScan(marks, Holding(down \ MouseKeys, active, consumed, macs, turs))
  BY DEF ApplyMoves
<1> SUFFICES ASSUME NEW h \in Holding(down, active, consumed, macs, turs), Drives[h] # {}
             PROVE  h \in held'
  BY <1>1 DEF NoneForgotten, HoldingNow
<1>2. CASE h \in marks
  <2>1. down \ MouseKeys = down
    OBVIOUS
  <2> QED  BY <1>1, <1>2, <2>1, ScanAnswers
<1>3. CASE h \notin marks
  <2>1. h \in Holding(down, active, consumed, mac, tur)
    BY <1>3, UnmarkedSame
  <2>2. h \in held
    BY <2>1, <1>3 DEF NoneForgotten, HoldingNow
  <2> QED  BY <1>1, <1>3, <2>2, ScanAnswers
<1> QED  BY <1>2, <1>3

\* A scan list that names every chord, every key a chord can take, and every
\* key that moved.
Covers(scan) ==
  /\ \A c \in Chords : Drives[ChordH(c)] # {} => ChordH(c) \in scan
  /\ \A x \in Keys : Drives[KeyH(x)] # {} /\ (x \in ChordKeys \/ (x \in down) # (x \in down'))
                       => KeyH(x) \in scan

LEMMA TakenAreChordKeys ==
  ASSUME NEW d
  PROVE  UNION {Guard(c) : c \in ActiveChords(d)} \subseteq ChordKeys
<1>1. ActiveChords(d) \subseteq Chords
  BY DEF ActiveChords
<1> QED  BY <1>1 DEF ChordKeys

LEMMA SyncKeepsStale ==
  ASSUME NoneStale, held \subseteq Holders, dirty = {}, dirty' = {},
         NEW d, d \subseteq down', NEW macs, NEW turs, NEW scan,
         Sync(d, macs, turs, scan), Covers(scan)
  PROVE  NoneStale'
<1> DEFINE cons == UNION {Guard(c) : c \in active'}
           all  == scan \cup Marks(mac, mac') \cup TurboMarks(tur, tur')
<1>1. /\ active' = ActiveChords(d) /\ consumed' = cons
      /\ ApplyScan(all, Holding(d, active', cons, mac', tur'))
  BY DEF Sync
<1>2. cons \subseteq ChordKeys
  BY <1>1, TakenAreChordKeys
<1> HIDE DEF cons
<1> SUFFICES ASSUME NEW h \in held', Drives[h] # {}
             PROVE  h \in Holding(down', active', cons, mac', tur')
  BY <1>1 DEF NoneStale, HoldingNow
<1>3. CASE h \in all
  <2>1. h \in Holding(d, active', cons, mac', tur')
    BY <1>1, <1>3, ScanAnswers
  <2> QED  BY <2>1 DEF Holding
<1>4. CASE h \notin all
  <2>1. h \in held
    BY <1>1, <1>4, ScanAnswers
  <2>2. h \in Holding(down, active, consumed, mac, tur)
    BY <2>1 DEF NoneStale, HoldingNow
  <2>3. h \in Holding(down, active, consumed, mac', tur')
    BY <2>2, <1>4, UnmarkedSame
  <2>4. CASE \E k \in Keys : h = KeyH(k)
    <3>1. PICK k \in Keys : h = KeyH(k)
      BY <2>4
    <3>2. k \in down' /\ k \notin cons
      BY <3>1, <2>3, <1>2, <1>4, HoldingKinds DEF Covers
    <3> QED  BY <3>1, <3>2, HoldingKinds
  <2>5. CASE \E c \in Chords : h = ChordH(c)
    BY <2>5, <1>4 DEF Covers
  <2>6. CASE \E m \in Macros : \E i \in 1..NSteps(m) : h = StepH(m, i)
    BY <2>6, <2>3, HoldingKinds
  <2>7. CASE \E t \in Turbo : h = TurboH(t)
    BY <2>7, <2>3, HoldingKinds
  <2> QED  BY <2>1, <2>4, <2>5, <2>6, <2>7, HolderKinds
<1> QED  BY <1>3, <1>4

LEMMA SyncForgetsNone ==
  ASSUME NoneForgotten, consumed \subseteq ChordKeys, dirty = {}, dirty' = {},
         NEW macs, NEW turs, NEW scan, down' \subseteq Keys,
         Sync(down', macs, turs, scan), Covers(scan)
  PROVE  NoneForgotten'
<1> DEFINE cons == UNION {Guard(c) : c \in active'}
           all  == scan \cup Marks(mac, mac') \cup TurboMarks(tur, tur')
<1>1. /\ active' = ActiveChords(down') /\ consumed' = cons
      /\ ApplyScan(all, Holding(down', active', cons, mac', tur'))
  BY DEF Sync
<1>2. active' \subseteq Chords
  BY <1>1 DEF ActiveChords
<1> HIDE DEF cons
<1> SUFFICES ASSUME NEW h \in Holding(down', active', cons, mac', tur'), Drives[h] # {}
             PROVE  h \in held'
  BY <1>1 DEF NoneForgotten, HoldingNow
<1>3. CASE h \in all
  BY <1>1, <1>3, ScanAnswers
<1>4. CASE h \notin all
  <2> SUFFICES h \in Holding(down, active, consumed, mac', tur')
    <3>1. h \in Holding(down, active, consumed, mac, tur)
      BY <1>4, UnmarkedSame
    <3>2. h \in held
      BY <3>1 DEF NoneForgotten, HoldingNow
    <3> QED  BY <1>1, <1>4, <3>2, ScanAnswers
  <2>1. CASE h \in {KeyH(k) : k \in down' \ cons}
    <3>1. PICK k \in down' \ cons : h = KeyH(k)
      BY <2>1
    <3>2. k \in Keys /\ k \in down /\ k \notin ChordKeys
      BY <3>1, <1>4 DEF Covers
    <3> QED  BY <3>1, <3>2, HoldingKinds
  <2>2. CASE h \in {ChordH(c) : c \in active'}
    BY <2>2, <1>2, <1>4 DEF Covers
  <2>3. CASE h \notin {KeyH(k) : k \in down' \ cons} \cup {ChordH(c) : c \in active'}
    BY <2>3 DEF Holding
  <2> QED  BY <2>1, <2>2, <2>3
<1> QED  BY <1>3, <1>4

\* A key that presses something, or takes part in a chord, touches the slot.
LEMMA DriversTouch ==
  ASSUME NEW k \in Keys, Drives[KeyH(k)] # {} \/ k \in ChordKeys
  PROVE  k \in Touches
<1>1. KeyH(k) \in Holders /\ KeyH(k)[1] = "key" /\ KeyH(k)[2] = k
  BY DEF Holders, KeyHolders, KeyH
<1>2. Drives[KeyH(k)] = BindingsOf(k) \ (Turbo \cup {Consume})
  BY <1>1 DEF Drives
<1> QED  BY <1>2 DEF Touches

LEMMA HandleSteady ==
  ASSUME NEW k \in Keys, NEW isDown, Handle(k, isDown), down \subseteq Keys
  PROVE  /\ down' \subseteq Keys
         /\ \A x \in Keys \ {k} : (x \in down) <=> (x \in down')
         /\ \/ /\ Drives[KeyH(k)] = {} /\ k \notin ChordKeys
               /\ UNCHANGED <<active, consumed, held, mac, tur>>
            \/ k \in MouseKeys /\ HandleMouse(k)
            \/ \E macs, scan : /\ Sync(down' \ MouseKeys, macs, tur, scan)
                               /\ Covers(scan)
<1>1. down' \subseteq Keys /\ \A x \in Keys \ {k} : (x \in down) <=> (x \in down')
  BY DEF Handle
<1>2. CASE k \notin Touches
  BY <1>1, <1>2, DriversTouch DEF Handle
<1>3. CASE k \in Touches \cap MouseKeys
  BY <1>1, <1>3 DEF Handle
<1>4. CASE k \in Touches \ MouseKeys
  <2> DEFINE scan == {KeyH(x) : x \in ChordKeys \cup {k}} \cup {ChordH(c) : c \in Chords}
  <2>1. PICK macs : Sync(down' \ MouseKeys, macs, tur, scan)
    BY <1>4 DEF Handle, HandleKeyboard
  <2>2. Covers(scan)
    BY <1>1 DEF Covers
  <2> HIDE DEF scan
  <2> QED  BY <1>1, <2>1, <2>2
<1> QED  BY <1>2, <1>3, <1>4

LEMMA HandleKeepsStale ==
  ASSUME NoneStale, SetsOK, dirty = {}, dirty' = {},
         NEW k \in Keys, NEW isDown, Handle(k, isDown)
  PROVE  NoneStale'
<1>0. held \subseteq Holders /\ down \subseteq Keys
  BY DEF SetsOK
<1>1. CASE Drives[KeyH(k)] = {} /\ UNCHANGED <<active, consumed, held, mac, tur>>
  <2> SUFFICES ASSUME NEW h \in held, Drives[h] # {}
               PROVE  h \in Holding(down', active, consumed, mac, tur)
    BY <1>1 DEF NoneStale, HoldingNow
  <2>1. h \in Holding(down, active, consumed, mac, tur) /\ h # KeyH(k)
    BY <1>1 DEF NoneStale, HoldingNow
  <2>2. \A x \in Keys \ {k} : x \in down <=> x \in down'
    BY <1>0, HandleSteady
  <2> QED  BY <1>0, <2>1, <2>2 DEF Holding
<1>2. CASE HandleMouse(k)
  <2>1. /\ ApplyScan({KeyH(k)}, Holding(down' \cap MouseKeys, active, consumed, mac, tur))
        /\ UNCHANGED <<active, consumed, mac, tur>>
    BY <1>2 DEF HandleMouse
  <2> SUFFICES ASSUME NEW h \in held', Drives[h] # {}
               PROVE  h \in Holding(down', active, consumed, mac, tur)
    BY <2>1 DEF NoneStale, HoldingNow
  <2>2. CASE h = KeyH(k)
    <3>1. h \in Holding(down' \cap MouseKeys, active, consumed, mac, tur)
      BY <2>1, <2>2, ScanAnswers
    <3> QED  BY <3>1 DEF Holding
  <2>3. CASE h # KeyH(k)
    <3>1. h \in held
      BY <2>1, <2>3, ScanAnswers
    <3>2. h \in Holding(down, active, consumed, mac, tur)
      BY <3>1 DEF NoneStale, HoldingNow
    <3>3. \A x \in Keys \ {k} : x \in down <=> x \in down'
      BY <1>0, HandleSteady
    <3> QED  BY <1>0, <2>3, <3>2, <3>3 DEF Holding
  <2> QED  BY <2>2, <2>3
<1>3. ASSUME NEW macs, NEW scan, Sync(down' \ MouseKeys, macs, tur, scan), Covers(scan)
      PROVE  NoneStale'
  BY <1>0, <1>3, SyncKeepsStale
<1> QED  BY <1>0, <1>1, <1>2, <1>3, HandleSteady

LEMMA HandleForgetsNone ==
  ASSUME NoneForgotten, SetsOK, consumed \subseteq ChordKeys, dirty = {}, dirty' = {},
         MouseKeys = {}, NEW k \in Keys, NEW isDown, Handle(k, isDown)
  PROVE  NoneForgotten'
<1>0. down \subseteq Keys /\ down' \subseteq Keys
  BY HandleSteady DEF SetsOK
<1>1. CASE Drives[KeyH(k)] = {} /\ UNCHANGED <<active, consumed, held, mac, tur>>
  <2> SUFFICES ASSUME NEW h \in Holding(down', active, consumed, mac, tur), Drives[h] # {}
               PROVE  h \in held
    BY <1>1 DEF NoneForgotten, HoldingNow
  <2>2. \A x \in Keys \ {k} : x \in down <=> x \in down'
    BY <1>0, HandleSteady
  <2>3. h \in Holding(down, active, consumed, mac, tur)
    BY <1>0, <1>1, <2>2 DEF Holding
  <2> QED  BY <2>3 DEF NoneForgotten, HoldingNow
<1>2. ASSUME NEW macs, NEW scan, Sync(down' \ MouseKeys, macs, tur, scan), Covers(scan)
      PROVE  NoneForgotten'
  <2>1. down' \ MouseKeys = down'
    OBVIOUS
  <2> QED  BY <1>0, <1>2, <2>1, SyncForgetsNone
<1> QED  BY <1>0, <1>1, <1>2, HandleSteady

\* Every consumed key is one a chord takes, and a mark is pending only while
\* the tick that scans it runs.
LEMMA QuietStep == Quiet /\ [Next]_vars => Quiet'
<1> SUFFICES ASSUME Quiet, [Next]_vars PROVE Quiet'
  OBVIOUS
<1>0. ASSUME NEW d, NEW macs, NEW turs, NEW scan, Sync(d, macs, turs, scan)
      PROVE  consumed' \subseteq ChordKeys
  BY <1>0, TakenAreChordKeys DEF Sync
<1>1. ASSUME NEW k \in Keys, NEW isDown, Handle(k, isDown)
      PROVE  consumed' \subseteq ChordKeys
  <2>1. CASE UNCHANGED consumed
    BY <2>1 DEF Quiet
  <2>2. CASE k \in Touches \ MouseKeys
    BY <1>0, <1>1, <2>2 DEF Handle, HandleKeyboard
  <2> QED  BY <1>1, <2>1, <2>2 DEF Handle, HandleMouse
<1>2. CASE KeyEvents
  BY <1>1, <1>2 DEF KeyEvents, KeyEvent, Calm, Quiet
<1>3. ASSUME NEW k \in Keys, AutoRepeat(k) PROVE Quiet'
  BY <1>1, <1>3 DEF AutoRepeat, Calm, Quiet
<1>4. CASE ReleaseKeyboard
  BY <1>0, <1>4 DEF ReleaseKeyboard, Calm, Quiet
<1>5. CASE ReleaseMouse
  BY <1>5 DEF ReleaseMouse, Calm, Quiet
<1>6. CASE CancelMacros \/ TickEnd
  BY <1>6 DEF CancelMacros, TickEnd, ApplyMoves, Quiet
<1>7. ASSUME NEW m \in Macros, NEW e \in BOOLEAN, SetMacroEnabled(m, e) PROVE Quiet'
  BY <1>7 DEF SetMacroEnabled, ApplyMoves, Quiet
<1>8. ASSUME NEW on \in BOOLEAN, SetSlotMacros(on) PROVE Quiet'
  BY <1>8 DEF SetSlotMacros, ApplyMoves, Quiet
<1>9. CASE SwapTables \/ Reset
  BY <1>9 DEF SwapTables, Reset, Quiet
<1>10. CASE TickBegin \/ Elapse
  BY <1>10 DEF TickBegin, Elapse, Quiet
<1>11. ASSUME NEW m \in Macros, PopMacro(m) PROVE Quiet'
  BY <1>11 DEF PopMacro, Quiet
<1>12. ASSUME NEW t \in Turbo, PopTurbo(t) PROVE Quiet'
  BY <1>12 DEF PopTurbo, Quiet
<1>13. CASE UNCHANGED vars
  BY <1>13 DEF vars, Quiet
<1> QED
  BY <1>2, <1>3, <1>4, <1>5, <1>6, <1>7, <1>8, <1>9, <1>10, <1>11, <1>12, <1>13 DEF Next

LEMMA AlwaysQuiet == Spec => []Quiet
<1>1. Init => Quiet
  BY DEF Init, Quiet
<1> QED  BY <1>1, QuietStep, PTL DEF Spec

LEMMA AlwaysInSets == Spec => []SetsOK
<1>1. Init => SetsOK
  BY DEF Init, SetsOK
<1> QED  BY <1>1, SetsStep, SchedulerInvariant, PTL DEF Spec

\* Between calls no holder is stale (HeldIsLive), for every preset: no scan list
\* of sync, sync_key, release_device, apply_macro_moves or tick misses a holder
\* that moved.  Within a tick the only stale ones are marked for its last scan.
THEOREM HeldStaysLive == Spec => []HeldIsLive
<1>1. Init => NoneStale
  BY DEF Init, NoneStale
<1>2. NoneStale /\ Quiet /\ Quiet' /\ SetsOK /\ [Next]_vars => NoneStale'
  <2> SUFFICES ASSUME NoneStale, Quiet, Quiet', SetsOK, [Next]_vars PROVE NoneStale'
    OBVIOUS
  <2>0. held \subseteq Holders
    BY DEF SetsOK
  <2>a. Panel => dirty = {}
    BY DEF Quiet, Panel
  <2>1. CASE KeyEvents
    <3>1. PICK k \in Keys, isDown \in BOOLEAN, heard \in BOOLEAN : KeyEvent(k, isDown, heard)
      BY <2>1 DEF KeyEvents
    <3>2. CASE heard
      BY <2>a, <3>1, <3>2, HandleKeepsStale DEF KeyEvent, Calm
    <3>3. CASE ~heard
      BY <3>1, <3>3 DEF KeyEvent, Calm, NoneStale, HoldingNow
    <3> QED  BY <3>2, <3>3
  <2>2. ASSUME NEW k \in Keys, AutoRepeat(k) PROVE NoneStale'
    BY <2>a, <2>2, HandleKeepsStale DEF AutoRepeat, Calm
  <2>3. CASE ReleaseKeyboard
    <3>1. Sync({}, MacrosCancelled, TurbosCancelled, AllHolders)
          /\ dirty = {} /\ dirty' = {}
      BY <2>a, <2>3 DEF ReleaseKeyboard, Calm
    <3>2. Covers(AllHolders)
      <4>1. \A c \in Chords : ChordH(c) \in Holders
        BY DEF Holders
      <4>2. \A x \in Keys : KeyH(x) \in Holders
        BY DEF Holders, KeyHolders
      <4> QED  BY <4>1, <4>2 DEF Covers, AllHolders
    <3> QED  BY <2>0, <3>1, <3>2, SyncKeepsStale
  <2>4. CASE ReleaseMouse
    <3>1. /\ ApplyScan({KeyH(k) : k \in down \cap MouseKeys \cap Touches},
                       Holding({}, active, consumed, mac, tur))
          /\ down' = down \ MouseKeys
          /\ UNCHANGED <<active, consumed, mac, tur, dirty>>
      BY <2>4 DEF ReleaseMouse, Calm
    <3> SUFFICES ASSUME NEW h \in held', Drives[h] # {}, h \notin dirty
                 PROVE  h \in Holding(down', active, consumed, mac, tur)
      BY <3>1 DEF NoneStale, HoldingNow
    <3>2. CASE h \in {KeyH(k) : k \in down \cap MouseKeys \cap Touches}
      <4>1. h \in Holding({}, active, consumed, mac, tur)
        BY <3>1, <3>2, ScanAnswers
      <4> QED  BY <4>1 DEF Holding
    <3>3. CASE h \notin {KeyH(k) : k \in down \cap MouseKeys \cap Touches}
      <4>1. h \in held
        BY <3>1, <3>3, ScanAnswers
      <4>2. h \in Holding(down, active, consumed, mac, tur)
        BY <4>1 DEF NoneStale, HoldingNow
      <4>3. ASSUME NEW k \in down, h = KeyH(k)
            PROVE  k \notin MouseKeys
        BY <4>3, <3>3, DriversTouch DEF SetsOK
      <4> QED  BY <3>1, <4>2, <4>3 DEF Holding
    <3> QED  BY <3>2, <3>3
  <2>5. CASE CancelMacros
    BY <2>a, <2>5, MovesKeepStale DEF CancelMacros
  <2>6. ASSUME NEW m \in Macros, NEW e \in BOOLEAN, SetMacroEnabled(m, e) PROVE NoneStale'
    <3>1. PICK macs : ApplyMoves(macs, tur, Marks(mac, macs))
      BY <2>6 DEF SetMacroEnabled
    <3> QED  BY <2>a, <2>6, <3>1, MovesKeepStale DEF SetMacroEnabled, TurboMarks
  <2>7. ASSUME NEW on \in BOOLEAN, SetSlotMacros(on) PROVE NoneStale'
    <3>1. PICK macs : ApplyMoves(macs, tur, Marks(mac, macs))
      BY <2>7 DEF SetSlotMacros
    <3> QED  BY <2>a, <2>7, <3>1, MovesKeepStale DEF SetSlotMacros, TurboMarks
  <2>8. CASE SwapTables \/ Reset
    BY <2>8 DEF SwapTables, Reset, NoneStale
  <2>9. CASE TickBegin \/ Elapse
    BY <2>9 DEF TickBegin, Elapse, NoneStale, HoldingNow
  <2>10. ASSUME NEW m \in Macros, PopMacro(m) PROVE NoneStale'
    <3>1. dirty' = dirty \cup Marks(mac, mac') /\ UNCHANGED <<down, active, consumed, held, tur>>
      BY <2>10 DEF PopMacro
    <3>2. TurboMarks(tur, tur) = {}
      BY DEF TurboMarks
    <3> QED  BY <3>1, <3>2, UnmarkedSame DEF NoneStale, HoldingNow
  <2>11. ASSUME NEW t \in Turbo, PopTurbo(t) PROVE NoneStale'
    <3>1. dirty' = dirty \cup TurboMarks(tur, tur') /\ UNCHANGED <<down, active, consumed, held, mac>>
      BY <2>11 DEF PopTurbo
    <3>2. Marks(mac, mac) = {}
      BY DEF Marks
    <3> QED  BY <3>1, <3>2, UnmarkedSame DEF NoneStale, HoldingNow
  <2>12. CASE TickEnd
    <3>1. ApplyMoves(mac, tur, dirty)
      BY <2>12 DEF TickEnd
    <3>2. Marks(mac, mac) = {} /\ TurboMarks(tur, tur) = {}
      BY DEF Marks, TurboMarks
    <3> QED  BY <3>1, <3>2, MovesKeepStale
  <2>13. CASE UNCHANGED vars
    BY <2>13 DEF vars, NoneStale, HoldingNow
  <2> QED
    BY <2>1, <2>2, <2>3, <2>4, <2>5, <2>6, <2>7, <2>8, <2>9, <2>10, <2>11, <2>12, <2>13 DEF Next
<1>3. NoneStale /\ Quiet => HeldIsLive
  BY DEF NoneStale, Quiet, HoldingNow, HeldIsLive
<1> QED  BY <1>1, <1>2, <1>3, AlwaysQuiet, AlwaysInSets, PTL DEF Spec

\* With a keyboard alone (a mouse's keys are scanned against the device whose
\* event is handled, and may be dropped) no holder that should press is
\* forgotten either (LiveIsHeld).
THEOREM LiveStaysHeld == ASSUME MouseKeys = {} PROVE Spec => []LiveIsHeld
<1>1. Init => NoneForgotten
  <2> SUFFICES ASSUME Init PROVE HoldingNow = {}
    BY DEF NoneForgotten
  <2>1. \A m \in Macros : mac[m].step = 0
    BY DEF Init, MacroOff
  <2>2. \A t \in Turbo : tur[t].running = FALSE
    BY DEF Init, TurboOff
  <2> QED  BY <2>1, <2>2 DEF Init, HoldingNow, Holding
<1>2. NoneForgotten /\ Quiet /\ Quiet' /\ SetsOK /\ [Next]_vars => NoneForgotten'
  <2> SUFFICES ASSUME NoneForgotten, Quiet, Quiet', SetsOK, [Next]_vars PROVE NoneForgotten'
    OBVIOUS
  <2>0. consumed \subseteq ChordKeys
    BY DEF Quiet
  <2>a. Panel => dirty = {}
    BY DEF Quiet, Panel
  <2>1. CASE KeyEvents
    <3>1. PICK k \in Keys, isDown \in BOOLEAN, heard \in BOOLEAN : KeyEvent(k, isDown, heard)
      BY <2>1 DEF KeyEvents
    <3>2. CASE heard
      BY <2>0, <2>a, <3>1, <3>2, HandleForgetsNone DEF KeyEvent, Calm
    <3>3. CASE ~heard
      BY <3>1, <3>3 DEF KeyEvent, Calm, NoneForgotten, HoldingNow
    <3> QED  BY <3>2, <3>3
  <2>2. ASSUME NEW k \in Keys, AutoRepeat(k) PROVE NoneForgotten'
    BY <2>0, <2>a, <2>2, HandleForgetsNone DEF AutoRepeat, Calm
  <2>3. CASE ReleaseKeyboard
    <3>1. down' = {} /\ dirty = {} /\ dirty' = {}
          /\ Sync(down', MacrosCancelled, TurbosCancelled, AllHolders)
      BY <2>a, <2>3 DEF ReleaseKeyboard, Calm
    <3>2. Covers(AllHolders)
      <4>1. \A c \in Chords : ChordH(c) \in Holders
        BY DEF Holders
      <4>2. \A x \in Keys : KeyH(x) \in Holders
        BY DEF Holders, KeyHolders
      <4> QED  BY <4>1, <4>2 DEF Covers, AllHolders
    <3> QED  BY <2>0, <3>1, <3>2, SyncForgetsNone
  <2>4. CASE ReleaseMouse
    <3>1. ApplyScan({}, Holding({}, active, consumed, mac, tur)) /\ down' = down
          /\ UNCHANGED <<active, consumed, mac, tur, dirty>>
      BY <2>4 DEF ReleaseMouse, Calm
    <3>2. held' = held
      BY <3>1 DEF ApplyScan
    <3> QED  BY <3>1, <3>2 DEF NoneForgotten, HoldingNow
  <2>5. CASE CancelMacros
    BY <2>a, <2>5, MovesForgetNone DEF CancelMacros
  <2>6. ASSUME NEW m \in Macros, NEW e \in BOOLEAN, SetMacroEnabled(m, e) PROVE NoneForgotten'
    <3>1. PICK macs : ApplyMoves(macs, tur, Marks(mac, macs))
      BY <2>6 DEF SetMacroEnabled
    <3> QED  BY <2>a, <2>6, <3>1, MovesForgetNone DEF SetMacroEnabled, TurboMarks
  <2>7. ASSUME NEW on \in BOOLEAN, SetSlotMacros(on) PROVE NoneForgotten'
    <3>1. PICK macs : ApplyMoves(macs, tur, Marks(mac, macs))
      BY <2>7 DEF SetSlotMacros
    <3> QED  BY <2>a, <2>7, <3>1, MovesForgetNone DEF SetSlotMacros, TurboMarks
  <2>8. CASE SwapTables \/ Reset
    <3>1. down' = {} /\ active' = {}
          /\ (\A m \in Macros : mac'[m].step = 0) /\ (\A t \in Turbo : tur'[t].running = FALSE)
      BY <2>8 DEF SwapTables, Reset, MacroOff, TurboOff
    <3> QED  BY <3>1 DEF NoneForgotten, HoldingNow, Holding
  <2>9. CASE TickBegin \/ Elapse
    BY <2>9 DEF TickBegin, Elapse, NoneForgotten, HoldingNow
  <2>10. ASSUME NEW m \in Macros, PopMacro(m) PROVE NoneForgotten'
    <3>1. dirty' = dirty \cup Marks(mac, mac') /\ UNCHANGED <<down, active, consumed, held, tur>>
      BY <2>10 DEF PopMacro
    <3>2. TurboMarks(tur, tur) = {}
      BY DEF TurboMarks
    <3> QED  BY <3>1, <3>2, UnmarkedSame DEF NoneForgotten, HoldingNow
  <2>11. ASSUME NEW t \in Turbo, PopTurbo(t) PROVE NoneForgotten'
    <3>1. dirty' = dirty \cup TurboMarks(tur, tur') /\ UNCHANGED <<down, active, consumed, held, mac>>
      BY <2>11 DEF PopTurbo
    <3>2. Marks(mac, mac) = {}
      BY DEF Marks
    <3> QED  BY <3>1, <3>2, UnmarkedSame DEF NoneForgotten, HoldingNow
  <2>12. CASE TickEnd
    <3>1. ApplyMoves(mac, tur, dirty)
      BY <2>12 DEF TickEnd
    <3>2. Marks(mac, mac) = {} /\ TurboMarks(tur, tur) = {}
      BY DEF Marks, TurboMarks
    <3> QED  BY <3>1, <3>2, MovesForgetNone
  <2>13. CASE UNCHANGED vars
    BY <2>13 DEF vars, NoneForgotten, HoldingNow
  <2> QED
    BY <2>1, <2>2, <2>3, <2>4, <2>5, <2>6, <2>7, <2>8, <2>9, <2>10, <2>11, <2>12, <2>13 DEF Next
<1>3. NoneForgotten /\ Quiet => LiveIsHeld
  BY DEF NoneForgotten, Quiet, HoldingNow, LiveIsHeld
<1> QED  BY <1>1, <1>2, <1>3, AlwaysQuiet, AlwaysInSets, PTL DEF Spec

\* Induction without an operator to instantiate: a set of numbers has a least one.
LEMMA LeastNumber ==
  ASSUME NEW S \in SUBSET Nat, S # {}
  PROVE  \E n \in S : \A m \in S : n <= m
<1>1. \E n \in S : \A m \in S : <<m, n>> \notin OpToRel(<, Nat)
  <2> HIDE DEF OpToRel
  <2> QED  BY NatLessThanWellFounded, WFMin
<1>2. PICK n \in S : \A m \in S : <<m, n>> \notin OpToRel(<, Nat)
  BY <1>1
<1>3. ASSUME NEW m \in S
      PROVE  ~(m < n)
  BY <1>2 DEF OpToRel
<1> QED  BY <1>3

-----------------------------------------------------------------------------
(* The order of the chord scan.                                             *)

Top == 2 * Cardinality(Keys) + 1
Satisfied(c, d) == Guard(c) \subseteq d /\ ChordDef[c].unless \cap d = {}
Taken(S) == UNION {Guard(e) : e \in S}

\* The chords of specificity n or more that are active over d, from those of
\* specificity above n.
Layer(f, n, d) ==
  IF n = Top THEN {}
  ELSE f[n + 1] \cup {c \in Chords : /\ Specific(c) = n
                                     /\ Satisfied(c, d)
                                     /\ Guard(c) \cap Taken(f[n + 1]) = {}}

\* A preset has finitely many keys, so a guard is less specific than the top.
LEMMA SpecificBounded ==
  ASSUME IsFiniteSet(Keys)
  PROVE  /\ Top \in Nat /\ Top > 0
         /\ \A c \in Chords : Specific(c) \in 0..(Top - 1)
<1>1. Cardinality(Keys) \in Nat
  BY FS_CardinalityType
<1>2. ASSUME NEW c \in Chords
      PROVE  Specific(c) \in 0..(2 * Cardinality(Keys))
  <2>1. ChordDef[c].when \subseteq Keys /\ ChordDef[c].unless \subseteq Keys
    BY TablesAssumption DEF Guard
  <2>2. /\ IsFiniteSet(ChordDef[c].when) /\ IsFiniteSet(ChordDef[c].unless)
        /\ Cardinality(ChordDef[c].when) <= Cardinality(Keys)
        /\ Cardinality(ChordDef[c].unless) <= Cardinality(Keys)
    BY <2>1, FS_Subset
  <2>3. Cardinality(ChordDef[c].when) \in Nat /\ Cardinality(ChordDef[c].unless) \in Nat
    BY <2>2, FS_CardinalityType
  <2> QED  BY ONLY <1>1, <2>2, <2>3 DEF Specific
<1> QED  BY <1>1, <1>2 DEF Top

\* The recursion of recompute_chords has a solution.
LEMMA LayersExist ==
  ASSUME IsFiniteSet(Keys), NEW d
  PROVE  \E f : f = [n \in 0..Top |-> Layer(f, n, d)]
<1> DEFINE Solves(f, k) == f = [n \in k..Top |-> Layer(f, n, d)]
           Bad == {k \in 0..Top : ~ \E f : Solves(f, Top - k)}
<1>0. Top \in Nat /\ Top > 0
  BY SpecificBounded
<1>1. CASE Bad = {}
  <2>1. Top \in 0..Top /\ Top \notin Bad
    BY <1>0, <1>1
  <2>2. \E f : Solves(f, Top - Top)
    BY <2>1
  <2>3. Top - Top = 0
    BY <1>0
  <2> QED  BY <2>2, <2>3
<1>2. CASE Bad # {}
  <2>1. Bad \subseteq Nat
    BY <1>0
  <2> HIDE DEF Bad
  <2>2. PICK k \in Bad : \A j \in Bad : k <= j
    BY <1>2, <2>1, LeastNumber
  <2> USE DEF Bad
  <2>3. k \in 0..Top /\ ~ \E f : Solves(f, Top - k)
    BY <2>2
  <2>4. CASE k = 0
    <3> DEFINE f == [n \in Top..Top |-> {}]
    <3>1. \A n \in Top..Top : n = Top
      BY <1>0
    <3>2. f = [n \in Top..Top |-> Layer(f, n, d)]
      BY <3>1 DEF Layer
    <3>3. Top - k = Top
      BY <1>0, <2>4
    <3>4. Solves(f, Top - k)
      BY <3>2, <3>3
    <3> QED  BY <2>3, <3>4
  <2>5. CASE k # 0
    <3>1. k - 1 \in 0..Top /\ k - 1 \notin Bad
      <4> HIDE DEF Bad
      <4>1. k - 1 \in 0..Top /\ ~(k <= k - 1)
        BY ONLY <1>0, <2>3, <2>5
      <4>2. k - 1 \notin Bad
        BY ONLY <2>2, <4>1
      <4> QED  BY ONLY <4>1, <4>2
    <3>2. PICK f : Solves(f, Top - (k - 1))
      BY <3>1
    <3> DEFINE low == Top - k
               g == [n \in low..Top |-> IF n = low THEN Layer(f, n, d) ELSE f[n]]
    <3>3. low \in Nat /\ low < Top /\ Top - (k - 1) = low + 1
      BY <1>0, <2>3, <2>5
    <3>4. ASSUME NEW n \in low..Top
          PROVE  g[n] = Layer(g, n, d)
      <4>1. n \in Nat /\ n >= low /\ n <= Top
        BY <3>3, <1>0
      <4>2. n # Top => g[n + 1] = f[n + 1]
        <5>1. n # Top => n + 1 \in low..Top /\ n + 1 # low
          BY ONLY <4>1, <3>3, <1>0
        <5> QED  BY <5>1
      <4>3. Layer(g, n, d) = Layer(f, n, d)
        BY <4>2 DEF Layer
      <4>4. CASE n = low
        BY <4>3, <4>4
      <4>5. CASE n # low
        <5>1. n \in (low + 1)..Top
          BY ONLY <4>1, <4>5, <3>3, <1>0
        <5>2. f[n] = Layer(f, n, d)
          BY <5>1, <3>2, <3>3
        <5> QED  BY <4>3, <4>5, <5>2
      <4> QED  BY <4>4, <4>5
    <3>5. g = [n \in low..Top |-> Layer(g, n, d)]
      BY <3>4
    <3>6. Solves(g, Top - k)
      BY <3>5
    <3> QED  BY <2>3, <3>6
  <2> QED  BY <2>4, <2>5
<1> QED  BY <1>1, <1>2

Layers(d) == CHOOSE f : f = [n \in 0..Top |-> Layer(f, n, d)]

LEMMA ActiveIsLayers ==
  ASSUME NEW d
  PROVE  ActiveChords(d) = {c \in Chords : c \in Layers(d)[0]}
BY DEF ActiveChords, Layers, Layer, Top, Satisfied, Taken

\* Every layer, in closed form: a chord enters at its own specificity, when no
\* chord of a higher one took one of its keys.
LEMMA LayersAre ==
  ASSUME IsFiniteSet(Keys), NEW d, NEW n \in 0..Top
  PROVE  Layers(d)[n] = {c \in Chords : /\ Specific(c) >= n
                                        /\ Satisfied(c, d)
                                        /\ Guard(c) \cap Taken(Layers(d)[Specific(c) + 1]) = {}}
<1> DEFINE g == Layers(d)
           New(c) == /\ Satisfied(c, d)
                     /\ Guard(c) \cap Taken(g[Specific(c) + 1]) = {}
           Closed(k) == g[Top - k] = {c \in Chords : Specific(c) >= Top - k /\ New(c)}
           Bad == {k \in 0..Top : ~Closed(k)}
<1>1. g = [i \in 0..Top |-> Layer(g, i, d)]
  BY LayersExist DEF Layers
<1>2. Top \in Nat /\ Top > 0 /\ \A c \in Chords : Specific(c) \in 0..(Top - 1)
  BY SpecificBounded
<1>3. \A i \in 0..Top : g[i] = Layer(g, i, d)
  BY <1>1
<1> HIDE DEF g
<1>4. Bad = {}
  <2> SUFFICES ASSUME Bad # {} PROVE FALSE
    OBVIOUS
  <2>1. Bad \subseteq Nat
    BY <1>2
  <2>2. PICK k \in Bad : \A j \in Bad : k <= j
    <3> HIDE DEF Bad
    <3> QED  BY <2>1, LeastNumber
  <2>3. k \in 0..Top /\ ~Closed(k)
    BY <2>2
  <2>4. CASE k = 0
    <3>1. Top - k = Top /\ Top \in 0..Top
      BY <1>2, <2>4
    <3>2. g[Top - k] = {}
      BY <1>3, <3>1 DEF Layer
    <3>3. \A c \in Chords : ~(Specific(c) >= Top)
      BY <1>2
    <3>4. Closed(k)
      BY <3>1, <3>2, <3>3
    <3> QED  BY <2>3, <3>4
  <2>5. CASE k # 0
    <3> DEFINE low == Top - k
    <3>1. low \in 0..Top /\ low # Top /\ low + 1 \in 0..Top /\ Top - (k - 1) = low + 1
          /\ k - 1 \in 0..Top
      BY <1>2, <2>3, <2>5
    <3>2. Closed(k - 1)
      BY <2>2, <2>3, <3>1
    <3>3. g[low + 1] = {c \in Chords : Specific(c) >= low + 1 /\ New(c)}
      BY <3>1, <3>2
    <3>4. g[low] = g[low + 1] \cup {c \in Chords : /\ Specific(c) = low
                                                  /\ Satisfied(c, d)
                                                  /\ Guard(c) \cap Taken(g[low + 1]) = {}}
      BY <1>3, <3>1 DEF Layer
    <3>5. \A c \in Chords : Specific(c) >= low <=> Specific(c) >= low + 1 \/ Specific(c) = low
      BY <1>2, <3>1
    <3>6. ASSUME NEW c \in Chords
          PROVE  c \in g[low] <=> Specific(c) >= low /\ New(c)
      BY <3>3, <3>4, <3>5
    <3>7. g[low] \subseteq Chords
      BY <3>3, <3>4
    <3>8. Closed(k)
      BY <3>6, <3>7
    <3> QED  BY <2>3, <3>8
  <2> QED  BY <2>4, <2>5
<1>5. Top - n \in 0..Top /\ Top - (Top - n) = n
  BY <1>2
<1>6. Closed(Top - n)
  BY <1>4, <1>5
<1>7. g[n] = {c \in Chords : Specific(c) >= n /\ New(c)}
  BY <1>5, <1>6
<1> QED  BY <1>7 DEF g

\* recompute_chords resolves overlaps by priority: over any set of keys down, a
\* satisfied chord is active exactly when no strictly more specific active chord
\* shares a key with it.
LEMMA PriorityResolves ==
  ASSUME IsFiniteSet(Keys), NEW d, NEW c \in Chords
  PROVE  c \in ActiveChords(d) <=>
           /\ Satisfied(c, d)
           /\ \A e \in ActiveChords(d) : Specific(e) > Specific(c) => Guard(e) \cap Guard(c) = {}
<1> DEFINE g == Layers(d)
           s == Specific(c)
<1>1. Top \in Nat /\ Top > 0 /\ \A e \in Chords : Specific(e) \in 0..(Top - 1)
  BY SpecificBounded
<1>2. s \in Nat /\ s + 1 \in 0..Top /\ 0 \in 0..Top
  BY <1>1
<1>3. ASSUME NEW n \in 0..Top
      PROVE  g[n] = {e \in Chords : /\ Specific(e) >= n
                                    /\ Satisfied(e, d)
                                    /\ Guard(e) \cap Taken(g[Specific(e) + 1]) = {}}
  BY LayersAre
<1>4. ActiveChords(d) = {e \in Chords : e \in g[0]}
  BY ActiveIsLayers
<1> HIDE DEF g
<1>5. \A e \in Chords : Specific(e) >= 0 /\ (Specific(e) >= s + 1 <=> Specific(e) > s)
  BY <1>1, <1>2
<1>6. ASSUME NEW e \in Chords
      PROVE  e \in ActiveChords(d) <=> /\ Satisfied(e, d)
                                       /\ Guard(e) \cap Taken(g[Specific(e) + 1]) = {}
  BY <1>2, <1>3, <1>4, <1>5
<1>7. g[s + 1] = {e \in ActiveChords(d) : Specific(e) > s}
  <2>1. ActiveChords(d) \subseteq Chords
    BY <1>4
  <2> QED  BY <1>2, <1>3, <1>5, <1>6, <2>1
<1> QED  BY <1>6, <1>7 DEF Taken

-----------------------------------------------------------------------------
(* The chords in force are those of the keys the keyboard has down.         *)

ChordsAreCurrent == active = ActiveChords(down \ MouseKeys)

\* A key no chord names changes nothing.
LEMMA OtherKeysDoNotCount ==
  ASSUME IsFiniteSet(Keys), NEW d, NEW e,
         \A c \in Chords : Satisfied(c, d) <=> Satisfied(c, e)
  PROVE  ActiveChords(d) = ActiveChords(e)
<1>1. \A f, n : Layer(f, n, d) = Layer(f, n, e)
  BY DEF Layer
<1>2. Layers(d) = Layers(e)
  BY <1>1 DEF Layers
<1> QED  BY <1>2, ActiveIsLayers

LEMMA NoKeysNoChords == ASSUME IsFiniteSet(Keys) PROVE ActiveChords({}) = {}
<1>1. \A c \in Chords : ~Satisfied(c, {})
  BY DEF Satisfied, Guard
<1>2. ActiveChords({}) \subseteq Chords
  BY DEF ActiveChords
<1> QED  BY <1>1, <1>2, PriorityResolves

LEMMA HandleKeepsChords ==
  ASSUME IsFiniteSet(Keys), ChordsAreCurrent, NEW k \in Keys, NEW isDown, Handle(k, isDown)
  PROVE  ChordsAreCurrent'
<1>1. CASE k \notin Touches
  <2>1. active' = active /\ \A x \in Keys \ {k} : (x \in down) <=> (x \in down')
    BY <1>1 DEF Handle
  <2>2. \A c \in Chords : k \notin Guard(c) /\ k \notin ChordDef[c].unless
    BY <1>1 DEF Touches, ChordKeys
  <2>3. \A c \in Chords : Guard(c) \subseteq Keys /\ ChordDef[c].unless \subseteq Keys
    BY TablesAssumption
  <2>4. \A c \in Chords : Satisfied(c, down \ MouseKeys) <=> Satisfied(c, down' \ MouseKeys)
    BY <2>1, <2>2, <2>3 DEF Satisfied
  <2>5. ActiveChords(down \ MouseKeys) = ActiveChords(down' \ MouseKeys)
    BY <2>4, OtherKeysDoNotCount
  <2> QED  BY <2>1, <2>5 DEF ChordsAreCurrent
<1>2. CASE k \in Touches \cap MouseKeys
  <2>1. active' = active /\ down' \ MouseKeys = down \ MouseKeys
    BY <1>2 DEF Handle, HandleMouse
  <2> QED  BY <2>1 DEF ChordsAreCurrent
<1>3. CASE k \in Touches \ MouseKeys
  BY <1>3 DEF Handle, HandleKeyboard, Sync, ChordsAreCurrent
<1> QED  BY <1>1, <1>2, <1>3

\* For every preset with finitely many keys: at every moment a chord is active
\* exactly when its guard holds over the keyboard and no strictly more specific
\* active chord took one of its keys (recompute_chords, after every call).
THEOREM ChordsResolve == ASSUME IsFiniteSet(Keys) PROVE Spec => []ChordPriority
<1>1. Init => ChordsAreCurrent
  <2> SUFFICES ASSUME Init PROVE active = ActiveChords(down \ MouseKeys)
    BY DEF ChordsAreCurrent
  <2>1. active = {} /\ down \ MouseKeys = {}
    BY DEF Init
  <2> QED  BY <2>1, NoKeysNoChords
<1>2. ChordsAreCurrent /\ [Next]_vars => ChordsAreCurrent'
  <2> SUFFICES ASSUME ChordsAreCurrent, [Next]_vars PROVE ChordsAreCurrent'
    OBVIOUS
  <2>0. ASSUME UNCHANGED <<active, down>>
        PROVE  ChordsAreCurrent'
    BY <2>0 DEF ChordsAreCurrent
  <2>1. CASE KeyEvents
    <3>1. PICK k \in Keys, isDown \in BOOLEAN, heard \in BOOLEAN : KeyEvent(k, isDown, heard)
      BY <2>1 DEF KeyEvents
    <3>2. CASE heard
      BY <3>1, <3>2, HandleKeepsChords DEF KeyEvent
    <3>3. CASE ~heard
      BY <2>0, <3>1, <3>3 DEF KeyEvent
    <3> QED  BY <3>2, <3>3
  <2>2. ASSUME NEW k \in Keys, AutoRepeat(k) PROVE ChordsAreCurrent'
    BY <2>2, HandleKeepsChords DEF AutoRepeat
  <2>3. CASE ReleaseKeyboard
    <3>1. active' = ActiveChords({}) /\ down' \ MouseKeys = {}
      BY <2>3 DEF ReleaseKeyboard, Sync
    <3> QED  BY <3>1 DEF ChordsAreCurrent
  <2>4. CASE ReleaseMouse
    <3>1. active' = active /\ down' \ MouseKeys = down \ MouseKeys
      BY <2>4 DEF ReleaseMouse
    <3> QED  BY <3>1 DEF ChordsAreCurrent
  <2>5. CASE CancelMacros \/ TickEnd
    BY <2>0, <2>5 DEF CancelMacros, TickEnd, ApplyMoves
  <2>6. ASSUME NEW m \in Macros, NEW e \in BOOLEAN, SetMacroEnabled(m, e) PROVE ChordsAreCurrent'
    BY <2>0, <2>6 DEF SetMacroEnabled, ApplyMoves
  <2>7. ASSUME NEW on \in BOOLEAN, SetSlotMacros(on) PROVE ChordsAreCurrent'
    BY <2>0, <2>7 DEF SetSlotMacros, ApplyMoves
  <2>8. CASE SwapTables \/ Reset
    <3>1. active' = {} /\ down' \ MouseKeys = {}
      BY <2>8 DEF SwapTables, Reset
    <3> QED  BY <3>1, NoKeysNoChords DEF ChordsAreCurrent
  <2>9. CASE TickBegin \/ Elapse
    BY <2>0, <2>9 DEF TickBegin, Elapse
  <2>10. ASSUME NEW m \in Macros, PopMacro(m) PROVE ChordsAreCurrent'
    BY <2>0, <2>10 DEF PopMacro
  <2>11. ASSUME NEW t \in Turbo, PopTurbo(t) PROVE ChordsAreCurrent'
    BY <2>0, <2>11 DEF PopTurbo
  <2>12. CASE UNCHANGED vars
    BY <2>0, <2>12 DEF vars
  <2> QED
    BY <2>1, <2>2, <2>3, <2>4, <2>5, <2>6, <2>7, <2>8, <2>9, <2>10, <2>11, <2>12 DEF Next
<1>3. ChordsAreCurrent => ChordPriority
  <2> SUFFICES ASSUME ChordsAreCurrent, NEW c \in Chords
               PROVE  c \in active <=>
                        /\ Satisfied(c, down \ MouseKeys)
                        /\ \A e \in active : Specific(e) > Specific(c) => Guard(e) \cap Guard(c) = {}
    BY DEF ChordPriority, Satisfied
  <2>1. active = ActiveChords(down \ MouseKeys)
    BY DEF ChordsAreCurrent
  <2> QED  BY <2>1, PriorityResolves
<1> QED  BY <1>1, <1>2, <1>3, PTL DEF Spec

=============================================================================
