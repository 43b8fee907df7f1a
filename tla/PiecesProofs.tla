---------------------------- MODULE PiecesProofs ----------------------------
(***************************************************************************)
(* Proofs about the components of Pieces, each for every value of its       *)
(* constants: the pad's section of shared memory, which implements Register *)
(* (Latch), the escape gestures (EscapeGestures), the claiming of a         *)
(* keyboard (Claim), the following of a game (Game), the daemon's control   *)
(* loop (Control) and the live feed (Feed); the preset files have           *)
(* PresetsProofs.  Each section is about one of them and uses its variables *)
(* only.                                                                    *)
(***************************************************************************)
EXTENDS Pieces, FiniteSetTheorems, TLAPS



-----------------------------------------------------------------------------
(* Latch: frames in shared memory, written and read without a lock.         *)

Types ==
    /\ seq \in 0 .. Wrap - 1 /\ before \in 0 .. Wrap - 1
    /\ payload \in Frames /\ out \in Frames /\ settled \in Frames /\ wanted \in Frames
    /\ cadence.last \in Frames
    /\ cadence = [last |-> cadence.last, age |-> cadence.age]
    /\ writer \in {"idle", "mark", "store"} /\ reader \in {"idle", "load", "copy"}
    /\ begun \in Nat

\* The section holds the last complete frame, but for what is being stored.
Section ==
    /\ wanted = cadence.last
    /\ Odd(seq) <=> writer = "store"
    /\ writer = "idle" => settled = cadence.last
    /\ writer # "store" => payload = settled
    /\ writer = "store" =>
         \A b \in Bytes : payload[b] = IF b \in todo THEN settled[b] ELSE cadence.last[b]

\* How far the number has moved since the reader loaded it, once round at most.
Moved == IF writer = "store" THEN 2 * begun - 1 ELSE 2 * begun

\* As long as no publish began, what is copied is the frame that is settled.
Copy ==
    reader = "copy" =>
      /\ ~Odd(before) /\ 2 * begun < Wrap
      /\ seq = before + Moved \/ seq + Wrap = before + Moved
      /\ begun = 0 => writer # "store" /\ \A b \in Bytes : b \in left \/ out[b] = settled[b]

Inv == Types /\ Section /\ Copy

-----------------------------------------------------------------------------
(* Lemmas.                                                                  *)

LEMMA NumberWraps ==
  ASSUME Wrap \in Nat \ {0}, Wrap % 2 = 0, NEW s \in 0 .. Wrap - 1
  PROVE  /\ Next1(s) = IF s = Wrap - 1 THEN 0 ELSE s + 1
         /\ Next1(s) \in 0 .. Wrap - 1
         /\ Odd(Next1(s)) <=> ~Odd(s)
<1>1. Next1(s) = IF s = Wrap - 1 THEN 0 ELSE s + 1
  BY DEF Next1
<1>2. Next1(s) \in 0 .. Wrap - 1
  BY <1>1
<1>3. CASE s = Wrap - 1
  BY <1>1, <1>3 DEF Odd
<1>4. CASE s # Wrap - 1
  BY <1>1, <1>4 DEF Odd
<1> QED  BY <1>1, <1>2, <1>3, <1>4

-----------------------------------------------------------------------------
(* Every step keeps the invariant and is a step of the register.            *)

Good == Inv' /\ [R!Write \/ R!Read \/ R!Fail]_<<IF writer = "idle" THEN wanted ELSE settled, answer>>

\* A state arrives: what the register is to show changes only if it is elided,
\* and then to itself.
LEMMA UpdateGood ==
  ASSUME Inv, NEW f \in Frames, Update(f)
  PROVE  Good
<1>1. /\ UNCHANGED <<seq, payload, todo, reader, before, out, left, tries, answer, settled, begun>>
      /\ writer = "idle" /\ wanted' = f
  BY DEF Update, section, read
<1>2. CASE Skips(f)
  <2>1. UNCHANGED <<cadence, writer>> /\ f = cadence.last
    BY <1>2 DEF Update, Skips
  <2> QED  BY <1>1, <2>1 DEF Inv, Types, Section, Copy, Moved, Good
<1>3. CASE ~Skips(f)
  <2>1. cadence' = [last |-> f, age |-> 0] /\ writer' = "mark"
    BY <1>3 DEF Update
  <2>2. cadence'.last = f /\ cadence' = [last |-> cadence'.last, age |-> cadence'.age]
    BY <2>1
  <2>3. Inv'
    BY <1>1, <2>1, <2>2 DEF Inv, Types, Section, Copy, Moved
  <2> QED  BY <1>1, <2>1, <2>3 DEF Inv, Section, Good
<1> QED  BY <1>2, <1>3

LEMMA MarkGood ==
  ASSUME Wrap \in Nat \ {0}, Wrap % 2 = 0, Inv, Mark
  PROVE  Good
<1>1. /\ UNCHANGED <<payload, cadence, reader, before, out, left, tries, answer, wanted, settled>>
      /\ writer = "mark" /\ 2 * begun + 2 < Wrap /\ seq' = Next1(seq)
      /\ writer' = "store" /\ todo' = Bytes
      /\ begun' = IF reader = "copy" THEN begun + 1 ELSE 0
  BY DEF Mark, read
<1>2. Types /\ Section /\ Copy
  BY DEF Inv
<1>3. /\ seq \in 0 .. Wrap - 1 /\ seq' \in 0 .. Wrap - 1
      /\ seq' = IF seq = Wrap - 1 THEN 0 ELSE seq + 1
      /\ Odd(seq')
  BY <1>1, <1>2, NumberWraps DEF Types, Section
<1>4. Types'
  BY <1>1, <1>2, <1>3 DEF Types
<1>5. Section'
  BY <1>1, <1>2, <1>3 DEF Section
<1>6. Copy'
  <2>1. CASE reader # "copy"
    BY <1>1, <2>1 DEF Copy
  <2>2. CASE reader = "copy"
    <3>1. /\ ~Odd(before) /\ begun' = begun + 1 /\ begun \in Nat /\ before \in 0 .. Wrap - 1
          /\ seq = before + 2 * begun \/ seq + Wrap = before + 2 * begun
      BY <1>1, <1>2, <2>2 DEF Copy, Moved, Types
    <3>2. seq' = before + Moved' \/ seq' + Wrap = before + Moved'
      BY <1>1, <1>3, <3>1 DEF Moved
    <3>3. 2 * begun' < Wrap /\ begun' # 0
      BY <1>1, <3>1
    <3> QED  BY <1>1, <3>1, <3>2, <3>3 DEF Copy
  <2> QED  BY <2>1, <2>2
<1> QED  BY <1>1, <1>4, <1>5, <1>6 DEF Inv, Good

LEMMA StoreGood ==
  ASSUME Inv, NEW b \in Bytes, StoreByte(b)
  PROVE  Good
<1>1. /\ UNCHANGED <<seq, cadence, writer, reader, before, out, left, tries, answer, wanted,
                     settled, begun>>
      /\ writer = "store" /\ b \in todo
      /\ payload' = [payload EXCEPT ![b] = cadence.last[b]] /\ todo' = todo \ {b}
  BY DEF StoreByte, read
<1>2. Types /\ Section /\ Copy
  BY DEF Inv
<1>3. payload' \in Frames
  BY <1>1, <1>2 DEF Types, Frames
<1>4. Section'
  BY <1>1, <1>2 DEF Section, Types, Frames
<1>5. Copy'
  BY <1>1, <1>2 DEF Copy, Moved
<1> QED  BY <1>1, <1>2, <1>3, <1>4, <1>5 DEF Inv, Types, Good

\* The number is even again: the frame that was given last is complete.
LEMMA SettleGood ==
  ASSUME Wrap \in Nat \ {0}, Wrap % 2 = 0, Inv, Settle
  PROVE  Good
<1>1. /\ UNCHANGED <<payload, cadence, todo, reader, before, out, left, tries, answer, wanted, begun>>
      /\ writer = "store" /\ todo = {} /\ seq' = Next1(seq) /\ writer' = "idle"
      /\ settled' = cadence.last
  BY DEF Settle, read
<1>2. Types /\ Section /\ Copy
  BY DEF Inv
<1>3. /\ seq \in 0 .. Wrap - 1 /\ seq' \in 0 .. Wrap - 1
      /\ seq' = IF seq = Wrap - 1 THEN 0 ELSE seq + 1
      /\ ~Odd(seq')
  BY <1>1, <1>2, NumberWraps DEF Types, Section
<1>4. Types'
  BY <1>1, <1>2, <1>3 DEF Types
<1>5. Section'
  <2>1. payload = cadence.last
    BY <1>1, <1>2 DEF Types, Section, Frames
  <2> QED  BY <1>1, <1>2, <1>3, <2>1 DEF Section
<1>6. Copy'
  <2>1. CASE reader # "copy"
    BY <1>1, <2>1 DEF Copy
  <2>2. CASE reader = "copy"
    <3>1. /\ ~Odd(before) /\ 2 * begun < Wrap /\ begun # 0 /\ begun \in Nat /\ before \in 0 .. Wrap - 1
          /\ seq = before + 2 * begun - 1 \/ seq + Wrap = before + 2 * begun - 1
      BY <1>1, <1>2, <2>2 DEF Copy, Moved, Types
    <3>2. seq' = before + Moved' \/ seq' + Wrap = before + Moved'
      BY <1>1, <1>3, <3>1 DEF Moved
    <3> QED  BY <1>1, <3>1, <3>2 DEF Copy
  <2> QED  BY <2>1, <2>2
<1>7. [R!Write]_<<IF writer = "idle" THEN wanted ELSE settled, answer>>
  BY <1>1, <1>2 DEF R!Write, Types
<1> QED  BY <1>4, <1>5, <1>6, <1>7 DEF Inv, Good

LEMMA PassGood ==
  ASSUME Inv, Pass
  PROVE  Good
<1>1. /\ UNCHANGED <<seq, payload, writer, todo, reader, before, out, left, tries, answer, wanted,
                     settled, begun>>
      /\ cadence' = [cadence EXCEPT !.age = @ + 1]
  BY DEF Pass, section, read
<1>2. cadence = [last |-> cadence.last, age |-> cadence.age]
  BY DEF Inv, Types
<1>3. cadence'.last = cadence.last /\ cadence' = [last |-> cadence'.last, age |-> cadence'.age]
  BY <1>1, <1>2
<1> QED  BY <1>1, <1>3 DEF Inv, Types, Section, Copy, Moved, Good

LEMMA ReaderGood ==
  ASSUME Wrap \in Nat \ {0}, Inv, Begin \/ LoadSeq \/ CheckSeq \/ \E b \in Bytes : CopyByte(b)
  PROVE  Good
<1>1. UNCHANGED <<seq, payload, cadence, writer, todo, wanted, settled>>
  BY DEF Begin, LoadSeq, CheckSeq, CopyByte, section
<1>2. Types /\ Section /\ Copy
  BY DEF Inv
<1>3. Section'
  BY <1>1, <1>2 DEF Section
<1>4. UNCHANGED (IF writer = "idle" THEN wanted ELSE settled)
  BY <1>1
<1>5. CASE Begin
  <2>1. UNCHANGED <<before, out, left, begun, answer>> /\ reader' = "load"
    BY <1>5 DEF Begin
  <2> QED  BY <1>1, <1>2, <1>3, <1>4, <2>1 DEF Inv, Types, Copy, Good
<1>6. CASE LoadSeq
  <2>1. before' = seq /\ begun' = 0 /\ out' = out
    BY <1>6 DEF LoadSeq
  <2>2. CASE Odd(seq)
    <3>1. reader' \in {"idle", "load"} /\ answer' \in {{}, answer}
      BY <1>6, <2>2 DEF LoadSeq, Retry
    <3>2. Inv'
      BY <1>1, <1>2, <1>3, <2>1, <3>1 DEF Inv, Types, Copy
    <3> QED  BY <1>4, <3>1, <3>2 DEF Good, R!Fail
  <2>3. CASE ~Odd(seq)
    <3>1. reader' = "copy" /\ left' = Bytes /\ answer' = answer
      BY <1>6, <2>3 DEF LoadSeq
    <3>2. Copy'
      <4>1. ~Odd(before') /\ seq \in Nat
        BY <1>2, <2>1, <2>3 DEF Odd, Types
      <4>2. writer' # "store" /\ begun' = 0
        BY <1>1, <1>2, <2>1, <2>3 DEF Section
      <4>3. Moved' = 0
        BY ONLY <4>2 DEF Moved
      <4> QED  BY <1>1, <2>1, <3>1, <4>1, <4>2, <4>3 DEF Copy
    <3>3. Inv'
      BY <1>1, <1>2, <1>3, <2>1, <3>1, <3>2 DEF Inv, Types
    <3> QED  BY <1>4, <3>1, <3>3 DEF Good
  <2> QED  BY <2>2, <2>3
<1>7. CASE CheckSeq
  <2>1. UNCHANGED <<before, out, left>> /\ begun' = 0 /\ reader = "copy" /\ left = {}
    BY <1>7 DEF CheckSeq
  <2>2. CASE seq # before
    <3>1. reader' \in {"idle", "load"} /\ answer' \in {{}, answer}
      BY <1>7, <2>2 DEF CheckSeq, Retry
    <3>2. Inv'
      BY <1>1, <1>2, <1>3, <2>1, <3>1 DEF Inv, Types, Copy
    <3> QED  BY <1>4, <3>1, <3>2 DEF Good, R!Fail
  <2>3. CASE seq = before
    <3>1. reader' = "idle" /\ answer' = {out}
      BY <1>7, <2>3 DEF CheckSeq
    <3>2. writer # "store"
      BY <1>2, <2>1, <2>3 DEF Copy, Section
    <3>3. begun = 0
      <4>1. /\ seq = before + 2 * begun \/ seq + Wrap = before + 2 * begun
            /\ 2 * begun < Wrap /\ begun \in Nat /\ before \in 0 .. Wrap - 1
        BY <1>2, <2>1, <3>2 DEF Copy, Moved, Types
      <4> QED  BY <2>3, <4>1
    <3>4. out = settled
      BY <1>2, <2>1, <3>3 DEF Copy, Types, Frames
    <3>5. out = IF writer = "idle" THEN wanted ELSE settled
      BY <1>2, <3>4 DEF Section
    <3>6. Inv'
      BY <1>1, <1>2, <1>3, <2>1, <3>1 DEF Inv, Types, Copy
    <3> QED  BY <1>4, <3>1, <3>5, <3>6 DEF Good, R!Read
  <2> QED  BY <2>2, <2>3
<1>8. ASSUME NEW b \in Bytes, CopyByte(b)
      PROVE  Good
  <2>1. /\ UNCHANGED <<reader, before, begun, answer>>
        /\ out' = [out EXCEPT ![b] = payload[b]] /\ left' = left \ {b}
    BY <1>8 DEF CopyByte
  <2>2. out' \in Frames
    BY <1>2, <2>1 DEF Types, Frames
  <2>3. Copy'
    BY <1>1, <1>2, <2>1 DEF Copy, Moved, Section, Types, Frames
  <2> QED  BY <1>1, <1>2, <1>3, <1>4, <2>1, <2>2, <2>3 DEF Inv, Types, Good
<1> QED  BY <1>5, <1>6, <1>7, <1>8

-----------------------------------------------------------------------------
(* The theorem.                                                             *)

\* What a driver reads out of the section is always a whole frame, the last
\* complete one, and with the thread at rest the one update was last given; as
\* long as the sequence number is not taken round during a single read
\* (publish, read_into, Cadence::decide).
THEOREM LatchIsRegister ==
  ASSUME Wrap \in Nat \ {0}, Wrap % 2 = 0, 0 \in Values
  PROVE  Spec => IsRegister
<1>1. Init => Inv /\ R!Init
  BY DEF Init, Inv, Types, Section, Copy, Frames, Blank, Odd, R!Init
<1>2. Inv /\ [Next]_vars => Good
  <2>1. ASSUME Inv, UNCHANGED vars
        PROVE  Good
    BY <2>1 DEF Inv, Types, Section, Copy, Moved, Good, vars, section, read
  <2> QED  BY <2>1, UpdateGood, MarkGood, StoreGood, SettleGood, PassGood, ReaderGood DEF Next
<1> QED  BY <1>1, <1>2, PTL DEF Spec, IsRegister, R!Spec, Good

-----------------------------------------------------------------------------
(* EscapeGestures: one detector and the boards its thread reads.            *)

\* The detector follows the boards, and counts no release a bystander did not.
Bystander ==
  /\ det \in D!Detectors
  /\ cycles \in [D!EscapeKeys -> 0 .. Threshold]
  /\ phys \in [Devices -> SUBSET Keys]
  /\ \A b \in Devices : det.mods[b] = phys[b] \cap D!ModKeys
  /\ \A e \in D!EscapeKeys :
       det.ups[e] <= (IF escape \in {"left", "right", "stop"} THEN 0 ELSE cycles[e])

\* What a stroke does to the detector: o is the outcome, h and n the detector
\* after the modifiers and after the counts.
Effect(o, h, n, d, b, k, isDown) ==
  /\ o.escape \in {"none", "left", "right", "stop"}
  /\ o.escape = "stop" <=> D!Combo(h.mods[b])
  /\ o.escape # "none" => o.det.ups = D!NoCounts
  /\ k \notin D!EscapeKeys => o.det.ups = D!NoCounts /\ o.escape \in {"none", "stop"}
  /\ o.escape = "none" /\ k \in D!EscapeKeys => o.det.ups = n.ups
  /\ o.escape = "left" => k \in D!EscapeKeys /\ n.ups[LeftKey] = Threshold
  /\ o.escape = "right" => k \in D!EscapeKeys /\ n.ups[RightKey] = Threshold
  /\ n.ups = (IF isDown THEN d.ups ELSE [d.ups EXCEPT ![k] = D!Bump(@)])

LEMMA Observed ==
  ASSUME Threshold \in Nat \ {0}, NEW d \in D!Detectors, NEW b \in Devices, NEW k,
         NEW isDown \in BOOLEAN
  PROVE  /\ D!Observe(d, b, k, isDown).det \in D!Detectors
         /\ D!Observe(d, b, k, isDown).det.mods = D!Hear(d, b, k, isDown).mods
         /\ Effect(D!Observe(d, b, k, isDown), D!Hear(d, b, k, isDown),
                   D!Count(D!Hear(d, b, k, isDown), k, isDown), d, b, k, isDown)
<1> DEFINE h == D!Hear(d, b, k, isDown)
           n == D!Count(h, k, isDown)
           o == D!Observe(d, b, k, isDown)
<1>1. h \in D!Detectors /\ h.downs = d.downs /\ h.ups = d.ups
  <2>1. CASE k \notin D!ModKeys
    BY <2>1 DEF D!Hear
  <2>2. CASE k \in D!ModKeys
    <3>1. h = [d EXCEPT !.mods[b] = IF isDown THEN @ \cup {k} ELSE @ \ {k}]
      BY <2>2 DEF D!Hear
    <3> QED  BY <2>2, <3>1 DEF D!Detectors
  <2> QED  BY <2>1, <2>2
<1>2. D!NoCounts \in [D!EscapeKeys -> 0 .. Threshold]
  BY DEF D!NoCounts
<1>3. \A x \in 0 .. Threshold : D!Bump(x) \in 0 .. Threshold
  BY DEF D!Bump
<1> HIDE DEF h
<1>4. /\ n.mods = h.mods
      /\ n.ups = (IF isDown THEN h.ups ELSE [h.ups EXCEPT ![k] = D!Bump(@)])
      /\ n \in D!Detectors
  BY <1>1, <1>3 DEF D!Count, D!Detectors
<1>5. \A d2 \in D!Detectors : /\ D!ResetCounters(d2) \in D!Detectors
                              /\ D!ResetCounters(d2).mods = d2.mods
                              /\ D!ResetCounters(d2).ups = D!NoCounts
  BY <1>2 DEF D!ResetCounters, D!Detectors
<1>6. o = IF D!Combo(h.mods[b]) THEN [det |-> D!ResetCounters(h), escape |-> "stop"]
          ELSE IF k \notin D!EscapeKeys THEN [det |-> D!ResetCounters(h), escape |-> "none"]
          ELSE IF D!Complete(n, LeftKey) THEN [det |-> D!ResetCounters(n), escape |-> "left"]
          ELSE IF D!Complete(n, RightKey) THEN [det |-> D!ResetCounters(n), escape |-> "right"]
          ELSE [det |-> n, escape |-> "none"]
  BY DEF D!Observe, h
<1> HIDE DEF n, o
<1>7. /\ D!Complete(n, LeftKey) => n.ups[LeftKey] = Threshold
      /\ D!Complete(n, RightKey) => n.ups[RightKey] = Threshold
  BY DEF D!Complete
<1>8. Effect(o, h, n, d, b, k, isDown)
  BY <1>1, <1>4, <1>5, <1>6, <1>7 DEF Effect
<1>9. o.det \in D!Detectors /\ o.det.mods = h.mods
  BY <1>1, <1>4, <1>5, <1>6
<1> QED  BY <1>8, <1>9 DEF h, n, o

LEMMA BystanderStep ==
  ASSUME Threshold \in Nat \ {0}, Bystander, [D!Next]_(D!vars)
  PROVE  Bystander' /\ (UNCHANGED <<escape, cycles>> \/ D!SequencesAreDeliberate')
<1>1. CASE UNCHANGED D!vars
  BY <1>1 DEF Bystander, D!vars
<1>2. ASSUME NEW b \in Devices, D!Unplug(b) PROVE Bystander' /\ UNCHANGED <<escape, cycles>>
  <2>1. /\ phys' = [phys EXCEPT ![b] = {}] /\ det' = [det EXCEPT !.mods[b] = {}]
        /\ UNCHANGED <<escape, cycles>>
    BY <1>2 DEF D!Unplug, D!ForgetDevice
  <2>2. det' \in D!Detectors /\ det'.ups = det.ups /\ det'.mods = [det.mods EXCEPT ![b] = {}]
    BY <2>1 DEF Bystander, D!Detectors
  <2> QED  BY <2>1, <2>2 DEF Bystander, D!Detectors
<1>3. ASSUME NEW b \in Devices, NEW k \in Keys, NEW isDown \in BOOLEAN, D!Stroke(b, k, isDown)
      PROVE  Bystander' /\ D!SequencesAreDeliberate'
  <2> DEFINE o == D!Observe(det, b, k, isDown)
             h == D!Hear(det, b, k, isDown)
             n == D!Count(h, k, isDown)
             was == IF escape \in {"left", "right", "stop"} THEN D!NoCounts ELSE cycles
  <2>1. /\ det' = o.det /\ escape' = o.escape
        /\ phys' = [phys EXCEPT ![b] = IF isDown THEN @ \cup {k} ELSE @ \ {k}]
        /\ cycles' = IF escape \in {"left", "right", "stop"} \/ k \notin D!EscapeKeys
                     THEN [e \in D!EscapeKeys |-> IF e = k /\ ~isDown THEN 1 ELSE 0]
                     ELSE IF isDown THEN cycles ELSE [cycles EXCEPT ![k] = D!Bump(@)]
    BY <1>3 DEF D!Stroke
  <2>2. o.det \in D!Detectors /\ o.det.mods = h.mods /\ Effect(o, h, n, det, b, k, isDown)
    <3>1. det \in D!Detectors
      BY DEF Bystander
    <3> QED  BY <3>1, Observed
  <2>3. h.mods = IF k \notin D!ModKeys THEN det.mods
                 ELSE [det.mods EXCEPT ![b] = IF isDown THEN @ \cup {k} ELSE @ \ {k}]
    BY DEF D!Hear, Bystander, D!Detectors
  <2> HIDE DEF o, h, n
  <2>4. phys' \in [Devices -> SUBSET Keys] /\ \A c \in Devices : det'.mods[c] = phys'[c] \cap D!ModKeys
    BY <2>1, <2>2, <2>3 DEF Bystander, D!Detectors
  <2>5. /\ \A x \in 0 .. Threshold : D!Bump(x) \in 0 .. Threshold
        /\ D!Bump(0) = 1 /\ 1 \in 0 .. Threshold /\ 0 \in 0 .. Threshold
        /\ \A x, y \in 0 .. Threshold : x <= y => D!Bump(x) <= D!Bump(y)
    BY DEF D!Bump
  <2>6. cycles' \in [D!EscapeKeys -> 0 .. Threshold]
    BY <2>1, <2>5 DEF Bystander
  <2>7. det.ups \in [D!EscapeKeys -> 0 .. Threshold] /\ cycles \in [D!EscapeKeys -> 0 .. Threshold]
    BY DEF Bystander, D!Detectors
  <2>8. ASSUME k \in D!EscapeKeys, NEW e \in D!EscapeKeys PROVE n.ups[e] <= cycles'[e]
    <3>1. CASE escape \in {"left", "right", "stop"}
      <4>1. det.ups[e] <= 0 /\ det.ups[e] \in 0 .. Threshold
        BY <2>7, <3>1 DEF Bystander
      <4>2. det.ups[e] = 0
        BY <4>1
      <4>3. n.ups[e] = IF e = k /\ ~isDown THEN 1 ELSE 0
        BY <2>2, <2>5, <2>7, <2>8, <4>2 DEF Effect
      <4> QED  BY <2>1, <3>1, <4>3
    <3>2. CASE escape \notin {"left", "right", "stop"}
      <4>1. det.ups[e] <= cycles[e] /\ det.ups[e] \in 0 .. Threshold /\ cycles[e] \in 0 .. Threshold
        BY <2>7, <3>2 DEF Bystander
      <4>2. CASE e = k /\ ~isDown
        <5>1. n.ups[e] = D!Bump(det.ups[e]) /\ cycles'[e] = D!Bump(cycles[e])
          BY <2>1, <2>2, <2>7, <2>8, <3>2, <4>2 DEF Effect
        <5> QED  BY <2>5, <4>1, <5>1
      <4>3. CASE ~(e = k /\ ~isDown)
        <5>1. n.ups[e] = det.ups[e] /\ cycles'[e] = cycles[e]
          BY <2>1, <2>2, <2>7, <2>8, <3>2, <4>3 DEF Effect
        <5> QED  BY <4>1, <5>1
      <4> QED  BY <4>2, <4>3
    <3> QED  BY <3>1, <3>2
  <2>9. ASSUME NEW e \in D!EscapeKeys
        PROVE  det'.ups[e] <= (IF escape' \in {"left", "right", "stop"} THEN 0 ELSE cycles'[e])
    <3>1. CASE det'.ups = D!NoCounts
      BY <2>6, <3>1 DEF D!NoCounts
    <3>2. CASE det'.ups # D!NoCounts
      BY <2>1, <2>2, <2>8, <3>2 DEF Effect
    <3> QED  BY <3>1, <3>2
  <2>10. D!SequencesAreDeliberate'
    <3> SUFFICES ASSUME NEW e \in D!EscapeKeys, escape' = (IF e = LeftKey THEN "left" ELSE "right")
                 PROVE  cycles'[e] = Threshold
      BY DEF D!SequencesAreDeliberate
    <3>1. n.ups[e] = Threshold /\ k \in D!EscapeKeys
      BY <2>1, <2>2 DEF D!EscapeKeys, Effect
    <3>2. n.ups[e] <= cycles'[e] /\ cycles'[e] \in 0 .. Threshold
      BY <2>6, <2>8, <3>1
    <3> QED  BY <3>1, <3>2
  <2> QED  BY <2>1, <2>2, <2>4, <2>6, <2>9, <2>10 DEF Bystander
<1> QED  BY <1>1, <1>2, <1>3 DEF D!Next, D!vars

LEMMA AlwaysBystander == ASSUME Threshold \in Nat \ {0} PROVE D!Spec => []Bystander
<1>1. D!Init => Bystander
  BY DEF D!Init, Bystander, D!NewDetector, D!Detectors, D!NoCounts
<1> QED  BY <1>1, BystanderStep, PTL DEF D!Spec

\* No sequence is reported before its key was released Threshold times with
\* nothing else between, for any boards, any keys and any threshold.
THEOREM NobodyEscapesByAccident ==
  ASSUME Threshold \in Nat \ {0} PROVE D!Spec => []SequencesAreDeliberate
<1> USE DEF SequencesAreDeliberate
<1>1. D!Init => D!SequencesAreDeliberate
  BY DEF D!Init, D!SequencesAreDeliberate
<1>2. Bystander /\ D!SequencesAreDeliberate /\ [D!Next]_(D!vars) => D!SequencesAreDeliberate'
  BY BystanderStep DEF D!SequencesAreDeliberate
<1> QED  BY <1>1, <1>2, AlwaysBystander, PTL DEF D!Spec

\* The emergency stop is the one board's whose stroke completes the three parts.
THEOREM StopsAreOneBoards ==
  ASSUME Threshold \in Nat \ {0} PROVE D!Spec => StopIsOneBoards
<1>1. ASSUME Bystander, NEW b \in Devices, NEW k \in Keys, NEW isDown \in BOOLEAN,
             D!Stroke(b, k, isDown)
      PROVE  escape' = "stop" <=> D!Combo(phys'[b])
  <2> DEFINE h == D!Hear(det, b, k, isDown)
  <2>1. escape' = "stop" <=> D!Combo(h.mods[b])
    <3>1. det \in D!Detectors /\ escape' = D!Observe(det, b, k, isDown).escape
      BY <1>1 DEF Bystander, D!Stroke
    <3>2. Effect(D!Observe(det, b, k, isDown), h, D!Count(h, k, isDown), det, b, k, isDown)
      BY <3>1, Observed
    <3> HIDE DEF h
    <3> QED  BY <3>1, <3>2 DEF Effect
  <2>2. h.mods[b] = phys'[b] \cap D!ModKeys
    <3>1. h.mods = IF k \notin D!ModKeys THEN det.mods
                   ELSE [det.mods EXCEPT ![b] = IF isDown THEN @ \cup {k} ELSE @ \ {k}]
      BY <1>1 DEF D!Hear, Bystander, D!Detectors
    <3>2. phys' = [phys EXCEPT ![b] = IF isDown THEN @ \cup {k} ELSE @ \ {k}]
      BY <1>1 DEF D!Stroke
    <3> HIDE DEF h
    <3> QED  BY <1>1, <3>1, <3>2 DEF Bystander, D!Detectors
  <2> HIDE DEF h
  <2>3. \A m : D!Combo(m \cap D!ModKeys) <=> D!Combo(m)
    BY DEF D!Combo, D!ModKeys
  <2> QED  BY <2>1, <2>2, <2>3
<1>2. Bystander /\ [D!Next]_(D!vars) =>
        [\A b \in Devices :
           phys'[b] # phys[b] /\ (\E k \in Keys, isDown \in BOOLEAN : D!Stroke(b, k, isDown))
             => (escape' = "stop" <=> D!Combo(phys'[b]))]_(D!vars)
  BY <1>1
<1> QED  BY <1>2, AlwaysBystander, PTL DEF D!Spec, D!StopIsOneBoards, StopIsOneBoards

-----------------------------------------------------------------------------
(* Claim: a keyboard taken out of the keyboard stack and given back.        *)

\* What a model's package would be matched to: the packages of a board's model.
Packages(b) == {c \in store : c.model = Model[b]}

Survey ==
  /\ node \in [Boards -> {"absent", "removed", "hid", "winusb"}]
  /\ \A c \in store : c.text \in Versions /\ c = [model |-> c.model, text |-> c.text]
  /\ \A b \in Boards \cap Bluetooth : node[b] # "winusb"
  /\ op = [verb |-> op.verb, board |-> op.board, at |-> op.at, oem |-> op.oem, known |-> op.known]
  /\ op.verb \in {"none", "claim", "release"}
  /\ op.verb = "none" => op.at = "idle"
  /\ op.verb # "none" => op.board \in Boards /\ outcome = "none"

\* A claim whose survey still holds has no twin to take and leaves a keyboard.
Claiming ==
  op.verb = "claim" =>
    /\ op.at \in {"inf", "add", "scan"}
    /\ ~moved => W!Siblings(op.board) = {} /\ W!Usable \ {op.board} # {}

\* No model has two packages: ksx was not updated in between.
OneText == \A t, u \in Versions : t = u

\* The package that was looked up is the only one of the model; WinUSB has the
\* board only while that package is there.
Freeing ==
  /\ op.at \in {"remove", "delete"} /\ op.known => Packages(op.board) \subseteq op.oem
  /\ op.at = "delete" /\ node[op.board] = "winusb" => Packages(op.board) # {}
  /\ op.at = "scan" => /\ node[op.board] # "winusb"
                       /\ op.board \in Bluetooth \/ Packages(op.board) = {}

\* What is left of a release.
Releasing ==
  op.verb = "release" =>
    /\ op.at \in {"enum", "remove", "delete", "scan"}
    /\ OneText => Freeing

Orderly == Survey /\ Claiming /\ Releasing

LEMMA BindingIs ==
  ASSUME NEW b
  PROVE  /\ W!Binding(b) \in {"hid", "winusb"}
         /\ W!Binding(b) = "winusb" => b \notin Bluetooth /\ Packages(b) # {}
BY DEF W!Binding, Packages

\* The world moves: no survey holds any more, and no package comes or goes.
LEMMA WorldOrderly ==
  ASSUME Orderly, NEW b \in Boards, W!Plug(b) \/ W!Unplug(b) \/ W!Switch(b) \/ W!RollBack(b)
  PROVE  Orderly'
<1>1. moved' = TRUE /\ UNCHANGED <<op, outcome, store>>
  BY DEF W!Plug, W!Unplug, W!Switch, W!RollBack, W!World
<1>2. \/ node' = node
      \/ node' = [node EXCEPT ![b] = W!Binding(b)]
      \/ node' = [node EXCEPT ![b] = "absent"]
      \/ node' = [node EXCEPT ![b] = "hid"]
  BY DEF W!Plug, W!Unplug, W!Switch, W!RollBack
<1>3. /\ node' \in [Boards -> {"absent", "removed", "hid", "winusb"}]
      /\ \A c \in Boards : node'[c] = "winusb" =>
            node[c] = "winusb" \/ (c \notin Bluetooth /\ Packages(c) # {})
  BY <1>2, BindingIs DEF Orderly, Survey
<1> QED  BY <1>1, <1>3 DEF Orderly, Survey, Claiming, Releasing, Freeing, Packages

LEMMA StartOrderly ==
  ASSUME Orderly, NEW b \in Boards, W!StartClaim(b) \/ \E force \in BOOLEAN : W!StartRelease(b, force)
  PROVE  Orderly'
<1>1. /\ UNCHANGED <<node, off, store>> /\ outcome' = "none" /\ moved' = FALSE
      /\ \/ W!StartClaim(b) /\ op' = [W!NoOp EXCEPT !.verb = "claim", !.board = b, !.at = "inf"]
         \/ op' = [W!NoOp EXCEPT !.verb = "release", !.board = b, !.at = "enum"]
  BY DEF W!StartClaim, W!StartRelease, W!Starts
<1>2. CASE W!StartClaim(b) /\ op' = [W!NoOp EXCEPT !.verb = "claim", !.board = b, !.at = "inf"]
  <2>1. op' = [verb |-> "claim", board |-> b, at |-> "inf", oem |-> {}, known |-> TRUE]
    BY <1>2 DEF W!NoOp
  <2>2. W!Siblings(b) = {} /\ W!Usable \ {b} # {}
    BY <1>2 DEF W!StartClaim
  <2>3. W!Siblings(b)' = W!Siblings(b) /\ W!Usable' = W!Usable
    BY <1>1 DEF W!Siblings, W!Usable, W!InTree
  <2> QED  BY <1>1, <2>1, <2>2, <2>3 DEF Orderly, Survey, Claiming, Releasing, Freeing
<1>3. CASE op' = [W!NoOp EXCEPT !.verb = "release", !.board = b, !.at = "enum"]
  <2>1. op' = [verb |-> "release", board |-> b, at |-> "enum", oem |-> {}, known |-> TRUE]
    BY <1>3 DEF W!NoOp
  <2> QED  BY <1>1, <2>1 DEF Orderly, Survey, Claiming, Releasing, Freeing
<1> QED  BY <1>1, <1>2, <1>3

\* The package of a claim binds the board and none of the others that are there.
LEMMA AddTakesOne ==
  ASSUME Orderly, W!Add
  PROVE  /\ Orderly'
         /\ ~moved => /\ \A b \in Boards \ {op.board} : W!InTree(b) => node'[b] = node[b]
                      /\ W!Usable' \ {op.board} # {}
<1>1. PICK t \in Versions : W!AddDriver([model |-> Model[op.board], text |-> t])
  BY DEF W!Add
<1>2. /\ op.at = "add" /\ op' = [op EXCEPT !.at = "scan"] /\ UNCHANGED <<off, moved, events, outcome>>
      /\ store' = store \cup {[model |-> Model[op.board], text |-> t]}
      /\ node' = [b \in Boards |-> IF W!InTree(b) /\ b \notin Bluetooth /\ Model[b] = Model[op.board]
                                   THEN "winusb" ELSE node[b]]
  BY <1>1 DEF W!Add, W!Goes, W!AddDriver
<1>3. op.verb = "claim" /\ op.board \in Boards
  BY <1>2 DEF Orderly, Survey, Releasing
<1>4. /\ op' = [verb |-> "claim", board |-> op.board, at |-> "scan", oem |-> op.oem, known |-> op.known]
  BY <1>2, <1>3 DEF Orderly, Survey
<1>5. Survey'
  BY <1>2, <1>3, <1>4 DEF Orderly, Survey
<1>6. ASSUME ~moved
      PROVE  /\ \A b \in Boards \ {op.board} : W!InTree(b) => node'[b] = node[b]
             /\ W!Usable' \ {op.board} # {}
             /\ W!Siblings(op.board)' = {}
  <2>1. W!Siblings(op.board) = {} /\ W!Usable \ {op.board} # {}
    BY <1>3, <1>6 DEF Orderly, Claiming
  <2>2. \A b \in Boards \ {op.board} : W!InTree(b) => node'[b] = node[b]
    BY <1>2, <2>1 DEF W!Siblings
  <2>3. \A b \in Boards \ {op.board} : ~W!InTree(b) => node'[b] = node[b]
    BY <1>2
  <2>4. W!Siblings(op.board)' = {}
    BY <1>4, <2>1, <2>2, <2>3 DEF W!Siblings, W!InTree
  <2>5. \A b \in W!Usable \ {op.board} : b \in W!Usable'
    BY <1>2, <2>2, <2>3 DEF W!Usable
  <2> QED  BY <2>1, <2>2, <2>4, <2>5
<1> QED  BY <1>2, <1>4, <1>5, <1>6 DEF Orderly, Claiming, Releasing, Freeing

LEMMA EnumerateOrderly ==
  ASSUME Orderly, W!Enumerate
  PROVE  Orderly'
<1>1. /\ op.at = "enum" /\ UNCHANGED <<node, off, store, outcome, moved, events>>
      /\ \/ Packages(op.board) = {} /\ op' = [op EXCEPT !.at = "remove"]
         \/ \E c \in Packages(op.board) : op' = [op EXCEPT !.at = "remove", !.oem = {c}]
         \/ op' = [op EXCEPT !.at = "remove", !.known = FALSE]
  BY DEF W!Enumerate, Packages
<1>2. op.verb = "release"
  BY <1>1 DEF Orderly, Survey, Claiming
<1>3. OneText => \A c, d \in Packages(op.board) : c = d
  BY DEF OneText, Packages, Orderly, Survey
<1>4. /\ op'.verb = "release" /\ op'.at = "remove" /\ op'.board = op.board
      /\ op' = [verb |-> op'.verb, board |-> op'.board, at |-> op'.at, oem |-> op'.oem,
                known |-> op'.known]
      /\ OneText /\ op'.known => Packages(op.board) \subseteq op'.oem
  BY <1>1, <1>2, <1>3 DEF Orderly, Survey
<1> QED  BY <1>1, <1>2, <1>4 DEF Orderly, Survey, Claiming, Releasing, Freeing, Packages

LEMMA RemoveOrderly ==
  ASSUME Orderly, W!Remove
  PROVE  Orderly'
<1>1. /\ op.at = "remove" /\ UNCHANGED <<off, store, outcome, moved, events>>
      /\ op' = [op EXCEPT !.at = "delete"]
      /\ node' = [node EXCEPT ![op.board] = IF W!InTree(op.board) THEN "removed" ELSE @]
  BY DEF W!Remove, W!RemoveDevice, W!Goes
<1>2. op.verb = "release" /\ op.board \in Boards
  BY <1>1 DEF Orderly, Survey, Claiming
<1>3. op' = [verb |-> "release", board |-> op.board, at |-> "delete", oem |-> op.oem, known |-> op.known]
  BY <1>1, <1>2 DEF Orderly, Survey
<1>4. /\ node' \in [Boards -> {"absent", "removed", "hid", "winusb"}] /\ node'[op.board] # "winusb"
      /\ \A b \in Boards : node'[b] = "winusb" => node[b] = "winusb"
  BY <1>1, <1>2 DEF Orderly, Survey, W!InTree
<1> QED  BY <1>1, <1>2, <1>3, <1>4 DEF Orderly, Survey, Claiming, Releasing, Freeing, Packages

LEMMA DeleteOrderly ==
  ASSUME Orderly, W!Delete
  PROVE  Orderly'
<1>1. op.at = "delete" /\ UNCHANGED <<off, moved, events>>
  BY DEF W!Delete, W!Goes, W!Ends
<1>2. op.verb = "release" /\ op.board \in Boards
  BY <1>1 DEF Orderly, Survey, Claiming
<1>3. CASE op.known
  <2>1. /\ op' = [op EXCEPT !.at = "scan"] /\ outcome' = outcome /\ store' = store \ op.oem
        /\ node' = [b \in Boards |-> IF node[b] = "winusb" /\ \E c \in op.oem : c.model = Model[b]
                                     THEN "removed" ELSE node[b]]
    BY <1>3 DEF W!Delete, W!DeleteDriver, W!Goes
  <2>2. op' = [verb |-> "release", board |-> op.board, at |-> "scan", oem |-> op.oem, known |-> op.known]
    BY <1>2, <2>1 DEF Orderly, Survey
  <2>3. OneText => /\ Packages(op.board) \subseteq op.oem
                   /\ node[op.board] = "winusb" => Packages(op.board) # {}
    BY <1>1, <1>2, <1>3 DEF Orderly, Releasing, Freeing
  <2>4. OneText => node'[op.board] # "winusb" /\ Packages(op.board)' = {}
    BY <1>2, <2>1, <2>2, <2>3 DEF Packages
  <2>5. Survey'
    BY <1>2, <2>1, <2>2 DEF Orderly, Survey
  <2> QED  BY <2>2, <2>4, <2>5 DEF Orderly, Claiming, Releasing, Freeing
<1>4. CASE ~op.known
  <2>1. op' = W!NoOp /\ UNCHANGED <<node, store>>
    BY <1>4 DEF W!Delete, W!Ends
  <2> QED  BY <2>1 DEF W!NoOp, Orderly, Survey, Claiming, Releasing, Freeing
<1> QED  BY <1>3, <1>4

LEMMA ScanKeeps ==
  ASSUME Orderly, W!Scan
  PROVE  /\ Orderly' /\ outcome' \in {"claimed", "released"}
         /\ OneText /\ outcome' = "released" => node'[op.board] # "winusb"
         /\ \A b \in Boards : W!InTree(b) => node'[b] = node[b]
         /\ W!Usable \subseteq W!Usable'
<1>1. /\ op.at = "scan" /\ op' = W!NoOp /\ UNCHANGED <<store, off, moved, events>>
      /\ outcome' = IF op.verb = "claim" THEN "claimed" ELSE "released"
      /\ node' = [b \in Boards |-> IF node[b] = "removed" THEN W!Binding(b) ELSE node[b]]
  BY DEF W!Scan, W!Ends, W!ScanDevices
<1>2. op.verb \in {"claim", "release"} /\ op.board \in Boards
  BY <1>1 DEF Orderly, Survey
<1>3. Survey'
  BY <1>1, BindingIs DEF Orderly, Survey, W!NoOp
<1>4. OneText /\ op.verb = "release" => node'[op.board] # "winusb"
  BY <1>1, <1>2, BindingIs DEF Orderly, Releasing, Freeing
<1>5. \A b \in Boards : W!InTree(b) => node'[b] = node[b]
  BY <1>1 DEF W!InTree
<1>6. W!Usable \subseteq W!Usable'
  BY <1>1 DEF W!Usable
<1>7. op'.verb = "none"
  BY <1>1 DEF W!NoOp
<1> QED  BY <1>1, <1>2, <1>3, <1>4, <1>5, <1>6, <1>7 DEF Orderly, Claiming, Releasing, Freeing

LEMMA OrderlyStep ==
  ASSUME Orderly, [W!Next]_(W!vars)
  PROVE  /\ Orderly'
         /\ \/ UNCHANGED <<node, off>> /\ outcome' # "released" /\ (op.verb = "claim" => UNCHANGED moved)
            \/ UNCHANGED W!vars
            \/ moved' = TRUE /\ UNCHANGED outcome
            \/ op.verb # "claim" /\ outcome' # "released"
            \/ W!Add /\ UNCHANGED <<outcome, moved>>
            \/ W!Scan /\ UNCHANGED moved
<1>1. CASE UNCHANGED W!vars
  BY <1>1 DEF W!vars, Orderly, Survey, Claiming, Releasing, Freeing, Packages, W!Siblings, W!Usable, W!InTree
<1>2. ASSUME NEW b \in Boards, W!Plug(b) \/ W!Unplug(b) \/ W!Switch(b) \/ W!RollBack(b)
      PROVE  Orderly' /\ moved' = TRUE /\ UNCHANGED outcome
  BY <1>2, WorldOrderly DEF W!Plug, W!Unplug, W!Switch, W!RollBack, W!World
<1>3. ASSUME NEW b \in Boards, W!StartClaim(b) \/ \E force \in BOOLEAN : W!StartRelease(b, force)
      PROVE  Orderly' /\ UNCHANGED <<node, off>> /\ outcome' # "released" /\ op.verb # "claim"
  <2>1. op = W!NoOp /\ UNCHANGED <<node, off>> /\ outcome' = "none"
    BY <1>3 DEF W!StartClaim, W!StartRelease, W!Starts
  <2>2. op.verb = "none"
    BY <2>1 DEF W!NoOp
  <2> QED  BY <1>3, <2>1, <2>2, StartOrderly
<1>4. CASE W!Fails
  <2>1. op' = W!NoOp /\ outcome' = "failed" /\ UNCHANGED <<node, store, off, moved>>
    BY <1>4 DEF W!Fails, W!Ends
  <2> QED  BY <2>1 DEF W!NoOp, Orderly, Survey, Claiming, Releasing, Freeing
<1>5. CASE W!WriteInf
  <2>1. op.at = "inf" /\ op' = [op EXCEPT !.at = "add"] /\ UNCHANGED <<node, store, off, moved, outcome>>
    BY <1>5 DEF W!WriteInf, W!Goes
  <2>2. op.verb = "claim"
    BY <2>1 DEF Orderly, Survey, Releasing
  <2>3. op' = [verb |-> "claim", board |-> op.board, at |-> "add", oem |-> op.oem, known |-> op.known]
    BY <2>1, <2>2 DEF Orderly, Survey
  <2>4. W!Siblings(op.board)' = W!Siblings(op.board) /\ W!Usable' = W!Usable /\ op'.board = op.board
    BY <2>1, <2>3 DEF W!Siblings, W!Usable, W!InTree
  <2>5. outcome' = "none"
    BY <2>1, <2>2 DEF Orderly, Survey
  <2> QED  BY <2>1, <2>2, <2>3, <2>4, <2>5 DEF Orderly, Survey, Claiming, Releasing, Freeing
<1>6. CASE W!Add
  BY <1>6, AddTakesOne DEF W!Add, W!Goes
<1>7. CASE W!Enumerate
  <2>1. UNCHANGED <<node, off, outcome>> /\ op.at = "enum"
    BY <1>7 DEF W!Enumerate
  <2>2. outcome = "none" /\ op.verb # "claim"
    BY <2>1 DEF Orderly, Survey, Claiming
  <2> QED  BY <1>7, <2>1, <2>2, EnumerateOrderly
<1>8. CASE W!Remove \/ W!Delete
  <2>1. op.verb # "claim" /\ op.verb # "none"
    BY <1>8 DEF W!Remove, W!Delete, Orderly, Claiming, Survey
  <2>2. outcome' \in {outcome, "unconfirmed"} /\ outcome = "none"
    BY <1>8, <2>1 DEF W!Remove, W!Delete, W!Goes, W!Ends, Orderly, Survey
  <2> QED  BY <1>8, <2>1, <2>2, RemoveOrderly, DeleteOrderly
<1>9. CASE W!Scan
  BY <1>9, ScanKeeps DEF W!Scan, W!Ends
<1> QED  BY <1>1, <1>2, <1>3, <1>4, <1>5, <1>6, <1>7, <1>8, <1>9 DEF W!Next

LEMMA AlwaysOrderly == W!Spec => []Orderly
<1>1. W!Init => Orderly
  BY DEF W!Init, W!NoOp, Orderly, Survey, Claiming, Releasing, Freeing
<1> QED  BY <1>1, OrderlyStep, PTL DEF W!Spec

\* A claim takes the one board it was asked to take and leaves a keyboard that
\* types, as long as nothing moved since it looked (ClaimTakesOne), for any
\* boards, any hardware ids and any packages of earlier versions.
THEOREM ClaimsTakeOneBoard == W!Spec => ClaimTakesOne
<1>1. Orderly /\ [W!Next]_(W!vars) =>
        [op.verb = "claim" /\ ~moved' =>
           /\ \A b \in Boards \ {op.board} : W!InTree(b) => node'[b] = node[b]
           /\ W!Usable' # {}]_(W!vars)
  <2> SUFFICES ASSUME Orderly, [W!Next]_(W!vars), op.verb = "claim", ~moved', ~UNCHANGED W!vars
               PROVE  /\ \A b \in Boards \ {op.board} : W!InTree(b) => node'[b] = node[b]
                      /\ W!Usable' # {}
    OBVIOUS
  <2>1. \/ UNCHANGED <<node, off, moved>>
        \/ W!Add /\ UNCHANGED moved
        \/ W!Scan /\ UNCHANGED moved
    BY OrderlyStep
  <2>2. ~moved /\ W!Usable # {}
    BY <2>1 DEF Orderly, Claiming
  <2>3. CASE UNCHANGED <<node, off, moved>>
    BY <2>2, <2>3 DEF W!Usable
  <2>4. CASE W!Add
    BY <2>2, <2>4, AddTakesOne
  <2>5. CASE W!Scan
    BY <2>2, <2>5, ScanKeeps
  <2> QED  BY <2>1, <2>3, <2>4, <2>5
<1> QED  BY <1>1, AlwaysOrderly, PTL DEF W!Spec, W!ClaimTakesOne, ClaimTakesOne

\* A release that says so gave the board back (ReleaseTellsTruth), as long as a
\* model has one package.
THEOREM ReleasesTellTheTruth == ASSUME OneText PROVE W!Spec => ReleaseTellsTruth
<1>1. Orderly /\ [W!Next]_(W!vars) =>
        [op.at = "scan" /\ outcome' = "released" => node'[op.board] # "winusb"]_(W!vars)
  <2> SUFFICES ASSUME Orderly, [W!Next]_(W!vars), op.at = "scan", outcome' = "released",
                      ~UNCHANGED W!vars
               PROVE  node'[op.board] # "winusb"
    OBVIOUS
  <2>1. op.verb # "none" /\ outcome = "none"
    BY DEF Orderly, Survey
  <2>2. W!Scan
    BY <2>1, OrderlyStep
  <2> QED  BY <2>2, ScanKeeps
<1> QED  BY <1>1, AlwaysOrderly, PTL DEF W!Spec, W!ReleaseTellsTruth, ReleaseTellsTruth

-----------------------------------------------------------------------------
(* Game: a launched game, followed through a list of processes.             *)

\* A tracker that missed its game more often than snapshots failed missed a game
\* that was not there.
Followed ==
  /\ misses \in Nat /\ failures \in 0 .. MaxFailures /\ gap \in BOOLEAN
  /\ procs \in [Pids -> {"none", "game", "other"}]
  /\ state.at = "tracking" =>
       /\ state.pid \in Pids
       /\ G!Games(procs) = {} => gap
       /\ gap \/ misses <= failures

\* A snapshot that lists a game is the list, of which a game is one.
LEMMA SnapshotShows ==
  ASSUME MaxFailures \in Nat, Followed, NEW seen,
         seen \in {procs, [p \in Pids |-> "none"]}, G!Snapshot(seen)
  PROVE  /\ failures' \in 0 .. MaxFailures
         /\ \A p \in Pids : seen[p] # "none" => seen = procs
         /\ G!Games(seen) # {} => seen = procs
         /\ seen = procs \/ failures' = failures + 1
BY DEF G!Snapshot, G!Games, Followed

LEMMA LatchFollows ==
  ASSUME Followed, NEW seen, G!Games(seen) # {} => seen = procs, failures' \in 0 .. MaxFailures,
         MaxFailures \in Nat, UNCHANGED procs, G!Latch(seen)
  PROVE  Followed' /\ state'.at = "tracking"
<1>1. PICK p \in G!Games(seen) : state' = [at |-> "tracking", pid |-> p]
  BY DEF G!Latch, G!Following
<1>2. misses' = 0 /\ gap' = FALSE /\ G!Games(procs') # {} /\ p \in Pids
  BY <1>1 DEF G!Latch, G!Games
<1>3. state'.at = "tracking" /\ state'.pid = p /\ misses' <= failures' /\ misses' \in Nat
  BY <1>1, <1>2
<1> QED  BY <1>2, <1>3 DEF Followed

LEMMA HuntFollows ==
  ASSUME Followed, NEW seen, NEW time, G!Games(seen) # {} => seen = procs,
         failures' \in 0 .. MaxFailures, MaxFailures \in Nat, UNCHANGED procs, G!Hunt(seen, time)
  PROVE  Followed' /\ state'.at # "exited"
<1>1. CASE G!Latch(seen)
  BY <1>1, LatchFollows
<1>2. CASE UNCHANGED <<gap, misses>> /\ state' \in {G!At("unresolvable"), G!At("handoff")}
  BY <1>2 DEF Followed, G!At
<1> QED  BY <1>1, <1>2 DEF G!Hunt, G!GiveUp

LEMMA TrackingFollows ==
  ASSUME MaxFailures \in Nat, Confirmations \in Nat, MaxFailures < Confirmations,
         Followed, G!PollTracking
  PROVE  Followed' /\ (state'.at = "exited" => gap)
<1>1. PICK seen \in {procs, [p \in Pids |-> "none"]} :
        /\ G!Snapshot(seen)
        /\ \/ /\ seen[state.pid] # "none"
              /\ misses' = 0 /\ gap' = (seen[state.pid] # "game" /\ gap)
              /\ UNCHANGED state
           \/ G!Latch(seen)
           \/ G!Games(seen) = {} /\ G!Miss /\ UNCHANGED gap
  BY DEF G!PollTracking
<1>2. state.at = "tracking" /\ state.pid \in Pids /\ UNCHANGED procs
  BY DEF G!PollTracking, G!world, Followed
<1>3. /\ failures' \in 0 .. MaxFailures
      /\ seen[state.pid] # "none" => seen = procs
      /\ G!Games(seen) # {} => seen = procs
      /\ seen = procs \/ failures' = failures + 1
  BY <1>1, <1>2, SnapshotShows
<1>4. CASE seen[state.pid] # "none" /\ misses' = 0 /\ gap' = (seen[state.pid] # "game" /\ gap)
           /\ UNCHANGED state
  <2>1. gap' \in BOOLEAN /\ (~gap' => state.pid \in G!Games(procs) \/ ~gap)
    BY <1>2, <1>3, <1>4 DEF G!Games
  <2>2. G!Games(procs)' = G!Games(procs)
    BY <1>2 DEF G!Games
  <2>3. G!Games(procs) = {} => gap'
    BY <1>2, <1>3, <1>4, <2>1 DEF Followed, G!Games
  <2> QED  BY <1>2, <1>3, <1>4, <2>1, <2>2, <2>3 DEF Followed
<1>5. CASE G!Latch(seen)
  BY <1>2, <1>3, <1>5, LatchFollows
<1>6. CASE G!Games(seen) = {} /\ G!Miss /\ UNCHANGED gap
  <2>1. /\ misses' = misses + 1
        /\ state' = IF misses + 1 >= Confirmations THEN G!At("exited") ELSE state
    BY <1>6 DEF G!Miss
  <2>2. gap \/ misses' <= failures'
    BY <1>2, <1>3, <1>6, <2>1 DEF Followed
  <2>3. state'.at = "exited" => gap
    BY <1>2, <1>3, <2>1, <2>2
  <2>4. G!Games(procs)' = G!Games(procs)
    BY <1>2 DEF G!Games
  <2> QED  BY <1>2, <1>3, <1>6, <2>1, <2>2, <2>3, <2>4 DEF Followed, G!At
<1> QED  BY <1>1, <1>4, <1>5, <1>6

LEMMA FollowedStep ==
  ASSUME MaxFailures \in Nat, Confirmations \in Nat, MaxFailures < Confirmations,
         Followed, [G!Next]_(G!vars)
  PROVE  Followed' /\ (state.at = "tracking" /\ state'.at = "exited" => gap)
<1>1. CASE UNCHANGED <<state, misses, failures, gap, procs>>
  BY <1>1 DEF Followed, G!Games
<1>2. ASSUME NEW p \in Pids, G!Exit(p) PROVE Followed' /\ UNCHANGED state
  <2>1. /\ procs' = [procs EXCEPT ![p] = "none"] /\ gap' = (gap \/ G!Games(procs') = {})
        /\ UNCHANGED <<state, misses, failures>>
    BY <1>2 DEF G!Exit, G!tracker
  <2> QED  BY <2>1 DEF Followed
<1>3. ASSUME NEW p \in Pids, NEW name \in {"game", "other"}, G!Spawn(p, name)
      PROVE  Followed' /\ UNCHANGED state
  <2>1. /\ procs[p] = "none" /\ procs' = [procs EXCEPT ![p] = name]
        /\ UNCHANGED <<state, misses, failures, gap>>
    BY <1>3 DEF G!Spawn, G!tracker, G!Free
  <2>2. G!Games(procs) \subseteq G!Games(procs')
    BY <2>1 DEF G!Games, Followed
  <2> QED  BY <2>1, <2>2 DEF Followed
<1>4. ASSUME NEW p \in Pids, NEW name \in {"game", "other"}, G!StartExecutable(p, name)
      PROVE  Followed' /\ state'.at = "running"
  <2>1. /\ procs' = [procs EXCEPT ![p] = name] /\ state' = [at |-> "running", pid |-> 0]
        /\ misses' = 0 /\ UNCHANGED <<failures, gap>>
    BY <1>4 DEF G!StartExecutable, G!At
  <2> QED  BY <2>1 DEF Followed
<1>5. CASE G!StartProtocol
  <2>1. /\ state' \in {G!At("handoff"), G!At("unresolvable")} /\ misses' = 0
        /\ UNCHANGED <<failures, gap, procs>>
    BY <1>5 DEF G!StartProtocol, G!GiveUp, G!world
  <2> QED  BY <2>1 DEF Followed, G!At
<1>6. CASE G!PollRunning
  <2>1. PICK seen \in {procs, [p \in Pids |-> "none"]} :
          /\ G!Snapshot(seen)
          /\ \/ G!Hunt(seen, 0)
             \/ state' \in {G!At("exited"), G!At("unresolvable")} /\ UNCHANGED <<gap, misses>>
    BY <1>6 DEF G!PollRunning, G!GiveUp
  <2>2. state.at = "running" /\ UNCHANGED procs
    BY <1>6 DEF G!PollRunning, G!world
  <2>3. failures' \in 0 .. MaxFailures /\ (G!Games(seen) # {} => seen = procs)
    BY <2>1, SnapshotShows
  <2>4. CASE G!Hunt(seen, 0)
    BY <2>2, <2>3, <2>4, HuntFollows
  <2>5. CASE state' \in {G!At("exited"), G!At("unresolvable")} /\ UNCHANGED <<gap, misses>>
    BY <2>2, <2>3, <2>5 DEF Followed, G!At
  <2> QED  BY <2>1, <2>2, <2>4, <2>5
<1>7. CASE G!PollHandoff
  <2>1. PICK seen \in {procs, [p \in Pids |-> "none"]} : G!Snapshot(seen) /\ G!Hunt(seen, hunt)
    BY <1>7 DEF G!PollHandoff
  <2>2. UNCHANGED procs
    BY <1>7 DEF G!PollHandoff, G!world
  <2>3. failures' \in 0 .. MaxFailures /\ (G!Games(seen) # {} => seen = procs)
    BY <2>1, SnapshotShows
  <2> QED  BY <2>1, <2>2, <2>3, HuntFollows
<1>8. CASE G!PollTracking
  BY <1>8, TrackingFollows
<1>9. G!Pass \/ G!PollGivenUp \/ UNCHANGED G!vars => UNCHANGED <<state, misses, failures, gap, procs>>
  BY DEF G!Pass, G!PollGivenUp, G!vars, G!world, G!tracker
<1> QED  BY <1>1, <1>2, <1>3, <1>4, <1>5, <1>6, <1>7, <1>8, <1>9 DEF G!Next, G!Poll

\* Only a hunt that has had its grace is given up, and not if it can see a game.
LEMMA HuntsLast ==
  ASSUME MaxFailures \in Nat, Grace \in Nat \ {0}, Followed, [G!Next]_(G!vars), named,
         state.at # "unresolvable", state'.at = "unresolvable"
  PROVE  state.at = "handoff" /\ hunt >= Grace /\ (G!GameRuns => failures' > 0)
<1>1. state' # state
  OBVIOUS
<1>2. ASSUME NEW seen, G!Snapshot(seen), G!Games(seen) = {}, G!GameRuns
      PROVE  failures' > 0
  <2>1. seen # procs
    BY <1>2 DEF G!GameRuns
  <2>2. failures \in Nat /\ failures' = failures + 1
    BY <1>2, <2>1 DEF Followed, G!Snapshot
  <2> QED  BY <2>2
<1>3. CASE G!PollHandoff
  <2>1. PICK seen : G!Snapshot(seen) /\ G!Hunt(seen, hunt)
    BY <1>3 DEF G!PollHandoff
  <2>2. ~G!Latch(seen) /\ state' # G!At("handoff")
    BY DEF G!Latch, G!Following, G!At
  <2>3. G!Games(seen) = {} /\ hunt >= Grace
    BY <2>1, <2>2 DEF G!Hunt
  <2> QED  BY <1>2, <1>3, <2>1, <2>3 DEF G!PollHandoff
<1>4. CASE G!PollRunning
  <2>1. \E seen : G!Hunt(seen, 0) \/ state' = G!At("exited")
    BY <1>4 DEF G!PollRunning
  <2>2. state' # G!At("exited") /\ state' # G!At("handoff") /\ \A p : state' # G!Following(p)
    BY DEF G!Following, G!At
  <2> QED  BY <2>1, <2>2 DEF G!Hunt, G!Latch
<1>5. CASE G!PollTracking
  <2>1. \/ state' = state
        \/ \E seen : G!Latch(seen)
        \/ G!Miss
    BY <1>5 DEF G!PollTracking
  <2> QED  BY <1>1, <2>1 DEF G!Latch, G!Miss, G!Following, G!At
<1>6. CASE G!PollGivenUp
  BY <1>6 DEF G!PollGivenUp
<1>7. ASSUME NEW p \in Pids, NEW name, G!StartExecutable(p, name)
      PROVE  FALSE
  BY <1>7 DEF G!StartExecutable, G!At
<1>8. CASE G!StartProtocol
  BY <1>8 DEF G!StartProtocol, G!At
<1>9. ASSUME NEW p \in Pids, NEW name, G!Exit(p) \/ G!Spawn(p, name)
      PROVE  FALSE
  BY <1>1, <1>9 DEF G!Exit, G!Spawn, G!tracker
<1>10. CASE G!Pass
  BY <1>1, <1>10 DEF G!Pass
<1> QED  BY <1>1, <1>3, <1>4, <1>5, <1>6, <1>7, <1>8, <1>9, <1>10
  DEF G!Next, G!Poll, G!vars, G!tracker

\* "One empty result must never end a session" (NoFalseEnd), nor do as many
\* failed snapshots as come in a row, as long as they are fewer than the
\* confirmations, and a hunt lasts its grace: for any process table and any order
\* of its changes.
THEOREM NoSessionEndsFalsely ==
  ASSUME MaxFailures \in Nat, Confirmations \in Nat, MaxFailures < Confirmations,
         Grace \in Nat \ {0}
  PROVE  G!Spec => NoFalseEnd
<1>1. G!Init => Followed
  BY DEF G!Init, Followed, G!At
<1>2. Followed /\ [G!Next]_(G!vars) =>
        /\ Followed'
        /\ [/\ state.at = "tracking" /\ state'.at = "exited" => gap
            /\ named /\ state.at # "unresolvable" /\ state'.at = "unresolvable" =>
                 /\ state.at = "handoff" /\ hunt >= Grace
                 /\ G!GameRuns => failures' > 0]_(G!vars)
  BY FollowedStep, HuntsLast
<1> QED  BY <1>1, <1>2, PTL DEF G!Spec, G!NoFalseEnd, NoFalseEnd

-----------------------------------------------------------------------------
(* Control: the loop that owns the session, the pipe, the tray, the files.  *)

Stage(at, why, plan) == loop = [at |-> at, why |-> why, plan |-> plan]

\* The panel goes with the session wherever the loop is; a loop that makes one
\* has muted it already.
Muted ==
  /\ Stage(loop.at, loop.why, loop.plan)
  /\ loop.at \in {"idle", "make", "spawn", "restart", "door", "join", "gone"}
  /\ loop.at \in {"idle", "gone", "join"} => (panel <=> session # {})
  /\ loop.at \in {"make", "spawn"} => panel /\ session = {}
  /\ loop.at = "restart" => session = {}
  /\ loop.at = "join" => loop.why \in {"stop", "quit", "reload", "apply"}
  /\ loop.at = "door" => panel /\ session # {}

LEMMA SessionMuted ==
  ASSUME Muted, C!GoLive \/ C!End PROVE Muted'
<1>1. session # {} /\ session' # {} /\ UNCHANGED <<loop, panel>>
  BY DEF C!GoLive, C!End, C!SessionOnly
<1> QED  BY <1>1 DEF Muted, Stage

LEMMA CommandMuted ==
  ASSUME Muted, \/ C!Start \/ C!PlayStaged \/ C!Stop \/ C!Quit \/ C!Reload \/ C!ApplyBindings
  PROVE  Muted'
<1>1. loop.at = "idle" /\ (panel <=> session # {})
  BY DEF C!Start, C!PlayStaged, C!Stop, C!Quit, C!Reload, C!ApplyBindings, C!Takes, Muted
<1>2. \/ UNCHANGED <<loop, session, panel>>
      \/ \E why : session = {} /\ C!Mute(why)
      \/ \E why \in {"stop", "quit", "reload"} : C!Halts(why)
      \/ /\ session # {} /\ UNCHANGED <<session, panel>>
         /\ loop' = [C!Rest EXCEPT !.at = "door", !.why = "apply", !.plan = C!Resolved]
  BY DEF C!Start, C!PlayStaged, C!Stop, C!Quit, C!Reload, C!ApplyBindings, C!Ignores, C!control
<1>3. CASE UNCHANGED <<loop, session, panel>>
  BY <1>3 DEF Muted, Stage
<1>4. ASSUME NEW why, session = {}, C!Mute(why) PROVE Muted'
  <2>1. /\ loop' = [at |-> "make", why |-> why, plan |-> {}]
        /\ panel' = TRUE /\ session' = {}
    BY <1>4 DEF C!Mute, C!Rest
  <2> QED  BY <2>1 DEF Muted, Stage
<1>5. ASSUME NEW why \in {"stop", "quit", "reload"}, C!Halts(why) PROVE Muted'
  <2>1. /\ loop' = [at |-> "join", why |-> why, plan |-> {}]
        /\ session' = {[s EXCEPT !.stop = TRUE] : s \in session} /\ panel' = panel
    BY <1>5 DEF C!Halts, C!StopFlag, C!Rest
  <2>2. session' # {} <=> session # {}
    BY <2>1
  <2> QED  BY <1>1, <2>1, <2>2 DEF Muted, Stage
<1>6. CASE /\ session # {} /\ UNCHANGED <<session, panel>>
           /\ loop' = [C!Rest EXCEPT !.at = "door", !.why = "apply", !.plan = C!Resolved]
  <2>1. loop' = [at |-> "door", why |-> "apply", plan |-> C!Resolved]
    BY <1>6 DEF C!Rest
  <2> QED  BY <1>1, <1>6, <2>1 DEF Muted, Stage
<1> QED  BY <1>2, <1>3, <1>4, <1>5, <1>6

LEMMA SpawnMuted ==
  ASSUME Muted, C!Make \/ C!Spawn \/ C!Restart PROVE Muted'
<1>1. CASE C!Restart
  <2>1. /\ loop' = [at |-> "make", why |-> loop.why, plan |-> {}]
        /\ panel' = TRUE /\ session' = session /\ loop.at = "restart"
    BY <1>1 DEF C!Restart, C!Mute, C!Rest
  <2> QED  BY <2>1 DEF Muted, Stage
<1>2. CASE C!NotStarted
  <2>1. loop' = [at |-> "idle", why |-> "none", plan |-> {}] /\ panel' = FALSE /\ session' = {}
    BY <1>2 DEF C!NotStarted, C!Rest
  <2> QED  BY <2>1 DEF Muted, Stage
<1>3. CASE C!Make /\ ~C!NotStarted
  <2>1. /\ loop' = [loop EXCEPT !.at = "spawn", !.plan = C!Resolved] /\ loop.at = "make"
        /\ UNCHANGED <<panel, session>>
    BY <1>3 DEF C!Make
  <2> QED  BY <2>1 DEF Muted, Stage
<1>4. CASE C!Spawn /\ ~C!NotStarted
  <2>1. /\ loop' = [at |-> "idle", why |-> "none", plan |-> {}] /\ loop.at = "spawn"
        /\ session' # {} /\ panel' = panel
    BY <1>4 DEF C!Spawn, C!Rest
  <2> QED  BY <2>1 DEF Muted, Stage
<1> QED  BY <1>1, <1>2, <1>3, <1>4 DEF C!Make, C!Spawn

LEMMA EndMuted ==
  ASSUME Muted, C!Reap \/ C!Join \/ C!Door PROVE Muted'
<1>1. CASE C!Reap
  <2>1. loop' = loop /\ loop.at = "idle" /\ session' = {} /\ panel' = FALSE
    BY <1>1 DEF C!Reap, C!Reaped
  <2> QED  BY <2>1 DEF Muted, Stage
<1>2. CASE C!Join
  <2>1. loop.at = "join" /\ loop.why \in {"stop", "quit", "reload", "apply"}
    BY <1>2 DEF C!Join, Muted
  <2>2. \/ loop' = [loop EXCEPT !.at = "restart"]
        \/ panel' = FALSE /\ loop' = [at |-> "idle", why |-> "none", plan |-> {}]
        \/ panel' = FALSE /\ loop' = [at |-> "gone", why |-> "none", plan |-> {}]
    BY <1>2, <2>1 DEF C!Join, C!Rest
  <2>3. session' = {}
    BY <1>2, <2>1 DEF C!Join, C!Reaped
  <2> QED  BY <2>1, <2>2, <2>3 DEF Muted, Stage
<1>3. CASE C!Door
  <2>1. loop.at = "door" /\ session # {} /\ panel' = panel
        /\ (session' # {} \/ C!StopFlag)
    BY <1>3 DEF C!Door, C!Swaps
  <2>3. session' # {}
    BY <2>1 DEF C!StopFlag
  <2>2. \/ loop' = [at |-> "idle", why |-> "none", plan |-> {}]
        \/ loop' = [at |-> "join", why |-> "apply", plan |-> {}]
    BY <1>3 DEF C!Door, C!Rest
  <2> QED  BY <2>1, <2>2, <2>3 DEF Muted, Stage
<1> QED  BY <1>1, <1>2, <1>3

LEMMA MutedStep == Muted /\ [C!Next]_(C!vars) => Muted'
<1> SUFFICES ASSUME Muted, [C!Next]_(C!vars) PROVE Muted'
  OBVIOUS
<1>1. CASE UNCHANGED C!vars
  BY <1>1 DEF C!vars, C!control, Muted, Stage
<1>2. CASE C!Tray \/ C!Pipe
  <2>1. UNCHANGED <<loop, session, panel>>
    BY <1>2 DEF C!Tray, C!Pipe, C!Ask, C!Write, C!Look, C!Send, C!Poll, C!GiveUp, C!PipeOnly, C!control
  <2> QED  BY <2>1 DEF Muted, Stage
<1>3. CASE C!Loop
  BY <1>3, CommandMuted, SpawnMuted, EndMuted DEF C!Loop
<1> QED  BY <1>1, <1>2, <1>3, SessionMuted DEF C!Next

\* The panel is a keyboard whenever no session has it, and is muted while one
\* does (PanelFollows): after every way a start, a restart or an end can go.
THEOREM ThePanelFollows == C!Spec => []PanelFollows
<1>1. C!Init => Muted
  BY DEF C!Init, C!Rest, Muted, Stage
<1>2. Muted => PanelFollows
  BY DEF Muted, PanelFollows, C!PanelFollows
<1> QED  BY <1>1, <1>2, MutedStep, PTL DEF C!Spec

-----------------------------------------------------------------------------
(* What a write that is reported applied is worth.                          *)

Setups == [version : {0}, shape : Shapes, staged : {TRUE}]
Commands == [verb : {"start", "stop", "reload", "quit", "play", "apply"}, arg : SUBSET Setups]

\* The request's write is in a plan, or it is the one set up by hand.
Has(p) == p.staged \/ p.version >= request.needs

\* Loaded now, a plan has whatever was written.
Current(p) == p.staged \/ p.version = disk.version

Shaped ==
  /\ queue \in Seq(Commands) /\ staged \in SUBSET Setups
  /\ disk.version \in Nat /\ generation \in Nat /\ report.gen \in Nat
  /\ loop = [at |-> loop.at, why |-> loop.why, plan |-> loop.plan]
  /\ loop.why = "apply" => loop.at \in {"door", "join", "restart", "make", "spawn"}
  /\ loop.at = "door" => loop.why = "apply"
  /\ request = [verb |-> request.verb, at |-> request.at, base |-> request.base,
                gen |-> request.gen, saw |-> request.saw, needs |-> request.needs]
  /\ request.at # "idle" => request.verb \in {"start", "stop", "reload", "play", "map", "assign"}
  /\ request.needs \in Nat /\ request.gen \in Nat /\ request.needs <= disk.version
  /\ \A s \in session : s = [plan |-> s.plan, at |-> s.at, stop |-> s.stop]

\* A write's command waits, and only one.
Applying == \E i \in DOMAIN queue : queue[i].verb = "apply"
OneWaits == \A i, j \in DOMAIN queue : queue[i].verb = "apply" /\ queue[j].verb = "apply" => i = j

\* A write's command is queued or being done for the one request that waits for
\* it, and its report has not come.
Awaited ==
  /\ OneWaits
  /\ loop.why = "apply" \/ Applying =>
       request.verb = "map" /\ request.at = "poll" /\ report.gen <= request.gen
  /\ loop.why = "apply" => ~Applying
  /\ request.verb = "map" /\ request.at = "send" => report.gen <= request.gen

\* What was loaded for it has the write, and so has what runs once it is reported.
Reported == /\ request.verb = "map" /\ request.at = "poll" /\ report.gen > request.gen
            /\ report.ok /\ (report.hot \/ report.restarted)

Live ==
  /\ loop.why = "apply" \/ Reported => \A p \in loop.plan : Has(p)
  /\ Reported => \A s \in session : Has(s.plan)

Served == Shaped /\ (~late => Awaited /\ Live)

LEMMA Loaded == ASSUME Shaped PROVE \A p \in C!Resolved : Current(p)
<1> SUFFICES ASSUME NEW p \in C!Resolved PROVE Current(p)
  OBVIOUS
<1>1. CASE staged # {}
  <2>1. p.staged = TRUE
    BY <1>1 DEF C!Resolved, Shaped, Setups
  <2> QED  BY <2>1 DEF Current
<1>2. CASE staged = {}
  BY <1>2 DEF C!Resolved, Current
<1> QED  BY <1>1, <1>2

LEMMA CurrentHas == ASSUME Shaped, NEW p, Current(p) PROVE Has(p)
BY DEF Shaped, Current, Has

LEMMA CommandTaken ==
  ASSUME Shaped, NEW verb, C!Takes(verb)
  PROVE  /\ queue' \in Seq(Commands) /\ Head(queue) \in Commands /\ loop.at = "idle"
         /\ UNCHANGED <<request, disk, late>>
         /\ verb = "apply" => Applying
         /\ Applying' => Applying
         /\ OneWaits => OneWaits' /\ (verb = "apply" => ~Applying')
<1>1. /\ loop.at = "idle" /\ queue # <<>> /\ Head(queue).verb = verb /\ queue' = Tail(queue)
      /\ UNCHANGED <<request, disk, late>>
  BY DEF C!Takes
<1>2. queue \in Seq(Commands)
  BY DEF Shaped
<1>3. /\ queue' \in Seq(Commands) /\ Head(queue) = queue[1] /\ 1 \in DOMAIN queue
      /\ Head(queue) \in Commands
  BY <1>1, <1>2
<1>4. \A i \in DOMAIN queue' : /\ i \in Nat /\ i + 1 \in DOMAIN queue /\ i + 1 # 1
                               /\ queue'[i] = queue[i + 1]
  BY <1>1, <1>2
<1>5. OneWaits => OneWaits'
  BY <1>4 DEF OneWaits
<1>6. OneWaits /\ verb = "apply" => ~Applying'
  BY <1>1, <1>3, <1>4 DEF OneWaits, Applying
<1> QED  BY <1>1, <1>3, <1>4, <1>5, <1>6 DEF Applying

LEMMA CommandSent ==
  ASSUME Shaped, NEW verb \in {"start", "stop", "reload", "quit", "play", "apply"},
         NEW arg \in SUBSET Setups, C!Sends(verb, arg)
  PROVE  /\ queue' \in Seq(Commands)
         /\ verb # "apply" => (Applying' => Applying) /\ (OneWaits => OneWaits')
         /\ ~Applying => OneWaits'
<1>1. queue' = Append(queue, [verb |-> verb, arg |-> arg]) /\ queue \in Seq(Commands)
  BY DEF C!Sends, Shaped
<1>2. [verb |-> verb, arg |-> arg] \in Commands
  BY DEF Commands
<1>3. /\ queue' \in Seq(Commands)
      /\ \A i \in DOMAIN queue' : \/ i \in DOMAIN queue /\ queue'[i] = queue[i]
                                  \/ i = Len(queue) + 1 /\ queue'[i] = [verb |-> verb, arg |-> arg]
  BY <1>1, <1>2
<1> QED  BY <1>3 DEF Applying, OneWaits

\* A step that reports nothing and loads what is current, or nothing.
LEMMA QuietServed ==
  ASSUME Served, Shaped', UNCHANGED <<request, disk, late, report>>,
         Applying' => Applying, OneWaits => OneWaits',
         loop'.why = "apply" => loop.why = "apply",
         \A p \in loop'.plan : p \in loop.plan \/ Current(p),
         \A s \in session' : \/ \E r \in session : s.plan = r.plan
                             \/ s.plan \in loop.plan \/ Current(s.plan)
  PROVE  Served'
<1>1. Awaited => Awaited'
  BY DEF Awaited
<1>2. \A p : Current(p) => Has(p)
  BY CurrentHas DEF Served
<1>3. \A p : Has(p)' <=> Has(p)
  BY DEF Has
<1>4. Reported' <=> Reported
  BY DEF Reported
<1>5. Live => Live'
  BY <1>2, <1>3, <1>4 DEF Live
<1> QED  BY <1>1, <1>5 DEF Served

\* The loop is done with a write's command and reports.
LEMMA ReportServed ==
  ASSUME Served, Shaped', UNCHANGED <<request, disk, late, queue>>,
         loop.why = "apply", loop'.why # "apply", loop'.plan = {},
         report'.ok => \A s \in session' : s.plan \in loop.plan
  PROVE  Served'
<1> SUFFICES ASSUME ~late PROVE Awaited' /\ Live'
  BY DEF Served
<1>1. /\ ~Applying /\ OneWaits /\ request.at = "poll" /\ \A p \in loop.plan : Has(p)
  BY DEF Served, Awaited, Live
<1>2. ~Applying' /\ OneWaits'
  BY <1>1 DEF Applying, OneWaits
<1>3. \A p : Has(p)' <=> Has(p)
  BY DEF Has
<1> QED  BY <1>1, <1>2, <1>3 DEF Awaited, Live, Reported

LEMMA SessionServed == ASSUME Served, C!GoLive \/ C!End PROVE Served'
<1>1. /\ UNCHANGED <<report, loop, queue, staged, generation, request, disk, late>>
      /\ \E s \in session : session' \in {{[s EXCEPT !.at = "live"]}, {[s EXCEPT !.at = "over"]}}
  BY DEF C!GoLive, C!End, C!SessionOnly, C!state
<1>2. \A s \in session' : \E r \in session : s = [plan |-> r.plan, at |-> s.at, stop |-> r.stop]
  BY <1>1 DEF Served, Shaped
<1>3. Shaped'
  BY <1>1, <1>2 DEF Served, Shaped
<1> QED  BY <1>1, <1>2, <1>3, QuietServed DEF Applying, OneWaits

LEMMA CommandServed ==
  ASSUME Served, C!Start \/ C!PlayStaged \/ C!Stop \/ C!Quit \/ C!Reload
  PROVE  Served'
<1>1. PICK verb : C!Takes(verb)
  BY DEF C!Start, C!PlayStaged, C!Stop, C!Quit, C!Reload
<1>2. /\ queue' \in Seq(Commands) /\ Head(queue) \in Commands /\ loop.at = "idle"
      /\ UNCHANGED <<request, disk, late>> /\ (Applying' => Applying)
      /\ OneWaits => OneWaits'
  BY <1>1, CommandTaken DEF Served
<1>3. /\ UNCHANGED <<report, generation>> /\ staged' \in {staged, {}, Head(queue).arg}
      /\ \/ UNCHANGED <<loop, session>>
         \/ \E why \in {"start", "play"} : C!Mute(why)
         \/ \E why \in {"stop", "quit", "reload"} : C!Halts(why)
  BY DEF C!Start, C!PlayStaged, C!Stop, C!Quit, C!Reload, C!Ignores, C!Mute, C!Halts,
         C!state, C!control
<1>4. \/ loop' = loop
      \/ loop'.plan = {} /\ loop'.why # "apply" /\ loop'.at # "door"
         /\ loop' = [at |-> loop'.at, why |-> loop'.why, plan |-> loop'.plan]
  BY <1>3 DEF C!Mute, C!Halts, C!Rest
<1>5. \/ session' = session
      \/ session' = {[s EXCEPT !.stop = TRUE] : s \in session}
  BY <1>3 DEF C!Mute, C!Halts, C!StopFlag
<1>6. \A s \in session' : /\ s = [plan |-> s.plan, at |-> s.at, stop |-> s.stop]
                          /\ \E r \in session : s.plan = r.plan
  BY <1>5 DEF Served, Shaped
<1>7. staged' \in SUBSET Setups
  BY <1>2, <1>3 DEF Served, Shaped, Commands
<1>8. Shaped'
  BY <1>2, <1>3, <1>4, <1>6, <1>7 DEF Served, Shaped
<1> QED  BY <1>2, <1>3, <1>4, <1>6, <1>8, QuietServed

LEMMA ApplyServed == ASSUME Served, C!ApplyBindings PROVE Served'
<1>1. C!Takes("apply")
  BY DEF C!ApplyBindings
<1>2. /\ queue' \in Seq(Commands) /\ loop.at = "idle" /\ Applying
      /\ UNCHANGED <<request, disk, late, session, staged>>
      /\ OneWaits => OneWaits' /\ ~Applying'
  BY <1>1, CommandTaken DEF Served, C!ApplyBindings
<1>3. generation' \in Nat /\ generation' = generation + 1 /\ loop.why # "apply"
  BY <1>2 DEF C!ApplyBindings, Served, Shaped
<1>4. CASE report' = [C!NoReport EXCEPT !.gen = generation', !.ok = session = {}] /\ loop' = loop
  <2>1. report'.gen = generation' /\ report'.hot = FALSE /\ report'.restarted = FALSE
    BY <1>4 DEF C!NoReport
  <2>2. Shaped'
    BY <1>2, <1>3, <1>4, <2>1 DEF Served, Shaped
  <2>3. ~Reported'
    BY <2>1 DEF Reported
  <2>4. ~late => Awaited'
    BY <1>2, <1>3, <1>4 DEF Served, Awaited
  <2> QED  BY <1>2, <1>3, <1>4, <2>2, <2>3, <2>4 DEF Served, Live
<1>5. CASE /\ loop' = [C!Rest EXCEPT !.at = "door", !.why = "apply", !.plan = C!Resolved]
           /\ report' = report
  <2>1. loop' = [at |-> "door", why |-> "apply", plan |-> C!Resolved]
    BY <1>5 DEF C!Rest
  <2>2. Shaped'
    BY <1>2, <1>3, <1>5, <2>1 DEF Served, Shaped
  <2>3. \A p : Current(p) => Has(p)
    BY CurrentHas DEF Served
  <2>4. \A p \in loop'.plan : Has(p)
    BY <2>1, <2>3, Loaded DEF Served
  <2>5. (\A p : Has(p)' <=> Has(p)) /\ (Reported' <=> Reported)
    BY <1>2, <1>5 DEF Has, Reported
  <2>6. ~late => Awaited'
    BY <1>2, <1>5, <2>1 DEF Served, Awaited
  <2> QED  BY <1>2, <2>2, <2>4, <2>5, <2>6 DEF Served, Live
<1> QED  BY <1>4, <1>5 DEF C!ApplyBindings

LEMMA ReapServed == ASSUME Muted, Served, C!Reap \/ C!Join \/ C!Restart PROVE Served'
<1>1. UNCHANGED <<report, queue, staged, generation, request, disk, late>>
  BY DEF C!Reap, C!Join, C!Restart, C!Mute
<1>2. C!Join => loop.at = "join" /\ loop.why \in {"stop", "quit", "reload", "apply"}
  BY DEF C!Join, Muted
<1>3. \/ loop' = loop
      \/ loop' = [at |-> "restart", why |-> loop.why, plan |-> loop.plan]
      \/ loop' = [at |-> "make", why |-> loop.why, plan |-> {}]
      \/ loop' = [at |-> "idle", why |-> "none", plan |-> {}]
      \/ loop' = [at |-> "gone", why |-> "none", plan |-> {}]
  BY <1>2 DEF C!Reap, C!Join, C!Restart, C!Mute, C!Rest, Served, Shaped
<1>4. session' \in {session, {}}
  BY <1>2 DEF C!Reap, C!Join, C!Restart, C!Mute, C!Reaped
<1>5. loop'.plan \in {loop.plan, {}} /\ loop'.why \in {loop.why, "none"}
  BY <1>3
<1>6. loop' = [at |-> loop'.at, why |-> loop'.why, plan |-> loop'.plan]
  BY <1>3 DEF Served, Shaped
<1>7. loop' = loop \/ loop'.at \in {"restart", "make"} \/ (loop'.why = "none" /\ loop'.at # "door")
  BY <1>3
<1>8. Shaped'
  BY <1>1, <1>4, <1>5, <1>6, <1>7 DEF Served, Shaped
<1> QED  BY <1>1, <1>4, <1>5, <1>8, QuietServed DEF Applying, OneWaits

\* A start that came to nothing.
LEMMA NotStartedServed ==
  ASSUME Served, C!NotStarted, UNCHANGED <<queue, generation, request, disk, late>>
  PROVE  Served'
<1>1. /\ session' = {} /\ loop' = [at |-> "idle", why |-> "none", plan |-> {}]
      /\ staged' \in {staged, {}}
      /\ IF loop.why = "apply" THEN C!Reports(FALSE, FALSE, FALSE) ELSE report' = report
  BY DEF C!NotStarted, C!Rest, C!AfterStart
<1>2. CASE loop.why # "apply"
  <2>1. Shaped'
    BY <1>1, <1>2 DEF Served, Shaped
  <2> QED  BY <1>1, <1>2, <2>1, QuietServed DEF Applying, OneWaits
<1>3. CASE loop.why = "apply"
  <2>1. report'.gen = generation /\ ~report'.ok
    BY <1>1, <1>3 DEF C!Reports
  <2>2. Shaped'
    BY <1>1, <2>1 DEF Served, Shaped
  <2> QED  BY <1>1, <1>3, <2>1, <2>2, ReportServed
<1> QED  BY <1>2, <1>3

LEMMA MakeServed == ASSUME Served, C!Make PROVE Served'
<1>1. loop.at = "make" /\ UNCHANGED <<queue, generation, request, disk, late>>
  BY DEF C!Make
<1>2. CASE C!NotStarted
  BY <1>1, <1>2, NotStartedServed
<1>3. CASE /\ loop' = [loop EXCEPT !.at = "spawn", !.plan = C!Resolved]
           /\ UNCHANGED <<report, session, staged>>
  <2>1. loop' = [at |-> "spawn", why |-> loop.why, plan |-> C!Resolved]
    BY <1>3 DEF Served, Shaped
  <2>2. Shaped'
    BY <1>1, <1>3, <2>1 DEF Served, Shaped
  <2>3. \A p \in loop'.plan : Current(p)
    BY <2>1, Loaded DEF Served
  <2> QED  BY <1>1, <1>3, <2>1, <2>2, <2>3, QuietServed DEF Applying, OneWaits
<1> QED  BY <1>2, <1>3 DEF C!Make, C!state

LEMMA SpawnServed == ASSUME Served, C!Spawn PROVE Served'
<1>1. UNCHANGED <<queue, generation, request, disk, late>>
  BY DEF C!Spawn
<1>2. CASE C!NotStarted
  BY <1>1, <1>2, NotStartedServed
<1>3. CASE \E p \in loop.plan :
             /\ session' = {[plan |-> p, at |-> "boot", stop |-> FALSE]}
             /\ loop' = C!Rest /\ C!AfterStart(TRUE) /\ UNCHANGED staged
  <2>1. PICK p \in loop.plan :
          /\ session' = {[plan |-> p, at |-> "boot", stop |-> FALSE]}
          /\ loop' = [at |-> "idle", why |-> "none", plan |-> {}] /\ staged' = staged
          /\ IF loop.why = "apply" THEN C!Reports(TRUE, FALSE, TRUE) ELSE report' = report
    BY <1>3 DEF C!Rest, C!AfterStart
  <2>2. \A s \in session' : s.plan \in loop.plan /\ s = [plan |-> s.plan, at |-> s.at, stop |-> s.stop]
    BY <2>1
  <2>3. report'.gen \in Nat
    BY <2>1 DEF C!Reports, Served, Shaped
  <2>4. Shaped'
    BY <1>1, <2>1, <2>2, <2>3 DEF Served, Shaped
  <2> QED  BY <1>1, <2>1, <2>2, <2>4, QuietServed, ReportServed DEF Applying, OneWaits
<1> QED  BY <1>2, <1>3 DEF C!Spawn

LEMMA DoorServed == ASSUME Served, C!Door PROVE Served'
<1>1. loop.at = "door" /\ loop.why = "apply" /\ UNCHANGED <<queue, staged, generation, request, disk, late>>
  BY DEF C!Door, Served, Shaped
<1>2. PICK s \in session, p \in loop.plan :
        \/ C!Swaps(s, p) /\ C!Reports(TRUE, TRUE, FALSE) /\ loop' = C!Rest
        \/ /\ C!StopFlag /\ loop' = [C!Rest EXCEPT !.at = "join", !.why = "apply"]
           /\ report' = report
  BY DEF C!Door
<1>3. CASE C!Swaps(s, p) /\ C!Reports(TRUE, TRUE, FALSE) /\ loop' = C!Rest
  <2>1. loop' = [at |-> "idle", why |-> "none", plan |-> {}] /\ report'.gen = generation
    BY <1>3 DEF C!Rest, C!Reports
  <2>2. session' = {[plan |-> p, at |-> s.at, stop |-> s.stop]}
    BY <1>3 DEF C!Swaps, Served, Shaped
  <2>3. Shaped'
    BY <1>1, <2>1, <2>2 DEF Served, Shaped
  <2> QED  BY <1>1, <2>1, <2>2, <2>3, ReportServed
<1>4. CASE /\ C!StopFlag /\ loop' = [C!Rest EXCEPT !.at = "join", !.why = "apply"]
           /\ report' = report
  <2>1. loop' = [at |-> "join", why |-> "apply", plan |-> {}]
    BY <1>4 DEF C!Rest
  <2>2. \A r \in session' : /\ r = [plan |-> r.plan, at |-> r.at, stop |-> r.stop]
                            /\ \E q \in session : r.plan = q.plan
    BY <1>4 DEF C!StopFlag, Served, Shaped
  <2>3. Shaped'
    BY <1>1, <1>4, <2>1, <2>2 DEF Served, Shaped
  <2>4. (Applying' => Applying) /\ (OneWaits => OneWaits')
    BY <1>1 DEF Applying, OneWaits
  <2>5. UNCHANGED <<request, disk, late, report>>
    BY <1>1, <1>4
  <2>6. \A x \in loop'.plan : x \in loop.plan \/ Current(x)
    BY <2>1
  <2>7. \A r \in session' : \/ \E q \in session : r.plan = q.plan
                           \/ r.plan \in loop.plan \/ Current(r.plan)
    BY <2>2
  <2> QED  BY <1>1, <2>3, <2>4, <2>5, <2>6, <2>7, QuietServed
<1> QED  BY <1>2, <1>3, <1>4

\* The pipe and the tray leave the loop, the session and the reports alone.
LEMMA PipeShaped ==
  ASSUME Served, UNCHANGED <<report, loop, session, staged, generation>>,
         queue' \in Seq(Commands), disk'.version \in Nat, disk'.version >= disk.version,
         request' = [verb |-> request'.verb, at |-> request'.at, base |-> request'.base,
                     gen |-> request'.gen, saw |-> request'.saw, needs |-> request'.needs],
         request'.at # "idle" =>
           request'.verb \in {"start", "stop", "reload", "play", "map", "assign"},
         request'.gen \in Nat, request'.needs \in Nat, request'.needs <= disk'.version
  PROVE  Shaped'
BY DEF Served, Shaped

LEMMA TrayServed == ASSUME Served, C!Tray PROVE Served'
<1>1. UNCHANGED <<report, loop, session, staged, generation, request, disk, late>>
  BY DEF C!Tray, C!state, C!control
<1>2. PICK verb \in {"start", "stop", "reload", "quit"} : C!Sends(verb, {})
  BY DEF C!Tray
<1>3. /\ queue' \in Seq(Commands) /\ (Applying' => Applying) /\ (OneWaits => OneWaits')
  BY <1>2, CommandSent DEF Served
<1>4. Shaped'
  BY <1>1, <1>3 DEF Served, Shaped
<1> QED  BY <1>1, <1>3, <1>4, QuietServed

\* A request that waits for no report leaves nothing to be awaited.
LEMMA NothingAwaited ==
  ASSUME Served, ~late, ~(request.verb = "map" /\ request.at = "poll" /\ report.gen <= request.gen)
  PROVE  ~Applying /\ loop.why # "apply" /\ OneWaits
BY DEF Served, Awaited

\* A request begins, moves on or is answered, and nothing is sent.
LEMMA RequestServed ==
  ASSUME Served, Shaped', UNCHANGED <<report, loop, queue, session>>, ~late,
         ~(request.verb = "map" /\ request.at = "poll" /\ report.gen <= request.gen),
         request'.verb = "map" => /\ request'.at # "poll"
                                  /\ request'.at = "send" => report.gen <= request'.gen
  PROVE  Served'
<1>1. ~Applying /\ loop.why # "apply" /\ OneWaits
  BY NothingAwaited
<1>2. ~Applying' /\ OneWaits'
  BY <1>1 DEF Applying, OneWaits
<1> QED  BY <1>1, <1>2 DEF Served, Awaited, Live, Reported

LEMMA AskServed == ASSUME Served, C!Ask \/ C!Write \/ C!Look PROVE Served'
<1>1. UNCHANGED <<report, loop, session, staged, generation, queue, late>>
  BY DEF C!Ask, C!Write, C!Look, C!PipeOnly, C!state, C!control
<1>2. CASE C!Ask
  <2>1. /\ request = C!NoReq /\ disk' = disk
        /\ \/ request' = C!NoReq
           \/ \E verb \in {"start", "stop", "reload", "play"} :
                request' = [verb |-> verb, at |-> "send", base |-> run, gen |-> 0,
                            saw |-> FALSE, needs |-> 0]
    BY <1>2 DEF C!Ask, C!Answers, C!NoReq
  <2>2. Shaped'
    BY <1>1, <2>1, PipeShaped DEF Served, Shaped, C!NoReq
  <2>3. request.verb # "map" /\ request'.verb # "map"
    BY <2>1 DEF C!NoReq
  <2> QED  BY <1>1, <2>2, <2>3, RequestServed DEF Served
<1>3. CASE C!Write
  <2>1. PICK verb \in {"map", "assign"}, shape \in Shapes :
          /\ request = C!NoReq /\ disk' = [version |-> disk.version + 1, shape |-> shape]
          /\ request' = [C!NoReq EXCEPT !.verb = verb, !.at = "look", !.needs = disk.version + 1]
    BY <1>3 DEF C!Write
  <2>2. request' = [verb |-> verb, at |-> "look", base |-> C!Is("stopped"), gen |-> 0,
                    saw |-> FALSE, needs |-> disk.version + 1]
    BY <2>1 DEF C!NoReq
  <2>3. /\ queue' \in Seq(Commands) /\ disk'.version = disk.version + 1
        /\ disk'.version \in Nat /\ disk'.version >= disk.version
    BY <1>1, <2>1 DEF Served, Shaped
  <2>4. Shaped'
    BY <1>1, <2>2, <2>3, PipeShaped
  <2>5. request.verb # "map" /\ request'.at = "look"
    BY <2>1, <2>2 DEF C!NoReq
  <2> QED  BY <1>1, <2>4, <2>5, RequestServed DEF Served
<1>4. CASE C!Look
  <2>1. /\ request.at = "look" /\ disk' = disk
        /\ \/ request' = C!NoReq
           \/ request' = [request EXCEPT !.at = "send", !.base = run, !.gen = report.gen]
    BY <1>4 DEF C!Look, C!Answers
  <2>2. CASE request' = C!NoReq
    <3>1. Shaped'
      BY <1>1, <2>1, <2>2, PipeShaped DEF Served, Shaped, C!NoReq
    <3>2. request'.verb # "map"
      BY <2>2 DEF C!NoReq
    <3> QED  BY <1>1, <2>1, <3>1, <3>2, RequestServed DEF Served
  <2>3. CASE request' = [request EXCEPT !.at = "send", !.base = run, !.gen = report.gen]
    <3>1. request' = [verb |-> request.verb, at |-> "send", base |-> run, gen |-> report.gen,
                      saw |-> request.saw, needs |-> request.needs]
      BY <2>3 DEF Served, Shaped
    <3>2. Shaped'
      BY <1>1, <2>1, <3>1, PipeShaped DEF Served, Shaped
    <3>3. request'.at = "send" /\ report.gen <= request'.gen
      BY <3>1 DEF Served, Shaped
    <3> QED  BY <1>1, <2>1, <3>2, <3>3, RequestServed DEF Served
  <2> QED  BY <2>1, <2>2, <2>3
<1> QED  BY <1>2, <1>3, <1>4

LEMMA SendServed == ASSUME Served, C!Send PROVE Served'
<1>1. /\ UNCHANGED <<report, loop, session, staged, generation, late, disk>>
      /\ request.at = "send"
  BY DEF C!Send, C!PipeOnly, C!state, C!control
<1>2. CASE request' = C!NoReq /\ queue' = queue
  <2>1. Shaped'
    BY <1>1, <1>2, PipeShaped DEF Served, Shaped, C!NoReq
  <2>2. request'.verb # "map"
    BY <1>2 DEF C!NoReq
  <2> QED  BY <1>1, <1>2, <2>1, <2>2, RequestServed DEF Served
<1>3. CASE request' # C!NoReq \/ queue' # queue
  <2>1. PICK arg \in SUBSET Setups : C!Sends(C!Command[request.verb], arg)
    <3>1. PICK arg \in (IF request.verb = "play"
                        THEN {{[version |-> 0, shape |-> s, staged |-> TRUE]} : s \in Shapes}
                        ELSE {{}}) : C!Sends(C!Command[request.verb], arg)
      BY <1>3 DEF C!Send, C!Answers
    <3>2. \A s \in Shapes : [version |-> 0, shape |-> s, staged |-> TRUE] \in Setups
      BY DEF Setups
    <3>3. arg = {} \/ \E s \in Shapes : arg = {[version |-> 0, shape |-> s, staged |-> TRUE]}
      BY <3>1
    <3> QED  BY <3>1, <3>2, <3>3
  <2>2. request' = [verb |-> request.verb, at |-> "poll", base |-> request.base, gen |-> request.gen,
                    saw |-> request.saw, needs |-> request.needs]
    BY <1>3 DEF C!Send, C!Answers, Served, Shaped
  <2>3. request.verb \in {"start", "stop", "reload", "play", "map", "assign"}
    BY <1>1 DEF Served, Shaped
  <2>4. /\ C!Command[request.verb] \in {"start", "stop", "reload", "quit", "play", "apply"}
        /\ C!Command[request.verb] = "apply" <=> request.verb = "map"
    BY <2>3 DEF C!Command
  <2>5. /\ queue' \in Seq(Commands)
        /\ request.verb # "map" => (Applying' => Applying) /\ (OneWaits => OneWaits')
        /\ ~Applying => OneWaits'
    BY <2>1, <2>4, CommandSent DEF Served
  <2>6. Shaped'
    BY <1>1, <2>2, <2>5, PipeShaped DEF Served, Shaped
  <2>7. ASSUME ~late PROVE Awaited' /\ Live'
    <3>1. ~Applying /\ loop.why # "apply" /\ OneWaits
      BY <1>1, <2>7, NothingAwaited
    <3>2. request.verb = "map" => report.gen <= request.gen
      BY <1>1, <2>7 DEF Served, Awaited
    <3>3. OneWaits' /\ (request.verb # "map" => ~Applying')
      BY <2>5, <3>1
    <3>4. ~Reported'
      BY <1>1, <2>2, <3>2 DEF Reported, Served, Shaped
    <3> QED  BY <1>1, <2>2, <3>1, <3>2, <3>3, <3>4 DEF Awaited, Live
  <2> QED  BY <1>1, <2>6, <2>7 DEF Served
<1> QED  BY <1>2, <1>3

LEMMA PollServed == ASSUME Served, C!Poll \/ C!GiveUp PROVE Served'
<1>1. /\ UNCHANGED <<report, loop, session, staged, generation, queue, disk>>
      /\ request.at = "poll"
  BY DEF C!Poll, C!GiveUp, C!PipeOnly, C!state, C!control
<1>2. CASE request' = C!NoReq
  <2>1. Shaped'
    BY <1>1, <1>2, PipeShaped DEF Served, Shaped, C!NoReq
  <2>2. CASE late'
    BY <2>1, <2>2 DEF Served
  <2>3. CASE ~late'
    <3>1. ~late /\ late' = late /\ C!Poll
      BY <2>3 DEF C!Poll, C!GiveUp, C!PipeOnly
    <3>2. C!Verdict # "wait"
      BY <1>1, <1>2, <3>1 DEF C!Poll, C!NoReq
    <3>3. ~(request.verb = "map" /\ report.gen <= request.gen)
      BY <3>2 DEF C!Verdict, C!ApplyVerdict
    <3>4. request'.verb # "map"
      BY <1>2 DEF C!NoReq
    <3> QED  BY <1>1, <2>1, <3>1, <3>3, <3>4, RequestServed
  <2> QED  BY <2>2, <2>3
<1>3. CASE request' # C!NoReq
  <2>1. /\ request' = [verb |-> request.verb, at |-> request.at, base |-> request.base,
                       gen |-> request.gen, saw |-> TRUE, needs |-> request.needs]
        /\ late' = late
    BY <1>3 DEF C!Poll, C!GiveUp, C!Answers, C!PipeOnly, Served, Shaped
  <2>2. Shaped'
    BY <1>1, <2>1, PipeShaped DEF Served, Shaped
  <2>3. (\A p : Has(p)' <=> Has(p)) /\ (Reported' <=> Reported)
    BY <1>1, <2>1 DEF Has, Reported
  <2>4. (Applying' <=> Applying) /\ (OneWaits' <=> OneWaits)
    BY <1>1 DEF Applying, OneWaits
  <2>5. (Awaited => Awaited') /\ (Live => Live')
    BY <1>1, <2>1, <2>3, <2>4 DEF Awaited, Live
  <2> QED  BY <2>1, <2>2, <2>5 DEF Served
<1> QED  BY <1>2, <1>3

LEMMA ServedStep == Muted /\ Served /\ [C!Next]_(C!vars) => Served'
<1> SUFFICES ASSUME Muted, Served, [C!Next]_(C!vars) PROVE Served'
  OBVIOUS
<1>1. CASE UNCHANGED C!vars
  <2>1. UNCHANGED <<report, loop, queue, session, staged, generation, request, disk, late>>
    BY <1>1 DEF C!vars, C!state, C!control
  <2>2. Shaped'
    BY <2>1 DEF Served, Shaped
  <2> QED  BY <2>1, <2>2, QuietServed DEF Applying, OneWaits
<1>2. CASE C!Loop
  BY <1>2, CommandServed, ApplyServed, ReapServed, MakeServed, SpawnServed, DoorServed DEF C!Loop
<1>3. CASE C!Pipe
  BY <1>3, AskServed, SendServed, PollServed DEF C!Pipe
<1> QED  BY <1>1, <1>2, <1>3, SessionServed, TrayServed DEF C!Next

\* A write that is reported applied is in the session that runs
\* (AppliedIsLiveMostly): for any shapes, any number of writes and commands, as
\* long as no earlier request gave up and the session is not one set up by hand.
THEOREM AppliedWritesAreLive == C!Spec => AppliedIsLiveMostly
<1>1. C!Init => Muted /\ Served
  <2>1. C!Init => Muted
    BY DEF C!Init, C!Rest, Muted, Stage
  <2>2. C!Init => Shaped /\ ~Applying /\ OneWaits
    BY DEF C!Init, C!Rest, C!NoReq, C!NoReport, Shaped, Applying, OneWaits
  <2>3. C!Init => request.verb # "map" /\ loop.why # "apply"
    BY DEF C!Init, C!NoReq, C!Rest
  <2> QED  BY <2>1, <2>2, <2>3 DEF Served, Awaited, Live, Reported
<1>2. Served => (C!Applied /\ ~late /\ (\A s \in session : ~s.plan.staged) => C!InIt)
  <2> SUFFICES ASSUME Served, C!Applied, ~late, NEW s \in session, \A r \in session : ~r.plan.staged
               PROVE  ~s.plan.staged /\ s.plan.version >= request.needs
    BY DEF C!InIt
  <2>1. request.at = "poll" /\ C!Verdict = "applied"
    BY DEF C!Applied
  <2>2. request.verb = "map" /\ C!ApplyVerdict = "applied"
    BY <2>1 DEF C!Verdict, C!StopVerdict, C!StartVerdict
  <2>3. ~(report.gen <= request.gen) /\ report.ok /\ (report.hot \/ report.restarted)
    BY <2>2 DEF C!ApplyVerdict
  <2>4. Reported
    BY <2>1, <2>2, <2>3 DEF Reported, Served, Shaped
  <2> QED  BY <2>4 DEF Served, Live, Has
<1>3. Muted /\ Served /\ [C!Next]_(C!vars) => Muted' /\ Served'
  BY MutedStep, ServedStep
<1>4. Served /\ [C!Next]_(C!vars) =>
        [C!Applied /\ ~late /\ (\A s \in session : ~s.plan.staged) => C!InIt]_(C!vars)
  BY <1>2
<1> QED  BY <1>1, <1>3, <1>4, PTL DEF C!Spec, C!AppliedIsLiveMostly, AppliedIsLiveMostly

-----------------------------------------------------------------------------
(* Feed: what the engine publishes, and every viewer told what it missed.    *)

Events == SUBSET BOOLEAN
Phases == {"off", "listed", "poll", "write", "unlist", "gone", "over"}

\* What a viewer has in hand: nothing before it connects.
Hands ==
  /\ pad \in BOOLEAN /\ viewer \in [Viewers -> Phases]
  /\ feeds \in [Viewers -> Seq(Events)] /\ lit \in [Viewers -> Events]
  /\ fold \in [Viewers -> [pads : Seq(Events), keys : Nat]]
  /\ dropped \in [Viewers -> Nat] /\ owed \in [Viewers -> Nat]
  /\ \A v \in Viewers :
       viewer[v] = "off" => feeds[v] = <<>> /\ fold[v].pads = <<>> /\ lit[v] = {}

\* The engine sends one event, to those that were listed.
Sender ==
  /\ engine = [at |-> engine.at, event |-> engine.event, left |-> engine.left, full |-> engine.full]
  /\ engine.at \in {"idle", "load", "send"}
  /\ engine.event = {} \/ engine.event = {pad}
  /\ engine.at = "idle" => engine.event = {}
  /\ engine.at # "send" => engine.left = {}
  /\ engine.left \subseteq {v \in Viewers : viewer[v] # "off"}
  /\ engine.full \subseteq engine.left
  /\ \A v, w \in engine.full : v = w
  /\ channels = {v \in Viewers : viewer[v] \in {"listed", "poll", "write", "unlist"}}

\* The gate counts the viewers that opened it.
Opened == {v \in Viewers : viewer[v] \in {"poll", "write", "unlist", "gone"}}
Counted == gate = Cardinality(Opened)

\* What was sent a viewer's way is somewhere.
Queued(v) == Len(feeds[v])
Drawn(v)  == Len(fold[v].pads)
InHand(v) == Queued(v) + Drawn(v) + fold[v].keys + dropped[v]
Account(v) == owed[v] = IF v \in engine.full THEN InHand(v) + 1 ELSE InHand(v)

\* The newest of the pad's states that has reached a viewer is the pad's, ...
Newest(v) ==
  \/ \E i \in DOMAIN feeds[v] : /\ feeds[v][i] = {pad}
                                /\ \A j \in DOMAIN feeds[v] : j > i => feeds[v][j] = {}
  \/ /\ \A j \in DOMAIN feeds[v] : feeds[v][j] = {}
     /\ \/ fold[v].pads # <<>> /\ fold[v].pads[Len(fold[v].pads)] = {pad}
        \/ fold[v].pads = <<>> /\ lit[v] \subseteq {pad}

\* ... or the pad's state is on its way to it.
Pending(v) ==
  /\ engine.event = {pad}
  /\ \/ engine.at = "load" /\ v \in channels
     \/ engine.at = "send" /\ v \in engine.left

Shows(v) ==
  viewer[v] \in {"listed", "poll", "write"} /\ v \notin lossy \cup missed
    /\ dropped[v] = 0 /\ v \notin engine.full
  => Pending(v) \/ Newest(v)

Telling == Hands /\ Sender /\ Counted /\ \A v \in Viewers : Account(v) /\ Shows(v)

\* What it takes for a step to leave a viewer's newest state as it is.
LEMMA NewestSame ==
  ASSUME NEW v \in Viewers, Newest(v), pad' = pad, feeds'[v] = feeds[v],
         fold'[v].pads = fold[v].pads, lit'[v] = lit[v]
  PROVE  Newest(v)'
BY DEF Newest

LEMMA HandsFull ==
  ASSUME Hands, NEW v \in Viewers
  PROVE  /\ Queued(v) \in Nat /\ Drawn(v) \in Nat /\ fold[v].keys \in Nat
         /\ dropped[v] \in Nat /\ owed[v] \in Nat /\ InHand(v) \in Nat
BY DEF Hands, InHand, Queued, Drawn

LEMMA SumIsZero ==
  ASSUME NEW a \in Nat, NEW b \in Nat, NEW c \in Nat, NEW d \in Nat, a + b + c + d = 0
  PROVE  a = 0 /\ b = 0 /\ c = 0 /\ d = 0
OBVIOUS

LEMMA SameTelling ==
  ASSUME Telling, UNCHANGED <<gate, channels, feeds, dropped, pad, engine, viewer, fold, owed, lit,
                              lossy, missed>>
  PROVE  Telling'
<1>1. Hands' /\ Sender' /\ Counted'
  BY DEF Telling, Hands, Sender, Counted, Opened
<1>2. \A v \in Viewers : Account(v)'
  BY DEF Telling, Account, InHand, Queued, Drawn
<1>3. \A v \in Viewers : Shows(v)'
  BY NewestSame DEF Telling, Shows, Pending
<1> QED  BY <1>1, <1>2, <1>3 DEF Telling

\* The gate is open for every viewer that reads.
LEMMA GateOpen ==
  ASSUME IsFiniteSet(Viewers), Counted
  PROVE  /\ IsFiniteSet(Opened) /\ gate \in Nat
         /\ gate > 0 \/ Opened = {}
<1>1. IsFiniteSet(Opened)
  BY FS_Subset DEF Opened
<1>2. Cardinality(Opened) \in Nat /\ (Cardinality(Opened) = 0 <=> Opened = {})
  BY <1>1, FS_CardinalityType, FS_EmptySet
<1> QED  BY <1>1, <1>2 DEF Counted

LEMMA HappensTelling ==
  ASSUME IsFiniteSet(Viewers), Telling, V!Happens
  PROVE  Telling'
<1>1. /\ engine = [at |-> "idle", event |-> {}, left |-> {}, full |-> {}]
      /\ missed' = missed \cup {v \in Viewers : gate = 0 /\ viewer[v] = "listed"}
      /\ UNCHANGED <<gate, channels, feeds, dropped, viewer, fold, owed, lit, lossy>>
  BY DEF V!Happens, V!Idle
<1>2. PICK event :
        /\ \/ event = {pad'} /\ pad' = (~pad)
           \/ event = {} /\ pad' = pad
        /\ engine' = IF gate > 0 THEN [at |-> "load", event |-> event, left |-> {}, full |-> {}]
                     ELSE engine
  BY DEF V!Happens, V!PadMoves, V!KeyMoves, V!Publishes, V!Idle
<1>3. pad' \in BOOLEAN /\ Hands'
  BY <1>1, <1>2 DEF Telling, Hands
<1>4. Sender' /\ Counted'
  BY <1>1, <1>2 DEF Telling, Sender, Counted, Opened
<1>5. \A v \in Viewers : Account(v)'
  BY <1>1, <1>2 DEF Telling, Account, InHand, Queued, Drawn
<1>6. ASSUME NEW v \in Viewers PROVE Shows(v)'
  <2> SUFFICES ASSUME viewer[v] \in {"listed", "poll", "write"}, v \notin lossy \cup missed',
                      dropped[v] = 0
               PROVE  Pending(v)' \/ Newest(v)'
    BY <1>1 DEF Shows
  <2>1. gate > 0
    <3>1. gate > 0 \/ v \notin Opened
      BY GateOpen DEF Telling
    <3>2. gate > 0 \/ gate = 0
      BY GateOpen DEF Telling
    <3> QED  BY <1>1, <3>1, <3>2 DEF Opened
  <2>2. v \in channels
    BY DEF Telling, Sender
  <2>3. CASE event = {pad'}
    BY <1>1, <1>2, <2>1, <2>2, <2>3 DEF Pending
  <2>4. CASE event = {} /\ pad' = pad
    <3>1. Newest(v)
      BY <1>1 DEF Telling, Shows, Pending
    <3> QED  BY <1>1, <2>4, <3>1, NewestSame
  <2> QED  BY <1>2, <2>3, <2>4
<1> QED  BY <1>3, <1>4, <1>5, <1>6 DEF Telling

LEMMA LoadTelling == ASSUME Telling, V!LoadChannels PROVE Telling'
<1>1. /\ engine.at = "load"
      /\ UNCHANGED <<gate, channels, feeds, dropped, pad, viewer, fold, owed, lit, lossy, missed>>
  BY DEF V!LoadChannels, V!sink, V!history
<1>2. engine.left = {} /\ engine.full = {}
  BY <1>1 DEF Telling, Sender
<1>3. \/ channels = {} /\ engine' = [at |-> "idle", event |-> {}, left |-> {}, full |-> {}]
      \/ engine' = [at |-> "send", event |-> engine.event, left |-> channels, full |-> {}]
  BY <1>2 DEF V!LoadChannels, V!Idle, Telling, Sender
<1>4. Hands' /\ Counted'
  BY <1>1 DEF Telling, Hands, Counted, Opened
<1>5. Sender'
  BY <1>1, <1>3 DEF Telling, Sender
<1>6. ASSUME NEW v \in Viewers PROVE Account(v)'
  <2>1. v \notin engine.full /\ v \notin engine'.full
    BY <1>2, <1>3
  <2>2. InHand(v)' = InHand(v)
    BY <1>1 DEF InHand, Queued, Drawn
  <2> QED  BY <1>1, <2>1, <2>2 DEF Telling, Account
<1>7. ASSUME NEW v \in Viewers, Shows(v) PROVE Shows(v)'
  <2>1. Pending(v) => Pending(v)'
    BY <1>1, <1>3 DEF Pending
  <2>2. Newest(v) => Newest(v)'
    BY <1>1, NewestSame
  <2> QED  BY <1>1, <1>2, <1>3, <1>7, <2>1, <2>2 DEF Shows
<1> QED  BY <1>4, <1>5, <1>6, <1>7 DEF Telling

\* The engine is through with w.
LEMMA SentIs ==
  ASSUME Telling, NEW w \in engine.left, engine' = V!Sent(w), engine.full \subseteq {w},
         UNCHANGED <<pad, channels, viewer>>
  PROVE  /\ Sender' /\ engine'.full = {}
         /\ \A v \in Viewers \ {w} : Pending(v) => Pending(v)'
<1>1. engine.at = "send"
  BY DEF Telling, Sender
<1>2. \/ engine.left = {w} /\ engine' = [at |-> "idle", event |-> {}, left |-> {}, full |-> {}]
      \/ engine' = [at |-> "send", event |-> engine.event, left |-> engine.left \ {w}, full |-> {}]
  BY <1>1 DEF V!Sent, V!Idle, Telling, Sender
<1> QED  BY <1>1, <1>2 DEF Telling, Sender, Pending

LEMMA SendTelling ==
  ASSUME Telling, NEW w \in Viewers, V!TrySend(w)
  PROVE  Telling'
<1>1. /\ w \in engine.left /\ engine.full = {} /\ engine.at = "send"
      /\ UNCHANGED <<gate, channels, dropped, pad, viewer, fold, lit, lossy, missed>>
  BY DEF V!TrySend, V!sink, Telling, Sender
<1>2. viewer[w] # "off"
  BY <1>1 DEF Telling, Sender
<1>3. Counted'
  BY <1>1 DEF Telling, Counted, Opened
<1>4. CASE engine' = V!Sent(w) /\ UNCHANGED <<feeds, owed>> /\ viewer[w] = "over"
  <2>1. /\ Sender' /\ engine'.full = {} /\ \A v \in Viewers \ {w} : Pending(v) => Pending(v)'
    BY <1>1, <1>4, SentIs
  <2>2. Hands'
    BY <1>1, <1>4 DEF Telling, Hands
  <2>3. \A v \in Viewers : Account(v)'
    BY <1>1, <1>4, <2>1 DEF Telling, Account, InHand, Queued, Drawn
  <2>4. ASSUME NEW v \in Viewers PROVE Shows(v)'
    <3>1. Newest(v) => Newest(v)'
      BY <1>1, <1>4, NewestSame
    <3> QED  BY <1>1, <1>4, <2>1, <3>1 DEF Telling, Shows
  <2> QED  BY <1>3, <2>1, <2>2, <2>3, <2>4 DEF Telling
<1>5. CASE /\ owed' = [owed EXCEPT ![w] = @ + 1] /\ engine' = V!Sent(w)
           /\ feeds' = [feeds EXCEPT ![w] = Append(@, engine.event)]
  <2>1. /\ Sender' /\ engine'.full = {} /\ \A v \in Viewers \ {w} : Pending(v) => Pending(v)'
    BY <1>1, <1>5, SentIs
  <2>2. engine.event \in Events /\ (engine.event = {} \/ engine.event = {pad})
    BY DEF Telling, Sender, Hands, Events
  <2>3. /\ feeds[w] \in Seq(Events) /\ feeds'[w] = Append(feeds[w], engine.event)
        /\ \A v \in Viewers \ {w} : feeds'[v] = feeds[v]
    BY <1>5 DEF Telling, Hands
  <2>4. /\ Len(feeds'[w]) = Len(feeds[w]) + 1 /\ feeds'[w] \in Seq(Events)
        /\ \A i \in DOMAIN feeds'[w] : \/ i \in DOMAIN feeds[w] /\ feeds'[w][i] = feeds[w][i]
                                       \/ i = Len(feeds[w]) + 1 /\ feeds'[w][i] = engine.event
        /\ \A i \in DOMAIN feeds[w] : i \in DOMAIN feeds'[w] /\ i < Len(feeds[w]) + 1
        /\ Len(feeds[w]) + 1 \in DOMAIN feeds'[w]
    BY <2>2, <2>3
  <2>5. Hands'
    BY <1>1, <1>2, <1>5, <2>3, <2>4 DEF Telling, Hands
  <2>6. ASSUME NEW v \in Viewers PROVE Account(v)'
    <3>1. CASE v = w
      <4>1. owed'[w] = owed[w] + 1
        BY <1>5 DEF Telling, Hands
      <4>2. /\ Queued(w) \in Nat /\ Drawn(w) \in Nat /\ fold[w].keys \in Nat
            /\ dropped[w] \in Nat /\ InHand(w) \in Nat
        BY HandsFull DEF Telling
      <4>3. Queued(w)' = Queued(w) + 1 /\ Drawn(w)' = Drawn(w)
        BY <1>1, <2>4 DEF Queued, Drawn
      <4>4. InHand(w)' = InHand(w) + 1
        BY <1>1, <4>2, <4>3 DEF InHand
      <4> QED  BY <1>1, <2>1, <3>1, <4>1, <4>2, <4>4 DEF Account, Telling
    <3>2. CASE v # w
      BY <1>1, <1>5, <2>1, <2>3, <3>2 DEF Account, InHand, Queued, Drawn, Telling, Hands
    <3> QED  BY <3>1, <3>2
  <2>7. ASSUME NEW v \in Viewers PROVE Shows(v)'
    <3>1. CASE v # w
      <4>1. Newest(v) => Newest(v)'
        BY <1>1, <2>3, <3>1, NewestSame
      <4> QED  BY <1>1, <2>1, <3>1, <4>1 DEF Telling, Shows
    <3>2. CASE v = w
      <4>1. CASE engine.event = {pad}
        BY <1>1, <2>4, <3>2, <4>1 DEF Shows, Newest
      <4>2. CASE engine.event = {} /\ engine.event # {pad}
        <5>1. Newest(w) => Newest(w)'
          BY <1>1, <2>4, <4>2 DEF Newest
        <5>2. ~Pending(w)
          BY <4>2 DEF Pending
        <5> QED  BY <1>1, <3>2, <5>1, <5>2 DEF Telling, Shows
      <4> QED  BY <2>2, <4>1, <4>2
    <3> QED  BY <3>1, <3>2
  <2> QED  BY <1>3, <2>1, <2>5, <2>6, <2>7 DEF Telling
<1>6. CASE /\ owed' = [owed EXCEPT ![w] = @ + 1] /\ engine' = [engine EXCEPT !.full = {w}]
           /\ feeds' = feeds
  <2>1. engine' = [at |-> "send", event |-> engine.event, left |-> engine.left, full |-> {w}]
    BY <1>1, <1>6 DEF Telling, Sender
  <2>2. Sender'
    BY <1>1, <2>1 DEF Telling, Sender
  <2>3. Hands'
    BY <1>1, <1>6 DEF Telling, Hands
  <2>4. ASSUME NEW v \in Viewers PROVE Account(v)'
    <3>1. InHand(v)' = InHand(v) /\ InHand(v) \in Nat
      BY <1>1, <1>6, HandsFull DEF InHand, Queued, Drawn, Telling
    <3>2. owed'[v] = IF v = w THEN owed[v] + 1 ELSE owed[v]
      BY <1>6 DEF Telling, Hands
    <3> QED  BY <1>1, <2>1, <3>1, <3>2 DEF Account, Telling
  <2>5. ASSUME NEW v \in Viewers PROVE Shows(v)'
    <3>1. Newest(v) => Newest(v)'
      BY <1>1, <1>6, NewestSame
    <3>2. Pending(v) => Pending(v)'
      BY <1>1, <2>1 DEF Pending
    <3> QED  BY <1>1, <2>1, <3>1, <3>2 DEF Telling, Shows
  <2> QED  BY <1>3, <2>2, <2>3, <2>4, <2>5 DEF Telling
<1> QED  BY <1>4, <1>5, <1>6 DEF V!TrySend

LEMMA LossTelling ==
  ASSUME Telling, NEW w \in Viewers, V!CountLoss(w)
  PROVE  Telling'
<1>1. /\ w \in engine.full /\ engine.full \subseteq {w} /\ w \in engine.left /\ engine' = V!Sent(w)
      /\ dropped' = [dropped EXCEPT ![w] = @ + 1]
      /\ UNCHANGED <<gate, channels, feeds, pad, viewer, fold, owed, lit, lossy, missed>>
  BY DEF V!CountLoss, V!sink, V!history, Telling, Sender
<1>2. /\ Sender' /\ engine'.full = {} /\ \A v \in Viewers \ {w} : Pending(v) => Pending(v)'
  BY <1>1, SentIs
<1>3. Hands' /\ Counted'
  BY <1>1 DEF Telling, Hands, Counted, Opened
<1>4. ASSUME NEW v \in Viewers PROVE Account(v)' /\ Shows(v)'
  <2>1. dropped'[v] = IF v = w THEN dropped[v] + 1 ELSE dropped[v]
    BY <1>1 DEF Telling, Hands
  <2>2. InHand(v) \in Nat /\ InHand(v)' = IF v = w THEN InHand(v) + 1 ELSE InHand(v)
    <3>1. /\ Queued(v) \in Nat /\ Drawn(v) \in Nat /\ fold[v].keys \in Nat
          /\ dropped[v] \in Nat /\ InHand(v) \in Nat
      BY HandsFull DEF Telling
    <3>2. Queued(v)' = Queued(v) /\ Drawn(v)' = Drawn(v)
      BY <1>1 DEF Queued, Drawn
    <3> QED  BY <1>1, <2>1, <3>1, <3>2 DEF InHand
  <2>3. dropped[v] \in Nat
    BY HandsFull DEF Telling
  <2>4. Account(v)'
    BY <1>1, <1>2, <2>2 DEF Account, Telling
  <2>5. Newest(v) => Newest(v)'
    BY <1>1, NewestSame
  <2>6. Shows(v)'
    BY <1>1, <1>2, <2>1, <2>3, <2>5 DEF Telling, Shows
  <2> QED  BY <2>4, <2>6
<1> QED  BY <1>2, <1>3, <1>4 DEF Telling

\* A viewer's thread moves on, and has in hand what it had.
LEMMA MoveTelling ==
  ASSUME IsFiniteSet(Viewers), Telling, NEW w \in Viewers,
         \/ V!Connect(w) \/ V!OpenGate(w) \/ V!Write(w) \/ V!Unsubscribe(w) \/ V!CloseGate(w)
  PROVE  Telling'
<1>1. PICK from, to :
        /\ viewer[w] = from /\ viewer' = [viewer EXCEPT ![w] = to]
        /\ <<from, to>> \in {<<"off", "listed">>, <<"listed", "poll">>, <<"write", "poll">>,
                             <<"write", "unlist">>, <<"unlist", "gone">>, <<"gone", "over">>}
        /\ channels' = IF from = "off" THEN channels \cup {w}
                       ELSE IF from = "unlist" THEN channels \ {w} ELSE channels
        /\ gate' = IF from = "listed" THEN gate + 1 ELSE IF from = "gone" THEN gate - 1 ELSE gate
  BY DEF V!Connect, V!OpenGate, V!Write, V!Unsubscribe, V!CloseGate, V!Step
<1>2. UNCHANGED <<feeds, dropped, pad, engine, fold, owed, lit, lossy, missed>>
  BY DEF V!Connect, V!OpenGate, V!Write, V!Unsubscribe, V!CloseGate, V!Rest, V!history
<1>3. /\ viewer' \in [Viewers -> Phases] /\ viewer'[w] = to
      /\ \A v \in Viewers \ {w} : viewer'[v] = viewer[v]
  BY <1>1 DEF Telling, Hands, Phases
<1>4. Hands'
  BY <1>1, <1>2, <1>3 DEF Telling, Hands
<1>5. channels' = {v \in Viewers : viewer'[v] \in {"listed", "poll", "write", "unlist"}}
  BY <1>1, <1>3 DEF Telling, Sender
<1>6. Sender'
  BY <1>1, <1>2, <1>3, <1>5 DEF Telling, Sender
<1>7. Counted'
  <2>1. IsFiniteSet(Opened) /\ gate = Cardinality(Opened) /\ gate \in Nat
    BY GateOpen DEF Telling, Counted
  <2>2. CASE from = "listed"
    <3>1. Opened' = Opened \cup {w} /\ w \notin Opened
      BY <1>1, <1>3, <2>2 DEF Opened
    <3> QED  BY <1>1, <2>1, <2>2, <3>1, FS_AddElement DEF Counted
  <2>3. CASE from = "gone"
    <3>1. Opened' = Opened \ {w} /\ w \in Opened
      BY <1>1, <1>3, <2>3 DEF Opened
    <3> QED  BY <1>1, <2>1, <2>3, <3>1, FS_RemoveElement DEF Counted
  <2>4. CASE from \notin {"listed", "gone"}
    <3>1. Opened' = Opened
      BY <1>1, <1>3, <2>4 DEF Opened
    <3> QED  BY <1>1, <2>1, <2>4, <3>1 DEF Counted
  <2> QED  BY <2>2, <2>3, <2>4
<1>8. \A v \in Viewers : Account(v)'
  BY <1>2 DEF Telling, Account, InHand, Queued, Drawn
<1>9. ASSUME NEW v \in Viewers PROVE Shows(v)'
  <2>1. Newest(v) => Newest(v)'
    BY <1>2, NewestSame
  <2>2. CASE from # "off" \/ v # w
    <3>1. viewer'[v] \in {"listed", "poll", "write"} => viewer[v] \in {"listed", "poll", "write"}
      BY <1>1, <1>3, <2>2
    <3>2. viewer'[v] \in {"listed", "poll", "write"} /\ Pending(v) => Pending(v)'
      BY <1>2, <1>5 DEF Pending
    <3> QED  BY <1>2, <2>1, <3>1, <3>2 DEF Telling, Shows
  <2>3. CASE from = "off" /\ v = w
    <3>1. feeds[w] = <<>> /\ fold[w].pads = <<>> /\ lit[w] = {}
      BY <1>1, <2>3 DEF Telling, Hands
    <3>2. Newest(w)
      BY <3>1 DEF Newest
    <3> QED  BY <2>1, <2>3, <3>2 DEF Shows
  <2> QED  BY <2>2, <2>3
<1> QED  BY <1>4, <1>6, <1>7, <1>8, <1>9 DEF Telling

LEMMA TailIs ==
  ASSUME NEW S, NEW q \in Seq(S), q # <<>>
  PROVE  /\ Tail(q) \in Seq(S) /\ Len(q) \in Nat \ {0} /\ Len(Tail(q)) = Len(q) - 1
         /\ Head(q) = q[1] /\ 1 \in DOMAIN q /\ Head(q) \in S
         /\ \A i \in DOMAIN Tail(q) : /\ i \in Nat /\ i + 1 \in DOMAIN q /\ i + 1 > 1
                                      /\ Tail(q)[i] = q[i + 1]
         /\ \A i \in DOMAIN q \ {1} : \E k \in DOMAIN Tail(q) : k + 1 = i
<1>1. /\ Tail(q) \in Seq(S) /\ Len(q) \in Nat \ {0} /\ Len(Tail(q)) = Len(q) - 1
      /\ Head(q) = q[1] /\ 1 \in DOMAIN q /\ Head(q) \in S
  OBVIOUS
<1>2. \A i \in DOMAIN Tail(q) : /\ i \in Nat /\ i + 1 \in DOMAIN q /\ i + 1 > 1
                               /\ Tail(q)[i] = q[i + 1]
  OBVIOUS
<1>3. DOMAIN q = 1 .. Len(q) /\ DOMAIN Tail(q) = 1 .. (Len(q) - 1)
  BY <1>1
<1>4. ASSUME NEW i \in DOMAIN q \ {1} PROVE \E k \in DOMAIN Tail(q) : k + 1 = i
  <2>1. i - 1 \in DOMAIN Tail(q) /\ (i - 1) + 1 = i
    BY <1>1, <1>3
  <2> QED  BY <2>1
<1> QED  BY <1>1, <1>2, <1>4

\* What is taken off the feeds moves into the frame, or was no state of the pad.
LEMMA TakeTelling == ASSUME Telling, NEW w \in Viewers, V!Take(w) PROVE Telling'
<1>1. /\ viewer[w] = "poll" /\ feeds[w] # <<>> /\ feeds' = [feeds EXCEPT ![w] = Tail(@)]
      /\ UNCHANGED <<gate, channels, dropped, pad, engine, viewer, lit, lossy, missed>>
      /\ \/ /\ fold' = [fold EXCEPT ![w].pads = Append(@, Head(feeds[w]))]
            /\ Head(feeds[w]) # {} /\ owed' = owed
         \/ /\ fold' = [fold EXCEPT ![w].keys = @ + 1]
            /\ Head(feeds[w]) = {} /\ owed' = owed
         \/ fold' = fold /\ Head(feeds[w]) = {} /\ owed' = [owed EXCEPT ![w] = @ - 1]
  BY DEF V!Take, V!sink
<1>2. /\ feeds[w] \in Seq(Events) /\ feeds'[w] = Tail(feeds[w])
      /\ \A v \in Viewers \ {w} : feeds'[v] = feeds[v]
      /\ fold[w].pads \in Seq(Events) /\ fold[w].keys \in Nat
      /\ fold[w] = [pads |-> fold[w].pads, keys |-> fold[w].keys]
  BY <1>1 DEF Telling, Hands
<1>3. /\ feeds'[w] \in Seq(Events) /\ Len(feeds'[w]) = Len(feeds[w]) - 1 /\ Len(feeds[w]) \in Nat \ {0}
      /\ Head(feeds[w]) = feeds[w][1] /\ 1 \in DOMAIN feeds[w] /\ Head(feeds[w]) \in Events
      /\ \A i \in DOMAIN feeds'[w] : /\ i \in Nat /\ i + 1 \in DOMAIN feeds[w] /\ i + 1 > 1
                                     /\ feeds'[w][i] = feeds[w][i + 1]
      /\ \A i \in DOMAIN feeds[w] \ {1} : \E k \in DOMAIN feeds'[w] : k + 1 = i
  <2>1. feeds[w] \in Seq(Events) /\ feeds[w] # <<>>
    BY <1>1, <1>2
  <2> QED  BY <1>2, <2>1, TailIs
<1>4. \/ /\ Head(feeds[w]) # {} /\ owed'[w] = owed[w]
         /\ fold'[w] = [pads |-> Append(fold[w].pads, Head(feeds[w])), keys |-> fold[w].keys]
      \/ /\ Head(feeds[w]) = {} /\ owed'[w] = owed[w]
         /\ fold'[w] = [pads |-> fold[w].pads, keys |-> fold[w].keys + 1]
      \/ Head(feeds[w]) = {} /\ owed'[w] = owed[w] - 1 /\ fold'[w] = fold[w]
  BY <1>1, <1>2 DEF Telling, Hands
<1>5. /\ DOMAIN fold' = Viewers /\ DOMAIN owed' = Viewers
      /\ \A v \in Viewers \ {w} : fold'[v] = fold[v] /\ owed'[v] = owed[v]
      /\ fold' = [v \in Viewers |-> fold'[v]] /\ owed' = [v \in Viewers |-> owed'[v]]
  BY <1>1 DEF Telling, Hands
<1>6. /\ Append(fold[w].pads, Head(feeds[w])) \in Seq(Events)
      /\ Len(Append(fold[w].pads, Head(feeds[w]))) = Len(fold[w].pads) + 1
      /\ Append(fold[w].pads, Head(feeds[w]))[Len(fold[w].pads) + 1] = Head(feeds[w])
      /\ Append(fold[w].pads, Head(feeds[w])) # <<>>
  BY <1>2, <1>3
<1>7. Account(w)' /\ owed'[w] \in Nat
  <2>1. /\ Queued(w) \in Nat /\ Drawn(w) \in Nat /\ fold[w].keys \in Nat
        /\ dropped[w] \in Nat /\ InHand(w) \in Nat /\ owed[w] \in Nat
    BY HandsFull DEF Telling
  <2>2. Queued(w)' = Queued(w) - 1 /\ Queued(w) \in Nat \ {0}
    BY <1>3 DEF Queued
  <2>3. \/ Drawn(w)' = Drawn(w) + 1 /\ fold'[w].keys = fold[w].keys /\ owed'[w] = owed[w]
        \/ Drawn(w)' = Drawn(w) /\ fold'[w].keys = fold[w].keys + 1 /\ owed'[w] = owed[w]
        \/ Drawn(w)' = Drawn(w) /\ fold'[w].keys = fold[w].keys /\ owed'[w] = owed[w] - 1
    BY <1>4, <1>6 DEF Drawn
  <2>4. Account(w) /\ dropped'[w] = dropped[w] /\ engine'.full = engine.full
    BY <1>1 DEF Telling
  <2> QED  BY <2>1, <2>2, <2>3, <2>4 DEF Account, InHand
<1>8. Hands'
  <2>1. fold'[w] \in [pads : Seq(Events), keys : Nat]
    <3> DEFINE more == Append(fold[w].pads, Head(feeds[w]))
    <3>1. /\ more \in Seq(Events) /\ fold[w].pads \in Seq(Events) /\ fold[w].keys \in Nat
          /\ fold[w].keys + 1 \in Nat
      BY <1>2, <1>6
    <3>2. \/ fold'[w] = [pads |-> more, keys |-> fold[w].keys]
          \/ fold'[w] = [pads |-> fold[w].pads, keys |-> fold[w].keys + 1]
          \/ fold'[w] = [pads |-> fold[w].pads, keys |-> fold[w].keys]
      BY <1>2, <1>4
    <3> HIDE DEF more
    <3> QED  BY <3>1, <3>2
  <2>2. fold' \in [Viewers -> [pads : Seq(Events), keys : Nat]] /\ owed' \in [Viewers -> Nat]
    BY <1>5, <1>7, <2>1 DEF Telling, Hands
  <2>3. feeds' \in [Viewers -> Seq(Events)]
    BY <1>1, <1>2, <1>3 DEF Telling, Hands
  <2> QED  BY <1>1, <1>2, <1>5, <2>2, <2>3 DEF Telling, Hands
<1>9. Sender' /\ Counted'
  BY <1>1 DEF Telling, Sender, Counted, Opened
<1>10. ASSUME NEW v \in Viewers PROVE Account(v)' /\ Shows(v)'
  <2>1. CASE v # w
    <3>1. Account(v)'
      BY <1>1, <1>2, <1>5, <2>1 DEF Telling, Account, InHand, Queued, Drawn
    <3>2. Newest(v) => Newest(v)'
      BY <1>1, <1>2, <1>5, <2>1, NewestSame
    <3> QED  BY <1>1, <3>1, <3>2 DEF Telling, Shows, Pending
  <2>2. ASSUME Newest(w) PROVE Newest(w)'
    <3>1. \A j \in DOMAIN feeds'[w] : j + 1 \in DOMAIN feeds[w] /\ feeds'[w][j] = feeds[w][j + 1]
      BY <1>3
    <3>2. CASE \A j \in DOMAIN feeds[w] : feeds[w][j] = {}
      <4>1. Head(feeds[w]) = {} /\ \A j \in DOMAIN feeds'[w] : feeds'[w][j] = {}
        BY <1>3, <3>1, <3>2
      <4>2. fold'[w].pads = fold[w].pads
        BY <1>4, <4>1
      <4>3. \/ fold[w].pads # <<>> /\ fold[w].pads[Len(fold[w].pads)] = {pad}
            \/ fold[w].pads = <<>> /\ lit[w] \subseteq {pad}
        BY <2>2, <3>2 DEF Newest
      <4> QED  BY <1>1, <4>1, <4>2, <4>3 DEF Newest
    <3>3. ASSUME NEW i \in DOMAIN feeds[w], feeds[w][i] = {pad},
                 \A j \in DOMAIN feeds[w] : j > i => feeds[w][j] = {}
          PROVE  Newest(w)'
      <4>1. CASE i = 1
        <5>1. \A j \in DOMAIN feeds'[w] : feeds'[w][j] = {}
          BY <1>3, <3>3, <4>1
        <5>5. Head(feeds[w]) = {pad}
          BY <1>3, <3>3, <4>1
        <5>2. Head(feeds[w]) = {pad} /\ Head(feeds[w]) # {}
          BY <5>5
        <5>3. fold'[w].pads = Append(fold[w].pads, Head(feeds[w]))
          BY <1>4, <5>2
        <5>4. fold'[w].pads # <<>> /\ fold'[w].pads[Len(fold'[w].pads)] = {pad}
          BY <1>6, <5>2, <5>3
        <5> QED  BY <1>1, <5>1, <5>4 DEF Newest
      <4>2. CASE i # 1
        <5>1. PICK k \in DOMAIN feeds'[w] : k + 1 = i
          BY <1>3, <4>2
        <5>2. feeds'[w][k] = {pad}
          BY <3>1, <3>3, <5>1
        <5>3. ASSUME NEW j \in DOMAIN feeds'[w], j > k PROVE feeds'[w][j] = {}
          <6>1. j \in Nat /\ k \in Nat /\ j + 1 > k + 1
            BY <1>3, <5>3
          <6> QED  BY <3>1, <3>3, <5>1, <6>1
        <5> QED  BY <1>1, <5>2, <5>3 DEF Newest
      <4> QED  BY <4>1, <4>2
    <3> QED  BY <2>2, <3>2, <3>3 DEF Newest
  <2> QED  BY <1>1, <1>7, <2>1, <2>2 DEF Telling, Shows, Pending
<1> QED  BY <1>8, <1>9, <1>10 DEF Telling

LEMMA FinishTelling == ASSUME Telling, NEW w \in Viewers, V!Finish(w) PROVE Telling'
<1>1. /\ viewer[w] = "poll" /\ feeds[w] = <<>>
      /\ dropped' = [dropped EXCEPT ![w] = 0]
      /\ fold' = [fold EXCEPT ![w] = [pads |-> <<>>, keys |-> 0]]
      /\ UNCHANGED <<gate, channels, feeds, pad, engine, missed>>
  BY DEF V!Finish, V!Fresh, V!sink
<1>2. /\ \A v \in Viewers \ {w} : dropped'[v] = dropped[v] /\ fold'[v] = fold[v]
      /\ dropped'[w] = 0 /\ fold'[w].pads = <<>> /\ fold'[w].keys = 0
      /\ fold' \in [Viewers -> [pads : Seq(Events), keys : Nat]] /\ dropped' \in [Viewers -> Nat]
  BY <1>1 DEF Telling, Hands
<1>3. /\ Queued(w) = 0 /\ Queued(w)' = 0 /\ Drawn(w)' = 0 /\ InHand(w)' = 0
      /\ InHand(w) = Drawn(w) + fold[w].keys + dropped[w]
      /\ Drawn(w) \in Nat /\ fold[w].keys \in Nat /\ dropped[w] \in Nat /\ owed[w] \in Nat
  <2>1. /\ Drawn(w) \in Nat /\ fold[w].keys \in Nat /\ dropped[w] \in Nat /\ owed[w] \in Nat
    BY HandsFull DEF Telling
  <2>2. Queued(w) = 0 /\ Queued(w)' = 0 /\ Drawn(w)' = 0
    BY <1>1, <1>2 DEF Queued, Drawn
  <2> QED  BY <1>2, <2>1, <2>2 DEF InHand
<1>4. Account(w) /\ Shows(w)
  BY DEF Telling
<1>5. CASE /\ viewer' = [viewer EXCEPT ![w] = "write"]
           /\ owed' = [owed EXCEPT ![w] = @ - Len(fold[w].pads) - fold[w].keys - dropped[w]]
           /\ lossy' = IF dropped[w] > 0 THEN lossy \cup {w} ELSE lossy
           /\ lit' = [lit EXCEPT ![w] =
                        IF fold[w].pads = <<>> THEN @ ELSE fold[w].pads[Len(fold[w].pads)]]
  <2>1. /\ \A v \in Viewers \ {w} : viewer'[v] = viewer[v] /\ owed'[v] = owed[v] /\ lit'[v] = lit[v]
        /\ viewer'[w] = "write" /\ viewer' \in [Viewers -> Phases]
        /\ owed'[w] = owed[w] - Drawn(w) - fold[w].keys - dropped[w]
        /\ lit'[w] = IF fold[w].pads = <<>> THEN lit[w] ELSE fold[w].pads[Len(fold[w].pads)]
    BY <1>5 DEF Telling, Hands, Drawn, Phases
  <2>2. owed'[w] = (IF w \in engine.full THEN 1 ELSE 0)
    BY <1>3, <1>4, <2>1 DEF Account
  <2>3. Account(w)'
    BY <1>1, <1>3, <2>2 DEF Account
  <2>4. lit'[w] \in Events
    <3>1. fold[w].pads \in Seq(Events) /\ lit[w] \in Events
      BY DEF Telling, Hands
    <3> QED  BY <2>1, <3>1
  <2>5. /\ owed' \in [Viewers -> Nat] /\ lit' \in [Viewers -> Events]
    BY <1>5, <2>1, <2>2, <2>4 DEF Telling, Hands
  <2>6. Hands'
    BY <1>1, <1>2, <2>1, <2>5 DEF Telling, Hands
  <2>7. channels' = {v \in Viewers : viewer'[v] \in {"listed", "poll", "write", "unlist"}}
        /\ Opened' = Opened
    BY <1>1, <2>1 DEF Telling, Sender, Opened
  <2>8. Sender' /\ Counted'
    BY <1>1, <2>1, <2>7 DEF Telling, Sender, Counted
  <2>9. Shows(w)'
    <3> SUFFICES ASSUME w \notin lossy' \cup missed', w \notin engine'.full
                 PROVE  Pending(w)' \/ Newest(w)'
      BY DEF Shows
    <3>1. dropped[w] = 0 /\ w \notin lossy \cup missed /\ w \notin engine.full
      BY <1>1, <1>3, <1>5
    <3>2. Pending(w) \/ Newest(w)
      BY <1>1, <1>4, <3>1 DEF Shows
    <3>3. Pending(w) => Pending(w)'
      BY <1>1 DEF Pending
    <3>4. Newest(w) => Newest(w)'
      BY <1>1, <1>2, <2>1 DEF Newest
    <3> QED  BY <3>2, <3>3, <3>4
  <2>10. ASSUME NEW v \in Viewers, v # w PROVE Account(v)' /\ Shows(v)'
    <3>1. Account(v)'
      BY <1>1, <1>2, <2>1, <2>10 DEF Telling, Account, InHand, Queued, Drawn
    <3>2. Newest(v) => Newest(v)'
      BY <1>1, <1>2, <2>1, <2>10, NewestSame
    <3> QED  BY <1>1, <1>2, <1>5, <2>1, <2>10, <3>1, <3>2 DEF Telling, Shows, Pending
  <2> QED  BY <2>3, <2>6, <2>8, <2>9, <2>10 DEF Telling
<1>6. CASE ~V!HasNews(w) /\ UNCHANGED <<viewer, owed, lossy, lit>>
  <2>1. fold' = fold /\ dropped' = dropped
    BY <1>1, <1>3, <1>6 DEF V!HasNews, V!Fresh, Telling, Hands
  <2> QED  BY <1>1, <1>6, <2>1, SameTelling
<1> QED  BY <1>5, <1>6 DEF V!Finish

LEMMA TellingStep ==
  ASSUME IsFiniteSet(Viewers), Telling, [V!Next]_(V!vars) PROVE Telling'
<1>1. V!Session \/ UNCHANGED V!vars =>
        UNCHANGED <<gate, channels, feeds, dropped, pad, engine, viewer, fold, owed, lit, lossy,
                    missed>>
  BY DEF V!Session, V!vars, V!sink, V!history
<1> QED  BY <1>1, SameTelling, HappensTelling, LoadTelling, SendTelling, LossTelling,
            MoveTelling, TakeTelling, FinishTelling DEF V!Next, V!Viewer

\* A viewer is told what it missed (LossIsTold), however slowly it reads and
\* however long its feeds, its frames and the session are.
THEOREM LossesAreTold == ASSUME IsFiniteSet(Viewers) PROVE V!Spec => []LossIsTold
<1>1. V!Init => Telling
  <2> SUFFICES ASSUME V!Init PROVE Telling
    OBVIOUS
  <2>1. Hands /\ Sender
    <3>1. /\ pad \in BOOLEAN /\ viewer = [v \in Viewers |-> "off"] /\ channels = {}
          /\ feeds = [v \in Viewers |-> <<>>] /\ lit = [v \in Viewers |-> {}]
          /\ fold = [v \in Viewers |-> [pads |-> <<>>, keys |-> 0]]
          /\ dropped = [v \in Viewers |-> 0] /\ owed = [v \in Viewers |-> 0]
          /\ engine = [at |-> "idle", event |-> {}, left |-> {}, full |-> {}]
      BY DEF V!Init, V!Each, V!Fresh, V!Idle
    <3>2. <<>> \in Seq(Events) /\ {} \in Events
      BY DEF Events
    <3>3. Hands
      BY <3>1, <3>2 DEF Hands, Phases
    <3> QED  BY <3>1, <3>3 DEF Sender
  <2>2. Opened = {} /\ gate = 0
    BY DEF V!Init, V!Each, Opened
  <2>3. Counted
    BY <2>2, FS_EmptySet DEF Counted
  <2>4. \A v \in Viewers : Account(v) /\ Shows(v)
    BY DEF V!Init, V!Each, V!Fresh, V!Idle, Account, InHand, Queued, Drawn, Shows
  <2> QED  BY <2>1, <2>3, <2>4 DEF Telling
<1>2. ASSUME Telling, NEW v \in Viewers
      PROVE  owed[v] = Len(feeds[v]) + Len(fold[v].pads) + fold[v].keys + dropped[v]
                       + V!Cardinality(engine.full \cap {v})
  <2>1. Account(v) /\ InHand(v) \in Nat
    BY <1>2, HandsFull DEF Telling
  <2>2. V!Cardinality(engine.full \cap {v}) = (IF v \in engine.full THEN 1 ELSE 0)
    <3>1. engine.full \cap {v} = (IF v \in engine.full THEN {v} ELSE {})
      OBVIOUS
    <3>2. \A S : V!Cardinality(S) = Cardinality(S)
      BY DEF V!Cardinality, Cardinality
    <3> QED  BY <3>1, <3>2, FS_Singleton, FS_EmptySet
  <2>3. owed[v] = InHand(v) + V!Cardinality(engine.full \cap {v})
    BY <2>1, <2>2 DEF Account
  <2> QED  BY <2>3 DEF InHand, Queued, Drawn
<1>3. ASSUME Telling, NEW v \in Viewers, viewer[v] \in {"poll", "write"},
             v \notin lossy \cup missed, owed[v] = 0, engine = V!Idle
      PROVE  lit[v] \subseteq {pad}
  <2>1. v \notin engine.full /\ ~Pending(v)
    BY <1>3 DEF V!Idle, Pending
  <2>2. /\ Account(v) /\ Shows(v)
        /\ Queued(v) \in Nat /\ Drawn(v) \in Nat /\ fold[v].keys \in Nat /\ dropped[v] \in Nat
    BY <1>3, HandsFull DEF Telling
  <2>3. Queued(v) + Drawn(v) + fold[v].keys + dropped[v] = 0
    BY <1>3, <2>1, <2>2 DEF Account, InHand
  <2>4. Queued(v) = 0 /\ Drawn(v) = 0 /\ dropped[v] = 0
    BY <2>2, <2>3, SumIsZero
  <2>5. Newest(v)
    BY <1>3, <2>1, <2>2, <2>4 DEF Shows
  <2>6. feeds[v] = <<>> /\ fold[v].pads = <<>>
    BY <1>3, <2>4 DEF Telling, Hands, Queued, Drawn
  <2> QED  BY <2>5, <2>6 DEF Newest
<1>4. ASSUME Telling, NEW v \in Viewers, viewer[v] \in {"poll", "write"}
      PROVE  v \in channels /\ gate > 0
  <2>1. v \in channels
    BY <1>4 DEF Telling, Sender
  <2>2. v \in Opened
    BY <1>4 DEF Opened
  <2> QED  BY <1>4, <2>1, <2>2, GateOpen DEF Telling
<1>5. Telling => LossIsTold
  BY <1>2, <1>3, <1>4 DEF LossIsTold, V!LossIsTold
<1> QED  BY <1>1, <1>5, TellingStep, PTL DEF V!Spec
=============================================================================
