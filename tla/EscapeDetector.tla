---------------------------- MODULE EscapeDetector ----------------------------
(***************************************************************************)
(* The emergency gestures (ksx-core/src/escape.rs): a pure state machine   *)
(* one capture thread feeds with every stroke of every board it reads.     *)
(* A detector is a record [mods, downs, ups]: mods[d] are the modifiers    *)
(* down on board d, and downs and ups count the strokes of the two escape  *)
(* keys since anything else was typed.  A count stops at Threshold, which  *)
(* is all the code compares it with.                                       *)
(***************************************************************************)
EXTENDS Naturals, FiniteSets

CONSTANTS
  Boards,                     \* the devices a detector may hear
  LeftKey, RightKey,          \* the two escape keys, LeftControl and RightControl
  CtrlKeys, AltKeys, DelKeys, \* the keys of Ctrl+Alt+Del, either side
  Threshold                   \* press and release cycles that make a gesture

ModKeys    == CtrlKeys \cup AltKeys \cup DelKeys
EscapeKeys == {LeftKey, RightKey}

NoCounts  == [k \in EscapeKeys |-> 0]
Detectors == [mods : [Boards -> SUBSET ModKeys],
              downs : [EscapeKeys -> 0..Threshold], ups : [EscapeKeys -> 0..Threshold]]

NewDetector == [mods |-> [b \in Boards |-> {}], downs |-> NoCounts, ups |-> NoCounts]

ResetCounters(det) == [det EXCEPT !.downs = NoCounts, !.ups = NoCounts]

\* Mutant: a board that left keeps its modifiers.
ForgetDevice_Keep(det, b) == det

\* forget_device: an unplugged board leaves no combo half armed.
ForgetDevice(det, b) == [det EXCEPT !.mods[b] = {}]

\* The modifiers of one board follow its own strokes.
Hear(det, b, k, isDown) ==
  IF k \notin ModKeys THEN det
  ELSE [det EXCEPT !.mods[b] = IF isDown THEN @ \cup {k} ELSE @ \ {k}]

Bump(n) == IF n < Threshold THEN n + 1 ELSE n

Count(det, k, isDown) ==
  IF isDown THEN [det EXCEPT !.downs[k] = Bump(@)] ELSE [det EXCEPT !.ups[k] = Bump(@)]

\* The combo is one board's own: all three parts down on it.
Combo(mods) == mods \cap CtrlKeys # {} /\ mods \cap AltKeys # {} /\ mods \cap DelKeys # {}

\* Mutant: presses alone complete a sequence, so a held key repeats its way in.
Complete_DownsOnly(det, k) == det.downs[k] = Threshold

Complete(det, k) == det.downs[k] = Threshold /\ det.ups[k] = Threshold

\* observe: the detector after a stroke, and the gesture it completed.  The
\* combo is tested first; any other key clears the counts of both escape keys.
Observe(det, b, k, isDown) ==
  LET heard   == Hear(det, b, k, isDown)
      counted == Count(heard, k, isDown)
      Reset(d, e) == [det |-> ResetCounters(d), escape |-> e]
  IN IF Combo(heard.mods[b]) THEN Reset(heard, "stop")
     ELSE IF k \notin EscapeKeys THEN Reset(heard, "none")
     ELSE IF Complete(counted, LeftKey) THEN Reset(counted, "left")
     ELSE IF Complete(counted, RightKey) THEN Reset(counted, "right")
     ELSE [det |-> counted, escape |-> "none"]

=============================================================================
