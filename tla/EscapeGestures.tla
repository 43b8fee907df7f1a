---------------------------- MODULE EscapeGestures ----------------------------
(***************************************************************************)
(* One detector and the boards its capture thread reads: people press,     *)
(* release and hold keys on all of them, and boards come and go.           *)
(***************************************************************************)
EXTENDS EscapeDetector

CONSTANT Keys     \* the keys of a board

VARIABLES
  det,      \* the detector
  escape,   \* what the last stroke completed
  phys,     \* the keys physically down on each board
  cycles    \* releases of each escape key since anything else happened: not
            \* in the program, what a bystander would count, up to Threshold

vars == <<det, escape, phys, cycles>>

Init ==
  /\ det = NewDetector
  /\ escape = "none"
  /\ phys = [b \in Boards |-> {}]
  /\ cycles = NoCounts

\* A key moves, or repeats because it is held.
Stroke(b, k, isDown) ==
  /\ isDown \/ k \in phys[b]
  /\ phys' = [phys EXCEPT ![b] = IF isDown THEN @ \cup {k} ELSE @ \ {k}]
  /\ det' = Observe(det, b, k, isDown).det
  /\ escape' = Observe(det, b, k, isDown).escape
  /\ cycles' = IF escape \in {"left", "right", "stop"} \/ k \notin EscapeKeys
                 THEN [e \in EscapeKeys |-> IF e = k /\ ~isDown THEN 1 ELSE 0]
               ELSE IF isDown THEN cycles
               ELSE [cycles EXCEPT ![k] = Bump(@)]

\* The presence rescan finds the board gone.
Unplug(b) ==
  /\ phys' = [phys EXCEPT ![b] = {}]
  /\ det' = ForgetDevice(det, b)
  /\ UNCHANGED <<escape, cycles>>

Next ==
  \/ \E b \in Boards, k \in Keys, isDown \in BOOLEAN : Stroke(b, k, isDown)
  \/ \E b \in Boards : Unplug(b)

Spec == Init /\ [][Next]_vars

-----------------------------------------------------------------------------

TypeOK ==
  /\ det \in Detectors
  /\ escape \in {"none", "left", "right", "stop"}
  /\ phys \in [Boards -> SUBSET Keys]
  /\ cycles \in [EscapeKeys -> 0..Threshold]

\* Nobody escapes by accident: a sequence is reported only after the key was
\* released Threshold times with no other key and no other gesture between,
\* however long it was held and repeated (observe counts ups apart from downs).
SequencesAreDeliberate ==
  \A k \in EscapeKeys :
    escape = (IF k = LeftKey THEN "left" ELSE "right") => cycles[k] = Threshold

\* The emergency stop answers to one board alone: a stroke reports it exactly
\* when that board holds Ctrl, Alt and Del together, whatever the others hold
\* and whatever was held when a board was unplugged.
StopIsOneBoards ==
  [][\A b \in Boards :
       phys'[b] # phys[b] /\ (\E k \in Keys, isDown \in BOOLEAN : Stroke(b, k, isDown))
         => (escape' = "stop" <=> Combo(phys'[b]))]_vars

=============================================================================
