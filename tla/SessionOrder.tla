---------------------------- MODULE SessionOrder ----------------------------
(***************************************************************************)
(* "The two orders that matter" of run/supervisor.rs, as a contract: pads   *)
(* are all there before a keyboard is taken, no pad leaves while one is     *)
(* taken, and a session that is closing lets go of both.  Only a driver     *)
(* whose thread dies, or a supervisor that unwinds, excuses the pads from   *)
(* waiting; nothing excuses them from leaving.                              *)
(***************************************************************************)
EXTENDS Naturals

CONSTANT Pads       \* how many pads the session plugs

VARIABLES
    plugged,    \* pads on the bus
    taken,      \* some keyboard is suppressed
    closing,    \* the session has decided to end, or has died
    broken      \* the output thread died, or the supervisor unwound

vars == <<plugged, taken, closing, broken>>

Init == plugged = 0 /\ ~taken /\ ~closing /\ ~broken

Plug ==
    /\ ~taken /\ plugged < Pads /\ plugged' = plugged + 1
    /\ UNCHANGED <<taken, closing, broken>>

Unplug ==
    /\ plugged > 0 /\ (~taken \/ broken)
    /\ plugged' \in 0 .. plugged - 1
    /\ UNCHANGED <<taken, closing, broken>>

Take ==
    /\ plugged = Pads \/ broken
    /\ taken' = TRUE
    /\ UNCHANGED <<plugged, closing, broken>>

Free ==
    /\ taken' = FALSE
    /\ UNCHANGED <<plugged, closing, broken>>

Close ==
    /\ closing' = TRUE
    /\ UNCHANGED <<plugged, taken, broken>>

\* A dying output thread takes its pads along.
Break ==
    /\ broken' = TRUE
    /\ plugged' \in {0, plugged} /\ closing' \in {closing, TRUE}
    /\ UNCHANGED taken

Next == Plug \/ Unplug \/ Take \/ Free \/ Close \/ Break

Spec == Init /\ [][Next]_vars

\* What closes, or breaks, ends with nothing taken and nothing plugged.
Over == closing \/ broken ~> [](~taken /\ plugged = 0)
=============================================================================
