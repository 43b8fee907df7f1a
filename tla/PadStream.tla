----------------------------- MODULE PadStream -----------------------------
(***************************************************************************)
(* What the way from the engine to the virtual pads promises, whatever the  *)
(* queues in between do: a pad only ever moves forward through the states   *)
(* the engine gave its slot.  It may skip some (a state is a snapshot, not  *)
(* an edit), it never shows one it has already left, and never one of       *)
(* another slot.  States are numbered in the order the engine produced them. *)
(***************************************************************************)
EXTENDS Naturals

CONSTANT Slots

VARIABLES
    target,     \* the newest state of each slot
    shown       \* the state its pad is in

Init == target = [s \in Slots |-> 0] /\ shown = [s \in Slots |-> 0]

Change(s) ==
    /\ target' = [target EXCEPT ![s] = @ + 1]
    /\ UNCHANGED shown

Show(s) ==
    /\ \E n \in shown[s] + 1 .. target[s] : shown' = [shown EXCEPT ![s] = n]
    /\ UNCHANGED target

Next == \E s \in Slots : Change(s) \/ Show(s)

Spec == Init /\ [][Next]_<<target, shown>>
============================================================================
