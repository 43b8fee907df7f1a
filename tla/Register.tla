------------------------------ MODULE Register ------------------------------
(***************************************************************************)
(* What the section shared with a pad driver promises: it holds one frame,  *)
(* replaced whole, and a reader gets the frame it holds or no frame at all. *)
(***************************************************************************)
CONSTANTS Frames, Blank

VARIABLES
    frame,      \* what the pad is to show
    answer      \* what the last read returned: a frame, or none of them

Init == frame = Blank /\ answer = {}

Write == frame' \in Frames /\ answer' = answer
Read  == answer' = {frame} /\ frame' = frame
Fail  == answer' = {} /\ frame' = frame

Spec == Init /\ [][Write \/ Read \/ Fail]_<<frame, answer>>
=============================================================================
