------------------------------- MODULE MCCapture -------------------------------
(* Small capture sessions for TLC: a desk keyboard and claimed panels.        *)
EXTENDS Capture

CONSTANTS desk, p1, lctrl, alt, del, a

\* The desk keyboard gives up the keys a preset binds, a panel all of them.
MCTaken == [b \in Boards |-> IF b = desk THEN Keys \cap {lctrl, a, del} ELSE Keys]
AllBoards == {Boards}
=============================================================================
