------------------------------- MODULE Pieces --------------------------------
(***************************************************************************)
(* The components that share no state with any other, side by side: the     *)
(* latch of a pad (Latch), the escape gestures (EscapeGestures), the        *)
(* claiming of a keyboard (Claim), the following of a game (Game), the      *)
(* daemon's control loop (Control), the preset files (Presets) and the live *)
(* feed (Feed).  What two of them call by one name has two names here.      *)
(***************************************************************************)
EXTENDS Latch, Sequences

CONSTANTS
    Devices, Keys, LeftKey, RightKey, CtrlKeys, AltKeys, DelKeys, Threshold, \* EscapeGestures
    Boards, Model, Bluetooth, Versions, MaxEvents,                           \* Claim
    Pids, Launcher, Grace, Confirmations, MaxFailures, MaxSpawns,            \* Game
    Shapes, Patient, MaxWrites, MaxQueue,                                    \* Control
    Layouts, Empty, Default, AtOnce,                                         \* Presets
    Viewers, Queue, KeysPerFrame, MaxViewers, MaxDeltas                      \* Feed

VARIABLES
    det, escape, phys, cycles,
    node, off, store, op, outcome, moved, events,
    named, procs, child, state, misses, announced, age, hunt, failures, spawns, gap,
    run, report, loop, queue, session, panel, staged, generation, request, disk, late,
    live, json, tmp, unsynced, snapshot, backup, chosen, backed, doing,
    feeding, bound, gate, channels, feeds, dropped, pad, engine, viewer, fold,
    made, owed, lit, lossy, cut, missed

D == INSTANCE EscapeGestures WITH Boards <- Devices
W == INSTANCE Claim WITH Texts <- Versions
G == INSTANCE Game WITH Threshold <- Launcher
C == INSTANCE Control
F == INSTANCE Presets WITH session <- snapshot, named <- chosen, op <- doing
V == INSTANCE Feed WITH session <- feeding, queue <- feeds, MaxEvents <- MaxDeltas

----------------------------------------------------------------------------
\* The properties of each, under their own names; the latch's come with it.
SequencesAreDeliberate == D!SequencesAreDeliberate
StopIsOneBoards        == D!StopIsOneBoards

ClaimTakesOne     == W!ClaimTakesOne
ReleaseTellsTruth == W!ReleaseTellsTruth

NoFalseEnd == G!NoFalseEnd

PanelFollows        == C!PanelFollows
AppliedIsLiveMostly == C!AppliedIsLiveMostly

FileIsWhole   == F!FileIsWhole
NothingIsLost == F!NothingIsLost

BackupsOutlivePower == F!BackupsOutlivePower

LossIsTold == V!LossIsTold
=============================================================================
