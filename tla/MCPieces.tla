------------------------------- MODULE MCPieces -------------------------------
(***************************************************************************)
(* One behaviour for each of the components of Pieces: `part` says which    *)
(* one moves, the others stay as they start.  Checking them side by side    *)
(* would only multiply their states.                                        *)
(***************************************************************************)
EXTENDS Pieces

VARIABLE part

MCModel == <<"a", "a", "b", "c">>

Is(p) == part = p

PiecesInit ==
    /\ part \in {"latch", "gestures", "claim", "game", "control", "presets", "feed"}
    /\ Init /\ D!Init /\ V!Init
    /\ W!Init /\ off = {} /\ (~Is("claim") => node = [b \in Boards |-> "absent"])
    /\ G!Init /\ (~Is("game") => ~named /\ procs = [p \in Pids |-> "none"])
    /\ C!Init /\ disk.shape = 1      \* shapes are only ever compared
    /\ F!Init /\ (~Is("presets") => live = F!None /\ snapshot = F!None)
    \* a .json preset is one that a slot names and no daemon has copied yet
    /\ json => chosen /\ snapshot = F!None

gestureVars == <<det, escape, phys, cycles>>
claimVars   == <<node, off, store, op, outcome, moved, events>>
gameVars    == <<named, procs, child, state, misses, announced, age, hunt, failures, spawns,
                 gap>>
controlVars == <<run, report, loop, queue, session, panel, staged, generation, request, disk,
                 late>>
presetVars  == <<live, json, tmp, unsynced, snapshot, backup, chosen, backed, doing>>
feedVars    == <<feeding, bound, gate, channels, feeds, dropped, pad, engine, viewer,
                 fold, made, owed, lit, lossy, cut, missed>>

PiecesNext ==
    \/ /\ Is("latch") /\ Next
       /\ UNCHANGED <<part, gestureVars, claimVars, gameVars, controlVars, presetVars, feedVars>>
    \/ /\ Is("gestures") /\ D!Next
       /\ UNCHANGED <<part, vars, claimVars, gameVars, controlVars, presetVars, feedVars>>
    \/ /\ Is("claim") /\ W!Next
       /\ UNCHANGED <<part, vars, gestureVars, gameVars, controlVars, presetVars, feedVars>>
    \/ /\ Is("game") /\ G!Next
       /\ UNCHANGED <<part, vars, gestureVars, claimVars, controlVars, presetVars, feedVars>>
    \/ /\ Is("control") /\ C!Next
       /\ UNCHANGED <<part, vars, gestureVars, claimVars, gameVars, presetVars, feedVars>>
    \/ /\ Is("presets") /\ F!Next
       /\ UNCHANGED <<part, vars, gestureVars, claimVars, gameVars, controlVars, feedVars>>
    \/ /\ Is("feed") /\ V!Next
       /\ UNCHANGED <<part, vars, gestureVars, claimVars, gameVars, controlVars, presetVars>>

PiecesSpec ==
    PiecesInit
    /\ [][PiecesNext]_<<part, vars, gestureVars, claimVars, gameVars, controlVars, presetVars,
                        feedVars>>
=============================================================================
