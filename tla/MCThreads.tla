------------------------------ MODULE MCThreads ------------------------------
(***************************************************************************)
(* Four components that share no state, under the fairness each of them     *)
(* justifies, one behaviour for each: `part` says which one moves, the      *)
(* others stay as they start.                                               *)
(***************************************************************************)
EXTENDS Deltas

VARIABLES
    part,
    named, procs, child, state, misses, announced, age, hunt, failures, spawns, gap,
    down, events, claim, escape, ctl, tt, windows, pc, sup, adapter, lost, refused, muted,
    presses, gestures, starts,
    run, report, loop, queue, session, panel, staged, generation, request, disk, late

G == INSTANCE Game WITH
    Pids <- 1..3, Threshold <- 1, Grace <- 2, Confirmations <- 3,
    MaxFailures <- 2, MaxSpawns <- 3

P == INSTANCE Panel WITH
    Keys <- {"k1"}, EventCap <- 2, Blocks <- TRUE, StrokesFail <- FALSE, AcksExpire <- FALSE,
    MaxPresses <- 1, MaxGestures <- 1, MaxStarts <- 2

C == INSTANCE Control WITH
    Shapes <- 1..2, Patient <- FALSE, MaxWrites <- 1, MaxQueue <- 1

Is(p) == part = p

ThreadsInit ==
    /\ part \in {"deltas", "game", "panel", "control"}
    /\ Init /\ G!Init /\ P!Init /\ C!Init
    /\ ~Is("game") => ~named /\ procs = [p \in 1..3 |-> "none"]
    /\ disk.shape = 1      \* shapes are only ever compared

gameVars    == <<named, procs, child, state, misses, announced, age, hunt, failures, spawns,
                gap>>
panelVars   == <<down, events, claim, escape, ctl, tt, windows, pc, sup, adapter, lost,
                refused, muted, presses, gestures, starts>>
controlVars == <<run, report, loop, queue, session, panel, staged, generation, request, disk,
                 late>>

DeltasRest  == <<part, gameVars, panelVars, controlVars>>
GameRest    == <<part, vars, panelVars, controlVars>>
PanelRest   == <<part, vars, gameVars, controlVars>>
ControlRest == <<part, vars, gameVars, panelVars>>

ThreadsNext ==
    \/ Is("deltas") /\ Next /\ UNCHANGED DeltasRest
    \/ Is("game") /\ G!Next /\ UNCHANGED GameRest
    \/ Is("panel") /\ P!Next /\ UNCHANGED PanelRest
    \/ Is("control") /\ C!Next /\ UNCHANGED ControlRest

all == <<part, vars, gameVars, panelVars, controlVars>>

\* The fairness of the component that moves, as its own module states it: one
\* condition here holds one of each, as only one of the four ever moves.
ThreadsSpec ==
    /\ ThreadsInit /\ [][ThreadsNext]_all
    /\ WF_all(\/ Is("deltas") /\ Retry /\ UNCHANGED DeltasRest
              \/ Is("game") /\ G!Poll /\ UNCHANGED GameRest
              \/ Is("panel") /\ P!PumpCtl /\ UNCHANGED PanelRest
              \/ Is("control") /\ C!Loop /\ UNCHANGED ControlRest)
    /\ WF_all(\/ Is("deltas") /\ Flush /\ UNCHANGED DeltasRest
              \/ Is("game") /\ G!Pass /\ UNCHANGED GameRest
              \/ Is("panel") /\ P!PumpEvent /\ UNCHANGED PanelRest
              \/ Is("control") /\ C!EndStopped /\ UNCHANGED ControlRest)
    /\ WF_all(\/ Is("deltas") /\ Flushed /\ UNCHANGED DeltasRest
              \/ Is("panel") /\ P!PumpEnds /\ UNCHANGED PanelRest)
    /\ WF_all(\/ Is("deltas") /\ Update /\ UNCHANGED DeltasRest
              \/ Is("panel") /\ P!Control /\ UNCHANGED PanelRest)
    /\ WF_all(\/ Is("deltas") /\ (Updated \/ Fails) /\ UNCHANGED DeltasRest
              \/ Is("panel") /\ P!Session /\ UNCHANGED PanelRest)
    /\ WF_all(\/ Is("deltas") /\ Drain /\ UNCHANGED DeltasRest
              \/ Is("panel") /\ P!Thread /\ UNCHANGED PanelRest)

----------------------------------------------------------------------------
\* The properties of the others, under their own names; Deltas' come with it.
QuitIsNoticed == G!QuitIsNoticed

StopIsHeard == P!StopIsHeard
QuitLetsGo  == P!QuitLetsGo

QuitEnds == C!QuitEnds
=============================================================================
