-------------------------------- MODULE Game --------------------------------
(***************************************************************************)
(* The life of a launched game (ksx-games): GameSession starts it, and      *)
(* GameTracker decides, poll by poll, from the process handle, a snapshot   *)
(* of the process list and the clock, when the session is over.  The world  *)
(* runs on between two polls: processes end, others start.                  *)
(***************************************************************************)
EXTENDS Naturals, FiniteSets

CONSTANTS
    Pids,           \* the process ids of the system
    Threshold,      \* launcher_threshold_ms
    Grace,          \* handoff_grace_ms
    Confirmations,  \* exit_confirmations
    MaxFailures,    \* bound: snapshots that fail in a row
    MaxSpawns       \* bound: processes the world starts

\* 0 is no process id; the grace and the confirmations are at least 1.

VARIABLES
    named,      \* the profile has a process_name
    procs,      \* what runs under each id: none, game (of that name), other
    child,      \* the process the handle holds: its id (0: no handle) and whether it lives
    state,      \* TrackState: at, and the pid of Tracking
    misses,     \* GameTracker::misses
    announced,  \* GameTracker::announced
    age,        \* time since started_ms, up to Threshold + 1
    hunt,       \* time since LauncherHandoff's since_ms, up to Grace
    failures,   \* snapshots that failed in a row
    spawns,         \* bound: processes started so far
    gap         \* no game has run at some time since the tracker last saw one

world   == <<procs, child, spawns>>
tracker == <<state, misses, announced, age, hunt, failures>>
vars    == <<named, gap, world, tracker>>

----------------------------------------------------------------------------
At(s) == [at |-> s, pid |-> 0]
Following(p) == [at |-> "tracking", pid |-> p]

Games(table) == {p \in Pids : table[p] = "game"}
GameRuns == Games(procs) # {}

Init ==
    /\ named \in BOOLEAN
    /\ procs \in [Pids -> {"none", "other"}]
    /\ child = [pid |-> 0, alive |-> FALSE]
    /\ state = At("idle") /\ misses = 0 /\ announced = FALSE
    /\ age = 0 /\ hunt = 0 /\ failures = 0
    /\ spawns = 0
    /\ gap = TRUE

----------------------------------------------------------------------------
(* The world                                                                *)

Free(p) == procs[p] = "none"

\* A process starts: the launcher's game, a restart of it, or anything else.
Spawn(p, name) ==
    /\ Free(p) /\ spawns < MaxSpawns
    /\ procs' = [procs EXCEPT ![p] = name]
    /\ spawns' = spawns + 1
    /\ UNCHANGED <<named, gap, child, tracker>>

\* A process ends; the handle says so of the launched one, whatever its id.
Exit(p) ==
    /\ procs[p] # "none"
    /\ procs' = [procs EXCEPT ![p] = "none"]
    /\ child' = [child EXCEPT !.alive = @ /\ child.pid # p]
    /\ gap' = (gap \/ Games(procs') = {})
    /\ UNCHANGED <<named, spawns, tracker>>

Pass ==
    /\ age' = IF age <= Threshold THEN age + 1 ELSE age
    /\ hunt' = IF hunt < Grace THEN hunt + 1 ELSE hunt
    /\ UNCHANGED <<named, gap, world, state, misses, announced, failures>>

----------------------------------------------------------------------------
(* GameSession::start                                                       *)

\* give_up: terminal, told once, and no reason to stop.
GiveUp ==
    /\ state' = At("unresolvable") /\ announced' = TRUE

\* An executable: its handle is kept.
StartExecutable(p, name) ==
    /\ state.at = "idle" /\ Free(p) /\ spawns < MaxSpawns
    /\ procs' = [procs EXCEPT ![p] = name]
    /\ spawns' = spawns + 1
    /\ child' = [pid |-> p, alive |-> TRUE]
    /\ state' = At("running") /\ misses' = 0 /\ age' = 0
    /\ UNCHANGED <<named, gap, announced, hunt, failures>>

\* A protocol URL: nothing to hold, the hunt begins at once.
StartProtocol ==
    /\ state.at = "idle"
    /\ misses' = 0 /\ age' = 0
    /\ \/ named /\ state' = At("handoff") /\ hunt' = 0 /\ UNCHANGED <<announced>>
       \/ ~named /\ GiveUp /\ UNCHANGED hunt
    /\ UNCHANGED <<named, gap, world, failures>>

----------------------------------------------------------------------------
(* GameSession::poll                                                        *)

\* A snapshot: the ids a process of the wanted name has, none when it failed.
Snapshot(seen) ==
    \/ seen = procs /\ failures' = 0
    \/ /\ seen = [p \in Pids |-> "none"]
       /\ failures < MaxFailures /\ failures' = failures + 1

Latch(seen) ==
    /\ \E p \in Games(seen) : state' = Following(p)
    /\ misses' = 0 /\ gap' = FALSE
    /\ UNCHANGED <<announced>>

\* observe_handoff, the hunt having lasted time.
Hunt(seen, time) ==
    /\ hunt' = time
    /\ \/ Latch(seen)
       \/ /\ Games(seen) = {} /\ time >= Grace
          /\ GiveUp /\ UNCHANGED <<gap, misses>>
       \/ /\ Games(seen) = {} /\ time < Grace
          /\ UNCHANGED <<gap, announced, misses>>
          /\ state' = At("handoff")

\* observe_running: the handle is dead.  Long-lived: it was the game.  Else it
\* was a launcher, and the hunt begins in this very poll.
PollRunning ==
    /\ state.at = "running" /\ ~child.alive
    /\ \E seen \in {procs, [p \in Pids |-> "none"]} :
         /\ Snapshot(seen)
         /\ \/ /\ age > Threshold /\ state' = At("exited")
               /\ UNCHANGED <<gap, misses, announced, hunt>>
            \/ age <= Threshold /\ named /\ Hunt(seen, 0)
            \/ age <= Threshold /\ ~named /\ GiveUp /\ UNCHANGED <<gap, hunt, misses>>
    /\ UNCHANGED <<named, world, age>>

PollHandoff ==
    /\ state.at = "handoff"
    /\ \E seen \in {procs, [p \in Pids |-> "none"]} : Snapshot(seen) /\ Hunt(seen, hunt)
    /\ UNCHANGED <<named, world, age>>

\* Mutant: one miss is an exit.
Miss_AtOnce ==
    /\ misses' = misses + 1
    /\ state' = At("exited")

\* Mutant: misses are not counted.
Miss_Forgets ==
    /\ misses' = 0
    /\ state' = IF misses + 1 >= Confirmations THEN At("exited") ELSE state

\* A miss: the exit is real once enough of them came in a row.
Miss ==
    /\ misses' = misses + 1
    /\ state' = IF misses + 1 >= Confirmations THEN At("exited") ELSE state

\* observe_tracking: the id is still listed; or another process of the name
\* replaced it; or nothing by that name.
PollTracking ==
    /\ state.at = "tracking"
    /\ \E seen \in {procs, [p \in Pids |-> "none"]} :
         /\ Snapshot(seen)
         /\ \/ /\ seen[state.pid] # "none"
               /\ misses' = 0 /\ gap' = (seen[state.pid] # "game" /\ gap)
               /\ UNCHANGED <<state, announced>>
            \/ seen[state.pid] = "none" /\ Latch(seen)
            \/ /\ seen[state.pid] = "none" /\ Games(seen) = {} /\ Miss
               /\ UNCHANGED <<gap, announced>>
    /\ UNCHANGED <<named, world, age, hunt>>

\* Unresolvable: told already, or told now; idle and exited have nothing to do.
PollGivenUp ==
    /\ state.at = "unresolvable"
    /\ announced' = TRUE
    /\ UNCHANGED <<named, gap, world, state, misses, age, hunt, failures>>

Poll == PollRunning \/ PollHandoff \/ PollTracking \/ PollGivenUp

----------------------------------------------------------------------------
Next ==
    \/ \E p \in Pids : Exit(p) \/ \E name \in {"game", "other"} :
                                     Spawn(p, name) \/ StartExecutable(p, name)
    \/ StartProtocol \/ Pass \/ Poll

Spec == Init /\ [][Next]_vars

\* The supervisor polls every 50 ms and the clock runs; the world owes nothing.
FairSpec == Spec /\ WF_vars(Poll) /\ WF_vars(Pass)

----------------------------------------------------------------------------
(* Properties                                                               *)

\* The types, and a miss count below the confirmations while it matters.
TypeOK ==
    /\ named \in BOOLEAN /\ procs \in [Pids -> {"none", "game", "other"}]
    /\ child \in [pid : Pids \union {0}, alive : BOOLEAN]
    /\ \/ state \in {At(s) : s \in {"idle", "running", "handoff", "exited", "unresolvable"}}
       \/ state \in {Following(p) : p \in Pids} /\ misses < Confirmations
    /\ misses \in 0..Confirmations /\ announced \in BOOLEAN
    /\ age \in 0..Threshold + 1 /\ hunt \in 0..Grace
    /\ failures \in 0..MaxFailures
    /\ spawns \in 0..MaxSpawns /\ gap \in BOOLEAN

\* "One empty result must never end a session" (EXIT_CONFIRMATIONS): a session
\* whose game was found ends only if at some time since the game was last seen
\* none was running, however snapshots fail, fewer in a row than confirmations.
\* And a launcher that handed over is given its whole grace: the hunt for a game
\* of a known name is given up only after it, and not in a poll that could see one.
NoFalseEnd ==
    [][/\ state.at = "tracking" /\ state'.at = "exited" => gap
       /\ named /\ state.at # "unresolvable" /\ state'.at = "unresolvable" =>
            /\ state.at = "handoff" /\ hunt >= Grace
            /\ GameRuns => failures' > 0]_vars

\* A session that follows its game ends once the game is gone for good, unless
\* a stranger that was given its id lives on.
Stranger == state.at = "tracking" /\ procs[state.pid] = "other"
QuitIsNoticed == <>[](~GameRuns /\ ~Stranger) => <>[](state.at # "tracking")
============================================================================
