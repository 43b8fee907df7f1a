# Verification of KSX (KeyboardSplitterXboxPro)

KSX turns ordinary keyboards, and keyboard-encoder boards inside arcade panels,
into virtual Xbox and DualShock pads. It takes keys away from Windows, so what
can go wrong is not only a wrong pad state: a keyboard that never comes back, a
key that stays down on the desktop, a pad that keeps a button pressed, a session
that does not end. This directory holds TLA+ models of the parts where that is
decided, TLC runs that check them on small instances, and TLAPS proofs of the
properties that matter most.

    tlc -workers 2 -config EngineHolders.cfg MCEngine    one model-checking run
    tlapm EngineProofs.tla                              the proofs of one module

`PROJECT.json` lists the components, the runs, the mutants (a plausible bug per
property, which its run must catch), the source lines each definition stands
for, the hazards of the code, the disagreements between code and documentation
that the runs exhibit, and the theorems.

## 1. Inventory

All paths are under `crates/`. Data flows downwards; everything else is control.

    keyboards, mice            claimed panel boards
          |                            |
    Interception thread        WinUSB thread per board       ksx-capture
          \______ bounded event channel ______/
                        |
                  engine thread (Engine + DeltaTx)           ksx-core, supervisor
                        |  bounded delta channel
                  output thread (PadBackend)                 ksx-output
                        |
                  ViGEmBus / HidMaestro driver

    daemon control loop -- session thread (supervise) -- game watch
          \__ typethrough thread: owns the panel's keys when no game does

| Component | State | Operations | Hard because |
|---|---|---|---|
| Translation engine `ksx-core/engine.rs` | key bitset, consumed keys, holders of every control, active chords, macro runs and timers, turbo clocks | process event, tick, yank a device, swap tables, cancel macros, switch a macro | several holders share a control; chords steal keys from each other; deadlines, lateness, key events and cancellations meet on one instant |
| Escape detector `ksx-core/escape.rs` | modifiers per board, two press/release counters | observe, board unplugged | autorepeat and other boards interleave with a gesture |
| Capture threads `ksx-capture/{interception,winusb,escape,watchdog,composite}` | per thread: captured set, snapshot of what passes, reasons to pass, injected keys; shared: escape latch, event channel, end reasons | a stroke, a control message, the idle rescan, the watchdog's trip, losing a board, a panic, the join | threads share a latch that is loaded and stored separately; the driver thread acts on a snapshot; the consumer may stall; one thread may die alone |
| Typethrough and panel `ksx-platform/inject.rs`, `daemon/typethrough.rs`, `daemon/panel.rs` | mode (typing, forwarding, muted), keys held on the desktop, who borrows the panel, queues | pump of commands and events, attach, detach, loss, shutdown | three parties decide who owns the keys; acknowledgements expire; the select is random |
| Daemon control loop `daemon/mod.rs` | current session, staged bindings, state published | Start, PlayStaged, Stop, Reload, ApplyBindings, Quit, reaping | a session may end or be ended at any moment, by five parties |
| Supervisor `run/supervisor.rs` | pads, threads, blocking, escape baseline, game watch, stop reasons | start-up, the 50 ms pass, teardown, rearm, hotplug | plug failure half way; a driver that hangs in an update; every exit has to give the keyboards back |
| Delta delivery `run/supervisor.rs` (DeltaTx, channel, output thread) | pending state per slot, channel, pads shown | update, flush, stop, driver call, driver failure | the engine may never block; states coalesce while older ones wait in the channel |
| Game session and tracker `ksx-games` | Launched, Hunting, Tracking, missed polls | start, poll | launchers hand over to games between two polls; snapshots fail; ids are given again |
| Pad backends `ksx-output`, `vigem-client` | plugged pads, last report | plug, update, unplug, rumble | driver calls that fail or never return |
| HidMaestro link `ksx-hidmaestro` | a section of shared memory with a sequence number, the last frame and when | publish, keepalive, read | a seqlock with a driver in another process on the other side |
| Control pipe and live reload `daemon/{pipe,live}` | the request being served, what the running session was built from | write a file, send a command, poll for its outcome, swap or bounce | outcomes are read from shared state, by generation; waits give up; the tray acts meanwhile |
| Live feed `feed.rs`, `daemon/live_pipe.rs` | viewers, their queues and losses, the fast gate | publish, subscribe, fold, write, unsubscribe | the engine may not wait; a viewer may read as slowly as it likes |
| Learn mode `daemon/learn.rs` | one armed capture and its phase | arm, hit, cancel, expire | a hit races its cancellation |
| Claiming a board `ksx-platform/winusb.rs` | Windows' device tree and driver store | survey, plan or refuse, run a list of commands | an INF binds every board of a model; any command of the list may fail |
| Preset files `ksx-config/store.rs`, `mapping.rs`, `stage.rs`, `preset_edit.rs` | the preset, its temporary, its backups, the configuration that names it | map, save a macro, clear, restore, create, apply a stage | a crash or a power loss between any two file operations; two programs |
| Configuration, otherwise `ksx-config` | files | load, validate, migrate | text and schema |
| Plan, resolution, presence, id exhaustion | none over time | plan, resolve, scan | pure data |
| Data types `ksx-core` (presets, slots, staging, SOCD, diagonals) | none over time | conversions | widths and tables |
| Studio, cabinet, command line, importer, installer, platform services | user interface and operating-system calls | one request at a time | I/O |

How they interact: capture threads push events into one bounded channel and drop
what does not fit; the engine thread is its only reader and hands pad states to
the output thread through a channel it never blocks on; the supervisor talks to
both by control queues, reads the shared escape latch every 50 ms, and turns a
change of it into SetCaptured/SetPassthrough messages that the composite fans
out; the daemon's control loop starts and joins the supervisor and lends the
panel to it; the typethrough thread receives from both and from the board.

What makes each of them correct:

* **Engine.** A control is down exactly while something that may hold it is held;
  chords win over the rows they consume, by their own order; every timer belongs
  to a run; macros never lose time or cut a step short; every exit (unplug, swap,
  escape, switch) leaves the pad neutral; tick always returns.
* **Capture.** The emergency gestures always give the keyboards back and nothing
  takes them back unasked; no reason to pass is lost to another; a stalled
  consumer never swallows the keyboards; the session ends as a whole, with the
  worst reason, and nothing it injected stays down.
* **Panel.** A key of the panel is never left down on the desktop, never drives
  a pad and types at once, and the panel types whenever no session has it.
* **Delivery.** Pads move only forward through the engine's states, the newest is
  never lost, and the engine never waits for the driver.
* **Game.** The session ends after the game does, and not while one has been
  running all along; a launcher is given its whole grace to start it.
* **Session.** Pads are there before a keyboard is taken and leave after it is
  given back; every way out joins every thread and lets go of both.
* **Control loop.** The panel is a keyboard whenever no session runs; what was
  reported applied is in the running session; Quit always ends.
* **Preset files.** No crash leaves half a preset or a slot that names none, and
  what a whole-preset write replaces has been copied beside it first.
* **Claim.** A claim takes the board it was asked for and leaves one that types;
  a release that reports success gave the board back.
* **HidMaestro latch.** A driver sees whole frames, and the current one at rest.
* **Feed.** The engine never waits for a viewer, and a viewer that missed
  something is told so.

## 2. What is modelled, and where

### Engine (`Engine.tla`, instances in `MCEngine.tla`, proofs in `EngineProofs.tla` and `EngineScanProofs.tla`)

One stateful slot: `process_stateful` and everything below it, `tick`,
`yank_device`, `swap_tables`, `cancel_macros`, `set_macro_enabled`. Slots share
nothing but the clock, so one slot meets every order of calls the engine thread
can make. `down`, `consumed`, `active` are the code's bitsets; `held` is the
holder bitset (`<<"row", entry>>`, chords, macros, turbo endpoints); `run` is
the macro runtime, `timers` the armed deadlines, `pad` the published state.
Calls are atomic, because the engine thread runs them one at a time, except
`tick`: it is `TickBegin`, any number of `Pop` steps and `TickEnd`, so that a
tick that never ends is visible. Durations are milliseconds scaled down; a wake
may be `MaxLate` units late.

Abstractions: dense ids and bitsets are sets; the order in which a scan visits
holders is left open (the code's order is one outcome); analog mouse motion is
left out; a slot whose preset has only plain rows takes a shorter path in the
code, with the same release rule.

### Escape gestures and capture (`EscapeDetector.tla`, `EscapeGestures.tla`, `Capture.tla`, `MCCapture.tla`; proofs in `PiecesProofs.tla` and `CaptureProofs.tla`)

`EscapeDetector` is the pure machine; `EscapeGestures` drives it with people and
boards; `Capture` runs one detector per thread in the composite: the
Interception thread and one WinUSB thread per claimed board. A stroke is several
steps, because the latch is loaded, stored and mirrored by separate
instructions. The watchdog's clock is abstracted to "the consumer has been
behind for longer than allowed"; atomics are sequentially consistent (they guard
no data but themselves); the coordinator's broadcast to the children is one step.

### The claimed panel (`Panel.tla`, proofs in `PanelProofs.tla`)

The pump of `typethrough.rs` with its two channels and random select, the
`Typethrough` of `inject.rs`, `Panel`/`PanelSession`, the daemon's control loop
as far as it decides who owns the panel, and the session thread as far as it
mutes, captures and gives back. A gesture is made beside the key events, whose
strokes it consists of. Hotplug of other boards and the watchdog are part of
"the session ends by itself".

### Delivery to the pads (`PadStream.tla`, `Deltas.tla`, proofs in `DeltasProofs.tla`)

`PadStream` is the promise: a pad moves only forward through the states the
engine gave its slot. `Deltas` is the code: `DeltaTx` with one pending state per
slot, `flush`, the bounded channel, the output thread inside the driver call for
as long as the driver likes, its failure, and both threads' last flush. States
are numbered per slot in the order the engine made them.

### The launched game (`Game.tla`, proofs in `PiecesProofs.tla`)

`GameTracker::poll` in every state, `GameSession`, and a world that starts and
ends processes between two polls 1 unit apart and may give the id of a dead
process to any new one, as Windows does.

### The session (`Session.tla`, contract in `SessionOrder.tla`, proofs in `SessionProofs.tla`)

`supervise()` from its first statement to its outcome: the plug worker and its
deadline, the hook, the capture guard, the passes of the loop (escapes,
presence, game, workers, mail), hotplug, rearm, and every exit of the teardown
with its joins, the unwinding one included. Beside it run the output thread,
alone with the driver, the capture session with its control queue and latch, and
the engine thread; each may be slow and, with MayDie, die. A closed channel is
modelled as the message the receiver takes it for. What the threads do with
their events is in Capture, Engine, Deltas and Game. `SessionOrder` is the
contract the file's head calls "the two orders that matter"; KeepsOrder is the
refinement.

### The daemon's control loop and pipe (`Control.tla`, proofs in `PiecesProofs.tla`)

The control thread with each command's branch, the pipe thread's verbs that write
or command, the wait that polls the shared state for the outcome, the tray, and
the files. A file's contents are a version and a shape (what `SessionShape`
compares); `SETTLE_TIMEOUT` may expire at any poll unless `Patient`.

### Preset files (`Presets.tla`, proofs in `PresetsProofs.tla`)

Each writer loads, backs up, writes the temporary, renames and, for a stage,
writes the configuration, as steps of its own; each may fail, the program may be
killed and power may go between any two. `unsynced` has the files that were
written and not synced, and a power loss leaves of each of them all, a part or
nothing: the temporary before its sync, and the two kinds of backup, which are
plain copies and stay unsynced. A name is taken to be on the disk once a rename
or a create has returned, and a backup that vanishes uncovers no older one.
`Restore`, `ClearAll`, `SaveMacro`, `PlanNew` and the stage keep the code's
backup rules.

### Claiming a board (`Claim.tla`, proofs in `PiecesProofs.tla`)

The survey's verdicts, the refusals of `plan_claim` and `plan_release`, and the
commands of `apply_claim` and `apply_release` one by one, each of which may fail,
while boards come, go, are switched off or have their driver rolled back.
pnputil and the device tree are external, modelled from what they are run for.

### The HidMaestro latch (`Latch.tla`, contract in `Register.tla`, proofs in `PiecesProofs.tla`)

`Cadence::decide` and `publish` on one side, `read_into` with its retries on the
other. The bytes of a frame become visible in any order between the two stores of
the sequence number, which is counted modulo `Wrap`; the fences are taken to hold
what they enclose. `Register` is one frame replaced whole; IsRegister is the
refinement.

### The live feed (`Feed.tla`, proofs in `PiecesProofs.tla`)

`LiveSink` on the engine thread (the gate, the lookup of the viewers, one
`try_send` and one count at a time), subscribe and unsubscribe in their two
halves, `Fold` and `Pump::tick` on each viewer's thread, and a pipe write that
takes as long as it likes or fails. The count of off-panel presses is left out;
feedback travels as a pad's state does.

### Composites (`MCThreads.tla`, `Pieces.tla`, `MCPieces.tla`)

Several components share no state, and are model-checked in one run: a variable
`part` is chosen at the start, only that component moves, and each has all of
its own behaviours. `Pieces` declares the constants and the variables of seven of
them, Latch, EscapeGestures, Claim, Game, Control, Presets and Feed, and names
their properties; MCPieces runs it for safety, and PiecesProofs and
PresetsProofs prove about it with every constant left open. MCThreads holds
Deltas, and Game, Panel and Control once more, each under its fairness. Where
the components meet, they meet through the abstractions named above: Session
takes Capture, Engine, Deltas and Game as threads that obey or die, Control takes
Session as a thread that ends once told to, which is Session's LetsGo.

## 3. Runs

Each passing run has, for every property it checks, at least one mutant that
breaks it: a small change of the model that a bug in the code would make.

| Run | Properties | What it shows |
|---|---|---|
| EngineHolders | PadTruth, HeldIsLive, ChordPriority, TimersMatchRuns | three overlapping chords, an axis bound three ways, an auto-firing control with three sources, a macro that holds it flat and a mouse on the same controls: in every order of presses, releases, repeats, yanks, swaps and wakes the pad equals what is held, and an axis falls back to the opposite deflection still held |
| EngineMacros | LiveIsHeld, NoDrift, StepsAreSeen, TickReturns, RunsEnd | a repeating motion and a turbo macro that interrupt each other, late wakes, and a capture channel that may drop events: lateness never adds up, no step is cut below its sampling minimum, every tick returns and no run outlives its trigger, unless the trigger's own release was dropped |
| CaptureEscape | EscapeSticks, EscapeReachesDesks | an escape reaches the desk keyboards by their next rescan, and no order of the supervisor captures again behind it |
| CaptureEnd | ReasonsAreKept, WatchdogGuards, PanelsLetGo, OneEndsAll | a consumer that stalls or goes away, threads that panic, boards that leave, SendInput refused at will: no reason to let keys pass is lost, the watchdog is fresh at every capture, and the session ends as a whole with nothing injected left down |
| SessionLife | KeepsOrder, LetsGo, NothingIsLeft, SwitchesAgree | pads that fail to plug, threads that die, a hook that panics, gestures and boards that come and go at any moment: Session implements SessionOrder, every way out lets go of everything, and once every order is obeyed the supervisor's and the capture threads' switches agree |
| Threads (MCThreads) | NewestIsKept, StreamSpec, Settles; QuitIsNoticed; StopIsHeard, QuitLetsGo; QuitEnds | Deltas implements PadStream, loses no newest state and reaches it; the end of a followed game is noticed unless the id lives on in a stranger; a Stop or a Quit, whatever the session is doing, a Ctrl+Alt+Del counted after the session's baseline and a board pulled out under a running session end it, and a Quit lets go of the panel; Quit ends the daemon's loop behind whatever is in hand |
| Pieces (MCPieces) | SequencesAreDeliberate, StopIsOneBoards; ClaimTakesOne, ReleaseTellsTruth; NoFalseEnd; PanelFollows, AppliedIsLiveMostly; FileIsWhole, NothingIsLost; IsRegister; LossIsTold | gestures fire exactly when somebody makes them, on one board; claim and release do what they report, whatever fails; a followed game is declared over only if at some time since it was last seen none was running (a restart between two polls counts), and a hunt is given up only after its grace; every command of pipe and tray in every order leaves the panel right, and what was reported applied is live; no kill and no power loss tears a preset, and a whole-preset write has a complete copy of what it replaces as it replaces it, one writer at a time; Latch implements Register; a viewer's losses are told, and one that is served is listed behind an open gate |
| PanelKeys (Panel) | NoKeyStuck, IdleMeansTyping, NoDouble | two sessions, an escape, a full channel, refused strokes, every acknowledgement allowed to expire: no panel key stays down on the desktop, none types and plays at once, and a panel no session has types |

Runs that exhibit a disagreement between the code and what its comments or
tests say (each stops at the counterexample; PROJECT.json quotes the lines):

| Run | Property | What the code does |
|---|---|---|
| EngineShortStep | TickReturns | `tick` does not return for a repeating macro whose steps last 0 ms, which validation only warns about |
| CaptureForeignEscape | EscapeFreesEveryBoard | an escape made on a panel does not free the desk keyboards before the driver thread's idle rescan |
| PanelReload | FreshStartIsMuted | Reload starts a session with the last session's escape latch still up |
| ControlStaged | AppliedIsLive | while a staged setup plays, a map verb answers "bindings applied live" although the session goes on with the staged tables |

### Rules stated, and not kept by the code

More definitions state what a comment says and the code does not do. No run
checks them; with the name in place of the configuration's own properties TLC
shows the case.

| Property | Configuration | What happens |
|---|---|---|
| TurboStartsOnPress (`Engine`) | EngineHolders.cfg, PROPERTIES | after an escape (`cancel_macros`) the autorepeat of a key that is still down restarts the auto-fire |
| RunsStartOnPress (`Engine`) | EngineHolders.cfg, PROPERTIES | after a hot swap of the tables the autorepeat of a held trigger starts its macro (in EngineMacros.cfg, already after a press that the full channel dropped) |
| GestureFlipsLatch (`Capture`) | CaptureForeignEscape.cfg, PROPERTIES | two threads load the latch before either stores it, and two gestures toggle it once |
| NothingLeftHeld (`Capture`) | CaptureForeignEscape.cfg, INVARIANTS | a key that is down as its board is captured has its release suppressed and stays down in Windows |
| NoStopIsAbsorbed (`Panel`) | PanelReload.cfg with FairSpec, PROPERTY | a Ctrl+Alt+Del made after the panel was muted and before the session thread took its baseline is discarded with it |
| UncaptureFirst (`Session`) | SessionLife.cfg, PROPERTY | pads vanish under a keyboard that is taken when the output thread dies with the driver, or the supervisor unwinds |
| BeepTellsTruth (`Session`) | SessionLife.cfg, INVARIANT | in a session that blocks nothing the first gesture switches the supervisor's blocking on and beeps high, while it raises the capture threads' latch, which lets everything pass |
| PlugFailureIsTold (`Session`) | SessionLife.cfg, INVARIANT | the worker reports its failure and ends between the supervisor's look at the mailbox and its look at the thread: the failure's own reason is not reported |
| EveryLossIsTold (`Feed`) | Pieces.cfg, INVARIANT, in place of LossIsTold in Pieces | keys cut from a frame longer than KEYS_PER_FRAME are neither shown nor counted, though live_pipe.rs calls the queue the only lossy hop; an event also passes by a viewer that is listed while its half of the gate is still shut |
| BackupsOutlivePower (`Presets`) | Pieces.cfg, PROPERTY, in place of NothingIsLost | the copy a whole-preset write leaves is never synced, while the preset that replaces the original is: a power loss after the rename may take the only copy of what was there |
| FileIsWhole, NothingIsLost (`Presets`) | Pieces.cfg with `AtOnce = 2` | the daemon and the command line share one temporary file name, and each may rename the other's half-written text |
| ReleaseTellsTruth (`Claim`) | Pieces.cfg with `Versions = {1, 2}` | two packages of one model (written by different versions): `apply_release` deletes the first it finds, and the rescan binds the other |

Some were found by reading only. A twin board whose node is "removed" is not
seen by the refusal for shared hardware ids. A session backup of an earlier life
of the daemon is what "restore session" brings back when the first change of this
life was a clear, a restore or a stage. Restoring brings back the layout, not the
macros; a backup of a `.json` preset cannot be restored at all. An axis falls
back only to the opposite side: with a weaker deflection of the same side still
held it goes to its centre. An answer that comes after a pipe request gave up
can be taken for the next request's, which AppliedIsLiveMostly excludes (`late`); while
a request waits, a start made from the tray satisfies the wait for a staged play.
A session whose thread cannot be spawned leaves the run state at Starting. The
keepalive of the pad latch runs only with the output thread's own updates, so it
is a floor on the rate only while something publishes. From the spawn of the
engine to `session_started`, and from `session_ended` to the engine's join, the
feed takes bound boards for strangers; a supervisor that unwinds does not call
`session_ended`. A learn hit that lands after its cancellation overrides it.

The tracker of `ksx-games` follows a bare process id. If the game's id is given
to another process between two polls, the session follows that process; the
exception `Stranger` in QuitIsNoticed is exactly that case.

## 4. Bounds

| Bound | Where | Why it is enough |
|---|---|---|
| 5 keys, 3 chords, 1 axis, 4 buttons | EngineHolders | every pair of holders that can meet on a control does: key/chord/mouse/turbo/macro on A, two keys and the mouse on one axis, chords nested (`ab` in `abc`), vetoed (`bd` unless d) and competing for a key |
| 2 macros, 3 and 2 steps | EngineMacros | first, middle and last step, gap, restart, abort and both interrupt rules against each other; wh's steps equal their minimum, so lateness makes the minimum bite, fb's are longer, so NoDrift applies |
| LastInput, MaxTime | Engine | inputs arrive until LastInput and the clock runs to MaxTime, long enough for every run begun by then to end (RunsEnd, TickReturns) |
| MaxLate = 1 | Engine | a wake may be late by up to the shortest step |
| Threshold = 2 (gestures), 1 (capture) | Escape* | the code's 5; the counters count alike up to the threshold, and the capture runs need only that a gesture happens |
| 2 boards, one per kind of thread; MaxStrokes, MaxOrders | Capture* | two latch users are enough for every race on the latch; MaxStrokes is a gesture, its undo and a key held across them |
| 1 key, 1 press, 1 gesture, 2 sessions, EventCap 1 and 2 | Panel | keys are independent in the pump; a press and its release against a channel of one slot is the full channel, two slots hold a whole keystroke across a change of mode; the second session is what meets state left over from the first |
| 2 slots, Capacity 2, 3 states | Deltas | a state in the driver, one in the channel and one pending of the same slot, with another slot to overtake |
| 3 processes, Grace 2, Confirmations 3, MaxFailures 2 | Game | launcher, game and stranger; one failed snapshot fewer than the confirmations |
| 1 board, 2 pads, MaxOutside 2 | SessionLife | the second pad is the one that fails after the first is there; two gestures in one pass, or a gesture and a hotplug |
| 2 shapes, 2 writes (1 in MCThreads), 1 command waiting | Control | a write that hot swaps and one that bounces, the second while the first is being answered; one command is queued behind the one that runs; a single write can bounce, swap or fail under a Quit |
| 4 boards of 3 models, 2 outside events | Claim | a twin, another model, a Bluetooth board; one event to spoil the survey and one to spoil the command list |
| 2 layouts, 1 backup, 1 writer at a time | Presets | what is replaced and what replaces it differ; two writers at once are the broken case above; a `.json` preset, which differs only in what its backups can give back, starts as one that a slot names and that has no session backup yet |
| 2 bytes of 2 values, Wrap 6, 2 retries, keepalive 1 | Latch | two bytes make a torn frame; during one read the number can move by more than a publish and come nowhere near a whole turn of it, as in the code |
| 2 viewers, queue 2, 1 key per frame, 3 events | Feed | one event more than the queue holds, one viewer that reads while the other does not, a frame that must be cut |

`CHECK_DEADLOCK FALSE` stands where the modelled part may stop by right: the
player stops typing at the bound, the session is over, every process has ended.
That something which should happen does happen is what the liveness properties
are for. Symmetry is not used: the runs are small enough, and most check
liveness, for which it is not sound.

## 5. Fairness

* **Engine.** Weak fairness of TickBegin, Pop, TickEnd and Elapse: the engine
  thread is a loop with a timeout (`engine_thread`), it waits for nothing but its
  event channel, and its timeout is the next deadline. Keys owe nothing.
* **Capture.** Each thread goes on once a stroke has begun (no blocking call
  between), the coordinator polls its children, and a desk keyboard that is left
  alone falls idle for the two seconds after which the driver thread rescans. Not
  assumed: that the consumer drains the channel, that anybody types or orders.
* **Panel.** The pump takes from both of its channels: `crossbeam::select!` picks
  at random among the ready ones. Every wait of the daemon and of the session is
  a join or is bounded (ACK_TIMEOUT, the plug deadline). The player and the
  commands owe nothing.
* **Deltas.** The engine thread never blocks on the channel and wakes every
  millisecond while something is pending; a driver call returns or fails. A
  driver that hangs for ever is the run in which Updated/Fails would not be fair:
  the safety properties do not assume it.
* **Game.** The supervisor polls every 50 ms and the clock runs; the world owes
  nothing.
* **Session.** The supervisor's waits have bounds or are joins, a driver call
  returns, each thread reads its queue and ends once told to. A driver that hangs
  for ever keeps the pads, and nothing in the safety properties needs it to return.
* **Control.** The control thread runs, and a session that was told to stop does.
  Requests, the tray and sessions that end by themselves owe nothing.
* **Composites.** MCThreads gives the fairness of its components; one condition
  may name a step of each, because only one component ever moves in a behaviour.
  MCPieces, and so Presets, Latch, Claim, Feed and the gestures, is checked for
  safety only.

## 6. Proofs

TLAPS proves, for every value of the constants:

| Theorem | Says |
|---|---|
| PadIsTruthful (`EngineProofs`) | Spec => []PadTruth: a control is pressed exactly while some holder of it is held, and an axis is not at its centre while two held holders pull it opposite ways |
| TimersAlwaysMatch | Spec => []TimersMatchRuns: a timer is armed exactly for the runs that need one |
| StepsAreAlwaysSeen | Spec => StepsAreSeen: no step or turbo half is cut below its shortest visible time |
| LatenessDoesNotAddUp | Roomy /\ MaxLate \in Nat: Spec => []NoDrift |
| SwitchedOffStaysSilent | Spec => []SwitchedOffIsSilent: a macro whose switch, or whose slot's, is off is on no step and in no gap |
| TypeCorrect | Spec => []TypeOK |
| HeldStaysLive (`EngineScanProofs`) | Spec => []HeldIsLive: no holder is stale between calls |
| LiveStaysHeld | MouseKeys = {}: Spec => []LiveIsHeld: none is forgotten |
| ChordsResolve | IsFiniteSet(Keys): Spec => []ChordPriority |
| ReasonsAreIndependent (`CaptureProofs`) | Spec => []ReasonsAreKept |
| NobodySuppressesUnguarded | Spec => []WatchdogGuards |
| EscapesStick | Spec => EscapeSticks |
| PanelsAlwaysLetGo | Spec => []PanelsLetGo |
| NoKeyIsEverStuck (`PanelProofs`) | Spec => []NoKeyStuck |
| IdlePanelTypes | Spec => []IdleMeansTyping |
| NothingIsTypedTwice | Spec => NoDouble |
| TypeCorrect | Spec => []TypeOK |
| OneStatePerSlot (`DeltasProofs`) | Spec => []OnePerSlot: at most one state per slot is pending, and it is the newest |
| StatesStayInOrder | Spec => []InOrder: from the pad to the engine a slot's states are in order |
| PadsFollowTheStream | Spec => StreamSpec: Deltas implements PadStream |
| NewestStatesAreKept | Spec => []NewestIsKept: while both threads work, the newest state of every slot is on its pad or on the way to it |
| NothingIsLeftBehind (`SessionProofs`) | Spec => []NothingIsLeft |
| SessionKeepsOrder | Spec => KeepsOrder: Session implements SessionOrder |
| SwitchesComeToAgree | Spec => []SwitchesAgree |
| TypeCorrect | Spec => []TypeOK |
| LatchIsRegister (`PiecesProofs`) | an even Wrap, 0 \in Values: Spec => IsRegister: Latch implements Register |
| NobodyEscapesByAccident | a positive Threshold: D!Spec => []SequencesAreDeliberate |
| StopsAreOneBoards | a positive Threshold: D!Spec => StopIsOneBoards |
| ClaimsTakeOneBoard | W!Spec => ClaimTakesOne |
| ReleasesTellTheTruth | OneText: W!Spec => ReleaseTellsTruth |
| NoSessionEndsFalsely | MaxFailures < Confirmations, Grace at least 1: G!Spec => NoFalseEnd |
| ThePanelFollows | C!Spec => []PanelFollows |
| AppliedWritesAreLive | C!Spec => AppliedIsLiveMostly |
| LossesAreTold | IsFiniteSet(Viewers): V!Spec => []LossIsTold |
| PresetsStayWhole (`PresetsProofs`) | AtOnce = 1, Empty and Default in Layouts: F!Spec => []FileIsWhole |
| BackupsComeFirst | the same: F!Spec => NothingIsLost |

These are all the safety invariants and all the action properties and
refinements that the passing runs check. Every one follows the same way: an
invariant that every step keeps, checked by TLC before it was proved, with one
lemma per action or per operator that several actions share.

**Engine.** The assumption is `TablesAssumption`: what `EngineTables::build`
guarantees of the tables it hands over (as many deadlines as steps, natural
numbers, guards made of keys). PadTruth is inductive by itself, because every
call ends in a scan: ScanKeepsPadTruth shows for any list of scanned holders and
any answer of `holder_now` that the all-keys-up rule and the snap of opposite
axis values keep the pad equal to the held holders' bindings (an axis comes to
centre by a release that finds nothing opposite, or with everything let go); the
actions that scan nothing leave both sides alone or clear both. TimersMatchRuns is not: that a
popped timer is re-armed correctly needs the step to be within the macro and a
gap to belong to a macro with steps, and that a restarted run is legal needs the
switches. `SchedInv` is the strengthening: every macro's record is `MacOK` and
every turbo row's `TurOK`. One lemma per operator of the scheduler (begin,
cancel, start, key, interrupt, advance, sync of turbo) says it preserves them,
the step proof then has one step per action. StepsAreSeen and NoDrift add to it
when the armed deadlines fall due. NoDrift is stated for steps that leave the
lateness room (`Roomy`: after the first, a step is longer than its sampling
minimum by MaxLate): a step as short as its minimum is meant to be pushed on by a
late wake.

**The engine's scans.** HeldIsLive and LiveIsHeld say that the scan lists which
`sync`, `sync_key`, `release_device`, `apply_macro_moves` and `tick` build by hand
miss no holder that moved. Neither is inductive within a tick: `NoneStale` and
`NoneForgotten` exempt what the scheduler has marked, and `Quiet` says that a mark
is pending only while the tick runs and that only chords' keys are consumed.
`Covers` is what a scan list owes. LiveStaysHeld is for a keyboard alone: a
mouse's keys are scanned against the device whose event is handled, and a held
one may be dropped. ChordsResolve is about the recursive function in
`ActiveChords`: it has a solution, because a finite set of keys bounds how
specific a chord is, and each layer has a closed form, by a least counterexample
among the numbers.

**Capture.** ReasonsAreKept and WatchdogGuards are inductive together, once the
flags have their types (`Reasons`): only the driver thread publishes, and
whoever suppresses anew resets the watchdog. EscapeSticks needs no invariant: no
step publishes without looking at the latch. PanelsLetGo needs `Hearing`: a panel thread in the
middle of a stroke works on a board of its own, so its release on the way out,
by whichever way, releases what it injected.

**Panel.** `Shape` types the state; `Held` says that what Windows believes held
is what the thread remembers or what it refused to release, and that every
remembered key, and every press still in the channel, is owed a release: by a
finger, by a release behind it in the channel, or as one that was dropped. The
other two theorems are about words: who last told the panel to be muted or to
type. `Stages` places daemon, session and adapter, `Fresh` says a session
attaches once and under a number nobody had, and `Told` says whose word is the
last: the daemon's when there is no session, the muting one until the adapter
runs, and then the adapter's, which is the supervisor's or still in its queue. No
acknowledgement is assumed to arrive.

**Deltas.** From `DeltasAssumption` (a positive capacity). The invariant is laid
over `Way`, the concatenation of what the driver has, the channel and the
pending list. Each action takes away from the front of `Way`, moves along it, or
puts one newest state at its end in place of the slot's older pending one; that
the order survives is proved once, for subsequences (SubsequenceOrdered), and
each action names its embedding. The refinement follows: `Updated` moves one pad
from an older to a newer state of its own slot, every other action is a stutter
of PadStream. That no newest state is lost needs the invariant in one place: what
the driver takes is newer than what the pad shows, so an update that is older
than the newest cannot overwrite it.

**Session.** `Phases` says how far each thread can be for where `supervise` is;
NothingIsLeft is its last line. `Pacing` adds what the contract is about: the
output thread tears the pads down only after it is told to, which is after the
keyboards are free, and reports ready only once they are all plugged. With it
every action is a step of SessionOrder or a stutter. `Switches` carries
SwitchesAgree: the supervisor's switch follows the gestures it has seen, the
latch those that were made, and the last order in the queue says what the switch
says.

**Latch.** `Section` says what the shared bytes hold at each stage of a publish,
`Copy` that the number has moved by twice the publishes begun since the reader
loaded it, once round at most, and that as long as none began the copied bytes
are the settled frame's. Two equal numbers then mean that none began. The bound in
`Mark` (fewer publishes during one read than take the number round) is what the
code relies on as well: 2^31 frames would have to be published during one copy.

**Gestures.** `Bystander`: the detector's modifiers are those physically down,
and it has counted no more releases than a bystander would. A threshold of zero
would make every stroke a gesture; the code's is the constant 5.

**Claim.** `Survey`, `Claiming` and `Releasing` carry what the survey saw through
the commands that follow it, until the world moves (`moved`). ClaimTakesOne needs
no hypothesis. ReleaseTellsTruth needs that no model has packages of two versions
(`OneText`): with two, the code breaks it (section 3).

**Game.** `Followed`: while the tracker follows, its misses are no more than the
failed snapshots since a game was last seen, unless no game has run since. Fewer
failures in a row than confirmations is the bound of the model, and the reason
for the confirmations in the code. That the hunt lasts (HuntsLast) follows from
the actions, for a grace of at least 1; with none a launcher that exits at once
would be given up in the poll that finds it dead.

**Control.** `Muted` gives the panel's state for every stage of a command, the
failing ones included. AppliedIsLiveMostly needs `Served`, as long as no request
gave up: at most one write is on its way, for the one request that still waits
for it and has no report yet; and what was loaded for it, like the session once
it is reported, has what was written.

**Feed.** `Telling` counts, for each viewer, every event between the engine's
lookup of the viewers and the line that shows it or reports it lost, with the
engine in the middle of a send or of a count. Finitely many viewers, because a
publish visits them one at a time.

**Presets.** `Safe`: one program is at work, knows what its stage implies, and
from the copy to the rename the backup holds what is about to go. It is proved
for one writer at a time; with two, the shared name of the temporary file breaks
both properties (section 3).

What is left to TLC: liveness under fairness, which is out of the prover's reach
(TickReturns, RunsEnd, EscapeReachesDesks, StopIsHeard, QuitLetsGo, Settles,
QuitIsNoticed, OneEndsAll, LetsGo, QuitEnds), ENABLED, and the counterexamples of
the violated runs. No module uses a RECURSIVE operator. The engine's LiveIsHeld
with a mouse bound is neither proved nor checked.

The TypeOK of Engine, Panel and Session is proved; those of Capture,
EscapeGestures, Game and Claim document the shape of the state, and what the
proofs need of it is part of their invariants, as in Deltas. SwitchedOffIsSilent,
OnePerSlot and InOrder are proved and checked by no run.

## 7. Not modelled

* **Learn mode**: one capture with a generation; planned.
* **The control pipe itself** (instances, framing, access), and the verbs that
  only read, open a window or a folder: Control starts where a request is parsed.
* **Of Control**: the profile a start remembers (`previous_game`), the health
  sample, what the outcome texts say.
* **Of HidMaestro**: opening sections, creating and destroying controllers,
  feedback, and the arithmetic of a frame.
* **Configuration**: schema, validation and migration are text in, text out, in
  one thread.
* **Plan, resolution, presence, exhaustion, core data types, reports**: pure
  functions of data. SOCD and diagonal tables are planned as operators against a
  reference definition.
* **Studio, cabinet, tray, command line, importer, installer, drivers, site,
  platform services, record and replay**: user interface, packaging and calls to
  the operating system; their requests reach the modelled parts as the commands
  those parts take.

## 8. Plan

1. `Engine`, `EscapeDetector`, `Capture`, `Panel`, `Deltas`, `Game`: done, with
   the runs of section 3 and the proofs of section 6.
2. `Session` against `SessionOrder`, `Latch` against `Register`, `Control`,
   `Presets`, `Claim`, `Feed`: done.
3. Proofs: every safety property of the passing runs is proved. Left: the types
   of `Capture`, `Game`, `Claim` and `EscapeGestures`; LiveIsHeld with a mouse,
   once it is stated which of a mouse's keys may be forgotten; the exceptions of
   NoDouble and AppliedIsLiveMostly, each shown to be needed by a run.
4. `Learn`: the one-shot capture, its expiry and its cancellation.
5. SOCD and diagonals as pure operators against a reference definition.

Order: what can leave a keyboard or a pad in the wrong state first, what can lose
a file next, what can only show something stale last.
