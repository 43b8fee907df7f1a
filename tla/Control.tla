------------------------------- MODULE Control -------------------------------
(***************************************************************************)
(* The daemon: the control loop that owns the one session, the pipe thread  *)
(* that turns requests into commands and polls the shared state for what    *)
(* came of them, the tray that sends commands and waits for nothing, and    *)
(* the files all of them mean (ksx-backend daemon/mod.rs, pipe.rs, live.rs).*)
(*                                                                          *)
(* What is on disk is a version of the bindings and a shape: what of a plan *)
(* SessionShape compares.  A session is its plan and how far its thread is. *)
(***************************************************************************)
EXTENDS Naturals, Sequences

CONSTANTS
    Shapes,      \* the shapes a plan can have
    Patient,     \* no request reaches SETTLE_TIMEOUT
    MaxWrites,   \* bound: the writes made
    MaxQueue     \* bound: the commands waiting

Plans == [version : 0..MaxWrites, shape : Shapes, staged : BOOLEAN]

VARIABLES
    \* DaemonState, under its lock
    run,         \* RunState: its word, and of a running one its slots
    report,      \* apply: the last ApplyReport
    \* the control thread
    loop,        \* what it is doing
    queue,       \* the commands it has yet to receive
    session,     \* {} or the one LiveSession
    panel,       \* the panel is muted for a session
    staged,      \* the factory's staged override: {} or the one plan
    generation,  \* apply_generation
    \* the pipe thread
    request,     \* the request being served
    \* the files
    disk,
    \* not in the program: a request gave up before its command was done
    late

control == <<loop, session, panel, staged, generation>>
state   == <<run, report>>
vars    == <<state, control, queue, request, disk, late>>

Is(word)     == [is |-> word, slots |-> 0]
Running(p)   == [is |-> "running", slots |-> p.shape]

Rest     == [at |-> "idle", why |-> "none", plan |-> {}]
NoReq    == [verb |-> "none", at |-> "idle", base |-> Is("stopped"), gen |-> 0,
             saw |-> FALSE, needs |-> 0]
NoReport == [gen |-> 0, ok |-> FALSE, hot |-> FALSE, restarted |-> FALSE]

Init ==
    /\ run = Is("stopped") /\ report = NoReport
    /\ loop = Rest /\ queue = <<>> /\ session = {} /\ panel = FALSE
    /\ staged = {} /\ generation = 0 /\ request = NoReq
    /\ disk \in [version : {0}, shape : Shapes]
    /\ late = FALSE

Busy == run.is \in {"starting", "running"}

----------------------------------------------------------------------------
(* The session thread                                                       *)

SessionOnly == UNCHANGED <<state, loop, queue, panel, staged, generation, request, disk, late>>

\* The engine exists: supervise publishes its HotSwap.
GoLive ==
    /\ \E s \in session : s.at = "boot" /\ ~s.stop /\ session' = {[s EXCEPT !.at = "live"]}
    /\ SessionOnly

\* It ends: told to stop, by a game's exit, an escape, a driver.
End ==
    /\ \E s \in session : s.at # "over" /\ session' = {[s EXCEPT !.at = "over"]}
    /\ SessionOnly

----------------------------------------------------------------------------
(* The control loop                                                         *)

Over == \A s \in session : s.at = "over"

\* reap, join done: what the session made of itself.
Reaped == session' = {} /\ run' \in {Is("stopped"), Is("failed")}

\* A session that ended on its own.
Reap ==
    /\ loop.at = "idle" /\ session # {} /\ Over
    /\ Reaped /\ panel' = FALSE
    /\ UNCHANGED <<report, loop, queue, staged, generation, request, disk, late>>

Takes(verb) ==
    /\ loop.at = "idle" /\ queue # <<>> /\ Head(queue).verb = verb
    /\ queue' = Tail(queue)
    /\ UNCHANGED <<request, disk, late>>

Ignores == UNCHANGED <<state, control>>
StopFlag == session' = {[s EXCEPT !.stop = TRUE] : s \in session}

Mute(why) ==
    /\ panel' = TRUE /\ run' = Is("starting")
    /\ loop' = [Rest EXCEPT !.at = "make", !.why = why]
    /\ UNCHANGED <<report, session, generation>>

Start ==
    /\ Takes("start")
    /\ IF session # {} THEN Ignores
       ELSE staged' = {} /\ Mute("start")

PlayStaged ==
    /\ Takes("play")
    /\ IF session # {} THEN Ignores
       ELSE staged' = Head(queue).arg /\ Mute("play")

\* Mutant of Halts: the stop flag of the session is not set.
Halts_NoFlag(why) ==
    /\ loop' = [Rest EXCEPT !.at = "join", !.why = why]
    /\ UNCHANGED <<session, state, panel, generation>>

Halts(why) ==
    /\ StopFlag
    /\ loop' = [Rest EXCEPT !.at = "join", !.why = why]
    /\ UNCHANGED <<state, panel, generation>>

Stop ==
    /\ Takes("stop")
    /\ IF session = {} THEN Ignores ELSE Halts("stop") /\ UNCHANGED staged

Quit == Takes("quit") /\ Halts("quit") /\ UNCHANGED staged

Reload ==
    /\ Takes("reload")
    /\ Halts("reload") /\ staged' = {}

\* handle.join(); the session, if there is one, is over.
Join ==
    /\ loop.at = "join" /\ Over
    /\ CASE loop.why \in {"reload", "apply"} ->
              /\ loop' = [loop EXCEPT !.at = "restart"]
              /\ panel' = panel
              /\ IF session = {} THEN UNCHANGED <<session, run>> ELSE Reaped
         [] loop.why = "stop" ->
              Reaped /\ panel' = FALSE /\ loop' = Rest
         [] loop.why = "quit" ->
              session' = {} /\ run' = Is("quitting") /\ panel' = FALSE
              /\ loop' = [Rest EXCEPT !.at = "gone"]
    /\ UNCHANGED <<report, queue, staged, generation, request, disk, late>>

Restart ==
    /\ loop.at = "restart"
    /\ Mute(loop.why)
    /\ UNCHANGED <<staged, queue, request, disk, late>>

\* resolve_plan: the staged setup while one is set.  It may also fail, on the
\* configuration or the boards it finds.
Resolved ==
    IF staged # {} THEN staged
    ELSE {[version |-> disk.version, shape |-> disk.shape, staged |-> FALSE]}

Reports(ok, hot, restarted) ==
    report' = [gen |-> generation, ok |-> ok, hot |-> hot, restarted |-> restarted]

AfterStart(started) ==
    IF loop.why = "apply" THEN Reports(started, FALSE, started) ELSE report' = report

\* Mutant of NotStarted: the panel is given back by the session's reap alone.
NotStarted_Muted ==
    /\ panel' = panel /\ session' = {} /\ loop' = Rest
    /\ staged' = IF loop.why = "play" THEN {} ELSE staged
    /\ AfterStart(FALSE)

NotStarted ==
    /\ panel' = FALSE /\ session' = {} /\ loop' = Rest
    /\ staged' = IF loop.why = "play" THEN {} ELSE staged
    /\ AfterStart(FALSE)

\* staged.make(): the plan, and a preflight that may refuse it.
Make ==
    /\ loop.at = "make"
    /\ \/ NotStarted /\ run' = Is("failed")
       \/ /\ loop' = [loop EXCEPT !.at = "spawn", !.plan = Resolved]
          /\ UNCHANGED <<state, session, panel, staged>>
    /\ UNCHANGED <<queue, generation, request, disk, late>>

\* The thread is spawned, or could not be: `.ok()?` leaves run at starting.
Spawn ==
    /\ loop.at = "spawn"
    /\ \/ NotStarted /\ run' = run
       \/ \E p \in loop.plan :
            /\ session' = {[plan |-> p, at |-> "boot", stop |-> FALSE]}
            /\ run' = Running(p)
            /\ loop' = Rest /\ AfterStart(TRUE)
            /\ UNCHANGED <<panel, staged>>
    /\ UNCHANGED <<queue, generation, request, disk, late>>

\* apply_bindings, until it waits for the door.
ApplyBindings ==
    /\ Takes("apply")
    /\ generation' = generation + 1
    /\ \/ /\ report' = [NoReport EXCEPT !.gen = generation', !.ok = session = {}]
          /\ UNCHANGED loop
       \/ /\ session # {}
          /\ loop' = [Rest EXCEPT !.at = "door", !.why = "apply", !.plan = Resolved]
          /\ UNCHANGED report
    /\ UNCHANGED <<run, session, panel, staged>>

\* Mutant of Swaps: what moves the pads is swapped too, and the plan handed over
\* is the one the session was started with.
Swaps_OldPlan(s, p) ==
    /\ s.at = "live" /\ s.plan.shape = p.shape
    /\ session' = {s}

\* HotSwap::apply: the tables go to the engine, the pads stay as they are.
Swaps(s, p) ==
    /\ s.at = "live" /\ s.plan.shape = p.shape
    /\ session' = {[s EXCEPT !.plan = p]}

\* The door is there: swap, or bounce a plan of another shape.  It is not, for
\* SWAP_HANDLE_GRACE or because the engine has gone: bounce.
Door ==
    /\ loop.at = "door"
    /\ \E s \in session, p \in loop.plan :
         \/ /\ Swaps(s, p)
            /\ Reports(TRUE, TRUE, FALSE) /\ loop' = Rest
         \/ /\ s.at # "live" \/ s.plan.shape # p.shape
            /\ StopFlag /\ loop' = [Rest EXCEPT !.at = "join", !.why = "apply"]
            /\ UNCHANGED report
    /\ UNCHANGED <<run, queue, panel, staged, generation, request, disk, late>>

Loop ==
    \/ Reap \/ Start \/ PlayStaged \/ Stop \/ Quit \/ Reload \/ ApplyBindings
    \/ Join \/ Restart \/ Make \/ Spawn \/ Door

----------------------------------------------------------------------------
(* The tray and stdin                                                       *)

Room == Len(queue) < MaxQueue
Sends(verb, arg) == queue' = Append(queue, [verb |-> verb, arg |-> arg])

Tray ==
    /\ Room
    /\ \E verb \in {"start", "stop", "reload", "quit"} : Sends(verb, {})
    /\ UNCHANGED <<state, control, request, disk, late>>

----------------------------------------------------------------------------
(* The pipe: one request at a time                                          *)

PipeOnly == UNCHANGED <<state, control, late>>

Answers == request' = NoReq

\* A request that writes nothing first: it reads run, and may be refused by it.
Ask ==
    /\ request = NoReq
    /\ \E verb \in {"start", "stop", "reload", "play"} :
         LET refused == CASE verb \in {"start", "play"} -> Busy
                          [] verb = "stop" -> ~Busy
                          [] OTHER -> FALSE
         IN  IF refused
             THEN Answers
             ELSE request' = [NoReq EXCEPT !.verb = verb, !.at = "send", !.base = run]
    /\ UNCHANGED <<queue, disk>> /\ PipeOnly

\* map, map-macro, map-restore, map-clear-all write the bindings; slot-assign
\* and stage-commit may write another shape.  The files first, then a look.
Write ==
    /\ request = NoReq /\ disk.version < MaxWrites
    /\ \E verb \in {"map", "assign"}, shape \in Shapes :
         /\ verb = "map" => shape = disk.shape
         /\ disk' = [version |-> disk.version + 1, shape |-> shape]
         /\ request' = [NoReq EXCEPT !.verb = verb, !.at = "look", !.needs = disk.version + 1]
    /\ UNCHANGED queue /\ PipeOnly

\* Nothing to bounce, or nobody asked for it; else the baseline is read.
Look ==
    /\ request.at = "look"
    /\ \/ Answers
       \/ /\ Busy
          /\ request' = [request EXCEPT !.at = "send", !.base = run, !.gen = report.gen]
    /\ UNCHANGED <<queue, disk>> /\ PipeOnly

Command == [start |-> "start", stop |-> "stop", reload |-> "reload", play |-> "play",
            map |-> "apply", assign |-> "reload"]

Send ==
    /\ request.at = "send"
    /\ IF loop.at = "gone"
       THEN Answers /\ UNCHANGED queue
       ELSE /\ Room
            /\ \E arg \in IF request.verb = "play"
                       THEN {{[version |-> 0, shape |-> s, staged |-> TRUE]} : s \in Shapes}
                       ELSE {{}} :
                 Sends(Command[request.verb], arg)
            /\ request' = [request EXCEPT !.at = "poll"]
    /\ UNCHANGED disk /\ PipeOnly

\* await_start's verdict on what it reads; "wait" for none.
StartVerdict ==
    LET moved == request.saw \/ run # request.base IN
    CASE run.is = "quitting"                 -> "refused"
      [] run.is = "failed" /\ moved          -> "failed"
      [] run.is = "stopped" /\ request.saw   -> "ended"
      [] run.is = "running" /\ moved -> "running"
      [] OTHER                            -> "wait"

StopVerdict ==
    CASE run.is = "quitting" -> "refused"
      [] run.is \in {"stopped", "failed"} -> "stopped"
      [] OTHER -> "wait"

\* Mutant of ApplyVerdict: any report is this write's, the baseline's too.
ApplyVerdict_Any ==
    IF report.ok /\ (report.hot \/ report.restarted) THEN "applied" ELSE "not applied"

ApplyVerdict ==
    IF report.gen <= request.gen THEN "wait"
    ELSE IF report.ok /\ (report.hot \/ report.restarted) THEN "applied" ELSE "not applied"

Verdict ==
    CASE request.verb = "stop" -> StopVerdict
      [] request.verb = "map"  -> ApplyVerdict
      [] OTHER                 -> StartVerdict

Poll ==
    /\ request.at = "poll"
    /\ IF Verdict = "wait"
       THEN run.is = "starting" /\ request' = [request EXCEPT !.saw = TRUE]
       ELSE Answers
    /\ UNCHANGED <<queue, disk>> /\ PipeOnly

\* SETTLE_TIMEOUT: "requested", with ok TRUE for all but a write.
GiveUp ==
    /\ ~Patient /\ request.at = "poll" /\ Verdict = "wait"
    /\ Answers /\ late' = TRUE
    /\ UNCHANGED <<state, control, queue, disk>>

Pipe == Ask \/ Write \/ Look \/ Send \/ Poll \/ GiveUp

Next == GoLive \/ End \/ Loop \/ Tray \/ Pipe

Spec == Init /\ [][Next]_vars

\* The control thread runs; a session that was told to stop does (Session.LetsGo).
EndStopped == (\E s \in session : s.stop) /\ End
FairSpec   == Spec /\ WF_vars(Loop) /\ WF_vars(EndStopped)

----------------------------------------------------------------------------
\* The panel is a keyboard whenever no session has it, after every way a start,
\* a restart or a session can end; while one runs it is muted (control_loop_with).
PanelFollows ==
    loop.at \in {"idle", "gone"} => (panel <=> session # {})

\* A write that was reported applied is in the session that runs then.
Applied == request.at = "poll" /\ Verdict = "applied" /\ request' = NoReq
InIt    == \A s \in session : ~s.plan.staged /\ s.plan.version >= request.needs

AppliedIsLive == [][Applied => InIt]_vars

\* It is, when the session runs from the files and no earlier request gave up.
AppliedIsLiveMostly ==
    [][Applied /\ ~late /\ (\A s \in session : ~s.plan.staged) => InIt]_vars

\* A Quit that was sent ends the session and gives the panel back, whatever is
\* queued before it and however far the session's start has come.
QuitEnds ==
    (\E i \in DOMAIN queue : queue[i].verb = "quit") ~> (loop.at = "gone" /\ ~panel /\ session = {})
=============================================================================
