--------------------------------- MODULE Feed ---------------------------------
(***************************************************************************)
(* The live feed: what the engine publishes, fanned out to every viewer     *)
(* through a bounded queue the engine never waits on (ksx-backend feed.rs), *)
(* folded by each viewer into frames at its own pace and written to its     *)
(* pipe (daemon/live_pipe.rs).  A pad is one control, down or not; what a   *)
(* game sends back to it travels like a pad's state.  Left out is the count *)
(* of presses on boards that are bound to no slot (off_panel).              *)
(***************************************************************************)
EXTENDS Naturals, Sequences, FiniteSets

CONSTANTS
    Viewers,
    Queue,          \* QUEUE
    KeysPerFrame,   \* KEYS_PER_FRAME
    MaxViewers,     \* MAX_VIEWERS
    MaxEvents       \* bound: the events of a behaviour

VARIABLES
    session,    \* none, spawned (the engine runs), on, closing (it still runs)
    bound,      \* running: the sink knows the session's panel
    gate,       \* subscribers
    channels,   \* the viewers whose queue a publish finds
    queue, dropped,     \* of each viewer
    pad,        \* the state the engine last gave the pad
    engine,     \* LiveSink::publish: where it is, its event, who is yet to be sent it,
                \* whose queue was full
    viewer,     \* off, listed, poll, write, unlist, gone, over
    fold,       \* of each viewer: the frame being made
    \* Not in the program: the events so far; for each viewer those sent its way
    \* that no line has shown or reported lost, and the control as its lines
    \* have it; the viewers told of a loss, those that had keys cut from a
    \* frame, those an event passed by between being listed and the gate.
    made, owed, lit, lossy, cut, missed

sink    == <<bound, gate, channels>>
history == <<made, owed, lit, lossy, cut, missed>>
vars    == <<session, sink, queue, dropped, pad, engine, viewer, fold, history>>

Idle  == [at |-> "idle", event |-> {}, left |-> {}, full |-> {}]
Fresh == [pads |-> <<>>, keys |-> 0]

Each(value) == [v \in Viewers |-> value]

Init ==
    /\ session = "none" /\ bound = FALSE
    /\ gate = 0 /\ channels = {} /\ queue = Each(<<>>) /\ dropped = Each(0)
    /\ pad = FALSE /\ engine = Idle /\ viewer = Each("off") /\ fold = Each(Fresh)
    /\ made = 0 /\ owed = Each(0) /\ lit = Each({}) /\ lossy = {} /\ cut = {} /\ missed = {}

----------------------------------------------------------------------------
(* The session: its engine runs from before session_started to after        *)
(* session_ended                                                            *)

Session ==
    /\ CASE session = "none"    -> session' = "spawned" /\ UNCHANGED bound
         [] session = "spawned" -> session' = "on" /\ bound' = TRUE
         [] session = "on"      -> session' = "closing" /\ bound' = FALSE
         [] session = "closing" -> engine = Idle /\ session' = "none" /\ UNCHANGED bound
    /\ UNCHANGED <<gate, channels, queue, dropped, pad, engine, viewer, fold, history>>

----------------------------------------------------------------------------
(* The engine thread                                                        *)

Publishes(event) == engine' = IF gate > 0 THEN [Idle EXCEPT !.at = "load", !.event = event]
                                          ELSE engine

\* LiveSink::key: the panel's keys only.
KeyMoves ==
    /\ bound /\ Publishes({})
    /\ UNCHANGED pad

\* LiveSink::pad
PadMoves ==
    /\ pad' = ~pad /\ Publishes({pad'})

Happens ==
    /\ session # "none" /\ engine = Idle /\ made < MaxEvents
    /\ PadMoves \/ KeyMoves
    /\ made' = made + 1
    /\ missed' = missed \cup {v \in Viewers : gate = 0 /\ viewer[v] = "listed"}
    /\ UNCHANGED <<session, bound, gate, channels, queue, dropped, viewer, fold, owed, lit,
                   lossy, cut>>

\* channels.load()
LoadChannels ==
    /\ engine.at = "load"
    /\ engine' = IF channels = {} THEN Idle ELSE [engine EXCEPT !.at = "send", !.left = channels]
    /\ UNCHANGED <<session, sink, queue, dropped, pad, viewer, fold, history>>

Sent(v) == IF engine.left = {v} THEN Idle ELSE [engine EXCEPT !.left = @ \ {v}, !.full = {}]

\* try_send; the queue of a viewer that has gone is nothing to it.
TrySend(v) ==
    /\ v \in engine.left /\ engine.full = {}
    /\ IF viewer[v] = "over"
       THEN engine' = Sent(v) /\ UNCHANGED <<queue, owed>>
       ELSE /\ owed' = [owed EXCEPT ![v] = @ + 1]
            /\ IF Len(queue[v]) < Queue
               THEN queue' = [queue EXCEPT ![v] = Append(@, engine.event)] /\ engine' = Sent(v)
               ELSE engine' = [engine EXCEPT !.full = {v}] /\ UNCHANGED queue
    /\ UNCHANGED <<session, sink, dropped, pad, viewer, fold, made, lit, lossy, cut, missed>>

\* The queue was full: the loss is counted.
CountLoss(v) ==
    /\ v \in engine.full /\ engine' = Sent(v)
    /\ dropped' = [dropped EXCEPT ![v] = @ + 1]
    /\ UNCHANGED <<session, sink, queue, pad, viewer, fold, history>>

----------------------------------------------------------------------------
(* A viewer's thread                                                        *)

Step(v, from, to) == viewer[v] = from /\ viewer' = [viewer EXCEPT ![v] = to]
Rest(v) == UNCHANGED <<session, bound, queue, dropped, pad, engine, fold, history>>

\* hand_off, and subscribe's first half: the queue is listed, then the gate opens.
Connect(v) ==
    /\ Cardinality({w \in Viewers : viewer[w] \notin {"off", "over"}}) < MaxViewers
    /\ Step(v, "off", "listed")
    /\ channels' = channels \cup {v} /\ gate' = gate /\ Rest(v)

OpenGate(v) ==
    /\ Step(v, "listed", "poll")
    /\ gate' = gate + 1 /\ channels' = channels /\ Rest(v)

\* Fold::take: a pad's states are all folded in, of the keys the newest kept.
Take(v) ==
    /\ viewer[v] = "poll" /\ queue[v] # <<>>
    /\ IF Head(queue[v]) # {}
       THEN fold' = [fold EXCEPT ![v].pads = Append(@, Head(queue[v]))] /\ UNCHANGED <<cut, owed>>
       ELSE IF fold[v].keys < KeysPerFrame
       THEN fold' = [fold EXCEPT ![v].keys = @ + 1] /\ UNCHANGED <<cut, owed>>
       ELSE cut' = cut \cup {v} /\ owed' = [owed EXCEPT ![v] = @ - 1] /\ UNCHANGED fold
    /\ queue' = [queue EXCEPT ![v] = Tail(@)]
    /\ UNCHANGED <<session, sink, dropped, pad, engine, viewer, made, lit, lossy, missed>>

\* Mutant of HasNews: a frame that only counts losses is not worth a line.
HasNews_Events(v) == fold[v] # Fresh

\* has_news
HasNews(v) == fold[v] # Fresh \/ dropped[v] > 0

\* The queue was seen empty: the frame is finished, its losses are taken, and it
\* goes out if it says anything, or as a heartbeat, or to say that the session
\* came or went.
Finish(v) ==
    /\ viewer[v] = "poll" /\ queue[v] = <<>>
    /\ dropped' = [dropped EXCEPT ![v] = 0]
    /\ fold' = [fold EXCEPT ![v] = Fresh]
    /\ \/ /\ viewer' = [viewer EXCEPT ![v] = "write"]
          /\ owed' = [owed EXCEPT ![v] = @ - Len(fold[v].pads) - fold[v].keys - dropped[v]]
          /\ lossy' = IF dropped[v] > 0 THEN lossy \cup {v} ELSE lossy
          /\ lit' = [lit EXCEPT ![v] =
                       IF fold[v].pads = <<>> THEN @ ELSE fold[v].pads[Len(fold[v].pads)]]
       \/ /\ ~HasNews(v)
          /\ UNCHANGED <<viewer, owed, lossy, lit>>
    /\ UNCHANGED <<session, sink, queue, pad, engine, made, cut, missed>>

\* WriteFile: it may take long, and fails once the other side has gone.
Write(v) ==
    /\ Step(v, "write", "poll") \/ Step(v, "write", "unlist")
    /\ UNCHANGED <<gate, channels>> /\ Rest(v)

\* unsubscribe, then the queue goes.
Unsubscribe(v) ==
    /\ Step(v, "unlist", "gone")
    /\ channels' = channels \ {v} /\ gate' = gate /\ Rest(v)

CloseGate(v) ==
    /\ Step(v, "gone", "over")
    /\ gate' = gate - 1 /\ channels' = channels /\ Rest(v)

Viewer(v) ==
    \/ Connect(v) \/ OpenGate(v) \/ Take(v) \/ Finish(v) \/ Write(v)
    \/ Unsubscribe(v) \/ CloseGate(v)

Next ==
    \/ Session \/ Happens \/ LoadChannels
    \/ \E v \in Viewers : TrySend(v) \/ CountLoss(v) \/ Viewer(v)

Spec == Init /\ [][Next]_vars

----------------------------------------------------------------------------
\* A viewer is told what it missed (live_pipe.rs), however slowly it reads: one
\* that has subscribed is listed behind an open gate whoever else comes or goes,
\* every event sent its way is waiting, being folded, shown, or reported lost, and
\* one that was told of no loss shows the pad as it is.  Not counted are the keys
\* cut from a long frame, and what happens before the gate is open.
LossIsTold ==
    \A v \in Viewers :
        /\ viewer[v] \in {"poll", "write"} => v \in channels /\ gate > 0
        /\ owed[v] = Len(queue[v]) + Len(fold[v].pads) + fold[v].keys + dropped[v]
                     + Cardinality(engine.full \cap {v})
        /\ /\ viewer[v] \in {"poll", "write"} /\ v \notin lossy \cup missed
           /\ owed[v] = 0 /\ engine = Idle
           => lit[v] \subseteq {pad}

\* live_pipe.rs: the queue is "the only lossy hop, and it is the one that reports".
EveryLossIsTold == cut \cup missed = {}
=============================================================================
