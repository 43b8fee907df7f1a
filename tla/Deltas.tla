------------------------------- MODULE Deltas -------------------------------
(***************************************************************************)
(* From the engine thread to the pads (run/supervisor.rs): DeltaTx, which   *)
(* never blocks and keeps at most one pending state per slot, the bounded   *)
(* channel, and the output thread, which is alone with the driver and may   *)
(* be stuck in it for as long as the driver pleases.                        *)
(***************************************************************************)
EXTENDS Naturals, Sequences

CONSTANTS
    Slots,          \* the slots of the session
    Capacity,       \* DELTA_CHANNEL_CAPACITY
    MaxChanges,     \* bound: states the engine produces for one slot
    DriverFails     \* a pad update may fail

ASSUME DeltasAssumption ==
    /\ Capacity \in Nat \ {0}
    /\ MaxChanges \in Nat
    /\ DriverFails \in BOOLEAN

VARIABLES
    target,     \* the newest state of each slot, as the engine has it
    pending,    \* DeltaTx::pending
    channel,    \* the delta channel
    busy,       \* the update the output thread is in the driver with, if any
    shown,      \* the state each pad was last given
    engine,     \* the engine thread: idle, flush, last (its final flush), gone
    stopping,   \* it has read EngineCtl::Stop
    output      \* the output thread: on, failed (it touches no pad any more), gone

vars == <<target, pending, channel, busy, shown, engine, stopping, output>>
pads == <<busy, shown, output>>

----------------------------------------------------------------------------
Updates == [slot : Slots, state : Nat]

Init ==
    /\ target = [s \in Slots |-> 0] /\ shown = [s \in Slots |-> 0]
    /\ pending = <<>> /\ channel = <<>> /\ busy = <<>>
    /\ engine = "idle" /\ stopping = FALSE /\ output = "on"

----------------------------------------------------------------------------
(* The engine thread                                                        *)

\* A newer state takes the place of the slot's pending one.
Queue(update) ==
    IF \E i \in DOMAIN pending : pending[i].slot = update.slot
    THEN [i \in DOMAIN pending |-> IF pending[i].slot = update.slot THEN update ELSE pending[i]]
    ELSE Append(pending, update)

\* DeltaTx::send, for a state of slot s: queue it, then flush.
Change(s) ==
    /\ engine = "idle" /\ target[s] < MaxChanges
    /\ target' = [target EXCEPT ![s] = @ + 1]
    /\ pending' = Queue([slot |-> s, state |-> target'[s]])
    /\ engine' = "flush"
    /\ UNCHANGED <<channel, stopping, pads>>

\* The loop's idle turn retries a stalled flush.
Retry ==
    /\ engine = "idle" /\ pending # <<>>
    /\ engine' = "flush"
    /\ UNCHANGED <<target, pending, channel, stopping, pads>>

\* flush: one try_send of the oldest pending state that the channel took.
FlushOne ==
    /\ pending # <<>> /\ Len(channel) < Capacity /\ output # "gone"
    /\ channel' = Append(channel, Head(pending))
    /\ pending' = Tail(pending)

Flush ==
    /\ engine \in {"flush", "last"} /\ FlushOne
    /\ UNCHANGED <<target, engine, stopping, pads>>

\* Mutant: what did not fit is thrown away.
KeepPending_Cleared == pending' = <<>>

\* Nothing left, or the channel is full: what is pending waits for the next turn.
KeepPending == UNCHANGED pending

Flushed ==
    /\ pending = <<>> \/ (Len(channel) = Capacity /\ output # "gone")
    /\ \/ engine = "flush" /\ engine' = "idle" /\ KeepPending
       \/ engine = "last" /\ engine' = "gone" /\ pending' = <<>>
    /\ UNCHANGED <<target, channel, stopping, pads>>

\* The receiver is gone: everything pending is dropped and the thread ends.
OutputGone ==
    /\ engine \in {"flush", "last"} /\ output = "gone" /\ pending # <<>>
    /\ engine' = "gone" /\ pending' = <<>>
    /\ UNCHANGED <<target, channel, stopping, pads>>

\* EngineCtl::Stop: what it cancels is sent like any change, then a last flush.
Stop ==
    /\ engine = "idle" /\ ~stopping
    /\ stopping' = TRUE
    /\ UNCHANGED <<target, pending, channel, engine, pads>>

Finish ==
    /\ engine = "idle" /\ stopping
    /\ engine' = "last"
    /\ UNCHANGED <<target, pending, channel, stopping, pads>>

\* The capture channel is closed, or the thread panics: no flush.
EngineDies ==
    /\ engine = "idle" /\ engine' = "gone" /\ pending' = <<>>
    /\ UNCHANGED <<target, channel, stopping, pads>>

----------------------------------------------------------------------------
(* The output thread                                                        *)

\* Mutant: the newest queued state is taken first.
Take_Last ==
    /\ busy' = <<channel[Len(channel)]>>
    /\ channel' = SubSeq(channel, 1, Len(channel) - 1)
Take ==
    /\ busy' = <<Head(channel)>>
    /\ channel' = Tail(channel)

\* A state is received and the driver is called with it.
Update ==
    /\ output = "on" /\ busy = <<>> /\ channel # <<>>
    /\ Take
    /\ UNCHANGED <<target, pending, shown, engine, stopping, output>>

Updated ==
    /\ output = "on" /\ busy # <<>>
    /\ shown' = [shown EXCEPT ![busy[1].slot] = busy[1].state]
    /\ busy' = <<>>
    /\ UNCHANGED <<target, pending, channel, engine, stopping, output>>

\* The driver refuses: the supervisor is told, and no pad is touched again.
Fails ==
    /\ DriverFails /\ output = "on" /\ busy # <<>>
    /\ busy' = <<>> /\ output' = "failed"
    /\ UNCHANGED <<target, pending, channel, shown, engine, stopping>>

\* A failed thread keeps draining, so that nothing upstream blocks.
Drain ==
    /\ output = "failed" /\ channel # <<>>
    /\ channel' = Tail(channel)
    /\ UNCHANGED <<target, pending, engine, stopping, pads>>

\* OutputCtl::Stop (or nobody left to order the teardown): the pads go.
Unplug ==
    /\ output # "gone" /\ busy = <<>>
    /\ output' = "gone" /\ channel' = <<>>
    /\ UNCHANGED <<target, pending, busy, shown, engine, stopping>>

----------------------------------------------------------------------------
Engine == \/ \E s \in Slots : Change(s)
          \/ Retry \/ Flush \/ Flushed \/ OutputGone \/ Stop \/ Finish \/ EngineDies
Output == Update \/ Updated \/ Fails \/ Drain \/ Unplug

Next == Engine \/ Output

Spec == Init /\ [][Next]_vars

(***************************************************************************)
(* The engine thread is never blocked, it wakes every millisecond while     *)
(* something is pending, and a driver call returns in the end.  Nothing has *)
(* to happen for the engine to change a state, to stop, or for a pad to be  *)
(* unplugged.                                                               *)
(***************************************************************************)
FairSpec ==
    /\ Spec
    /\ WF_vars(Retry) /\ WF_vars(Flush) /\ WF_vars(Flushed)
    /\ WF_vars(Update) /\ WF_vars(Updated \/ Fails) /\ WF_vars(Drain)

----------------------------------------------------------------------------
(* Properties                                                               *)

\* The types; the delta channel holds at most DELTA_CHANNEL_CAPACITY states.
TypeOK ==
    /\ target \in [Slots -> Nat] /\ shown \in [Slots -> Nat]
    /\ pending \in Seq(Updates)
    /\ channel \in Seq(Updates) /\ Len(channel) <= Capacity
    /\ busy \in Seq(Updates) /\ Len(busy) <= 1
    /\ engine \in {"idle", "flush", "last", "gone"} /\ stopping \in BOOLEAN
    /\ output \in {"on", "failed", "gone"}

\* DeltaTx's bound: one pending state per slot, and it is the newest one, so the
\* queue never outgrows the slots however long the driver hangs.
OnePerSlot ==
    /\ \A i, j \in DOMAIN pending : pending[i].slot = pending[j].slot => i = j
    /\ \A i \in DOMAIN pending : pending[i].state = target[pending[i].slot]

\* Nothing on the way is older than what is ahead of it: the states of a slot
\* are in order from the pad through the driver call and the channel to pending.
Way == busy \o channel \o pending
InOrder ==
    /\ \A s \in Slots : shown[s] <= target[s]
    /\ \A i \in DOMAIN Way : Way[i].state \in shown[Way[i].slot] + 1 .. target[Way[i].slot]
    /\ \A i, j \in DOMAIN Way :
           i < j /\ Way[i].slot = Way[j].slot => Way[i].state < Way[j].state

\* F2's other half: coalescing loses no newest state.  While both threads work,
\* the newest state of every slot is on its pad or on the way to it.
NewestIsKept ==
    (engine # "gone" /\ output = "on") =>
        \A s \in Slots :
            \/ shown[s] = target[s]
            \/ \E i \in DOMAIN Way : Way[i] = [slot |-> s, state |-> target[s]]

\* Pads that lag behind their slots catch up, all of them, unless the session is
\* ending: no slot starves another, and a flush that met a full channel is taken
\* up again (engine_thread's idle turn).
Settles ==
    shown # target ~> shown = target \/ engine = "gone" \/ stopping \/ output # "on"

\* The queues implement PadStream: a pad moves only forward through the states
\* of its own slot, whatever is coalesced, dropped or stuck on the way.
Stream == INSTANCE PadStream
StreamSpec == Stream!Spec
============================================================================
