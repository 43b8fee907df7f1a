-------------------------------- MODULE Latch --------------------------------
(***************************************************************************)
(* The seqlocked latch between a pad and its driver (ksx-hidmaestro): the   *)
(* output thread publishes a frame byte by byte between two stores of the   *)
(* sequence number, a reader in another process copies it byte by byte      *)
(* between two loads of that number, and neither waits for the other.  The  *)
(* stores of one frame may become visible in any order, as its loads may    *)
(* happen in any order; the fences keep both inside the two accesses of the *)
(* number.  Identical frames are elided until the keepalive is due.         *)
(***************************************************************************)
EXTENDS Naturals

CONSTANTS
    Bytes,      \* the bytes of a frame
    Values,     \* what a byte can hold; 0 is what a new section holds
    Wrap,       \* the sequence number is taken modulo this (2^32 in the code)
    Retries,    \* READ_RETRIES
    Keepalive   \* KEEPALIVE, in steps of the clock

Frames == [Bytes -> Values]
Blank  == [b \in Bytes |-> 0]
Never  == Keepalive + 1

VARIABLES
    seq, payload,       \* the section
    cadence,            \* Cadence: last (the frame), age (of last_publish)
    writer, todo,       \* publish: where it is, the bytes it has yet to store
    reader, before, out, left, tries,   \* read_into: where it is, its locals
    answer,             \* what the last read returned
    \* Not in the program: what update was last given, what the last complete
    \* publish left, and the publishes begun since the reader loaded `before`.
    wanted, settled, begun

section == <<seq, payload>>
read    == <<reader, before, out, left, tries, answer>>
vars    == <<section, cadence, writer, todo, read, wanted, settled, begun>>

Init ==
    /\ seq = 0 /\ payload = Blank
    /\ cadence = [last |-> Blank, age |-> Never]
    /\ writer = "idle" /\ todo = {}
    /\ reader = "idle" /\ before = 0 /\ out = Blank /\ left = {} /\ tries = 0
    /\ answer = {}
    /\ wanted = Blank /\ settled = Blank /\ begun = 0

Next1(s) == (s + 1) % Wrap
Odd(s)   == s % 2 = 1

----------------------------------------------------------------------------
(* The output thread: HidMaestroBackend::update                             *)

\* Cadence::decide
Skips(f) == cadence.age < Keepalive /\ f = cadence.last

\* A state arrives for the pad.  The cadence takes note before the frame is out.
Update(f) ==
    /\ writer = "idle"
    /\ wanted' = f
    /\ IF Skips(f)
       THEN UNCHANGED <<cadence, writer>>
       ELSE /\ cadence' = [last |-> f, age |-> 0]
            /\ writer' = "mark"
    /\ UNCHANGED <<section, todo, read, settled, begun>>

\* Bound: while one read lasts, fewer publishes than take the number round.
Mark ==
    /\ writer = "mark" /\ 2 * begun + 2 < Wrap
    /\ seq' = Next1(seq)
    /\ writer' = "store" /\ todo' = Bytes
    /\ begun' = IF reader = "copy" THEN begun + 1 ELSE 0
    /\ UNCHANGED <<payload, cadence, read, wanted, settled>>

StoreByte(b) ==
    /\ writer = "store" /\ b \in todo
    /\ payload' = [payload EXCEPT ![b] = cadence.last[b]]
    /\ todo' = todo \ {b}
    /\ UNCHANGED <<seq, cadence, writer, read, wanted, settled, begun>>

Settle ==
    /\ writer = "store" /\ todo = {}
    /\ seq' = Next1(seq)
    /\ writer' = "idle"
    /\ settled' = cadence.last
    /\ UNCHANGED <<payload, cadence, todo, read, wanted, begun>>

Pass ==
    /\ cadence.age < Keepalive
    /\ cadence' = [cadence EXCEPT !.age = @ + 1]
    /\ UNCHANGED <<section, writer, todo, read, wanted, settled, begun>>

----------------------------------------------------------------------------
(* The reader                                                               *)

Retry ==
    IF tries + 1 = Retries
    THEN /\ reader' = "idle" /\ tries' = 0
         /\ answer' = {}        \* LatchTorn
    ELSE /\ reader' = "load" /\ tries' = tries + 1
         /\ answer' = answer

Begin ==
    /\ reader = "idle"
    /\ reader' = "load"
    /\ UNCHANGED <<section, cadence, writer, todo, before, out, left, tries, answer,
                   wanted, settled, begun>>

LoadSeq ==
    /\ reader = "load"
    /\ before' = seq /\ begun' = 0
    /\ IF Odd(seq)
       THEN Retry /\ left' = left
       ELSE reader' = "copy" /\ left' = Bytes /\ UNCHANGED <<tries, answer>>
    /\ UNCHANGED <<section, cadence, writer, todo, out, wanted, settled>>

CopyByte(b) ==
    /\ reader = "copy" /\ b \in left
    /\ out' = [out EXCEPT ![b] = payload[b]]
    /\ left' = left \ {b}
    /\ UNCHANGED <<section, cadence, writer, todo, reader, before, tries, answer,
                   wanted, settled, begun>>

\* Mutant of CheckSeq: the copy is taken at its word.
CheckSeq_Trusts ==
    /\ reader = "copy" /\ left = {}
    /\ reader' = "idle" /\ tries' = 0 /\ answer' = {out}
    /\ begun' = 0
    /\ UNCHANGED <<section, cadence, writer, todo, before, out, left, wanted, settled>>

CheckSeq ==
    /\ reader = "copy" /\ left = {}
    /\ IF seq = before
       THEN reader' = "idle" /\ tries' = 0 /\ answer' = {out}
       ELSE Retry
    /\ begun' = 0
    /\ UNCHANGED <<section, cadence, writer, todo, before, out, left, wanted, settled>>

Next ==
    \/ \E f \in Frames : Update(f)
    \/ \E b \in Bytes : StoreByte(b) \/ CopyByte(b)
    \/ Mark \/ Settle \/ Pass
    \/ Begin \/ LoadSeq \/ CheckSeq

Spec == Init /\ [][Next]_vars

----------------------------------------------------------------------------
\* The latch is a register of whole frames: no read returns a mixture of two
\* frames, and a read that finds the thread at rest returns the state update
\* was last given, however often it was elided (publish, read_into, decide).
R == INSTANCE Register WITH
    frame <- IF writer = "idle" THEN wanted ELSE settled

IsRegister == R!Spec
=============================================================================
