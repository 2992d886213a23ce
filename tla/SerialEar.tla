----------------------------- MODULE SerialEar -----------------------------
(***************************************************************************)
(* The listening end of a serial line (external: the host).  It waits for  *)
(* a start bit and takes every bit of the frame half way, the stop bit     *)
(* too.                                                                    *)
(***************************************************************************)
EXTENDS Integers, Sequences

CONSTANT DataBits        \* bits of a byte

VARIABLE ear             \* cycles to the next sample, the bits so far

TypeOK == ear.left \in Nat /\ Len(ear.bits) <= DataBits /\ ear.error \in BOOLEAN

Init == ear = [left |-> 0, bits |-> <<>>, error |-> FALSE]

(* A byte has been heard in full. *)
Hears == ear.left = 1 /\ Len(ear.bits) = DataBits
Heard == [k \in 0 .. DataBits - 1 |-> ear.bits[k + 1]]

Rest(level) ==
    /\ ear.left = 0 /\ level # 0
    /\ ear' = ear

Detect(level, bit_time) ==
    /\ ear.left = 0 /\ level = 0
    /\ ear' = [ear EXCEPT !.left = bit_time + bit_time \div 2]

Await ==
    /\ ear.left > 1
    /\ ear' = [ear EXCEPT !.left = @ - 1]

Sample(level, bit_time) ==
    /\ ear.left = 1 /\ ~Hears
    /\ ear' = [ear EXCEPT !.bits = Append(@, level), !.left = bit_time]

Conclude(level) ==
    /\ Hears
    /\ ear' = [left |-> 0, bits |-> <<>>, error |-> ear.error \/ level = 0]

Listen(level, bit_time) ==
    \/ Rest(level)
    \/ Detect(level, bit_time)
    \/ Await
    \/ Sample(level, bit_time)
    \/ Conclude(level)
=============================================================================
