----------------------------- MODULE LoopStack -----------------------------
(***************************************************************************)
(* What nested counted loops mean: a stack of the loops being executed,    *)
(* the innermost one last, each with the address its body starts at and    *)
(* the repetitions it still owes.  LOOP n opens a loop of n rounds (none   *)
(* when n = 0), the branch at the end of a body repeats the innermost loop *)
(* or closes it.                                                           *)
(***************************************************************************)
EXTENDS Integers, Sequences

CONSTANTS Instr,         \* [op, count, pc]: what one cycle can execute
          PcSize         \* bytes of code RAM

VARIABLES loops,         \* the open loops, as [start, owed] records
          instr,         \* the last instruction executed
          taken          \* the address it branched to, as a set

lsvars == <<loops, instr, taken>>

Init == loops = <<>> /\ instr \in Instr /\ taken = {}

Innermost == loops[Len(loops)]
Outer     == SubSeq(loops, 1, Len(loops) - 1)

Open(i) ==
    /\ i.op = "LOOP" /\ i.count > 0
    /\ loops' = Append(loops, [start |-> (i.pc + 2) % PcSize,
                               owed  |-> i.count - 1])
    /\ taken' = {}

Repeat(i) ==
    /\ i.op = "BRANCH" /\ loops # <<>>
    /\ Innermost.owed > 0
    /\ loops' = Append(Outer, [Innermost EXCEPT !.owed = @ - 1])
    /\ taken' = {Innermost.start}

Close(i) ==
    /\ i.op = "BRANCH" /\ loops # <<>>
    /\ Innermost.owed = 0
    /\ loops' = Outer
    /\ taken' = {}

Pass(i) ==
    /\ \/ i.op = "OTHER"
       \/ i.op = "LOOP" /\ i.count = 0
       \/ i.op = "BRANCH" /\ loops = <<>>
    /\ UNCHANGED loops
    /\ taken' = {}

Execute(i) == /\ instr' = i
              /\ Open(i) \/ Repeat(i) \/ Close(i) \/ Pass(i)

Reset == loops' = <<>> /\ taken' = {} /\ instr' = instr

Next == (\E i \in Instr : Execute(i)) \/ Reset

Spec == Init /\ [][Next]_lsvars
=============================================================================
