--------------------------- MODULE LoopController ---------------------------
(***************************************************************************)
(* The loop controller of the pixel matrix coprocessor and its LIFO        *)
(* (rtl/soc/peripherals/pmc/coprocessor/pmcc_loop_controller.sv and        *)
(* pmcc_loop_lifo.sv).  One step is one clock cycle with the instruction   *)
(* that the decoder shows in it.                                           *)
(*                                                                         *)
(* The innermost loop is in active_loop, the others are in the LIFO.  When *)
(* the innermost loop ends, the LIFO is popped; its output register        *)
(* lifo_rdata is valid only in the next cycle (lifo_readout), so that the  *)
(* next instruction takes the innermost loop from lifo_rdata.              *)
(***************************************************************************)
EXTENDS Integers, Sequences

CONSTANTS PcSize,        \* bytes of code RAM: 2^10
          IterSize,      \* 2^14: iterations is a 14-bit field
          Depth          \* entries of the LIFO: 10

ASSUME SizesAssumption ==
    PcSize \in Nat \ {0} /\ IterSize \in Nat \ {0} /\ Depth \in Nat \ {0}

Addr == 0 .. PcSize - 1
Iter == 0 .. IterSize - 1
Loop == [start_address : Addr, iterations : Iter]
NoLoop == [start_address |-> 0, iterations |-> 0]

(* An instruction as the loop controller sees it: LOOP, BRANCH (the branch *)
(* half of STOREB) or any OTHER one; count is the immediate of a LOOP.     *)
Instr == [op : {"LOOP", "BRANCH", "OTHER"}, count : Iter, pc : Addr]

VARIABLES active_loop, loop_execution, lifo_readout,
          mem, elements_counter, full, empty, lifo_rdata,   \* the LIFO
          instr,         \* history: the last instruction executed
          taken,         \* history: the address it branched to, as a set
          opened         \* history: start addresses of the loops opened
                         \* since the last reset

lifo == <<mem, elements_counter, full, empty, lifo_rdata>>
vars == <<active_loop, loop_execution, lifo_readout, lifo, instr, taken,
          opened>>

(* The registers of the controller and of the LIFO keep their widths.      *)
TypeOK ==
    /\ active_loop \in Loop
    /\ loop_execution \in BOOLEAN
    /\ lifo_readout \in BOOLEAN
    /\ mem \in [0 .. Depth - 1 -> Loop]
    /\ elements_counter \in 0 .. Depth
    /\ full \in BOOLEAN /\ empty \in BOOLEAN
    /\ lifo_rdata \in Loop
    /\ instr \in Instr
    /\ taken \in SUBSET Addr
    /\ opened \in SUBSET Addr

-----------------------------------------------------------------------------
(* The LIFO.  A push into a full LIFO and a pop of an empty one are        *)
(* ignored.                                                                *)
(* Faulty variants, for the mutation runs: full one entry late, empty one  *)
(* entry late, the entry above the top read.                               *)
Push_LateFull(loop) ==
    IF full THEN UNCHANGED lifo
    ELSE /\ mem' = [mem EXCEPT ![elements_counter] = loop]
         /\ elements_counter' = elements_counter + 1
         /\ full' = (elements_counter = Depth)
         /\ empty' = FALSE
         /\ UNCHANGED lifo_rdata
Pop_LateEmpty ==
    IF empty THEN UNCHANGED lifo
    ELSE /\ lifo_rdata' = mem[elements_counter - 1]
         /\ elements_counter' = elements_counter - 1
         /\ full' = FALSE
         /\ empty' = (elements_counter = 0)
         /\ UNCHANGED mem
Push(loop) ==
    IF full THEN UNCHANGED lifo
    ELSE /\ mem' = [mem EXCEPT ![elements_counter] = loop]
         /\ elements_counter' = elements_counter + 1
         /\ full' = (elements_counter = Depth - 1)
         /\ empty' = FALSE
         /\ UNCHANGED lifo_rdata

Pop ==
    IF empty THEN UNCHANGED lifo
    ELSE /\ lifo_rdata' = mem[elements_counter - 1]
         /\ elements_counter' = elements_counter - 1
         /\ full' = FALSE
         /\ empty' = (elements_counter = 1)
         /\ UNCHANGED mem

-----------------------------------------------------------------------------
(* The innermost loop as the controller sees it in this cycle.             *)
Innermost == IF lifo_readout THEN lifo_rdata ELSE active_loop
InLoop    == lifo_readout \/ loop_execution

Decremented(loop) ==
    [loop EXCEPT !.iterations = (@ - 1) % IterSize]

(* The address after a LOOP, which is two bytes long. *)
BodyOf(i) == (i.pc + 2) % PcSize

(* Faulty variant, for the mutation runs: right after a pop the loop that  *)
(* is no longer the innermost one is pushed.                               *)
Open_PushesActive(i) ==
    /\ i.op = "LOOP" /\ i.count > 0
    /\ active_loop' = [start_address |-> BodyOf(i),
                       iterations    |-> i.count - 1]
    /\ IF InLoop THEN Push(active_loop) /\ UNCHANGED loop_execution
                 ELSE loop_execution' = TRUE /\ UNCHANGED lifo
    /\ lifo_readout' = FALSE
    /\ taken' = {}

Open(i) ==
    /\ i.op = "LOOP" /\ i.count > 0
    /\ active_loop' = [start_address |-> BodyOf(i),
                       iterations    |-> i.count - 1]
    /\ IF InLoop THEN Push(Innermost) /\ UNCHANGED loop_execution
                 ELSE loop_execution' = TRUE /\ UNCHANGED lifo
    /\ lifo_readout' = FALSE
    /\ taken' = {}

Repeat(i) ==
    /\ i.op = "BRANCH" /\ InLoop
    /\ Innermost.iterations > 0
    /\ active_loop' = Decremented(Innermost)
    /\ taken' = {Innermost.start_address}
    /\ lifo_readout' = FALSE
    /\ UNCHANGED <<loop_execution, lifo>>

(* Faulty variant, for the mutation runs: the end of the outermost loop    *)
(* reads the empty LIFO like that of an inner one.                         *)
CloseInner_Unchecked(i) ==
    /\ i.op = "BRANCH" /\ InLoop
    /\ Innermost.iterations = 0
    /\ Pop
    /\ lifo_readout' = TRUE
    /\ taken' = {}
    /\ UNCHANGED <<active_loop, loop_execution>>

CloseInner(i) ==
    /\ i.op = "BRANCH" /\ InLoop
    /\ Innermost.iterations = 0
    /\ ~empty
    /\ Pop
    /\ lifo_readout' = TRUE
    /\ taken' = {}
    /\ UNCHANGED <<active_loop, loop_execution>>

CloseOuter(i) ==
    /\ i.op = "BRANCH" /\ InLoop
    /\ Innermost.iterations = 0
    /\ empty
    /\ loop_execution' = FALSE
    /\ lifo_readout' = FALSE
    /\ taken' = {}
    /\ UNCHANGED <<active_loop, lifo>>

(* Nothing for the loop controller to do.  Right after a pop it still has  *)
(* to take the loop over from lifo_rdata, and the code decrements it there *)
(* although no branch has been executed.                                   *)
Idle(i) ==
    /\ i.op = "OTHER" \/ (i.op = "LOOP" /\ i.count = 0)
    /\ active_loop' = IF lifo_readout THEN Decremented(lifo_rdata)
                                      ELSE active_loop
    /\ lifo_readout' = FALSE
    /\ taken' = {}
    /\ UNCHANGED <<loop_execution, lifo>>

Ignore(i) ==
    /\ i.op = "BRANCH" /\ ~InLoop
    /\ taken' = {}
    /\ UNCHANGED <<active_loop, loop_execution, lifo_readout, lifo>>

Execute(i) ==
    /\ instr' = i
    /\ opened' = IF i.op = "LOOP" /\ i.count > 0 THEN opened \cup {BodyOf(i)}
                                                 ELSE opened
    /\ \/ Open(i) \/ Repeat(i) \/ CloseInner(i) \/ CloseOuter(i)
       \/ Idle(i) \/ Ignore(i)

(* pmcc_rst_n (or rst_n) low; mem has no reset. *)
Reset ==
    /\ active_loop' = NoLoop
    /\ loop_execution' = FALSE /\ lifo_readout' = FALSE
    /\ elements_counter' = 0 /\ full' = FALSE /\ empty' = TRUE
    /\ lifo_rdata' = NoLoop
    /\ taken' = {} /\ opened' = {}
    /\ UNCHANGED <<mem, instr>>

Init ==
    /\ active_loop = NoLoop
    /\ loop_execution = FALSE /\ lifo_readout = FALSE
    /\ mem \in [0 .. Depth - 1 -> Loop]
    /\ elements_counter = 0 /\ full = FALSE /\ empty = TRUE
    /\ lifo_rdata = NoLoop
    /\ instr \in Instr
    /\ taken = {} /\ opened = {}

Next == (\E i \in Instr : Execute(i)) \/ Reset

(* Any stream of instructions. *)
Spec == Init /\ [][Next]_vars

-----------------------------------------------------------------------------
(* The streams for which the controller executes nested loops: the         *)
(* instruction after the end of an inner loop is again the end of a loop   *)
(* or the start of one, and at most Depth + 1 loops are open.              *)
Disciplined(i) ==
    /\ lifo_readout => i.op = "BRANCH" \/ (i.op = "LOOP" /\ i.count > 0)
    /\ i.op = "LOOP" /\ i.count > 0 => ~full

-----------------------------------------------------------------------------
(* The flags of the LIFO and the state of the controller agree: full and   *)
(* empty say what the counter says (they are registers of their own,       *)
(* pmcc_loop_lifo.sv), a loop taken out of the LIFO is one of an execution *)
(* that goes on, and only an execution has outer loops on the LIFO.        *)
LifoConsistent ==
    /\ full  <=> elements_counter = Depth
    /\ empty <=> elements_counter = 0
    /\ lifo_readout => loop_execution
    /\ ~loop_execution => empty

(* Whatever the program does - loops nested deeper than the LIFO, branches *)
(* outside of loops, LOOP 0, anything right after a pop - a branch goes to *)
(* a body that a LOOP has opened since the reset: no entry of the LIFO is  *)
(* read that was not pushed (mem has no reset), and no register before it  *)
(* was loaded.                                                             *)
NoStaleBranch == taken \subseteq opened

(* The open loops, innermost last. *)
Loops ==
    LET abs(l) == [start |-> l.start_address, owed |-> l.iterations] IN
    IF ~loop_execution THEN <<>>
    ELSE Append([k \in 1 .. elements_counter |-> abs(mem[k - 1])],
                abs(Innermost))

Stack == INSTANCE LoopStack WITH loops <- Loops
=============================================================================
