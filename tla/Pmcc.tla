-------------------------------- MODULE Pmcc --------------------------------
(***************************************************************************)
(* The pixel matrix coprocessor                                            *)
(* (rtl/soc/peripherals/pmc/coprocessor/pmcc.sv): program counter,         *)
(* instruction decoder, wait controller, matrix controller and the loop    *)
(* controller, with the port of the code RAM that fetches for it.  One     *)
(* step is one clock cycle; an instruction takes one cycle, a WAITT as     *)
(* many as the trigger makes it wait.                                      *)
(***************************************************************************)
EXTENDS Integers, Sequences

CONSTANTS PcSize, IterSize, Depth      \* as in LoopController

VARIABLES pc_id,         \* address of the instruction in instr
          instr,         \* the four bytes read from the code RAM
          matrix_ctrl,   \* the 16 control lines of the matrix
          active_loop, loop_execution, lifo_readout,
          mem, elements_counter, full, empty, lifo_rdata,
          executed, taken, opened      \* histories of LoopController

loopvars == <<active_loop, loop_execution, lifo_readout, mem,
              elements_counter, full, empty, lifo_rdata, executed, taken,
              opened>>
pmccvars == <<pc_id, instr, matrix_ctrl, loopvars>>

LC == INSTANCE LoopController WITH instr <- executed

Addr == 0 .. PcSize - 1
Byte == 0 .. 255
Output == 0 .. 65535

TypeOK ==
    /\ pc_id \in Addr
    /\ instr \in [0 .. 3 -> Byte]
    /\ matrix_ctrl \in Output
    /\ LC!TypeOK

-----------------------------------------------------------------------------
(* The decoder: the three upper bits of the first byte select the          *)
(* instruction, the other bits and the following bytes are its immediate.  *)
Op ==
    LET op == instr[0] \div 32 IN
    CASE op \in {6, 7} -> "STORE"
      [] op \in {4, 5} -> "STOREB"
      [] op \in {2, 3} -> "LOOP"
      [] op = 1        -> "JUMP"
      [] op = 0        -> "WAITT"

Length ==
    CASE Op \in {"STORE", "STOREB"} -> 3
      [] Op \in {"LOOP", "JUMP"}    -> 2
      [] Op = "WAITT"               -> 1

Immediate == (instr[0] % 64) * 256 + instr[1]
Stored    == instr[2] * 256 + instr[1]

(* Faulty variants, for the mutation runs: LOOP decoded as a wait too; the *)
(* branch decided by the loop that is no longer the innermost one.         *)
Waitt_AndLoop         == Op \in {"WAITT", "LOOP"}
Branches_OnActiveLoop == Op = "STOREB" /\ LC!InLoop /\ active_loop.iterations > 0

Waitt  == Op = "WAITT"
Stores == Op \in {"STORE", "STOREB"}

(* The instruction as the loop controller sees it. *)
Seen == [ op    |-> CASE Op = "LOOP"   -> "LOOP"
                      [] Op = "STOREB" -> "BRANCH"
                      [] OTHER         -> "OTHER",
          count |-> Immediate % IterSize,
          pc    |-> pc_id ]

Branches == Op = "STOREB" /\ LC!InLoop /\ LC!Innermost.iterations > 0

(* The address fetched in this cycle. *)
PcIf(rst_n, trigger) ==
    CASE ~rst_n                       -> 0
      [] rst_n /\ Waitt /\ ~trigger   -> pc_id
      [] rst_n /\ Op = "JUMP"         -> Immediate % PcSize
      [] rst_n /\ Branches            -> LC!Innermost.start_address
      [] OTHER                        -> (pc_id + Length) % PcSize

(* The code RAM reads four bytes from the address on; it has nothing       *)
(* behind its last byte.                                                   *)
Fetch(code, addr) ==
    IF addr + 3 < PcSize
    THEN instr' = [k \in 0 .. 3 |-> code[addr + k]]
    ELSE \E junk \in Byte :
             instr' = [k \in 0 .. 3 |-> IF addr + k < PcSize THEN code[addr + k]
                                                             ELSE junk]

-----------------------------------------------------------------------------
(* A cycle out of reset. *)
Run(trigger, code) ==
    /\ pc_id' = PcIf(TRUE, trigger)
    /\ Fetch(code, PcIf(TRUE, trigger))
    /\ matrix_ctrl' = IF Stores THEN Stored ELSE matrix_ctrl
    /\ LC!Execute(Seen)

(* A cycle at whose beginning (rst_n) or end the asynchronous reset is     *)
(* asserted; the code RAM goes on reading.                                 *)
Held(rst_n, trigger, code) ==
    /\ pc_id' = 0
    /\ Fetch(code, PcIf(rst_n, trigger))
    /\ matrix_ctrl' = 0
    /\ LC!Reset

(* rst_n now and after the clock edge. *)
Step(rst_n, rst_n_next, trigger, code) ==
    \/ rst_n /\ rst_n_next /\ Run(trigger, code)
    \/ ~(rst_n /\ rst_n_next) /\ Held(rst_n, trigger, code)

(* In reset, with what a program's first bytes fetch.  The memory of the   *)
(* LIFO has any contents; none of it is read before it is written          *)
(* (LoopController!NoStaleBranch).                                         *)
Init(code) ==
    /\ pc_id = 0
    /\ instr = [k \in 0 .. 3 |-> code[k]]
    /\ matrix_ctrl = 0
    /\ active_loop = LC!NoLoop /\ lifo_rdata = LC!NoLoop
    /\ loop_execution = FALSE /\ lifo_readout = FALSE
    /\ mem = [k \in 0 .. Depth - 1 |-> LC!NoLoop]
    /\ elements_counter = 0 /\ full = FALSE /\ empty = TRUE
    /\ executed = [op |-> "OTHER", count |-> 0, pc |-> 0]
    /\ taken = {} /\ opened = {}
=============================================================================
