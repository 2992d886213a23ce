------------------------------- MODULE Timer -------------------------------
(***************************************************************************)
(* The timer: its registers (rtl/soc/peripherals/timer/timer.sv) and the   *)
(* counter (rtl/soc/peripherals/timer/timer_core.sv).  One step is one     *)
(* clock cycle, with at most one access of the bus in it.                  *)
(***************************************************************************)
EXTENDS Integers

CONSTANT CounterSize     \* 2^32 in the code

ASSUME TimerAssumption == CounterSize \in Nat \ {0}

VARIABLES timer_regs,    \* the fields of cr, sr, cntr and cmpr
          timer_core     \* state, run_mode and counter

timervars == <<timer_regs, timer_core>>

Value == 0 .. CounterSize - 1

(* The registers and the counter of the timer keep their widths.           *)
TimerTypeOK ==
    /\ timer_regs \in [trg : BOOLEAN, hlt : BOOLEAN, sngl : BOOLEAN,
                       act : BOOLEAN, mtch : BOOLEAN,
                       cntr : Value, cmpr : Value]
    /\ timer_core \in [state : {"IDLE", "COUNT"},
                       run_mode : {"SINGLE_SHOT", "CONTINUOUS"},
                       counter : Value]

active         == timer_core.state = "COUNT"
match_occurred == active /\ timer_core.counter = timer_regs.cmpr
irq            == timer_regs.mtch

(* A field after the access, before the hardware has its say. *)
TimerWritten(access, reg, field) ==
    IF access.we /\ access.reg = reg THEN access.fields[field]
                                     ELSE timer_regs[field]

(* trg and hlt last one cycle; a match wins over a write of the software.  *)
(* cntr is a register of its own that shows nothing of the counter.        *)
TimerRegsAfter(access) ==
    [ trg  |-> ~timer_regs.trg /\ TimerWritten(access, "cr", "trg"),
      hlt  |-> ~timer_regs.hlt /\ TimerWritten(access, "cr", "hlt"),
      sngl |-> TimerWritten(access, "cr", "sngl"),
      act  |-> active,
      mtch |-> match_occurred \/ TimerWritten(access, "sr", "mtch"),
      cntr |-> TimerWritten(access, "cntr", "cntr"),
      cmpr |-> TimerWritten(access, "cmpr", "cmpr") ]

(* Faulty variant, for the mutation runs: the run mode is not taken over.   *)
TimerCoreAfter_SingleShot ==
    CASE ~active /\ ~timer_regs.trg -> timer_core
      [] ~active /\ timer_regs.trg -> [timer_core EXCEPT !.state = "COUNT"]
      [] active /\ timer_regs.hlt ->
             [timer_core EXCEPT !.state = "IDLE", !.counter = 0]
      [] match_occurred /\ ~timer_regs.hlt ->
             [timer_core EXCEPT !.state = "IDLE", !.counter = 0]
      [] OTHER -> [timer_core EXCEPT !.counter = (@ + 1) % CounterSize]

(* The counter runs over when cmpr lies below it.  A trigger while it runs  *)
(* is not heeded; only hlt stops it.                                       *)
TimerCoreAfter ==
    CASE ~active /\ ~timer_regs.trg -> timer_core
      [] ~active /\ timer_regs.trg ->
             [timer_core EXCEPT !.state = "COUNT",
                                !.run_mode = IF timer_regs.sngl
                                             THEN "SINGLE_SHOT" ELSE "CONTINUOUS"]
      [] active /\ timer_regs.hlt ->
             [timer_core EXCEPT !.state = "IDLE", !.counter = 0]
      [] match_occurred /\ ~timer_regs.hlt ->
             [timer_core EXCEPT !.state = IF timer_core.run_mode = "SINGLE_SHOT"
                                          THEN "IDLE" ELSE "COUNT",
                                !.counter = 0]
      [] OTHER -> [timer_core EXCEPT !.counter = (@ + 1) % CounterSize]

TimerCycle(access) ==
    /\ timer_regs' = TimerRegsAfter(access)
    /\ timer_core' = TimerCoreAfter

TimerInit ==
    /\ timer_regs = [trg |-> FALSE, hlt |-> FALSE, sngl |-> FALSE,
                     act |-> FALSE, mtch |-> FALSE, cntr |-> 0, cmpr |-> 0]
    /\ timer_core = [state |-> "IDLE", run_mode |-> "SINGLE_SHOT", counter |-> 0]
=============================================================================
