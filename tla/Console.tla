------------------------------ MODULE Console ------------------------------
(***************************************************************************)
(* The command interpreter's console with a heartbeat: commands print      *)
(* through the UART, set_heartbeat starts the timer, and the timer's       *)
(* interrupt prints through the same UART in the midst of a command        *)
(* (sw/command_interpreter/src/command_interpreter.cpp,                    *)
(* sw/libs/drivers/src/{uart,timer,core}.cpp).  How a command comes in is  *)
(* left open: it may come at any time.                                     *)
(***************************************************************************)
EXTENDS Uart, Timer, SequencesExt

CONSTANTS Text,          \* what is printed: prompt, ping and beat
          Periods,       \* arguments of set_heartbeat, in cycles
          Div,           \* what the constructor of Uart writes to cdr
          Pace,          \* cycles from one access of the software to the next
          Entry          \* cycles from an interrupt request to its handler

(* The texts are not empty, the beat begins with two different bytes       *)
(* ("heartbeat"), a status is not read sooner than txact follows a store,  *)
(* and half a bit is longer than what the start bit may be short of.       *)
ASSUME ConsoleAssumption ==
    /\ Text \in [{"prompt", "ping", "beat"}
                     -> Seq([0 .. DataBits - 1 -> Bit]) \ {<<>>}]
    /\ Len(Text.beat) > 1 /\ Text.beat[1] # Text.beat[2]
    /\ Periods \subseteq 1 .. CounterSize
    /\ Div \in 0 .. MaxDivider
    /\ Pace \in Nat \ 0 .. 2 /\ Entry \in Nat
    /\ Oversampling > 2

VARIABLES main,          \* the interpreter: where it is, what it prints
          isr,           \* the timer's interrupt handler, likewise
          core,          \* mstatus.mie, mie[17], timer_interrupts_handler
          ear,           \* external: the host
          owed,          \* history: bytes written and not heard
          lost           \* history: bytes the transmitter did not take

consolevars == <<uartvars, timervars, main, isr, core, ear, owed, lost>>

Ear == INSTANCE SerialEar

BitTime == 2 * (Div + 1) * Oversampling

-----------------------------------------------------------------------------
(* The hardware and the host, in every cycle.                              *)

(* A byte that arrives at the transmitter while it is busy. *)
Collision == tx_data_valid /\ Tx!busy

(* What is still owed when byte has been heard: the bytes written after it. *)
After(byte) ==
    LET place == SelectInSeq(owed, LAMBDA b : b = byte)
    IN  SubSeq(owed, place + 1, Len(owed))

Unheard == IF Ear!Hears THEN After(Ear!Heard) ELSE owed

(* All but the last of the bytes that are no longer owed were lost. *)
FoundLost == IF Ear!Hears THEN Len(owed) - Len(Unheard) - 1 ELSE 0

Cycle(uart_access, timer_access) ==
    /\ UartCycle(uart_access, 1)
    /\ TimerCycle(timer_access)
    /\ Ear!Listen(tx.sout, BitTime)
    /\ owed' = IF IsWritten(uart_access, "tdr")
               THEN Append(Unheard, uart_access.fields.tdr) ELSE Unheard
    /\ lost' = lost + (IF Collision THEN 1 ELSE 0) - FoundLost

-----------------------------------------------------------------------------
(* Where the software is.                                                  *)
Taken   == isr.pc = "off" /\ core.mie /\ core.tmr /\ irq
InMain(pc) == isr.pc = "off" /\ ~Taken /\ main.gap = 0 /\ main.pc = pc
InIsr(pc)  == isr.gap = 0 /\ isr.pc = pc

(* On to the next instruction of interest. *)
Go(thread, pc) == [thread EXCEPT !.pc = pc, !.gap = Pace - 1]

MainWaits ==
    /\ isr.pc = "off" /\ ~Taken /\ main.gap > 0
    /\ Cycle(None, None)
    /\ main' = [main EXCEPT !.gap = @ - 1]
    /\ UNCHANGED <<isr, core>>

IsrWaits ==
    /\ isr.gap > 0
    /\ Cycle(None, None)
    /\ isr' = [isr EXCEPT !.gap = @ - 1]
    /\ UNCHANGED <<main, core>>

(* Interrupts are masked and the handler is called; a call of the null     *)
(* pointer ends in the endless loop at the start of the boot ROM.          *)
Interrupt ==
    /\ Taken
    /\ Cycle(None, None)
    /\ isr' = [isr EXCEPT !.pc = IF core.handler = "beat" THEN "send" ELSE "stray",
                          !.gap = IF core.handler = "beat" THEN Entry ELSE 0,
                          !.i = 0]
    /\ core' = [core EXCEPT !.mie = FALSE]
    /\ UNCHANGED main

Strays ==
    /\ isr.pc = "stray"
    /\ Cycle(None, None)
    /\ UNCHANGED <<main, isr, core>>

-----------------------------------------------------------------------------
(* The heartbeat: ui << "heartbeat\n"; timer.clear_matched().              *)
IsrSends ==
    /\ InIsr("send")
    /\ Cycle(WriteReg("tdr", [tdr |-> Text.beat[isr.i + 1]]), None)
    /\ isr' = [Go(isr, "poll") EXCEPT !.i = @ + 1]
    /\ UNCHANGED <<main, core>>

(* Faulty variant, for the mutation runs: the status is read only once.    *)
IsrPolls_Once ==
    /\ InIsr("poll")
    /\ Cycle(ReadReg("sr"), None)
    /\ isr' = Go(isr, IF isr.i < Len(Text.beat) THEN "send" ELSE "read_sr")
    /\ UNCHANGED <<main, core>>

IsrPolls ==
    /\ InIsr("poll")
    /\ Cycle(ReadReg("sr"), None)
    /\ isr' = Go(isr, IF uart_regs.txact THEN "poll"
                      ELSE IF isr.i < Len(Text.beat) THEN "send" ELSE "read_sr")
    /\ UNCHANGED <<main, core>>

(* sr->mtch = false, by way of a read of the register. *)
IsrReadsStatus ==
    /\ InIsr("read_sr")
    /\ Cycle(None, ReadReg("sr"))
    /\ isr' = Go(isr, "write_sr")
    /\ UNCHANGED <<main, core>>

IsrClearsMatched ==
    /\ InIsr("write_sr")
    /\ Cycle(None, WriteReg("sr", [mtch |-> FALSE]))
    /\ isr' = Go(isr, "leave")
    /\ UNCHANGED <<main, core>>

IsrReturns ==
    /\ InIsr("leave")
    /\ Cycle(None, None)
    /\ isr' = [isr EXCEPT !.pc = "off"]
    /\ core' = [core EXCEPT !.mie = TRUE]
    /\ UNCHANGED main

-----------------------------------------------------------------------------
(* The interpreter.  After each command it prints the prompt.              *)
Says(text) == [Go(main, "send") EXCEPT !.text = text, !.i = 0]

MainSends ==
    /\ InMain("send")
    /\ Cycle(WriteReg("tdr", [tdr |-> Text[main.text][main.i + 1]]), None)
    /\ main' = [Go(main, "poll") EXCEPT !.i = @ + 1]
    /\ UNCHANGED <<isr, core>>

Printed ==
    IF main.i < Len(Text[main.text]) THEN Go(main, "send")
    ELSE IF main.text = "ping" THEN Says("prompt")
    ELSE [Go(main, "idle") EXCEPT !.gap = 0]

(* Faulty variant, for the mutation runs: the status is read only once.    *)
MainPolls_Once ==
    /\ InMain("poll")
    /\ Cycle(ReadReg("sr"), None)
    /\ main' = Printed
    /\ UNCHANGED <<isr, core>>

MainPolls ==
    /\ InMain("poll")
    /\ Cycle(ReadReg("sr"), None)
    /\ main' = IF uart_regs.txact THEN Go(main, "poll") ELSE Printed
    /\ UNCHANGED <<isr, core>>

Idle ==
    /\ InMain("idle")
    /\ Cycle(None, None)
    /\ UNCHANGED <<main, isr, core>>

Ping ==
    /\ InMain("idle")
    /\ Cycle(None, None)
    /\ main' = Says("ping")
    /\ UNCHANGED <<isr, core>>

(* set_heartbeat with a positive argument: the handler, its interrupt, the *)
(* period, the timer's trigger and the interrupts, in this order.  A       *)
(* command whose argument is missing or no number is refused before any of *)
(* it, in CommandInterpreter.                                              *)
SetHandler(period) ==
    /\ InMain("idle")
    /\ Cycle(None, None)
    /\ core' = [core EXCEPT !.handler = "beat"]
    /\ main' = [Go(main, "unmask") EXCEPT !.period = period]
    /\ UNCHANGED isr

Unmask ==
    /\ InMain("unmask")
    /\ Cycle(None, None)
    /\ core' = [core EXCEPT !.tmr = TRUE]
    /\ main' = Go(main, "set_cmpr")
    /\ UNCHANGED isr

SetCmpr ==
    /\ InMain("set_cmpr")
    /\ Cycle(None, WriteReg("cmpr", [cmpr |-> main.period - 1]))
    /\ main' = Go(main, "read_cr")
    /\ UNCHANGED <<isr, core>>

(* cr->trg = true or false, by way of a read of the register. *)
ReadControl ==
    /\ InMain("read_cr") \/ InMain("read_cr_off")
    /\ Cycle(None, ReadReg("cr"))
    /\ main' = [Go(main, IF main.pc = "read_cr" THEN "enable" ELSE "disable")
                   EXCEPT !.cr = [hlt |-> timer_regs.hlt, sngl |-> timer_regs.sngl,
                                  trg |-> main.pc = "read_cr"]]
    /\ UNCHANGED <<isr, core>>

Enable ==
    /\ InMain("enable")
    /\ Cycle(None, WriteReg("cr", main.cr))
    /\ main' = Go(main, "enable_interrupts")
    /\ UNCHANGED <<isr, core>>

EnableInterrupts ==
    /\ InMain("enable_interrupts")
    /\ Cycle(None, None)
    /\ core' = [core EXCEPT !.mie = TRUE]
    /\ main' = Says("prompt")
    /\ UNCHANGED isr

(* set_heartbeat with 0: writing 0 to trg does not stop the timer; then    *)
(* the handler goes, and after it its interrupt.                           *)
TurnOff ==
    /\ InMain("idle")
    /\ Cycle(None, None)
    /\ main' = Go(main, "read_cr_off")
    /\ UNCHANGED <<isr, core>>

Disable ==
    /\ InMain("disable")
    /\ Cycle(None, WriteReg("cr", main.cr))
    /\ main' = Go(main, "clear_handler")
    /\ UNCHANGED <<isr, core>>

ClearHandler ==
    /\ InMain("clear_handler")
    /\ Cycle(None, None)
    /\ core' = [core EXCEPT !.handler = "null"]
    /\ main' = Go(main, "mask")
    /\ UNCHANGED isr

(* Faulty variant, for the mutation runs: another interrupt is masked.     *)
Mask_WrongBit ==
    /\ InMain("mask")
    /\ Cycle(None, None)
    /\ main' = Says("prompt")
    /\ UNCHANGED <<isr, core>>

Mask ==
    /\ InMain("mask")
    /\ Cycle(None, None)
    /\ core' = [core EXCEPT !.tmr = FALSE]
    /\ main' = Says("prompt")
    /\ UNCHANGED isr

ConsoleNext ==
    \/ MainWaits \/ IsrWaits \/ Interrupt \/ Strays
    \/ IsrSends \/ IsrPolls \/ IsrReadsStatus \/ IsrClearsMatched \/ IsrReturns
    \/ MainSends \/ MainPolls \/ Idle \/ Ping
    \/ \E period \in Periods : SetHandler(period)
    \/ Unmask \/ SetCmpr \/ ReadControl \/ Enable \/ EnableInterrupts
    \/ TurnOff \/ Disable \/ ClearHandler \/ Mask

(* main prints its first prompt: Uart's constructor has set cdr and cr.    *)
ConsoleInit ==
    /\ TimerInit /\ Ear!Init
    /\ uart_regs = [en |-> TRUE, rxne |-> FALSE, txact |-> FALSE, rxerr |-> FALSE,
                    tdr |-> Zeros, rdr |-> Zeros, cdr |-> Div]
    /\ tx_data_valid = FALSE /\ clk_divider_valid = FALSE
    /\ clock = [sck |-> FALSE, rising_edge |-> FALSE, falling_edge |-> FALSE,
                counter |-> 0, counter_target |-> Div]
    /\ Tx!Init /\ Rx!Init
    /\ main = [pc |-> "send", gap |-> 0, text |-> "prompt", i |-> 0, period |-> 1,
               cr |-> [hlt |-> FALSE, sngl |-> FALSE, trg |-> FALSE]]
    /\ isr = [pc |-> "off", gap |-> 0, i |-> 0]
    /\ core = [mie |-> FALSE, tmr |-> FALSE, handler |-> "null"]
    /\ owed = <<>> /\ lost = 0

(* The clock runs: the serial clock, which turns in every step, goes on.   *)
ClockRuns   == WF_clock(Clock!Cycle(uart_regs.en, clk_divider_valid, uart_regs.cdr))
ConsoleSpec == ConsoleInit /\ [][ConsoleNext]_consolevars /\ ClockRuns

-----------------------------------------------------------------------------
(* Every state is well typed; at most two bytes are on their way to the    *)
(* host, of which at most one is lost.                                     *)
ConsoleTypeOK ==
    /\ UartTypeOK /\ TimerTypeOK /\ Ear!TypeOK
    /\ core \in [mie : BOOLEAN, tmr : BOOLEAN, handler : {"null", "beat"}]
    /\ owed \in Seq(Tx!Byte) /\ Len(owed) <= 2 /\ lost \in 0 .. 1

(* A handler that finds the transmitter busy costs one byte, no more: its  *)
(* own first byte or the one it interrupts.  What the host hears is what   *)
(* was written, in order and unspoilt, but for those.                      *)
LossesAccounted ==
    /\ Ear!Hears => Ear!Heard \in Range(owed)
    /\ tx.state = "IDLE" /\ ~tx_data_valid /\ ear.left = 0 => Len(owed) = lost
    /\ ~ear.error

(* Only the first byte of a heartbeat meets a busy transmitter; the        *)
(* interrupted printing goes on without a collision afterwards.            *)
OnlyBeatsCollide == Collision => isr.pc = "poll" /\ isr.i = 1

(* A null handler is only ever called in the midst of                      *)
(* disable_timer_interrupts, between its two statements.                   *)
StraysOnlyWhileDisabling == isr.pc = "stray" => main.pc = "mask"

(* The heartbeat leaves the interpreter enough time to end its command.    *)
CommandsReturn == main.pc # "idle" ~> main.pc = "idle" \/ isr.pc = "stray"

(* Between commands a heartbeat that is set keeps coming, whatever the     *)
(* period was before: no match is cleared without a beat, and a counter    *)
(* that is past the new period comes round to it.                          *)
BeatsKeepComing ==
    main.pc = "idle" /\ core.tmr ~> main.pc # "idle" \/ isr.pc = "send"

(* The period is the one that was set: when the command is over, the next  *)
(* match is at most a period away ("set_heartbeat <period [ms]> - set      *)
(* heartbeat" in the help text of command_interpreter.cpp).                *)
NextBeatWithinPeriod ==
    main.pc = "idle" /\ core.tmr /\ active => timer_core.counter <= timer_regs.cmpr

(* "ping - send "ping" to the host" (the same help text): no byte of it is *)
(* passed over.                                                            *)
PingArrives ==
    Ear!Hears => \/ Head(owed) = Ear!Heard
                 \/ Head(owed) \notin Range(Text.ping)
=============================================================================
