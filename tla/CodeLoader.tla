----------------------------- MODULE CodeLoader -----------------------------
(***************************************************************************)
(* The loading of a program into the code RAM                              *)
(* (sw/bootloader/src/code_loader.cpp) over the drivers of SPI and UART,   *)
(* with the hardware it goes through: the SPI master and the flash at its  *)
(* pins, the UART and the host at the other end of its wire, the GPIO      *)
(* controller and the core's cycle counter.  One step is one clock cycle.  *)
(***************************************************************************)
EXTENDS Integers, Sequences

CONSTANTS MaxDivider, Bit, DataBits, Oversampling, Pauses, Pins,
          FlashImage,    \* what is in the flash
          CodeWords,     \* the words of the code RAM
          SpiDivider,    \* 3 in the code
          Timeout,       \* cycles: 1,000,000,000 in the code
          CounterHalf,   \* what half of the cycle counter holds: 2^32
          DelayCycles,   \* what mdelay takes
          Paces          \* cycles from one access of the software to the next

(* The master is in its STOP for a cycle more than the divider says; two   *)
(* accesses must not come earlier than that.                               *)
ASSUME LoaderAssumption ==
    /\ MaxDivider \in Nat /\ SpiDivider \in 0 .. MaxDivider
    /\ Paces \subseteq Nat \ 0 .. 1
    /\ \A pace \in Paces : SpiDivider <= 2 * pace
    /\ Timeout \in Nat
    /\ CounterHalf \in Nat \ {0}
    /\ DelayCycles \in Nat \ {0}

VARIABLES spi_regs, spi_tx_data_valid, spi_clk_divider_valid, spi_clock, master,
          flash,
          uart_regs, tx_data_valid, clk_divider_valid, clock, tx, rx,
          host,
          gpio_regs, edges,
          din,           \* external: the pins that are high
          mcycle,        \* the cycle counter; it matters, and counts, while
                         \* the UART is loaded from
          cram,          \* the code RAM
          sw,            \* the software: what is left to do, and the cycles
                         \* since its last access
          loader         \* the variables of the load functions

hwvars == <<spi_regs, spi_tx_data_valid, spi_clk_divider_valid, spi_clock, master,
            flash, uart_regs, tx_data_valid, clk_divider_valid, clock, tx, rx,
            host, gpio_regs, edges, din, mcycle>>
loadervars == <<hwvars, cram, sw, loader>>

Spim  == INSTANCE Spi
Flash == INSTANCE SpiFlash
Uartm == INSTANCE Uart
Host  == INSTANCE SerialHost
Gpiom == INSTANCE Gpio

(* The software's next operation.  An access comes pace cycles after the   *)
(* last one; the two halves of the cycle counter are read one cycle apart. *)
Now == IF sw.todo = <<>> THEN "jump" ELSE Head(sw.todo)

Gap(op) ==
    CASE op \in {"timeout_high", "test_high"} -> 1
      [] op = "delay" -> DelayCycles
      [] OTHER -> sw.pace

At(op) == Now = op /\ sw.gap = Gap(op)

(* From the first reading of the cycle counter to the end of the load.     *)
Listening == loader.source = "uart" /\ loader.result = "none"
Timing    == Listening \/ At("uart")

(* A cycle of the hardware, with an access of one of the peripherals.  The *)
(* host (external) does not begin before it is listened to.                *)
Bus(port, access) ==
    LET To(p) == IF p = port THEN access ELSE Spim!None IN
    /\ Spim!SpiCycle(To("spi"), flash.miso)
    /\ Flash!FlashCycle(master.ss, master.sck)
    /\ Uartm!UartCycle(To("uart"), Host!Level)
    /\ Gpiom!GpioCycle(To("gpio"), din)
    /\ IF loader.source = "uart" THEN Host!Speak ELSE host' = host
    /\ mcycle' = IF Timing THEN mcycle + 1 ELSE mcycle
    /\ din' = din

NoAccess == Bus("none", Spim!None)

-----------------------------------------------------------------------------
(* The software.                                                           *)
Do(ops) == sw' = [sw EXCEPT !.todo = ops \o Tail(@), !.gap = 1]
Return  == Do(<<>>)

Wait ==
    /\ sw.gap < Gap(Now)
    /\ NoAccess
    /\ sw' = [sw EXCEPT !.gap = @ + 1]
    /\ UNCHANGED <<cram, loader>>

(* The byte of the current word, and what comes after it. *)
Taken(byte)    == [loader EXCEPT !.bytes = Append(@, byte)]
AfterByte(op)  == IF Len(loader.bytes) = 3 THEN <<"store">> ELSE <<op>>
Word           == [j \in 0 .. 3 |-> loader.bytes[j + 1]]

(* Faulty variant, for the mutation runs: one word too many.               *)
Store_OneMore ==
    /\ At("store")
    /\ NoAccess
    /\ cram' = [cram EXCEPT ![loader.i] = Word]
    /\ loader' = [loader EXCEPT !.i = @ + 1, !.bytes = <<>>,
                      !.result = IF loader.i = CodeWords THEN "done" ELSE @]
    /\ IF loader.i = CodeWords THEN Return
       ELSE Do(IF loader.source = "spi" THEN <<"spi_write">> ELSE <<"uart_poll">>)

(* code_ram[i] = word, and the end of a load function                      *)
Store ==
    /\ At("store")
    /\ NoAccess
    /\ cram' = [cram EXCEPT ![loader.i] = Word]
    /\ loader' = [loader EXCEPT !.i = @ + 1, !.bytes = <<>>,
                      !.result = IF loader.i + 1 = CodeWords THEN "done" ELSE @]
    /\ IF loader.i + 1 = CodeWords THEN Return
       ELSE Do(IF loader.source = "spi" THEN <<"spi_write">> ELSE <<"uart_poll">>)

-----------------------------------------------------------------------------
(* load_code_through_spi: Spi::set_phase, Spi::set_clock_divider, and for  *)
(* each byte Spi::read, which writes tdr, polls rxne and reads rdr.        *)
SetPhase ==
    /\ At("spi")
    /\ Bus("spi", Spim!WriteReg("cr", [cpol |-> spi_regs.cpol, cpha |-> TRUE]))
    /\ loader' = [loader EXCEPT !.source = "spi"]
    /\ Do(<<"spi_divider">>) /\ UNCHANGED cram

(* Faulty variant, for the mutation runs: the slowest clock.               *)
SetSpiDivider_Slowest ==
    /\ At("spi_divider")
    /\ Bus("spi", Spim!WriteReg("cdr", [cdr |-> MaxDivider]))
    /\ Do(<<"spi_write">>) /\ UNCHANGED <<cram, loader>>

SetSpiDivider ==
    /\ At("spi_divider")
    /\ Bus("spi", Spim!WriteReg("cdr", [cdr |-> SpiDivider]))
    /\ Do(<<"spi_write">>) /\ UNCHANGED <<cram, loader>>

WriteSpi ==
    /\ At("spi_write")
    /\ Bus("spi", Spim!WriteReg("tdr", [tdr |-> Spim!Zeros]))
    /\ Do(<<"spi_poll">>) /\ UNCHANGED <<cram, loader>>

(* Faulty variant, for the mutation runs: the status is read only once.    *)
PollSpi_Once ==
    /\ At("spi_poll")
    /\ Bus("spi", Spim!ReadReg("sr"))
    /\ Do(<<"spi_get">>) /\ UNCHANGED <<cram, loader>>

PollSpi ==
    /\ At("spi_poll")
    /\ Bus("spi", Spim!ReadReg("sr"))
    /\ Do(IF spi_regs.rxne THEN <<"spi_get">> ELSE <<"spi_poll">>)
    /\ UNCHANGED <<cram, loader>>

GetSpi ==
    /\ At("spi_get")
    /\ Bus("spi", Spim!ReadReg("rdr"))
    /\ loader' = Taken(spi_regs.rdr)
    /\ Do(AfterByte("spi_write")) /\ UNCHANGED cram

-----------------------------------------------------------------------------
(* load_code_through_uart: the counter is read before the first byte, and  *)
(* again whenever no byte is there; when it is too late the receiver is    *)
(* asked once more.                                                        *)
Counter == loader.low + CounterHalf * (mcycle \div CounterHalf)

ReadLow(op, next) ==
    /\ At(op)
    /\ NoAccess
    /\ loader' = [loader EXCEPT !.low = mcycle % CounterHalf, !.source = "uart",
                      !.began = IF op = "uart" THEN mcycle ELSE @]
    /\ Do(<<next>>) /\ UNCHANGED cram

(* Faulty variant, for the mutation runs: the sum is kept in 32 bits.      *)
SetTimeout_Half ==
    /\ At("timeout_high")
    /\ NoAccess
    /\ loader' = [loader EXCEPT !.timeout = (Counter + Timeout) % CounterHalf]
    /\ Do(<<"uart_poll">>) /\ UNCHANGED cram

SetTimeout ==
    /\ At("timeout_high")
    /\ NoAccess
    /\ loader' = [loader EXCEPT !.timeout = Counter + Timeout]
    /\ Do(<<"uart_poll">>) /\ UNCHANGED cram

PollUart ==
    /\ At("uart_poll")
    /\ Bus("uart", Uartm!ReadReg("sr"))
    /\ Do(IF uart_regs.rxne THEN <<"uart_ask">> ELSE <<"test_low">>)
    /\ UNCHANGED <<cram, loader>>

TestTimeout ==
    /\ At("test_high")
    /\ NoAccess
    /\ Do(IF Counter < loader.timeout THEN <<"uart_poll">> ELSE <<"uart_ask">>)
    /\ UNCHANGED <<cram, loader>>

AskAgain ==
    /\ At("uart_ask")
    /\ Bus("uart", Uartm!ReadReg("sr"))
    /\ Do(IF uart_regs.rxne THEN <<"uart_get">> ELSE <<>>)
    /\ loader' = [loader EXCEPT !.result = IF uart_regs.rxne THEN @ ELSE "timeout"]
    /\ UNCHANGED cram

GetUart ==
    /\ At("uart_get")
    /\ Bus("uart", Uartm!ReadReg("rdr"))
    /\ loader' = Taken(uart_regs.rdr)
    /\ Do(AfterByte("uart_poll")) /\ UNCHANGED cram

LoaderStep ==
    \/ Store
    \/ SetPhase \/ SetSpiDivider \/ WriteSpi \/ PollSpi \/ GetSpi
    \/ ReadLow("uart", "timeout_high") \/ SetTimeout
    \/ PollUart \/ ReadLow("test_low", "test_high") \/ TestTimeout
    \/ AskAgain \/ GetUart

-----------------------------------------------------------------------------
(* A byte is written to tdr only when the master is at rest and none is on *)
(* its way to it: one that comes while it still holds the last selection   *)
(* is dropped, and Spi::read would wait for its answer for ever.           *)
NothingDropped ==
    At("spi_write") => master.state = "IDLE" /\ ~spi_tx_data_valid

(* load_code_through_uart gives up no earlier than it says, unless the     *)
(* lower half of the counter ran over meanwhile: the halves are read one   *)
(* after the other, and are then not of the same count.                    *)
Late == \/ mcycle - loader.began >= Timeout
        \/ mcycle \div CounterHalf # loader.began \div CounterHalf

GivesUpOnlyLate == At("uart_ask") /\ ~uart_regs.rxne => Late
=============================================================================
