----------------------------- MODULE Bootloader -----------------------------
(***************************************************************************)
(* The bootloader (sw/bootloader/src/main.cpp and status_led.cpp), from    *)
(* the constructor of the UART's driver to the jump into the code RAM.     *)
(* What is left to do is a sequence of accesses, a loop or a choice as one *)
(* of them; when nothing is left the jump comes.  A message is one byte.   *)
(***************************************************************************)
EXTENDS CodeLoader

CONSTANTS UartDivider,   \* what the constructor of the driver writes to cdr
          SkippingPin, SourcePin, StatusPin,       \* 17, 16 and 15 in the code
          HostImage,     \* what the host sends: the words of a program
          Sent,          \* how many bytes of it may come
          BitTime,       \* cycles that a bit of the host lasts
          Counts         \* what the cycle counter may be when the load begins

Message == [k \in 0 .. DataBits - 1 |-> 1]
HostByte(n) == HostImage[(n - 1) \div 4][(n - 1) % 4]

(* The counters of bits have four bits.                                    *)
ASSUME BootAssumption ==
    /\ Counts \subseteq Nat
    /\ {0, 1} \subseteq Bit /\ DataBits \in 1 .. 15
    /\ Oversampling \in Nat /\ Oversampling > 1
    /\ UartDivider \in 0 .. MaxDivider
    /\ {SkippingPin, SourcePin, StatusPin} \subseteq Pins
    /\ CodeWords \in Nat \ {0}
    /\ \A n \in DOMAIN FlashImage :
           FlashImage[n] \in [0 .. 3 -> [0 .. DataBits - 1 -> Bit]]
    /\ BitTime \in Nat \ {0} /\ Pauses \subseteq Nat
    /\ Sent \subseteq Nat
    /\ \A sent \in Sent : \A n \in 1 .. sent :
           HostByte(n) \in [0 .. DataBits - 1 -> Bit]

(* The flash sees the serial clock three cycles late, and holds all of the *)
(* program, which its address space has room for.                          *)
ASSUME FlashAssumption ==
    /\ SpiDivider >= 3
    /\ CodeWords <= Flash!FlashSpace
    /\ 0 .. CodeWords - 1 \subseteq DOMAIN FlashImage

(* A load over the UART is to work: the host's clock is no faster than the  *)
(* UART's and little slower, the loader comes back to the receiver before   *)
(* a second byte can have come, and the host sends words of four bytes.     *)
ASSUME HostAssumption ==
    /\ Uartm!KeepsUp(BitTime, UartDivider)
    /\ \A pace \in Paces : 4 * pace + 1 < Uartm!MaxWait(UartDivider)
    /\ \A n \in 0 .. CodeWords - 1 :
           HostImage[n] \in [0 .. 3 -> [0 .. DataBits - 1 -> Bit]]

-----------------------------------------------------------------------------
(* main and Status_led.  A write of a string polls the transmitter after   *)
(* each byte; the read of a register before its write changes nothing and  *)
(* is left out.                                                            *)
Say   == <<"say", "said">>
Light == <<"direct", "light">>
Dark  == <<"direct", "dark">>
Blink == Light \o <<"delay">> \o Dark \o <<"delay">>

Main           == Say \o <<"delay">> \o Blink \o <<"skip">>
CodeloadStep   == <<"source">>
ThroughUart    == Say \o <<"uart", "uart_result">>
ThroughSpi     == Say \o <<"spi">>
Success        == Say \o <<"delay">> \o Blink \o Blink \o <<"delay">>
Failure        == Say \o <<"delay">> \o Blink \o <<"again">>
End            == <<"mtvec">> \o Say \o <<"delay">> \o Light

GpioWrite(op, reg, pins) ==
    /\ At(op)
    /\ Bus("gpio", Gpiom!WriteReg(reg, pins))
    /\ Return /\ UNCHANGED <<cram, loader>>

(* Gpio::set_bootloader_status_pin: the direction, then the level. *)
SetDirection  == GpioWrite("direct", "oenr", gpio_regs.oenr \ {StatusPin})
SetStatusPin  == GpioWrite("light", "odr", gpio_regs.odr \cup {StatusPin})
ClearStatusPin == GpioWrite("dark", "odr", gpio_regs.odr \ {StatusPin})

(* mdelay *)
Delay ==
    /\ At("delay")
    /\ NoAccess
    /\ Return /\ UNCHANGED <<cram, loader>>

(* Uart::Uart *)
UartWrite(op, reg, fields, next) ==
    /\ At(op)
    /\ Bus("uart", Uartm!WriteReg(reg, fields))
    /\ Do(next) /\ UNCHANGED <<cram, loader>>

SetUartDivider == UartWrite("uart_divider", "cdr", [cdr |-> UartDivider], <<>>)
EnableUart     == UartWrite("uart_enable", "cr", [en |-> TRUE], Main)

(* Uart::write *)
SayByte == UartWrite("say", "tdr", [tdr |-> Message], <<>>)

PollTransmitter ==
    /\ At("said")
    /\ Bus("uart", Uartm!ReadReg("sr"))
    /\ Do(IF uart_regs.txact THEN <<"said">> ELSE <<>>)
    /\ UNCHANGED <<cram, loader>>

ReadPin(op, high, low) ==
    /\ At(op)
    /\ Bus("gpio", Gpiom!ReadReg("idr"))
    /\ Do(IF (IF op = "skip" THEN SkippingPin ELSE SourcePin) \in gpio_regs.idr
          THEN high ELSE low)
    /\ UNCHANGED <<cram, loader>>

Skip   == ReadPin("skip", Say \o End, CodeloadStep)
Source == ReadPin("source", ThroughUart, ThroughSpi \o Success \o End)

(* Faulty variant, for the mutation runs: the result is not looked at.     *)
CheckResult_Ignored ==
    /\ At("uart_result")
    /\ NoAccess
    /\ Do(Success \o End)
    /\ UNCHANGED <<cram, loader>>

(* A load that was given up never gets out of its blinking. *)
CheckResult ==
    /\ At("uart_result")
    /\ NoAccess
    /\ Do(IF loader.result = "timeout" THEN Failure ELSE Success \o End)
    /\ UNCHANGED <<cram, loader>>

BlinkAgain ==
    /\ At("again")
    /\ NoAccess
    /\ Do(Blink \o <<"again">>)
    /\ UNCHANGED <<cram, loader>>

SetTrapVector ==
    /\ At("mtvec")
    /\ NoAccess
    /\ sw' = [sw EXCEPT !.todo = Tail(@), !.gap = 1, !.mtvec = "code_ram"]
    /\ UNCHANGED <<cram, loader>>

Jumped == At("jump")

Running == Jumped /\ UNCHANGED loadervars

BootNext ==
    \/ Wait \/ LoaderStep
    \/ SetUartDivider \/ EnableUart \/ SayByte \/ PollTransmitter \/ Skip
    \/ Source \/ CheckResult \/ SetDirection \/ SetStatusPin \/ ClearStatusPin
    \/ Delay \/ BlinkAgain \/ SetTrapVector \/ Running

BootInit ==
    /\ Spim!SpiInit /\ Flash!FlashInit /\ Uartm!UartInit /\ Gpiom!GpioInit
    /\ din \in SUBSET {SkippingPin, SourcePin}
    /\ \E sent \in Sent, pause \in Pauses :
          Host!Starts([n \in 1 .. sent |-> HostByte(n)], BitTime,
                      IF sent = 0 THEN 0 ELSE 1 + pause)
    /\ mcycle \in Counts
    /\ cram = [n \in 0 .. CodeWords - 1 |-> <<>>]
    /\ \E pace \in Paces :
          sw = [todo |-> <<"uart_divider", "uart_enable">>, gap |-> 1,
                pace |-> pace, mtvec |-> "boot_rom"]
    /\ loader = [source |-> "none", i |-> 0, bytes |-> <<>>, low |-> 0,
                 timeout |-> 0, began |-> 0, result |-> "none"]

(* The clock runs and the core is never held up. *)
BootSpec == BootInit /\ [][BootNext]_loadervars /\ WF_loadervars(BootNext)

-----------------------------------------------------------------------------
(* Every state is well typed.                                              *)
BootTypeOK ==
    /\ Spim!SpiTypeOK /\ Flash!FlashTypeOK /\ Uartm!UartTypeOK /\ Host!TypeOK
    /\ Gpiom!GpioTypeOK
    /\ loader.i \in 0 .. CodeWords /\ Len(loader.bytes) <= 4
    /\ sw.gap \in 1 .. Gap(Now)

(* The whole of it does what a load of code promises: the words of the     *)
(* chosen source come in order, each of them whole, and the jump into the  *)
(* code RAM comes after the last of them and with the trap vector set, or  *)
(* when the load is skipped; after a timeout it never comes.               *)
Status ==
    IF Jumped /\ sw.mtvec = "code_ram" THEN "running"
    ELSE IF loader.source = "none" THEN "starting"
    ELSE CASE loader.result = "none" -> "loading"
           [] loader.result = "done" -> "loaded"
           [] loader.result = "timeout" -> "failed"

Loading == INSTANCE CodeLoading WITH
    Images <- [spi |-> FlashImage, uart |-> HostImage],
    status <- Status, source <- loader.source, stored <- loader.i, ram <- cram,
    skip <- SkippingPin \in din,
    chosen <- IF SourcePin \in din THEN "uart" ELSE "spi"

ImplementsLoading == Loading!Spec

(* The bootloader comes to an end: the software in the code RAM runs, or   *)
(* the load was given up and the status pin blinks.                        *)
BootEnds == <>(Status \in {"running", "failed"})
=============================================================================
