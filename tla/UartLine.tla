------------------------------ MODULE UartLine ------------------------------
(***************************************************************************)
(* A line of text from the host to the software and back: the UART, its    *)
(* driver (sw/libs/drivers/src/uart.cpp) as Ui uses it, and a host at the  *)
(* other end of the wire whose clock is not the UART's.  The command       *)
(* interpreter prints back every line that it does not know.               *)
(***************************************************************************)
EXTENDS Uart, SequencesExt

CONSTANTS Lines,         \* the lines the host may send, as sequences of bytes
          Newline, Backspace,    \* two of the bytes
          Div,           \* what the constructor writes to cdr
          BufferSize,    \* characters of a Ui::Buffer: 100 in the code
          BitTimes,      \* cycles that a bit may last for the host
          Pauses,        \* cycles that the host may pause before a byte
          Paces          \* cycles from one access of the software to the next

(* Three cycles between two accesses are what the driver relies on: txact   *)
(* is that late.                                                           *)
ASSUME LineAssumption ==
    /\ Lines \subseteq Seq([0 .. DataBits - 1 -> Bit]) \ {<<>>}
    /\ Div \in 0 .. MaxDivider
    /\ BufferSize \in Nat \ {0}
    /\ BitTimes \subseteq Nat \ {0}
    /\ Pauses \subseteq Nat
    /\ Paces \subseteq Nat \ 0 .. 2

(* The line is to work: the host's clock is no faster than the UART's and   *)
(* so little slower that both ends still take the stop bit for one, and the *)
(* driver has set the UART up before the host begins and looks twice for a  *)
(* byte before the next can be there.                                       *)
ASSUME LineTiming ==
    /\ \A time \in BitTimes : KeepsUp(time, Div) /\ EarKeepsUp(time, Div)
    /\ \A pace \in Paces : 2 * pace <= 100 /\ 2 * pace < MaxWait(Div)

(* What the host sends is one line: there is no newline in it but the last *)
(* byte.                                                                   *)
ASSUME LineEnding ==
    \A line \in Lines : \A k \in 1 .. Len(line) :
        line[k] = Newline <=> k = Len(line)

VARIABLES host,          \* external: what the host sends, and when
          ear, heard,    \* external: what it hears
          sw,            \* the driver: where it is, the buffer and its index
          got            \* history: the bytes the driver has read

linevars == <<uartvars, host, ear, heard, sw, got>>

Host == INSTANCE SerialHost
Ear  == INSTANCE SerialEar

-----------------------------------------------------------------------------
(* It hears what the transmitter says. *)
Listen ==
    /\ Ear!Listen(tx.sout, host.bit_time)
    /\ heard' = IF Ear!Hears THEN Append(heard, Ear!Heard) ELSE heard

-----------------------------------------------------------------------------
(* The software.  An access comes pace cycles after the last one.          *)
Bus(access) ==
    /\ UartCycle(access, Host!Level)
    /\ Host!Speak /\ Listen

At(pc) == sw.pc = pc /\ sw.gap = sw.pace

Wait ==
    /\ sw.gap < sw.pace
    /\ Bus(None)
    /\ sw' = [sw EXCEPT !.gap = @ + 1]
    /\ UNCHANGED got

GoTo(pc) == [sw EXCEPT !.pc = pc, !.gap = 1]

(* Uart::Uart *)
SetDivider ==
    /\ At("divider")
    /\ Bus(WriteReg("cdr", [cdr |-> Div]))
    /\ sw' = GoTo("enable") /\ UNCHANGED got

Enable ==
    /\ At("enable")
    /\ Bus(WriteReg("cr", [en |-> TRUE]))
    /\ sw' = GoTo("poll_rx") /\ UNCHANGED got

(* Uart::read, Uart::is_receiver_ready *)
PollReceiver ==
    /\ At("poll_rx")
    /\ Bus(ReadReg("sr"))
    /\ sw' = GoTo(IF uart_regs.rxne THEN "get" ELSE "poll_rx")
    /\ UNCHANGED got

(* Faulty variant, for the mutation runs: the index stays on the deleted   *)
(* character.                                                              *)
Placed_KeepsIndex(byte) ==
    LET i == sw.i
        next == IF byte = Backspace THEN i ELSE i + 1
    IN  IF byte = Newline
        THEN [GoTo("send") EXCEPT !.text = SubSeq(sw.dest, 1, i), !.i = 0]
        ELSE [GoTo(IF next < BufferSize THEN "poll_rx" ELSE "full")
                 EXCEPT !.dest = IF i < Len(@) THEN ReplaceAt(@, i + 1, byte)
                                               ELSE Append(@, byte),
                        !.i = next]

(* Faulty variant, for the mutation runs: it steps back from the first     *)
(* character too.                                                          *)
Placed_BelowZero(byte) ==
    LET i == sw.i
        next == IF byte = Backspace THEN i - 1 ELSE i + 1
    IN  IF byte = Newline
        THEN [GoTo("send") EXCEPT !.text = SubSeq(sw.dest, 1, i), !.i = 0]
        ELSE [GoTo(IF next < BufferSize THEN "poll_rx" ELSE "full")
                 EXCEPT !.dest = IF i < Len(@) THEN ReplaceAt(@, i + 1, byte)
                                               ELSE Append(@, byte),
                        !.i = next]

(* The body of the loop of Uart::read(dest, len): the byte goes to dest[i], *)
(* a newline ends the string there, and a backspace steps back.             *)
Placed(byte) ==
    LET i == sw.i
        next == IF byte = Backspace THEN IF i > 0 THEN i - 1 ELSE 0
                                    ELSE i + 1
    IN  IF byte = Newline
        THEN [GoTo("send") EXCEPT !.text = SubSeq(sw.dest, 1, i), !.i = 0]
        ELSE [GoTo(IF next < BufferSize THEN "poll_rx" ELSE "full")
                 EXCEPT !.dest = IF i < Len(@) THEN ReplaceAt(@, i + 1, byte)
                                               ELSE Append(@, byte),
                        !.i = next]

GetByte ==
    /\ At("get")
    /\ Bus(ReadReg("rdr"))
    /\ sw' = Placed(uart_regs.rdr)
    /\ got' = Append(got, uart_regs.rdr)

(* Uart::write, of the string that was read: up to its end, or to a byte    *)
(* of zeros among those that came.                                         *)
Nul == Zeros
StringEnds == sw.i < Len(sw.text) => sw.text[sw.i + 1] = Nul

SendByte ==
    /\ At("send") /\ ~StringEnds
    /\ Bus(WriteReg("tdr", [tdr |-> sw.text[sw.i + 1]]))
    /\ sw' = [GoTo("poll_tx") EXCEPT !.i = @ + 1] /\ UNCHANGED got

(* Faulty variant, for the mutation runs: the status is read only once.    *)
PollTransmitter_Once ==
    /\ At("poll_tx")
    /\ Bus(ReadReg("sr"))
    /\ sw' = GoTo("send")
    /\ UNCHANGED got

PollTransmitter ==
    /\ At("poll_tx")
    /\ Bus(ReadReg("sr"))
    /\ sw' = GoTo(IF uart_regs.txact THEN "poll_tx" ELSE "send")
    /\ UNCHANGED got

(* The string is out, or the buffer is full: the driver returns 1, which   *)
(* Ui ignores, and what is printed then is not defined.                    *)
Finished == sw.pc = "full" \/ (sw.pc = "send" /\ StringEnds)

Done == Finished /\ sw.gap = sw.pace /\ UNCHANGED linevars

LineNext ==
    \/ Wait \/ SetDivider \/ Enable \/ PollReceiver \/ GetByte \/ SendByte
    \/ PollTransmitter \/ Done

LineInit ==
    /\ UartInit
    /\ \E line \in Lines, time \in BitTimes, pause \in Pauses :
          Host!Starts(line, time, 100 + pause)
    /\ Ear!Init /\ heard = <<>>
    /\ \E pace \in Paces :
          sw = [pc |-> "divider", pace |-> pace, gap |-> 1, dest |-> <<>>,
                i |-> 0, text |-> <<>>]
    /\ got = <<>>

(* The clock runs and the software is never held up. *)
LineSpec == LineInit /\ [][LineNext]_linevars /\ WF_linevars(LineNext)

-----------------------------------------------------------------------------
(* Every state is well typed; the driver's index stays within the buffer,  *)
(* whatever backspaces come (Uart::read).                                  *)
LineTypeOK ==
    /\ UartTypeOK
    /\ Host!TypeOK
    /\ Ear!TypeOK
    /\ sw.gap \in 1 .. sw.pace
    /\ sw.i \in 0 .. BufferSize

(* The driver reads the bytes of the host, each once and in order and with *)
(* no stop bit missed on either end, however their clocks lie to each      *)
(* other and with no pause between bytes, if it does nothing but read.     *)
BytesInOrder == IsPrefix(got, host.line) /\ ~uart_regs.rxerr /\ ~ear.error

(* A byte is written to tdr only when the transmitter is idle and no byte  *)
(* is on its way to it: the status the driver polls, two cycles late, is   *)
(* never too old.                                                          *)
NeverOverwritten ==
    sw.pc = "send" => tx.state = "IDLE" /\ ~tx_data_valid

(* What a line with backspaces means: each takes the character before it   *)
(* away, if there is one.                                                  *)
Edit(text, byte) ==
    IF byte # Backspace THEN Append(text, byte)
    ELSE IF text = <<>> THEN text
    ELSE Front(text)

Edited(line) ==
    LET text[n \in 0 .. Len(line)] ==
            IF n = 0 THEN <<>> ELSE Edit(text[n - 1], line[n])
    IN  text[Len(line)]

(* What a string shows: the bytes before the first NUL, if there is one.   *)
Shows(text) ==
    LET n == CHOOSE k \in 0 .. Len(text) :
                 /\ \A j \in 1 .. k : text[j] # Nul
                 /\ k = Len(text) \/ text[k + 1] = Nul
    IN  SubSeq(text, 1, n)

(* The host gets back the line it sent, edited, as far as a string can     *)
(* hold it: the printing stops at a NUL that is left in it.                *)
LineComesBack ==
    sw.pc = "send" /\ StringEnds => heard = Shows(Edited(Front(host.line)))

(* The driver gets through every line: it polls neither for a byte that    *)
(* was lost nor for a transmission that does not end.                      *)
LineEnds == <>Finished
=============================================================================
