--------------------------- MODULE UartLine_proof ---------------------------
(***************************************************************************)
(* Proofs about the UART and its driver, for every line, every divider,    *)
(* every length of the buffer, every clock of the host and every pace of   *)
(* the software that leaves three cycles between two accesses.             *)
(***************************************************************************)
EXTENDS UartLine, SequenceTheorems, WellFoundedInduction, TLAPS

USE UartAssumption, LineAssumption

-----------------------------------------------------------------------------
(* The inductive invariant.                                                *)
Places == {"divider", "enable", "poll_rx", "get", "full", "send", "poll_tx"}
Reading == {"divider", "enable", "poll_rx", "get"}
Sends   == {"send", "poll_tx"}

HostOK == Host!Framed(Tx!Byte)

EarOK ==
    /\ ear \in [left : Nat, bits : Seq(Bit), error : BOOLEAN]
    /\ Len(ear.bits) <= DataBits

(* The index is within what it runs over: the buffer that is being filled  *)
(* or the string that is being sent.                                       *)
Drivers == [pc : Places, pace : Paces, gap : Nat, dest : Seq(Tx!Byte),
            i : Nat, text : Seq(Tx!Byte)]

DriverOK ==
    /\ sw \in Drivers
    /\ sw.gap >= 1 /\ sw.gap <= sw.pace
    /\ Len(sw.dest) <= BufferSize /\ Len(sw.text) <= BufferSize
    /\ sw.i <= BufferSize
    /\ sw.pc \in Reading => sw.i < BufferSize /\ sw.i <= Len(sw.dest)
    /\ sw.pc \in Sends => sw.i <= Len(sw.text)

TInv == UartTypeOK /\ HostOK /\ EarOK /\ DriverOK

(* What the driver knows of the transmitter: the byte is on its way for    *)
(* one cycle, the transmitter is busy from the next on, and the status     *)
(* shows it a cycle later.                                                 *)
SInv ==
    /\ tx_data_valid => sw.pc = "poll_tx" /\ sw.gap = 1
    /\ sw.pc # "poll_tx" => tx.state = "IDLE"
    /\ ~uart_regs.txact /\ tx.state # "IDLE" => sw.pc = "poll_tx" /\ sw.gap = 2

(* The invariants the runs check follow. *)
LEMMA InvariantsFollow ==
    ASSUME TInv, SInv
    PROVE  LineTypeOK /\ NeverOverwritten
<1>1. LineTypeOK
  BY DEF TInv, HostOK, Host!Framed, Host!Hosts, Host!Slots, EarOK, DriverOK, LineTypeOK,
         Ear!TypeOK, Host!TypeOK, Drivers
<1>2. NeverOverwritten
  BY DEF SInv, NeverOverwritten
<1> QED
  BY <1>1, <1>2

(* They hold after reset. *)
LEMMA InitHolds == LineInit => TInv /\ SInv
<1> SUFFICES ASSUME LineInit PROVE TInv /\ SInv
  OBVIOUS
<1> USE DEF LineInit
<1>1. UartTypeOK
  <2>1. Zeros \in Tx!Byte /\ Zeros \in Rx!Byte /\ 0 \in Clock!Divider
    BY DEF Zeros, Tx!Byte, Rx!Byte, Clock!Divider
  <2>2. Clock!TypeOK
    BY <2>1 DEF UartInit, Clock!Init, Clock!TypeOK
  <2>3. Tx!TypeOK
    BY DEF UartInit, Tx!Init, Tx!TypeOK, Tx!Byte, Tx!States
  <2>4. Rx!TypeOK
    BY DEF UartInit, Rx!Init, Rx!TypeOK, Rx!Byte, Rx!States, Rx!Zeros
  <2>5. uart_regs \in [en : BOOLEAN, rxne : BOOLEAN, txact : BOOLEAN,
                       rxerr : BOOLEAN, tdr : Tx!Byte, rdr : Rx!Byte,
                       cdr : Clock!Divider]
    BY <2>1 DEF UartInit
  <2> QED
    BY <2>2, <2>3, <2>4, <2>5 DEF UartTypeOK, UartInit
<1>2. HostOK
  <2>1. PICK line \in Lines, time \in BitTimes, pause \in Pauses :
          host = [line |-> line, queue |-> line, bit_time |-> time, slot |-> -1,
                  left |-> 100 + pause]
    BY DEF Host!Starts
  <2>2. line \in Seq(Tx!Byte) /\ line # <<>>
    BY DEF Tx!Byte
  <2>3. -1 \in Host!Slots /\ time \in Host!Duration /\ 100 + pause \in Nat
    BY DEF Host!Slots, Host!Duration
  <2>4. host \in Host!Hosts(Tx!Byte)
    BY <2>1, <2>2, <2>3 DEF Host!Hosts
  <2> QED
    BY <2>1, <2>2, <2>4 DEF HostOK, Host!Framed, Host!Hosts
<1>3. EarOK
  BY DEF EarOK, Ear!Init
<1>4. DriverOK
  BY EmptySeq DEF DriverOK, Drivers, Places, Reading, Sends
<1>5. SInv
  BY DEF SInv, UartInit, Tx!Init
<1> QED
  BY <1>1, <1>2, <1>3, <1>4, <1>5 DEF TInv

-----------------------------------------------------------------------------
(* The ear keeps what it counts within a frame.                            *)
LEMMA EarHears ==
    ASSUME EarOK, NEW level \in Bit, NEW time \in Nat \ {0},
           Ear!Listen(level, time)
    PROVE  EarOK'
<1>1. ear.left \in Nat /\ ear.bits \in Seq(Bit) /\ Len(ear.bits) \in Nat
  BY LenProperties DEF EarOK
<1>2. CASE Ear!Rest(level)
  BY <1>2 DEF EarOK, Ear!Rest
<1>3. CASE Ear!Detect(level, time)
  <2>1. time + time \div 2 \in Nat
    OBVIOUS
  <2> QED
    BY <1>3, <2>1 DEF EarOK, Ear!Detect
<1>4. CASE Ear!Await
  BY <1>1, <1>4 DEF EarOK, Ear!Await
<1>5. CASE Ear!Sample(level, time)
  <2>1. Append(ear.bits, level) \in Seq(Bit)
        /\ Len(Append(ear.bits, level)) = Len(ear.bits) + 1
    BY <1>1
  <2>2. Len(ear.bits) < DataBits
    BY <1>1, <1>5 DEF EarOK, Ear!Hears, Ear!Sample
  <2>3. ear'.bits = Append(ear.bits, level)
    BY <1>5 DEF EarOK, Ear!Sample
  <2>4. ear' \in [left : Nat, bits : Seq(Bit), error : BOOLEAN]
    BY <1>5, <2>1 DEF EarOK, Ear!Sample
  <2> QED
    BY <1>1, <2>1, <2>2, <2>3, <2>4 DEF EarOK
<1>6. CASE Ear!Conclude(level)
  BY <1>6, EmptySeq DEF EarOK, Ear!Conclude
<1> QED
  BY <1>2, <1>3, <1>4, <1>5, <1>6 DEF Ear!Listen

(* A cycle of everything but the driver. *)
LEMMA BusKeepsTypes ==
    ASSUME TInv, NEW access, GoodAccess(access), Bus(access)
    PROVE  UartTypeOK' /\ HostOK' /\ EarOK'
<1>1. UartTypeOK'
  <2>1. Host!Level \in Bit
    BY Host!LevelIsBit DEF TInv, HostOK, Tx!Byte
  <2> QED
    BY <2>1, UartKeepsTypes DEF TInv, Bus
<1>2. HostOK'
  BY Host!SpeakKeepsFrames DEF TInv, HostOK, Bus
<1>3. EarOK'
  <2>1. tx.sout \in Bit
    BY DEF TInv, UartTypeOK, Tx!TypeOK
  <2>2. host.bit_time \in Nat \ {0}
    BY DEF TInv, HostOK, Host!Framed, Host!Hosts, Host!Duration
  <2> QED
    BY <2>1, <2>2, EarHears DEF TInv, Bus, Listen
<1> QED
  BY <1>1, <1>2, <1>3

(* What a cycle does to the transmitter and to its status. *)
LEMMA TransmitterCycle ==
    ASSUME TInv, NEW access, Bus(access)
    PROVE  /\ tx_data_valid' = IsWritten(access, "tdr")
           /\ uart_regs'.txact = (tx.state # "IDLE")
           /\ tx.state = "IDLE" /\ ~tx_data_valid => tx'.state = "IDLE"
<1>1. Tx!Cycle(clock.rising_edge, tx_data_valid, uart_regs.tdr)
  BY DEF Bus, UartCycle
<1>2. tx.state = "IDLE" /\ ~tx_data_valid => tx' = tx
  BY <1>1 DEF Tx!Cycle, Tx!Rest, Tx!Accept, Tx!WithinBit, Tx!FirstBit,
              Tx!NextBit, Tx!StopBit, Tx!Finish
<1>3. uart_regs'.txact = Tx!busy
  BY DEF Bus, UartCycle, RegsAfter
<1> QED
  BY <1>2, <1>3 DEF Bus, UartCycle, Tx!busy

-----------------------------------------------------------------------------
(* The driver.                                                             *)
LEMMA PacesAreLong ==
    ASSUME DriverOK
    PROVE  sw.pace \in Nat /\ sw.pace > 2
<1>1. sw.pace \in Paces
  BY DEF DriverOK, Drivers
<1>2. sw.pace \in Nat /\ sw.pace \notin 0 .. 2
  BY <1>1
<1> QED
  BY <1>2

(* Going to another place changes nothing else. *)
LEMMA GoToFields ==
    ASSUME DriverOK, NEW pc \in Places
    PROVE  /\ GoTo(pc) \in Drivers
           /\ GoTo(pc).pc = pc /\ GoTo(pc).gap = 1 /\ GoTo(pc).pace = sw.pace
           /\ GoTo(pc).dest = sw.dest /\ GoTo(pc).i = sw.i
           /\ GoTo(pc).text = sw.text
  BY DEF GoTo, DriverOK, Drivers

(* A byte that was read is placed within the buffer, whatever it is.       *)
LEMMA ByteIsPlaced ==
    ASSUME DriverOK, NEW byte \in Tx!Byte, sw.pc \in Reading,
           sw' = Placed(byte)
    PROVE  /\ DriverOK'
           /\ sw'.pc \in {"poll_rx", "full", "send"}
           /\ sw'.gap = 1 /\ sw'.pace = sw.pace
<1> DEFINE next == IF byte = Backspace THEN IF sw.i > 0 THEN sw.i - 1 ELSE 0
                                       ELSE sw.i + 1
           dest == IF sw.i < Len(sw.dest) THEN ReplaceAt(sw.dest, sw.i + 1, byte)
                                          ELSE Append(sw.dest, byte)
<1>1. /\ sw.i \in Nat /\ sw.i < BufferSize /\ sw.i <= Len(sw.dest)
      /\ sw.dest \in Seq(Tx!Byte) /\ Len(sw.dest) \in Nat
      /\ Len(sw.dest) <= BufferSize
  BY LenProperties DEF DriverOK, Drivers
<1>2. CASE byte = Newline
  <2> DEFINE text == SubSeq(sw.dest, 1, sw.i)
  <2>1. text \in Seq(Tx!Byte) /\ Len(text) = sw.i
    BY <1>1, SubSeqProperties, ElementOfSeq
  <2>2. sw' = [GoTo("send") EXCEPT !.text = text, !.i = 0]
    BY <1>2 DEF Placed
  <2> HIDE DEF text
  <2>3. /\ sw'.pc = "send" /\ sw'.pace = sw.pace /\ sw'.gap = 1
        /\ sw'.dest = sw.dest /\ sw'.i = 0 /\ sw'.text = text
    BY <2>2, GoToFields DEF Drivers, Places
  <2>4. sw' \in Drivers
    <3>1. GoTo("send") \in Drivers
      BY GoToFields DEF Places
    <3>2. ASSUME NEW d \in Drivers
          PROVE  [d EXCEPT !.text = text, !.i = 0] \in Drivers
      BY <2>1 DEF Drivers
    <3> QED
      BY <2>2, <3>1, <3>2
  <2> QED
    BY <1>1, <2>1, <2>3, <2>4, PacesAreLong DEF DriverOK, Reading, Sends
<1>3. CASE byte # Newline
  <2>1. next \in Nat /\ next <= sw.i + 1
    BY <1>1
  <2>2. /\ dest \in Seq(Tx!Byte)
        /\ Len(dest) = IF sw.i < Len(sw.dest) THEN Len(sw.dest) ELSE Len(sw.dest) + 1
    <3>1. CASE sw.i < Len(sw.dest)
      BY <1>1, <3>1, ExceptSeq DEF ReplaceAt
    <3>2. CASE ~(sw.i < Len(sw.dest))
      BY <1>1, <3>2
    <3> QED
      BY <3>1, <3>2
  <2>3. Len(dest) \in Nat /\ Len(dest) <= BufferSize /\ sw.i + 1 <= Len(dest)
    BY <1>1, <2>2
  <2>4. sw' = [GoTo(IF next < BufferSize THEN "poll_rx" ELSE "full")
                  EXCEPT !.dest = dest, !.i = next]
    BY <1>3 DEF Placed, GoTo
  <2> HIDE DEF next, dest
  <2>5. /\ sw'.pc = IF next < BufferSize THEN "poll_rx" ELSE "full"
        /\ sw'.pace = sw.pace /\ sw'.gap = 1
        /\ sw'.dest = dest /\ sw'.i = next /\ sw'.text = sw.text
    BY <2>4, GoToFields DEF Drivers, Places
  <2>6. sw' \in Drivers
    BY <2>1, <2>2, <2>4, GoToFields DEF Drivers, Places
  <2>7. next <= BufferSize /\ next <= Len(dest)
    BY <1>1, <2>1, <2>3
  <2> QED
    BY <1>1, <2>1, <2>3, <2>5, <2>6, <2>7, PacesAreLong
       DEF DriverOK, Reading, Sends
<1> QED
  BY <1>2, <1>3

(* Going on to another place of the same kind. *)
LEMMA DriverGoesOn ==
    ASSUME DriverOK, NEW pc \in Places, sw' = GoTo(pc),
           pc \in Reading => sw.pc \in Reading,
           pc \in Sends => sw.pc \in Sends
    PROVE  DriverOK' /\ sw'.pc = pc /\ sw'.gap = 1 /\ sw'.pace = sw.pace
  BY GoToFields, PacesAreLong DEF DriverOK

(* Every step of the driver keeps its index in place and its knowledge of  *)
(* the transmitter true.                                                   *)
LEMMA WaitHolds ==
    ASSUME TInv, SInv, Wait
    PROVE  TInv' /\ SInv'
<1>1. GoodAccess(None) /\ ~IsWritten(None, "tdr")
  BY DEF GoodAccess, IsWritten, None
<1>2. sw.gap \in Nat /\ sw.gap >= 1 /\ sw.pace \in Nat /\ sw.gap < sw.pace
  BY PacesAreLong DEF TInv, DriverOK, Drivers, Wait
<1>3. /\ sw' \in Drivers /\ sw'.pc = sw.pc /\ sw'.gap = sw.gap + 1
      /\ sw'.pace = sw.pace /\ sw'.dest = sw.dest /\ sw'.i = sw.i
      /\ sw'.text = sw.text
  <2>1. sw \in Drivers /\ sw.gap + 1 \in Nat
    BY <1>2 DEF TInv, DriverOK
  <2>2. sw' = [sw EXCEPT !.gap = sw.gap + 1]
    BY DEF Wait
  <2> QED
    BY <2>1, <2>2 DEF Drivers
<1>4. DriverOK'
  BY <1>2, <1>3 DEF TInv, DriverOK
<1>5. SInv'
  <2>1. /\ ~tx_data_valid' /\ uart_regs'.txact = (tx.state # "IDLE")
        /\ tx.state = "IDLE" /\ ~tx_data_valid => tx'.state = "IDLE"
    BY <1>1, TransmitterCycle DEF Wait
  <2>2. sw.gap = 1 => sw'.gap = 2
    BY <1>3
  <2> QED
    BY <1>3, <2>1, <2>2 DEF SInv
<1> QED
  BY <1>1, <1>4, <1>5, BusKeepsTypes DEF TInv, Wait

(* An access that does not write tdr, while no byte is on its way.         *)
LEMMA IdleAccess ==
    ASSUME TInv, SInv, NEW access, GoodAccess(access), Bus(access),
           ~IsWritten(access, "tdr"), DriverOK', sw.pc # "poll_tx"
    PROVE  TInv' /\ SInv'
<1>1. tx.state = "IDLE" /\ ~tx_data_valid
  BY DEF SInv
<1>2. tx'.state = "IDLE" /\ ~tx_data_valid'
  BY <1>1, TransmitterCycle
<1> QED
  BY <1>2, BusKeepsTypes DEF TInv, SInv

(* The write of the divider.                                               *)
LEMMA SetDividerHolds ==
    ASSUME TInv, SInv, SetDivider
    PROVE  TInv' /\ SInv'
<1> DEFINE access == WriteReg("cdr", [cdr |-> Div])
<1>1. GoodAccess(access) /\ ~IsWritten(access, "tdr")
  <2>1. Div \in Clock!Divider
    BY DEF Clock!Divider
  <2> QED
    BY <2>1 DEF GoodAccess, IsWritten, WriteReg
<1>2. DriverOK'
  BY DriverGoesOn DEF TInv, SetDivider, At, Places, Reading, Sends
<1> QED
  BY <1>1, <1>2, IdleAccess DEF SetDivider, At

(* The write that enables the UART.                                        *)
LEMMA EnableHolds ==
    ASSUME TInv, SInv, Enable
    PROVE  TInv' /\ SInv'
<1> DEFINE access == WriteReg("cr", [en |-> TRUE])
<1>1. GoodAccess(access) /\ ~IsWritten(access, "tdr")
  BY DEF GoodAccess, IsWritten, WriteReg
<1>2. DriverOK'
  BY DriverGoesOn DEF TInv, Enable, At, Places, Reading, Sends
<1> QED
  BY <1>1, <1>2, IdleAccess DEF Enable, At

(* The poll of the receiver.                                               *)
LEMMA PollReceiverHolds ==
    ASSUME TInv, SInv, PollReceiver
    PROVE  TInv' /\ SInv'
<1> DEFINE pc == IF uart_regs.rxne THEN "get" ELSE "poll_rx"
<1>1. GoodAccess(ReadReg("sr")) /\ ~IsWritten(ReadReg("sr"), "tdr")
  BY DEF GoodAccess, IsWritten, ReadReg
<1>2. sw' = GoTo(pc) /\ pc \in Places /\ sw.pc \in Reading /\ pc \notin Sends
  BY DEF PollReceiver, At, Places, Reading, Sends
<1> HIDE DEF pc
<1>3. DriverOK'
  BY <1>2, DriverGoesOn DEF TInv
<1> QED
  BY <1>1, <1>3, IdleAccess DEF PollReceiver, At

(* The read of the byte that was received.                                 *)
LEMMA GetByteHolds ==
    ASSUME TInv, SInv, GetByte
    PROVE  TInv' /\ SInv'
<1>1. GoodAccess(ReadReg("rdr")) /\ ~IsWritten(ReadReg("rdr"), "tdr")
  BY DEF GoodAccess, IsWritten, ReadReg
<1>2. uart_regs.rdr \in Tx!Byte
  BY DEF TInv, UartTypeOK, Tx!Byte, Rx!Byte
<1>3. DriverOK'
  BY <1>2, ByteIsPlaced DEF TInv, GetByte, At, Reading
<1> QED
  BY <1>1, <1>3, IdleAccess DEF GetByte, At

(* The write of tdr: it finds the transmitter idle.                        *)
LEMMA SendByteHolds ==
    ASSUME TInv, SInv, SendByte
    PROVE  TInv' /\ SInv'
<1> DEFINE byte   == sw.text[sw.i + 1]
           access == WriteReg("tdr", [tdr |-> byte])
<1>1. /\ sw.i \in Nat /\ Len(sw.text) \in Nat /\ sw.i < Len(sw.text)
      /\ Len(sw.text) <= BufferSize
      /\ sw.text \in Seq(Tx!Byte) /\ sw.pc = "send"
  BY LenProperties DEF TInv, DriverOK, Drivers, SendByte, StringEnds, At
<1>2. byte \in Tx!Byte
  BY <1>1, ElementOfSeq
<1>3. GoodAccess(access)
  BY <1>2 DEF GoodAccess
<1>4. sw' = [GoTo("poll_tx") EXCEPT !.i = sw.i + 1] /\ Bus(access)
  BY GoToFields DEF TInv, SendByte, Places, Drivers
<1> HIDE DEF byte, access
<1>5. "poll_tx" \in Places
  BY DEF Places
<1>6. /\ sw' \in Drivers /\ sw'.pc = "poll_tx" /\ sw'.gap = 1
      /\ sw'.pace = sw.pace /\ sw'.dest = sw.dest /\ sw'.i = sw.i + 1
      /\ sw'.text = sw.text
  BY <1>1, <1>4, <1>5, GoToFields, SMTT(60) DEF TInv, Drivers
<1>7. DriverOK'
  BY <1>1, <1>6, PacesAreLong DEF TInv, DriverOK, Reading
<1>8. tx.state = "IDLE" /\ ~tx_data_valid
  BY <1>1 DEF SInv
<1>9. tx'.state = "IDLE"
  BY <1>4, <1>8, TransmitterCycle
<1>10. SInv'
  BY <1>6, <1>9 DEF SInv
<1> QED
  BY <1>3, <1>4, <1>7, <1>10, BusKeepsTypes DEF TInv

(* The poll of the transmitter: the status is late, but not too late.      *)
LEMMA PollTransmitterHolds ==
    ASSUME TInv, SInv, PollTransmitter
    PROVE  TInv' /\ SInv'
<1> DEFINE pc == IF uart_regs.txact THEN "poll_tx" ELSE "send"
<1>1. GoodAccess(ReadReg("sr")) /\ ~IsWritten(ReadReg("sr"), "tdr")
  BY DEF GoodAccess, IsWritten, ReadReg
<1>2. sw' = GoTo(pc) /\ pc \in Places /\ sw.pc \in Sends /\ pc \notin Reading
  BY DEF PollTransmitter, At, Places, Reading, Sends
<1>3. DriverOK' /\ sw'.pc = pc
  <2> HIDE DEF pc
  <2> QED
    BY <1>2, DriverGoesOn DEF TInv
<1>4. sw.gap # 1 /\ sw.gap # 2
  BY PacesAreLong DEF TInv, PollTransmitter, At
<1>5. ~tx_data_valid /\ (uart_regs.txact \/ tx.state = "IDLE")
  BY <1>4 DEF SInv
<1>6. /\ ~tx_data_valid' /\ uart_regs'.txact = (tx.state # "IDLE")
      /\ tx.state = "IDLE" => tx'.state = "IDLE"
  BY <1>1, <1>5, TransmitterCycle DEF PollTransmitter
<1>7. SInv'
  BY <1>3, <1>5, <1>6 DEF SInv
<1> QED
  BY <1>1, <1>3, <1>7, BusKeepsTypes DEF TInv, PollTransmitter

(* A step that changes nothing.                                            *)
LEMMA StutterHolds ==
    ASSUME TInv, SInv, UNCHANGED linevars
    PROVE  TInv' /\ SInv'
<1>1. UartTypeOK'
  BY DEF TInv, linevars, uartvars, UartTypeOK, Clock!TypeOK, Tx!TypeOK,
         Rx!TypeOK
<1>2. HostOK' /\ EarOK' /\ DriverOK'
  BY DEF TInv, linevars, HostOK, Host!Framed, EarOK, DriverOK
<1>3. SInv'
  BY DEF SInv, linevars, uartvars
<1> QED
  BY <1>1, <1>2, <1>3 DEF TInv

-----------------------------------------------------------------------------
(* The receiver is in step with the host.                                  *)
Setting == sw.pc \in {"divider", "enable"}

HostInv == Host!Ordered /\ host.bit_time \in BitTimes

(* While the constructor sets the UART up the host has not begun yet.      *)
Resting ==
    /\ ~uart_regs.en /\ ~uart_regs.rxne
    /\ rx.state = "IDLE" /\ rx.edges_counter = 0 /\ rx.bits_counter = 0
    /\ ~rx.rx_data_valid
    /\ ~clock.sck /\ ~clock.rising_edge /\ clock.counter = 0
    /\ host.slot = -1 /\ host.queue = host.line /\ got = <<>>

Begun ==
    /\ sw.pc = "divider" =>
          ~clk_divider_valid /\ host.left + sw.gap > 100
    /\ sw.pc = "enable" =>
          /\ host.left + sw.gap + sw.pace > 100
          /\ IF sw.gap = 1 THEN clk_divider_valid /\ uart_regs.cdr = Div
             ELSE ~clk_divider_valid /\ clock.counter_target = Div

SetupInv == Setting => Resting /\ Begun

RxInv == ~Setting => /\ RunsWith(Div)
                     /\ RxFollows(host, Div) /\ RxBits(host, Div)

NoErrors == ~rx.error /\ ~uart_regs.rxerr

(* The bytes: those that the driver has read are the first ones of the     *)
(* line, and the one that waits for it is the next.  It is read before     *)
(* another comes.                                                          *)
Waiting  == IF rx.rx_data_valid \/ uart_regs.rxne THEN 1 ELSE 0

TimeLeft == IF sw.pc = "get" THEN sw.pace - sw.gap + 1
                             ELSE 2 * sw.pace - sw.gap + 1

GotInv ==
    /\ got \in Seq(Tx!Byte) /\ Len(got) <= Len(host.line)
    /\ \A k \in 1 .. Len(got) : got[k] = host.line[k]

ReadInv ==
    sw.pc \in {"poll_rx", "get"} =>
        /\ Len(got) + Waiting = RxTook(host, Div)
        /\ rx.rx_data_valid =>
              /\ ~uart_regs.rxne /\ 2 * sw.pace < QuietFor(Div)
              /\ rx.rx_data = host.line[Len(got) + 1]
        /\ uart_regs.rxne =>
              /\ TimeLeft <= QuietFor(Div)
              /\ uart_regs.rdr = host.line[Len(got) + 1]
        /\ sw.pc = "get" => uart_regs.rxne

RInv == HostInv /\ SetupInv /\ RxInv /\ NoErrors /\ GotInv /\ ReadInv

(* The driver's constants.                                                 *)
LEMMA PaceAndTime ==
    ASSUME TInv, HostInv
    PROVE  /\ sw.pace \in Nat /\ sw.pace > 2 /\ 2 * sw.pace <= 100
           /\ 2 * sw.pace < MaxWait(Div)
           /\ sw.gap \in Nat /\ sw.gap >= 1 /\ sw.gap <= sw.pace
           /\ KeepsUp(host.bit_time, Div)
           /\ Div \in 0 .. MaxDivider
<1>1. sw.pace \in Paces /\ sw.gap \in Nat /\ sw.gap >= 1 /\ sw.gap <= sw.pace
  BY DEF TInv, DriverOK, Drivers
<1>2. sw.pace \in Nat /\ sw.pace > 2
  BY PacesAreLong DEF TInv
<1>3. 2 * sw.pace <= 100 /\ 2 * sw.pace < MaxWait(Div)
  BY <1>1, LineTiming
<1>4. KeepsUp(host.bit_time, Div)
  BY LineTiming DEF HostInv
<1> QED
  BY <1>1, <1>2, <1>3, <1>4

(* The host as the receiver's lemmas want it.                              *)
LEMMA HostIsKept ==
    ASSUME TInv, HostInv
    PROVE  LineKept(host) /\ LevelOf(host) = Host!Level
<1>1. /\ host.line \in Seq(Tx!Byte) /\ host.queue \in Seq(Tx!Byte)
      /\ host.slot \in -1 .. DataBits + 1 /\ host.left \in Nat
      /\ host.bit_time \in Nat /\ Tx!Byte = Rx!Byte
      /\ host.left > 0 => host.queue # <<>>
      /\ host.slot >= 0 => host.left > 0
  BY DEF TInv, HostOK, Host!Framed, Host!Hosts, Host!Slots, Host!Duration,
         Tx!Byte, Rx!Byte
<1>2. host.slot # -1 => host.slot >= 0
  BY <1>1
<1>3. OnTheWay(host.slot, host.left, host.bit_time)
  BY <1>1, <1>2 DEF HostInv, Host!Ordered, OnTheWay
<1>4. RestOf(host.queue, host.line)
  BY DEF HostInv, Host!Ordered, RestOf
<1> QED
  BY <1>1, <1>2, <1>3, <1>4 DEF LineKept, LevelOf, Host!Level

(* A cycle of the bus turns the host.                                      *)
LEMMA HostTurns ==
    ASSUME TInv, HostInv, NEW access, Bus(access)
    PROVE  LineTurns(host, host') /\ HostInv'
<1>1. Host!Turned
  BY Host!SpeakTurns DEF TInv, HostOK, Bus
<1>2. Host!Ordered'
  BY Host!SpeakKeepsOrder DEF TInv, HostOK, HostInv, Bus
<1>3. host'.bit_time = host.bit_time
  BY <1>1 DEF Host!Turned
<1> QED
  BY <1>1, <1>2, <1>3 DEF Host!Turned, LineTurns, Turns, ByteEnds, HostInv

(* A cycle in which the receiver runs.  Reads and the write of tdr leave   *)
(* its clock and the flag of its errors alone.                             *)
Runs(access) == \A reg \in {"cr", "cdr", "sr"} : ~IsWritten(access, reg)

(* A cycle without a write of the set-up registers goes on as the line of  *)
(* the host says (uart_receiver.sv): the byte it takes is the byte sent.   *)
LEMMA ReceiverGoesOn ==
    ASSUME TInv, RInv, ~Setting, NEW access, Runs(access), Bus(access)
    PROVE  /\ RunsWith(Div)' /\ RxFollows(host, Div)' /\ RxBits(host, Div)'
           /\ NoErrors' /\ HostInv' /\ host'.line = host.line
           /\ rx'.rx_data_valid => rx'.rx_data = host.line[RxTook(host, Div) + 1]
           /\ RxTook(host, Div)' = RxTook(host, Div)
                                       + (IF rx'.rx_data_valid THEN 1 ELSE 0)
           /\ RxTook(host, Div) \in Nat
           /\ QuietFor(Div) \in Nat /\ QuietFor(Div)' \in Nat
           /\ QuietFor(Div)' >= QuietFor(Div) - 1
           /\ rx'.rx_data_valid => /\ QuietFor(Div) = 0
                                   /\ 2 * sw.pace < QuietFor(Div)'
<1>1. /\ UartTypeOK /\ Div \in 0 .. MaxDivider /\ RunsWith(Div)
      /\ RxFollows(host, Div) /\ RxBits(host, Div)
      /\ KeepsUp(host.bit_time, Div)
  BY PaceAndTime DEF TInv, RInv, RxInv
<1>2. LineKept(host) /\ LevelOf(host) = Host!Level
  BY HostIsKept DEF RInv
<1>3. LineTurns(host, host') /\ HostInv'
  BY HostTurns DEF RInv
<1>4. UartCycle(access, LevelOf(host))
  BY <1>2 DEF Bus
<1>5. RunsWith(Div)' /\ Clock!Cycle(TRUE, FALSE, uart_regs.cdr)
  BY <1>1, <1>4, RunsOn DEF Runs
<1>6. Rx!Cycle(clock.rising_edge, LevelOf(host))
  BY <1>4 DEF UartCycle
<1>7. RxFollows(host, Div)'
  BY <1>1, <1>2, <1>3, <1>5, <1>6, ReceiverFollows
<1>8. RxBits(host, Div)'
  BY <1>1, <1>2, <1>3, <1>5, <1>6, ReceiverHoldsBits
<1>9. /\ rx'.rx_data_valid => /\ rx'.rx_data = host.line[RxTook(host, Div) + 1]
                              /\ ~rx'.error
      /\ ~rx'.rx_data_valid => (rx'.error => rx.error)
      /\ RxTook(host, Div)' = RxTook(host, Div)
                                  + (IF rx'.rx_data_valid THEN 1 ELSE 0)
      /\ RxTook(host, Div) \in Nat
  BY <1>1, <1>2, <1>3, <1>5, <1>6, ReceiverTakesBytes
<1>10. /\ QuietFor(Div) \in Nat /\ QuietFor(Div)' \in Nat
       /\ QuietFor(Div)' >= QuietFor(Div) - 1
       /\ rx'.rx_data_valid => QuietFor(Div) = 0 /\ QuietFor(Div)' = MaxWait(Div)
  BY <1>1, <1>2, <1>3, <1>5, <1>6, ReceiverIsQuiet
<1>11. NoErrors'
  <2>1. ~rx'.error
    BY <1>9 DEF RInv, NoErrors
  <2>2. uart_regs'.rxerr <=> rx.error \/ Written(access, "sr", "rxerr")
    BY <1>4 DEF UartCycle, RegsAfter
  <2>3. ~uart_regs'.rxerr
    BY <2>2 DEF RInv, NoErrors, Written, Runs
  <2> QED
    BY <2>1, <2>3 DEF NoErrors
<1>12. host'.line = host.line
  BY <1>3 DEF LineTurns
<1>13. rx'.rx_data_valid => 2 * sw.pace < QuietFor(Div)'
  BY <1>10, PaceAndTime DEF RInv
<1> QED
  BY <1>3, <1>5, <1>7, <1>8, <1>9, <1>10, <1>11, <1>12, <1>13

(* What it does to the register of the byte and its flag. *)
LEMMA FlagOfTheByte ==
    ASSUME TInv, NEW access, Runs(access), Bus(access), ~IsWritten(access, "rdr")
    PROVE  /\ uart_regs'.rxne <=>
                 rx.rx_data_valid \/ (uart_regs.rxne /\ access.reg # "rdr")
           /\ uart_regs'.rdr = IF rx.rx_data_valid THEN rx.rx_data
                                                   ELSE uart_regs.rdr
<1>1. UartCycle(access, Host!Level)
  BY DEF Bus
<1>2. uart_regs' = RegsAfter(access)
  BY <1>1 DEF UartCycle
<1>3. uart_regs'.rxne = Rxne(access)
      /\ uart_regs'.rdr = IF rx.rx_data_valid THEN rx.rx_data
                          ELSE Written(access, "rdr", "rdr")
  BY <1>2 DEF RegsAfter
<1>4. ~IsWritten(access, "sr")
  BY DEF Runs
<1>5. Rxne(access) <=> rx.rx_data_valid \/ (uart_regs.rxne /\ access.reg # "rdr")
  BY <1>4 DEF Rxne, Written
<1> QED
  BY <1>3, <1>5 DEF Written

(* While the driver reads: the byte that waits is still the next one, and  *)
(* no other has come.                                                      *)
LEMMA ByteWaits ==
    ASSUME TInv, RInv, sw.pc \in {"poll_rx", "get"}, NEW access, Runs(access),
           Bus(access), ~IsWritten(access, "rdr"), access.reg # "rdr",
           got' = got, sw'.pace = sw.pace, TimeLeft' \in Nat,
           sw'.pc \in {"poll_rx", "get"},
           sw'.pc = "get" => uart_regs.rxne,
           uart_regs.rxne => TimeLeft' <= TimeLeft - 1,
           TimeLeft' <= 2 * sw.pace
    PROVE  ReadInv'
<1>1. /\ Len(got) + Waiting = RxTook(host, Div)
      /\ rx.rx_data_valid =>
            /\ ~uart_regs.rxne /\ 2 * sw.pace < QuietFor(Div)
            /\ rx.rx_data = host.line[Len(got) + 1]
      /\ uart_regs.rxne =>
            /\ TimeLeft <= QuietFor(Div)
            /\ uart_regs.rdr = host.line[Len(got) + 1]
      /\ sw.pc = "get" => uart_regs.rxne
      /\ Len(got) \in Nat
  BY LenProperties DEF RInv, ReadInv, GotInv
<1>2. ~Setting
  BY DEF Setting
<1>3. /\ host'.line = host.line
      /\ rx'.rx_data_valid => rx'.rx_data = host.line[RxTook(host, Div) + 1]
      /\ RxTook(host, Div)' = RxTook(host, Div)
                                  + (IF rx'.rx_data_valid THEN 1 ELSE 0)
      /\ RxTook(host, Div) \in Nat
      /\ QuietFor(Div) \in Nat /\ QuietFor(Div)' \in Nat
      /\ QuietFor(Div)' >= QuietFor(Div) - 1
      /\ rx'.rx_data_valid => /\ QuietFor(Div) = 0
                              /\ 2 * sw.pace < QuietFor(Div)'
  BY <1>2, ReceiverGoesOn
<1>4. /\ uart_regs'.rxne <=> rx.rx_data_valid \/ uart_regs.rxne
      /\ uart_regs'.rdr = IF rx.rx_data_valid THEN rx.rx_data ELSE uart_regs.rdr
  BY FlagOfTheByte
<1>5. sw.pace \in Nat /\ sw.pace > 2 /\ sw.gap \in Nat /\ sw.gap <= sw.pace
  BY PaceAndTime DEF RInv
<1>6. TimeLeft \in Nat /\ TimeLeft > 0
  BY <1>5 DEF TimeLeft
<1> DEFINE quiet == QuietFor(Div)  next == QuietFor(Div)'  left == TimeLeft
           after == TimeLeft'  n == Len(got)
<1>7. /\ quiet \in Nat /\ next \in Nat /\ left \in Nat /\ after \in Nat
      /\ next >= quiet - 1 /\ left > 0
      /\ uart_regs.rxne => left <= quiet /\ after <= left - 1
      /\ rx.rx_data_valid => 2 * sw.pace < quiet
      /\ rx'.rx_data_valid => quiet = 0 /\ 2 * sw.pace < next
      /\ after <= 2 * sw.pace
  BY <1>1, <1>3, <1>6
<1>8. TimeLeft' = after
  OBVIOUS
<1> HIDE DEF quiet, next, left, after, n
<1>9. ~(rx'.rx_data_valid /\ (rx.rx_data_valid \/ uart_regs.rxne))
  BY <1>5, <1>7
<1>10. (rx.rx_data_valid \/ uart_regs.rxne) => after <= next
  BY <1>5, <1>7
<1>11. Waiting' = IF rx'.rx_data_valid THEN 1 ELSE Waiting
  BY <1>4, <1>9 DEF Waiting
<1>12. rx'.rx_data_valid => Waiting = 0
  BY <1>9 DEF Waiting
<1>13. Len(got)' + Waiting' = RxTook(host, Div)'
  <2> DEFINE took == RxTook(host, Div)  took2 == RxTook(host, Div)'
  <2>1. took \in Nat /\ took2 = took + (IF rx'.rx_data_valid THEN 1 ELSE 0)
        /\ n + Waiting = took /\ n \in Nat /\ Waiting \in Nat
    BY <1>1, <1>3 DEF n, Waiting
  <2> HIDE DEF took, took2
  <2>2. n + Waiting' = took2
    BY <1>11, <1>12, <2>1
  <2> QED
    BY <2>2 DEF n, took2
<1>14. rx'.rx_data_valid => rx'.rx_data = host'.line[Len(got') + 1]
  <2>1. rx'.rx_data_valid => RxTook(host, Div) = Len(got)
    BY <1>1, <1>3, <1>12
  <2> QED
    BY <1>3, <2>1
<1>15. uart_regs'.rxne => uart_regs'.rdr = host'.line[Len(got') + 1]
  BY <1>1, <1>3, <1>4
<1>16. uart_regs'.rxne => TimeLeft' <= QuietFor(Div)'
  BY <1>4, <1>10 DEF after, next
<1>17. rx'.rx_data_valid => ~uart_regs'.rxne /\ 2 * sw'.pace < QuietFor(Div)'
  BY <1>3, <1>4, <1>9
<1> QED
  BY <1>4, <1>13, <1>14, <1>15, <1>16, <1>17 DEF ReadInv

(* A cycle before the UART runs: nothing moves but the host's clock.       *)
LEMMA NothingMoves ==
    ASSUME TInv, RInv, Setting, NEW access, ~IsWritten(access, "sr"), Bus(access)
    PROVE  /\ rx'.state = "IDLE" /\ rx'.edges_counter = 0 /\ rx'.bits_counter = 0
           /\ ~rx'.rx_data_valid /\ ~uart_regs'.rxne
           /\ ~clock'.sck /\ ~clock'.rising_edge /\ clock'.counter = 0
           /\ clock'.counter_target = IF clk_divider_valid THEN uart_regs.cdr
                                      ELSE clock.counter_target
           /\ (uart_regs'.en <=> IsWritten(access, "cr") /\ access.fields.en)
           /\ (clk_divider_valid' <=> IsWritten(access, "cdr"))
           /\ NoErrors' /\ HostInv'
           /\ host'.line = host.line /\ host'.queue = host'.line
           /\ host'.bit_time = host.bit_time
           /\ host'.slot = -1 \/ (host'.slot = 0 /\ host'.left = host'.bit_time)
           /\ host.left > 1 => host'.slot = -1 /\ host'.left = host.left - 1
<1>1. Resting /\ HostInv
  BY DEF RInv, SetupInv
<1>2. UartCycle(access, Host!Level)
  BY DEF Bus
<1>3. Host!Level = 1
  BY <1>1, UartAssumption DEF Resting, Host!Level
<1>4. rx' = [rx EXCEPT !.rx_data_valid = FALSE]
  BY <1>1, <1>2, <1>3 DEF Resting, UartCycle, Rx!Cycle, Rx!Rest, Rx!Detect,
       Rx!WithinBit, Rx!FirstBit, Rx!NextBit, Rx!StopBit, Rx!Finish
<1>5. /\ rx'.state = "IDLE" /\ rx'.edges_counter = 0 /\ rx'.bits_counter = 0
      /\ ~rx'.rx_data_valid /\ ~rx'.error
  BY <1>1, <1>4 DEF Resting, RInv, NoErrors, TInv, UartTypeOK, Rx!TypeOK
<1>6. /\ ~clock'.sck /\ ~clock'.rising_edge /\ clock'.counter = 0
      /\ clock'.counter_target = IF clk_divider_valid THEN uart_regs.cdr
                                 ELSE clock.counter_target
  <2>1. Clock!Cycle(uart_regs.en, clk_divider_valid, uart_regs.cdr) /\ ~uart_regs.en
    BY <1>1, <1>2 DEF UartCycle, Resting
  <2>2. clock \in [sck : BOOLEAN, rising_edge : BOOLEAN, falling_edge : BOOLEAN,
                   counter : Clock!Divider, counter_target : Clock!Divider]
    BY DEF TInv, UartTypeOK, Clock!TypeOK
  <2>3. CASE Clock!SetDivider(clk_divider_valid, uart_regs.cdr)
    BY <2>3 DEF Clock!SetDivider
  <2>4. CASE Clock!Stop(uart_regs.en, clk_divider_valid)
    BY <2>2, <2>4 DEF Clock!Stop
  <2>5. \/ Clock!SetDivider(clk_divider_valid, uart_regs.cdr)
        \/ Clock!Stop(uart_regs.en, clk_divider_valid)
    BY <2>1 DEF Clock!Cycle, Clock!Turn, Clock!Count
  <2> QED
    BY <2>3, <2>4, <2>5
<1>7. uart_regs' = RegsAfter(access)
      /\ (clk_divider_valid' <=> IsWritten(access, "cdr"))
  BY <1>2 DEF UartCycle
<1>8. ~uart_regs'.rxne
  <2>1. uart_regs'.rxne = Rxne(access)
    BY <1>7 DEF RegsAfter
  <2> QED
    BY <1>1, <2>1 DEF Rxne, Written, Resting
<1>9. uart_regs'.en <=> IsWritten(access, "cr") /\ access.fields.en
  <2>1. uart_regs'.en = Written(access, "cr", "en")
    BY <1>7 DEF RegsAfter
  <2> QED
    BY <1>1, <2>1 DEF Written, Resting
<1>10. NoErrors'
  <2>1. uart_regs'.rxerr <=> rx.error \/ Written(access, "sr", "rxerr")
    BY <1>7 DEF RegsAfter
  <2> QED
    BY <1>5, <2>1 DEF RInv, NoErrors, Written
<1>11. LineTurns(host, host') /\ HostInv'
  BY <1>1, HostTurns
<1>12. /\ host'.line = host.line /\ host'.queue = host'.line
       /\ host'.bit_time = host.bit_time
       /\ host'.slot = -1 \/ (host'.slot = 0 /\ host'.left = host'.bit_time)
       /\ host.left > 1 => host'.slot = -1 /\ host'.left = host.left - 1
  BY <1>1, <1>11, UartAssumption DEF LineTurns, Turns, ByteEnds, Resting
<1> QED
  BY <1>5, <1>6, <1>7, <1>8, <1>9, <1>10, <1>11, <1>12

(* Waiting for the divider's write, or for the one that enables.           *)
LEMMA SetupGoesOn ==
    ASSUME TInv, RInv, Setting, Wait
    PROVE  RInv'
<1>1. /\ Bus(None) /\ sw.gap < sw.pace /\ got' = got
      /\ sw'.gap = sw.gap + 1 /\ sw'.pc = sw.pc /\ sw'.pace = sw.pace
  BY DEF Wait, TInv, DriverOK, Drivers
<1>2. /\ sw.pace \in Nat /\ 2 * sw.pace <= 100 /\ sw.gap \in Nat /\ sw.gap >= 1
  BY PaceAndTime DEF RInv
<1>3. ~IsWritten(None, "sr") /\ ~IsWritten(None, "cr") /\ ~IsWritten(None, "cdr")
  BY DEF None, IsWritten
<1>4. Resting /\ Begun /\ host.left \in Nat
  BY DEF RInv, SetupInv, TInv, HostOK, Host!Framed, Host!Hosts
<1>5. host.left > 1
  <2>1. CASE sw.pc = "divider"
    BY <1>1, <1>2, <1>4, <2>1 DEF Begun
  <2>2. CASE sw.pc = "enable"
    BY <1>1, <1>2, <1>4, <2>2 DEF Begun
  <2> QED
    BY <2>1, <2>2 DEF Setting
<1>6. /\ rx'.state = "IDLE" /\ rx'.edges_counter = 0 /\ rx'.bits_counter = 0
      /\ ~rx'.rx_data_valid /\ ~uart_regs'.rxne
      /\ ~clock'.sck /\ ~clock'.rising_edge /\ clock'.counter = 0
      /\ clock'.counter_target = IF clk_divider_valid THEN uart_regs.cdr
                                 ELSE clock.counter_target
      /\ ~uart_regs'.en /\ ~clk_divider_valid'
      /\ NoErrors' /\ HostInv'
      /\ host'.line = host.line /\ host'.queue = host'.line
      /\ host'.slot = -1 /\ host'.left = host.left - 1
  BY <1>1, <1>3, <1>5, NothingMoves
<1>7. Resting'
  BY <1>1, <1>4, <1>6 DEF Resting
<1>8. Begun'
  <2>1. sw.pc = "divider" => host'.left + sw'.gap > 100
    BY <1>1, <1>2, <1>4, <1>6 DEF Begun
  <2>2. sw.pc = "enable" => host'.left + sw'.gap + sw'.pace > 100
    BY <1>1, <1>2, <1>4, <1>6 DEF Begun
  <2>3. sw.pc = "enable" => sw'.gap # 1 /\ clock'.counter_target = Div
    BY <1>1, <1>2, <1>4, <1>6 DEF Begun
  <2> QED
    BY <1>1, <1>6, <2>1, <2>2, <2>3 DEF Begun
<1>9. Setting' /\ sw'.pc \notin {"poll_rx", "get"}
  BY <1>1 DEF Setting
<1>10. GotInv'
  BY <1>1, <1>6 DEF RInv, GotInv
<1> QED
  BY <1>6, <1>7, <1>8, <1>9, <1>10 DEF RInv, SetupInv, RxInv, ReadInv

(* The write of the divider. *)
LEMMA DividerReads ==
    ASSUME TInv, RInv, SetDivider
    PROVE  RInv'
<1> DEFINE access == WriteReg("cdr", [cdr |-> Div])
<1>1. /\ Bus(access) /\ sw.pc = "divider" /\ sw.gap = sw.pace /\ got' = got
      /\ sw'.pc = "enable" /\ sw'.gap = 1 /\ sw'.pace = sw.pace
  <2>1. sw' = GoTo("enable") /\ "enable" \in Places
    BY DEF SetDivider, Places
  <2>2. sw'.pc = "enable" /\ sw'.gap = 1 /\ sw'.pace = sw.pace
    BY <2>1, GoToFields DEF TInv
  <2> QED
    BY <2>2 DEF SetDivider, At
<1>2. /\ sw.pace \in Nat /\ 2 * sw.pace <= 100
  BY PaceAndTime DEF RInv
<1>3. ~IsWritten(access, "sr") /\ ~IsWritten(access, "cr") /\ IsWritten(access, "cdr")
  BY DEF WriteReg, IsWritten
<1>4. Resting /\ Begun /\ host.left \in Nat /\ Setting
  BY <1>1 DEF RInv, SetupInv, Setting, TInv, HostOK, Host!Framed, Host!Hosts
<1>5. host.left > 1 /\ host.left + sw.gap > 100
  BY <1>1, <1>2, <1>4 DEF Begun
<1>6. uart_regs'.cdr = Div
  BY <1>1 DEF Bus, UartCycle, RegsAfter, Written, IsWritten, WriteReg
<1> HIDE DEF access
<1>7. /\ rx'.state = "IDLE" /\ rx'.edges_counter = 0 /\ rx'.bits_counter = 0
      /\ ~rx'.rx_data_valid /\ ~uart_regs'.rxne
      /\ ~clock'.sck /\ ~clock'.rising_edge /\ clock'.counter = 0
      /\ ~uart_regs'.en /\ clk_divider_valid'
      /\ NoErrors' /\ HostInv'
      /\ host'.line = host.line /\ host'.queue = host'.line
      /\ host'.slot = -1 /\ host'.left = host.left - 1
  BY <1>1, <1>3, <1>4, <1>5, NothingMoves
<1>8. Resting'
  BY <1>1, <1>4, <1>7 DEF Resting
<1>9. Begun'
  <2>1. host'.left + sw'.gap + sw'.pace > 100
    BY <1>1, <1>2, <1>4, <1>5, <1>7
  <2> QED
    BY <1>1, <1>6, <1>7, <2>1 DEF Begun
<1>10. Setting' /\ sw'.pc \notin {"poll_rx", "get"}
  BY <1>1 DEF Setting
<1>11. GotInv'
  BY <1>1, <1>7 DEF RInv, GotInv
<1> QED
  BY <1>7, <1>8, <1>9, <1>10, <1>11 DEF RInv, SetupInv, RxInv, ReadInv

(* The write that starts the clock: the host has not begun, or just now.   *)
LEMMA EnableReads ==
    ASSUME TInv, RInv, Enable
    PROVE  RInv'
<1> DEFINE access == WriteReg("cr", [en |-> TRUE])
<1>1. /\ Bus(access) /\ sw.pc = "enable" /\ sw.gap = sw.pace /\ got' = got
      /\ sw'.pc = "poll_rx"
  <2>1. sw' = GoTo("poll_rx") /\ "poll_rx" \in Places
    BY DEF Enable, Places
  <2>2. sw'.pc = "poll_rx"
    BY <2>1, GoToFields DEF TInv
  <2> QED
    BY <2>2 DEF Enable, At
<1>2. sw.pace \in Nat /\ sw.pace > 2 /\ Div \in Nat
  BY PaceAndTime DEF RInv
<1>3. /\ ~IsWritten(access, "sr") /\ IsWritten(access, "cr")
      /\ ~IsWritten(access, "cdr") /\ access.fields.en
  BY DEF WriteReg, IsWritten
<1>4. Resting /\ Begun /\ Setting
  BY <1>1 DEF RInv, SetupInv, Setting
<1> HIDE DEF access
<1>5. /\ rx'.state = "IDLE" /\ rx'.edges_counter = 0 /\ rx'.bits_counter = 0
      /\ ~rx'.rx_data_valid /\ ~uart_regs'.rxne
      /\ ~clock'.sck /\ ~clock'.rising_edge /\ clock'.counter = 0
      /\ clock'.counter_target = IF clk_divider_valid THEN uart_regs.cdr
                                 ELSE clock.counter_target
      /\ uart_regs'.en /\ ~clk_divider_valid'
      /\ NoErrors' /\ HostInv'
      /\ host'.line = host.line /\ host'.queue = host'.line
      /\ host'.slot = -1 \/ (host'.slot = 0 /\ host'.left = host'.bit_time)
  BY <1>1, <1>3, <1>4, NothingMoves
<1>6. clock'.counter_target = Div
  BY <1>1, <1>2, <1>4, <1>5 DEF Begun
<1>7. RunsWith(Div)'
  BY <1>2, <1>5, <1>6 DEF RunsWith
<1>8. RxFollows(host, Div)'
  BY <1>5 DEF RxFollows, Waits
<1>9. RxBits(host, Div)'
  BY <1>5 DEF RxBits
<1>10. ~Setting'
  BY <1>1 DEF Setting
<1>11. GotInv'
  BY <1>1, <1>5 DEF RInv, GotInv
<1>12. RxTook(host, Div)' = 0
  <2>1. host'.slot # DataBits + 1
    BY <1>5, UartAssumption
  <2>2. host'.line \in Seq(Tx!Byte)
    BY <1>5 DEF TInv, HostOK, Host!Framed, Host!Hosts
  <2>3. Len(host'.line) \in Nat
    BY <2>2
  <2>4. RxTook(host, Div)' = Len(host'.line) - Len(host'.queue) + 0
    BY <2>1 DEF RxTook
  <2> QED
    BY <1>5, <2>3, <2>4
<1>13. ReadInv'
  <2>1. Len(got') = 0
    BY <1>1, <1>4 DEF Resting
  <2>2. Waiting' = 0
    BY <1>5 DEF Waiting
  <2> QED
    BY <1>1, <1>5, <1>12, <2>1, <2>2 DEF ReadInv
<1> QED
  BY <1>5, <1>7, <1>8, <1>9, <1>10, <1>11, <1>13 DEF RInv, SetupInv, RxInv

(* While the UART runs: what a cycle keeps. *)
LEMMA LineGoesOn ==
    ASSUME TInv, RInv, ~Setting, NEW access, Runs(access), Bus(access),
           sw'.pc \notin {"divider", "enable"}, got' = got, ReadInv'
    PROVE  RInv'
<1>1. /\ RunsWith(Div)' /\ RxFollows(host, Div)' /\ RxBits(host, Div)'
      /\ NoErrors' /\ HostInv' /\ host'.line = host.line
  BY ReceiverGoesOn
<1>2. ~Setting'
  BY DEF Setting
<1>3. GotInv'
  BY <1>1 DEF RInv, GotInv
<1> QED
  BY <1>1, <1>2, <1>3 DEF RInv, SetupInv, RxInv

(* Waiting while the UART runs.                                            *)
LEMMA WaitReads ==
    ASSUME TInv, RInv, Wait
    PROVE  RInv'
<1>1. CASE Setting
  BY <1>1, SetupGoesOn
<1>2. CASE ~Setting
  <2>1. /\ Bus(None) /\ sw.gap < sw.pace /\ got' = got
        /\ sw'.gap = sw.gap + 1 /\ sw'.pc = sw.pc /\ sw'.pace = sw.pace
    BY DEF Wait, TInv, DriverOK, Drivers
  <2>2. Runs(None) /\ ~IsWritten(None, "rdr") /\ None.reg # "rdr"
    BY DEF None, IsWritten, Runs
  <2>3. sw'.pc \notin {"divider", "enable"}
    BY <1>2, <2>1 DEF Setting
  <2>4. ReadInv'
    <3>1. CASE sw.pc \in {"poll_rx", "get"}
      <4>1. sw.pace \in Nat /\ sw.gap \in Nat /\ sw.gap >= 1
        BY PaceAndTime DEF RInv
      <4>2. TimeLeft' = TimeLeft - 1 /\ TimeLeft' \in Nat
            /\ TimeLeft' <= 2 * sw.pace /\ TimeLeft' <= TimeLeft - 1
        BY <2>1, <4>1, SMTT(60) DEF TimeLeft
      <4>3. sw'.pc = "get" => uart_regs.rxne
        BY <2>1 DEF RInv, ReadInv
      <4> QED
        BY <2>1, <2>2, <3>1, <4>2, <4>3, ByteWaits
    <3>2. CASE sw.pc \notin {"poll_rx", "get"}
      BY <2>1, <3>2 DEF ReadInv
    <3> QED
      BY <3>1, <3>2
  <2> QED
    BY <1>2, <2>1, <2>2, <2>3, <2>4, LineGoesOn
<1> QED
  BY <1>1, <1>2

(* A poll finds the byte, or looks again within the next pace. *)
LEMMA PollReads ==
    ASSUME TInv, RInv, PollReceiver
    PROVE  RInv'
<1> DEFINE pc == IF uart_regs.rxne THEN "get" ELSE "poll_rx"
           access == ReadReg("sr")
<1>1. /\ Bus(access) /\ sw.pc = "poll_rx" /\ sw.gap = sw.pace /\ got' = got
      /\ sw'.pc = pc /\ sw'.gap = 1 /\ sw'.pace = sw.pace
  <2>1. sw' = GoTo(pc) /\ pc \in Places
    BY DEF PollReceiver, Places
  <2>2. sw'.pc = pc /\ sw'.gap = 1 /\ sw'.pace = sw.pace
    BY <2>1, GoToFields DEF TInv
  <2> QED
    BY <2>2 DEF PollReceiver, At
<1>2. Runs(access) /\ ~IsWritten(access, "rdr") /\ access.reg # "rdr"
  BY DEF ReadReg, IsWritten, Runs
<1>3. sw.pace \in Nat /\ sw.pace > 2
  BY PaceAndTime DEF RInv
<1>4. /\ TimeLeft' \in Nat /\ TimeLeft' <= 2 * sw.pace
      /\ uart_regs.rxne => TimeLeft' <= TimeLeft - 1
  BY <1>1, <1>3 DEF TimeLeft
<1> HIDE DEF access
<1>5. ReadInv'
  BY <1>1, <1>2, <1>4, ByteWaits
<1> QED
  BY <1>1, <1>2, <1>5, LineGoesOn DEF Setting

(* The bytes that were taken are bytes of the line. *)
LEMMA TookFromTheLine ==
    ASSUME TInv, HostInv
    PROVE  RxTook(host, Div) <= Len(host.line)
<1>1. /\ host.line \in Seq(Tx!Byte) /\ host.queue \in Seq(Tx!Byte)
      /\ host.slot >= 0 => host.queue # <<>>
      /\ Len(host.queue) <= Len(host.line)
  BY DEF TInv, HostOK, Host!Framed, Host!Hosts, HostInv, Host!Ordered
<1>2. /\ Len(host.line) \in Nat /\ Len(host.queue) \in Nat
      /\ host.slot = DataBits + 1 => Len(host.queue) > 0
  BY <1>1
<1> DEFINE m == Len(host.line)  n == Len(host.queue)
<1>3. RxTook(host, Div) \in {m - n, m - n + 1}
      /\ (RxTook(host, Div) # m - n => host.slot = DataBits + 1)
  <2>1. m - n \in Int
    BY <1>2
  <2> HIDE DEF m, n
  <2>2. m - n + 0 = m - n
    BY <2>1
  <2> QED
    BY <2>2 DEF RxTook, m, n
<1> HIDE DEF m, n
<1>4. m \in Nat /\ n \in Nat /\ (host.slot = DataBits + 1 => n > 0)
  BY <1>2 DEF m, n
<1>5. m - n <= m /\ (n > 0 => m - n + 1 <= m)
  BY <1>4
<1> QED
  BY <1>3, <1>4, <1>5 DEF m

(* The read of the byte: it is the next one of the line.                   *)
LEMMA GetByteReads ==
    ASSUME TInv, RInv, GetByte
    PROVE  RInv'
<1> DEFINE access == ReadReg("rdr")
<1>1. /\ Bus(access) /\ sw.pc = "get" /\ sw.gap = sw.pace
      /\ got' = Append(got, uart_regs.rdr)
      /\ sw'.pc \in {"poll_rx", "full", "send"}
  <2>1. uart_regs.rdr \in Tx!Byte
    BY DEF TInv, UartTypeOK, Tx!Byte, Rx!Byte
  <2>2. sw'.pc \in {"poll_rx", "full", "send"}
    BY <2>1, ByteIsPlaced DEF TInv, GetByte, At, Reading
  <2> QED
    BY <2>2 DEF GetByte, At
<1>2. /\ Runs(access) /\ ~IsWritten(access, "sr") /\ ~IsWritten(access, "rdr")
      /\ access.reg = "rdr"
  BY DEF ReadReg, IsWritten, Runs
<1>3. ~Setting
  BY <1>1 DEF Setting
<1>4. /\ Len(got) + Waiting = RxTook(host, Div)
      /\ ~rx.rx_data_valid /\ uart_regs.rxne
      /\ TimeLeft <= QuietFor(Div)
      /\ uart_regs.rdr = host.line[Len(got) + 1]
      /\ Len(got) \in Nat /\ got \in Seq(Tx!Byte)
  BY <1>1, LenProperties DEF RInv, ReadInv, GotInv
<1> HIDE DEF access
<1>5. /\ RunsWith(Div)' /\ RxFollows(host, Div)' /\ RxBits(host, Div)'
      /\ NoErrors' /\ HostInv' /\ host'.line = host.line
      /\ RxTook(host, Div)' = RxTook(host, Div)
                                  + (IF rx'.rx_data_valid THEN 1 ELSE 0)
      /\ RxTook(host, Div) \in Nat
      /\ rx'.rx_data_valid => QuietFor(Div) = 0
  BY <1>1, <1>2, <1>3, ReceiverGoesOn
<1>6. ~rx'.rx_data_valid
  <2>1. TimeLeft = 1
    BY <1>1, PaceAndTime DEF TimeLeft, RInv
  <2> QED
    BY <1>4, <1>5, <2>1
<1>7. ~uart_regs'.rxne
  <2>1. uart_regs'.rxne = Rxne(access)
    BY <1>1 DEF Bus, UartCycle, RegsAfter
  <2> QED
    BY <1>2, <1>4, <2>1 DEF Rxne
<1>8. RxTook(host, Div)' = Len(got) + 1 /\ RxTook(host, Div) = Len(got) + 1
  <2>1. Waiting = 1
    BY <1>4 DEF Waiting
  <2> DEFINE took == RxTook(host, Div)  next == RxTook(host, Div)'
  <2>2. took \in Nat /\ next = took + 0 /\ took = Len(got) + 1
    BY <1>4, <1>5, <1>6, <2>1
  <2> HIDE DEF took, next
  <2>3. next = took
    BY <2>2
  <2> QED
    BY <2>2, <2>3 DEF took, next
<1>9. Len(got) + 1 <= Len(host.line)
  BY <1>8, TookFromTheLine DEF RInv
<1> DEFINE byte == uart_regs.rdr
<1>10. byte \in Tx!Byte
  BY DEF TInv, UartTypeOK, Tx!Byte, Rx!Byte
<1>11. /\ got' \in Seq(Tx!Byte) /\ Len(got') = Len(got) + 1
       /\ \A k \in 1 .. Len(got) : got'[k] = got[k]
       /\ got'[Len(got) + 1] = byte
  <2> HIDE DEF byte
  <2>1. got' = Append(got, byte)
    BY <1>1 DEF byte
  <2> QED
    BY <1>4, <1>10, <2>1
<1>12. GotInv'
  <2>1. ASSUME NEW k \in 1 .. Len(got')
        PROVE  got'[k] = host'.line[k]
    <3>1. k \in 1 .. Len(got) \/ k = Len(got) + 1
      BY <1>4, <1>11
    <3> QED
      BY <1>4, <1>5, <1>11, <3>1 DEF RInv, GotInv
  <2> QED
    BY <1>5, <1>9, <1>11, <2>1 DEF GotInv
<1>13. ReadInv'
  <2>1. Waiting' = 0
    BY <1>6, <1>7 DEF Waiting
  <2>2. Len(got') + Waiting' = RxTook(host, Div)'
    BY <1>4, <1>8, <1>11, <2>1
  <2> QED
    BY <1>1, <1>6, <1>7, <2>2 DEF ReadInv
<1>14. ~Setting'
  BY <1>1 DEF Setting
<1> QED
  BY <1>5, <1>12, <1>13, <1>14 DEF RInv, SetupInv, RxInv

(* While the line is printed back nothing is read.                         *)
LEMMA PrintingReads ==
    ASSUME TInv, RInv, SendByte \/ PollTransmitter
    PROVE  RInv'
<1>1. CASE SendByte
  <2> DEFINE access == WriteReg("tdr", [tdr |-> sw.text[sw.i + 1]])
  <2>1. /\ Bus(access) /\ sw.pc = "send" /\ got' = got
        /\ sw' = [GoTo("poll_tx") EXCEPT !.i = @ + 1]
    BY <1>1 DEF SendByte, At
  <2>2. Runs(access)
    BY DEF WriteReg, IsWritten, Runs
  <2> HIDE DEF access
  <2>3. sw'.pc = "poll_tx"
    <3>1. GoTo("poll_tx") \in Drivers /\ GoTo("poll_tx").pc = "poll_tx"
      BY GoToFields DEF TInv, Places
    <3> QED
      BY <2>1, <3>1 DEF Drivers
  <2>4. ~Setting /\ ReadInv'
    BY <2>1, <2>3 DEF Setting, ReadInv
  <2> QED
    BY <2>1, <2>2, <2>3, <2>4, LineGoesOn
<1>2. CASE PollTransmitter
  <2> DEFINE access == ReadReg("sr")
             pc == IF uart_regs.txact THEN "poll_tx" ELSE "send"
  <2>1. /\ Bus(access) /\ sw.pc = "poll_tx" /\ got' = got /\ sw' = GoTo(pc)
    BY <1>2 DEF PollTransmitter, At
  <2>2. Runs(access)
    BY DEF ReadReg, IsWritten, Runs
  <2>3. pc \in Places /\ pc \in Sends
    BY DEF Places, Sends
  <2> HIDE DEF access, pc
  <2>4. sw'.pc = pc
    BY <2>1, <2>3, GoToFields DEF TInv
  <2>5. ~Setting /\ ReadInv' /\ sw'.pc \notin {"divider", "enable"}
    BY <2>1, <2>3, <2>4 DEF Setting, ReadInv, Sends
  <2> QED
    BY <2>1, <2>2, <2>5, LineGoesOn
<1> QED
  BY <1>1, <1>2

(* A step that changes nothing. *)
LEMMA StutterReads ==
    ASSUME RInv, UNCHANGED linevars
    PROVE  RInv'
<1> USE DEF linevars, uartvars
<1>1. HostInv' /\ SetupInv' /\ NoErrors' /\ GotInv'
  BY DEF RInv, HostInv, Host!Ordered, SetupInv, Setting, Resting, Begun,
         NoErrors, GotInv
<1>2. /\ RxLeft(Div)' = RxLeft(Div) /\ EdgeIn(Div)' = EdgeIn(Div)
      /\ RxSlot' = RxSlot
  BY DEF RxLeft, EdgeIn, LeftOf, RxSlot
<1>3. Past(Div)' = Past(Div) /\ BitsTaken(Div)' = BitsTaken(Div)
  BY <1>2 DEF Past, BitsTaken
<1>4. RxTook(host, Div)' = RxTook(host, Div) /\ QuietFor(Div)' = QuietFor(Div)
  BY <1>2, <1>3 DEF RxTook, QuietFor
<1>5. RxInv'
  <2>1. RunsWith(Div) => RunsWith(Div)'
    BY DEF RunsWith
  <2>2. RxFollows(host, Div) => RxFollows(host, Div)'
    BY <1>2 DEF RxFollows
  <2>3. RxBits(host, Div) => RxBits(host, Div)'
    BY <1>3 DEF RxBits
  <2> QED
    BY <2>1, <2>2, <2>3 DEF RInv, RxInv, Setting
<1>6. ReadInv'
  BY <1>4 DEF RInv, ReadInv, Waiting, TimeLeft
<1> QED
  BY <1>1, <1>5, <1>6 DEF RInv

(* After reset the host waits and the driver has the UART to set up.       *)
LEMMA InitReads ==
    ASSUME LineInit
    PROVE  RInv
<1> USE DEF LineInit
<1>1. PICK line \in Lines, time \in BitTimes, pause \in Pauses :
        host = [line |-> line, queue |-> line, bit_time |-> time, slot |-> -1,
                left |-> 100 + pause]
  BY DEF Host!Starts
<1>2. line \in Seq(Tx!Byte) /\ Len(line) \in Nat /\ pause \in Nat
  BY DEF Tx!Byte
<1>3. HostInv
  <2>1. Host!Ordered
    BY <1>1, <1>2 DEF Host!Ordered
  <2> QED
    BY <1>1, <2>1 DEF HostInv
<1>4. Resting
  BY <1>1 DEF Resting, UartInit, Clock!Init, Rx!Init
<1>5. Begun /\ sw.pc = "divider"
  BY <1>1, <1>2 DEF Begun, UartInit
<1>6. NoErrors
  BY DEF NoErrors, UartInit, Rx!Init
<1>7. GotInv
  <2>1. got = <<>> /\ Len(got) = 0 /\ got \in Seq(Tx!Byte)
    OBVIOUS
  <2> QED
    BY <1>1, <1>2, <2>1 DEF GotInv
<1> QED
  BY <1>3, <1>4, <1>5, <1>6, <1>7 DEF RInv, SetupInv, RxInv, Setting, ReadInv

-----------------------------------------------------------------------------
(* The ear is in step with the transmitter, by its own clock.  Where the   *)
(* transmitter is in its frame, and the bit that the ear waits for.        *)
TxLeft == LeftOf(tx.edges_counter, EdgeIn(Div), Div)

TxSlot == CASE tx.state = "START"  -> 0
            [] tx.state = "ACTIVE" -> tx.bits_counter + 1
            [] OTHER               -> DataBits + 1

Awaited == Len(ear.bits) + 1

(* How long before the end of that bit the ear takes it: at most a bit,    *)
(* and at least what its slower clock has left of half a bit.              *)
EarSpan(bit, time) ==
    2 * BitOf(Div) - PeriodOf(Div) - 1 - time - time \div 2
        - (bit - 1) * Over(time, Div)

Early(n, bit, time) == EarSpan(bit, time) <= n /\ n <= BitOf(Div) - 1

(* The cycles of the transmitter.                                          *)
TxRests(valid) == tx.state = "IDLE" /\ ~valid /\ tx' = tx

TxAccepts(valid) ==
    /\ tx.state = "IDLE" /\ valid /\ tx'.state = "START"
    /\ tx'.sout = tx.sout /\ tx'.bits_counter = tx.bits_counter
    /\ tx'.edges_counter = tx.edges_counter

TxStays(data) ==
    /\ tx.state # "IDLE" /\ TxLeft > 1 /\ TxLeft' = TxLeft - 1
    /\ tx'.state = tx.state /\ tx'.bits_counter = tx.bits_counter
    /\ tx'.sout = IF tx.state = "START" THEN 0 ELSE tx.sout
    /\ tx'.tx_buffer = IF tx.state = "START" THEN data ELSE tx.tx_buffer

TxNextBit ==
    /\ TxLeft = 1 /\ TxLeft' = BitOf(Div)
    /\ tx'.sout = tx.tx_buffer[0] /\ tx'.tx_buffer = Tx!Shifted(tx.tx_buffer)
    /\ tx'.state = "ACTIVE"
    /\ \/ tx.state = "START" /\ tx'.bits_counter = tx.bits_counter
       \/ /\ tx.state = "ACTIVE" /\ tx.bits_counter # DataBits - 1
          /\ tx'.bits_counter = tx.bits_counter + 1

TxStopBit ==
    /\ TxLeft = 1 /\ TxLeft' = BitOf(Div)
    /\ tx.state = "ACTIVE" /\ tx.bits_counter = DataBits - 1
    /\ tx'.state = "STOP" /\ tx'.bits_counter = 0 /\ tx'.sout = 1

TxLeaves ==
    /\ tx.state = "STOP" /\ TxLeft = 1 /\ tx'.state = "IDLE"
    /\ tx'.bits_counter = tx.bits_counter /\ tx'.edges_counter = 0
    /\ tx'.sout = tx.sout

(* A cycle of the transmitter that runs (uart_transmitter.sv:65-169) is    *)
(* one of those steps: idle, inside a bit, or at the end of one.           *)
LEMMA TransmitterMoves ==
    ASSUME UartTypeOK, RunsWith(Div),
           NEW divider, Clock!Cycle(TRUE, FALSE, divider),
           NEW valid, NEW data, Tx!Cycle(clock.rising_edge, valid, data)
    PROVE  /\ TxLeft \in 1 .. BitOf(Div)
           /\ \/ TxRests(valid)
              \/ TxAccepts(valid)
              \/ TxStays(data)
              \/ TxNextBit
              \/ TxStopBit
              \/ TxLeaves
           /\ tx'.edges_counter = 0 =>
                 /\ TxLeft' > BitOf(Div) - PeriodOf(Div)
                 /\ TxLeft' <= BitOf(Div)
<1> DEFINE edges == tx.edges_counter  edge_in == EdgeIn(Div)
           edge == clock.rising_edge  p == PeriodOf(Div)
<1>1. /\ edges \in 0 .. Oversampling - 1 /\ edge \in BOOLEAN
      /\ Oversampling \in Nat /\ Oversampling > 1 /\ DataBits \in Nat \ {0}
  BY DEF UartTypeOK, Tx!TypeOK, Clock!TypeOK
<1>2. /\ edge_in \in 1 .. p
      /\ edge <=> edge_in = 1
      /\ edge_in' = IF edge THEN p ELSE edge_in - 1
      /\ edge_in' \in 1 .. p
  BY EdgesGoRound
<1>3. /\ LeftOf(edges, edge_in, Div) \in 1 .. BitOf(Div)
      /\ edge_in = 1 /\ edges = Oversampling - 1 <=> LeftOf(edges, edge_in, Div) = 1
      /\ LeftOf(edges, edge_in - 1, Div) = LeftOf(edges, edge_in, Div) - 1
      /\ edge_in = 1 => LeftOf(edges + 1, p, Div) = LeftOf(edges, edge_in, Div) - 1
      /\ LeftOf(0, p, Div) = BitOf(Div)
  <2>1. edges \in 0 .. Oversampling - 1 /\ edge_in \in 1 .. PeriodOf(Div)
    BY <1>1, <1>2
  <2> HIDE DEF edges, edge_in
  <2> QED
    BY <2>1, CyclesLeft
<1>4. /\ TxLeft = LeftOf(edges, edge_in, Div)
      /\ TxLeft' = LeftOf(tx'.edges_counter, edge_in', Div)
  BY DEF TxLeft, LeftOf, PeriodOf
<1>5. Tx!LastEdge(edge) <=> TxLeft = 1
  BY <1>2, <1>3, <1>4 DEF Tx!LastEdge
<1>6. TxLeft \in 1 .. BitOf(Div) /\ BitOf(Div) \in Nat
  BY <1>3, <1>4, CyclesOfABit
<1>7. tx \in [state : Tx!States, bits_counter : 0 .. DataBits - 1,
              edges_counter : 0 .. Oversampling - 1,
              sout : Bit, tx_buffer : Tx!Byte]
  BY DEF UartTypeOK, Tx!TypeOK
<1>8. tx'.edges_counter = 0 =>
          /\ TxLeft' > BitOf(Div) - PeriodOf(Div) /\ TxLeft' <= BitOf(Div)
  <2> SUFFICES ASSUME tx'.edges_counter = 0
               PROVE  TxLeft' > BitOf(Div) - PeriodOf(Div) /\ TxLeft' <= BitOf(Div)
    OBVIOUS
  <2> DEFINE e == EdgeIn(Div)'  c == LeftOf(0, e, Div)
  <2>1. e \in 1 .. PeriodOf(Div) /\ TxLeft' = LeftOf(0, e, Div)
    BY <1>2, <1>4
  <2> HIDE DEF e
  <2>2. c = BitOf(Div) - PeriodOf(Div) + e
    BY <1>1, <2>1, CyclesLeft
  <2>3. TxLeft' = c
    BY <2>1
  <2> HIDE DEF c
  <2> QED
    BY <2>1, <2>2, <2>3, CyclesOfABit, SMTT(60)
<1> HIDE DEF edges, edge_in, edge, p
<1>9. CASE Tx!Rest(valid)
  BY <1>6, <1>8, <1>9 DEF Tx!Rest, TxRests
<1>10. CASE Tx!Accept(valid)
  BY <1>6, <1>7, <1>8, <1>10 DEF Tx!Accept, TxAccepts
<1>11. CASE Tx!WithinBit(edge, data)
  <2>1. /\ tx.state # "IDLE" /\ TxLeft # 1
        /\ tx'.state = tx.state /\ tx'.bits_counter = tx.bits_counter
        /\ tx'.edges_counter = IF edge THEN edges + 1 ELSE edges
        /\ tx'.sout = IF tx.state = "START" THEN 0 ELSE tx.sout
        /\ tx'.tx_buffer = IF tx.state = "START" THEN data ELSE tx.tx_buffer
    BY <1>5, <1>7, <1>11 DEF Tx!WithinBit, edges
  <2>2. TxLeft' = TxLeft - 1
    BY <1>1, <1>2, <1>3, <1>4, <2>1
  <2>3. TxLeft > 1
    BY <1>6, <2>1
  <2>4. TxStays(data)
    BY <2>1, <2>2, <2>3 DEF TxStays
  <2> QED
    BY <1>6, <1>8, <2>4
<1>12. ASSUME Tx!LastEdge(edge), tx'.edges_counter = 0
       PROVE  TxLeft' = BitOf(Div)
  BY <1>2, <1>3, <1>4, <1>12 DEF Tx!LastEdge
<1>13. CASE Tx!FirstBit(edge)
  <2>1. /\ tx.state = "START" /\ Tx!LastEdge(edge)
        /\ tx'.state = "ACTIVE" /\ tx'.bits_counter = tx.bits_counter
        /\ tx'.edges_counter = 0 /\ tx'.sout = tx.tx_buffer[0]
        /\ tx'.tx_buffer = Tx!Shifted(tx.tx_buffer)
    BY <1>7, <1>13 DEF Tx!FirstBit
  <2>2. TxNextBit
    BY <1>5, <1>12, <2>1 DEF TxNextBit
  <2> QED
    BY <1>6, <1>8, <2>2
<1>14. CASE Tx!NextBit(edge)
  <2>1. /\ tx.state = "ACTIVE" /\ Tx!LastEdge(edge) /\ tx.bits_counter # DataBits - 1
        /\ tx'.state = "ACTIVE" /\ tx'.bits_counter = tx.bits_counter + 1
        /\ tx'.edges_counter = 0 /\ tx'.sout = tx.tx_buffer[0]
        /\ tx'.tx_buffer = Tx!Shifted(tx.tx_buffer)
    BY <1>7, <1>14 DEF Tx!NextBit
  <2>2. TxNextBit
    BY <1>5, <1>12, <2>1 DEF TxNextBit
  <2> QED
    BY <1>6, <1>8, <2>2
<1>15. CASE Tx!StopBit(edge)
  <2>1. /\ tx.state = "ACTIVE" /\ Tx!LastEdge(edge) /\ tx.bits_counter = DataBits - 1
        /\ tx'.state = "STOP" /\ tx'.bits_counter = 0 /\ tx'.edges_counter = 0
        /\ tx'.sout = 1
    BY <1>7, <1>15 DEF Tx!StopBit
  <2>2. TxStopBit
    BY <1>5, <1>12, <2>1 DEF TxStopBit
  <2> QED
    BY <1>6, <1>8, <2>2
<1>16. CASE Tx!Finish(edge)
  <2>1. /\ tx.state = "STOP" /\ Tx!LastEdge(edge) /\ tx'.state = "IDLE"
        /\ tx'.bits_counter = tx.bits_counter /\ tx'.edges_counter = 0
        /\ tx'.sout = tx.sout
    BY <1>7, <1>16 DEF Tx!Finish
  <2>2. TxLeaves
    BY <1>5, <2>1 DEF TxLeaves
  <2> QED
    BY <1>6, <1>8, <2>2
<1> QED
  BY <1>9, <1>10, <1>11, <1>13, <1>14, <1>15, <1>16 DEF Tx!Cycle, edge

(* The numbers of the ear. *)
LEMMA SpanShrinks ==
    ASSUME NEW time \in Nat, KeepsUp(time, Div), EarKeepsUp(time, Div),
           NEW bit \in 1 .. DataBits + 1
    PROVE  /\ EarSpan(bit, time) \in Int /\ Over(time, Div) \in Nat
           /\ time = BitOf(Div) + Over(time, Div)
           /\ EarSpan(bit + 1, time) = EarSpan(bit, time) - Over(time, Div)
           /\ EarSpan(bit, time) >= -2
           /\ bit <= DataBits => EarSpan(bit, time) >= 0
           /\ EarSpan(1, time) = 2 * BitOf(Div) - PeriodOf(Div) - 1
                                     - time - time \div 2
<1> DEFINE over == Over(time, Div)  b == BitOf(Div)  p == PeriodOf(Div)
           half == time \div 2
           past == (bit - 1) * over  last == (DataBits - 1) * over
           rest == (DataBits - bit) * over  all == DataBits * over
<1>1. /\ b \in Nat /\ p \in Nat /\ half \in Nat /\ DataBits \in Nat /\ DataBits > 0
      /\ time = b + over /\ over \in Nat
  <2>1. b \in Nat /\ p \in Nat
    BY CyclesOfABit
  <2>2. over = time - b /\ over >= 0
    BY DEF KeepsUp, Over
  <2> HIDE DEF over, b, p
  <2> QED
    BY <2>1, <2>2
<1>2. /\ p + time + half + 1 + last <= 2 * b
      /\ p + time + half + all <= 2 * b + 1
  BY DEF EarKeepsUp
<1>3. EarSpan(bit, time) = 2 * b - p - 1 - time - half - past
  BY DEF EarSpan
<1>4. EarSpan(bit + 1, time) = 2 * b - p - 1 - time - half - (bit + 1 - 1) * over
  BY DEF EarSpan
<1>5. EarSpan(1, time) = 2 * b - p - 1 - time - half - (1 - 1) * over
  BY DEF EarSpan
<1> HIDE DEF over, b, p, half
<1>6. past \in Nat /\ last \in Nat /\ all \in Nat /\ all = last + over
  BY <1>1
<1>7. (bit + 1 - 1) * over = past + over /\ (1 - 1) * over = 0
  BY <1>1
<1>8. rest \in Int /\ last = past + rest /\ all = past + rest + over
  BY <1>1
<1>9. bit <= DataBits => rest \in Nat
  BY <1>1
<1>10. bit = DataBits + 1 => past = all
  BY <1>1
<1> HIDE DEF past, last, all, rest
<1>11. EarSpan(bit, time) \in Int
  BY <1>1, <1>3, <1>6
<1>12. EarSpan(bit + 1, time) = EarSpan(bit, time) - over
  BY <1>1, <1>3, <1>4, <1>6, <1>7
<1>13. bit <= DataBits => EarSpan(bit, time) >= 0
  BY <1>1, <1>2, <1>3, <1>6, <1>8, <1>9
<1>14. bit = DataBits + 1 => EarSpan(bit, time) >= -2
  BY <1>1, <1>2, <1>3, <1>6, <1>10
<1>15. EarSpan(bit, time) >= -2
  BY <1>1, <1>11, <1>13, <1>14
<1>16. EarSpan(1, time) = 2 * b - p - 1 - time - half
  BY <1>1, <1>5, <1>7
<1> QED
  BY <1>1, <1>11, <1>12, <1>13, <1>15, <1>16 DEF over, b, p, half

(* The cycles of the ear. *)
EarMoves(level, time) ==
    \/ /\ ear.left = 0 /\ level # 0
       /\ ear'.left = 0 /\ ear'.bits = ear.bits /\ (ear'.error <=> ear.error)
    \/ /\ ear.left = 0 /\ level = 0
       /\ ear'.left = time + time \div 2 /\ ear'.bits = ear.bits
       /\ (ear'.error <=> ear.error)
    \/ /\ ear.left > 1
       /\ ear'.left = ear.left - 1 /\ ear'.bits = ear.bits
       /\ (ear'.error <=> ear.error)
    \/ /\ ear.left = 1 /\ Awaited # DataBits + 1
       /\ ear'.left = time /\ ear'.bits = Append(ear.bits, level)
       /\ (ear'.error <=> ear.error)
    \/ /\ ear.left = 1 /\ Awaited = DataBits + 1
       /\ ear'.left = 0 /\ ear'.bits = <<>>
       /\ (ear'.error <=> ear.error \/ level = 0)

(* A cycle of the listener is one of those steps: it waits for a start     *)
(* bit, inside a bit, takes a bit, or ends a frame.                        *)
LEMMA EarGoesOn ==
    ASSUME EarOK, NEW level \in Bit, NEW time \in Nat, Ear!Listen(level, time)
    PROVE  EarMoves(level, time)
<1>1. /\ ear.left \in Nat /\ ear.bits \in Seq(Bit) /\ Len(ear.bits) \in Nat
      /\ ear = [left |-> ear.left, bits |-> ear.bits, error |-> ear.error]
  BY LenProperties DEF EarOK
<1>2. CASE Ear!Rest(level)
  BY <1>2 DEF Ear!Rest, EarMoves
<1>3. CASE Ear!Detect(level, time)
  BY <1>1, <1>3 DEF Ear!Detect, EarMoves
<1>4. CASE Ear!Await
  BY <1>1, <1>4 DEF Ear!Await, EarMoves
<1>5. CASE Ear!Sample(level, time)
  <2>1. Awaited # DataBits + 1
    BY <1>1, <1>5 DEF Ear!Sample, Ear!Hears, Awaited
  <2> QED
    BY <1>1, <1>5, <2>1 DEF Ear!Sample, EarMoves
<1>6. CASE Ear!Conclude(level)
  <2>1. ear.left = 1 /\ Awaited = DataBits + 1
    BY <1>1, <1>6 DEF Ear!Conclude, Ear!Hears, Awaited
  <2>2. ear'.left = 0 /\ ear'.bits = <<>> /\ (ear'.error <=> ear.error \/ level = 0)
    BY <1>6 DEF Ear!Conclude
  <2> QED
    BY <2>1, <2>2 DEF EarMoves
<1> QED
  BY <1>2, <1>3, <1>4, <1>5, <1>6 DEF Ear!Listen

(* Both together, in numbers: the transmitter's state, its level, the bit  *)
(* that it is at and the cycles left of it; the bit that the ear awaits    *)
(* and the cycles to it.                                                   *)
InPhase(state, sout, slot, cycles, bit, left, time) ==
    /\ left = 0 => bit = 1
    /\ state = "IDLE" => sout = 1 /\ (left > 0 => bit = DataBits + 1 /\ left <= 2)
    /\ state = "STOP" => sout = 1
    /\ state = "START" =>
          \/ sout = 1 /\ left = 0 /\ cycles > BitOf(Div) - PeriodOf(Div)
          \/ sout = 0 /\ left = 0 /\ cycles >= BitOf(Div) - PeriodOf(Div)
          \/ sout = 0 /\ left > 0
    /\ state = "ACTIVE" => left > 0
    /\ state # "IDLE" /\ left > 0 =>
          \/ bit = slot /\ Early(cycles - left, bit, time)
          \/ /\ bit = slot + 1 /\ state # "STOP"
             /\ Early(cycles + BitOf(Div) - left, bit, time)

EarTurns(level, bit, left, bit1, left1, time) ==
    \/ left = 0 /\ level # 0 /\ left1 = 0 /\ bit1 = bit
    \/ left = 0 /\ level = 0 /\ left1 = time + time \div 2 /\ bit1 = bit
    \/ left > 1 /\ left1 = left - 1 /\ bit1 = bit
    \/ left = 1 /\ bit # DataBits + 1 /\ left1 = time /\ bit1 = bit + 1
    \/ left = 1 /\ bit = DataBits + 1 /\ left1 = 0 /\ bit1 = 1

(* Within a bit of the transmitter. *)
LEMMA PhaseWithinBit ==
    ASSUME NEW time \in Nat, KeepsUp(time, Div), EarKeepsUp(time, Div),
           NEW state \in {"START", "ACTIVE", "STOP"}, NEW sout, NEW next_sout,
           NEW slot \in 0 .. DataBits + 1, NEW cycles \in Nat, cycles > 1,
           cycles <= BitOf(Div),
           state = "START" => slot = 0, state = "ACTIVE" => slot \in 1 .. DataBits,
           state = "STOP" => slot = DataBits + 1,
           NEW bit \in 1 .. DataBits + 1, NEW left \in Nat, NEW bit1, NEW left1,
           InPhase(state, sout, slot, cycles, bit, left, time),
           EarTurns(sout, bit, left, bit1, left1, time),
           next_sout = IF state = "START" THEN 0 ELSE sout
    PROVE  InPhase(state, next_sout, slot, cycles - 1, bit1, left1, time)
<1> DEFINE over == Over(time, Div)  b == BitOf(Div)  p == PeriodOf(Div)
           half == time \div 2
           span == EarSpan(bit, time)  span1 == EarSpan(bit + 1, time)
           first == EarSpan(1, time)
<1>1. /\ b \in Nat /\ p \in Nat /\ p >= 2 /\ b - p >= p /\ half \in Nat
      /\ DataBits \in Nat /\ DataBits > 0
  <2>1. /\ b \in Nat /\ p \in Nat /\ p >= 2
        /\ HalfOf(Div) >= p /\ b - HalfOf(Div) >= p /\ HalfOf(Div) \in Nat
    BY CyclesOfABit
  <2> DEFINE h == HalfOf(Div)
  <2> HIDE DEF b, p, h
  <2>2. b - p >= p
    BY <2>1 DEF h
  <2> QED
    BY <2>1, <2>2
<1>2. /\ span \in Int /\ over \in Nat /\ time = b + over
      /\ span1 = span - over /\ span >= -2
      /\ bit <= DataBits => span >= 0
      /\ first = 2 * b - p - 1 - time - half
  BY SpanShrinks
<1>3. Early(cycles - left, bit, time) <=> span <= cycles - left /\ cycles - left <= b - 1
  BY DEF Early
<1>4. Early(cycles + b - left, bit, time) <=>
          span <= cycles + b - left /\ cycles + b - left <= b - 1
  BY DEF Early
<1> HIDE DEF over, b, p, half, span, span1, first
<1>5. CASE left = 0 /\ sout # 0
  <2>1. left1 = 0 /\ bit1 = bit /\ bit = 1
    BY <1>5 DEF EarTurns, InPhase
  <2>2. state # "ACTIVE"
    BY <1>5 DEF InPhase
  <2>3. state = "START" => next_sout = 0 /\ cycles > b - p
    BY <1>5 DEF InPhase, b, p
  <2>4. state = "START" => cycles - 1 >= b - p
    BY <1>1, <2>3
  <2>5. state = "STOP" => next_sout = 1
    BY DEF InPhase
  <2> QED
    BY <2>1, <2>2, <2>3, <2>4, <2>5 DEF InPhase, b, p
<1>6. CASE left = 0 /\ sout = 0
  <2>1. state = "START" /\ bit = 1 /\ cycles >= b - p /\ next_sout = 0 /\ slot = 0
    BY <1>6 DEF InPhase, b, p
  <2>2. left1 = time + half /\ bit1 = 1 /\ left1 > 0
    BY <1>1, <1>2, <1>6, <2>1 DEF EarTurns, half
  <2>3. first <= cycles - 1 + b - left1 /\ cycles - 1 + b - left1 <= b - 1
    <3>1. cycles - 1 + b - left1 >= b - p - 1 + b - (time + half)
      BY <1>1, <1>2, <2>1, <2>2
    <3>2. cycles <= b
      BY DEF b
    <3>3. left1 >= b
      BY <1>1, <1>2, <2>2
    <3> QED
      BY <1>1, <1>2, <2>2, <3>1, <3>2, <3>3
  <2>4. Early(cycles - 1 + b - left1, 1, time)
    BY <2>3 DEF Early, first, b
  <2> QED
    BY <2>1, <2>2, <2>4 DEF InPhase, b
<1>7. CASE left > 0
  <2>1. state = "START" => next_sout = 0
    OBVIOUS
  <2>2. state = "STOP" => next_sout = 1
    BY DEF InPhase
  <2>3. CASE bit = slot /\ Early(cycles - left, bit, time)
    <3>1. span <= cycles - left /\ cycles - left <= b - 1
      BY <1>3, <2>3
    <3>2. state # "START"
      BY <2>3
    <3>3. CASE left > 1
      <4>1. left1 = left - 1 /\ bit1 = bit
        BY <3>3 DEF EarTurns
      <4>2. cycles - 1 - left1 = cycles - left
        BY <4>1
      <4> QED
        BY <2>2, <2>3, <3>2, <3>3, <4>1, <4>2 DEF InPhase
    <3>4. CASE left = 1 /\ bit = DataBits + 1
      <4>1. left1 = 0 /\ bit1 = 1
        BY <3>4 DEF EarTurns
      <4>2. state = "STOP"
        BY <1>1, <2>3, <3>4
      <4> QED
        BY <2>2, <4>1, <4>2 DEF InPhase
    <3>5. CASE left = 1 /\ bit # DataBits + 1
      <4>1. left1 = time /\ bit1 = bit + 1
        BY <3>5 DEF EarTurns
      <4>2. state = "ACTIVE"
        BY <2>3, <3>2, <3>5
      <4>3. left1 > 0
        BY <1>1, <1>2, <4>1
      <4>4. cycles - 1 + b - left1 = cycles - left - over
        BY <1>1, <1>2, <3>5, <4>1
      <4>5. span1 <= cycles - 1 + b - left1 /\ cycles - 1 + b - left1 <= b - 1
        BY <1>1, <1>2, <3>1, <3>5, <4>4
      <4>6. Early(cycles - 1 + b - left1, bit1, time)
        BY <4>1, <4>5 DEF Early, span1, b
      <4> QED
        BY <2>3, <4>1, <4>2, <4>3, <4>6 DEF InPhase, b
    <3> QED
      BY <1>7, <3>3, <3>4, <3>5
  <2>4. CASE /\ bit = slot + 1 /\ state # "STOP"
             /\ Early(cycles + b - left, bit, time)
    <3>1. span <= cycles + b - left /\ cycles + b - left <= b - 1
      BY <1>4, <2>4 DEF b
    <3>2. left > 1
      BY <1>1, <3>1
    <3>3. left1 = left - 1 /\ bit1 = bit /\ left1 > 0
      BY <3>2 DEF EarTurns
    <3>4. cycles - 1 + b - left1 = cycles + b - left
      BY <1>1, <3>3
    <3> QED
      BY <2>1, <2>4, <3>3, <3>4 DEF InPhase, b
  <2> QED
    BY <1>7, <2>3, <2>4 DEF InPhase, b
<1> QED
  BY <1>5, <1>6, <1>7

(* From a bit to the next. *)
LEMMA PhaseNextBit ==
    ASSUME NEW time \in Nat, KeepsUp(time, Div), EarKeepsUp(time, Div),
           NEW state \in {"START", "ACTIVE"}, NEW next \in {"ACTIVE", "STOP"},
           NEW sout, NEW next_sout, next = "STOP" => next_sout = 1,
           NEW slot \in 0 .. DataBits, state = "START" => slot = 0,
           next = "STOP" <=> slot = DataBits,
           NEW bit \in 1 .. DataBits + 1, NEW left \in Nat, NEW bit1, NEW left1,
           InPhase(state, sout, slot, 1, bit, left, time),
           EarTurns(sout, bit, left, bit1, left1, time)
    PROVE  InPhase(next, next_sout, slot + 1, BitOf(Div), bit1, left1, time)
<1> DEFINE over == Over(time, Div)  b == BitOf(Div)  p == PeriodOf(Div)
           span == EarSpan(bit, time)  span1 == EarSpan(bit + 1, time)
<1>1. /\ b \in Nat /\ p \in Nat /\ p >= 2 /\ b - p >= p
      /\ DataBits \in Nat /\ DataBits > 0
  <2>1. /\ b \in Nat /\ p \in Nat /\ p >= 2
        /\ HalfOf(Div) >= p /\ b - HalfOf(Div) >= p /\ HalfOf(Div) \in Nat
    BY CyclesOfABit
  <2> DEFINE h == HalfOf(Div)
  <2> HIDE DEF b, p, h
  <2>2. b - p >= p
    BY <2>1 DEF h
  <2> QED
    BY <2>1, <2>2
<1>2. /\ span \in Int /\ over \in Nat /\ time = b + over
      /\ span1 = span - over
      /\ bit <= DataBits => span >= 0
  BY SpanShrinks
<1> HIDE DEF over, b, p, span, span1
<1>3. left > 0
  <2>1. ~(1 > b - p) /\ ~(1 >= b - p)
    BY <1>1
  <2> QED
    BY <2>1 DEF InPhase, b, p
<1>4. CASE bit = slot /\ Early(1 - left, bit, time)
  <2>1. span <= 1 - left /\ 1 - left <= b - 1
    BY <1>4 DEF Early, span, b
  <2>2. left = 1 /\ bit <= DataBits /\ bit # DataBits + 1
    BY <1>1, <1>2, <1>3, <1>4, <2>1
  <2>3. left1 = time /\ bit1 = bit + 1
    BY <2>2 DEF EarTurns
  <2>4. left1 > 0 /\ b - left1 = 0 - over
    BY <1>1, <1>2, <2>3
  <2>5. span1 <= b - left1 /\ b - left1 <= b - 1
    BY <1>1, <1>2, <2>1, <2>2, <2>4
  <2>6. Early(b - left1, bit1, time)
    BY <2>3, <2>5 DEF Early, span1, b
  <2> QED
    BY <1>4, <2>3, <2>4, <2>6 DEF InPhase, b
<1>5. CASE bit = slot + 1 /\ Early(1 + b - left, bit, time)
  <2>1. span <= 1 + b - left /\ 1 + b - left <= b - 1
    BY <1>5 DEF Early, span, b
  <2>2. left > 1
    BY <1>1, <2>1
  <2>3. left1 = left - 1 /\ bit1 = bit /\ left1 > 0
    BY <2>2 DEF EarTurns
  <2>4. b - left1 = 1 + b - left
    BY <1>1, <2>3
  <2> QED
    BY <1>5, <2>3, <2>4 DEF InPhase, b
<1> QED
  BY <1>3, <1>4, <1>5 DEF InPhase, b

(* The end of the stop bit: the ear takes it in the next two cycles.       *)
LEMMA PhaseLeaves ==
    ASSUME NEW time \in Nat, KeepsUp(time, Div), EarKeepsUp(time, Div), NEW sout,
           NEW cycles,
           NEW bit \in 1 .. DataBits + 1, NEW left \in Nat, NEW bit1, NEW left1,
           InPhase("STOP", sout, DataBits + 1, 1, bit, left, time),
           EarTurns(sout, bit, left, bit1, left1, time)
    PROVE  InPhase("IDLE", sout, DataBits + 1, cycles, bit1, left1, time)
<1> DEFINE span == EarSpan(bit, time)
<1>1. span \in Int /\ span >= -2 /\ DataBits \in Nat
  BY SpanShrinks
<1>2. sout = 1
  BY DEF InPhase
<1>3. left > 0 => bit = DataBits + 1 /\ span <= 1 - left
  BY DEF InPhase, Early
<1> HIDE DEF span
<1>4. left <= 3
  BY <1>1, <1>3
<1>5. left1 = 0 => bit1 = 1
  BY <1>1, <1>2, <1>3 DEF EarTurns, InPhase
<1>6. left1 > 0 => bit1 = DataBits + 1 /\ left1 <= 2
  BY <1>1, <1>2, <1>3, <1>4 DEF EarTurns
<1> QED
  BY <1>2, <1>5, <1>6 DEF InPhase

(* While the transmitter rests. *)
LEMMA PhaseRests ==
    ASSUME NEW sout, NEW cycles, NEW cycles1, NEW slot, NEW time,
           NEW bit \in 1 .. DataBits + 1, NEW left \in Nat, NEW bit1, NEW left1,
           InPhase("IDLE", sout, slot, cycles, bit, left, time),
           EarTurns(sout, bit, left, bit1, left1, time)
    PROVE  /\ InPhase("IDLE", sout, slot, cycles1, bit1, left1, time)
           /\ left <= 1 => left1 = 0
           /\ left1 = 0 \/ left1 = left - 1
  BY DEF InPhase, EarTurns

(* What is kept: the ear follows, and a byte is stored only when it is     *)
(* through with the one before; when the transmitter rests first, the      *)
(* driver still polls.                                                     *)
EarInv ==
    /\ tx.state # "ACTIVE" => tx.bits_counter = 0
    /\ tx.state = "IDLE" => tx.edges_counter = 0
    /\ InPhase(tx.state, tx.sout, TxSlot, TxLeft, Awaited, ear.left, host.bit_time)
    /\ ~ear.error
    /\ tx_data_valid => ear.left = 0
    /\ tx.state = "IDLE" /\ ear.left > 0 =>
          sw.pc = "poll_tx" /\ (uart_regs.txact \/ ear.left = 1)

(* The ear in numbers. *)
LEMMA EarTakesTurns ==
    ASSUME TInv, EarInv, NEW access, Bus(access),
           tx.state # "IDLE" => TxLeft \in 1 .. BitOf(Div)
    PROVE  /\ EarMoves(tx.sout, host.bit_time)
           /\ EarTurns(tx.sout, Awaited, ear.left, Awaited', ear'.left,
                       host.bit_time)
           /\ Awaited \in 1 .. DataBits + 1 /\ ear.left \in Nat
           /\ ~ear'.error
<1>1. EarOK /\ tx.sout \in Bit /\ host.bit_time \in Nat
      /\ Ear!Listen(tx.sout, host.bit_time)
  BY DEF TInv, UartTypeOK, Tx!TypeOK, HostOK, Host!Framed, Host!Hosts,
         Host!Duration, Bus, Listen
<1>2. EarMoves(tx.sout, host.bit_time)
  BY <1>1, EarGoesOn
<1>3. /\ ear.left \in Nat /\ ear.bits \in Seq(Bit) /\ Len(ear.bits) \in Nat
      /\ Len(ear.bits) <= DataBits
  BY <1>1, LenProperties DEF EarOK
<1>4. Awaited \in 1 .. DataBits + 1
  BY <1>3 DEF Awaited
<1>5. Len(Append(ear.bits, tx.sout)) = Len(ear.bits) + 1 /\ Len(<<>>) = 0
  BY <1>1, <1>3
<1>6. EarTurns(tx.sout, Awaited, ear.left, Awaited', ear'.left, host.bit_time)
  BY <1>2, <1>3, <1>5 DEF EarMoves, EarTurns, Awaited
<1>7. ear.left = 1 /\ Awaited = DataBits + 1 => tx.sout = 1
  <2> SUFFICES ASSUME ear.left = 1, Awaited = DataBits + 1 PROVE tx.sout = 1
    OBVIOUS
  <2>1. InPhase(tx.state, tx.sout, TxSlot, TxLeft, Awaited, ear.left,
                host.bit_time)
    BY DEF EarInv
  <2>2. CASE tx.state \in {"IDLE", "STOP"}
    BY <2>1, <2>2 DEF InPhase
  <2>3. CASE tx.state \in {"START", "ACTIVE"}
    <3>1. TxSlot \in 0 .. DataBits /\ DataBits \in Nat
      BY <2>3 DEF TxSlot, TInv, UartTypeOK, Tx!TypeOK
    <3>2. ~(ear.left = 0) /\ (tx.state = "START" => tx.sout = 0)
      BY <2>1 DEF InPhase
    <3>3. Awaited = TxSlot + 1 /\ Early(TxLeft + BitOf(Div) - ear.left, Awaited,
                                         host.bit_time)
      BY <2>1, <2>3, <3>1 DEF InPhase
    <3>4. TxLeft + BitOf(Div) - 1 <= BitOf(Div) - 1
      BY <3>3 DEF Early
    <3>5. TxLeft >= 1 /\ TxLeft \in Nat /\ BitOf(Div) \in Nat
      BY <2>3, CyclesOfABit
    <3> QED
      BY <3>4, <3>5
  <2> QED
    BY <2>2, <2>3 DEF TInv, UartTypeOK, Tx!TypeOK, Tx!States
<1>8. ~ear'.error
  <2>1. tx.sout = 1 => tx.sout # 0
    OBVIOUS
  <2> QED
    BY <1>2, <1>7, <2>1 DEF EarMoves, EarInv
<1> QED
  BY <1>2, <1>3, <1>4, <1>6, <1>8

(* While the driver does not wait for the transmitter, it is idle, and so  *)
(* is the ear.                                                             *)
LEMMA EarStandsBy ==
    ASSUME TInv, SInv, RInv, EarInv, sw.pc # "poll_tx", NEW access, Bus(access)
    PROVE  EarInv' /\ tx' = tx /\ ear'.left = 0 /\ ear'.bits = ear.bits
           /\ heard' = heard
<1>1. tx.state = "IDLE" /\ ~tx_data_valid /\ ear.left = 0
  <2>1. tx.state = "IDLE" /\ ~tx_data_valid
    BY DEF SInv
  <2>2. ear.left \in Nat
    BY DEF TInv, EarOK
  <2> QED
    BY <2>1, <2>2 DEF EarInv
<1>2. InPhase(tx.state, tx.sout, TxSlot, TxLeft, Awaited, ear.left, host.bit_time)
  BY DEF EarInv
<1>3. tx.sout = 1 /\ Awaited = 1
  BY <1>1, <1>2 DEF InPhase
<1>4. tx' = tx
  BY <1>1 DEF Bus, UartCycle, Tx!Cycle, Tx!Rest, Tx!Accept, Tx!WithinBit,
       Tx!FirstBit, Tx!NextBit, Tx!StopBit, Tx!Finish
<1>5. EarMoves(tx.sout, host.bit_time) /\ ~ear'.error
  BY <1>1, EarTakesTurns
<1>6. ear'.left = 0 /\ ear'.bits = ear.bits
  BY <1>1, <1>3, <1>5 DEF EarMoves
<1>7. heard' = heard
  BY <1>1 DEF Bus, Listen, Ear!Hears
<1>8. InPhase(tx'.state, tx'.sout, TxSlot', TxLeft', Awaited', ear'.left,
              host'.bit_time)
  <2>1. Awaited' = 1
    BY <1>3, <1>6 DEF Awaited
  <2> QED
    BY <1>1, <1>3, <1>4, <1>6, <2>1 DEF InPhase
<1> QED
  BY <1>1, <1>4, <1>5, <1>6, <1>7, <1>8 DEF EarInv

(* While it waits, both go on. *)
LEMMA EarListensOn ==
    ASSUME TInv, SInv, RInv, EarInv, sw.pc = "poll_tx", NEW access, Runs(access),
           Bus(access), ~IsWritten(access, "tdr"),
           sw'.pc # "poll_tx" => ~uart_regs.txact /\ tx.state = "IDLE"
    PROVE  /\ EarInv'
           /\ TxLeft \in 1 .. BitOf(Div)
           /\ \/ TxRests(tx_data_valid)
              \/ TxAccepts(tx_data_valid)
              \/ TxStays(uart_regs.tdr)
              \/ TxNextBit
              \/ TxStopBit
              \/ TxLeaves
           /\ EarMoves(tx.sout, host.bit_time)
<1>1. /\ UartTypeOK /\ RunsWith(Div) /\ ~Setting
      /\ Clock!Cycle(TRUE, FALSE, uart_regs.cdr) /\ UartCycle(access, Host!Level)
  <2>1. ~Setting
    BY DEF Setting
  <2>2. UartTypeOK /\ RunsWith(Div) /\ UartCycle(access, Host!Level)
    BY <2>1 DEF TInv, RInv, RxInv, Bus
  <2> QED
    BY <2>1, <2>2, RunsOn DEF Runs
<1>2. Tx!Cycle(clock.rising_edge, tx_data_valid, uart_regs.tdr)
  BY <1>1 DEF UartCycle
<1>3. /\ TxLeft \in 1 .. BitOf(Div)
      /\ \/ TxRests(tx_data_valid)
         \/ TxAccepts(tx_data_valid)
         \/ TxStays(uart_regs.tdr)
         \/ TxNextBit
         \/ TxStopBit
         \/ TxLeaves
      /\ tx'.edges_counter = 0 =>
            /\ TxLeft' > BitOf(Div) - PeriodOf(Div)
            /\ TxLeft' <= BitOf(Div)
  BY <1>1, <1>2, TransmitterMoves
<1>4. /\ EarMoves(tx.sout, host.bit_time)
      /\ EarTurns(tx.sout, Awaited, ear.left, Awaited', ear'.left, host.bit_time)
      /\ Awaited \in 1 .. DataBits + 1 /\ ear.left \in Nat
      /\ ~ear'.error
  BY <1>3, EarTakesTurns
<1>5. host'.bit_time = host.bit_time /\ host.bit_time \in Nat
      /\ KeepsUp(host.bit_time, Div) /\ EarKeepsUp(host.bit_time, Div)
  <2>1. HostInv /\ LineTurns(host, host')
    BY HostTurns DEF RInv
  <2>2. host.bit_time \in BitTimes
    BY <2>1 DEF HostInv
  <2> QED
    BY <2>1, <2>2, LineTiming DEF LineTurns
<1>6. ~tx_data_valid' /\ (uart_regs'.txact <=> tx.state # "IDLE")
  BY TransmitterCycle
<1>7. /\ tx.state \in {"IDLE", "START", "ACTIVE", "STOP"}
      /\ tx.bits_counter \in 0 .. DataBits - 1 /\ DataBits \in Nat
      /\ BitOf(Div) \in Nat
  BY CyclesOfABit DEF TInv, UartTypeOK, Tx!TypeOK, Tx!States
<1> DEFINE sout == tx.sout  slot == TxSlot  cycles == TxLeft  bit == Awaited
           left == ear.left  time == host.bit_time  slot1 == TxSlot'
           cycles1 == TxLeft'  bit1 == Awaited'  left1 == ear'.left
<1>8. InPhase(tx.state, sout, slot, cycles, bit, left, time)
  BY DEF EarInv
<1>9. /\ time \in Nat /\ KeepsUp(time, Div) /\ EarKeepsUp(time, Div)
      /\ cycles \in 1 .. BitOf(Div)
      /\ EarTurns(sout, bit, left, bit1, left1, time)
      /\ bit \in 1 .. DataBits + 1 /\ left \in Nat
  BY <1>3, <1>4, <1>5
<1>10. /\ slot \in 0 .. DataBits + 1
       /\ tx.state = "START" => slot = 0
       /\ tx.state = "ACTIVE" => slot = tx.bits_counter + 1
       /\ tx.state = "STOP" => slot = DataBits + 1
       /\ tx'.state = "ACTIVE" => slot1 = tx'.bits_counter + 1
       /\ tx'.state = "START" => slot1 = 0
       /\ tx'.state = "STOP" => slot1 = DataBits + 1
  BY <1>7 DEF TxSlot
<1>11. /\ tx.state # "ACTIVE" => tx.bits_counter = 0
       /\ tx.state = "IDLE" => tx.edges_counter = 0
       /\ tx_data_valid => left = 0
       /\ tx.state = "IDLE" /\ left > 0 => uart_regs.txact \/ left = 1
  BY DEF EarInv
<1>12. SUFFICES /\ InPhase(tx'.state, tx'.sout, slot1, cycles1, bit1, left1, time)
                /\ tx'.state # "ACTIVE" => tx'.bits_counter = 0
                /\ tx'.state = "IDLE" => tx'.edges_counter = 0
                /\ tx'.state = "IDLE" /\ left1 > 0 =>
                       sw'.pc = "poll_tx" /\ (uart_regs'.txact \/ left1 = 1)
  BY <1>3, <1>4, <1>5, <1>6 DEF EarInv
<1> HIDE DEF sout, slot, cycles, bit, left, time, slot1, cycles1, bit1, left1
<1>13. CASE TxRests(tx_data_valid)
  <2>1. tx.state = "IDLE" /\ tx'.state = "IDLE" /\ tx'.sout = sout
        /\ tx'.bits_counter = 0 /\ tx'.edges_counter = 0
    BY <1>11, <1>13 DEF TxRests, sout
  <2>2. /\ InPhase("IDLE", sout, slot1, cycles1, bit1, left1, time)
        /\ left <= 1 => left1 = 0
        /\ left1 = 0 \/ left1 = left - 1
    <3>1. InPhase("IDLE", sout, slot, cycles, bit, left, time)
      BY <1>8, <2>1
    <3>2. InPhase("IDLE", sout, slot1, cycles, bit, left, time)
      BY <3>1 DEF InPhase
    <3> QED
      BY <1>9, <3>2, PhaseRests
  <2>3. left > 0 => left <= 2
    BY <1>8, <2>1 DEF InPhase
  <2>4. left1 > 0 => sw'.pc = "poll_tx" /\ left1 = 1
    <3> SUFFICES ASSUME left1 > 0 PROVE sw'.pc = "poll_tx" /\ left1 = 1
      OBVIOUS
    <3>1. left1 = left - 1 /\ left = 2
      BY <1>9, <2>2, <2>3
    <3>2. uart_regs.txact
      BY <1>11, <2>1, <3>1
    <3> QED
      BY <3>1, <3>2
  <2> QED
    BY <2>1, <2>2, <2>4
<1>14. CASE TxAccepts(tx_data_valid)
  <2>1. tx.state = "IDLE" /\ tx'.state = "START" /\ tx'.sout = sout
        /\ tx'.bits_counter = 0 /\ tx'.edges_counter = 0 /\ left = 0
    BY <1>11, <1>14 DEF TxAccepts, sout
  <2>2. sout = 1 /\ bit = 1
    BY <1>8, <2>1 DEF InPhase
  <2>3. left1 = 0 /\ bit1 = 1
    BY <1>9, <2>1, <2>2 DEF EarTurns
  <2>4. cycles1 > BitOf(Div) - PeriodOf(Div)
    BY <1>3, <2>1 DEF cycles1
  <2> QED
    BY <2>1, <2>2, <2>3, <2>4 DEF InPhase
<1>15. CASE TxStays(uart_regs.tdr)
  <2>1. /\ tx.state # "IDLE" /\ cycles > 1 /\ cycles1 = cycles - 1
        /\ tx'.state = tx.state /\ tx'.bits_counter = tx.bits_counter
        /\ tx'.sout = IF tx.state = "START" THEN 0 ELSE sout
    BY <1>15 DEF TxStays, sout, cycles, cycles1
  <2>2. slot1 = slot
    BY <1>7, <1>10, <2>1
  <2>3. tx.state = "ACTIVE" => slot \in 1 .. DataBits
    BY <1>7, <1>10
  <2> DEFINE state == tx.state  next_sout == tx'.sout
  <2>4. /\ state \in {"START", "ACTIVE", "STOP"} /\ cycles \in Nat
        /\ cycles <= BitOf(Div) /\ slot \in 0 .. DataBits + 1
        /\ state = "START" => slot = 0
        /\ state = "ACTIVE" => slot \in 1 .. DataBits
        /\ state = "STOP" => slot = DataBits + 1
        /\ InPhase(state, sout, slot, cycles, bit, left, time)
        /\ next_sout = IF state = "START" THEN 0 ELSE sout
    BY <1>7, <1>8, <1>9, <1>10, <2>1, <2>3
  <2>5. tx'.state = state /\ tx'.sout = next_sout
    BY <2>1
  <2> HIDE DEF state, next_sout
  <2>6. InPhase(state, next_sout, slot, cycles - 1, bit1, left1, time)
    BY <1>9, <2>1, <2>4, PhaseWithinBit
  <2>7. InPhase(tx'.state, tx'.sout, slot1, cycles1, bit1, left1, time)
    BY <2>1, <2>2, <2>5, <2>6
  <2> QED
    BY <1>11, <2>1, <2>7
<1>16. CASE TxNextBit \/ TxStopBit
  <2> DEFINE state == tx.state  next == tx'.state  next_sout == tx'.sout
  <2>1. cycles = 1 /\ cycles1 = BitOf(Div)
    BY <1>16 DEF TxNextBit, TxStopBit, cycles, cycles1
  <2>2. /\ state \in {"START", "ACTIVE"} /\ next \in {"ACTIVE", "STOP"}
        /\ next = "STOP" => next_sout = 1 /\ tx'.bits_counter = 0
        /\ next = "STOP" <=> slot = DataBits
        /\ slot1 = slot + 1 /\ slot \in 0 .. DataBits
    <3>1. CASE TxNextBit /\ tx.state = "START"
      <4>1. tx.bits_counter = 0 /\ slot = 0 /\ slot1 = 1 /\ tx'.state = "ACTIVE"
        BY <1>7, <1>10, <1>11, <3>1 DEF TxNextBit
      <4> QED
        BY <3>1, <4>1
    <3>2. CASE TxNextBit /\ tx.state = "ACTIVE"
      <4>1. /\ tx'.state = "ACTIVE" /\ slot = tx.bits_counter + 1
            /\ slot1 = tx.bits_counter + 2 /\ tx.bits_counter # DataBits - 1
        BY <1>7, <1>10, <3>2 DEF TxNextBit
      <4> QED
        BY <1>7, <3>2, <4>1
    <3>3. CASE TxStopBit
      <4>1. /\ tx'.state = "STOP" /\ slot = DataBits /\ slot1 = DataBits + 1
            /\ tx.state = "ACTIVE" /\ tx'.sout = 1 /\ tx'.bits_counter = 0
        BY <1>7, <1>10, <3>3 DEF TxStopBit
      <4> QED
        BY <1>7, <4>1
    <3> QED
      BY <1>16, <3>1, <3>2, <3>3 DEF TxNextBit
  <2>3. InPhase(state, sout, slot, 1, bit, left, time)
    BY <1>8, <2>1
  <2>4. state = "START" => slot = 0
    BY <1>10
  <2>5. tx'.state = next /\ tx'.sout = next_sout
    OBVIOUS
  <2> HIDE DEF state, next, next_sout
  <2>6. InPhase(next, next_sout, slot + 1, BitOf(Div), bit1, left1, time)
    BY <1>9, <2>2, <2>3, <2>4, PhaseNextBit
  <2>7. InPhase(tx'.state, tx'.sout, slot1, cycles1, bit1, left1, time)
    BY <2>1, <2>2, <2>5, <2>6
  <2> QED
    BY <2>2, <2>5, <2>7
<1>17. CASE TxLeaves
  <2>1. /\ tx.state = "STOP" /\ cycles = 1 /\ tx'.state = "IDLE"
        /\ tx'.bits_counter = 0 /\ tx'.edges_counter = 0 /\ tx'.sout = sout
        /\ slot = DataBits + 1
    BY <1>10, <1>11, <1>17 DEF TxLeaves, sout, cycles
  <2>2. InPhase("STOP", sout, DataBits + 1, 1, bit, left, time)
    BY <1>8, <2>1
  <2>3. InPhase("IDLE", sout, DataBits + 1, cycles1, bit1, left1, time)
    BY <1>9, <2>2, PhaseLeaves
  <2>4. InPhase("IDLE", sout, slot1, cycles1, bit1, left1, time)
    BY <2>3 DEF InPhase
  <2>5. sw'.pc = "poll_tx" /\ uart_regs'.txact
    BY <1>6, <2>1
  <2> QED
    BY <2>1, <2>4, <2>5
<1> QED
  BY <1>3, <1>13, <1>14, <1>15, <1>16, <1>17

(* Every step of the driver, the ear kept in step.                         *)
LEMMA WaitPolls ==
    ASSUME TInv, SInv, RInv, EarInv, sw.pc = "poll_tx", Wait \/ PollTransmitter
    PROVE  \E access \in {None, ReadReg("sr")} :
              /\ Bus(access) /\ Runs(access) /\ ~IsWritten(access, "tdr")
              /\ sw'.pc # "poll_tx" => ~uart_regs.txact /\ tx.state = "IDLE"
<1>1. CASE Wait
  <2>1. Bus(None) /\ sw'.pc = sw.pc
    BY <1>1 DEF Wait, TInv, DriverOK, Drivers
  <2>2. Runs(None) /\ ~IsWritten(None, "tdr")
    BY DEF None, IsWritten, Runs
  <2> QED
    BY <2>1, <2>2
<1>2. CASE PollTransmitter
  <2> DEFINE pc == IF uart_regs.txact THEN "poll_tx" ELSE "send"
  <2>1. Bus(ReadReg("sr")) /\ sw' = GoTo(pc) /\ sw.gap = sw.pace
    BY <1>2 DEF PollTransmitter, At
  <2>2. Runs(ReadReg("sr")) /\ ~IsWritten(ReadReg("sr"), "tdr")
    BY DEF ReadReg, IsWritten, Runs
  <2>3. pc \in Places
    BY DEF Places
  <2>4. sw'.pc = pc
    <3> HIDE DEF pc
    <3> QED
      BY <2>1, <2>3, GoToFields DEF TInv
  <2>5. sw.gap # 2
    BY <2>1, PaceAndTime DEF RInv
  <2>6. sw'.pc # "poll_tx" => ~uart_regs.txact /\ tx.state = "IDLE"
    BY <2>4, <2>5 DEF SInv
  <2> QED
    BY <2>1, <2>2, <2>6
<1> QED
  BY <1>1, <1>2

(* The steps of the driver that do not wait for the transmitter.           *)
LEMMA OthersStandBy ==
    ASSUME LineNext, ~Done, ~(sw.pc = "poll_tx" /\ (Wait \/ PollTransmitter))
    PROVE  sw.pc # "poll_tx" /\ \E access : Bus(access)
<1>1. CASE Wait
  BY <1>1 DEF Wait
<1>2. CASE SetDivider
  BY <1>2 DEF SetDivider, At
<1>3. CASE Enable
  BY <1>3 DEF Enable, At
<1>4. CASE PollReceiver
  BY <1>4 DEF PollReceiver, At
<1>5. CASE GetByte
  BY <1>5 DEF GetByte, At
<1>6. CASE SendByte
  BY <1>6 DEF SendByte, At
<1>7. CASE PollTransmitter
  BY <1>7 DEF PollTransmitter, At
<1> QED
  BY <1>1, <1>2, <1>3, <1>4, <1>5, <1>6, <1>7 DEF LineNext

(* All of them.                                                            *)
LEMMA EarHolds ==
    ASSUME TInv, SInv, RInv, EarInv, [LineNext]_linevars
    PROVE  EarInv'
<1>1. CASE UNCHANGED linevars
  BY <1>1 DEF linevars, uartvars, EarInv, TxSlot, TxLeft, LeftOf, EdgeIn, Awaited
<1>2. CASE sw.pc = "poll_tx" /\ (Wait \/ PollTransmitter)
  <2>1. PICK access \in {None, ReadReg("sr")} :
           /\ Bus(access) /\ Runs(access) /\ ~IsWritten(access, "tdr")
           /\ sw'.pc # "poll_tx" => ~uart_regs.txact /\ tx.state = "IDLE"
    BY <1>2, WaitPolls
  <2> QED
    BY <1>2, <2>1, EarListensOn
<1>3. CASE LineNext /\ ~Done /\ ~(sw.pc = "poll_tx" /\ (Wait \/ PollTransmitter))
  <2>1. sw.pc # "poll_tx" /\ \E access : Bus(access)
    BY <1>3, OthersStandBy
  <2>2. PICK access : Bus(access)
    BY <2>1
  <2> QED
    BY <2>1, <2>2, EarStandsBy
<1>4. Done => UNCHANGED linevars
  BY DEF Done
<1> QED
  BY <1>1, <1>2, <1>3, <1>4

(* After reset nothing is on the way. *)
LEMMA EarBegins ==
    ASSUME LineInit
    PROVE  EarInv
<1>1. /\ tx.state = "IDLE" /\ tx.edges_counter = 0 /\ tx.bits_counter = 0
      /\ tx.sout = 1 /\ ~tx_data_valid
      /\ ear.left = 0 /\ ear.bits = <<>> /\ ~ear.error
  BY DEF LineInit, UartInit, Tx!Init, Ear!Init
<1>2. Awaited = 1
  BY <1>1 DEF Awaited
<1> QED
  BY <1>1, <1>2 DEF EarInv, InPhase

(* Every step of the line keeps what the driver has read in order.         *)
LEMMA ReadsHold ==
    ASSUME TInv, RInv, [LineNext]_linevars
    PROVE  RInv'
<1>1. CASE Wait
  BY <1>1, WaitReads
<1>2. CASE SetDivider
  BY <1>2, DividerReads
<1>3. CASE Enable
  BY <1>3, EnableReads
<1>4. CASE PollReceiver
  BY <1>4, PollReads
<1>5. CASE GetByte
  BY <1>5, GetByteReads
<1>6. CASE SendByte \/ PollTransmitter
  BY <1>6, PrintingReads
<1>7. CASE Done \/ UNCHANGED linevars
  BY <1>7, StutterReads DEF Done
<1> QED
  BY <1>1, <1>2, <1>3, <1>4, <1>5, <1>6, <1>7 DEF LineNext

-----------------------------------------------------------------------------
(* The text that a line with backspaces means.  Induction over the         *)
(* numbers, for sets of them.                                              *)
LEMMA InductionOverSets ==
    ASSUME NEW S, 0 \in S, \A n \in Nat : n \in S => n + 1 \in S
    PROVE  Nat \subseteq S
<1> SUFFICES ASSUME Nat \ S # {} PROVE FALSE
  OBVIOUS
<1>1. PICK x \in Nat \ S : \A y \in Nat \ S : ~ (<<y, x>> \in OpToRel(<, Nat))
  BY NatLessThanWellFounded, WFMin
<1>2. x # 0 /\ x - 1 \in Nat
  OBVIOUS
<1>3. x - 1 \in Nat \ S
  BY <1>2
<1>4. <<x - 1, x>> \in OpToRel(<, Nat)
  BY <1>2 DEF OpToRel
<1> QED
  BY <1>1, <1>3, <1>4

(* The text after each byte of a line. *)
IsText(line, text, n) ==
    text = [k \in 0 .. n |-> IF k = 0 THEN <<>> ELSE Edit(text[k - 1], line[k])]

(* There are such texts, however long the line is. *)
LEMMA TextsExist ==
    ASSUME NEW line, NEW n \in Nat
    PROVE  \E text : IsText(line, text, n)
<1> DEFINE S == {k \in Nat : \E text : IsText(line, text, k)}
<1>1. 0 \in S
  <2> DEFINE text == [k \in 0 .. 0 |-> <<>>]
  <2>1. IsText(line, text, 0)
    BY DEF IsText
  <2> QED
    BY <2>1
<1>2. ASSUME NEW k \in Nat, k \in S
      PROVE  k + 1 \in S
  <2>1. PICK text : IsText(line, text, k)
    BY <1>2
  <2> DEFINE next == [j \in 0 .. k + 1 |-> IF j = k + 1 THEN Edit(text[k], line[k + 1])
                                           ELSE text[j]]
  <2>2. ASSUME NEW j \in 0 .. k + 1
        PROVE  next[j] = IF j = 0 THEN <<>> ELSE Edit(next[j - 1], line[j])
    <3>1. CASE j = k + 1
      <4>1. next[j - 1] = text[k] /\ j # 0
        BY <3>1
      <4> QED
        BY <3>1, <4>1
    <3>2. CASE j # k + 1 /\ j # 0
      <4>1. next[j] = text[j] /\ next[j - 1] = text[j - 1] /\ j \in 0 .. k
        BY <3>2
      <4> QED
        BY <2>1, <3>2, <4>1 DEF IsText
    <3>3. CASE j = 0
      BY <2>1, <3>3 DEF IsText
    <3> QED
      BY <3>1, <3>2, <3>3
  <2>3. DOMAIN next = 0 .. k + 1 /\ next = [j \in 0 .. k + 1 |-> next[j]]
    OBVIOUS
  <2> HIDE DEF next
  <2>4. next = [j \in 0 .. k + 1 |-> IF j = 0 THEN <<>> ELSE Edit(next[j - 1], line[j])]
    BY <2>2, <2>3
  <2>5. IsText(line, next, k + 1)
    BY <2>4 DEF IsText
  <2> QED
    BY <2>5
<1> HIDE DEF S
<1>3. Nat \subseteq S
  BY <1>1, <1>2, InductionOverSets
<1> QED
  BY <1>3 DEF S

(* They do not depend on what comes later. *)
LEMMA SameTexts ==
    ASSUME NEW line, NEW other, NEW m \in Nat, NEW n \in Nat, n <= m,
           NEW text, NEW texts, IsText(line, text, m), IsText(other, texts, n),
           \A k \in 1 .. n : line[k] = other[k]
    PROVE  \A k \in 0 .. n : text[k] = texts[k]
<1> DEFINE S == {k \in Nat : k <= n => text[k] = texts[k]}
<1>1. 0 \in S
  BY DEF IsText
<1>2. ASSUME NEW k \in Nat, k \in S
      PROVE  k + 1 \in S
  <2>1. CASE k + 1 <= n
    <3>1. text[k] = texts[k] /\ k + 1 \in 1 .. n /\ k + 1 \in 0 .. n
          /\ k + 1 \in 0 .. m /\ k + 1 - 1 = k /\ k + 1 # 0
      BY <1>2, <2>1
    <3>2. text[k + 1] = Edit(text[k], line[k + 1])
      BY <3>1 DEF IsText
    <3>3. texts[k + 1] = Edit(texts[k], other[k + 1])
      BY <3>1 DEF IsText
    <3> QED
      BY <3>1, <3>2, <3>3
  <2> QED
    BY <2>1
<1> HIDE DEF S
<1>3. Nat \subseteq S
  BY <1>1, <1>2, InductionOverSets
<1>4. \A k \in 0 .. n : k \in S
  BY <1>3
<1> QED
  BY <1>4 DEF S

(* The text of a line is the last one. *)
LEMMA TextOfLine ==
    ASSUME NEW line, Len(line) \in Nat
    PROVE  \E text : IsText(line, text, Len(line)) /\ Edited(line) = text[Len(line)]
<1> DEFINE n == Len(line)
           text[k \in 0 .. n] == IF k = 0 THEN <<>> ELSE Edit(text[k - 1], line[k])
<1>1. \E other : other = [k \in 0 .. n |-> IF k = 0 THEN <<>> ELSE Edit(other[k - 1], line[k])]
  <2>1. \E other : IsText(line, other, n)
    BY TextsExist
  <2> QED
    BY <2>1, Zenon DEF IsText
<1>2. text = [k \in 0 .. n |-> IF k = 0 THEN <<>> ELSE Edit(text[k - 1], line[k])]
  BY <1>1, Zenon
<1>3. IsText(line, text, n)
  BY <1>2, Zenon DEF IsText
<1>4. Edited(line) = text[n]
  BY Zenon DEF Edited
<1> QED
  BY <1>3, <1>4, Zenon

(* So the text of a line is that of all but its last byte, edited by that. *)
LEMMA EditedStep ==
    ASSUME NEW V, NEW s \in Seq(V), NEW x \in V
    PROVE  Edited(Append(s, x)) = Edit(Edited(s), x)
<1> DEFINE n == Len(s)  longer == Append(s, x)
<1>1. /\ n \in Nat /\ Len(longer) = n + 1 /\ longer[n + 1] = x
      /\ \A k \in 1 .. n : longer[k] = s[k]
  OBVIOUS
<1> HIDE DEF longer
<1>2. PICK texts : IsText(s, texts, n) /\ Edited(s) = texts[n]
  BY <1>1, TextOfLine
<1>3. PICK text : IsText(longer, text, n + 1) /\ Edited(longer) = text[n + 1]
  <2>1. Len(longer) \in Nat
    BY <1>1
  <2>2. PICK text : IsText(longer, text, Len(longer))
                    /\ Edited(longer) = text[Len(longer)]
    BY <2>1, TextOfLine
  <2> QED
    BY <1>1, <2>2
<1>4. text[n] = texts[n]
  <2>1. n + 1 \in Nat /\ n <= n + 1 /\ n \in 0 .. n
    BY <1>1
  <2> HIDE DEF n
  <2>2. \A k \in 0 .. n : text[k] = texts[k]
    BY <1>1, <1>2, <1>3, <2>1, SameTexts
  <2> QED
    BY <2>1, <2>2
<1>5. text[n + 1] = Edit(text[n], longer[n + 1])
  <2>1. n + 1 \in 0 .. n + 1 /\ n + 1 # 0 /\ n + 1 - 1 = n
    BY <1>1
  <2> DEFINE m == n + 1
  <2>2. IsText(longer, text, m) /\ m \in 0 .. m /\ m # 0 /\ m - 1 = n
    BY <1>3, <2>1
  <2> HIDE DEF n, m
  <2>3. text[m] = Edit(text[m - 1], longer[m])
    BY <2>2 DEF IsText
  <2> QED
    BY <2>2, <2>3 DEF m
<1> QED
  BY <1>1, <1>2, <1>3, <1>4, <1>5 DEF longer

(* The text of no bytes. *)
LEMMA EditedNothing == Edited(<<>>) = <<>>
<1>1. Len(<<>>) = 0 /\ 0 \in Nat
  OBVIOUS
<1>2. PICK text : IsText(<<>>, text, 0) /\ Edited(<<>>) = text[0]
  BY <1>1, TextOfLine
<1> QED
  BY <1>2 DEF IsText

-----------------------------------------------------------------------------
(* The byte on its way to the ear.                                         *)
Carried(byte) ==
    /\ tx.state = "START" /\ tx.sout = 0 => tx.tx_buffer = byte
    /\ tx.state = "ACTIVE" =>
          /\ tx.sout = byte[tx.bits_counter]
          /\ \A k \in 0 .. DataBits - 2 - tx.bits_counter :
                tx.tx_buffer[k] = byte[tx.bits_counter + 1 + k]
    /\ \A k \in 1 .. Len(ear.bits) : ear.bits[k] = byte[k - 1]

(* When the ear takes a bit, the transmitter is at that bit.               *)
LEMMA EarTakesItsBit ==
    ASSUME TInv, EarInv, ear.left = 1,
           tx.state # "IDLE" => TxLeft \in 1 .. BitOf(Div)
    PROVE  /\ Awaited # DataBits + 1 =>
                 tx.state = "ACTIVE" /\ Len(ear.bits) = tx.bits_counter
           /\ Awaited = DataBits + 1 => tx.state \in {"STOP", "IDLE"}
<1>1. InPhase(tx.state, tx.sout, TxSlot, TxLeft, Awaited, ear.left, host.bit_time)
  BY DEF EarInv
<1>2. /\ tx.state \in {"IDLE", "START", "ACTIVE", "STOP"}
      /\ tx.bits_counter \in 0 .. DataBits - 1 /\ DataBits \in Nat
      /\ BitOf(Div) \in Nat /\ Len(ear.bits) \in Nat
  BY CyclesOfABit, LenProperties DEF TInv, UartTypeOK, Tx!TypeOK, Tx!States, EarOK
<1>3. ASSUME tx.state # "IDLE"
      PROVE  Awaited = TxSlot
  <2>1. ~Early(TxLeft + BitOf(Div) - ear.left, Awaited, host.bit_time)
    BY <1>2, <1>3 DEF Early
  <2> QED
    BY <1>1, <1>3, <2>1 DEF InPhase
<1>4. tx.state = "START" => TxSlot = 0
  BY DEF TxSlot
<1>5. tx.state = "ACTIVE" => TxSlot = tx.bits_counter + 1
  BY DEF TxSlot
<1>6. tx.state = "STOP" => TxSlot = DataBits + 1
  BY DEF TxSlot
<1>7. tx.state = "IDLE" => Awaited = DataBits + 1
  BY <1>1 DEF InPhase
<1>8. tx.state # "START"
  BY <1>2, <1>3, <1>4 DEF Awaited
<1>9. tx.state = "ACTIVE" => Len(ear.bits) = tx.bits_counter
  BY <1>2, <1>3, <1>5 DEF Awaited
<1>10. tx.state = "ACTIVE" => Awaited # DataBits + 1
  BY <1>2, <1>3, <1>5
<1> QED
  BY <1>2, <1>3, <1>6, <1>7, <1>8, <1>9, <1>10

(* The bits that the ear has are still those of the byte.                  *)
LEMMA BitsAreHeard ==
    ASSUME TInv, EarInv, NEW byte, Carried(byte),
           EarMoves(tx.sout, host.bit_time),
           tx.state # "IDLE" => TxLeft \in 1 .. BitOf(Div)
    PROVE  \A k \in 1 .. Len(ear'.bits) : ear'.bits[k] = byte[k - 1]
<1>1. ear.bits \in Seq(Bit) /\ tx.sout \in Bit /\ Len(ear.bits) \in Nat
  BY LenProperties DEF TInv, EarOK, UartTypeOK, Tx!TypeOK
<1>2. CASE ear'.bits = ear.bits
  BY <1>2 DEF Carried
<1>3. CASE ear'.bits = <<>>
  BY <1>3
<1>4. CASE ear.left = 1 /\ Awaited # DataBits + 1
           /\ ear'.bits = Append(ear.bits, tx.sout)
  <2>1. tx.sout = byte[Len(ear.bits)]
    BY <1>4, EarTakesItsBit DEF Carried
  <2>2. /\ Len(ear'.bits) = Len(ear.bits) + 1
        /\ \A k \in 1 .. Len(ear.bits) : ear'.bits[k] = ear.bits[k]
        /\ ear'.bits[Len(ear.bits) + 1] = tx.sout
    BY <1>1, <1>4
  <2>3. ASSUME NEW k \in 1 .. Len(ear'.bits)
        PROVE  ear'.bits[k] = byte[k - 1]
    <3>1. CASE k \in 1 .. Len(ear.bits)
      BY <2>2, <3>1 DEF Carried
    <3>2. CASE k = Len(ear.bits) + 1
      BY <1>1, <2>1, <2>2, <3>2
    <3> QED
      BY <1>1, <2>2, <3>1, <3>2
  <2> QED
    BY <2>3
<1> QED
  BY <1>2, <1>3, <1>4 DEF EarMoves

(* The byte goes on its way.                                               *)
LEMMA ByteGoesOn ==
    ASSUME TInv, EarInv, Carried(uart_regs.tdr),
           EarMoves(tx.sout, host.bit_time), TxLeft \in 1 .. BitOf(Div),
           \/ TxRests(tx_data_valid)
           \/ TxAccepts(tx_data_valid)
           \/ TxStays(uart_regs.tdr)
           \/ TxNextBit
           \/ TxStopBit
           \/ TxLeaves,
           uart_regs'.tdr = uart_regs.tdr
    PROVE  Carried(uart_regs.tdr)'
<1> DEFINE byte == uart_regs.tdr
<1>1. \A k \in 1 .. Len(ear'.bits) : ear'.bits[k] = byte[k - 1]
  BY BitsAreHeard
<1>2. /\ tx.state \in {"IDLE", "START", "ACTIVE", "STOP"}
      /\ tx.bits_counter \in 0 .. DataBits - 1 /\ DataBits \in Nat
      /\ tx.tx_buffer \in Tx!Byte
  BY DEF TInv, UartTypeOK, Tx!TypeOK, Tx!States
<1>3. /\ tx.state # "ACTIVE" => tx.bits_counter = 0
      /\ InPhase(tx.state, tx.sout, TxSlot, TxLeft, Awaited, ear.left, host.bit_time)
  BY DEF EarInv
<1>4. /\ tx.state = "START" /\ tx.sout = 0 => tx.tx_buffer = byte
      /\ tx.state = "ACTIVE" =>
            /\ tx.sout = byte[tx.bits_counter]
            /\ \A k \in 0 .. DataBits - 2 - tx.bits_counter :
                  tx.tx_buffer[k] = byte[tx.bits_counter + 1 + k]
  BY DEF Carried
<1>5. uart_regs'.tdr = byte
  OBVIOUS
<1> HIDE DEF byte
<1>6. SUFFICES /\ tx'.state = "START" /\ tx'.sout = 0 => tx'.tx_buffer = byte
               /\ tx'.state = "ACTIVE" =>
                     /\ tx'.sout = byte[tx'.bits_counter]
                     /\ \A k \in 0 .. DataBits - 2 - tx'.bits_counter :
                           tx'.tx_buffer[k] = byte[tx'.bits_counter + 1 + k]
  BY <1>1, <1>5 DEF Carried
<1>7. CASE TxRests(tx_data_valid)
  BY <1>7 DEF TxRests
<1>8. CASE TxAccepts(tx_data_valid)
  BY <1>3, <1>8 DEF TxAccepts, InPhase
<1>9. CASE TxStays(uart_regs.tdr)
  BY <1>4, <1>9 DEF TxStays, byte
<1>10. \A k \in 0 .. DataBits - 2 : Tx!Shifted(tx.tx_buffer)[k] = tx.tx_buffer[k + 1]
  <2> TAKE k \in 0 .. DataBits - 2
  <2>1. k \in 0 .. DataBits - 1 /\ k # DataBits - 1
    BY <1>2
  <2> QED
    BY <2>1 DEF Tx!Shifted
<1>11. CASE TxNextBit
  <2>1. /\ tx'.state = "ACTIVE" /\ tx'.sout = tx.tx_buffer[0]
        /\ tx'.tx_buffer = Tx!Shifted(tx.tx_buffer) /\ TxLeft = 1
    BY <1>11 DEF TxNextBit
  <2>2. CASE tx.state = "START"
    <3>1. tx.sout = 0
      <4>1. /\ BitOf(Div) \in Nat /\ PeriodOf(Div) \in Nat /\ PeriodOf(Div) >= 2
            /\ HalfOf(Div) \in Nat /\ HalfOf(Div) >= PeriodOf(Div)
            /\ BitOf(Div) - HalfOf(Div) >= PeriodOf(Div)
        BY CyclesOfABit
      <4> DEFINE b == BitOf(Div)  p == PeriodOf(Div)  h == HalfOf(Div)
      <4> HIDE DEF b, p, h
      <4>2. ~(1 > b - p)
        BY <4>1 DEF b, p, h
      <4> QED
        BY <1>3, <2>1, <2>2, <4>2 DEF InPhase, b, p
    <3>2. tx.tx_buffer = byte /\ tx'.bits_counter = 0
      BY <1>3, <1>4, <1>11, <2>2, <3>1 DEF TxNextBit
    <3>3. \A k \in 0 .. DataBits - 2 - 0 : tx'.tx_buffer[k] = byte[0 + 1 + k]
      BY <1>2, <1>10, <2>1, <3>2
    <3> QED
      BY <2>1, <3>2, <3>3
  <2>3. CASE tx.state = "ACTIVE" /\ tx.bits_counter # DataBits - 1
    <3>1. tx'.bits_counter = tx.bits_counter + 1
      BY <1>11, <2>3 DEF TxNextBit
    <3>2. tx.tx_buffer[0] = byte[tx.bits_counter + 1]
      <4>1. 0 \in 0 .. DataBits - 2 - tx.bits_counter
            /\ tx.bits_counter + 1 + 0 = tx.bits_counter + 1
        BY <1>2, <2>3
      <4> QED
        BY <1>4, <2>3, <4>1
    <3>3. ASSUME NEW k \in 0 .. DataBits - 2 - (tx.bits_counter + 1)
          PROVE  tx'.tx_buffer[k] = byte[tx.bits_counter + 1 + 1 + k]
      <4>1. k \in 0 .. DataBits - 2 /\ k + 1 \in 0 .. DataBits - 2 - tx.bits_counter
        BY <1>2
      <4>2. tx'.tx_buffer[k] = tx.tx_buffer[k + 1]
        BY <1>10, <2>1, <4>1
      <4>3. tx.tx_buffer[k + 1] = byte[tx.bits_counter + 1 + (k + 1)]
        BY <1>4, <2>3, <4>1
      <4>4. tx.bits_counter + 1 + (k + 1) = tx.bits_counter + 1 + 1 + k
        <5> DEFINE c == tx.bits_counter
        <5>1. c \in Int /\ k \in Int
          BY <1>2, <4>1
        <5> HIDE DEF c
        <5>2. c + 1 + (k + 1) = c + 1 + 1 + k
          BY <5>1
        <5> QED
          BY <5>2 DEF c
      <4> QED
        BY <4>2, <4>3, <4>4
    <3> QED
      BY <2>1, <3>1, <3>2, <3>3
  <2> QED
    BY <1>11, <2>2, <2>3 DEF TxNextBit
<1>12. CASE TxStopBit
  BY <1>12 DEF TxStopBit
<1>13. CASE TxLeaves
  BY <1>13 DEF TxLeaves
<1> QED
  BY <1>7, <1>8, <1>9, <1>11, <1>12, <1>13

-----------------------------------------------------------------------------
(* What the ear has heard.  A byte is on its way from the write of tdr to  *)
(* the end of its frame.                                                   *)
OnWay == IF tx_data_valid \/ tx.state = "START" \/ ear.left > 0 THEN 1 ELSE 0

(* While the driver waits for the transmitter both ends go on, and the     *)
(* byte is heard as it was written, once.                                  *)
LEMMA ByteIsHeard ==
    ASSUME TInv, SInv, RInv, EarInv, sw.pc = "poll_tx", NEW access, Runs(access),
           Bus(access), ~IsWritten(access, "tdr"),
           sw'.pc # "poll_tx" => ~uart_regs.txact /\ tx.state = "IDLE",
           Carried(uart_regs.tdr), tx_data_valid => tx.state = "IDLE"
    PROVE  /\ Carried(uart_regs.tdr)' /\ uart_regs'.tdr = uart_regs.tdr
           /\ \/ OnWay' = OnWay /\ heard' = heard
              \/ /\ OnWay = 1 /\ OnWay' = 0
                 /\ heard' = Append(heard, uart_regs.tdr)
<1>1. /\ EarInv' /\ TxLeft \in 1 .. BitOf(Div)
      /\ \/ TxRests(tx_data_valid)
         \/ TxAccepts(tx_data_valid)
         \/ TxStays(uart_regs.tdr)
         \/ TxNextBit
         \/ TxStopBit
         \/ TxLeaves
      /\ EarMoves(tx.sout, host.bit_time)
  BY EarListensOn
<1>2. uart_regs'.tdr = uart_regs.tdr
  <2>1. uart_regs'.tdr = Written(access, "tdr", "tdr")
    BY DEF Bus, UartCycle, RegsAfter
  <2> QED
    BY <2>1 DEF Written
<1>3. Carried(uart_regs.tdr)'
  BY <1>1, <1>2, ByteGoesOn
<1>4. ~tx_data_valid'
  BY TransmitterCycle
<1>5. /\ ear.left \in Nat /\ ear.bits \in Seq(Bit) /\ Len(ear.bits) \in Nat
      /\ host.bit_time \in Nat /\ host.bit_time > 0 /\ DataBits \in Nat
      /\ tx.state \in {"IDLE", "START", "ACTIVE", "STOP"}
  BY LenProperties DEF TInv, EarOK, HostOK, Host!Framed, Host!Hosts,
     Host!Duration, UartTypeOK, Tx!TypeOK, Tx!States
<1>6. /\ tx_data_valid => ear.left = 0
      /\ InPhase(tx.state, tx.sout, TxSlot, TxLeft, Awaited, ear.left, host.bit_time)
      /\ InPhase(tx'.state, tx'.sout, TxSlot', TxLeft', Awaited', ear'.left,
                 host'.bit_time)
  BY <1>1 DEF EarInv
<1>7. /\ heard' = IF Ear!Hears THEN Append(heard, Ear!Heard) ELSE heard
      /\ Ear!Hears <=> ear.left = 1 /\ Awaited = DataBits + 1
  <2>1. Len(ear.bits) = DataBits <=> Awaited = DataBits + 1
    BY <1>5 DEF Awaited
  <2> QED
    BY <2>1 DEF Bus, Listen, Ear!Hears
<1>8. CASE Ear!Hears
  <2>1. ear.left = 1 /\ Awaited = DataBits + 1 /\ ~tx_data_valid
    BY <1>6, <1>7, <1>8
  <2>2. tx.state \in {"STOP", "IDLE"}
    BY <1>1, <2>1, EarTakesItsBit
  <2>3. tx'.state # "START"
    BY <1>1, <2>1, <2>2 DEF TxRests, TxAccepts, TxStays, TxNextBit, TxStopBit,
       TxLeaves
  <2>4. ear'.left = 0
    BY <1>1, <2>1 DEF EarMoves
  <2>5. OnWay = 1 /\ OnWay' = 0
    BY <1>4, <2>1, <2>3, <2>4 DEF OnWay
  <2>6. Ear!Heard = uart_regs.tdr
    <3>1. uart_regs.tdr \in [0 .. DataBits - 1 -> Bit]
      BY DEF TInv, UartTypeOK, Tx!Byte
    <3>2. ASSUME NEW k \in 0 .. DataBits - 1
          PROVE  ear.bits[k + 1] = uart_regs.tdr[k]
      <4>1. k + 1 \in 1 .. Len(ear.bits) /\ k + 1 - 1 = k
        BY <1>5, <1>8 DEF Ear!Hears
      <4> QED
        BY <4>1 DEF Carried
    <3>3. Ear!Heard = [k \in 0 .. DataBits - 1 |-> uart_regs.tdr[k]]
      BY <3>2 DEF Ear!Heard
    <3> QED
      BY <3>1, <3>3
  <2> QED
    BY <1>2, <1>3, <1>7, <1>8, <2>5, <2>6
<1>9. CASE ~Ear!Hears
  <2>1. ear.left > 0 => ear'.left > 0
    BY <1>1, <1>5, <1>7, <1>9 DEF EarMoves
  <2>2. CASE OnWay = 1
    <3>1. tx_data_valid => tx'.state = "START"
      BY <1>1 DEF TxRests, TxAccepts, TxStays, TxNextBit, TxStopBit, TxLeaves
    <3>2. tx.state = "START" => tx'.state = "START" \/ ear'.left > 0
      <4>1. tx.state = "START" => tx'.state \in {"START", "ACTIVE"}
        BY <1>1 DEF TxRests, TxAccepts, TxStays, TxNextBit, TxStopBit, TxLeaves
      <4>2. tx'.state = "ACTIVE" => ear'.left > 0
        BY <1>6 DEF InPhase
      <4> QED
        BY <4>1, <4>2
    <3> QED
      BY <1>2, <1>3, <1>7, <1>9, <2>1, <2>2, <3>1, <3>2 DEF OnWay
  <2>3. CASE OnWay # 1
    <3>1. ~tx_data_valid /\ tx.state # "START" /\ ear.left = 0
      BY <1>5, <2>3 DEF OnWay
    <3>2. tx.state # "ACTIVE" /\ tx.sout = 1
      BY <1>5, <1>6, <3>1 DEF InPhase
    <3>3. ear'.left = 0
      BY <1>1, <3>1, <3>2 DEF EarMoves
    <3>4. tx'.state # "START"
      BY <1>1, <3>1, <3>2 DEF TxRests, TxAccepts, TxStays, TxNextBit, TxStopBit,
         TxLeaves
    <3> QED
      BY <1>2, <1>3, <1>4, <1>7, <1>9, <2>3, <3>3, <3>4 DEF OnWay
  <2> QED
    BY <2>2, <2>3
<1> QED
  BY <1>8, <1>9

(* What the driver has written and the ear has heard of the string.        *)
SentInv ==
    /\ heard \in Seq(Tx!Byte)
    /\ tx_data_valid => tx.state = "IDLE"
    /\ IF sw.pc \in Sends
       THEN /\ Len(heard) + OnWay = sw.i
            /\ \A k \in 1 .. Len(heard) : heard[k] = sw.text[k]
            /\ \A k \in 1 .. sw.i : sw.text[k] # Nul
       ELSE heard = <<>>
    /\ sw.pc = "poll_tx" =>
          /\ sw.i > 0 /\ uart_regs.tdr = sw.text[sw.i]
          /\ Carried(uart_regs.tdr)

(* What a string shows ends at its first NUL.                              *)
LEMMA ShownPart ==
    ASSUME NEW text \in Seq(Tx!Byte), NEW n \in Nat, n <= Len(text),
           \A j \in 1 .. n : text[j] # Nul, n < Len(text) => text[n + 1] = Nul
    PROVE  Shows(text) = SubSeq(text, 1, n)
<1> DEFINE Ends(k) == /\ \A j \in 1 .. k : text[j] # Nul
                      /\ k = Len(text) \/ text[k + 1] = Nul
           m == CHOOSE k \in 0 .. Len(text) : Ends(k)
<1>1. Len(text) \in Nat
  BY LenProperties
<1>2. n \in 0 .. Len(text) /\ Ends(n)
  BY <1>1
<1>3. m \in 0 .. Len(text) /\ Ends(m)
  <2> HIDE DEF Ends
  <2> QED
    BY <1>2
<1>4. Shows(text) = SubSeq(text, 1, m)
  BY Zenon DEF Shows
<1> HIDE DEF m
<1>5. m = n
  <2>1. m < n => FALSE
    <3>1. m < n => m + 1 \in 1 .. n /\ m # Len(text)
      BY <1>1, <1>2, <1>3
    <3> QED
      BY <1>2, <1>3, <3>1
  <2>2. n < m => FALSE
    <3>1. n < m => n + 1 \in 1 .. m /\ n # Len(text)
      BY <1>1, <1>2, <1>3
    <3> QED
      BY <1>2, <1>3, <3>1
  <2> QED
    BY <1>1, <1>3, <2>1, <2>2
<1> QED
  BY <1>4, <1>5

(* It hears the string, up to where its printing ends.                     *)
LEMMA AllIsHeard ==
    ASSUME TInv, SInv, EarInv, SentInv, sw.pc = "send", StringEnds
    PROVE  heard = Shows(sw.text)
<1>1. OnWay = 0
  <2>1. ear.left \in Nat
    BY DEF TInv, EarOK
  <2> QED
    BY <2>1 DEF OnWay, SInv, EarInv
<1>2. /\ heard \in Seq(Tx!Byte) /\ sw.text \in Seq(Tx!Byte)
      /\ Len(heard) + OnWay = sw.i
      /\ \A k \in 1 .. Len(heard) : heard[k] = sw.text[k]
      /\ \A k \in 1 .. sw.i : sw.text[k] # Nul
      /\ sw.i \in Nat /\ sw.i <= Len(sw.text)
  BY DEF SentInv, Sends, TInv, DriverOK, Drivers
<1> DEFINE text == sw.text  n == sw.i
<1>3. /\ Len(heard) \in Nat /\ Len(heard) = n /\ Len(text) \in Nat
      /\ n < Len(text) => text[n + 1] = Nul
  BY <1>1, <1>2, LenProperties DEF StringEnds
<1> HIDE DEF text, n
<1>4. Shows(text) = SubSeq(text, 1, n)
  BY <1>2, <1>3, ShownPart DEF text, n
<1>5. /\ SubSeq(text, 1, n) \in Seq(Tx!Byte) /\ Len(SubSeq(text, 1, n)) = n
      /\ \A k \in 1 .. n : SubSeq(text, 1, n)[k] = text[k]
  <2>1. text \in Seq(Tx!Byte) /\ n \in Nat /\ n <= Len(text)
    BY <1>2 DEF text, n
  <2>2. \A k \in 1 .. n : text[k] \in Tx!Byte
    BY <1>3, <2>1, ElementOfSeq
  <2> QED
    BY <1>3, <2>1, <2>2, SubSeqProperties
<1> DEFINE part == SubSeq(text, 1, n)
<1> HIDE DEF part
<1>6. heard = part
  <2>1. /\ part \in Seq(Tx!Byte) /\ heard \in Seq(Tx!Byte) /\ Len(heard) = Len(part)
        /\ \A k \in 1 .. Len(heard) : heard[k] = part[k]
    BY <1>2, <1>3, <1>5 DEF part, text, n
  <2> QED
    BY <2>1, SeqEqual
<1> QED
  BY <1>4, <1>6 DEF part, text

(* Waiting for the transmitter.                                            *)
LEMMA WaitSends ==
    ASSUME TInv, SInv, RInv, EarInv, SentInv, SInv', EarInv',
           sw.pc = "poll_tx", Wait \/ PollTransmitter
    PROVE  SentInv'
<1>1. PICK access \in {None, ReadReg("sr")} :
         /\ Bus(access) /\ Runs(access) /\ ~IsWritten(access, "tdr")
         /\ sw'.pc # "poll_tx" => ~uart_regs.txact /\ tx.state = "IDLE"
  BY WaitPolls
<1>2. /\ heard \in Seq(Tx!Byte) /\ Len(heard) \in Nat
      /\ tx_data_valid => tx.state = "IDLE"
      /\ Len(heard) + OnWay = sw.i
      /\ \A k \in 1 .. Len(heard) : heard[k] = sw.text[k]
      /\ sw.i > 0 /\ uart_regs.tdr = sw.text[sw.i]
      /\ Carried(uart_regs.tdr)
      /\ \A k \in 1 .. sw.i : sw.text[k] # Nul
  BY LenProperties DEF SentInv, Sends
<1>3. /\ Carried(uart_regs.tdr)' /\ uart_regs'.tdr = uart_regs.tdr
      /\ \/ OnWay' = OnWay /\ heard' = heard
         \/ /\ OnWay = 1 /\ OnWay' = 0
            /\ heard' = Append(heard, uart_regs.tdr)
  BY <1>1, <1>2, ByteIsHeard
<1>4. sw'.i = sw.i /\ sw'.text = sw.text /\ sw'.pc \in Sends
  <2>1. CASE Wait
    BY <2>1 DEF Wait, TInv, DriverOK, Drivers, Sends
  <2>2. CASE PollTransmitter
    <3> DEFINE pc == IF uart_regs.txact THEN "poll_tx" ELSE "send"
    <3>1. sw' = GoTo(pc) /\ pc \in Places /\ pc \in Sends
      BY <2>2 DEF PollTransmitter, Places, Sends
    <3> HIDE DEF pc
    <3> QED
      BY <3>1, GoToFields DEF TInv
  <2> QED
    BY <2>1, <2>2
<1>5. ~tx_data_valid'
  BY <1>1, TransmitterCycle
<1> DEFINE byte == uart_regs.tdr
<1>6. byte \in Tx!Byte
  BY DEF TInv, UartTypeOK
<1>7. /\ heard' \in Seq(Tx!Byte) /\ Len(heard') + OnWay' = sw.i
      /\ \A k \in 1 .. Len(heard') : heard'[k] = sw.text[k]
  <2>1. CASE OnWay' = OnWay /\ heard' = heard
    BY <1>2, <2>1
  <2>2. CASE OnWay = 1 /\ OnWay' = 0 /\ heard' = Append(heard, byte)
    <3> DEFINE n == Len(heard)
    <3>1. n \in Nat /\ n + 1 = sw.i /\ byte = sw.text[sw.i]
      BY <1>2, <2>2
    <3>2. /\ heard' \in Seq(Tx!Byte) /\ Len(heard') = n + 1
          /\ \A k \in 1 .. n : heard'[k] = heard[k]
          /\ heard'[n + 1] = byte
      <4> HIDE DEF byte
      <4> QED
        BY <1>2, <1>6, <2>2, AppendProperties
    <3>3. ASSUME NEW k \in 1 .. Len(heard')
          PROVE  heard'[k] = sw.text[k]
      <4>1. k \in 1 .. n \/ k = n + 1
        BY <3>1, <3>2
      <4> QED
        BY <1>2, <3>1, <3>2, <4>1
    <3> QED
      BY <2>2, <3>1, <3>2, <3>3
  <2> QED
    BY <1>3, <2>1, <2>2
<1>8. sw'.pc = "poll_tx" => sw'.i > 0 /\ uart_regs'.tdr = sw'.text[sw'.i]
  BY <1>2, <1>3, <1>4
<1> QED
  BY <1>2, <1>3, <1>4, <1>5, <1>7, <1>8 DEF SentInv

(* The write of tdr puts the next byte on its way. *)
LEMMA SendSends ==
    ASSUME TInv, SInv, RInv, EarInv, SentInv, SendByte
    PROVE  SentInv'
<1> DEFINE byte   == sw.text[sw.i + 1]
           access == WriteReg("tdr", [tdr |-> byte])
<1>1. Bus(access) /\ sw.pc = "send"
  BY DEF SendByte, At
<1>2. /\ sw'.pc = "poll_tx" /\ sw'.i = sw.i + 1 /\ sw'.text = sw.text
      /\ sw.i \in Nat
  <2>1. GoTo("poll_tx") \in Drivers /\ GoTo("poll_tx").pc = "poll_tx"
        /\ GoTo("poll_tx").i = sw.i /\ GoTo("poll_tx").text = sw.text
    BY GoToFields DEF TInv, Places
  <2>2. sw' = [GoTo("poll_tx") EXCEPT !.i = @ + 1]
    BY DEF SendByte
  <2> QED
    BY <2>1, <2>2 DEF Drivers
<1>3. uart_regs'.tdr = byte /\ tx_data_valid'
  BY <1>1 DEF Bus, UartCycle, RegsAfter, Written, IsWritten, WriteReg
<1> HIDE DEF access
<1>4. tx' = tx /\ ear'.left = 0 /\ ear'.bits = ear.bits /\ heard' = heard
  BY <1>1, EarStandsBy
<1>5. tx.state = "IDLE" /\ ~tx_data_valid /\ ear.left = 0
  <2>1. ear.left \in Nat
    BY DEF TInv, EarOK
  <2> QED
    BY <1>1, <2>1 DEF SInv, EarInv
<1>6. ear.bits = <<>>
  <2>1. Awaited = 1
    BY <1>5 DEF EarInv, InPhase
  <2>2. ear.bits \in Seq(Bit)
    BY DEF TInv, EarOK
  <2>3. Len(ear.bits) = 0
    BY <2>1, <2>2, LenProperties DEF Awaited
  <2> QED
    BY <2>2, <2>3, EmptySeq
<1>7. OnWay = 0 /\ OnWay' = 1
  BY <1>3, <1>4, <1>5 DEF OnWay
<1>8. Carried(uart_regs.tdr)'
  BY <1>4, <1>5, <1>6 DEF Carried
<1>9. /\ heard \in Seq(Tx!Byte) /\ Len(heard) \in Nat
      /\ Len(heard) + OnWay = sw.i
      /\ \A k \in 1 .. Len(heard) : heard[k] = sw.text[k]
  BY <1>1, LenProperties DEF SentInv, Sends
<1>10. Len(heard') + OnWay' = sw'.i /\ sw'.i > 0
  BY <1>2, <1>4, <1>7, <1>9
<1>11. uart_regs'.tdr = sw'.text[sw'.i]
  BY <1>2, <1>3
<1>12. \A k \in 1 .. sw'.i : sw'.text[k] # Nul
  <2>1. byte # Nul /\ \A k \in 1 .. sw.i : sw.text[k] # Nul
    BY <1>1, Zenon DEF SendByte, StringEnds, SentInv, Sends, byte
  <2> QED
    BY <1>2, <2>1 DEF byte
<1> QED
  BY <1>2, <1>4, <1>5, <1>8, <1>9, <1>10, <1>11, <1>12 DEF SentInv, Sends

(* The other steps.                                                        *)
LEMMA ReadsSend ==
    ASSUME TInv, SInv, RInv, EarInv, SentInv, sw.pc # "poll_tx",
           NEW access, Bus(access), ~IsWritten(access, "tdr"),
           \/ /\ sw.pc \in Sends /\ sw'.pc = sw.pc
              /\ sw'.i = sw.i /\ sw'.text = sw.text
           \/ sw.pc \notin Sends /\ sw'.pc \notin Sends
           \/ sw.pc \notin Sends /\ sw'.pc = "send" /\ sw'.i = 0
    PROVE  SentInv'
<1>1. /\ tx' = tx /\ ear'.left = 0 /\ heard' = heard
  BY EarStandsBy
<1>2. tx.state = "IDLE" /\ ~tx_data_valid /\ ear.left = 0 /\ ~tx_data_valid'
  <2>1. ear.left \in Nat
    BY DEF TInv, EarOK
  <2> QED
    BY <2>1, TransmitterCycle DEF SInv, EarInv
<1>3. OnWay = 0 /\ OnWay' = 0
  BY <1>1, <1>2 DEF OnWay
<1>4. CASE sw.pc \in Sends
  BY <1>1, <1>2, <1>3, <1>4 DEF SentInv, Sends
<1>5. CASE sw.pc \notin Sends /\ sw'.pc \notin Sends
  BY <1>1, <1>2, <1>3, <1>5 DEF SentInv, Sends
<1>6. CASE sw.pc \notin Sends /\ sw'.pc = "send"
  <2>1. heard' = <<>> /\ Len(<<>>) = 0 /\ sw'.i = 0
    BY <1>1, <1>6 DEF SentInv, Sends
  <2> QED
    BY <1>1, <1>2, <1>3, <1>6, <2>1, EmptySeq DEF SentInv, Sends
<1> QED
  BY <1>4, <1>5, <1>6

-----------------------------------------------------------------------------
(* The buffer holds the text of what was read.                             *)
LEMMA TextAfter ==
    ASSUME NEW V, NEW s \in Seq(V), NEW i \in Nat, i <= Len(s),
           NEW t \in Seq(V), i + 1 <= Len(t), \A k \in 1 .. i : t[k] = s[k]
    PROVE  /\ SubSeq(t, 1, i + 1) = Append(SubSeq(s, 1, i), t[i + 1])
           /\ i = 0 => SubSeq(s, 1, i) = <<>> /\ SubSeq(t, 1, 0) = <<>>
           /\ i > 0 => SubSeq(s, 1, i) # <<>>
                       /\ SubSeq(t, 1, i - 1) = Front(SubSeq(s, 1, i))
<1> DEFINE text == SubSeq(s, 1, i)  longer == SubSeq(t, 1, i + 1)
           shorter == SubSeq(t, 1, i - 1)
<1>1. Len(s) \in Nat /\ Len(t) \in Nat
  BY LenProperties
<1>2. /\ text \in Seq(V) /\ Len(text) = i
      /\ \A k \in 1 .. i : text[k] = s[k]
  <2>1. \A k \in 1 .. i : s[k] \in V
    BY <1>1, ElementOfSeq
  <2> QED
    BY <1>1, <2>1, SubSeqProperties
<1>3. /\ longer \in Seq(V) /\ Len(longer) = i + 1
      /\ \A k \in 1 .. i + 1 : longer[k] = t[k]
  <2>1. \A k \in 1 .. i + 1 : t[k] \in V
    BY <1>1, ElementOfSeq
  <2> DEFINE m == i + 1
  <2>2. m \in Int /\ m >= 1 /\ \A k \in 1 .. m : t[k] \in V
    BY <2>1
  <2> HIDE DEF m
  <2>3. /\ SubSeq(t, 1, m) \in Seq(V) /\ Len(SubSeq(t, 1, m)) = m
        /\ \A k \in 1 .. m : SubSeq(t, 1, m)[k] = t[k]
    BY <2>2, SubSeqProperties
  <2> QED
    BY <2>3 DEF m
<1>4. longer = Append(text, t[i + 1])
  <2> DEFINE x == t[i + 1]
  <2>1. x \in V
    BY <1>1, ElementOfSeq
  <2>2. longer[i + 1] = x
    BY <1>3
  <2> HIDE DEF text, longer, x
  <2>3. /\ Append(text, x) \in Seq(V) /\ Len(Append(text, x)) = i + 1
        /\ \A k \in 1 .. i : Append(text, x)[k] = text[k]
        /\ Append(text, x)[i + 1] = x
    BY <1>2, <2>1, AppendProperties
  <2>4. ASSUME NEW k \in 1 .. i + 1
        PROVE  longer[k] = Append(text, x)[k]
    <3>1. k \in 1 .. i \/ k = i + 1
      OBVIOUS
    <3> QED
      BY <1>2, <1>3, <2>2, <2>3, <3>1
  <2>5. longer = Append(text, x)
    BY <1>3, <2>3, <2>4, SeqEqual
  <2> QED
    BY <2>5 DEF x
<1>5. ASSUME i = 0
      PROVE  text = <<>> /\ SubSeq(t, 1, 0) = <<>>
  BY <1>5, SubSeqEmpty
<1>6. ASSUME i > 0
      PROVE  text # <<>> /\ shorter = Front(text)
  <2>1. text # <<>>
    BY <1>2, <1>6, EmptySeq
  <2> DEFINE n == i - 1
  <2>2. n \in Nat /\ n + 1 = i /\ Len(text) - 1 = n
    BY <1>2, <1>6
  <2>3. \A k \in 1 .. n : t[k] \in V /\ text[k] \in V /\ t[k] = text[k]
    BY <1>1, <1>2, <2>2, ElementOfSeq
  <2>4. shorter = SubSeq(t, 1, n) /\ Front(text) = SubSeq(text, 1, n)
    BY <2>2 DEF Front
  <2> HIDE DEF n, text, shorter
  <2>5. /\ SubSeq(t, 1, n) \in Seq(V) /\ Len(SubSeq(t, 1, n)) = n
        /\ \A k \in 1 .. n : SubSeq(t, 1, n)[k] = t[k]
    BY <2>2, <2>3, SubSeqProperties
  <2>6. /\ SubSeq(text, 1, n) \in Seq(V) /\ Len(SubSeq(text, 1, n)) = n
        /\ \A k \in 1 .. n : SubSeq(text, 1, n)[k] = text[k]
    BY <2>2, <2>3, SubSeqProperties
  <2>7. SubSeq(t, 1, n) = SubSeq(text, 1, n)
    BY <2>3, <2>5, <2>6, SeqEqual
  <2> QED
    BY <2>1, <2>4, <2>7
<1> QED
  BY <1>4, <1>5, <1>6

(* A byte that is placed edits the text in the buffer; a newline makes it  *)
(* the string to send.                                                     *)
LEMMA PlacingEdits ==
    ASSUME DriverOK, NEW byte \in Tx!Byte, sw.pc \in Reading,
           sw' = Placed(byte)
    PROVE  /\ byte = Newline =>
                 /\ sw'.pc = "send" /\ sw'.i = 0
                 /\ sw'.text = SubSeq(sw.dest, 1, sw.i)
           /\ byte # Newline =>
                 /\ sw'.pc \in {"poll_rx", "full"}
                 /\ SubSeq(sw'.dest, 1, sw'.i)
                        = Edit(SubSeq(sw.dest, 1, sw.i), byte)
<1> DEFINE next == IF byte = Backspace THEN IF sw.i > 0 THEN sw.i - 1 ELSE 0
                                       ELSE sw.i + 1
           dest == IF sw.i < Len(sw.dest) THEN ReplaceAt(sw.dest, sw.i + 1, byte)
                                          ELSE Append(sw.dest, byte)
<1>1. /\ sw.i \in Nat /\ sw.i <= Len(sw.dest)
      /\ sw.dest \in Seq(Tx!Byte) /\ Len(sw.dest) \in Nat
  BY LenProperties DEF DriverOK, Drivers
<1>2. CASE byte = Newline
  <2> DEFINE text == SubSeq(sw.dest, 1, sw.i)
  <2>1. sw' = [GoTo("send") EXCEPT !.text = text, !.i = 0]
    BY <1>2 DEF Placed
  <2> HIDE DEF text
  <2>2. sw'.pc = "send" /\ sw'.i = 0 /\ sw'.text = text
    BY <2>1, GoToFields DEF Drivers, Places
  <2> QED
    BY <1>2, <2>2 DEF text
<1>3. CASE byte # Newline
  <2>1. /\ dest \in Seq(Tx!Byte) /\ sw.i + 1 <= Len(dest)
        /\ dest[sw.i + 1] = byte /\ \A k \in 1 .. sw.i : dest[k] = sw.dest[k]
    <3>1. CASE sw.i < Len(sw.dest)
      <4> DEFINE m == sw.i + 1
      <4>1. m \in 1 .. Len(sw.dest) /\ \A k \in 1 .. sw.i : k \in 1 .. Len(sw.dest) /\ k # m
        BY <1>1, <3>1
      <4>2. dest = [sw.dest EXCEPT ![m] = byte]
        BY <3>1 DEF ReplaceAt
      <4> HIDE DEF m, dest
      <4>3. dest \in Seq(Tx!Byte) /\ Len(dest) = Len(sw.dest)
            /\ \A k \in 1 .. Len(sw.dest) : dest[k] = IF k = m THEN byte ELSE sw.dest[k]
        BY <1>1, <4>1, <4>2, ExceptSeq
      <4>4. dest[m] = byte /\ m <= Len(dest)
        BY <1>1, <4>1, <4>3
      <4> QED
        BY <4>1, <4>3, <4>4 DEF m
    <3>2. CASE ~(sw.i < Len(sw.dest))
      <4>1. sw.i = Len(sw.dest) /\ dest = Append(sw.dest, byte)
        BY <1>1, <3>2
      <4> HIDE DEF dest
      <4> QED
        BY <1>1, <4>1, AppendProperties
    <3> QED
      BY <3>1, <3>2
  <2>2. sw' = [GoTo(IF next < BufferSize THEN "poll_rx" ELSE "full")
                  EXCEPT !.dest = dest, !.i = next]
    BY <1>3 DEF Placed, GoTo
  <2> HIDE DEF next, dest
  <2>3. /\ sw'.pc = IF next < BufferSize THEN "poll_rx" ELSE "full"
        /\ sw'.dest = dest /\ sw'.i = next
    BY <2>2, GoToFields DEF Drivers, Places
  <2> DEFINE i == sw.i  s == sw.dest
  <2>4. i \in Nat /\ i <= Len(s) /\ s \in Seq(Tx!Byte)
        /\ i + 1 <= Len(dest) /\ dest[i + 1] = byte
        /\ \A k \in 1 .. i : dest[k] = s[k]
    BY <1>1, <2>1
  <2>5. next = IF byte = Backspace THEN IF i > 0 THEN i - 1 ELSE 0 ELSE i + 1
    BY DEF next
  <2> HIDE DEF i, s
  <2>6. /\ SubSeq(dest, 1, i + 1) = Append(SubSeq(s, 1, i), dest[i + 1])
        /\ i = 0 => SubSeq(s, 1, i) = <<>> /\ SubSeq(dest, 1, 0) = <<>>
        /\ i > 0 => SubSeq(s, 1, i) # <<>>
                    /\ SubSeq(dest, 1, i - 1) = Front(SubSeq(s, 1, i))
    <3> DEFINE V == Tx!Byte
    <3>1. dest \in Seq(V) /\ s \in Seq(V) /\ i \in Nat
      BY <2>1, <2>4
    <3> HIDE DEF V
    <3> QED
      BY <2>4, <3>1, TextAfter, ZenonT(60)
  <2>7. SubSeq(dest, 1, next) = Edit(SubSeq(s, 1, i), byte)
    <3>1. CASE byte # Backspace
      BY <2>4, <2>5, <2>6, <3>1 DEF Edit
    <3>2. CASE byte = Backspace /\ i = 0
      BY <2>5, <2>6, <3>2 DEF Edit
    <3>3. CASE byte = Backspace /\ i # 0
      <4>1. i > 0 /\ next = i - 1
        BY <2>4, <2>5, <3>3
      <4> QED
        BY <2>6, <3>3, <4>1 DEF Edit
    <3> QED
      BY <3>1, <3>2, <3>3
  <2> QED
    BY <1>3, <2>3, <2>7 DEF i, s
<1> QED
  BY <1>2, <1>3

(* The buffer and the string.                                              *)
EditInv ==
    /\ host.line \in Lines
    /\ sw.pc \in Reading => SubSeq(sw.dest, 1, sw.i) = Edited(got)
    /\ sw.pc \in Sends => sw.text = Edited(Front(host.line))

(* The byte that the driver reads is the next one of the line; a newline   *)
(* is the last.                                                            *)
LEMMA ByteIsNext ==
    ASSUME TInv, RInv, host.line \in Lines, sw.pc = "get"
    PROVE  uart_regs.rdr = Newline => got = Front(host.line)
<1> DEFINE line == host.line  n == Len(got)  byte == uart_regs.rdr
<1>1. /\ n + Waiting = RxTook(host, Div) /\ uart_regs.rxne
      /\ byte = line[n + 1]
      /\ n \in Nat /\ got \in Seq(Tx!Byte) /\ \A k \in 1 .. n : got[k] = line[k]
      /\ line \in Seq(Tx!Byte) /\ Len(line) \in Nat
  BY LenProperties DEF RInv, ReadInv, GotInv, TInv, HostOK, Host!Framed, Host!Hosts
<1>2. n + 1 = RxTook(host, Div)
  BY <1>1 DEF Waiting
<1>3. n + 1 <= Len(line)
  BY <1>2, TookFromTheLine DEF RInv
<1> HIDE DEF line, n, byte
<1>4. line \in Lines
  BY DEF line
<1>5. ASSUME byte = Newline
      PROVE  got = Front(line)
  <2>1. n + 1 = Len(line)
    <3> DEFINE m == n + 1
    <3>1. m \in 1 .. Len(line) /\ line[m] = Newline
      BY <1>1, <1>3, <1>5
    <3> HIDE DEF m
    <3>2. m = Len(line)
      BY <1>4, <3>1, LineEnding
    <3> QED
      BY <3>2 DEF m
  <2>2. Len(line) - 1 = n /\ \A k \in 1 .. n : k \in 1 .. Len(line)
    BY <1>1, <2>1
  <2>3. \A k \in 1 .. n : line[k] \in Tx!Byte
    BY <1>1, <2>2, ElementOfSeq
  <2>4. /\ SubSeq(line, 1, n) \in Seq(Tx!Byte) /\ Len(SubSeq(line, 1, n)) = n
        /\ \A k \in 1 .. n : SubSeq(line, 1, n)[k] = line[k]
    BY <1>1, <2>3, SubSeqProperties
  <2>5. got = SubSeq(line, 1, n)
    BY <1>1, <2>4, SeqEqual DEF n
  <2> QED
    BY <2>2, <2>5 DEF Front
<1> QED
  BY <1>5 DEF line, byte

(* The read of a byte.                                                     *)
LEMMA GetByteEdits ==
    ASSUME TInv, SInv, RInv, EarInv, SentInv, EditInv, GetByte
    PROVE  SentInv' /\ EditInv'
<1> DEFINE access == ReadReg("rdr")  byte == uart_regs.rdr
<1>1. /\ Bus(access) /\ sw.pc = "get" /\ sw' = Placed(byte)
      /\ got' = Append(got, byte) /\ byte \in Tx!Byte /\ sw.pc \in Reading
      /\ sw.pc \notin Sends /\ DriverOK
  BY DEF GetByte, At, TInv, UartTypeOK, Tx!Byte, Rx!Byte, Reading, Sends
<1>2. ~IsWritten(access, "tdr")
  BY DEF ReadReg, IsWritten
<1>3. /\ byte = Newline =>
             /\ sw'.pc = "send" /\ sw'.i = 0
             /\ sw'.text = SubSeq(sw.dest, 1, sw.i)
      /\ byte # Newline =>
             /\ sw'.pc \in {"poll_rx", "full"}
             /\ SubSeq(sw'.dest, 1, sw'.i)
                    = Edit(SubSeq(sw.dest, 1, sw.i), byte)
  <2> HIDE DEF byte
  <2> QED
    BY <1>1, PlacingEdits
<1>4. host'.line = host.line /\ host.line \in Lines
  BY <1>1, HostTurns DEF RInv, EditInv, LineTurns
<1>5. SubSeq(sw.dest, 1, sw.i) = Edited(got) /\ got \in Seq(Tx!Byte)
  BY <1>1 DEF EditInv, RInv, GotInv
<1>6. byte = Newline => got = Front(host.line)
  BY <1>1, <1>4, ByteIsNext
<1> HIDE DEF access, byte
<1>7. SentInv'
  BY <1>1, <1>2, <1>3, ReadsSend DEF Sends
<1>8. Edited(got') = Edit(Edited(got), byte)
  BY <1>1, <1>5, EditedStep
<1>9. EditInv'
  <2>1. CASE byte = Newline
    BY <1>3, <1>4, <1>5, <1>6, <2>1 DEF EditInv, Reading
  <2>2. CASE byte # Newline
    BY <1>3, <1>4, <1>5, <1>8, <2>2 DEF EditInv, Sends
  <2> QED
    BY <2>1, <2>2
<1> QED
  BY <1>7, <1>9

(* The steps that neither read nor write a byte leave the buffer alone.    *)
LEMMA OthersEdit ==
    ASSUME TInv, RInv, EditInv, NEW access, Bus(access), got' = got,
           sw'.dest = sw.dest, sw'.text = sw.text,
           sw'.pc \in Reading => sw.pc \in Reading /\ sw'.i = sw.i,
           sw'.pc \in Sends => sw.pc \in Sends
    PROVE  EditInv'
<1>1. host'.line = host.line
  BY HostTurns DEF RInv, LineTurns
<1> QED
  BY <1>1 DEF EditInv

(* Every step keeps what was heard true to what was read.                  *)
LEMMA LineHolds ==
    ASSUME TInv, SInv, RInv, EarInv, SentInv, EditInv, SInv', EarInv',
           [LineNext]_linevars
    PROVE  SentInv' /\ EditInv'
<1>1. CASE UNCHANGED linevars
  <2>1. SentInv'
    BY <1>1 DEF linevars, uartvars, SentInv, OnWay, Carried
  <2>2. EditInv'
    BY <1>1 DEF linevars, uartvars, EditInv
  <2> QED
    BY <2>1, <2>2
<1>2. DriverOK
  BY DEF TInv
<1>3. CASE Wait
  <2>1. /\ Bus(None) /\ got' = got
        /\ sw'.dest = sw.dest /\ sw'.text = sw.text /\ sw'.i = sw.i
        /\ sw'.pc = sw.pc
    BY <1>2, <1>3 DEF Wait, DriverOK, Drivers
  <2>2. ~IsWritten(None, "tdr")
    BY DEF None, IsWritten
  <2>3. EditInv'
    BY <2>1, OthersEdit
  <2>4. CASE sw.pc = "poll_tx"
    BY <1>3, <2>3, <2>4, WaitSends
  <2>5. CASE sw.pc # "poll_tx"
    BY <2>1, <2>2, <2>3, <2>5, ReadsSend
  <2> QED
    BY <2>4, <2>5
<1>4. CASE SetDivider
  <2>1. /\ Bus(WriteReg("cdr", [cdr |-> Div])) /\ got' = got
        /\ sw.pc = "divider" /\ sw' = GoTo("enable")
    BY <1>4 DEF SetDivider, At
  <2>2. ~IsWritten(WriteReg("cdr", [cdr |-> Div]), "tdr")
    BY DEF WriteReg, IsWritten
  <2>3. /\ sw'.dest = sw.dest /\ sw'.text = sw.text /\ sw'.i = sw.i
        /\ sw'.pc = "enable"
    BY <1>2, <2>1, GoToFields DEF Places
  <2>4. EditInv'
    BY <2>1, <2>3, OthersEdit DEF Reading, Sends
  <2> QED
    BY <2>1, <2>2, <2>3, <2>4, ReadsSend DEF Sends
<1>5. CASE Enable
  <2>1. /\ Bus(WriteReg("cr", [en |-> TRUE])) /\ got' = got
        /\ sw.pc = "enable" /\ sw' = GoTo("poll_rx")
    BY <1>5 DEF Enable, At
  <2>2. ~IsWritten(WriteReg("cr", [en |-> TRUE]), "tdr")
    BY DEF WriteReg, IsWritten
  <2>3. /\ sw'.dest = sw.dest /\ sw'.text = sw.text /\ sw'.i = sw.i
        /\ sw'.pc = "poll_rx"
    BY <1>2, <2>1, GoToFields DEF Places
  <2>4. EditInv'
    BY <2>1, <2>3, OthersEdit DEF Reading, Sends
  <2> QED
    BY <2>1, <2>2, <2>3, <2>4, ReadsSend DEF Sends
<1>6. CASE PollReceiver
  <2> DEFINE pc == IF uart_regs.rxne THEN "get" ELSE "poll_rx"
  <2>1. /\ Bus(ReadReg("sr")) /\ got' = got
        /\ sw.pc = "poll_rx" /\ sw' = GoTo(pc)
        /\ pc \in {"get", "poll_rx"}
    BY <1>6 DEF PollReceiver, At
  <2> HIDE DEF pc
  <2>2. ~IsWritten(ReadReg("sr"), "tdr")
    BY DEF ReadReg, IsWritten
  <2>3. /\ sw'.dest = sw.dest /\ sw'.text = sw.text /\ sw'.i = sw.i
        /\ sw'.pc = pc
    BY <1>2, <2>1, GoToFields DEF Places
  <2>4. EditInv'
    BY <2>1, <2>3, OthersEdit DEF Reading, Sends
  <2> QED
    BY <2>1, <2>2, <2>3, <2>4, ReadsSend DEF Sends
<1>7. CASE GetByte
  BY <1>7, GetByteEdits
<1>8. CASE SendByte
  <2>1. /\ Bus(WriteReg("tdr", [tdr |-> sw.text[sw.i + 1]])) /\ got' = got
        /\ sw.pc = "send" /\ sw' = [GoTo("poll_tx") EXCEPT !.i = @ + 1]
    BY <1>8 DEF SendByte, At
  <2>2. /\ sw'.dest = sw.dest /\ sw'.text = sw.text /\ sw'.pc = "poll_tx"
    <3>1. GoTo("poll_tx") \in Drivers /\ GoTo("poll_tx").pc = "poll_tx"
          /\ GoTo("poll_tx").dest = sw.dest /\ GoTo("poll_tx").text = sw.text
      BY <1>2, GoToFields DEF Places
    <3> QED
      BY <2>1, <3>1 DEF Drivers
  <2>3. EditInv'
    BY <2>1, <2>2, OthersEdit DEF Reading, Sends
  <2> QED
    BY <1>8, <2>3, SendSends
<1>9. CASE PollTransmitter
  <2> DEFINE pc == IF uart_regs.txact THEN "poll_tx" ELSE "send"
  <2>1. /\ Bus(ReadReg("sr")) /\ got' = got
        /\ sw.pc = "poll_tx" /\ sw' = GoTo(pc)
        /\ pc \in {"poll_tx", "send"}
    BY <1>9 DEF PollTransmitter, At
  <2> HIDE DEF pc
  <2>2. /\ sw'.dest = sw.dest /\ sw'.text = sw.text /\ sw'.pc = pc
    BY <1>2, <2>1, GoToFields DEF Places
  <2>3. EditInv'
    BY <2>1, <2>2, OthersEdit DEF Reading, Sends
  <2> QED
    BY <1>9, <2>1, <2>3, WaitSends
<1>10. CASE Done
  BY <1>1, <1>10 DEF Done
<1> QED
  BY <1>1, <1>3, <1>4, <1>5, <1>6, <1>7, <1>8, <1>9, <1>10 DEF LineNext

(* After reset nothing was read or heard.                                  *)
LEMMA LineBegins ==
    ASSUME LineInit
    PROVE  SentInv /\ EditInv
<1>1. /\ heard = <<>> /\ got = <<>> /\ ~tx_data_valid
      /\ sw.pc = "divider" /\ sw.i = 0 /\ sw.dest = <<>>
  BY DEF LineInit, UartInit
<1>2. host.line \in Lines
  BY DEF LineInit, Host!Starts
<1>3. SubSeq(sw.dest, 1, sw.i) = <<>>
  BY <1>1, SubSeqEmpty
<1>4. SentInv
  BY <1>1, EmptySeq DEF SentInv, Sends
<1>5. EditInv
  BY <1>1, <1>2, <1>3, EditedNothing DEF EditInv, Sends
<1> QED
  BY <1>4, <1>5

-----------------------------------------------------------------------------
(* The invariants of the specification.                                    *)
LEMMA Invariance == LineSpec => [](TInv /\ SInv)
<1>1. TInv /\ SInv /\ [LineNext]_linevars => TInv' /\ SInv'
  BY WaitHolds, SetDividerHolds, EnableHolds, PollReceiverHolds, GetByteHolds,
     SendByteHolds, PollTransmitterHolds, StutterHolds DEF LineNext, Done
<1> QED
  BY InitHolds, <1>1, PTL DEF LineSpec

(* And those of the bytes. *)
LEMMA BytesInvariance == LineSpec => [](RInv /\ EarInv)
<1>1. LineInit => RInv /\ EarInv
  BY InitReads, EarBegins
<1>2. TInv /\ SInv /\ RInv /\ EarInv /\ [LineNext]_linevars => RInv' /\ EarInv'
  BY ReadsHold, EarHolds
<1> QED
  BY Invariance, <1>1, <1>2, PTL DEF LineSpec

(* Types: whatever line the host sends at whatever speed, the UART's       *)
(* registers keep their widths and the index of Uart::read stays within    *)
(* the caller's buffer.                                                    *)
THEOREM TypeCorrect == LineSpec => []LineTypeOK
<1>1. TInv /\ SInv => LineTypeOK
  BY InvariantsFollow
<1> QED
  BY Invariance, <1>1, PTL

(* The driver never writes tdr while a byte is on its way, although the    *)
(* status it polls is two cycles late: three cycles between its accesses   *)
(* are enough, for any divider, any oversampling and any length of a byte. *)
THEOREM StatusIsFreshEnough == LineSpec => []NeverOverwritten
<1>1. TInv /\ SInv => NeverOverwritten
  BY InvariantsFollow
<1> QED
  BY Invariance, <1>1, PTL

(* The driver reads every byte of the line once and in order and neither   *)
(* end misses a stop bit, however the two clocks lie to each other and     *)
(* however the host pauses, for every divider, every oversampling and      *)
(* every pace and bit time within what LineTiming allows.                  *)
THEOREM BytesComeInOrder == LineSpec => []BytesInOrder
<1>1. RInv /\ TInv /\ EarInv => BytesInOrder
  <2> SUFFICES ASSUME RInv, TInv, EarInv PROVE BytesInOrder
    OBVIOUS
  <2> DEFINE line == host.line
  <2>1. /\ got \in Seq(Tx!Byte) /\ Len(got) <= Len(line)
        /\ \A k \in 1 .. Len(got) : got[k] = line[k]
    BY DEF RInv, GotInv
  <2>2. line \in Seq(Tx!Byte)
    BY DEF TInv, HostOK, Host!Framed, Host!Hosts
  <2>3. IsPrefix(got, line)
    <3> HIDE DEF line
    <3>1. Len(got) \in Nat /\ Len(line) \in Nat
      BY <2>1, <2>2
    <3> QED
      BY <2>1, <2>2, <3>1 DEF IsPrefix
  <2> QED
    BY <2>3 DEF BytesInOrder, RInv, NoErrors, EarInv
<1> QED
  BY Invariance, BytesInvariance, <1>1, PTL

(* The host gets back the line it sent, with every backspace taking the    *)
(* character before it away and up to a NUL that is left in it, whatever   *)
(* the line, the divider, the pace of the driver and the host's clock      *)
(* within what LineTiming allows: each byte is heard as it was written,    *)
(* none is lost or doubled on either way, and Uart::read ends the string   *)
(* at the newline.                                                         *)
THEOREM LineIsPrintedBack == LineSpec => []LineComesBack
<1>1. LineInit => SentInv /\ EditInv
  BY LineBegins
<1>2. TInv /\ SInv /\ RInv /\ EarInv /\ SentInv /\ EditInv
         /\ SInv' /\ EarInv' /\ [LineNext]_linevars
      => SentInv' /\ EditInv'
  BY LineHolds
<1>3. TInv /\ SInv /\ EarInv /\ SentInv /\ EditInv => LineComesBack
  BY AllIsHeard DEF EditInv, Sends, LineComesBack
<1> QED
  BY Invariance, BytesInvariance, <1>1, <1>2, <1>3, PTL DEF LineSpec
=============================================================================
