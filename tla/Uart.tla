-------------------------------- MODULE Uart --------------------------------
(***************************************************************************)
(* The UART (rtl/soc/peripherals/uart/uart.sv): its registers around the   *)
(* serial clock generator, the transmitter and the receiver.  One step is  *)
(* one clock cycle, with at most one access of the bus in it.              *)
(***************************************************************************)
EXTENDS Integers, Sequences

CONSTANTS MaxDivider, Bit, DataBits, Oversampling

ASSUME UartAssumption ==
    /\ MaxDivider \in Nat
    /\ {0, 1} \subseteq Bit
    /\ DataBits \in Nat \ {0}
    /\ Oversampling \in Nat /\ Oversampling > 1

VARIABLES uart_regs,             \* the fields of cr, sr, tdr, rdr, cdr
          tx_data_valid, clk_divider_valid,
          clock, tx, rx

uartvars == <<uart_regs, tx_data_valid, clk_divider_valid, clock, tx, rx>>

Clock == INSTANCE SerialClock
Tx    == INSTANCE UartTransmitter
Rx    == INSTANCE UartReceiver

Zeros == [k \in 0 .. DataBits - 1 |-> 0]

(* The registers and the parts of the UART keep their widths.              *)
UartTypeOK ==
    /\ uart_regs \in [en : BOOLEAN, rxne : BOOLEAN, txact : BOOLEAN,
                      rxerr : BOOLEAN, tdr : Tx!Byte, rdr : Rx!Byte,
                      cdr : Clock!Divider]
    /\ tx_data_valid \in BOOLEAN /\ clk_divider_valid \in BOOLEAN
    /\ Clock!TypeOK /\ Tx!TypeOK /\ Rx!TypeOK

(* An access of the bus: none, the read of a register, or a write with the *)
(* new values of the register's fields.                                    *)
None            == [reg |-> "none", we |-> FALSE]
ReadReg(reg)    == [reg |-> reg, we |-> FALSE]
WriteReg(reg, fields) == [reg |-> reg, we |-> TRUE, fields |-> fields]

IsWritten(access, reg) == access.we /\ access.reg = reg

(* A field after the access, before the hardware has its say. *)
Written(access, reg, field) ==
    IF IsWritten(access, reg) THEN access.fields[field] ELSE uart_regs[field]

(* Faulty variant, for the mutation runs: the flag is up for one cycle.    *)
Rxne_NotHeld(access) == rx.rx_data_valid

(* A byte that arrives in the cycle of a read is not forgotten.  A write   *)
(* of rdr takes the flag back too (is_reg_read does not look at we).       *)
Rxne(access) ==
    IF rx.rx_data_valid THEN TRUE
    ELSE IF access.reg = "rdr" THEN FALSE
    ELSE Written(access, "sr", "rxne")

RegsAfter(access) ==
    [ en    |-> Written(access, "cr", "en"),
      rxne  |-> Rxne(access),
      txact |-> Tx!busy,
      rxerr |-> rx.error \/ Written(access, "sr", "rxerr"),
      tdr   |-> Written(access, "tdr", "tdr"),
      rdr   |-> IF rx.rx_data_valid THEN rx.rx_data ELSE Written(access, "rdr", "rdr"),
      cdr   |-> Written(access, "cdr", "cdr") ]

UartCycle(access, sin) ==
    /\ uart_regs' = RegsAfter(access)
    /\ tx_data_valid' = IsWritten(access, "tdr")
    /\ clk_divider_valid' = IsWritten(access, "cdr")
    /\ Clock!Cycle(uart_regs.en, clk_divider_valid, uart_regs.cdr)
    /\ Tx!Cycle(clock.rising_edge, tx_data_valid, uart_regs.tdr)
    /\ Rx!Cycle(clock.rising_edge, sin)

UartInit ==
    /\ uart_regs = [en |-> FALSE, rxne |-> FALSE, txact |-> FALSE,
                    rxerr |-> FALSE, tdr |-> Zeros, rdr |-> Zeros, cdr |-> 0]
    /\ tx_data_valid = FALSE /\ clk_divider_valid = FALSE
    /\ Clock!Init /\ Tx!Init /\ Rx!Init

-----------------------------------------------------------------------------
(* The UART keeps its types under accesses that write values of the right  *)
(* widths.                                                                 *)
GoodAccess(access) ==
    \/ access = None
    \/ \E reg \in {"sr", "rdr"} : access = ReadReg(reg)
    \/ \E divider \in Clock!Divider : access = WriteReg("cdr", [cdr |-> divider])
    \/ access = WriteReg("cr", [en |-> TRUE])
    \/ \E byte \in Tx!Byte : access = WriteReg("tdr", [tdr |-> byte])

(* What the registers hold after such an access.                           *)
LEMMA RegsKeepTypes ==
    ASSUME UartTypeOK, NEW access, GoodAccess(access),
           uart_regs' = RegsAfter(access)
    PROVE  uart_regs' \in [en : BOOLEAN, rxne : BOOLEAN, txact : BOOLEAN,
                           rxerr : BOOLEAN, tdr : Tx!Byte, rdr : Rx!Byte,
                           cdr : Clock!Divider]
<1> USE UartAssumption
<1>1. /\ Written(access, "cr", "en") \in BOOLEAN
      /\ Rxne(access) \in BOOLEAN
      /\ Written(access, "sr", "rxerr") \in BOOLEAN
      /\ Written(access, "tdr", "tdr") \in Tx!Byte
      /\ Written(access, "rdr", "rdr") \in Rx!Byte
      /\ Written(access, "cdr", "cdr") \in Clock!Divider
  <2> USE DEF UartTypeOK, Written, IsWritten, Rxne, ReadReg, WriteReg,
              Rx!TypeOK
  <2>1. CASE access = None
    BY <2>1 DEF None
  <2>2. ASSUME NEW reg \in {"sr", "rdr"}, access = ReadReg(reg)
        PROVE  <1>1!:
    BY <2>2
  <2>3. ASSUME NEW divider \in Clock!Divider,
               access = WriteReg("cdr", [cdr |-> divider])
        PROVE  <1>1!:
    BY <2>3
  <2>4. CASE access = WriteReg("cr", [en |-> TRUE])
    BY <2>4
  <2>5. ASSUME NEW byte \in Tx!Byte, access = WriteReg("tdr", [tdr |-> byte])
        PROVE  <1>1!:
    BY <2>5
  <2> QED
    BY <2>1, <2>2, <2>3, <2>4, <2>5 DEF GoodAccess
<1>2. Tx!busy \in BOOLEAN
  BY DEF Tx!busy
<1>3. rx.rx_data \in Rx!Byte /\ rx.error \in BOOLEAN
  BY DEF UartTypeOK, Rx!TypeOK
<1> QED
  BY <1>1, <1>2, <1>3 DEF RegsAfter

(* The serial clock's counter stays within eight bits. *)
LEMMA ClockKeepsTypes ==
    ASSUME Clock!TypeOK, NEW en, NEW valid, NEW divider \in Clock!Divider,
           Clock!Cycle(en, valid, divider)
    PROVE  Clock!TypeOK'
<1> USE UartAssumption
<1>1. ASSUME NEW n \in Clock!Divider
      PROVE  (n + 1) % (MaxDivider + 1) \in Clock!Divider
  BY DEF Clock!Divider
<1>2. 0 \in Clock!Divider
  BY DEF Clock!Divider
<1>3. CASE Clock!SetDivider(valid, divider)
  BY <1>2, <1>3 DEF Clock!SetDivider, Clock!TypeOK
<1>4. CASE Clock!Turn(en, valid)
  BY <1>2, <1>4 DEF Clock!Turn, Clock!TypeOK
<1>5. CASE Clock!Count(en, valid)
  BY <1>1, <1>5 DEF Clock!Count, Clock!TypeOK
<1>6. CASE Clock!Stop(en, valid)
  BY <1>2, <1>6 DEF Clock!Stop, Clock!TypeOK
<1> QED
  BY <1>3, <1>4, <1>5, <1>6 DEF Clock!Cycle

(* The transmitter's counters stay within four and three bits. *)
LEMMA TransmitterKeepsTypes ==
    ASSUME Tx!TypeOK, NEW edge, NEW valid, NEW data \in Tx!Byte,
           Tx!Cycle(edge, valid, data)
    PROVE  Tx!TypeOK'
<1> USE UartAssumption
<1>1. 0 \in 0 .. Oversampling - 1 /\ 0 \in 0 .. DataBits - 1
  OBVIOUS
<1>2. tx.tx_buffer[0] \in Bit /\ Tx!Shifted(tx.tx_buffer) \in Tx!Byte
  BY DEF Tx!TypeOK, Tx!Byte, Tx!Shifted
<1>3. CASE Tx!Rest(valid)
  BY <1>3 DEF Tx!Rest, Tx!TypeOK
<1>4. CASE Tx!Accept(valid)
  BY <1>4 DEF Tx!Accept, Tx!TypeOK, Tx!States
<1>5. CASE Tx!WithinBit(edge, data)
  <2>1. edge => tx.edges_counter + 1 \in 0 .. Oversampling - 1
    BY <1>5 DEF Tx!WithinBit, Tx!LastEdge, Tx!TypeOK
  <2>2. 0 \in Bit
    OBVIOUS
  <2> QED
    BY <2>1, <2>2, <1>5 DEF Tx!WithinBit, Tx!TypeOK
<1>6. CASE Tx!FirstBit(edge)
  BY <1>1, <1>2, <1>6 DEF Tx!FirstBit, Tx!TypeOK, Tx!States
<1>7. CASE Tx!NextBit(edge)
  <2>1. tx.bits_counter + 1 \in 0 .. DataBits - 1
    BY <1>7 DEF Tx!NextBit, Tx!TypeOK
  <2> QED
    BY <2>1, <1>1, <1>2, <1>7 DEF Tx!NextBit, Tx!TypeOK
<1>8. CASE Tx!StopBit(edge)
  BY <1>1, <1>8 DEF Tx!StopBit, Tx!TypeOK, Tx!States
<1>9. CASE Tx!Finish(edge)
  BY <1>1, <1>9 DEF Tx!Finish, Tx!TypeOK, Tx!States
<1> QED
  BY <1>3, <1>4, <1>5, <1>6, <1>7, <1>8, <1>9 DEF Tx!Cycle

(* So do the receiver's. *)
LEMMA ReceiverKeepsTypes ==
    ASSUME Rx!TypeOK, NEW edge, NEW sin \in Bit, Rx!Cycle(edge, sin)
    PROVE  Rx!TypeOK'
<1> USE UartAssumption
<1>1. 0 \in 0 .. Oversampling - 1 /\ 0 \in 0 .. DataBits - 1
  OBVIOUS
<1>2. Rx!Zeros \in Rx!Byte /\ Rx!ShiftedIn(rx.rx_buffer, sin) \in Rx!Byte
  BY DEF Rx!TypeOK, Rx!Byte, Rx!ShiftedIn, Rx!Zeros
<1> DEFINE taken == Rx!Taken(edge, sin)
           Fields == [state : Rx!States, bits_counter : 0 .. DataBits - 1,
                      edges_counter : 0 .. Oversampling - 1,
                      rx_data_valid : BOOLEAN, rx_data : Rx!Byte,
                      error : BOOLEAN, rx_buffer : Rx!Byte]
<1>3. rx.state # "IDLE" => /\ taken \in Fields
                           /\ taken.edges_counter = rx.edges_counter
                           /\ taken.bits_counter = rx.bits_counter
  BY <1>2 DEF Rx!TypeOK, Rx!Taken
<1>4. CASE Rx!Rest(sin)
  BY <1>4 DEF Rx!Rest, Rx!TypeOK
<1>5. CASE Rx!Detect(sin)
  BY <1>5 DEF Rx!Detect, Rx!TypeOK, Rx!States
<1>6. CASE Rx!WithinBit(edge, sin)
  <2>1. edge => rx.edges_counter + 1 \in 0 .. Oversampling - 1
    BY <1>6 DEF Rx!WithinBit, Rx!LastEdge, Rx!TypeOK
  <2> QED
    BY <2>1, <1>3, <1>6 DEF Rx!WithinBit, Rx!TypeOK
<1>7. CASE Rx!FirstBit(edge, sin)
  BY <1>1, <1>3, <1>7 DEF Rx!FirstBit, Rx!TypeOK, Rx!States
<1>8. CASE Rx!NextBit(edge, sin)
  <2>1. rx.bits_counter + 1 \in 0 .. DataBits - 1
    BY <1>8 DEF Rx!NextBit, Rx!TypeOK
  <2> QED
    BY <2>1, <1>1, <1>3, <1>8 DEF Rx!NextBit, Rx!TypeOK
<1>9. CASE Rx!StopBit(edge, sin)
  BY <1>1, <1>3, <1>9 DEF Rx!StopBit, Rx!TypeOK, Rx!States
<1>10. CASE Rx!Finish(edge, sin)
  BY <1>1, <1>3, <1>10 DEF Rx!Finish, Rx!TypeOK, Rx!States
<1> QED
  BY <1>4, <1>5, <1>6, <1>7, <1>8, <1>9, <1>10 DEF Rx!Cycle

(* Together: one cycle of the UART. *)
LEMMA UartKeepsTypes ==
    ASSUME UartTypeOK, NEW access, GoodAccess(access), NEW sin \in Bit,
           UartCycle(access, sin)
    PROVE  UartTypeOK'
<1> USE UartAssumption
<1>1. Clock!TypeOK'
  BY ClockKeepsTypes DEF UartTypeOK, UartCycle
<1>2. Tx!TypeOK'
  BY TransmitterKeepsTypes DEF UartTypeOK, UartCycle
<1>3. Rx!TypeOK'
  BY ReceiverKeepsTypes DEF UartTypeOK, UartCycle
<1>4. tx_data_valid' \in BOOLEAN /\ clk_divider_valid' \in BOOLEAN
  BY DEF UartCycle, IsWritten, GoodAccess, None, ReadReg, WriteReg
<1> QED
  BY <1>1, <1>2, <1>3, <1>4, RegsKeepTypes DEF UartTypeOK, UartCycle

-----------------------------------------------------------------------------
(* The receiver and a host whose clock is not the UART's, for any divider. *)
(* Cycles: of a period of the serial clock, of a bit, of a bit's first     *)
(* half, and how many are left of a bit when the receiver takes it.        *)
PeriodOf(div) == 2 * (div + 1)
BitOf(div)    == Oversampling * PeriodOf(div)
HalfOf(div)   == (Oversampling \div 2) * PeriodOf(div)
MidOf(div)    == BitOf(div) - HalfOf(div) + 1

(* Cycles up to and with the next rising edge of the serial clock, and     *)
(* cycles left of a bit of which that many edges have been counted.        *)
EdgeIn(div) ==
    IF ~clock.sck THEN div + 2 - clock.counter
    ELSE IF clock.counter = 0 THEN 1 ELSE 2 * div + 3 - clock.counter

LeftOf(edges, edge_in, div) ==
    (Oversampling - 1 - edges) * PeriodOf(div) + edge_in

RunsWith(div) ==
    /\ uart_regs.en /\ ~clk_divider_valid
    /\ clock.counter_target = div /\ clock.counter <= div
    /\ clock.rising_edge <=> clock.sck /\ clock.counter = 0

(* The host's bits may be longer than the UART's, by so little that in the *)
(* middle of the stop bit the receiver is still at the same bit.           *)
Over(time, div) == time - BitOf(div)

KeepsUp(time, div) ==
    /\ Over(time, div) >= 0
    /\ (DataBits + 1) * Over(time, div) <= HalfOf(div) - PeriodOf(div) + 1

(* The other way, where the listening end takes its bits one and a half of *)
(* its own after it has seen the start bit: in the time of the UART's last *)
(* data bit, and of its stop bit.                                          *)
EarKeepsUp(time, div) ==
    LET seen == PeriodOf(div) + time + time \div 2 IN
    /\ seen + 1 + (DataBits - 1) * Over(time, div) <= 2 * BitOf(div)
    /\ seen + DataBits * Over(time, div) <= 2 * BitOf(div) + 1

(* How far the host is behind at the end of a bit of the receiver's.       *)
Drift(slot, time, div) == (slot + 1) * Over(time, div)

(* The numbers.                                                            *)
LEMMA CyclesOfABit ==
    ASSUME NEW div \in 0 .. MaxDivider
    PROVE  /\ PeriodOf(div) \in Nat /\ PeriodOf(div) >= 2
           /\ BitOf(div) \in Nat /\ HalfOf(div) \in Nat /\ MidOf(div) \in Nat
           /\ HalfOf(div) >= PeriodOf(div)
           /\ BitOf(div) - HalfOf(div) >= PeriodOf(div)
           /\ MidOf(div) = BitOf(div) - HalfOf(div) + 1
           /\ MidOf(div) > 2 /\ MidOf(div) <= BitOf(div)
<1> USE UartAssumption
<1> DEFINE period == PeriodOf(div)  half == Oversampling \div 2
           rest == Oversampling - half
<1>1. period \in Nat /\ period >= 2
  BY DEF PeriodOf
<1>2. half \in Nat /\ half >= 1 /\ rest \in Nat /\ rest >= 1
      /\ Oversampling = half + rest
  OBVIOUS
<1> HIDE DEF period, half, rest
<1>3. half * period \in Nat /\ half * period >= period
  <2>1. half * period = (half - 1) * period + period /\ (half - 1) * period \in Nat
    BY <1>1, <1>2
  <2> DEFINE q == (half - 1) * period
  <2> HIDE DEF q
  <2> QED
    BY <1>1, <2>1 DEF q
<1>4. rest * period \in Nat /\ rest * period >= period
  <2>1. rest * period = (rest - 1) * period + period /\ (rest - 1) * period \in Nat
    BY <1>1, <1>2
  <2> DEFINE q == (rest - 1) * period
  <2> HIDE DEF q
  <2> QED
    BY <1>1, <2>1 DEF q
<1>5. Oversampling * period = half * period + rest * period
  BY <1>1, <1>2
<1> DEFINE b == Oversampling * period  h == half * period  r == rest * period
<1>6. h \in Nat /\ h >= period /\ r \in Nat /\ r >= period /\ b = h + r
  BY <1>3, <1>4, <1>5
<1>7. BitOf(div) = b /\ HalfOf(div) = h
  BY DEF BitOf, HalfOf, period, half
<1> HIDE DEF b, h, r
<1>8. MidOf(div) = b - h + 1
  BY <1>7 DEF MidOf
<1> QED
  BY <1>1, <1>6, <1>7, <1>8 DEF period

(* An edge of the count of cycles.                                         *)
LEMMA CyclesLeft ==
    ASSUME NEW div \in 0 .. MaxDivider, NEW edges \in 0 .. Oversampling - 1,
           NEW edge_in \in 1 .. PeriodOf(div)
    PROVE  /\ LeftOf(edges, edge_in, div) \in 1 .. BitOf(div)
           /\ edge_in = 1 /\ edges = Oversampling - 1 <=>
                 LeftOf(edges, edge_in, div) = 1
           /\ edge_in = 1 /\ edges = Oversampling \div 2 - 1 <=>
                 LeftOf(edges, edge_in, div) = MidOf(div)
           /\ edges = 0 => LeftOf(edges, edge_in, div)
                               = BitOf(div) - PeriodOf(div) + edge_in
           /\ LeftOf(edges, edge_in - 1, div) = LeftOf(edges, edge_in, div) - 1
           /\ edge_in = 1 => LeftOf(edges + 1, PeriodOf(div), div)
                               = LeftOf(edges, edge_in, div) - 1
           /\ LeftOf(0, PeriodOf(div), div) = BitOf(div)
<1> USE UartAssumption
<1> DEFINE period == PeriodOf(div)  n == Oversampling - 1 - edges
           half == Oversampling \div 2
<1>1. /\ period \in Nat /\ period >= 2 /\ n \in Nat /\ n <= Oversampling - 1
      /\ edges \in Nat /\ edge_in \in Nat /\ edge_in >= 1 /\ edge_in <= period
      /\ half \in Nat /\ half >= 1 /\ Oversampling - half >= 1
  BY CyclesOfABit
<1> DEFINE left == n * period  m == n - (Oversampling - half)
<1>2. left \in Nat
  <2> HIDE DEF n, period
  <2> QED
    BY <1>1
<1>3. LeftOf(edges, edge_in, div) = left + edge_in
      /\ LeftOf(edges, edge_in - 1, div) = left + (edge_in - 1)
  BY DEF LeftOf
<1>4. LeftOf(edges + 1, period, div) = left
  <2>1. LeftOf(edges + 1, period, div) = (Oversampling - 1 - (edges + 1)) * period + period
    BY DEF LeftOf
  <2>2. Oversampling - 1 - (edges + 1) = n - 1
    BY <1>1
  <2>3. (n - 1) * period + period = n * period
    <3> HIDE DEF n, period
    <3> QED
      BY <1>1
  <2> HIDE DEF n, period
  <2> QED
    BY <2>1, <2>2, <2>3
<1>5. BitOf(div) = (Oversampling - 1) * period + period /\ (Oversampling - 1) * period \in Nat
  <2>1. BitOf(div) = Oversampling * period
    BY DEF BitOf
  <2> HIDE DEF period
  <2> QED
    BY <1>1, <2>1
<1>6. LeftOf(0, period, div) = BitOf(div)
  <2>1. LeftOf(0, period, div) = (Oversampling - 1 - 0) * period + period /\ Oversampling - 1 - 0 = Oversampling - 1
    BY DEF LeftOf
  <2> HIDE DEF period
  <2> QED
    BY <1>5, <2>1
<1>7. BitOf(div) = left + edges * period + period /\ edges * period \in Nat
  <2>1. Oversampling - 1 = n + edges
    BY <1>1
  <2> HIDE DEF n, period
  <2>2. (Oversampling - 1) * period = n * period + edges * period
    BY <1>1, <2>1
  <2> QED
    BY <1>1, <1>5, <2>2
<1>8. edges = 0 => edges * period = 0
  BY <1>1
<1>9. MidOf(div) = (Oversampling - half) * period + 1
  <2>1. MidOf(div) = Oversampling * period - half * period + 1
    BY DEF MidOf, BitOf, HalfOf
  <2>2. Oversampling * period - half * period = (Oversampling - half) * period
    <3> HIDE DEF period, half
    <3> QED
      BY <1>1
  <2> QED
    BY <2>1, <2>2
<1>10. MidOf(div) = left - m * period + 1
  <2>1. Oversampling - half = n - m /\ m \in Int
    BY <1>1
  <2> HIDE DEF period, half, n, m
  <2> QED
    BY <1>1, <1>9, <2>1
<1>11. /\ m = 0 => m * period = 0
       /\ m > 0 => m * period >= period
       /\ m < 0 => m * period <= 0 - period
  <2>1. m \in Int
    BY <1>1
  <2> HIDE DEF period, m
  <2>2. m > 0 => (m - 1) * period \in Nat /\ m * period = (m - 1) * period + period
    BY <1>1, <2>1
  <2>3. m < 0 => (0 - 1 - m) * period \in Nat /\ m * period = 0 - (0 - 1 - m) * period - period
    BY <1>1, <2>1
  <2>4. m = 0 => m * period = 0
    BY <1>1
  <2> DEFINE a == (m - 1) * period  c == (0 - 1 - m) * period  d == m * period
  <2>5. (m > 0 => a \in Nat /\ d = a + period) /\ (m < 0 => c \in Nat /\ d = 0 - c - period)
    BY <2>2, <2>3
  <2> HIDE DEF a, c
  <2> QED
    BY <1>1, <2>4, <2>5
<1>12. edges = half - 1 <=> m = 0
  BY <1>1
<1>13. /\ n = 0 => left = 0
       /\ n # 0 => left >= period
  <2> HIDE DEF n, period
  <2>1. n # 0 => (n - 1) * period \in Nat /\ left = (n - 1) * period + period
    BY <1>1
  <2> DEFINE a == (n - 1) * period
  <2>2. n # 0 => a \in Nat /\ left = a + period
    BY <2>1
  <2>3. n = 0 => left = 0
    BY <1>1
  <2> HIDE DEF a, left
  <2> QED
    BY <1>1, <2>2, <2>3
<1>14. n = 0 <=> edges = Oversampling - 1
  BY <1>1
<1> DEFINE e == edges * period  d == m * period
<1>15. m \in Int /\ d \in Int
  <2>1. m \in Int
    BY <1>1
  <2> HIDE DEF m, period
  <2> QED
    BY <1>1, <2>1
<1> HIDE DEF period, n, half, left, m, e, d
<1>16. LeftOf(edges, edge_in, div) \in 1 .. BitOf(div)
  BY <1>1, <1>2, <1>3, <1>7 DEF e
<1>17. edge_in = 1 /\ edges = Oversampling - 1 <=> LeftOf(edges, edge_in, div) = 1
  BY <1>1, <1>2, <1>3, <1>13, <1>14
<1>18. edge_in = 1 /\ edges = half - 1 <=> LeftOf(edges, edge_in, div) = MidOf(div)
  BY <1>1, <1>2, <1>3, <1>10, <1>11, <1>12, <1>15 DEF d
<1>19. edges = 0 => LeftOf(edges, edge_in, div) = BitOf(div) - period + edge_in
  BY <1>1, <1>2, <1>3, <1>7, <1>8 DEF e
<1>20. LeftOf(edges, edge_in - 1, div) = LeftOf(edges, edge_in, div) - 1
  BY <1>1, <1>2, <1>3
<1>21. edge_in = 1 => LeftOf(edges + 1, period, div) = LeftOf(edges, edge_in, div) - 1
  BY <1>1, <1>2, <1>3, <1>4
<1> QED
  BY <1>6, <1>16, <1>17, <1>18, <1>19, <1>20, <1>21 DEF period, half

(* The edges come round, with any divider.                                 *)
LEMMA EdgesGoRound ==
    ASSUME UartTypeOK, NEW div \in 0 .. MaxDivider, RunsWith(div),
           NEW divider, Clock!Cycle(TRUE, FALSE, divider)
    PROVE  /\ EdgeIn(div) \in 1 .. PeriodOf(div)
           /\ clock.rising_edge <=> EdgeIn(div) = 1
           /\ EdgeIn(div)' = IF clock.rising_edge THEN PeriodOf(div)
                                                  ELSE EdgeIn(div) - 1
           /\ EdgeIn(div)' \in 1 .. PeriodOf(div)
           /\ clock'.counter_target = div /\ clock'.counter <= div
           /\ clock'.rising_edge <=> clock'.sck /\ clock'.counter = 0
<1>1. /\ div \in Nat /\ div <= MaxDivider /\ MaxDivider \in Nat
      /\ clock.counter \in Nat /\ clock.sck \in BOOLEAN
      /\ clock.rising_edge \in BOOLEAN
  BY UartAssumption DEF UartTypeOK, Clock!TypeOK, Clock!Divider
<1>2. clock = [sck |-> clock.sck, rising_edge |-> clock.rising_edge,
               falling_edge |-> clock.falling_edge, counter |-> clock.counter,
               counter_target |-> clock.counter_target]
  BY DEF UartTypeOK, Clock!TypeOK
<1>3. /\ clock.counter_target = div /\ clock.counter <= div
      /\ clock.rising_edge <=> clock.sck /\ clock.counter = 0
  BY DEF RunsWith
<1> DEFINE sck == clock.sck  counter == clock.counter
<1>4. EdgeIn(div) \in 1 .. PeriodOf(div) /\ (clock.rising_edge <=> EdgeIn(div) = 1)
  <2>1. CASE ~sck
    BY <1>1, <1>3, <2>1 DEF EdgeIn, PeriodOf
  <2>2. CASE sck /\ counter = 0
    BY <1>1, <1>3, <2>2 DEF EdgeIn, PeriodOf
  <2>3. CASE sck /\ counter # 0
    BY <1>1, <1>3, <2>3 DEF EdgeIn, PeriodOf
  <2> QED
    BY <1>1, <2>1, <2>2, <2>3
<1>5. ASSUME Clock!Turn(TRUE, FALSE)
      PROVE  /\ EdgeIn(div)' = IF clock.rising_edge THEN PeriodOf(div)
                                                    ELSE EdgeIn(div) - 1
             /\ clock'.counter_target = div /\ clock'.counter <= div
             /\ clock'.rising_edge <=> clock'.sck /\ clock'.counter = 0
  <2>1. /\ clock'.sck = ~clock.sck /\ clock'.rising_edge = ~clock.sck
        /\ clock'.counter = 0 /\ clock'.counter_target = div
    BY <1>2, <1>3, <1>5 DEF Clock!Turn
  <2>2. clock.counter = div
    BY <1>1, <1>3, <1>5 DEF Clock!Turn
  <2>3. EdgeIn(div)' = IF sck THEN div + 2 ELSE 1
    <3>1. CASE sck
      <4>1. ~clock'.sck /\ clock'.counter = 0
        BY <2>1, <3>1
      <4> QED
        BY <1>1, <3>1, <4>1 DEF EdgeIn
    <3>2. CASE ~sck
      BY <1>1, <2>1, <3>2 DEF EdgeIn
    <3> QED
      BY <3>1, <3>2
  <2>4. EdgeIn(div) = IF ~sck THEN 2 ELSE IF div = 0 THEN 1 ELSE div + 3
    BY <1>1, <2>2 DEF EdgeIn
  <2>5. EdgeIn(div)' = IF clock.rising_edge THEN PeriodOf(div) ELSE EdgeIn(div) - 1
    BY <1>1, <1>3, <2>2, <2>3, <2>4 DEF PeriodOf
  <2> QED
    BY <1>1, <2>1, <2>5
<1>6. ASSUME Clock!Count(TRUE, FALSE)
      PROVE  /\ EdgeIn(div)' = IF clock.rising_edge THEN PeriodOf(div)
                                                    ELSE EdgeIn(div) - 1
             /\ clock'.counter_target = div /\ clock'.counter <= div
             /\ clock'.rising_edge <=> clock'.sck /\ clock'.counter = 0
  <2>1. clock.counter < div
    BY <1>1, <1>3, <1>6 DEF Clock!Count
  <2>2. (clock.counter + 1) % (MaxDivider + 1) = clock.counter + 1
    <3> DEFINE next == clock.counter + 1  all == MaxDivider + 1
    <3>1. next \in Nat /\ all \in Nat /\ next < all
      BY <1>1, <2>1
    <3> HIDE DEF next, all
    <3>2. next % all = next
      BY <3>1
    <3> QED
      BY <3>2 DEF next, all
  <2>3. /\ clock'.sck = clock.sck /\ ~clock'.rising_edge
        /\ clock'.counter = clock.counter + 1 /\ clock'.counter_target = div
    BY <1>2, <1>3, <1>6, <2>2 DEF Clock!Count
  <2>4. EdgeIn(div)' = IF ~sck THEN div + 1 - counter ELSE 2 * div + 2 - counter
    BY <1>1, <2>3 DEF EdgeIn
  <2>5. EdgeIn(div)' = IF clock.rising_edge THEN PeriodOf(div) ELSE EdgeIn(div) - 1
    BY <1>1, <1>3, <2>4 DEF EdgeIn, PeriodOf
  <2> QED
    BY <1>1, <2>1, <2>3, <2>5
<1>7. /\ EdgeIn(div)' = IF clock.rising_edge THEN PeriodOf(div)
                                             ELSE EdgeIn(div) - 1
      /\ clock'.counter_target = div /\ clock'.counter <= div
      /\ clock'.rising_edge <=> clock'.sck /\ clock'.counter = 0
  BY <1>5, <1>6 DEF Clock!Cycle, Clock!SetDivider, Clock!Stop
<1>8. EdgeIn(div)' \in 1 .. PeriodOf(div)
  <2> DEFINE edge_in == EdgeIn(div)  next == EdgeIn(div)'
  <2>1. next = IF clock.rising_edge THEN PeriodOf(div) ELSE edge_in - 1
    BY <1>7
  <2>2. edge_in \in 1 .. PeriodOf(div) /\ (clock.rising_edge <=> edge_in = 1)
    BY <1>4
  <2> HIDE DEF edge_in, next
  <2>3. next \in 1 .. PeriodOf(div)
    BY <1>1, <2>1, <2>2, CyclesOfABit
  <2> QED
    BY <2>3 DEF next
<1> QED
  BY <1>4, <1>7, <1>8

-----------------------------------------------------------------------------
(* The host turns from one bit to the next, in numbers and as records.     *)
Turns(slot, left, next_slot, next_left, time) ==
    \/ left > 1 /\ next_slot = slot /\ next_left = left - 1
    \/ /\ left = 1 /\ slot \in 0 .. DataBits
       /\ next_slot = slot + 1 /\ next_left = time
    \/ left = 1 /\ slot = -1 /\ next_slot = 0 /\ next_left = time
    \/ left = 1 /\ slot = DataBits + 1 /\ next_slot = -1
    \/ left = 1 /\ slot = DataBits + 1 /\ next_slot = 0 /\ next_left = time
    \/ left = 0 /\ slot = -1 /\ next_slot = -1 /\ next_left = 0

ByteEnds(slot, left) == slot = DataBits + 1 /\ left = 1

LineTurns(h, g) ==
    /\ Turns(h.slot, h.left, g.slot, g.left, h.bit_time)
    /\ g.line = h.line /\ g.bit_time = h.bit_time
    /\ g.queue = IF ByteEnds(h.slot, h.left) THEN Tail(h.queue) ELSE h.queue

(* A line of bytes on which no bit is longer than the others.              *)
OnTheWay(slot, left, time) ==
    /\ slot \in -1 .. DataBits + 1 /\ left \in Nat /\ time \in Nat
    /\ slot # -1 => left \in 1 .. time

(* The receiver is at the host's bit slot, or at the next one while the    *)
(* host still has a little of its own to say, or at the end of its bit     *)
(* when the host has just turned to the next.  cycles are left of the      *)
(* receiver's bit.                                                         *)
Near(n, drift, div) == n >= 2 - PeriodOf(div) - drift /\ n <= 1 - drift

InTouch(bit, cycles, slot, left, time, div) ==
    \/ slot = bit /\ Near(cycles - left, Drift(bit, time, div), div)
    \/ /\ slot # -1 /\ slot = bit - 1
       /\ Near(cycles - left - time, Drift(bit, time, div), div)
    \/ /\ cycles = 1 /\ Drift(bit, time, div) = 0
       /\ slot # -1 => left = time
       /\ slot \in IF bit = DataBits + 1 THEN {-1, 0} ELSE {bit + 1}

(* While the receiver waits the host is silent, or in a stop bit, or has   *)
(* just begun a start bit.                                                 *)
Waits(slot, left, time, edge_in, div) ==
    \/ slot \in {-1, DataBits + 1}
    \/ slot = 0 /\ left = time
    \/ slot = 0 /\ left = time - 1 /\ edge_in = PeriodOf(div)

(* The drift grows by the same amount at every bit.                        *)
LEMMA DriftGrows ==
    ASSUME NEW div \in 0 .. MaxDivider, NEW time \in Nat, KeepsUp(time, div),
           NEW bit \in 0 .. DataBits + 1
    PROVE  /\ Over(time, div) \in Nat /\ time = BitOf(div) + Over(time, div)
           /\ Drift(bit, time, div) \in Nat
           /\ Drift(0, time, div) = Over(time, div)
           /\ Drift(bit + 1, time, div) = Drift(bit, time, div) + Over(time, div)
           /\ Drift(bit, time, div) >= Over(time, div)
           /\ Drift(bit, time, div) - Over(time, div)
                  <= HalfOf(div) - PeriodOf(div) + 1
<1> USE UartAssumption
<1> DEFINE over == Over(time, div)  room == HalfOf(div) - PeriodOf(div) + 1
<1>1. /\ over \in Nat /\ time = BitOf(div) + over /\ room \in Int
      /\ (DataBits + 1) * over <= room
  BY CyclesOfABit DEF KeepsUp, Over
<1>2. bit \in Nat /\ bit <= DataBits + 1 /\ DataBits + 1 - bit \in Nat
  OBVIOUS
<1>3. /\ Drift(bit, time, div) = (bit + 1) * over
      /\ Drift(bit + 1, time, div) = (bit + 1 + 1) * over
      /\ Drift(0, time, div) = (0 + 1) * over
  BY DEF Drift
<1> HIDE DEF over, room
<1>4. (bit + 1) * over = bit * over + over /\ bit * over \in Nat
  BY <1>1, <1>2
<1>5. (bit + 1 + 1) * over = (bit + 1) * over + over /\ (0 + 1) * over = over
  BY <1>1, <1>2
<1>6. (DataBits + 1) * over = bit * over + (DataBits + 1 - bit) * over
      /\ (DataBits + 1 - bit) * over \in Nat
  BY <1>1, <1>2
<1> DEFINE d == bit * over  rest == (DataBits + 1 - bit) * over
           d1 == (bit + 1) * over  d2 == (bit + 1 + 1) * over
           all == (DataBits + 1) * over
<1>7. /\ d \in Nat /\ rest \in Nat /\ d1 = d + over /\ d2 = d1 + over
      /\ all = d + rest /\ all <= room /\ (0 + 1) * over = over
  BY <1>1, <1>4, <1>5, <1>6
<1> HIDE DEF d, rest, d1, d2, all
<1>8. d1 \in Nat /\ d1 >= over /\ d1 - over <= room
  BY <1>1, <1>7
<1> QED
  BY <1>1, <1>3, <1>7, <1>8 DEF d1, d2, over, room

(* The host keeps its bits' length. *)
LEMMA TurnsKeepLength ==
    ASSUME NEW slot, NEW left, NEW next_slot, NEW next_left, NEW time,
           OnTheWay(slot, left, time), time > 0, next_left \in Nat,
           Turns(slot, left, next_slot, next_left, time)
    PROVE  OnTheWay(next_slot, next_left, time)
<1> USE UartAssumption
<1> QED
  BY DEF OnTheWay, Turns

(* In the middle of a bit the host is at the same bit.                     *)
LEMMA SameBitInTheMiddle ==
    ASSUME NEW div \in 0 .. MaxDivider, NEW slot, NEW left, NEW time,
           OnTheWay(slot, left, time), KeepsUp(time, div),
           NEW bit \in 0 .. DataBits + 1, NEW cycles \in 1 .. BitOf(div),
           InTouch(bit, cycles, slot, left, time, div),
           cycles <= MidOf(div), cycles > 2
    PROVE  slot = bit /\ left > 1
<1> USE UartAssumption
<1> DEFINE drift == Drift(bit, time, div)  over == Over(time, div)
           period == PeriodOf(div)  half == HalfOf(div)  b == BitOf(div)
<1>1. /\ period \in Nat /\ b \in Nat /\ half \in Nat /\ MidOf(div) = b - half + 1
  BY CyclesOfABit
<1>2. /\ over \in Nat /\ time = b + over /\ drift \in Nat
      /\ drift - over <= half - period + 1
  BY DriftGrows DEF OnTheWay
<1>3. left \in Nat /\ (slot # -1 => left >= 1) /\ cycles \in Nat
  BY DEF OnTheWay
<1>4. \/ slot = bit /\ Near(cycles - left, drift, div)
      \/ slot # -1 /\ Near(cycles - left - time, drift, div)
  BY DEF InTouch
<1>5. ASSUME Near(cycles - left, drift, div) PROVE left > 1
  BY <1>1, <1>2, <1>3, <1>5 DEF Near
<1> HIDE DEF drift, over, period, half, b
<1>6. ASSUME slot # -1, cycles - left - time >= 2 - period - drift PROVE FALSE
  <2>1. cycles <= b - half + 1
    BY <1>1, <1>3
  <2> QED
    BY <1>1, <1>2, <1>3, <1>6, <2>1
<1>7. ASSUME slot # -1, Near(cycles - left - time, drift, div) PROVE FALSE
  BY <1>6, <1>7 DEF Near, period
<1> QED
  BY <1>4, <1>5, <1>7

(* The steps of the two, in numbers.  Within a bit of the receiver's:      *)
LEMMA TouchWithinBit ==
    ASSUME NEW div \in 0 .. MaxDivider, NEW slot, NEW left, NEW time,
           OnTheWay(slot, left, time), KeepsUp(time, div),
           NEW next_slot, NEW next_left,
           Turns(slot, left, next_slot, next_left, time),
           NEW bit \in 0 .. DataBits + 1, NEW cycles \in 2 .. BitOf(div),
           InTouch(bit, cycles, slot, left, time, div)
    PROVE  InTouch(bit, cycles - 1, next_slot, next_left, time, div)
<1> USE UartAssumption
<1> DEFINE drift == Drift(bit, time, div)  period == PeriodOf(div)
<1>1. period \in Nat /\ period >= 2
  BY CyclesOfABit
<1>2. drift \in Nat /\ time \in Nat
  BY DriftGrows DEF OnTheWay
<1>3. left \in Nat /\ (slot # -1 => left >= 1) /\ cycles \in Nat /\ cycles > 1
      /\ slot \in Int
  BY DEF OnTheWay
<1> HIDE DEF drift, period
<1>4. CASE slot = bit /\ Near(cycles - left, drift, div)
  <2>1. CASE left > 1
    <3>1. next_slot = bit /\ next_left = left - 1
      BY <1>3, <1>4, <2>1 DEF Turns
    <3>2. Near(cycles - 1 - next_left, drift, div)
      BY <1>1, <1>2, <1>3, <1>4, <3>1 DEF Near, period
    <3> QED
      BY <3>1, <3>2 DEF InTouch, drift
  <2>2. CASE left = 1
    <3>1. cycles - 1 = 1 /\ drift = 0
      BY <1>1, <1>2, <1>3, <1>4, <2>2 DEF Near, period
    <3>2. /\ next_slot # -1 => next_left = time
          /\ next_slot \in IF bit = DataBits + 1 THEN {-1, 0} ELSE {bit + 1}
      BY <1>3, <1>4, <2>2 DEF Turns
    <3> QED
      BY <3>1, <3>2 DEF InTouch, drift
  <2> QED
    BY <1>3, <1>4, <2>1, <2>2
<1>5. CASE slot # -1 /\ slot = bit - 1 /\ Near(cycles - left - time, drift, div)
  <2>1. CASE left > 1
    <3>1. next_slot = slot /\ next_left = left - 1
      BY <1>3, <1>5, <2>1 DEF Turns
    <3>2. Near(cycles - 1 - next_left - time, drift, div)
      BY <1>1, <1>2, <1>3, <1>5, <3>1 DEF Near, period
    <3> QED
      BY <1>5, <3>1, <3>2 DEF InTouch, drift
  <2>2. CASE left = 1
    <3>1. next_slot = bit /\ next_left = time
      BY <1>3, <1>5, <2>2 DEF Turns, OnTheWay
    <3>2. Near(cycles - 1 - next_left, drift, div)
      BY <1>1, <1>2, <1>3, <1>5, <2>2, <3>1 DEF Near, period
    <3> QED
      BY <3>1, <3>2 DEF InTouch, drift
  <2> QED
    BY <1>3, <1>5, <2>1, <2>2
<1> QED
  BY <1>3, <1>4, <1>5 DEF InTouch, drift

(* At its end, when the receiver cannot be a bit ahead: *)
LEMMA NotABitAhead ==
    ASSUME NEW div \in 0 .. MaxDivider, NEW left, NEW time \in Nat,
           KeepsUp(time, div), left \in 1 .. time,
           NEW bit \in 0 .. DataBits + 1, NEW cycles \in 1 .. MidOf(div)
    PROVE  ~Near(cycles - left - time, Drift(bit, time, div), div)
<1> USE UartAssumption
<1> DEFINE drift == Drift(bit, time, div)  over == Over(time, div)
           period == PeriodOf(div)  half == HalfOf(div)  b == BitOf(div)
<1>1. /\ period \in Nat /\ b \in Nat /\ half \in Nat /\ MidOf(div) = b - half + 1
  BY CyclesOfABit
<1>2. /\ over \in Nat /\ time = b + over /\ drift \in Nat
      /\ drift - over <= half - period + 1
  BY DriftGrows
<1>3. left \in Nat /\ left >= 1 /\ cycles \in Nat
  OBVIOUS
<1> HIDE DEF drift, over, period, half, b
<1>4. ~(cycles - left - time >= 2 - period - drift)
  <2>1. cycles <= b - half + 1
    BY <1>1, <1>3
  <2> QED
    BY <1>1, <1>2, <1>3, <2>1
<1> QED
  BY <1>4 DEF Near, period, drift

(* ... it goes on to the next, *)
LEMMA TouchNextBit ==
    ASSUME NEW div \in 0 .. MaxDivider, NEW slot, NEW left, NEW time,
           OnTheWay(slot, left, time), KeepsUp(time, div),
           NEW next_slot, NEW next_left,
           Turns(slot, left, next_slot, next_left, time),
           NEW bit \in 0 .. DataBits,
           InTouch(bit, 1, slot, left, time, div)
    PROVE  InTouch(bit + 1, BitOf(div), next_slot, next_left, time, div)
<1> USE UartAssumption
<1> DEFINE drift == Drift(bit, time, div)  over == Over(time, div)
           period == PeriodOf(div)  b == BitOf(div)
           next == Drift(bit + 1, time, div)
<1>1. period \in Nat /\ period >= 2 /\ b \in Nat /\ 1 <= MidOf(div)
      /\ MidOf(div) \in Nat /\ b > 2
  BY CyclesOfABit
<1>2. /\ drift \in Nat /\ time \in Nat /\ over \in Nat /\ time = b + over
      /\ next = drift + over /\ drift >= over /\ bit \in 0 .. DataBits + 1
  BY DriftGrows DEF OnTheWay
<1>3. left \in Nat /\ (slot # -1 => left >= 1) /\ slot \in Int /\ bit \in Nat
      /\ bit # DataBits + 1 /\ bit <= DataBits
  BY DEF OnTheWay
<1> HIDE DEF drift, period, over, b, next
<1>4. CASE slot = bit /\ Near(1 - left, drift, div)
  <2>1. CASE left > 1
    <3>1. next_slot = bit /\ next_left = left - 1 /\ next_slot = bit + 1 - 1
      BY <1>3, <1>4, <2>1 DEF Turns
    <3>2. Near(b - next_left - time, next, div)
      BY <1>1, <1>2, <1>3, <1>4, <3>1 DEF Near, period
    <3> QED
      BY <1>3, <3>1, <3>2 DEF InTouch, next, b
  <2>2. CASE left = 1
    <3>1. next_slot = bit + 1 /\ next_left = time
      BY <1>3, <1>4, <2>2 DEF Turns
    <3>2. Near(b - next_left, next, div)
      BY <1>1, <1>2, <1>3, <1>4, <2>2, <3>1 DEF Near, period
    <3> QED
      BY <3>1, <3>2 DEF InTouch, next, b
  <2> QED
    BY <1>3, <1>4, <2>1, <2>2
<1>5. ~(slot # -1 /\ Near(1 - left - time, drift, div))
  <2>1. 1 \in 1 .. MidOf(div)
    BY <1>1
  <2>2. slot # -1 => left \in 1 .. time
    BY DEF OnTheWay
  <2> QED
    BY <1>2, <2>1, <2>2, NotABitAhead DEF drift
<1>6. CASE drift = 0 /\ left = time /\ slot = bit + 1
  <2>1. over = 0 /\ left > 1
    BY <1>1, <1>2, <1>6
  <2>2. next_slot = bit + 1 /\ next_left = left - 1
    BY <1>3, <1>6, <2>1 DEF Turns
  <2>3. Near(b - next_left, next, div)
    BY <1>1, <1>2, <1>6, <2>1, <2>2 DEF Near, period
  <2> QED
    BY <2>2, <2>3 DEF InTouch, next, b
<1> QED
  BY <1>3, <1>4, <1>5, <1>6 DEF InTouch, drift

(* ... and after the stop bit it waits for the next byte. *)
LEMMA TouchFinish ==
    ASSUME NEW div \in 0 .. MaxDivider, NEW slot, NEW left, NEW time,
           OnTheWay(slot, left, time), KeepsUp(time, div),
           NEW next_slot, NEW next_left,
           Turns(slot, left, next_slot, next_left, time),
           InTouch(DataBits + 1, 1, slot, left, time, div)
    PROVE  Waits(next_slot, next_left, time, PeriodOf(div), div)
<1> USE UartAssumption
<1> DEFINE drift == Drift(DataBits + 1, time, div)
<1>1. /\ left \in Nat /\ (slot # -1 => left >= 1) /\ slot \in Int
      /\ time \in Nat /\ DataBits + 1 \in 0 .. DataBits + 1
  BY DEF OnTheWay
<1>2. 1 \in 1 .. MidOf(div) /\ time > 2
  BY <1>1, CyclesOfABit, DriftGrows
<1>3. ~(slot # -1 /\ Near(1 - left - time, drift, div))
  BY <1>1, <1>2, NotABitAhead DEF OnTheWay
<1>4. CASE slot = DataBits + 1
  BY <1>1, <1>4 DEF Turns, Waits
<1>5. CASE slot \in {-1, 0} /\ (slot # -1 => left = time)
  BY <1>1, <1>2, <1>5 DEF Turns, Waits
<1> QED
  BY <1>3, <1>4, <1>5 DEF InTouch

(* Waiting, while the line is high. *)
LEMMA WaitGoesOn ==
    ASSUME NEW div \in 0 .. MaxDivider, NEW slot, NEW left, NEW time,
           OnTheWay(slot, left, time), slot # 0,
           NEW next_slot, NEW next_left, NEW edge_in, NEW next_edge_in,
           Turns(slot, left, next_slot, next_left, time),
           Waits(slot, left, time, edge_in, div)
    PROVE  Waits(next_slot, next_left, time, next_edge_in, div)
<1> USE UartAssumption
<1> QED
  BY DEF OnTheWay, Waits, Turns

(* It sees the start bit in its first cycle, or in its second. *)
LEMMA StartIsSeen ==
    ASSUME NEW div \in 0 .. MaxDivider, NEW left, NEW time,
           OnTheWay(0, left, time), KeepsUp(time, div),
           NEW next_slot, NEW next_left, NEW edge_in \in 1 .. PeriodOf(div),
           NEW next_edge_in \in 1 .. PeriodOf(div),
           edge_in # 1 => next_edge_in = edge_in - 1,
           Turns(0, left, next_slot, next_left, time),
           Waits(0, left, time, edge_in, div)
    PROVE  InTouch(0, BitOf(div) - PeriodOf(div) + next_edge_in, next_slot,
                   next_left, time, div)
<1> USE UartAssumption
<1> DEFINE drift == Drift(0, time, div)  over == Over(time, div)
           period == PeriodOf(div)  b == BitOf(div)
<1>1. period \in Nat /\ period >= 2 /\ b \in Nat /\ b > 3
  <2>1. period \in Nat /\ period >= 2 /\ b \in Nat /\ HalfOf(div) \in Nat
        /\ HalfOf(div) >= period /\ b - HalfOf(div) >= period
    BY CyclesOfABit
  <2> HIDE DEF period, b
  <2> QED
    BY <2>1
<1>2. /\ drift = over /\ time \in Nat /\ over \in Nat /\ time = b + over
  BY DriftGrows DEF OnTheWay
<1>3. left \in Nat /\ left > 1 /\ (left = time \/ (left = time - 1 /\ edge_in = period))
  <2>1. left \in Nat
    BY DEF OnTheWay
  <2>2. left = time \/ (left = time - 1 /\ edge_in = period)
    BY DEF Waits
  <2>3. time > 3 /\ time \in Nat
    <3> HIDE DEF b, over
    <3> QED
      BY <1>1, <1>2
  <2>4. left = time => left > 1
    BY <2>3
  <2>5. left = time - 1 => left > 1
    BY <2>3
  <2> QED
    BY <2>1, <2>2, <2>4, <2>5
<1>4. next_slot = 0 /\ next_left = left - 1
  BY <1>3 DEF Turns
<1> HIDE DEF drift, over, period, b
<1> DEFINE cycles == b - period + next_edge_in
<1>5. Near(cycles - next_left, drift, div)
  <2>1. next_edge_in \in Int /\ next_edge_in >= 1 /\ next_edge_in <= period
    BY <1>1 DEF period
  <2>2. left = time \/ (left = time - 1 /\ next_edge_in = period - 1)
    BY <1>1, <1>3
  <2>3. /\ cycles - next_left >= 2 - period - drift
        /\ cycles - next_left <= 1 - drift
    BY <1>1, <1>2, <1>3, <1>4, <2>1, <2>2
  <2> HIDE DEF cycles
  <2> QED
    BY <2>3 DEF Near, period
<1> HIDE DEF cycles
<1>6. InTouch(0, cycles, next_slot, next_left, time, div)
  BY <1>4, <1>5 DEF InTouch, drift
<1> QED
  BY <1>6 DEF cycles, period, b

-----------------------------------------------------------------------------
(* Where the receiver is in its frame. *)
RxLeft(div) == LeftOf(rx.edges_counter, EdgeIn(div), div)

RxSlot == CASE rx.state = "START"  -> 0
            [] rx.state = "ACTIVE" -> rx.bits_counter + 1
            [] OTHER               -> DataBits + 1

(* It stays in a bit, or goes on to the next. *)
StaysInBit(div) ==
    /\ rx.state # "IDLE" /\ RxLeft(div) > 1
    /\ rx'.state = rx.state /\ rx'.bits_counter = rx.bits_counter
    /\ RxLeft(div)' = RxLeft(div) - 1

EntersBit(div) ==
    /\ rx.state \in {"START", "ACTIVE"} /\ RxLeft(div) = 1
    /\ RxLeft(div)' = BitOf(div)
    /\ \/ /\ rx.state = "START"
          /\ rx'.state = "ACTIVE" /\ rx'.bits_counter = rx.bits_counter
       \/ /\ rx.state = "ACTIVE" /\ rx.bits_counter # DataBits - 1
          /\ rx'.state = "ACTIVE" /\ rx'.bits_counter = rx.bits_counter + 1
       \/ /\ rx.state = "ACTIVE" /\ rx.bits_counter = DataBits - 1
          /\ rx'.state = "STOP" /\ rx'.bits_counter = 0

LeavesFrame(div) ==
    /\ rx.state = "STOP" /\ RxLeft(div) = 1
    /\ rx'.state = "IDLE" /\ rx'.bits_counter = rx.bits_counter
    /\ rx'.edges_counter = 0 /\ EdgeIn(div)' = PeriodOf(div)

StaysIdle(level) ==
    /\ rx.state = "IDLE" /\ level # 0
    /\ rx'.state = "IDLE" /\ rx'.bits_counter = rx.bits_counter
    /\ rx'.edges_counter = rx.edges_counter

EntersFrame(level) ==
    /\ rx.state = "IDLE" /\ level = 0
    /\ rx'.state = "START" /\ rx'.bits_counter = rx.bits_counter
    /\ rx'.edges_counter = rx.edges_counter

(* What it does in every cycle to the bits that it has.                    *)
Takes(level, div) ==
    /\ rx'.rx_data_valid <=> rx.state = "STOP" /\ RxLeft(div) = MidOf(div)
    /\ rx'.rx_data_valid => rx'.rx_data = rx.rx_buffer /\ (rx'.error <=> level = 0)
    /\ ~rx'.rx_data_valid => (rx'.error => rx.error)
    /\ rx.state \in {"ACTIVE", "STOP"} =>
          rx'.rx_buffer = IF rx.state = "ACTIVE" /\ RxLeft(div) = MidOf(div)
                          THEN Rx!ShiftedIn(rx.rx_buffer, level)
                          ELSE rx.rx_buffer

(* These are its cycles.                                                   *)
LEMMA ReceiverMoves ==
    ASSUME UartTypeOK, NEW div \in 0 .. MaxDivider, RunsWith(div),
           NEW divider, Clock!Cycle(TRUE, FALSE, divider),
           NEW level, Rx!Cycle(clock.rising_edge, level)
    PROVE  /\ RxLeft(div) \in 1 .. BitOf(div)
           /\ \/ StaysIdle(level)
              \/ EntersFrame(level)
              \/ StaysInBit(div)
              \/ EntersBit(div)
              \/ LeavesFrame(div)
           /\ Takes(level, div)
<1> DEFINE edges == rx.edges_counter  edge_in == EdgeIn(div)
           edge == clock.rising_edge  period == PeriodOf(div)
           taken == Rx!Taken(edge, level)
<1>1. /\ edges \in 0 .. Oversampling - 1 /\ edge \in BOOLEAN
      /\ Oversampling \in Nat /\ Oversampling > 1 /\ DataBits \in Nat \ {0}
  BY UartAssumption DEF UartTypeOK, Rx!TypeOK, Clock!TypeOK
<1>2. /\ edge_in \in 1 .. period
      /\ edge <=> edge_in = 1
      /\ edge_in' = IF edge THEN period ELSE edge_in - 1
      /\ edge_in' \in 1 .. period
  BY EdgesGoRound
<1>3. /\ LeftOf(edges, edge_in, div) \in 1 .. BitOf(div)
      /\ edge_in = 1 /\ edges = Oversampling - 1 <=> LeftOf(edges, edge_in, div) = 1
      /\ edge_in = 1 /\ edges = Oversampling \div 2 - 1 <=>
            LeftOf(edges, edge_in, div) = MidOf(div)
      /\ LeftOf(edges, edge_in - 1, div) = LeftOf(edges, edge_in, div) - 1
      /\ edge_in = 1 => LeftOf(edges + 1, period, div) = LeftOf(edges, edge_in, div) - 1
      /\ LeftOf(0, period, div) = BitOf(div)
  <2>1. edges \in 0 .. Oversampling - 1 /\ edge_in \in 1 .. PeriodOf(div)
    BY <1>1, <1>2
  <2> HIDE DEF edges, edge_in
  <2> QED
    BY <2>1, CyclesLeft
<1>4. /\ RxLeft(div) = LeftOf(edges, edge_in, div)
      /\ RxLeft(div)' = LeftOf(rx'.edges_counter, edge_in', div)
  BY DEF RxLeft, LeftOf, PeriodOf
<1>5. /\ Rx!LastEdge(edge) <=> RxLeft(div) = 1
      /\ Rx!Middle(edge) <=> RxLeft(div) = MidOf(div)
  BY <1>2, <1>3, <1>4 DEF Rx!LastEdge, Rx!Middle
<1>6. RxLeft(div) \in 1 .. BitOf(div)
  BY <1>3, <1>4
<1>7. rx \in [state : Rx!States, bits_counter : 0 .. DataBits - 1,
              edges_counter : 0 .. Oversampling - 1,
              rx_data_valid : BOOLEAN, rx_data : Rx!Byte,
              error : BOOLEAN, rx_buffer : Rx!Byte]
  BY DEF UartTypeOK, Rx!TypeOK
<1> HIDE DEF edges, edge_in, edge, period
<1>8. rx.state # "IDLE" =>
        /\ taken.state = rx.state /\ taken.bits_counter = rx.bits_counter
        /\ taken.edges_counter = rx.edges_counter
        /\ taken = [state |-> taken.state, bits_counter |-> taken.bits_counter,
                    edges_counter |-> taken.edges_counter,
                    rx_data_valid |-> taken.rx_data_valid,
                    rx_data |-> taken.rx_data, error |-> taken.error,
                    rx_buffer |-> taken.rx_buffer]
  BY <1>7 DEF Rx!Taken
<1>9. rx.state # "IDLE" =>
        /\ taken.rx_data_valid <=> rx.state = "STOP" /\ RxLeft(div) = MidOf(div)
        /\ taken.rx_data_valid => /\ taken.rx_data = rx.rx_buffer
                                  /\ taken.error <=> level = 0
        /\ ~taken.rx_data_valid => (taken.error => rx.error)
        /\ rx.state \in {"ACTIVE", "STOP"} =>
              taken.rx_buffer = IF rx.state = "ACTIVE" /\ RxLeft(div) = MidOf(div)
                                THEN Rx!ShiftedIn(rx.rx_buffer, level)
                                ELSE rx.rx_buffer
  <2>1. CASE rx.state = "START"
    BY <1>7, <2>1 DEF Rx!Taken
  <2>2. CASE rx.state = "ACTIVE"
    BY <1>5, <1>7, <2>2 DEF Rx!Taken
  <2>3. CASE rx.state = "STOP"
    BY <1>5, <1>7, <2>3 DEF Rx!Taken
  <2> QED
    BY <1>7, <2>1, <2>2, <2>3 DEF Rx!States
<1> HIDE DEF taken
<1>10. CASE Rx!Rest(level)
  <2>1. StaysIdle(level)
    BY <1>7, <1>10 DEF Rx!Rest, StaysIdle
  <2>2. Takes(level, div)
    BY <1>7, <1>10 DEF Rx!Rest, Takes
  <2> QED
    BY <1>6, <2>1, <2>2
<1>11. CASE Rx!Detect(level)
  <2>1. EntersFrame(level)
    BY <1>7, <1>11 DEF Rx!Detect, EntersFrame
  <2>2. Takes(level, div)
    BY <1>7, <1>11 DEF Rx!Detect, Takes
  <2> QED
    BY <1>6, <2>1, <2>2
<1>12. ASSUME rx.state # "IDLE", NEW state, NEW bits, NEW count,
              rx' = [taken EXCEPT !.state = state, !.bits_counter = bits,
                                  !.edges_counter = count]
       PROVE  /\ rx'.state = state /\ rx'.bits_counter = bits
              /\ rx'.edges_counter = count
              /\ Takes(level, div)
  <2>1. /\ rx'.state = state /\ rx'.bits_counter = bits
        /\ rx'.edges_counter = count
        /\ rx'.rx_data_valid = taken.rx_data_valid /\ rx'.rx_data = taken.rx_data
        /\ rx'.error = taken.error /\ rx'.rx_buffer = taken.rx_buffer
    BY <1>8, <1>12
  <2> QED
    BY <1>9, <1>12, <2>1 DEF Takes
<1>13. CASE Rx!WithinBit(edge, level)
  <2>1. /\ rx.state # "IDLE" /\ RxLeft(div) # 1
        /\ rx' = [taken EXCEPT !.state = rx.state, !.bits_counter = rx.bits_counter,
                     !.edges_counter = IF edge THEN edges + 1 ELSE edges]
    BY <1>5, <1>8, <1>13 DEF Rx!WithinBit, taken, edges
  <2>2. /\ rx'.state = rx.state /\ rx'.bits_counter = rx.bits_counter
        /\ rx'.edges_counter = IF edge THEN edges + 1 ELSE edges
        /\ Takes(level, div)
    BY <1>12, <2>1
  <2>3. RxLeft(div)' = RxLeft(div) - 1
    BY <1>1, <1>2, <1>3, <1>4, <2>2
  <2>4. RxLeft(div) > 1
    BY <1>6, <2>1, CyclesOfABit
  <2>5. StaysInBit(div)
    BY <2>1, <2>2, <2>3, <2>4 DEF StaysInBit
  <2> QED
    BY <1>6, <2>2, <2>5
<1>14. ASSUME Rx!LastEdge(edge), rx'.edges_counter = 0
       PROVE  RxLeft(div)' = BitOf(div) /\ edge_in' = period
  BY <1>2, <1>3, <1>4, <1>14 DEF Rx!LastEdge
<1>15. CASE Rx!FirstBit(edge, level)
  <2>1. /\ rx.state = "START" /\ Rx!LastEdge(edge)
        /\ rx' = [taken EXCEPT !.state = "ACTIVE", !.bits_counter = rx.bits_counter,
                               !.edges_counter = 0]
    BY <1>8, <1>15 DEF Rx!FirstBit, taken
  <2>2. /\ rx'.state = "ACTIVE" /\ rx'.bits_counter = rx.bits_counter
        /\ rx'.edges_counter = 0 /\ Takes(level, div)
    BY <1>12, <2>1
  <2>3. EntersBit(div)
    BY <1>5, <1>14, <2>1, <2>2 DEF EntersBit
  <2> QED
    BY <1>6, <2>2, <2>3
<1>16. CASE Rx!NextBit(edge, level)
  <2>1. /\ rx.state = "ACTIVE" /\ Rx!LastEdge(edge) /\ rx.bits_counter # DataBits - 1
        /\ rx' = [taken EXCEPT !.state = "ACTIVE",
                     !.bits_counter = rx.bits_counter + 1, !.edges_counter = 0]
    BY <1>8, <1>16 DEF Rx!NextBit, taken
  <2>2. /\ rx'.state = "ACTIVE" /\ rx'.bits_counter = rx.bits_counter + 1
        /\ rx'.edges_counter = 0 /\ Takes(level, div)
    BY <1>12, <2>1
  <2>3. EntersBit(div)
    BY <1>5, <1>14, <2>1, <2>2 DEF EntersBit
  <2> QED
    BY <1>6, <2>2, <2>3
<1>17. CASE Rx!StopBit(edge, level)
  <2>1. /\ rx.state = "ACTIVE" /\ Rx!LastEdge(edge) /\ rx.bits_counter = DataBits - 1
        /\ rx' = [taken EXCEPT !.state = "STOP", !.bits_counter = 0,
                               !.edges_counter = 0]
    BY <1>17 DEF Rx!StopBit, taken
  <2>2. /\ rx'.state = "STOP" /\ rx'.bits_counter = 0
        /\ rx'.edges_counter = 0 /\ Takes(level, div)
    BY <1>12, <2>1
  <2>3. EntersBit(div)
    BY <1>5, <1>14, <2>1, <2>2 DEF EntersBit
  <2> QED
    BY <1>6, <2>2, <2>3
<1>18. CASE Rx!Finish(edge, level)
  <2>1. /\ rx.state = "STOP" /\ Rx!LastEdge(edge)
        /\ rx' = [taken EXCEPT !.state = "IDLE", !.bits_counter = rx.bits_counter,
                               !.edges_counter = 0]
    BY <1>8, <1>18 DEF Rx!Finish, taken
  <2>2. /\ rx'.state = "IDLE" /\ rx'.bits_counter = rx.bits_counter
        /\ rx'.edges_counter = 0 /\ Takes(level, div)
    BY <1>12, <2>1
  <2>3. LeavesFrame(div)
    BY <1>5, <1>14, <2>1, <2>2 DEF LeavesFrame, edge_in, period
  <2> QED
    BY <1>6, <2>2, <2>3
<1> QED
  BY <1>10, <1>11, <1>13, <1>15, <1>16, <1>17, <1>18 DEF Rx!Cycle, edge

-----------------------------------------------------------------------------
(* What the receiver knows of the host's line: where the host is, the bits *)
(* of the byte that it is saying, and how many bytes it has said.  A line  *)
(* is in order when what is left of it is its end.                         *)
LevelOf(h) ==
    CASE h.slot = 0               -> 0
      [] h.slot \in 1 .. DataBits -> Head(h.queue)[h.slot - 1]
      [] OTHER                    -> 1

RestOf(queue, line) ==
    /\ Len(queue) <= Len(line)
    /\ \A k \in 1 .. Len(queue) : queue[k] = line[Len(line) - Len(queue) + k]

LineKept(h) ==
    /\ h.line \in Seq(Rx!Byte) /\ h.queue \in Seq(Rx!Byte)
    /\ OnTheWay(h.slot, h.left, h.bit_time)
    /\ h.slot # -1 => h.queue # <<>>
    /\ RestOf(h.queue, h.line)

RxFollows(h, div) ==
    /\ rx.state # "ACTIVE" => rx.bits_counter = 0
    /\ rx.state = "IDLE" =>
          /\ rx.edges_counter = 0
          /\ Waits(h.slot, h.left, h.bit_time, EdgeIn(div), div)
    /\ rx.state # "IDLE" =>
          InTouch(RxSlot, RxLeft(div), h.slot, h.left, h.bit_time, div)

(* It has taken the bit that it is in. *)
Past(div) == RxLeft(div) < MidOf(div)

BitsTaken(div) == rx.bits_counter + (IF Past(div) THEN 1 ELSE 0)

(* The last bits of the buffer are the first ones of the byte.             *)
HoldsBits(n, buffer, byte) ==
    \A k \in 0 .. DataBits - 1 :
        k >= DataBits - n => buffer[k] = byte[k - (DataBits - n)]

RxBits(h, div) ==
    /\ rx.state = "ACTIVE" =>
          HoldsBits(BitsTaken(div), rx.rx_buffer, Head(h.queue))
    /\ rx.state = "STOP" /\ ~Past(div) => rx.rx_buffer = Head(h.queue)

(* The bytes that it has taken. *)
RxTook(h, div) ==
    Len(h.line) - Len(h.queue) +
        (IF h.slot = DataBits + 1
            /\ (rx.state = "IDLE" \/ (rx.state = "STOP" /\ Past(div)))
         THEN 1 ELSE 0)

(* Cycles in which it will surely take no byte. *)
MaxWait(div) == (DataBits + 1) * BitOf(div) - PeriodOf(div)

QuietFor(div) ==
    CASE rx.state = "IDLE"   -> MaxWait(div)
      [] rx.state = "START"  -> RxLeft(div) + DataBits * BitOf(div)
      [] rx.state = "ACTIVE" -> RxLeft(div) + (DataBits - 1 - rx.bits_counter) * BitOf(div)
      [] OTHER               -> IF Past(div) THEN MaxWait(div) ELSE 0

(* The level is a bit, and low in a start bit only if no data bit is.      *)
LEMMA LevelOfLine ==
    ASSUME NEW h, LineKept(h)
    PROVE  /\ LevelOf(h) \in Bit
           /\ h.slot = 0 => LevelOf(h) = 0
           /\ h.slot \in {-1, DataBits + 1} => LevelOf(h) = 1
           /\ h.slot \in 1 .. DataBits => LevelOf(h) = Head(h.queue)[h.slot - 1]
           /\ h.slot # -1 => Head(h.queue) \in Rx!Byte
<1> USE UartAssumption
<1>1. h.slot \in -1 .. DataBits + 1
  BY DEF LineKept, OnTheWay
<1>2. h.slot # -1 => Head(h.queue) \in Rx!Byte
  BY DEF LineKept
<1>3. h.slot \in 1 .. DataBits => Head(h.queue)[h.slot - 1] \in Bit
  BY <1>2 DEF Rx!Byte
<1> QED
  BY <1>1, <1>2, <1>3 DEF LevelOf

(* The receiver follows the host. *)
LEMMA ReceiverFollows ==
    ASSUME UartTypeOK, NEW div \in 0 .. MaxDivider, RunsWith(div),
           NEW divider, Clock!Cycle(TRUE, FALSE, divider),
           NEW CONSTANT h, NEW CONSTANT g, LineKept(h), LineTurns(h, g),
           KeepsUp(h.bit_time, div), RxFollows(h, div),
           Rx!Cycle(clock.rising_edge, LevelOf(h))
    PROVE  RxFollows(g, div)'
<1> DEFINE slot == h.slot  left == h.left  time == h.bit_time
<1>1. /\ OnTheWay(slot, left, time) /\ KeepsUp(time, div) /\ time \in Nat
      /\ Turns(slot, left, g.slot, g.left, time) /\ g.bit_time = time
  BY DEF LineKept, LineTurns, OnTheWay
<1>2. /\ DataBits \in Nat \ {0} /\ rx.bits_counter \in 0 .. DataBits - 1
      /\ rx.state \in {"IDLE", "START", "ACTIVE", "STOP"}
  BY UartAssumption DEF UartTypeOK, Rx!TypeOK, Rx!States
<1>3. /\ EdgeIn(div) \in 1 .. PeriodOf(div)
      /\ EdgeIn(div)' \in 1 .. PeriodOf(div)
      /\ EdgeIn(div) # 1 => EdgeIn(div)' = EdgeIn(div) - 1
  BY EdgesGoRound
<1>4. /\ RxLeft(div) \in 1 .. BitOf(div)
      /\ \/ StaysIdle(LevelOf(h))
         \/ EntersFrame(LevelOf(h))
         \/ StaysInBit(div)
         \/ EntersBit(div)
         \/ LeavesFrame(div)
  BY ReceiverMoves
<1>5. RxSlot \in 0 .. DataBits + 1
  BY <1>2 DEF RxSlot
<1> HIDE DEF slot, left, time
<1>6. CASE StaysIdle(LevelOf(h))
  <2>1. Waits(slot, left, time, EdgeIn(div), div)
    BY <1>6 DEF StaysIdle, RxFollows, slot, left, time
  <2>2. slot # 0
    BY <1>6, LevelOfLine DEF StaysIdle, slot
  <2>3. Waits(g.slot, g.left, time, EdgeIn(div)', div)
    BY <1>1, <2>1, <2>2, WaitGoesOn
  <2> QED
    BY <1>1, <1>6, <2>3 DEF StaysIdle, RxFollows, Waits
<1>7. CASE EntersFrame(LevelOf(h))
  <2>1. Waits(slot, left, time, EdgeIn(div), div)
    BY <1>7 DEF EntersFrame, RxFollows, slot, left, time
  <2>2. slot = 0
    <3>1. slot \in {-1, DataBits + 1, 0}
      BY <2>1 DEF Waits
    <3>2. slot \in {-1, DataBits + 1} => LevelOf(h) # 0
      BY LevelOfLine DEF slot
    <3> QED
      BY <1>7, <3>1, <3>2 DEF EntersFrame
  <2>3. InTouch(0, BitOf(div) - PeriodOf(div) + EdgeIn(div)', g.slot, g.left,
                time, div)
    BY <1>1, <1>3, <2>1, <2>2, StartIsSeen
  <2>4. rx.edges_counter = 0 /\ rx.bits_counter = 0
        /\ rx'.edges_counter = 0 /\ rx'.bits_counter = 0 /\ rx'.state = "START"
    BY <1>7 DEF RxFollows, EntersFrame
  <2>5. RxLeft(div)' = BitOf(div) - PeriodOf(div) + EdgeIn(div)'
    <3>1. RxLeft(div)' = LeftOf(0, EdgeIn(div)', div)
      BY <2>4 DEF RxLeft, LeftOf, PeriodOf
    <3>2. 0 \in 0 .. Oversampling - 1
      BY UartAssumption
    <3> DEFINE edge_in == EdgeIn(div)'
    <3>3. edge_in \in 1 .. PeriodOf(div)
      BY <1>3
    <3> HIDE DEF edge_in
    <3>4. LeftOf(0, edge_in, div) = BitOf(div) - PeriodOf(div) + edge_in
      BY <3>2, <3>3, CyclesLeft
    <3> QED
      BY <3>1, <3>4 DEF edge_in
  <2>6. RxSlot' = 0
    BY <2>4 DEF RxSlot
  <2>7. InTouch(RxSlot', RxLeft(div)', g.slot, g.left, g.bit_time, div)
    BY <1>1, <2>3, <2>5, <2>6
  <2> QED
    BY <2>4, <2>7 DEF RxFollows, InTouch, Drift, Near, Over, BitOf, PeriodOf
<1>8. rx.state # "IDLE" => InTouch(RxSlot, RxLeft(div), slot, left, time, div)
  BY DEF RxFollows, slot, left, time
<1>9. CASE StaysInBit(div)
  <2>1. RxLeft(div) \in 2 .. BitOf(div)
    BY <1>4, <1>9, CyclesOfABit DEF StaysInBit
  <2>2. InTouch(RxSlot, RxLeft(div) - 1, g.slot, g.left, time, div)
    <3> DEFINE cycles == RxLeft(div)  bit == RxSlot
    <3>1. cycles \in 2 .. BitOf(div) /\ bit \in 0 .. DataBits + 1
          /\ InTouch(bit, cycles, slot, left, time, div)
      BY <1>5, <1>8, <1>9, <2>1 DEF StaysInBit
    <3> HIDE DEF cycles, bit
    <3>2. InTouch(bit, cycles - 1, g.slot, g.left, time, div)
      BY <1>1, <3>1, TouchWithinBit
    <3> QED
      BY <3>2 DEF cycles, bit
  <2>3. RxSlot' = RxSlot /\ RxLeft(div)' = RxLeft(div) - 1
    BY <1>9 DEF StaysInBit, RxSlot
  <2>4. InTouch(RxSlot', RxLeft(div)', g.slot, g.left, g.bit_time, div)
    BY <1>1, <2>2, <2>3
  <2>5. rx'.state # "IDLE" /\ (rx'.state # "ACTIVE" => rx'.bits_counter = 0)
    BY <1>9 DEF StaysInBit, RxFollows
  <2> QED
    BY <2>4, <2>5 DEF RxFollows, InTouch, Drift, Near, Over, BitOf, PeriodOf
<1>10. CASE EntersBit(div)
  <2>1. /\ RxLeft(div) = 1 /\ RxLeft(div)' = BitOf(div)
        /\ RxSlot \in 0 .. DataBits /\ RxSlot' = RxSlot + 1
        /\ rx'.state # "IDLE" /\ (rx'.state # "ACTIVE" => rx'.bits_counter = 0)
        /\ rx.state # "IDLE"
    <3>1. CASE rx.state = "START"
      <4>1. rx.bits_counter = 0
        BY <3>1 DEF RxFollows
      <4> QED
        BY <1>2, <1>10, <3>1, <4>1 DEF EntersBit, RxSlot
    <3>2. CASE rx.state = "ACTIVE"
      BY <1>2, <1>10, <3>2 DEF EntersBit, RxSlot
    <3> QED
      BY <1>10, <3>1, <3>2 DEF EntersBit
  <2>2. InTouch(RxSlot + 1, BitOf(div), g.slot, g.left, time, div)
    <3> DEFINE bit == RxSlot
    <3>1. bit \in 0 .. DataBits /\ InTouch(bit, 1, slot, left, time, div)
      BY <1>8, <2>1
    <3> HIDE DEF bit
    <3>2. InTouch(bit + 1, BitOf(div), g.slot, g.left, time, div)
      BY <1>1, <3>1, TouchNextBit
    <3> QED
      BY <3>2 DEF bit
  <2>3. InTouch(RxSlot', RxLeft(div)', g.slot, g.left, g.bit_time, div)
    BY <1>1, <2>1, <2>2
  <2> QED
    BY <2>1, <2>3 DEF RxFollows, InTouch, Drift, Near, Over, BitOf, PeriodOf
<1>11. CASE LeavesFrame(div)
  <2>1. InTouch(DataBits + 1, 1, slot, left, time, div)
    BY <1>8, <1>11 DEF LeavesFrame, RxSlot
  <2>2. Waits(g.slot, g.left, time, PeriodOf(div), div)
    BY <1>1, <2>1, TouchFinish
  <2>3. rx'.state = "IDLE" /\ rx'.edges_counter = 0 /\ rx'.bits_counter = 0
        /\ EdgeIn(div)' = PeriodOf(div)
    BY <1>11 DEF LeavesFrame, RxFollows
  <2> QED
    BY <1>1, <2>2, <2>3 DEF RxFollows, Waits
<1> QED
  BY <1>4, <1>6, <1>7, <1>9, <1>10, <1>11

(* A bit of the receiver's: where the host is while the receiver is in it, *)
(* before and after its middle, and that it does not turn to another byte  *)
(* before the receiver has taken the stop bit.                             *)
LEMMA HostStaysAtByte ==
    ASSUME UartTypeOK, NEW div \in 0 .. MaxDivider,
           NEW h, LineKept(h), KeepsUp(h.bit_time, div), RxFollows(h, div),
           RxLeft(div) \in 1 .. BitOf(div), rx.state # "IDLE"
    PROVE  /\ rx.state = "START" => ~ByteEnds(h.slot, h.left)
                                    /\ h.slot # DataBits + 1
                                    /\ (h.slot = DataBits => DataBits = 1 /\ h.left > 1)
           /\ rx.state = "ACTIVE" => h.slot # -1 /\ ~ByteEnds(h.slot, h.left)
           /\ rx.state = "STOP" /\ RxLeft(div) > 2 =>
                 h.slot \in {DataBits, DataBits + 1} /\ ~ByteEnds(h.slot, h.left)
           /\ rx.state = "STOP" /\ RxLeft(div) <= MidOf(div) =>
                 h.slot \in {DataBits + 1, -1, 0}
                 /\ (h.slot # DataBits + 1 => RxLeft(div) = 1)
           /\ /\ rx.state \in {"ACTIVE", "STOP"} /\ RxLeft(div) = MidOf(div)
              => h.slot = RxSlot /\ h.left > 1
<1> DEFINE slot == h.slot  left == h.left  time == h.bit_time
           bit == RxSlot  cycles == RxLeft(div)
<1>1. /\ OnTheWay(slot, left, time) /\ KeepsUp(time, div) /\ time \in Nat
      /\ slot \in -1 .. DataBits + 1 /\ left \in Nat
      /\ slot # -1 => left \in 1 .. time
  BY DEF LineKept, OnTheWay
<1>2. /\ DataBits \in Nat \ {0} /\ rx.bits_counter \in 0 .. DataBits - 1
      /\ rx.state \in {"IDLE", "START", "ACTIVE", "STOP"}
  BY UartAssumption DEF UartTypeOK, Rx!TypeOK, Rx!States
<1>3. /\ bit \in 0 .. DataBits + 1
      /\ rx.state = "START" => bit = 0
      /\ rx.state = "ACTIVE" => bit \in 1 .. DataBits
      /\ rx.state = "STOP" => bit = DataBits + 1
  BY <1>2 DEF RxSlot
<1>4. InTouch(bit, cycles, slot, left, time, div) /\ cycles \in 1 .. BitOf(div)
  BY DEF RxFollows
<1>5. /\ PeriodOf(div) \in Nat /\ MidOf(div) \in Nat /\ MidOf(div) > 2
      /\ BitOf(div) \in Nat
  BY CyclesOfABit
<1> HIDE DEF slot, left, time, bit, cycles
<1>6. \/ slot = bit
      \/ slot # -1 /\ slot = bit - 1
         /\ Near(cycles - left - time, Drift(bit, time, div), div)
      \/ /\ cycles = 1 /\ (slot # -1 => left = time)
         /\ slot \in IF bit = DataBits + 1 THEN {-1, 0} ELSE {bit + 1}
  BY <1>4 DEF InTouch
<1>7. time > 2
  <2>1. Over(time, div) \in Nat /\ time = BitOf(div) + Over(time, div)
    BY <1>1, <1>3, DriftGrows
  <2>2. BitOf(div) > 2
    BY CyclesOfABit
  <2> QED
    BY <1>1, <1>5, <2>1, <2>2
<1>8. slot = bit /\ left = 1 => cycles <= 2
  <2> DEFINE drift == Drift(bit, time, div)
  <2>1. drift \in Nat
    BY <1>1, <1>3, DriftGrows
  <2>2. ASSUME slot = bit, left = 1, Near(cycles - left, drift, div)
        PROVE  cycles <= 2
    <3> HIDE DEF drift
    <3>1. cycles - 1 <= 1 - drift /\ cycles \in Nat
      BY <1>4, <1>5, <2>2 DEF Near
    <3> QED
      BY <2>1, <3>1
  <2>3. slot = bit => Near(cycles - left, drift, div)
    <3>1. bit - 1 # bit
      BY <1>3
    <3>2. bit \notin IF bit = DataBits + 1 THEN {-1, 0} ELSE {bit + 1}
      BY <1>2, <1>3
    <3> QED
      BY <1>4, <3>1, <3>2 DEF InTouch
  <2> QED
    BY <2>2, <2>3
<1>9. cycles <= MidOf(div) =>
        ~(slot # -1 /\ Near(cycles - left - time, Drift(bit, time, div), div))
  <2>1. cycles <= MidOf(div) => cycles \in 1 .. MidOf(div)
    BY <1>4, <1>5
  <2> QED
    BY <1>1, <1>3, <2>1, NotABitAhead
<1>10. rx.state = "START" => /\ ~ByteEnds(slot, left) /\ slot # DataBits + 1
                             /\ slot = DataBits => DataBits = 1 /\ left > 1
  <2>1. rx.state = "START" => slot = 0 \/ (slot = 1 /\ left = time)
    BY <1>1, <1>2, <1>3, <1>6
  <2> QED
    BY <1>1, <1>2, <1>7, <2>1 DEF ByteEnds
<1>11. rx.state = "ACTIVE" => slot # -1 /\ ~ByteEnds(slot, left)
  <2>1. rx.state = "ACTIVE" => slot \in 0 .. DataBits \/ (slot = bit + 1 /\ left = time)
    <3>1. ASSUME rx.state = "ACTIVE", slot = bit PROVE slot \in 0 .. DataBits
      BY <1>2, <1>3, <3>1
    <3>2. ASSUME rx.state = "ACTIVE", slot = bit - 1 PROVE slot \in 0 .. DataBits
      BY <1>2, <1>3, <3>2
    <3>3. rx.state = "ACTIVE" => bit # DataBits + 1 /\ bit + 1 # -1
      BY <1>2, <1>3
    <3>4. \/ slot = bit
          \/ slot = bit - 1
          \/ (slot # -1 => left = time)
             /\ slot \in IF bit = DataBits + 1 THEN {-1, 0} ELSE {bit + 1}
      BY <1>6
    <3>5. ASSUME rx.state = "ACTIVE", slot # -1 => left = time,
                 slot \in IF bit = DataBits + 1 THEN {-1, 0} ELSE {bit + 1}
          PROVE  slot = bit + 1 /\ left = time
      BY <3>3, <3>5
    <3> QED
      BY <3>1, <3>2, <3>4, <3>5
  <2>2. rx.state = "ACTIVE" /\ slot = bit + 1 => slot # -1
    BY <1>2, <1>3
  <2> QED
    BY <1>1, <1>2, <1>7, <2>1, <2>2 DEF ByteEnds
<1>12. rx.state = "STOP" /\ cycles > 2 =>
         slot \in {DataBits, DataBits + 1} /\ ~ByteEnds(slot, left)
  <2>1. rx.state = "STOP" /\ cycles > 2 => slot \in {DataBits, DataBits + 1}
    BY <1>1, <1>2, <1>3, <1>4, <1>5, <1>6
  <2> QED
    BY <1>2, <1>3, <1>4, <1>5, <1>8, <2>1 DEF ByteEnds
<1>13. rx.state = "STOP" /\ cycles <= MidOf(div) =>
         slot \in {DataBits + 1, -1, 0} /\ (slot # DataBits + 1 => cycles = 1)
  BY <1>2, <1>3, <1>6, <1>9
<1>14. rx.state \in {"ACTIVE", "STOP"} /\ cycles = MidOf(div) =>
         slot = bit /\ left > 1
  <2>1. cycles = MidOf(div) => cycles <= MidOf(div) /\ cycles > 2
    BY <1>5
  <2> QED
    BY <1>1, <1>3, <1>4, <2>1, SameBitInTheMiddle
<1> QED
  BY <1>10, <1>11, <1>12, <1>13, <1>14 DEF slot, left, bit, cycles

(* A bit more of the byte. *)
LEMMA BitIsShiftedIn ==
    ASSUME NEW n \in 0 .. DataBits - 1, NEW buffer \in Rx!Byte,
           NEW byte \in Rx!Byte, HoldsBits(n, buffer, byte)
    PROVE  HoldsBits(n + 1, Rx!ShiftedIn(buffer, byte[n]), byte)
<1> USE UartAssumption
<1> DEFINE next == Rx!ShiftedIn(buffer, byte[n])
<1> SUFFICES ASSUME NEW k \in 0 .. DataBits - 1, k >= DataBits - (n + 1)
             PROVE  next[k] = byte[k - (DataBits - (n + 1))]
  BY DEF HoldsBits
<1>1. CASE k = DataBits - 1
  <2>1. k - (DataBits - (n + 1)) = n
    BY <1>1
  <2> QED
    BY <1>1, <2>1 DEF Rx!ShiftedIn
<1>2. CASE k # DataBits - 1
  <2>1. k + 1 \in 0 .. DataBits - 1 /\ k + 1 >= DataBits - n
        /\ k + 1 - (DataBits - n) = k - (DataBits - (n + 1))
    BY <1>2
  <2>2. buffer[k + 1] = byte[k + 1 - (DataBits - n)]
    BY <2>1 DEF HoldsBits
  <2>3. next[k] = buffer[k + 1]
    BY <1>2 DEF Rx!ShiftedIn
  <2> QED
    BY <2>1, <2>2, <2>3
<1> QED
  BY <1>1, <1>2

(* All the bits are the byte, none are anything.                           *)
LEMMA AllBitsAreTheByte ==
    ASSUME NEW buffer \in Rx!Byte, NEW byte \in Rx!Byte
    PROVE  /\ HoldsBits(DataBits, buffer, byte) => buffer = byte
           /\ HoldsBits(0, buffer, byte)
<1> USE UartAssumption
<1>1. HoldsBits(DataBits, buffer, byte) =>
        \A k \in 0 .. DataBits - 1 : buffer[k] = byte[k]
  <2> SUFFICES ASSUME HoldsBits(DataBits, buffer, byte), NEW k \in 0 .. DataBits - 1
               PROVE  buffer[k] = byte[k]
    OBVIOUS
  <2>1. k >= DataBits - DataBits /\ k - (DataBits - DataBits) = k
    OBVIOUS
  <2> QED
    BY <2>1 DEF HoldsBits
<1>2. (\A k \in 0 .. DataBits - 1 : buffer[k] = byte[k]) => buffer = byte
  BY DEF Rx!Byte
<1>3. \A k \in 0 .. DataBits - 1 : ~(k >= DataBits - 0)
  OBVIOUS
<1> QED
  BY <1>1, <1>2, <1>3 DEF HoldsBits

(* The receiver holds the bits that it has taken of the host's byte.       *)
LEMMA ReceiverHoldsBits ==
    ASSUME UartTypeOK, NEW div \in 0 .. MaxDivider, RunsWith(div),
           NEW divider, Clock!Cycle(TRUE, FALSE, divider),
           NEW CONSTANT h, NEW CONSTANT g, LineKept(h), LineTurns(h, g),
           KeepsUp(h.bit_time, div), RxFollows(h, div), RxBits(h, div),
           Rx!Cycle(clock.rising_edge, LevelOf(h))
    PROVE  RxBits(g, div)'
<1> DEFINE byte == Head(h.queue)  cycles == RxLeft(div)  bits == rx.bits_counter
<1>1. /\ DataBits \in Nat \ {0} /\ bits \in 0 .. DataBits - 1
      /\ rx.rx_buffer \in Rx!Byte
  BY UartAssumption DEF UartTypeOK, Rx!TypeOK
<1>2. /\ cycles \in 1 .. BitOf(div)
      /\ \/ StaysIdle(LevelOf(h))
         \/ EntersFrame(LevelOf(h))
         \/ StaysInBit(div)
         \/ EntersBit(div)
         \/ LeavesFrame(div)
      /\ Takes(LevelOf(h), div)
  BY ReceiverMoves
<1>3. /\ MidOf(div) \in Nat /\ MidOf(div) > 2 /\ BitOf(div) \in Nat
      /\ MidOf(div) <= BitOf(div)
  BY CyclesOfABit
<1>4. rx'.rx_buffer \in Rx!Byte
  <2>1. LevelOf(h) \in Bit
    BY LevelOfLine
  <2>2. Rx!TypeOK'
    BY <2>1, ReceiverKeepsTypes DEF UartTypeOK
  <2> QED
    BY <2>2 DEF Rx!TypeOK
<1>5. rx.state # "IDLE" =>
        /\ rx.state = "ACTIVE" => h.slot # -1 /\ ~ByteEnds(h.slot, h.left)
        /\ rx.state = "STOP" /\ cycles > 2 =>
              h.slot \in {DataBits, DataBits + 1} /\ ~ByteEnds(h.slot, h.left)
        /\ rx.state \in {"ACTIVE", "STOP"} /\ cycles = MidOf(div) =>
              h.slot = RxSlot
  BY <1>2, HostStaysAtByte
<1>6. h.slot # -1 => byte \in Rx!Byte
  BY LevelOfLine
<1>7. ~ByteEnds(h.slot, h.left) => g.queue = h.queue
  BY DEF LineTurns
<1>8. rx.state \in {"ACTIVE", "STOP"} =>
          rx'.rx_buffer = IF rx.state = "ACTIVE" /\ cycles = MidOf(div)
                          THEN Rx!ShiftedIn(rx.rx_buffer, LevelOf(h))
                          ELSE rx.rx_buffer
  BY <1>2 DEF Takes
<1>9. /\ Past(div) <=> cycles < MidOf(div)
      /\ Past(div)' <=> RxLeft(div)' < MidOf(div)
      /\ BitsTaken(div) = bits + (IF Past(div) THEN 1 ELSE 0)
      /\ BitsTaken(div)' = rx'.bits_counter + (IF Past(div)' THEN 1 ELSE 0)
  BY DEF Past, BitsTaken, MidOf, BitOf, HalfOf, PeriodOf
<1>10. /\ rx.state = "ACTIVE" => HoldsBits(BitsTaken(div), rx.rx_buffer, byte)
       /\ rx.state = "STOP" /\ ~Past(div) => rx.rx_buffer = byte
  BY DEF RxBits
<1> HIDE DEF cycles, byte, bits
<1> SUFFICES /\ rx'.state = "ACTIVE" =>
                   HoldsBits(BitsTaken(div)', rx'.rx_buffer, Head(g.queue))
             /\ rx'.state = "STOP" /\ ~Past(div)' => rx'.rx_buffer = Head(g.queue)
  BY DEF RxBits, HoldsBits
<1>11. CASE rx'.state \notin {"ACTIVE", "STOP"}
  BY <1>11
<1>12. CASE StaysInBit(div) /\ rx.state = "ACTIVE"
  <2>1. /\ rx'.state = "ACTIVE" /\ rx'.bits_counter = bits
        /\ RxLeft(div)' = cycles - 1 /\ Head(g.queue) = byte /\ byte \in Rx!Byte
    BY <1>5, <1>6, <1>7, <1>12 DEF StaysInBit, byte, bits, cycles
  <2>2. CASE cycles = MidOf(div)
    <3>1. LevelOf(h) = byte[bits]
      <4>1. h.slot = bits + 1
        BY <1>5, <1>12, <2>2 DEF RxSlot, bits
      <4>2. h.slot \in 1 .. DataBits /\ h.slot - 1 = bits
        BY <1>1, <4>1
      <4> QED
        BY <4>2, LevelOfLine DEF byte
    <3>2. BitsTaken(div) = bits /\ BitsTaken(div)' = bits + 1
      BY <1>1, <1>3, <1>9, <2>1, <2>2
    <3>3. rx'.rx_buffer = Rx!ShiftedIn(rx.rx_buffer, byte[bits])
      BY <1>8, <1>12, <2>2, <3>1
    <3>4. HoldsBits(bits + 1, Rx!ShiftedIn(rx.rx_buffer, byte[bits]), byte)
      BY <1>1, <1>10, <1>12, <2>1, <3>2, BitIsShiftedIn
    <3> QED
      BY <2>1, <3>2, <3>3, <3>4
  <2>3. CASE cycles # MidOf(div)
    <3>1. Past(div)' <=> Past(div)
      BY <1>2, <1>3, <1>9, <2>1, <2>3
    <3>2. BitsTaken(div)' = BitsTaken(div) /\ rx'.rx_buffer = rx.rx_buffer
      BY <1>8, <1>9, <1>12, <2>1, <2>3, <3>1
    <3> QED
      BY <1>10, <1>12, <2>1, <3>2
  <2> QED
    BY <2>2, <2>3
<1>13. CASE StaysInBit(div) /\ rx.state = "STOP" /\ ~Past(div)'
  <2>1. rx'.state = "STOP" /\ RxLeft(div)' = cycles - 1
    BY <1>13 DEF StaysInBit, cycles
  <2>2. cycles > 2 /\ ~Past(div)
    BY <1>2, <1>3, <1>9, <1>13, <2>1 DEF cycles
  <2>3. Head(g.queue) = byte /\ rx'.rx_buffer = rx.rx_buffer
    BY <1>5, <1>7, <1>8, <1>13, <2>2 DEF byte
  <2> QED
    BY <1>10, <1>13, <2>1, <2>2, <2>3
<1>14. CASE EntersBit(div) /\ rx.state = "START"
  <2>1. rx'.state = "ACTIVE" /\ rx'.bits_counter = 0 /\ RxLeft(div)' = BitOf(div)
    BY <1>14 DEF EntersBit, RxFollows
  <2>2. BitsTaken(div)' = 0
    BY <1>3, <1>9, <2>1
  <2>3. HoldsBits(0, rx'.rx_buffer, Head(g.queue))
    <3>1. \A k \in 0 .. DataBits - 1 : ~(k >= DataBits - 0)
      BY <1>1
    <3> QED
      BY <3>1 DEF HoldsBits
  <2> QED
    BY <2>1, <2>2, <2>3
<1>15. CASE EntersBit(div) /\ rx.state = "ACTIVE"
  <2>1. /\ cycles = 1 /\ RxLeft(div)' = BitOf(div)
        /\ Head(g.queue) = byte /\ byte \in Rx!Byte
        /\ rx'.rx_buffer = rx.rx_buffer
    BY <1>3, <1>5, <1>6, <1>7, <1>8, <1>15 DEF EntersBit, byte, cycles
  <2>2. BitsTaken(div) = bits + 1 /\ BitsTaken(div)' = rx'.bits_counter
    <3>1. Past(div) /\ ~Past(div)'
      BY <1>3, <1>9, <2>1
    <3>2. rx'.bits_counter \in Nat
      BY <1>1, <1>15 DEF EntersBit, bits
    <3> QED
      BY <1>1, <1>9, <3>1, <3>2
  <2>3. HoldsBits(bits + 1, rx.rx_buffer, byte)
    BY <1>10, <1>15, <2>2
  <2>4. CASE bits # DataBits - 1
    BY <1>15, <2>1, <2>2, <2>3, <2>4 DEF EntersBit, bits
  <2>5. CASE bits = DataBits - 1
    <3>1. rx'.state = "STOP" /\ bits + 1 = DataBits
      BY <1>1, <1>15, <2>5 DEF EntersBit, bits
    <3>2. rx.rx_buffer = byte
      BY <1>1, <2>1, <2>3, <3>1, AllBitsAreTheByte
    <3> QED
      BY <2>1, <3>1, <3>2
  <2> QED
    BY <2>4, <2>5
<1>16. rx'.state \in {"ACTIVE", "STOP"} =>
          (StaysInBit(div) /\ rx.state \in {"ACTIVE", "STOP"} /\ rx'.state = rx.state)
          \/ EntersBit(div)
  BY <1>2 DEF StaysIdle, EntersFrame, LeavesFrame, StaysInBit
<1>17. CASE StaysInBit(div) /\ rx.state = "STOP" /\ rx'.state = "STOP" /\ Past(div)'
  BY <1>17
<1> QED
  BY <1>11, <1>12, <1>13, <1>14, <1>15, <1>16, <1>17 DEF EntersBit

(* How the host turns: it comes to a stop bit from the last data bit.      *)
LEMMA StopBitsTurn ==
    ASSUME NEW h, NEW g, LineKept(h), LineTurns(h, g)
    PROVE  /\ g.slot = DataBits + 1 <=>
                 \/ h.slot = DataBits + 1 /\ ~ByteEnds(h.slot, h.left)
                 \/ h.slot = DataBits /\ h.left = 1
           /\ g.line = h.line
           /\ Len(g.queue) = Len(h.queue)
                                 - (IF ByteEnds(h.slot, h.left) THEN 1 ELSE 0)
           /\ Len(h.queue) \in Nat /\ Len(h.line) \in Nat
           /\ h.slot \in -1 .. DataBits + 1
<1> DEFINE slot == h.slot  left == h.left
<1>1. /\ DataBits \in Nat \ {0} /\ slot \in -1 .. DataBits + 1 /\ left \in Nat
      /\ slot # -1 => left \in 1 .. h.bit_time
      /\ h.bit_time \in Nat
  BY UartAssumption DEF LineKept, OnTheWay
<1>2. Turns(slot, left, g.slot, g.left, h.bit_time)
  BY DEF LineTurns
<1>3. /\ h.queue \in Seq(Rx!Byte) /\ h.line \in Seq(Rx!Byte)
      /\ slot # -1 => h.queue # <<>>
  BY DEF LineKept
<1>4. ByteEnds(slot, left) => Len(Tail(h.queue)) = Len(h.queue) - 1
  <2>1. ByteEnds(slot, left) => h.queue # <<>>
    BY <1>1, <1>3 DEF ByteEnds
  <2> QED
    BY <1>3, <2>1
<1>5. /\ Len(g.queue) = Len(h.queue) - (IF ByteEnds(slot, left) THEN 1 ELSE 0)
      /\ Len(h.queue) \in Nat /\ Len(h.line) \in Nat /\ g.line = h.line
  BY <1>3, <1>4 DEF LineTurns
<1> HIDE DEF slot, left
<1>6. g.slot = DataBits + 1 <=> \/ slot = DataBits + 1 /\ ~ByteEnds(slot, left)
                                \/ slot = DataBits /\ left = 1
  BY <1>1, <1>2 DEF Turns, ByteEnds
<1> QED
  BY <1>1, <1>5, <1>6 DEF slot, left

(* It takes every byte once, in the middle of its stop bit: the bytes that *)
(* it has taken are those that the host has come to the end of.            *)
LEMMA ReceiverTakesBytes ==
    ASSUME UartTypeOK, NEW div \in 0 .. MaxDivider, RunsWith(div),
           NEW divider, Clock!Cycle(TRUE, FALSE, divider),
           NEW CONSTANT h, NEW CONSTANT g, LineKept(h), LineTurns(h, g),
           KeepsUp(h.bit_time, div), RxFollows(h, div), RxBits(h, div),
           Rx!Cycle(clock.rising_edge, LevelOf(h))
    PROVE  /\ rx'.rx_data_valid =>
                 /\ rx'.rx_data = h.line[RxTook(h, div) + 1]
                 /\ ~rx'.error
           /\ ~rx'.rx_data_valid => (rx'.error => rx.error)
           /\ RxTook(g, div)' = RxTook(h, div)
                                    + (IF rx'.rx_data_valid THEN 1 ELSE 0)
           /\ RxTook(h, div) \in Nat
<1> DEFINE slot == h.slot  left == h.left  cycles == RxLeft(div)
           ended  == ByteEnds(slot, left)
           before == slot = DataBits + 1
                     /\ (rx.state = "IDLE" \/ (rx.state = "STOP" /\ Past(div)))
           after  == g.slot = DataBits + 1
                     /\ (rx'.state = "IDLE" \/ (rx'.state = "STOP" /\ Past(div)'))
           valid  == rx.state = "STOP" /\ cycles = MidOf(div)
<1>1. /\ DataBits \in Nat \ {0}
      /\ rx.state \in {"IDLE", "START", "ACTIVE", "STOP"}
  BY UartAssumption DEF UartTypeOK, Rx!TypeOK, Rx!States
<1>2. /\ cycles \in 1 .. BitOf(div)
      /\ \/ StaysIdle(LevelOf(h))
         \/ EntersFrame(LevelOf(h))
         \/ StaysInBit(div)
         \/ EntersBit(div)
         \/ LeavesFrame(div)
      /\ rx'.rx_data_valid <=> valid
      /\ rx'.rx_data_valid => rx'.rx_data = rx.rx_buffer /\ (rx'.error <=> LevelOf(h) = 0)
      /\ ~rx'.rx_data_valid => (rx'.error => rx.error)
  <2>1. /\ RxLeft(div) \in 1 .. BitOf(div)
        /\ \/ StaysIdle(LevelOf(h))
           \/ EntersFrame(LevelOf(h))
           \/ StaysInBit(div)
           \/ EntersBit(div)
           \/ LeavesFrame(div)
        /\ Takes(LevelOf(h), div)
    BY ReceiverMoves
  <2> QED
    BY <2>1 DEF Takes
<1>3. /\ MidOf(div) \in Nat /\ MidOf(div) > 2 /\ BitOf(div) \in Nat
      /\ MidOf(div) <= BitOf(div)
  BY CyclesOfABit
<1>4. rx.state # "IDLE" =>
        /\ rx.state = "START" => ~ended /\ slot # DataBits + 1
                                 /\ (slot = DataBits => DataBits = 1 /\ left > 1)
        /\ rx.state = "ACTIVE" => ~ended
        /\ rx.state = "STOP" /\ cycles > 2 => ~ended
        /\ rx.state = "STOP" /\ cycles <= MidOf(div) =>
              slot \in {DataBits + 1, -1, 0}
              /\ (slot # DataBits + 1 => cycles = 1)
        /\ rx.state \in {"ACTIVE", "STOP"} /\ cycles = MidOf(div) =>
              slot = RxSlot /\ left > 1
  BY <1>2, HostStaysAtByte
<1>5. rx.state = "IDLE" => slot \in {-1, DataBits + 1, 0}
  BY DEF RxFollows, Waits
<1>6. /\ Past(div) <=> cycles < MidOf(div)
      /\ Past(div)' <=> RxLeft(div)' < MidOf(div)
  BY DEF Past, MidOf, BitOf, HalfOf, PeriodOf
<1>7. /\ g.slot = DataBits + 1 <=> \/ slot = DataBits + 1 /\ ~ended
                                   \/ slot = DataBits /\ left = 1
      /\ g.line = h.line
      /\ Len(g.queue) = Len(h.queue) - (IF ended THEN 1 ELSE 0)
      /\ Len(h.queue) \in Nat /\ Len(h.line) \in Nat
      /\ slot \in -1 .. DataBits + 1
  BY StopBitsTurn
<1>8. ended => slot = DataBits + 1
  BY DEF ByteEnds
<1>9. /\ RxTook(h, div) = Len(h.line) - Len(h.queue) + (IF before THEN 1 ELSE 0)
      /\ RxTook(g, div)' = Len(g.line) - Len(g.queue) + (IF after THEN 1 ELSE 0)
  BY DEF RxTook, Past, MidOf, BitOf, HalfOf, PeriodOf
<1>10. slot = 0 => LevelOf(h) = 0
  BY LevelOfLine
<1>11. valid => slot = DataBits + 1 /\ ~before /\ rx.rx_buffer = Head(h.queue)
                /\ LevelOf(h) = 1
  <2>1. valid => slot = DataBits + 1 /\ ~Past(div)
    BY <1>3, <1>4, <1>6 DEF RxSlot
  <2>2. valid => rx.rx_buffer = Head(h.queue)
    BY <2>1 DEF RxBits
  <2>3. slot = DataBits + 1 => LevelOf(h) = 1
    BY LevelOfLine
  <2> QED
    BY <2>1, <2>2, <2>3
<1> HIDE DEF slot, left, cycles, ended
<1>12. (IF after THEN 1 ELSE 0) + (IF ended THEN 1 ELSE 0)
         = (IF before THEN 1 ELSE 0) + (IF valid THEN 1 ELSE 0)
  <2>1. CASE StaysIdle(LevelOf(h))
    <3>1. rx.state = "IDLE" /\ rx'.state = "IDLE" /\ slot \in {-1, DataBits + 1}
      BY <1>5, <1>10, <2>1 DEF StaysIdle
    <3>2. (before <=> slot = DataBits + 1) /\ ~valid
          /\ (after <=> slot = DataBits + 1 /\ ~ended)
      BY <1>1, <1>7, <3>1
    <3> HIDE DEF before, after, valid
    <3> QED
      BY <1>8, <3>2
  <2>2. CASE EntersFrame(LevelOf(h))
    <3>1. rx.state = "IDLE" /\ rx'.state = "START" /\ LevelOf(h) = 0
      BY <2>2 DEF EntersFrame
    <3>2. slot # DataBits + 1
      BY <3>1, LevelOfLine DEF slot
    <3>3. ~before /\ ~after /\ ~valid /\ ~ended
      BY <1>8, <3>1, <3>2
    <3> HIDE DEF before, after, valid
    <3> QED
      BY <3>3
  <2>3. CASE StaysInBit(div) /\ rx.state # "STOP"
    <3>1. rx.state \in {"START", "ACTIVE"} /\ rx'.state = rx.state
      BY <1>1, <2>3 DEF StaysInBit
    <3>2. ~before /\ ~after /\ ~valid /\ ~ended
      BY <1>4, <3>1
    <3> HIDE DEF before, after, valid
    <3> QED
      BY <3>2
  <2>4. CASE StaysInBit(div) /\ rx.state = "STOP"
    <3>1. rx.state = "STOP" /\ rx'.state = "STOP" /\ RxLeft(div)' = cycles - 1
          /\ cycles > 1
      BY <2>4 DEF StaysInBit, cycles
    <3>2. Past(div)' <=> cycles <= MidOf(div)
      BY <1>2, <1>3, <1>6, <3>1
    <3>3. ASSUME cycles > MidOf(div)
          PROVE  ~before /\ ~after /\ ~valid /\ ~ended
      <4>1. cycles > 2 /\ ~(cycles <= MidOf(div)) /\ cycles # MidOf(div)
            /\ ~(cycles < MidOf(div))
        BY <1>2, <1>3, <3>3
      <4> QED
        BY <1>4, <1>6, <3>1, <3>2, <4>1
    <3>4. ASSUME cycles = MidOf(div)
          PROVE  ~before /\ after /\ valid /\ ~ended
      <4>1. cycles > 2 /\ cycles <= MidOf(div) /\ ~(cycles < MidOf(div))
        BY <1>2, <1>3, <3>4
      <4>2. valid
        BY <3>1, <3>4
      <4> QED
        BY <1>4, <1>6, <1>7, <1>11, <3>1, <3>2, <4>1, <4>2
    <3>5. ASSUME cycles < MidOf(div)
          PROVE  before /\ (after <=> ~ended) /\ ~valid
      <4>1. cycles <= MidOf(div) /\ cycles # 1 /\ cycles # MidOf(div)
        BY <1>2, <1>3, <3>1, <3>5
      <4>2. slot = DataBits + 1
        BY <1>4, <3>1, <4>1
      <4> QED
        BY <1>1, <1>6, <1>7, <3>1, <3>2, <3>5, <4>1, <4>2
    <3> HIDE DEF before, after, valid
    <3> QED
      BY <1>2, <1>3, <3>3, <3>4, <3>5
  <2>5. CASE EntersBit(div)
    <3>1. /\ rx.state \in {"START", "ACTIVE"} /\ rx'.state \in {"ACTIVE", "STOP"}
          /\ RxLeft(div)' = BitOf(div)
      BY <2>5 DEF EntersBit
    <3>2. ~Past(div)'
      BY <1>3, <1>6, <3>1
    <3>3. ~before /\ ~after /\ ~valid /\ ~ended
      BY <1>4, <3>1, <3>2
    <3> HIDE DEF before, after, valid
    <3> QED
      BY <3>3
  <2>6. CASE LeavesFrame(div)
    <3>1. rx.state = "STOP" /\ cycles = 1 /\ rx'.state = "IDLE"
      BY <2>6 DEF LeavesFrame, cycles
    <3>2. cycles < MidOf(div) /\ cycles <= MidOf(div) /\ cycles # MidOf(div)
      BY <1>3, <3>1
    <3>3. slot \in {DataBits + 1, -1, 0}
      BY <1>4, <3>1, <3>2
    <3>4. (before <=> slot = DataBits + 1) /\ ~valid
          /\ (after <=> slot = DataBits + 1 /\ ~ended)
      BY <1>1, <1>6, <1>7, <3>1, <3>2, <3>3
    <3> HIDE DEF before, after, valid
    <3> QED
      BY <1>8, <3>4
  <2> QED
    BY <1>2, <2>1, <2>2, <2>3, <2>4, <2>5, <2>6
<1>13. RxTook(g, div)' = RxTook(h, div) + (IF rx'.rx_data_valid THEN 1 ELSE 0)
  <2> DEFINE a == IF after THEN 1 ELSE 0  b == IF before THEN 1 ELSE 0
             e == IF ended THEN 1 ELSE 0  v == IF valid THEN 1 ELSE 0
             n == Len(h.queue)  m == Len(h.line)
  <2>1. a \in Nat /\ b \in Nat /\ e \in Nat /\ v \in Nat
    OBVIOUS
  <2>2. n \in Nat /\ m \in Nat /\ RxTook(h, div) = m - n + b
        /\ RxTook(g, div)' = m - (n - e) + a /\ a + e = b + v
    BY <1>7, <1>9, <1>12
  <2>3. v = IF rx'.rx_data_valid THEN 1 ELSE 0
    BY <1>2
  <2> HIDE DEF a, b, e, v, n, m
  <2>4. RxTook(g, div)' = RxTook(h, div) + v
    BY <2>1, <2>2
  <2> QED
    BY <2>3, <2>4
<1>14. Len(h.queue) <= Len(h.line)
  BY DEF LineKept, RestOf
<1>15. RxTook(h, div) \in Nat
  <2> DEFINE n == Len(h.queue)  m == Len(h.line)  b == IF before THEN 1 ELSE 0
  <2>1. n \in Nat /\ m \in Nat /\ n <= m /\ b \in Nat /\ RxTook(h, div) = m - n + b
    BY <1>7, <1>9, <1>14
  <2> HIDE DEF n, m, b
  <2> QED
    BY <2>1
<1>16. ASSUME valid PROVE rx.rx_buffer = h.line[RxTook(h, div) + 1]
  <2>1. rx.rx_buffer = Head(h.queue) /\ ~before /\ slot = DataBits + 1
    BY <1>11, <1>16
  <2>2. h.queue \in Seq(Rx!Byte) /\ h.queue # <<>>
    BY <1>1, <2>1 DEF LineKept, slot
  <2>3. Head(h.queue) = h.queue[1] /\ 1 \in 1 .. Len(h.queue)
    BY <2>2
  <2>4. h.queue[1] = h.line[Len(h.line) - Len(h.queue) + 1]
    BY <2>3 DEF LineKept, RestOf
  <2>5. RxTook(h, div) = Len(h.line) - Len(h.queue)
    <3> DEFINE n == Len(h.queue)  m == Len(h.line)
    <3>1. n \in Nat /\ m \in Nat /\ RxTook(h, div) = m - n + 0
      BY <1>7, <1>9, <2>1
    <3> HIDE DEF n, m
    <3>2. RxTook(h, div) = m - n
      BY <3>1
    <3> QED
      BY <3>2 DEF n, m
  <2> QED
    BY <2>1, <2>3, <2>4, <2>5
<1>17. valid => LevelOf(h) # 0
  BY <1>11
<1> QED
  BY <1>2, <1>13, <1>15, <1>16, <1>17

(* The time to the next byte: it runs down no faster than the cycles go    *)
(* by, and a byte comes only when it has run out.                          *)
LEMMA ReceiverIsQuiet ==
    ASSUME UartTypeOK, NEW div \in 0 .. MaxDivider, RunsWith(div),
           NEW divider, Clock!Cycle(TRUE, FALSE, divider),
           NEW CONSTANT h, NEW CONSTANT g, LineKept(h), LineTurns(h, g),
           KeepsUp(h.bit_time, div), RxFollows(h, div),
           Rx!Cycle(clock.rising_edge, LevelOf(h))
    PROVE  /\ QuietFor(div) \in Nat /\ QuietFor(div)' \in Nat
           /\ MaxWait(div) \in Nat
           /\ QuietFor(div)' >= QuietFor(div) - 1
           /\ rx'.rx_data_valid => QuietFor(div) = 0 /\ QuietFor(div)' = MaxWait(div)
<1> DEFINE b == BitOf(div)  period == PeriodOf(div)  cycles == RxLeft(div)
           bits == rx.bits_counter  left == DataBits - 1 - bits
           rest == left * b  whole == DataBits * b  most == MaxWait(div)
<1>1. /\ DataBits \in Nat \ {0} /\ bits \in 0 .. DataBits - 1
      /\ rx.state \in {"IDLE", "START", "ACTIVE", "STOP"}
  BY UartAssumption DEF UartTypeOK, Rx!TypeOK, Rx!States
<1>2. /\ cycles \in 1 .. b
      /\ \/ StaysIdle(LevelOf(h))
         \/ EntersFrame(LevelOf(h))
         \/ StaysInBit(div)
         \/ EntersBit(div)
         \/ LeavesFrame(div)
      /\ rx'.rx_data_valid <=> rx.state = "STOP" /\ cycles = MidOf(div)
  <2>1. /\ RxLeft(div) \in 1 .. BitOf(div)
        /\ \/ StaysIdle(LevelOf(h))
           \/ EntersFrame(LevelOf(h))
           \/ StaysInBit(div)
           \/ EntersBit(div)
           \/ LeavesFrame(div)
        /\ Takes(LevelOf(h), div)
    BY ReceiverMoves
  <2> QED
    BY <2>1 DEF Takes
<1>3. /\ MidOf(div) \in Nat /\ MidOf(div) > 2 /\ b \in Nat /\ period \in Nat
      /\ MidOf(div) <= b /\ period >= 2 /\ b >= period
  <2>1. HalfOf(div) \in Nat /\ HalfOf(div) >= PeriodOf(div)
        /\ BitOf(div) - HalfOf(div) >= PeriodOf(div)
    BY CyclesOfABit
  <2> QED
    BY <2>1, CyclesOfABit
<1>4. /\ Past(div) <=> cycles < MidOf(div)
      /\ Past(div)' <=> RxLeft(div)' < MidOf(div)
  BY DEF Past, MidOf, BitOf, HalfOf, PeriodOf
<1>5. left \in Nat /\ (bits = DataBits - 1 <=> left = 0)
      /\ (bits = 0 => left = DataBits - 1)
  BY <1>1
<1>6. /\ whole \in Nat /\ rest \in Nat /\ most = whole + b - period
      /\ left = 0 => rest = 0
      /\ left = DataBits - 1 => rest + b = whole
      /\ left # 0 => (left - 1) * b + b = rest
  <2>1. most = (DataBits + 1) * b - period
    BY DEF MaxWait
  <2> HIDE DEF left, b, period, most
  <2>2. (DataBits + 1) * b = DataBits * b + b /\ DataBits * b \in Nat
    BY <1>1, <1>3
  <2>3. left * b \in Nat /\ (left - 1) * b + b = left * b
    BY <1>3, <1>5
  <2>4. left = 0 => left * b = 0
    BY <1>3
  <2>5. (DataBits - 1) * b + b = DataBits * b
    BY <1>1, <1>3
  <2>6. left = DataBits - 1 => left * b + b = DataBits * b
    BY <2>5
  <2> DEFINE all == (DataBits + 1) * b
  <2>7. most = all - period /\ all = whole + b /\ whole \in Nat
    BY <2>1, <2>2
  <2> HIDE DEF whole, all
  <2>8. most = whole + b - period
    BY <1>3, <2>7
  <2> QED
    BY <2>3, <2>4, <2>6, <2>7, <2>8 DEF whole
<1>7. /\ rx.state = "IDLE" => QuietFor(div) = most
      /\ rx.state = "START" => QuietFor(div) = cycles + whole
      /\ rx.state = "ACTIVE" => QuietFor(div) = cycles + rest
      /\ rx.state = "STOP" => QuietFor(div) = IF Past(div) THEN most ELSE 0
  BY DEF QuietFor
<1>8. /\ rx'.state = "IDLE" => QuietFor(div)' = most
      /\ rx'.state = "START" => QuietFor(div)' = RxLeft(div)' + whole
      /\ rx'.state = "ACTIVE" => QuietFor(div)' = RxLeft(div)' +
                                     (DataBits - 1 - rx'.bits_counter) * b
      /\ rx'.state = "STOP" => QuietFor(div)' = IF Past(div)' THEN most ELSE 0
  BY DEF QuietFor, MaxWait, BitOf, PeriodOf
<1>9. EntersFrame(LevelOf(h)) => RxLeft(div)' >= b - period
  <2> SUFFICES ASSUME EntersFrame(LevelOf(h)) PROVE RxLeft(div)' >= b - period
    OBVIOUS
  <2> DEFINE edge_in == EdgeIn(div)'
  <2>1. edge_in \in 1 .. PeriodOf(div)
    BY EdgesGoRound
  <2>2. RxLeft(div)' = LeftOf(0, edge_in, div)
    BY DEF EntersFrame, RxFollows, RxLeft, LeftOf, PeriodOf
  <2> HIDE DEF edge_in
  <2>3. 0 \in 0 .. Oversampling - 1
    BY UartAssumption
  <2>4. LeftOf(0, edge_in, div) = b - period + edge_in
    BY <2>1, <2>3, CyclesLeft
  <2> QED
    BY <1>3, <2>1, <2>2, <2>4
<1>10. EntersFrame(LevelOf(h)) => RxLeft(div)' \in Nat
  <2> SUFFICES ASSUME EntersFrame(LevelOf(h)) PROVE RxLeft(div)' \in Nat
    OBVIOUS
  <2> DEFINE edge_in == EdgeIn(div)'
  <2>1. edge_in \in 1 .. PeriodOf(div)
    BY EdgesGoRound
  <2>2. RxLeft(div)' = LeftOf(0, edge_in, div)
    BY DEF EntersFrame, RxFollows, RxLeft, LeftOf, PeriodOf
  <2> HIDE DEF edge_in
  <2>3. 0 \in 0 .. Oversampling - 1
    BY UartAssumption
  <2>4. LeftOf(0, edge_in, div) \in 1 .. b
    BY <2>1, <2>3, CyclesLeft
  <2> QED
    BY <1>3, <2>2, <2>4
<1> DEFINE now == QuietFor(div)  next == QuietFor(div)'  after == RxLeft(div)'
<1> HIDE DEF b, period, cycles, rest, whole, most, now, next, after
<1>11. CASE StaysIdle(LevelOf(h))
  BY <1>2, <1>3, <1>6, <1>7, <1>8, <1>11 DEF StaysIdle, now, next, most
<1>12. CASE EntersFrame(LevelOf(h))
  <2>1. now = most /\ next = after + whole /\ rx.state # "STOP"
    BY <1>7, <1>8, <1>12 DEF EntersFrame, now, next, after
  <2>2. after \in Nat /\ after >= b - period
    BY <1>9, <1>10, <1>12 DEF after
  <2> QED
    BY <1>2, <1>3, <1>6, <2>1, <2>2 DEF now, next, most
<1>13. CASE StaysInBit(div)
  <2>1. cycles > 1 /\ after = cycles - 1 /\ rx'.state = rx.state
        /\ rx'.bits_counter = bits /\ rx.state # "IDLE"
    BY <1>13 DEF StaysInBit, cycles, after
  <2>2. CASE rx.state = "START"
    BY <1>2, <1>3, <1>6, <1>7, <1>8, <2>1, <2>2 DEF now, next, most, after
  <2>3. CASE rx.state = "ACTIVE"
    <3>1. next = after + rest
      BY <1>8, <2>1, <2>3 DEF next, after, rest
    <3> QED
      BY <1>2, <1>3, <1>6, <1>7, <2>1, <2>3, <3>1 DEF now, next, most
  <2>4. CASE rx.state = "STOP"
    <3>1. /\ now = IF cycles < MidOf(div) THEN most ELSE 0
          /\ next = IF after < MidOf(div) THEN most ELSE 0
      BY <1>4, <1>7, <1>8, <2>1, <2>4 DEF now, next, cycles, after
    <3> QED
      BY <1>2, <1>3, <1>6, <2>1, <2>4, <3>1 DEF now, next, most
  <2> QED
    BY <1>1, <2>1, <2>2, <2>3, <2>4
<1>14. CASE EntersBit(div)
  <2>1. cycles = 1 /\ after = b /\ rx.state # "STOP"
    BY <1>14 DEF EntersBit, cycles, after, b
  <2>2. CASE rx.state = "START"
    <3>1. rx'.state = "ACTIVE" /\ rx'.bits_counter = bits /\ bits = 0
      BY <1>14, <2>2 DEF EntersBit, RxFollows
    <3>2. next = after + rest
      BY <1>8, <3>1 DEF next, after, rest
    <3> QED
      BY <1>2, <1>3, <1>5, <1>6, <1>7, <2>1, <2>2, <3>1, <3>2 DEF now, next, most
  <2>3. CASE rx.state = "ACTIVE" /\ bits # DataBits - 1
    <3>1. rx'.state = "ACTIVE" /\ rx'.bits_counter = bits + 1
      BY <1>14, <2>3 DEF EntersBit
    <3>2. DataBits - 1 - (bits + 1) = left - 1
      BY <1>1
    <3>3. next = after + (left - 1) * b
      BY <1>8, <3>1, <3>2 DEF next, after
    <3> DEFINE less == (left - 1) * b
    <3>4. less + b = rest
      BY <1>5, <1>6, <2>3
    <3>5. less \in Int
      <4>1. left - 1 \in Int
        BY <1>5
      <4> HIDE DEF left
      <4> QED
        BY <1>3, <4>1
    <3> HIDE DEF less
    <3> QED
      BY <1>2, <1>3, <1>6, <1>7, <2>1, <2>3, <3>3, <3>4, <3>5
         DEF now, next, most, less
  <2>4. CASE rx.state = "ACTIVE" /\ bits = DataBits - 1
    <3>1. rx'.state = "STOP"
      BY <1>14, <2>4 DEF EntersBit
    <3>2. next = 0
      BY <1>3, <1>4, <1>8, <2>1, <3>1 DEF next, after
    <3>3. now = 1
      BY <1>3, <1>5, <1>6, <1>7, <2>1, <2>4 DEF now
    <3> QED
      BY <1>2, <1>6, <1>3, <2>4, <3>2, <3>3 DEF now, next, most
  <2> QED
    BY <1>14, <2>2, <2>3, <2>4 DEF EntersBit
<1>15. CASE LeavesFrame(div)
  <2>1. rx.state = "STOP" /\ cycles = 1 /\ rx'.state = "IDLE"
    BY <1>15 DEF LeavesFrame, cycles
  <2>2. now = most /\ next = most
    BY <1>3, <1>4, <1>7, <1>8, <2>1 DEF now, next, cycles
  <2> QED
    BY <1>2, <1>3, <1>6, <2>1, <2>2 DEF now, next, most
<1> QED
  BY <1>2, <1>11, <1>12, <1>13, <1>14, <1>15

(* The clock runs on while neither the divider nor the control register is *)
(* written.                                                                *)
LEMMA RunsOn ==
    ASSUME UartTypeOK, NEW div \in 0 .. MaxDivider, RunsWith(div),
           NEW access, ~IsWritten(access, "cr"), ~IsWritten(access, "cdr"),
           NEW sin, UartCycle(access, sin)
    PROVE  /\ RunsWith(div)'
           /\ Clock!Cycle(TRUE, FALSE, uart_regs.cdr)
<1>1. Clock!Cycle(TRUE, FALSE, uart_regs.cdr)
  <2>1. Clock!Cycle(uart_regs.en, clk_divider_valid, uart_regs.cdr)
    BY DEF UartCycle
  <2>2. uart_regs.en /\ ~clk_divider_valid
    BY DEF RunsWith
  <2> QED
    BY <2>1, <2>2 DEF Clock!Cycle, Clock!SetDivider, Clock!Turn, Clock!Count,
                      Clock!Stop
<1>2. /\ clock'.counter_target = div /\ clock'.counter <= div
      /\ clock'.rising_edge <=> clock'.sck /\ clock'.counter = 0
  BY <1>1, EdgesGoRound
<1>3. uart_regs'.en
  <2>1. uart_regs'.en = uart_regs.en
    BY DEF UartCycle, RegsAfter, Written
  <2> QED
    BY <2>1 DEF RunsWith
<1>4. ~clk_divider_valid'
  BY DEF UartCycle
<1> QED
  BY <1>1, <1>2, <1>3, <1>4 DEF RunsWith
=============================================================================
