--------------------------- MODULE Console_proof ---------------------------
(***************************************************************************)
(* Proofs about the console, for all texts, periods, dividers, lengths of  *)
(* a bit and of a byte, and for every pace of the software that leaves     *)
(* three cycles between two accesses.                                      *)
(***************************************************************************)
EXTENDS Console, SequenceTheorems, TLAPS

-----------------------------------------------------------------------------
(* The serial clock: it runs all the time, and flags a rising edge every   *)
(* Period cycles.  ToEdge counts the cycles up to and with the next one.   *)
Period == 2 * (Div + 1)

ToEdge ==
    IF ~clock.sck THEN Div + 2 - clock.counter
    ELSE IF clock.counter = 0 THEN 1 ELSE 2 * Div + 3 - clock.counter

ClockOK ==
    /\ uart_regs.en /\ ~clk_divider_valid
    /\ clock.counter_target = Div /\ clock.counter <= Div
    /\ clock.rising_edge <=> clock.sck /\ clock.counter = 0

(* The transmitter: TxLeft counts the cycles up to the end of its bit.     *)
TxLeft == (Oversampling - 1 - tx.edges_counter) * Period + ToEdge

TxOK ==
    /\ tx.state # "ACTIVE" => tx.bits_counter = 0
    /\ tx.state = "IDLE" => tx.edges_counter = 0 /\ tx.sout = 1
    /\ tx.state = "START" => tx.sout \in {0, 1}
    /\ tx.state = "STOP" => tx.sout = 1

(* The ear follows it: where the bit of the transmitter that the ear waits *)
(* for ends, seen from the ear's next sample.                              *)
Late(cycles) == cycles \in 0 .. BitTime - 2

Aligned(state, sout, bit, cycles, left, heard) ==
    /\ left = 0 => heard = 0
    /\ state = "IDLE" => left = 0
    /\ state = "START" /\ sout = 1 => left = 0 /\ cycles > BitTime - Period
    /\ state = "START" /\ sout = 0 =>
          \/ left = 0 /\ cycles >= BitTime - Period
          \/ left > 0 /\ heard = 0 /\ Late(cycles + BitTime - left)
    /\ state = "ACTIVE" =>
          \/ left > 0 /\ heard = bit /\ Late(cycles - left)
          \/ left > 0 /\ heard = bit + 1 /\ Late(cycles + BitTime - left)
    /\ state = "STOP" /\ left > 0 => heard = DataBits /\ Late(cycles - left)

EarOK == ear \in [left : Nat, bits : Seq(Bit), error : BOOLEAN] /\ ~ear.error

InStep == Aligned(tx.state, tx.sout, tx.bits_counter, TxLeft, ear.left,
                  Len(ear.bits))

(* What is on the line: a byte that the ear has not heard in full yet, of  *)
(* which it has heard what the transmitter has sent.                       *)
Pending == \/ tx.state \in {"START", "ACTIVE"}
           \/ tx.state = "STOP" /\ ear.left > 0

HeardOf(byte) == \A k \in 1 .. Len(ear.bits) : ear.bits[k] = byte[k - 1]

Carries(byte) ==
    /\ HeardOf(byte)
    /\ tx.state = "START" /\ tx.sout = 0 => tx.tx_buffer = byte
    /\ tx.state = "ACTIVE" =>
          /\ tx.sout = byte[tx.bits_counter]
          /\ \A k \in 0 .. DataBits - 2 - tx.bits_counter :
                tx.tx_buffer[k] = byte[tx.bits_counter + 1 + k]

(* It is the byte written last, unless a handler has run into it.          *)
Beginning == isr.pc = "poll" /\ isr.i = 1
OnTheLine == IF Beginning THEN Range(owed) ELSE {uart_regs.tdr}

Sending ==
    /\ owed # <<>> => owed[Len(owed)] = uart_regs.tdr
    /\ Pending => (tx.state = "START" /\ tx.sout = 1)
                  \/ \E byte \in OnTheLine : Carries(byte)

(* The bytes written and not heard: those lost, and those on their way.    *)
One(condition) == IF condition THEN 1 ELSE 0

Counted ==
    /\ owed \in Seq(Tx!Byte) /\ lost \in Nat
    /\ Len(owed) = lost + One(tx_data_valid) + One(Pending)

-----------------------------------------------------------------------------
(* Where the two threads are.                                              *)
IsrPlaces == {"off", "stray", "send", "poll", "read_sr", "write_sr", "leave"}
MainPlaces == {"send", "poll", "idle", "unmask", "set_cmpr", "read_cr", "enable",
               "enable_interrupts", "read_cr_off", "disable", "clear_handler",
               "mask"}
Controls == [hlt : BOOLEAN, sngl : BOOLEAN, trg : BOOLEAN]

IsrOK ==
    /\ isr \in [pc : IsrPlaces, gap : Nat, i : Nat]
    /\ isr.pc \in {"off", "stray"} => isr.gap = 0
    /\ isr.pc = "send" => isr.i < Len(Text.beat)
    /\ isr.pc = "poll" => isr.i \in 1 .. Len(Text.beat)

MainOK ==
    /\ main \in [pc : MainPlaces, gap : Nat, text : {"prompt", "ping"}, i : Nat,
                 period : 1 .. CounterSize, cr : Controls]
    /\ main.pc = "send" => main.i < Len(Text[main.text])

(* The handler is there while its interrupt is enabled, but between the    *)
(* two statements that take both back.                                     *)
HandlerInv ==
    /\ core \in [mie : BOOLEAN, tmr : BOOLEAN, handler : {"null", "beat"}]
    /\ main.pc = "unmask" => core.handler = "beat"
    /\ core.tmr /\ core.handler = "null" => main.pc = "mask"
    /\ isr.pc = "stray" => main.pc = "mask"

-----------------------------------------------------------------------------
(* The line between the threads.                                           *)
Quiet == ~tx_data_valid /\ tx.state = "IDLE"

QuietPlace ==
    \/ isr.pc = "send" /\ isr.i > 0
    \/ isr.pc \in {"read_sr", "write_sr", "leave"}
    \/ isr.pc = "off" /\ main.pc # "poll"

(* A store is a cycle old when the transmitter takes it, and two when the  *)
(* transmitter is busy and the status does not say so yet.                 *)
Fresh(gap) ==
    /\ tx_data_valid => gap = Pace - 1
    /\ ~uart_regs.txact /\ tx.state # "IDLE" => gap >= Pace - 2

LineInv ==
    /\ QuietPlace => Quiet
    /\ isr.pc = "poll" => Fresh(isr.gap)
    /\ isr.pc = "off" => Fresh(main.gap)
    /\ Collision => Beginning /\ isr.gap = Pace - 1

(* A byte is lost only from a beat's first byte to its second.             *)
LostInv ==
    /\ isr.pc \in {"send", "poll"} /\ isr.i > 0 =>
          uart_regs.tdr = Text.beat[isr.i]
    /\ lost <= 1
    /\ lost = 1 =>
          /\ isr.pc \in {"send", "poll"} /\ isr.i \in {1, 2}
          /\ isr.pc = "poll" /\ isr.i = 1 => ~tx_data_valid
          /\ isr.i = 2 => /\ isr.pc = "poll"
                          /\ tx_data_valid \/ Pending
                          /\ owed[1] = Text.beat[1]

(* All of it: the line by itself, the line and the threads.                *)
TxInv == UartTypeOK /\ ClockOK /\ TxOK /\ EarOK /\ InStep

Line == TxInv /\ Sending /\ Counted /\ LineInv /\ LostInv

Threads == IsrOK /\ MainOK /\ HandlerInv

Inv == Line /\ Threads /\ TimerTypeOK

-----------------------------------------------------------------------------
(* The numbers.  A bit is at least three periods of the clock.             *)
LEMMA Numbers ==
    /\ Period \in Nat /\ Period >= 2
    /\ BitTime \in Nat /\ BitTime = Oversampling * Period
    /\ BitTime >= 3 * Period
    /\ BitTime \div 2 \in Nat /\ BitTime = 2 * (BitTime \div 2)
    /\ BitTime \div 2 > Period
<1>1. Div \in Nat /\ Oversampling \in Nat /\ Oversampling >= 3
  BY ConsoleAssumption, UartAssumption
<1>2. Period \in Nat /\ Period >= 2
  BY <1>1 DEF Period
<1> DEFINE half == (Div + 1) * Oversampling
<1>3. half \in Nat
  BY <1>1
<1>4. BitTime = 2 * half /\ BitTime = Oversampling * Period
  BY <1>1 DEF BitTime, Period
<1>5. half >= 3 * (Div + 1)
  <2> DEFINE rest == (Div + 1) * (Oversampling - 3)
  <2>1. rest \in Nat
    BY <1>1
  <2>2. half = rest + 3 * (Div + 1)
    BY <1>1
  <2> HIDE DEF rest, half
  <2> QED
    BY <1>1, <2>1, <2>2
<1> HIDE DEF half
<1>6. BitTime \div 2 = half
  BY <1>3, <1>4
<1> QED
  BY <1>1, <1>2, <1>3, <1>4, <1>5, <1>6 DEF Period

(* The edges come round.                                                   *)
LEMMA EdgesComeRound ==
    ASSUME UartTypeOK, ClockOK, NEW divider, Clock!Cycle(TRUE, FALSE, divider)
    PROVE  /\ ToEdge \in 1 .. Period
           /\ clock.rising_edge <=> ToEdge = 1
           /\ ToEdge' = IF clock.rising_edge THEN Period ELSE ToEdge - 1
           /\ clock'.counter_target = Div /\ clock'.counter <= Div
           /\ clock'.rising_edge <=> clock'.sck /\ clock'.counter = 0
<1>1. /\ Div \in Nat /\ Div <= MaxDivider /\ MaxDivider \in Nat
      /\ clock.counter \in Nat /\ clock.sck \in BOOLEAN
      /\ clock.rising_edge \in BOOLEAN
  BY ConsoleAssumption, UartAssumption DEF UartTypeOK, Clock!TypeOK, Clock!Divider
<1>2. clock = [sck |-> clock.sck, rising_edge |-> clock.rising_edge,
               falling_edge |-> clock.falling_edge, counter |-> clock.counter,
               counter_target |-> clock.counter_target]
  BY DEF UartTypeOK, Clock!TypeOK
<1>3. /\ clock.counter_target = Div /\ clock.counter <= Div
      /\ clock.rising_edge <=> clock.sck /\ clock.counter = 0
  BY DEF ClockOK
<1> DEFINE sck == clock.sck  counter == clock.counter
<1>4. ToEdge \in 1 .. Period /\ (clock.rising_edge <=> ToEdge = 1)
  <2>1. CASE ~sck
    BY <1>1, <1>3, <2>1 DEF ToEdge, Period
  <2>2. CASE sck /\ counter = 0
    BY <1>1, <1>3, <2>2 DEF ToEdge, Period
  <2>3. CASE sck /\ counter # 0
    BY <1>1, <1>3, <2>3 DEF ToEdge, Period
  <2> QED
    BY <1>1, <2>1, <2>2, <2>3
<1>5. CASE Clock!Turn(TRUE, FALSE)
  <2>1. /\ clock'.sck = ~clock.sck /\ clock'.rising_edge = ~clock.sck
        /\ clock'.counter = 0 /\ clock'.counter_target = Div
    BY <1>2, <1>3, <1>5 DEF Clock!Turn
  <2>2. clock.counter = Div
    BY <1>1, <1>3, <1>5 DEF Clock!Turn
  <2>3. ToEdge' = IF sck THEN Div + 2 ELSE 1
    <3>1. CASE sck
      <4>1. ~clock'.sck /\ clock'.counter = 0
        BY <2>1, <3>1
      <4> QED
        BY <1>1, <3>1, <4>1 DEF ToEdge
    <3>2. CASE ~sck
      BY <1>1, <2>1, <3>2 DEF ToEdge
    <3> QED
      BY <3>1, <3>2
  <2>4. ToEdge = IF ~sck THEN 2 ELSE IF Div = 0 THEN 1 ELSE Div + 3
    BY <1>1, <2>2 DEF ToEdge
  <2>5. ToEdge' = IF clock.rising_edge THEN Period ELSE ToEdge - 1
    BY <1>1, <1>3, <2>2, <2>3, <2>4 DEF Period
  <2> QED
    BY <1>1, <1>4, <2>1, <2>5
<1>6. CASE Clock!Count(TRUE, FALSE)
  <2>1. clock.counter < Div
    BY <1>1, <1>3, <1>6 DEF Clock!Count
  <2>2. (clock.counter + 1) % (MaxDivider + 1) = clock.counter + 1
    <3> DEFINE next == clock.counter + 1  all == MaxDivider + 1
    <3>1. next \in Nat /\ all \in Nat /\ next < all
      BY <1>1, <2>1
    <3> HIDE DEF next, all
    <3>2. next % all = next
      BY <3>1
    <3> QED
      BY <3>2 DEF next, all
  <2>3. /\ clock'.sck = clock.sck /\ ~clock'.rising_edge
        /\ clock'.counter = clock.counter + 1 /\ clock'.counter_target = Div
    BY <1>2, <1>3, <1>6, <2>2 DEF Clock!Count
  <2>4. ToEdge' = IF ~sck THEN Div + 1 - counter ELSE 2 * Div + 2 - counter
    BY <1>1, <2>3 DEF ToEdge
  <2>5. ToEdge' = IF clock.rising_edge THEN Period ELSE ToEdge - 1
    BY <1>1, <1>3, <2>4 DEF ToEdge, Period
  <2> QED
    BY <1>1, <1>4, <2>1, <2>3, <2>5
<1> QED
  BY <1>4, <1>5, <1>6 DEF Clock!Cycle, Clock!SetDivider, Clock!Stop

(* What an edge is to the count of cycles.                                 *)
LEMMA EdgesLeft ==
    ASSUME NEW edges \in 0 .. Oversampling - 1
    PROVE  /\ (Oversampling - 1 - edges) * Period \in Nat
           /\ edges = 0 => (Oversampling - 1 - edges) * Period = BitTime - Period
           /\ edges = Oversampling - 1 => (Oversampling - 1 - edges) * Period = 0
           /\ edges # Oversampling - 1 =>
                 /\ (Oversampling - 1 - (edges + 1)) * Period
                       = (Oversampling - 1 - edges) * Period - Period
                 /\ (Oversampling - 1 - edges) * Period >= Period
           /\ (Oversampling - 1 - edges) * Period <= BitTime - Period
<1>1. /\ Period \in Nat /\ Oversampling \in Nat /\ edges \in Nat
      /\ edges <= Oversampling - 1 /\ BitTime = Oversampling * Period
  BY Numbers, UartAssumption
<1> DEFINE rest == Oversampling - 1 - edges  past == edges * Period
<1>2. rest \in Nat /\ past \in Nat
  BY <1>1
<1>3. rest * Period \in Nat
  <2> HIDE DEF rest
  <2> QED
    BY <1>1, <1>2
<1>4. rest * Period = BitTime - Period - past
  BY <1>1
<1>5. edges = 0 => past = 0
  BY <1>1
<1>6. edges = Oversampling - 1 => rest = 0
  BY <1>1
<1>7. ASSUME edges # Oversampling - 1
      PROVE  /\ (Oversampling - 1 - (edges + 1)) * Period = rest * Period - Period
             /\ rest * Period >= Period
  <2>1. rest - 1 \in Nat /\ Oversampling - 1 - (edges + 1) = rest - 1
    BY <1>1, <1>7
  <2> HIDE DEF rest
  <2>2. (rest - 1) * Period \in Nat
    BY <1>1, <2>1
  <2>3. (rest - 1) * Period = rest * Period - Period
    BY <1>1, <1>2
  <2> DEFINE less == (rest - 1) * Period  whole == rest * Period
  <2>4. less \in Nat /\ whole \in Nat /\ less = whole - Period
    BY <1>3, <2>2, <2>3
  <2> HIDE DEF less, whole
  <2>5. whole >= Period
    BY <1>1, <2>4
  <2> QED
    BY <2>1, <2>3, <2>5 DEF whole
<1>8. rest = 0 => rest * Period = 0
  BY <1>1
<1> DEFINE whole == rest * Period
<1>9. whole \in Nat /\ whole = BitTime - Period - past
  BY <1>3, <1>4
<1> HIDE DEF whole, past
<1>10. /\ edges = 0 => whole = BitTime - Period
       /\ whole <= BitTime - Period
  BY Numbers, <1>2, <1>5, <1>9
<1> QED
  BY <1>3, <1>6, <1>7, <1>8, <1>10 DEF whole

(* How the transmitter's bit goes by.                                      *)
LEMMA BitsGoBy ==
    ASSUME UartTypeOK, ClockOK, NEW divider, Clock!Cycle(TRUE, FALSE, divider)
    PROVE  /\ TxLeft \in 1 .. BitTime
           /\ Tx!LastEdge(clock.rising_edge) <=> TxLeft = 1
           /\ tx.edges_counter = 0 => TxLeft > BitTime - Period
           /\ /\ ~Tx!LastEdge(clock.rising_edge)
              /\ tx'.edges_counter = IF clock.rising_edge THEN tx.edges_counter + 1
                                                          ELSE tx.edges_counter
              => TxLeft' = TxLeft - 1
           /\ Tx!LastEdge(clock.rising_edge) /\ tx'.edges_counter = 0 =>
                 TxLeft' = BitTime
           /\ tx'.edges_counter = 0 => TxLeft' > BitTime - Period
                                       /\ TxLeft' <= BitTime
<1> DEFINE edges == tx.edges_counter
           whole == (Oversampling - 1 - edges) * Period
<1>1. /\ edges \in 0 .. Oversampling - 1 /\ clock.rising_edge \in BOOLEAN
      /\ Oversampling \in Nat /\ Oversampling > 1
  BY UartAssumption DEF UartTypeOK, Tx!TypeOK, Clock!TypeOK
<1>2. /\ whole \in Nat
      /\ edges = 0 => whole = BitTime - Period
      /\ edges = Oversampling - 1 => whole = 0
      /\ edges # Oversampling - 1 => whole >= Period
      /\ whole <= BitTime - Period
  BY <1>1, EdgesLeft
<1>3. edges # Oversampling - 1 =>
          (Oversampling - 1 - (edges + 1)) * Period = whole - Period
  BY <1>1, EdgesLeft
<1>4. (Oversampling - 1 - 0) * Period = BitTime - Period
  BY <1>1, EdgesLeft
<1>5. /\ ToEdge \in 1 .. Period
      /\ clock.rising_edge <=> ToEdge = 1
      /\ ToEdge' = IF clock.rising_edge THEN Period ELSE ToEdge - 1
  BY EdgesComeRound
<1>6. TxLeft = whole + ToEdge
  BY DEF TxLeft
<1>7. TxLeft' = (Oversampling - 1 - tx'.edges_counter) * Period + ToEdge'
  BY DEF TxLeft
<1>8. Tx!LastEdge(clock.rising_edge) <=>
          clock.rising_edge /\ edges = Oversampling - 1
  BY DEF Tx!LastEdge
<1> HIDE DEF whole
<1>9. TxLeft \in 1 .. BitTime /\ (edges = 0 => TxLeft > BitTime - Period)
  BY <1>2, <1>5, <1>6, Numbers
<1>10. Tx!LastEdge(clock.rising_edge) <=> TxLeft = 1
  BY <1>1, <1>2, <1>5, <1>6, <1>8, Numbers
<1>11. ASSUME tx'.edges_counter = 0
       PROVE  /\ TxLeft' > BitTime - Period /\ TxLeft' <= BitTime
              /\ Tx!LastEdge(clock.rising_edge) => TxLeft' = BitTime
  <2>1. TxLeft' = BitTime - Period + ToEdge'
    BY <1>4, <1>7, <1>11
  <2> QED
    BY <1>5, <1>8, <2>1, Numbers
<1>12. ASSUME ~Tx!LastEdge(clock.rising_edge),
              tx'.edges_counter = IF clock.rising_edge THEN edges + 1 ELSE edges
       PROVE  TxLeft' = TxLeft - 1
  <2>1. CASE clock.rising_edge
    <3>1. TxLeft' = whole - Period + ToEdge'
      BY <1>3, <1>7, <1>8, <1>12, <2>1
    <3> QED
      BY <1>2, <1>5, <1>6, <2>1, <3>1, Numbers
  <2>2. CASE ~clock.rising_edge
    <3>1. TxLeft' = whole + ToEdge'
      BY <1>7, <1>12, <2>2 DEF whole
    <3> QED
      BY <1>2, <1>5, <1>6, <2>2, <3>1, Numbers
  <2> QED
    BY <2>1, <2>2
<1> QED
  BY <1>9, <1>10, <1>11, <1>12

(* What is left of a bit, in any state.                                    *)
LEMMA LeftOfBit ==
    ASSUME UartTypeOK, ClockOK
    PROVE  TxLeft \in 1 .. BitTime
<1>1. /\ Div \in Nat /\ clock.counter \in Nat /\ clock.counter <= Div
      /\ Oversampling \in Nat /\ Oversampling > 1
  BY ConsoleAssumption, UartAssumption DEF UartTypeOK, ClockOK, Clock!TypeOK, Clock!Divider
<1>2. ToEdge \in 1 .. Period
  BY <1>1 DEF ToEdge, Period
<1> DEFINE whole == (Oversampling - 1 - tx.edges_counter) * Period
<1>3. tx.edges_counter \in 0 .. Oversampling - 1
  BY DEF UartTypeOK, Tx!TypeOK
<1>4. whole \in Nat /\ whole <= BitTime - Period
  BY <1>3, EdgesLeft
<1>5. TxLeft = whole + ToEdge
  BY DEF TxLeft
<1> HIDE DEF whole
<1> QED
  BY <1>2, <1>4, <1>5, Numbers

-----------------------------------------------------------------------------
(* What the ear does in a cycle.                                           *)
LEMMA EarListens ==
    ASSUME EarOK, NEW level \in Bit, Ear!Listen(level, BitTime),
           ear.left = 1 /\ Len(ear.bits) = DataBits => level # 0
    PROVE  /\ EarOK'
           /\ ear.left = 0 /\ level # 0 =>
                 ear'.left = 0 /\ ear'.bits = ear.bits
           /\ ear.left = 0 /\ level = 0 =>
                 ear'.left = BitTime + BitTime \div 2 /\ ear'.bits = ear.bits
           /\ ear.left > 1 => ear'.left = ear.left - 1 /\ ear'.bits = ear.bits
           /\ ear.left = 1 /\ Len(ear.bits) # DataBits =>
                 ear'.left = BitTime /\ ear'.bits = Append(ear.bits, level)
           /\ ear.left = 1 /\ Len(ear.bits) = DataBits =>
                 ear'.left = 0 /\ ear'.bits = <<>>
<1>1. ear.left \in Nat /\ ear.bits \in Seq(Bit)
  BY DEF EarOK
<1>2. CASE Ear!Rest(level)
  BY <1>2 DEF EarOK, Ear!Rest
<1>3. CASE Ear!Detect(level, BitTime)
  <2>1. BitTime + BitTime \div 2 \in Nat
    BY Numbers
  <2> QED
    BY <1>3, <2>1 DEF EarOK, Ear!Detect
<1>4. CASE Ear!Await
  BY <1>1, <1>4 DEF EarOK, Ear!Await
<1>5. CASE Ear!Sample(level, BitTime)
  <2>1. Append(ear.bits, level) \in Seq(Bit) /\ BitTime \in Nat
    BY <1>1, Numbers
  <2>2. ear.left = 1 /\ Len(ear.bits) # DataBits
    BY <1>5 DEF Ear!Sample, Ear!Hears
  <2>3. ear'.left = BitTime /\ ear'.bits = Append(ear.bits, level) /\ ~ear'.error
    BY <1>5 DEF EarOK, Ear!Sample
  <2>4. ear' \in [left : Nat, bits : Seq(Bit), error : BOOLEAN]
    BY <1>5, <2>1 DEF EarOK, Ear!Sample
  <2> QED
    BY <2>2, <2>3, <2>4 DEF EarOK
<1>6. CASE Ear!Conclude(level)
  <2>1. ear.left = 1 /\ Len(ear.bits) = DataBits /\ level # 0
    BY <1>6 DEF Ear!Conclude, Ear!Hears
  <2>2. ear' = [left |-> 0, bits |-> <<>>, error |-> FALSE]
    BY <1>6, <2>1 DEF EarOK, Ear!Conclude
  <2> QED
    BY <2>1, <2>2, EmptySeq DEF EarOK
<1> QED
  BY <1>2, <1>3, <1>4, <1>5, <1>6 DEF Ear!Listen

(* The last sample of a byte comes in the stop bit.                        *)
LEMMA HearsAtStop ==
    ASSUME UartTypeOK, TxOK, EarOK, InStep, TxLeft \in 1 .. BitTime,
           ear.left = 1, Len(ear.bits) = DataBits
    PROVE  tx.state = "STOP"
<1>1. /\ tx.state \in {"IDLE", "START", "ACTIVE", "STOP"}
      /\ tx.bits_counter \in 0 .. DataBits - 1
      /\ tx.state = "START" => tx.sout \in {0, 1}
      /\ DataBits \in Nat /\ DataBits > 0 /\ BitTime \in Nat
  BY UartAssumption, Numbers DEF UartTypeOK, Tx!TypeOK, Tx!States, TxOK
<1> QED
  BY <1>1 DEF InStep, Aligned, Late

(* A cycle of the transmitter and the ear keeps them in step.              *)
Together(valid, data) ==
    /\ \E divider : Clock!Cycle(TRUE, FALSE, divider)
    /\ Tx!Cycle(clock.rising_edge, valid, data)
    /\ Ear!Listen(tx.sout, BitTime)

(* What the transmitter and the ear do in one cycle, counted in the cycles *)
(* that are left of the bit.                                               *)
LEMMA TogetherFacts ==
    ASSUME TxInv, NEW valid, NEW data, Together(valid, data)
    PROVE  /\ TxLeft \in 1 .. BitTime
           /\ Tx!LastEdge(clock.rising_edge) <=> TxLeft = 1
           /\ tx'.edges_counter = 0 => TxLeft' > BitTime - Period
                                       /\ TxLeft' <= BitTime
           /\ EarOK'
           /\ ear.left \in Nat /\ Len(ear.bits) \in Nat
           /\ ear.left = 0 /\ tx.sout # 0 =>
                 ear'.left = 0 /\ Len(ear'.bits) = Len(ear.bits)
           /\ ear.left = 0 /\ tx.sout = 0 =>
                 /\ ear'.left = BitTime + BitTime \div 2
                 /\ Len(ear'.bits) = Len(ear.bits)
           /\ ear.left > 1 => /\ ear'.left = ear.left - 1
                              /\ Len(ear'.bits) = Len(ear.bits)
           /\ ear.left = 1 /\ Len(ear.bits) # DataBits =>
                 /\ ear'.left = BitTime
                 /\ Len(ear'.bits) = Len(ear.bits) + 1
           /\ ear.left = 1 /\ Len(ear.bits) = DataBits =>
                 ear'.left = 0 /\ Len(ear'.bits) = 0
<1>1. PICK divider : Clock!Cycle(TRUE, FALSE, divider)
  BY DEF Together
<1>2. /\ TxLeft \in 1 .. BitTime
      /\ Tx!LastEdge(clock.rising_edge) <=> TxLeft = 1
      /\ tx'.edges_counter = 0 => TxLeft' > BitTime - Period /\ TxLeft' <= BitTime
  BY <1>1, BitsGoBy DEF TxInv
<1>3. tx.sout \in Bit
  BY DEF TxInv, UartTypeOK, Tx!TypeOK
<1>4. ear.left = 1 /\ Len(ear.bits) = DataBits => tx.sout # 0
  BY <1>2, HearsAtStop DEF TxInv, TxOK
<1>5. Ear!Listen(tx.sout, BitTime)
  BY DEF Together
<1>6. ear.left \in Nat /\ ear.bits \in Seq(Bit) /\ Len(ear.bits) \in Nat
  BY DEF TxInv, EarOK
<1>7. Len(Append(ear.bits, tx.sout)) = Len(ear.bits) + 1 /\ Len(<<>>) = 0
  BY <1>3, <1>6
<1>8. EarOK
  BY DEF TxInv
<1>9. /\ EarOK'
      /\ ear.left = 0 /\ tx.sout # 0 => ear'.left = 0 /\ ear'.bits = ear.bits
      /\ ear.left = 0 /\ tx.sout = 0 =>
            ear'.left = BitTime + BitTime \div 2 /\ ear'.bits = ear.bits
      /\ ear.left > 1 => ear'.left = ear.left - 1 /\ ear'.bits = ear.bits
      /\ ear.left = 1 /\ Len(ear.bits) # DataBits =>
            ear'.left = BitTime /\ ear'.bits = Append(ear.bits, tx.sout)
      /\ ear.left = 1 /\ Len(ear.bits) = DataBits =>
            ear'.left = 0 /\ ear'.bits = <<>>
  BY <1>3, <1>4, <1>5, <1>8, EarListens
<1> QED
  BY <1>2, <1>6, <1>7, <1>9, Zenon

(* The edges are counted on within a bit, and anew after it.               *)
LEMMA TogetherCounts ==
    ASSUME TxInv, NEW valid, NEW data, Together(valid, data)
    PROVE  /\ /\ ~Tx!LastEdge(clock.rising_edge)
              /\ tx'.edges_counter = IF clock.rising_edge THEN tx.edges_counter + 1
                                                          ELSE tx.edges_counter
              => TxLeft' = TxLeft - 1
           /\ Tx!LastEdge(clock.rising_edge) /\ tx'.edges_counter = 0 =>
                 TxLeft' = BitTime
<1>1. PICK divider : Clock!Cycle(TRUE, FALSE, divider)
  BY DEF Together
<1> QED
  BY <1>1, BitsGoBy DEF TxInv

(* The ear stays in step with the transmitter: both are in the same bit of *)
(* the same byte, half a bit apart.                                        *)
LEMMA InStepNext ==
    ASSUME TxInv, NEW valid \in BOOLEAN, NEW data \in Tx!Byte,
           Together(valid, data)
    PROVE  TxOK' /\ InStep'
<1> DEFINE edge == clock.rising_edge
           left == ear.left  heard == Len(ear.bits)
           cycles == TxLeft  bit == tx.bits_counter
           left1 == ear'.left  heard1 == Len(ear'.bits)
           cycles1 == TxLeft'
           half == BitTime \div 2
<1>1. /\ cycles \in 1 .. BitTime /\ left \in Nat /\ heard \in Nat
      /\ tx'.edges_counter = 0 => cycles1 > BitTime - Period /\ cycles1 <= BitTime
      /\ Tx!LastEdge(edge) <=> cycles = 1
  BY TogetherFacts
<1>2. /\ left = 0 /\ tx.sout # 0 => left1 = 0 /\ heard1 = heard
      /\ left = 0 /\ tx.sout = 0 => left1 = BitTime + half /\ heard1 = heard
      /\ left > 1 => left1 = left - 1 /\ heard1 = heard
      /\ left = 1 /\ heard # DataBits => left1 = BitTime /\ heard1 = heard + 1
      /\ left = 1 /\ heard = DataBits => left1 = 0 /\ heard1 = 0
  BY TogetherFacts
<1>3. /\ Tx!LastEdge(edge) /\ tx'.edges_counter = 0 => cycles1 = BitTime
      /\ /\ ~Tx!LastEdge(edge)
         /\ tx'.edges_counter = IF edge THEN tx.edges_counter + 1
                                        ELSE tx.edges_counter
         => cycles1 = cycles - 1
  BY TogetherCounts
<1>4. /\ Period \in Nat /\ Period >= 2 /\ BitTime \in Nat
      /\ BitTime >= 3 * Period /\ half \in Nat /\ BitTime = 2 * half
      /\ half > Period
      /\ DataBits \in Nat /\ DataBits > 0
  BY Numbers, UartAssumption
<1>5. Aligned(tx.state, tx.sout, bit, cycles, left, heard)
  BY DEF TxInv, InStep
<1>6. InStep' <=> Aligned(tx'.state, tx'.sout, tx'.bits_counter, cycles1, left1, heard1)
  BY DEF InStep
<1>7. /\ tx \in [state : Tx!States, bits_counter : 0 .. DataBits - 1,
                  edges_counter : 0 .. Oversampling - 1,
                  sout : Bit, tx_buffer : Tx!Byte]
      /\ bit \in 0 .. DataBits - 1
      /\ TxOK /\ tx.state \in {"IDLE", "START", "ACTIVE", "STOP"}
  BY DEF TxInv, UartTypeOK, Tx!TypeOK, Tx!States
<1>8. Tx!Cycle(edge, valid, data)
  BY DEF Together
<1> HIDE DEF edge, left, heard, cycles, bit, left1, heard1, cycles1, half
<1>9. CASE Tx!Rest(valid)
  <2>1. tx' = tx /\ tx.state = "IDLE"
    BY <1>9 DEF Tx!Rest
  <2>2. left = 0 /\ tx.sout = 1 /\ heard = 0
    BY <1>5, <1>7, <2>1 DEF Aligned, TxOK
  <2>3. left1 = 0 /\ heard1 = 0
    BY <1>2, <2>2
  <2> QED
    BY <1>6, <1>7, <2>1, <2>3 DEF Aligned, TxOK
<1>10. CASE Tx!Accept(valid)
  <2>1. /\ tx'.state = "START" /\ tx'.sout = tx.sout /\ tx.state = "IDLE"
        /\ tx'.edges_counter = tx.edges_counter
        /\ tx'.bits_counter = tx.bits_counter
    BY <1>7, <1>10 DEF Tx!Accept
  <2>2. left = 0 /\ tx.sout = 1 /\ heard = 0
    BY <1>5, <1>7, <2>1 DEF Aligned, TxOK
  <2>3. left1 = 0 /\ heard1 = 0
    BY <1>2, <2>2
  <2>4. tx'.edges_counter = 0 /\ tx'.bits_counter = 0
    BY <1>7, <2>1 DEF TxOK
  <2> QED
    BY <1>1, <1>6, <2>1, <2>2, <2>3, <2>4 DEF Aligned, TxOK
<1>11. CASE Tx!WithinBit(edge, data)
  <2>1. /\ tx'.state = tx.state /\ tx.state # "IDLE"
        /\ tx'.bits_counter = tx.bits_counter
        /\ tx'.edges_counter = IF edge THEN tx.edges_counter + 1
                                       ELSE tx.edges_counter
        /\ tx'.sout = IF tx.state = "START" THEN 0 ELSE tx.sout
    BY <1>7, <1>11 DEF Tx!WithinBit
  <2>2. cycles # 1 /\ cycles1 = cycles - 1
    BY <1>1, <1>3, <1>11, <2>1 DEF Tx!WithinBit
  <2>3. TxOK'
    BY <1>7, <2>1 DEF TxOK
  <2>4. CASE tx.state = "START"
    BY <1>1, <1>2, <1>4, <1>5, <1>6, <1>7, <2>1, <2>2, <2>4
       DEF Aligned, Late, TxOK
  <2>5. CASE tx.state = "ACTIVE"
    <3>1. /\ tx'.bits_counter = bit /\ bit \in Nat /\ bit < DataBits
          /\ tx'.state = "ACTIVE"
      BY <1>4, <1>7, <2>1, <2>5 DEF bit
    <3>2. CASE left > 0 /\ heard = bit /\ Late(cycles - left)
      <4>1. CASE left = 1
        <5>1. left1 = BitTime /\ heard1 = bit + 1
          BY <1>2, <1>4, <3>1, <3>2, <4>1
        <5>2. Late(cycles1 + BitTime - left1)
          BY <1>1, <1>4, <2>2, <3>2, <4>1, <5>1 DEF Late
        <5> QED
          BY <1>4, <1>6, <2>3, <3>1, <5>1, <5>2 DEF Aligned
      <4>2. CASE left > 1
        <5>1. left1 = left - 1 /\ heard1 = bit
          BY <1>2, <3>2, <4>2
        <5>2. Late(cycles1 - left1)
          BY <1>1, <2>2, <3>2, <5>1 DEF Late
        <5> QED
          BY <1>1, <1>6, <2>3, <3>1, <4>2, <5>1, <5>2 DEF Aligned
      <4> QED
        BY <1>1, <3>2, <4>1, <4>2
    <3>3. CASE left > 0 /\ heard = bit + 1 /\ Late(cycles + BitTime - left)
      <4>1. left > 1
        BY <1>1, <1>4, <3>3 DEF Late
      <4>2. left1 = left - 1 /\ heard1 = bit + 1
        BY <1>2, <3>3, <4>1
      <4>3. Late(cycles1 + BitTime - left1)
        BY <1>1, <1>4, <2>2, <3>3, <4>2 DEF Late
      <4> QED
        BY <1>1, <1>6, <2>3, <3>1, <4>1, <4>2, <4>3 DEF Aligned
    <3> QED
      BY <1>5, <2>5, <3>2, <3>3 DEF Aligned
  <2>6. CASE tx.state = "STOP"
    <3>1. tx.sout # 0
      BY <1>7, <2>6 DEF TxOK
    <3>2. tx'.state = "STOP"
      BY <2>1, <2>6
    <3>3. CASE left = 0
      <4>1. left1 = 0 /\ heard1 = 0
        BY <1>2, <1>5, <3>1, <3>3 DEF Aligned
      <4> QED
        BY <1>6, <2>3, <3>2, <4>1 DEF Aligned
    <3>4. CASE left > 0
      <4>1. heard = DataBits /\ Late(cycles - left)
        BY <1>5, <2>6, <3>4 DEF Aligned
      <4>2. CASE left = 1
        <5>1. left1 = 0 /\ heard1 = 0
          BY <1>2, <4>1, <4>2
        <5> QED
          BY <1>6, <2>3, <3>2, <5>1 DEF Aligned
      <4>3. CASE left > 1
        <5>1. left1 = left - 1 /\ heard1 = DataBits
          BY <1>2, <4>1, <4>3
        <5>2. Late(cycles1 - left1)
          BY <1>1, <2>2, <4>1, <5>1 DEF Late
        <5> QED
          BY <1>1, <1>6, <2>3, <3>2, <4>3, <5>1, <5>2 DEF Aligned
      <4> QED
        BY <1>1, <3>4, <4>2, <4>3
    <3> QED
      BY <1>1, <3>3, <3>4
  <2> QED
    BY <1>7, <2>1, <2>3, <2>4, <2>5, <2>6
<1>12. CASE Tx!FirstBit(edge)
  <2>1. /\ tx'.state = "ACTIVE" /\ tx.state = "START"
        /\ tx'.bits_counter = tx.bits_counter /\ tx'.edges_counter = 0
    BY <1>7, <1>12 DEF Tx!FirstBit
  <2>2. cycles = 1 /\ cycles1 = BitTime /\ bit = 0 /\ tx'.bits_counter = 0
    BY <1>1, <1>3, <1>7, <1>12, <2>1 DEF Tx!FirstBit, TxOK, bit
  <2>3. tx.sout = 0
    BY <1>4, <1>5, <1>7, <2>1, <2>2 DEF Aligned, TxOK
  <2> QED
    BY <1>1, <1>2, <1>4, <1>5, <1>6, <2>1, <2>2, <2>3 DEF Aligned, Late, TxOK
<1>13. CASE Tx!NextBit(edge)
  <2>1. /\ tx'.state = "ACTIVE" /\ tx.state = "ACTIVE"
        /\ tx'.bits_counter = bit + 1 /\ tx'.edges_counter = 0
        /\ bit # DataBits - 1
    BY <1>7, <1>13 DEF Tx!NextBit, bit
  <2>2. cycles = 1 /\ cycles1 = BitTime
    BY <1>1, <1>3, <1>13, <2>1 DEF Tx!NextBit
  <2> QED
    BY <1>1, <1>2, <1>4, <1>5, <1>6, <1>7, <2>1, <2>2 DEF Aligned, Late, TxOK
<1>14. CASE Tx!StopBit(edge)
  <2>1. /\ tx'.state = "STOP" /\ tx.state = "ACTIVE" /\ tx'.sout = 1
        /\ tx'.bits_counter = 0 /\ tx'.edges_counter = 0
        /\ bit = DataBits - 1
    BY <1>7, <1>14 DEF Tx!StopBit, bit
  <2>2. cycles = 1 /\ cycles1 = BitTime
    BY <1>1, <1>3, <1>14, <2>1 DEF Tx!StopBit
  <2> QED
    BY <1>1, <1>2, <1>4, <1>5, <1>6, <1>7, <2>1, <2>2 DEF Aligned, Late, TxOK
<1>15. CASE Tx!Finish(edge)
  <2>1. /\ tx'.state = "IDLE" /\ tx.state = "STOP" /\ tx'.sout = tx.sout
        /\ tx'.bits_counter = tx.bits_counter /\ tx'.edges_counter = 0
    BY <1>7, <1>15 DEF Tx!Finish
  <2>2. cycles = 1 /\ tx.sout = 1 /\ tx'.bits_counter = 0
    BY <1>1, <1>7, <1>15, <2>1 DEF Tx!Finish, TxOK
  <2> QED
    BY <1>1, <1>2, <1>4, <1>5, <1>6, <2>1, <2>2 DEF Aligned, Late, TxOK
<1> QED
  BY <1>8, <1>9, <1>10, <1>11, <1>12, <1>13, <1>14, <1>15 DEF Tx!Cycle

(* When the ear samples, the bit is the one it waits for.                  *)
LEMMA SamplesItsBit ==
    ASSUME TxInv, NEW valid, NEW data, Together(valid, data),
           ear.left = 1, Len(ear.bits) # DataBits
    PROVE  tx.state = "ACTIVE" /\ Len(ear.bits) = tx.bits_counter
<1>1. TxLeft \in 1 .. BitTime /\ Len(ear.bits) \in Nat
  BY TogetherFacts
<1>2. /\ tx.state \in {"IDLE", "START", "ACTIVE", "STOP"}
      /\ tx.state = "START" => tx.sout \in {0, 1}
      /\ BitTime \in Nat
  BY Numbers DEF TxInv, UartTypeOK, Tx!TypeOK, Tx!States, TxOK
<1> QED
  BY <1>1, <1>2 DEF TxInv, InStep, Aligned, Late

(* What the ear has heard stays what the byte says.                        *)
LEMMA HeardOfNext ==
    ASSUME TxInv, NEW valid, NEW data, Together(valid, data),
           NEW byte, HeardOf(byte),
           tx.state = "ACTIVE" => tx.sout = byte[tx.bits_counter]
    PROVE  HeardOf(byte)'
<1>1. ear.bits \in Seq(Bit) /\ tx.sout \in Bit /\ Len(ear.bits) \in Nat
      /\ ear.left \in Nat
  BY DEF TxInv, EarOK, UartTypeOK, Tx!TypeOK
<1>2. /\ ear.left = 0 /\ tx.sout # 0 => ear'.bits = ear.bits
      /\ ear.left = 0 /\ tx.sout = 0 => ear'.bits = ear.bits
      /\ ear.left > 1 => ear'.bits = ear.bits
      /\ ear.left = 1 /\ Len(ear.bits) # DataBits =>
            ear'.bits = Append(ear.bits, tx.sout)
      /\ ear.left = 1 /\ Len(ear.bits) = DataBits => ear'.bits = <<>>
  <2>1. ear.left = 1 /\ Len(ear.bits) = DataBits => tx.sout # 0
    BY TogetherFacts, HearsAtStop DEF TxInv, TxOK
  <2>2. EarOK /\ Ear!Listen(tx.sout, BitTime)
    BY DEF TxInv, Together
  <2> QED
    BY <1>1, <2>1, <2>2, EarListens
<1>3. CASE ear'.bits = ear.bits
  BY <1>3 DEF HeardOf
<1>4. CASE ear'.bits = <<>>
  BY <1>4 DEF HeardOf
<1>5. CASE ear.left = 1 /\ Len(ear.bits) # DataBits
  <2>1. tx.sout = byte[Len(ear.bits)]
    BY <1>5, SamplesItsBit
  <2>2. ear'.bits = Append(ear.bits, tx.sout)
    BY <1>2, <1>5
  <2>3. /\ Len(ear'.bits) = Len(ear.bits) + 1
        /\ \A k \in 1 .. Len(ear.bits) : ear'.bits[k] = ear.bits[k]
        /\ ear'.bits[Len(ear.bits) + 1] = tx.sout
    BY <1>1, <2>2
  <2>4. ASSUME NEW k \in 1 .. Len(ear'.bits)
        PROVE  ear'.bits[k] = byte[k - 1]
    <3>1. CASE k \in 1 .. Len(ear.bits)
      BY <2>3, <3>1 DEF HeardOf
    <3>2. CASE k = Len(ear.bits) + 1
      BY <1>1, <2>1, <2>3, <3>2
    <3> QED
      BY <1>1, <2>3, <3>1, <3>2
  <2> QED
    BY <2>4 DEF HeardOf
<1> QED
  BY <1>1, <1>2, <1>3, <1>4, <1>5

(* The byte goes on its way.  In START the data register is copied once    *)
(* more in every cycle but the last.                                       *)
LEMMA CarriesOn ==
    ASSUME TxInv, NEW valid, NEW data, Together(valid, data),
           NEW byte \in Tx!Byte, Carries(byte),
           \/ tx.state \in {"ACTIVE", "STOP"}
           \/ tx.state = "START" /\ tx.sout = 0 /\ Tx!LastEdge(clock.rising_edge)
    PROVE  Carries(byte)' /\ (tx'.state \in {"ACTIVE", "STOP", "IDLE"})
<1>1. tx \in [state : Tx!States, bits_counter : 0 .. DataBits - 1,
              edges_counter : 0 .. Oversampling - 1,
              sout : Bit, tx_buffer : Tx!Byte]
      /\ DataBits \in Nat /\ DataBits > 0
  BY UartAssumption DEF TxInv, UartTypeOK, Tx!TypeOK
<1>2. HeardOf(byte)'
  BY HeardOfNext DEF Carries
<1>3. Tx!Cycle(clock.rising_edge, valid, data)
  BY DEF Together
<1>4. \A k \in 0 .. DataBits - 2 : Tx!Shifted(tx.tx_buffer)[k] = tx.tx_buffer[k + 1]
  <2> TAKE k \in 0 .. DataBits - 2
  <2>1. k \in 0 .. DataBits - 1 /\ k # DataBits - 1
    BY <1>1
  <2> QED
    BY <2>1 DEF Tx!Shifted
<1>5. CASE tx.state = "START"
  <2>1. Tx!FirstBit(clock.rising_edge)
    BY <1>3, <1>5 DEF Tx!Cycle, Tx!Rest, Tx!Accept, Tx!WithinBit, Tx!NextBit,
                      Tx!StopBit, Tx!Finish
  <2>2. /\ tx'.state = "ACTIVE" /\ tx'.sout = tx.tx_buffer[0]
        /\ tx'.bits_counter = tx.bits_counter
        /\ tx'.tx_buffer = Tx!Shifted(tx.tx_buffer)
    BY <1>1, <2>1 DEF Tx!FirstBit
  <2>3. tx.bits_counter = 0 /\ tx.tx_buffer = byte
    BY <1>5 DEF TxInv, TxOK, Carries
  <2>4. \A k \in 0 .. DataBits - 2 : tx'.tx_buffer[k] = byte[0 + 1 + k]
    BY <1>1, <1>4, <2>2, <2>3
  <2> QED
    BY <1>1, <1>2, <2>2, <2>3, <2>4 DEF Carries
<1>6. CASE tx.state = "ACTIVE" /\ ~Tx!LastEdge(clock.rising_edge)
  <2>1. Tx!WithinBit(clock.rising_edge, data)
    BY <1>3, <1>6 DEF Tx!Cycle, Tx!Rest, Tx!Accept, Tx!FirstBit, Tx!NextBit,
                      Tx!StopBit, Tx!Finish
  <2>2. /\ tx'.state = "ACTIVE" /\ tx'.sout = tx.sout
        /\ tx'.bits_counter = tx.bits_counter /\ tx'.tx_buffer = tx.tx_buffer
    BY <1>1, <1>6, <2>1 DEF Tx!WithinBit
  <2> QED
    BY <1>2, <1>6, <2>2 DEF Carries
<1>7. CASE tx.state = "ACTIVE" /\ Tx!LastEdge(clock.rising_edge)
           /\ tx.bits_counter # DataBits - 1
  <2>1. Tx!NextBit(clock.rising_edge)
    BY <1>3, <1>7 DEF Tx!Cycle, Tx!Rest, Tx!Accept, Tx!WithinBit, Tx!FirstBit,
                      Tx!StopBit, Tx!Finish
  <2>2. /\ tx'.state = "ACTIVE" /\ tx'.sout = tx.tx_buffer[0]
        /\ tx'.bits_counter = tx.bits_counter + 1
        /\ tx'.tx_buffer = Tx!Shifted(tx.tx_buffer)
    BY <1>1, <2>1 DEF Tx!NextBit
  <2>3. \A k \in 0 .. DataBits - 2 - tx.bits_counter :
           tx.tx_buffer[k] = byte[tx.bits_counter + 1 + k]
    BY <1>7 DEF Carries
  <2>4. tx.tx_buffer[0] = byte[tx.bits_counter + 1]
    BY <1>1, <1>7, <2>3
  <2>5. ASSUME NEW k \in 0 .. DataBits - 2 - (tx.bits_counter + 1)
        PROVE  tx'.tx_buffer[k] = byte[tx.bits_counter + 1 + 1 + k]
    <3>1. k \in 0 .. DataBits - 2 /\ k + 1 \in 0 .. DataBits - 2 - tx.bits_counter
      BY <1>1
    <3>2. tx'.tx_buffer[k] = tx.tx_buffer[k + 1]
      BY <1>4, <2>2, <3>1
    <3>3. tx.tx_buffer[k + 1] = byte[tx.bits_counter + 1 + (k + 1)]
      BY <2>3, <3>1
    <3>4. tx.bits_counter + 1 + (k + 1) = tx.bits_counter + 1 + 1 + k
      BY <1>1
    <3> QED
      BY <3>2, <3>3, <3>4
  <2> QED
    BY <1>2, <2>2, <2>4, <2>5 DEF Carries
<1>8. CASE tx.state = "ACTIVE" /\ Tx!LastEdge(clock.rising_edge)
           /\ tx.bits_counter = DataBits - 1
  <2>1. Tx!StopBit(clock.rising_edge)
    BY <1>3, <1>8 DEF Tx!Cycle, Tx!Rest, Tx!Accept, Tx!WithinBit, Tx!FirstBit,
                      Tx!NextBit, Tx!Finish
  <2>2. tx'.state = "STOP"
    BY <1>1, <2>1 DEF Tx!StopBit
  <2> QED
    BY <1>2, <2>2 DEF Carries
<1>9. CASE tx.state = "STOP"
  <2>1. tx'.state \in {"STOP", "IDLE"}
    BY <1>1, <1>3, <1>9 DEF Tx!Cycle, Tx!Rest, Tx!Accept, Tx!WithinBit, Tx!FirstBit,
                      Tx!NextBit, Tx!StopBit, Tx!Finish
  <2> QED
    BY <1>2, <2>1 DEF Carries
<1> QED
  BY <1>5, <1>6, <1>7, <1>8, <1>9

(* In START the byte is the one in the data register.                      *)
LEMMA CarriesData ==
    ASSUME TxInv, NEW valid, NEW data \in Tx!Byte, Together(valid, data),
           tx.state = "START",
           tx.sout = 1 \/ ~Tx!LastEdge(clock.rising_edge)
    PROVE  Carries(data)' /\ tx'.state = "START" /\ tx'.sout = 0
<1>1. tx \in [state : Tx!States, bits_counter : 0 .. DataBits - 1,
              edges_counter : 0 .. Oversampling - 1,
              sout : Bit, tx_buffer : Tx!Byte]
  BY DEF TxInv, UartTypeOK, Tx!TypeOK
<1>2. Tx!Cycle(clock.rising_edge, valid, data)
  BY DEF Together
<1>3. ~Tx!LastEdge(clock.rising_edge)
  <2>1. ASSUME tx.sout = 1
        PROVE  TxLeft # 1
    BY <2>1, Numbers DEF TxInv, InStep, Aligned
  <2> QED
    BY <2>1, TogetherFacts
<1>4. Tx!WithinBit(clock.rising_edge, data)
  BY <1>2, <1>3 DEF Tx!Cycle, Tx!Rest, Tx!Accept, Tx!FirstBit, Tx!NextBit,
                    Tx!StopBit, Tx!Finish
<1>5. tx'.state = "START" /\ tx'.sout = 0 /\ tx'.tx_buffer = data
  BY <1>1, <1>4 DEF Tx!WithinBit
<1>6. Len(ear.bits) = 0 /\ ear.left # 1
  <2>1. /\ tx.sout \in {0, 1} /\ TxLeft \in 1 .. BitTime /\ BitTime \in Nat
        /\ ear.left \in Nat
    BY TogetherFacts, Numbers DEF TxInv, TxOK
  <2> QED
    BY <2>1 DEF TxInv, InStep, Aligned, Late
<1>7. Len(ear'.bits) = 0
  BY <1>6, TogetherFacts
<1> QED
  BY <1>5, <1>7 DEF Carries, HeardOf

(* A byte is on the line from the cycle the transmitter accepts it to the  *)
(* one in which the ear hears it.                                          *)
LEMMA PendingNext ==
    ASSUME TxInv, NEW valid \in BOOLEAN, NEW data \in Tx!Byte,
           Together(valid, data)
    PROVE  /\ Ear!Hears => Pending /\ tx.state = "STOP"
           /\ Pending' <=> \/ Pending /\ ~Ear!Hears
                           \/ valid /\ tx.state = "IDLE"
           /\ valid /\ tx.state = "IDLE" => tx'.state = "START" /\ tx'.sout = 1
           /\ ~valid /\ tx.state = "IDLE" => tx'.state = "IDLE"
<1>1. tx \in [state : Tx!States, bits_counter : 0 .. DataBits - 1,
              edges_counter : 0 .. Oversampling - 1,
              sout : Bit, tx_buffer : Tx!Byte]
      /\ tx.state \in {"IDLE", "START", "ACTIVE", "STOP"}
  BY DEF TxInv, UartTypeOK, Tx!TypeOK, Tx!States
<1>2. Tx!Cycle(clock.rising_edge, valid, data)
  BY DEF Together
<1>3. Ear!Hears => tx.state = "STOP" /\ ear.left = 1
  BY TogetherFacts, HearsAtStop DEF Ear!Hears, TxInv
<1>4. CASE tx.state = "IDLE" /\ valid
  <2>1. tx'.state = "START" /\ tx'.sout = tx.sout /\ tx.sout = 1
    BY <1>1, <1>2, <1>4 DEF Tx!Cycle, Tx!Rest, Tx!Accept, Tx!WithinBit, Tx!FirstBit,
       Tx!NextBit, Tx!StopBit, Tx!Finish, TxInv, TxOK
  <2> QED
    BY <1>3, <1>4, <2>1 DEF Pending
<1>5. CASE tx.state = "IDLE" /\ ~valid
  <2>1. tx' = tx
    BY <1>2, <1>5 DEF Tx!Cycle, Tx!Rest, Tx!Accept, Tx!WithinBit, Tx!FirstBit,
       Tx!NextBit, Tx!StopBit, Tx!Finish
  <2> QED
    BY <1>3, <1>5, <2>1 DEF Pending
<1>6. CASE tx.state \in {"START", "ACTIVE"}
  <2>1. tx'.state \in {"START", "ACTIVE", "STOP"}
    BY <1>1, <1>2, <1>6 DEF Tx!Cycle, Tx!Rest, Tx!Accept, Tx!WithinBit, Tx!FirstBit,
       Tx!NextBit, Tx!StopBit, Tx!Finish
  <2>2. tx'.state = "STOP" => ear'.left > 0
    <3> SUFFICES ASSUME tx'.state = "STOP" PROVE ear'.left > 0
      OBVIOUS
    <3>1. tx.state = "ACTIVE"
      BY <1>1, <1>2, <1>6 DEF Tx!Cycle, Tx!Rest, Tx!Accept, Tx!WithinBit, Tx!FirstBit,
         Tx!NextBit, Tx!StopBit, Tx!Finish
    <3>2. ear.left > 0 /\ (ear.left = 1 => Len(ear.bits) # DataBits)
      <4>1. ear.left = 1 => Len(ear.bits) # DataBits
        BY <3>1, TogetherFacts, HearsAtStop DEF TxInv
      <4>2. ear.left > 0
        BY <3>1 DEF TxInv, InStep, Aligned
      <4> QED
        BY <4>1, <4>2
    <3> QED
      BY <3>2, TogetherFacts, Numbers
  <2>3. tx'.state # "IDLE" /\ Pending /\ ~Ear!Hears
    BY <1>3, <1>6, <2>1 DEF Pending
  <2> QED
    BY <1>3, <1>6, <2>1, <2>2, <2>3 DEF Pending
<1>7. CASE tx.state = "STOP"
  <2>1. tx'.state \in {"STOP", "IDLE"}
    BY <1>1, <1>2, <1>7 DEF Tx!Cycle, Tx!Rest, Tx!Accept, Tx!WithinBit, Tx!FirstBit,
       Tx!NextBit, Tx!StopBit, Tx!Finish
  <2>2. /\ ear.left \in Nat
        /\ ear.left > 0 => Len(ear.bits) = DataBits /\ Late(TxLeft - ear.left)
        /\ tx.sout # 0
    BY <1>7, TogetherFacts DEF TxInv, InStep, Aligned, TxOK
  <2>3. ear'.left > 0 <=> ear.left > 1
    BY <2>2, TogetherFacts
  <2>4. Ear!Hears <=> ear.left = 1
    BY <2>2 DEF Ear!Hears
  <2>5. tx'.state = "IDLE" => ~(ear.left > 1)
    <3>1. tx'.state = "IDLE" => ear'.left = 0
      BY InStepNext DEF InStep, Aligned
    <3> QED
      BY <2>3, <3>1
  <2> QED
    BY <1>3, <1>7, <2>1, <2>2, <2>3, <2>4, <2>5 DEF Pending
<1> QED
  BY <1>1, <1>4, <1>5, <1>6, <1>7

(* The ear hears the byte it carries.                                      *)
LEMMA HearsTheByte ==
    ASSUME EarOK, NEW byte \in Tx!Byte, HeardOf(byte), Ear!Hears
    PROVE  Ear!Heard = byte
<1>1. Len(ear.bits) = DataBits /\ DataBits \in Nat
  BY UartAssumption DEF Ear!Hears
<1>2. \A k \in 0 .. DataBits - 1 : ear.bits[k + 1] = byte[k]
  BY <1>1 DEF HeardOf
<1>3. byte = [k \in 0 .. DataBits - 1 |-> byte[k]]
  BY DEF Tx!Byte
<1> QED
  BY <1>2, <1>3 DEF Ear!Heard

-----------------------------------------------------------------------------
(* What is owed when a byte has been heard: with at most two bytes owed,   *)
(* the second one or none.                                                 *)
LEMMA AfterHeard ==
    ASSUME Len(owed) \in 1 .. 2, NEW byte, byte \in Range(owed),
           owed \in Seq(Tx!Byte)
    PROVE  /\ After(byte) \in Seq(Tx!Byte)
           /\ Len(After(byte)) = IF owed[1] = byte THEN Len(owed) - 1 ELSE 0
           /\ After(byte) # <<>> => Len(owed) = 2 /\ After(byte)[1] = owed[2]
           /\ owed[1] # byte => Len(owed) = 2
<1> DEFINE place == SelectInSeq(owed, LAMBDA b : b = byte)
<1>1. place = IF owed[1] = byte THEN 1 ELSE 2
  <2> DEFINE places == {k \in 1 .. Len(owed) : owed[k] = byte}
  <2>1. place
            = IF places # {} THEN CHOOSE x \in places : \A y \in places : x =< y ELSE 0
    BY DEF SelectInSeq, Min
  <2>2. PICK k \in 1 .. Len(owed) : owed[k] = byte
    BY DEF Range
  <2>3. CASE owed[1] = byte
    <3>1. 1 \in places /\ \A y \in places : 1 =< y
      BY <2>3
    <3>2. \A x \in places : (\A y \in places : x =< y) => x = 1
      BY <3>1
    <3> HIDE DEF places
    <3>3. (CHOOSE x \in places : \A y \in places : x =< y) = 1
      BY <3>1, <3>2
    <3> QED
      BY <2>1, <2>3, <3>1, <3>3
  <2>4. CASE owed[1] # byte
    <3>1. places = {2}
      BY <2>2, <2>4
    <3> HIDE DEF places
    <3>2. (CHOOSE x \in places : \A y \in places : x =< y) = 2
      BY <3>1
    <3> QED
      BY <2>1, <2>4, <3>1, <3>2
  <2> QED
    BY <2>3, <2>4
<1>2. After(byte) = SubSeq(owed, place + 1, Len(owed))
  BY DEF After
<1> HIDE DEF place
<1>3. CASE owed[1] = byte
  <2>1. After(byte) = SubSeq(owed, 2, Len(owed))
    BY <1>3, <1>1, <1>2
  <2>2. /\ SubSeq(owed, 2, Len(owed)) \in Seq(Tx!Byte)
        /\ Len(SubSeq(owed, 2, Len(owed))) = Len(owed) - 1
        /\ Len(owed) = 2 => SubSeq(owed, 2, Len(owed))[1] = owed[2]
    <3>1. \A k \in 2 .. Len(owed) : owed[k] \in Tx!Byte
      OBVIOUS
    <3> QED
      BY <3>1
  <2> QED
    BY <1>3, <2>1, <2>2, EmptySeq
<1>4. CASE owed[1] # byte
  <2>1. Len(owed) = 2
    BY <1>4 DEF Range
  <2>2. After(byte) = SubSeq(owed, 3, 2)
    BY <1>4, <1>1, <1>2, <2>1
  <2>3. SubSeq(owed, 3, 2) = <<>>
    BY <2>1
  <2> QED
    BY <1>4, <2>1, <2>2, <2>3, EmptySeq
<1> QED
  BY <1>3, <1>4

-----------------------------------------------------------------------------
(* At most two bytes are owed.                                             *)
LEMMA OwedBound ==
    ASSUME Counted, LostInv, LineInv
    PROVE  /\ owed \in Seq(Tx!Byte) /\ Len(owed) \in 0 .. 2 /\ lost \in 0 .. 1
           /\ Pending => Len(owed) \in 1 .. 2
<1>1. owed \in Seq(Tx!Byte) /\ lost \in Nat /\ lost <= 1
  BY DEF Counted, LostInv
<1>2. lost = 1 => ~(tx_data_valid /\ Pending)
  BY DEF LostInv, LineInv, Collision, Tx!busy, Pending, Beginning
<1>3. Len(owed) = lost + One(tx_data_valid) + One(Pending)
  BY DEF Counted
<1>4. lost \in 0 .. 1
  BY <1>1
<1> QED
  BY <1>1, <1>2, <1>3, <1>4 DEF One

(* The host hears what is owed, and when no handler has just begun, the    *)
(* byte written last.                                                      *)
LEMMA HearsOwed ==
    ASSUME TxInv, Sending, Counted, LostInv, LineInv, Ear!Hears
    PROVE  /\ Ear!Heard \in Range(owed) /\ Len(owed) \in 1 .. 2
           /\ ~Beginning => Ear!Heard = uart_regs.tdr
           /\ Pending /\ tx.state = "STOP"
<1>1. tx.state = "STOP" /\ Pending
  <2>1. ear.left = 1 /\ Len(ear.bits) = DataBits
    BY DEF Ear!Hears
  <2>2. TxLeft \in 1 .. BitTime
    BY LeftOfBit DEF TxInv
  <2> QED
    BY <2>1, <2>2, HearsAtStop DEF TxInv, Pending
<1>2. Len(owed) \in 1 .. 2 /\ owed \in Seq(Tx!Byte)
  BY <1>1, OwedBound
<1>3. PICK byte \in OnTheLine : Carries(byte)
  BY <1>1 DEF Sending
<1>4. uart_regs.tdr = owed[Len(owed)] /\ Len(owed) \in 1 .. Len(owed)
  <2>1. owed # <<>>
    BY <1>2, EmptySeq
  <2> QED
    BY <1>2, <2>1 DEF Sending
<1>5. byte \in Range(owed) /\ (~Beginning => byte = uart_regs.tdr)
  BY <1>2, <1>3, <1>4 DEF OnTheLine, Range
<1>6. byte \in Tx!Byte
  BY <1>2, <1>5 DEF Range
<1>7. Ear!Heard = byte
  BY <1>3, <1>6, HearsTheByte DEF TxInv, Carries
<1> QED
  BY <1>1, <1>2, <1>5, <1>7

-----------------------------------------------------------------------------
(* A cycle as the line sees it: with a store of a byte or without.         *)
LineStep(stores, byte) ==
    /\ Together(tx_data_valid, uart_regs.tdr) /\ TxInv'
    /\ tx_data_valid' = stores
    /\ uart_regs'.txact = (tx.state # "IDLE")
    /\ uart_regs'.tdr = IF stores THEN byte ELSE uart_regs.tdr
    /\ owed' = IF stores THEN Append(Unheard, byte) ELSE Unheard
    /\ lost' = lost + One(Collision) - FoundLost

Stores(access, stores, byte) ==
    \/ ~stores /\ access \in {None, ReadReg("sr")}
    \/ stores /\ byte \in Tx!Byte /\ access = WriteReg("tdr", [tdr |-> byte])

(* A cycle of the UART whose access stores a byte, or does not, is a step  *)
(* of the line.                                                            *)
LEMMA CycleSteps ==
    ASSUME TxInv, NEW access, NEW timer_access, NEW stores \in BOOLEAN, NEW byte,
           Stores(access, stores, byte), Cycle(access, timer_access)
    PROVE  LineStep(stores, byte)
<1>1. /\ GoodAccess(access)
      /\ IsWritten(access, "tdr") = stores
      /\ stores => access.fields.tdr = byte
      /\ ~IsWritten(access, "cdr") /\ ~IsWritten(access, "cr")
  <2>1. CASE ~stores /\ access \in {None, ReadReg("sr")}
    <3>1. GoodAccess(access)
      BY <2>1 DEF GoodAccess
    <3>2. ~access.we
      BY <2>1 DEF None, ReadReg
    <3> QED
      BY <2>1, <3>1, <3>2 DEF IsWritten
  <2>3. CASE stores /\ byte \in Tx!Byte /\ access = WriteReg("tdr", [tdr |-> byte])
    <3>1. GoodAccess(access)
      BY <2>3 DEF GoodAccess
    <3> QED
      BY <2>3, <3>1 DEF WriteReg, IsWritten
  <2> QED
    BY <2>1, <2>3 DEF Stores
<1>2. UartCycle(access, 1) /\ Ear!Listen(tx.sout, BitTime)
  BY DEF Cycle
<1>3. UartTypeOK'
  <2>1. 1 \in Bit
    BY UartAssumption
  <2> QED
    BY <1>1, <1>2, <2>1, UartKeepsTypes DEF TxInv
<1>4. /\ uart_regs'.en = uart_regs.en /\ uart_regs.en
      /\ uart_regs'.txact = (tx.state # "IDLE")
      /\ uart_regs'.tdr = IF stores THEN byte ELSE uart_regs.tdr
      /\ tx_data_valid' = stores /\ ~clk_divider_valid' /\ ~clk_divider_valid
  BY <1>1, <1>2 DEF UartCycle, RegsAfter, Written, Tx!busy, TxInv, ClockOK
<1>5. Clock!Cycle(TRUE, FALSE, uart_regs.cdr)
  <2>1. uart_regs.en = TRUE /\ clk_divider_valid = FALSE
    BY <1>4 DEF TxInv, UartTypeOK
  <2>2. Clock!Cycle(uart_regs.en, clk_divider_valid, uart_regs.cdr)
    BY <1>2 DEF UartCycle
  <2> QED
    BY <2>1, <2>2
<1>6. Together(tx_data_valid, uart_regs.tdr)
  BY <1>2, <1>5 DEF Together, UartCycle
<1>7. ClockOK'
  BY <1>4, <1>5, EdgesComeRound DEF TxInv, ClockOK
<1>8. tx_data_valid \in BOOLEAN /\ uart_regs.tdr \in Tx!Byte
  BY DEF TxInv, UartTypeOK
<1>9. TxOK' /\ InStep' /\ EarOK'
  BY <1>6, <1>8, InStepNext, TogetherFacts
<1>10. TxInv'
  BY <1>3, <1>7, <1>9 DEF TxInv
<1>11. /\ owed' = IF stores THEN Append(Unheard, byte) ELSE Unheard
       /\ lost' = lost + One(Collision) - FoundLost
  <2>1. owed' = IF stores THEN Append(Unheard, access.fields.tdr) ELSE Unheard
    BY <1>1 DEF Cycle
  <2>2. lost' = lost + One(Collision) - FoundLost
    BY DEF Cycle, One
  <2> QED
    BY <1>1, <2>1, <2>2
<1> QED
  BY <1>4, <1>6, <1>10, <1>11 DEF LineStep

(* What is still owed in such a step: bytes go only when one is heard.     *)
LEMMA UnheardFacts ==
    ASSUME TxInv, Sending, Counted, LostInv, LineInv
    PROVE  /\ Unheard \in Seq(Tx!Byte) /\ FoundLost \in 0 .. 1
           /\ Len(Unheard) = Len(owed) - FoundLost - One(Ear!Hears)
           /\ ~Ear!Hears => Unheard = owed
           /\ Unheard # <<>> => Unheard[Len(Unheard)] = uart_regs.tdr
           /\ Ear!Hears /\ owed[1] # Ear!Heard => FoundLost = 1 /\ Len(owed) = 2
<1>1. owed \in Seq(Tx!Byte) /\ Len(owed) \in Nat
  BY DEF Counted
<1>2. CASE Ear!Hears
  <2>1. Ear!Heard \in Range(owed) /\ Len(owed) \in 1 .. 2
    BY <1>2, HearsOwed
  <2>2. /\ After(Ear!Heard) \in Seq(Tx!Byte)
        /\ Len(After(Ear!Heard)) = IF owed[1] = Ear!Heard THEN Len(owed) - 1 ELSE 0
        /\ After(Ear!Heard) # <<>> => Len(owed) = 2 /\ After(Ear!Heard)[1] = owed[2]
        /\ owed[1] # Ear!Heard => Len(owed) = 2
    BY <1>1, <2>1, AfterHeard
  <2>3. Unheard = After(Ear!Heard) /\ FoundLost = Len(owed) - Len(Unheard) - 1
    BY <1>2 DEF Unheard, FoundLost
  <2>4. owed # <<>>
    BY <2>1, EmptySeq
  <2>5. Unheard # <<>> => Unheard[Len(Unheard)] = uart_regs.tdr
    <3> SUFFICES ASSUME Unheard # <<>>
                 PROVE  Unheard[Len(Unheard)] = uart_regs.tdr
      OBVIOUS
    <3>1. Len(owed) = 2 /\ Unheard[1] = owed[2] /\ Len(Unheard) # 0
      BY <2>2, <2>3, EmptySeq
    <3>2. Len(Unheard) = 1
      BY <2>2, <2>3, <3>1
    <3> QED
      BY <2>4, <3>1, <3>2 DEF Sending
  <2> DEFINE n == Len(owed)  u == Len(Unheard)  first == owed[1] = Ear!Heard
  <2>6. /\ u = IF first THEN n - 1 ELSE 0
        /\ n \in 1 .. 2 /\ FoundLost = n - u - 1 /\ (~first => n = 2)
    BY <2>1, <2>2, <2>3, Zenon
  <2> HIDE DEF n, u, first
  <2>7. FoundLost \in 0 .. 1 /\ u = n - FoundLost - 1 /\ (~first => FoundLost = 1)
    <3>1. CASE first
      BY <2>6, <3>1
    <3>2. CASE ~first
      BY <2>6, <3>2
    <3> QED
      BY <3>1, <3>2
  <2>8. Unheard \in Seq(Tx!Byte)
    BY <2>2, <2>3
  <2> QED
    BY <1>2, <2>5, <2>6, <2>7, <2>8 DEF One, n, u, first
<1>3. CASE ~Ear!Hears
  BY <1>1, <1>3 DEF Unheard, FoundLost, One, Sending
<1> QED
  BY <1>2, <1>3

(* What such a step makes of the line.                                     *)
LEMMA LineFacts ==
    ASSUME TxInv, NEW stores \in BOOLEAN, NEW byte, LineStep(stores, byte)
    PROVE  /\ Ear!Hears => Pending
           /\ Pending' <=> (Pending /\ ~Ear!Hears)
                           \/ (tx_data_valid /\ tx.state = "IDLE")
           /\ Pending => tx.state # "IDLE"
           /\ tx_data_valid /\ tx.state = "IDLE" =>
                 tx'.state = "START" /\ tx'.sout = 1
           /\ ~tx_data_valid /\ tx.state = "IDLE" => tx'.state = "IDLE"
           /\ Quiet => tx'.state = "IDLE" /\ ~Pending
           /\ ~stores => ~tx_data_valid' /\ ~Collision'
           /\ ~stores /\ Quiet => Quiet'
           /\ stores /\ Quiet => ~Collision'
           /\ ~uart_regs'.txact /\ tx'.state # "IDLE" =>
                 tx_data_valid /\ tx.state = "IDLE"
<1>1. tx_data_valid \in BOOLEAN /\ uart_regs.tdr \in Tx!Byte
  BY DEF TxInv, UartTypeOK
<1>2. Together(tx_data_valid, uart_regs.tdr)
  BY DEF LineStep
<1>3. /\ Ear!Hears => Pending /\ tx.state = "STOP"
      /\ Pending' <=> \/ Pending /\ ~Ear!Hears
                      \/ tx_data_valid /\ tx.state = "IDLE"
      /\ tx_data_valid /\ tx.state = "IDLE" => tx'.state = "START" /\ tx'.sout = 1
      /\ ~tx_data_valid /\ tx.state = "IDLE" => tx'.state = "IDLE"
  BY <1>1, <1>2, PendingNext
<1>4. Pending => tx.state # "IDLE"
  BY DEF Pending
<1>5. tx_data_valid' = stores /\ uart_regs'.txact = (tx.state # "IDLE")
  BY DEF LineStep
<1> QED
  BY <1>3, <1>4, <1>5 DEF Quiet, Collision, Tx!busy

(* The count goes on.                                                      *)
LEMMA CountedNext ==
    ASSUME TxInv, Sending, Counted, LostInv, LineInv,
           NEW stores \in BOOLEAN, NEW byte, stores => byte \in Tx!Byte,
           LineStep(stores, byte)
    PROVE  Counted'
<1>1. /\ Unheard \in Seq(Tx!Byte) /\ FoundLost \in 0 .. 1
      /\ Len(Unheard) = Len(owed) - FoundLost - One(Ear!Hears)
      /\ Len(Unheard) \in Nat
  BY UnheardFacts
<1>2. /\ lost \in Nat /\ Len(owed) = lost + One(tx_data_valid) + One(Pending)
      /\ owed \in Seq(Tx!Byte) /\ Len(owed) \in Nat
  BY DEF Counted
<1>3. /\ Ear!Hears => Pending
      /\ Pending' <=> (Pending /\ ~Ear!Hears) \/ (tx_data_valid /\ tx.state = "IDLE")
      /\ Pending => tx.state # "IDLE"
  BY LineFacts
<1>4. /\ tx_data_valid' = stores /\ lost' = lost + One(Collision) - FoundLost
      /\ owed' = IF stores THEN Append(Unheard, byte) ELSE Unheard
  BY DEF LineStep
<1>5. owed' \in Seq(Tx!Byte) /\ Len(owed') = Len(Unheard) + One(stores)
  <2>1. CASE stores
    <3>1. owed' = Append(Unheard, byte) /\ byte \in Tx!Byte
      BY <1>4, <2>1
    <3> QED
      BY <1>1, <2>1, <3>1 DEF One
  <2>2. CASE ~stores
    BY <1>1, <1>4, <2>2 DEF One
  <2> QED
    BY <2>1, <2>2
<1>6. One(Pending') = One(Pending) - One(Ear!Hears)
                          + One(tx_data_valid /\ tx.state = "IDLE")
  BY <1>3 DEF One
<1>7. One(tx_data_valid) = One(Collision) + One(tx_data_valid /\ tx.state = "IDLE")
  BY DEF One, Collision, Tx!busy
<1>8. One(tx_data_valid') = One(stores)
  BY <1>4 DEF One
<1> DEFINE total == Len(owed)  kept == Len(Unheard)  total1 == Len(owed')
           found == FoundLost  hears == One(Ear!Hears)  pending == One(Pending)
           pending1 == One(Pending')  valid == One(tx_data_valid)
           hit == One(Collision)  free == One(tx_data_valid /\ tx.state = "IDLE")
           new == One(stores)
<1>9. /\ total = lost + valid + pending /\ kept = total - found - hears
      /\ total1 = kept + new /\ pending1 = pending - hears + free
      /\ valid = hit + free /\ lost' = lost + hit - found
      /\ lost \in Nat /\ found \in 0 .. 1 /\ kept \in Nat
  BY <1>1, <1>2, <1>4, <1>5, <1>6, <1>7
<1>10. /\ hears \in {0, 1} /\ pending \in {0, 1} /\ hit \in {0, 1}
       /\ free \in {0, 1} /\ new \in {0, 1} /\ pending1 \in {0, 1}
       /\ hears = 1 => free = 0 /\ pending = 1
       /\ hears = 0 => found = 0
  <2>1. ~Ear!Hears => FoundLost = 0
    BY DEF FoundLost
  <2> QED
    BY <1>3, <2>1 DEF One
<1> HIDE DEF total, kept, total1, found, hears, pending, pending1, valid, hit,
             free, new
<1>11. lost' \in Nat /\ total1 = lost' + new + pending1
  BY <1>9, <1>10
<1> QED
  BY <1>5, <1>8, <1>11 DEF Counted, total1, new, pending1

(* What is on the line stays accounted for.  A store finds the line quiet, *)
(* but for the first of a handler's; and a handler does not go past its    *)
(* first byte while a byte is on the line.                                 *)
LEMMA SendingNext ==
    ASSUME TxInv, Sending, Counted, LostInv, LineInv,
           NEW stores \in BOOLEAN, NEW byte, stores => byte \in Tx!Byte,
           LineStep(stores, byte),
           Pending /\ (Beginning \/ stores) => Beginning'
    PROVE  Sending'
<1>1. /\ Unheard \in Seq(Tx!Byte) /\ (~Ear!Hears => Unheard = owed)
      /\ Unheard # <<>> => Unheard[Len(Unheard)] = uart_regs.tdr
  BY UnheardFacts
<1>2. /\ Pending' <=> (Pending /\ ~Ear!Hears) \/ (tx_data_valid /\ tx.state = "IDLE")
      /\ tx_data_valid /\ tx.state = "IDLE" => tx'.state = "START" /\ tx'.sout = 1
  BY LineFacts
<1>3. /\ owed' = IF stores THEN Append(Unheard, byte) ELSE Unheard
      /\ uart_regs'.tdr = IF stores THEN byte ELSE uart_regs.tdr
      /\ Together(tx_data_valid, uart_regs.tdr)
  BY DEF LineStep
<1>4. owed' # <<>> => owed'[Len(owed')] = uart_regs'.tdr
  BY <1>1, <1>3
<1>5. ASSUME Pending, ~Ear!Hears
      PROVE  \E some \in OnTheLine' : Carries(some)'
  <2>1. Len(owed) \in 1 .. 2 /\ owed \in Seq(Tx!Byte)
    BY <1>5, OwedBound
  <2>2. uart_regs.tdr = owed[Len(owed)] /\ Len(owed) \in 1 .. Len(owed)
    <3>1. owed # <<>>
      BY <2>1, EmptySeq
    <3> QED
      BY <2>1, <3>1 DEF Sending
  <2>3. uart_regs.tdr \in Range(owed) /\ uart_regs.tdr \in Tx!Byte
    BY <2>1, <2>2 DEF Range
  <2>4. OnTheLine \subseteq Range(owed)
    BY <2>3 DEF OnTheLine
  <2>5. Range(owed) \subseteq Range(owed') /\ Range(owed) \subseteq Tx!Byte
    <3>1. CASE stores
      <4>1. owed' = Append(owed, byte) /\ byte \in Tx!Byte
        BY <1>1, <1>3, <1>5, <3>1
      <4> QED
        BY <2>1, <4>1 DEF Range
    <3>2. CASE ~stores
      BY <1>1, <1>3, <1>5, <2>1, <3>2 DEF Range
    <3> QED
      BY <3>1, <3>2
  <2>6. ASSUME NEW some, some \in OnTheLine \/ some = uart_regs.tdr
        PROVE  some \in OnTheLine'
    <3>1. some \in Range(owed) /\ some \in Tx!Byte
      BY <2>3, <2>4, <2>5, <2>6
    <3>2. CASE Beginning'
      BY <2>5, <3>1, <3>2 DEF OnTheLine
    <3>3. CASE ~Beginning'
      <4>1. ~Beginning /\ ~stores
        BY <1>5, <3>3
      <4>2. some = uart_regs.tdr /\ uart_regs'.tdr = uart_regs.tdr
        BY <1>3, <2>6, <4>1 DEF OnTheLine
      <4> QED
        BY <3>3, <4>2 DEF OnTheLine
    <3> QED
      BY <3>2, <3>3
  <2> DEFINE renewed == tx.state = "START"
                        /\ (tx.sout = 1 \/ ~Tx!LastEdge(clock.rising_edge))
  <2>7. CASE renewed
    <3>1. tx_data_valid \in BOOLEAN
      BY DEF TxInv, UartTypeOK
    <3>2. PICK data : data = uart_regs.tdr
      OBVIOUS
    <3>3. data \in Tx!Byte /\ Together(tx_data_valid, data)
      BY <1>3, <2>3, <3>2
    <3>4. Carries(data)'
      BY <3>1, <3>3, <2>7, CarriesData
    <3> QED
      BY <2>6, <3>2, <3>4
  <2>8. CASE ~renewed
    <3>1. PICK some \in OnTheLine : Carries(some)
      BY <1>5, <2>8 DEF Sending
    <3>2. some \in Tx!Byte
      BY <2>4, <2>5, <3>1
    <3>3. \/ tx.state \in {"ACTIVE", "STOP"}
          \/ tx.state = "START" /\ tx.sout = 0 /\ Tx!LastEdge(clock.rising_edge)
      BY <1>5, <2>8 DEF Pending, TxInv, TxOK
    <3>4. PICK data : data = uart_regs.tdr
      OBVIOUS
    <3>5. Together(tx_data_valid, data)
      BY <1>3, <3>4
    <3>6. Carries(some)'
      BY <3>1, <3>2, <3>3, <3>5, CarriesOn
    <3> QED
      BY <2>6, <3>1, <3>6
  <2> QED
    BY <2>7, <2>8
<1> QED
  BY <1>2, <1>4, <1>5 DEF Sending

-----------------------------------------------------------------------------
(* The steps of the threads, as far as the line is concerned.              *)
Linked(stores) ==
    /\ LineInv' /\ LostInv'
    /\ Pending /\ (Beginning \/ stores) => Beginning'

(* Nothing is lost but by a collision.                                     *)
LEMMA LostNext ==
    ASSUME Line, NEW stores \in BOOLEAN, NEW byte, stores => byte \in Tx!Byte,
           LineStep(stores, byte), ~Collision
    PROVE  lost' = lost - FoundLost /\ lost' \in Nat /\ (lost = 0 => lost' = 0)
<1>1. lost' \in Nat
  BY CountedNext DEF Line, Counted
<1>2. FoundLost \in 0 .. 1 /\ lost \in Nat
  BY UnheardFacts DEF Line, Counted
<1>3. lost' = lost + One(Collision) - FoundLost
  BY DEF LineStep
<1>4. lost' = lost - FoundLost
  BY <1>2, <1>3 DEF One
<1> QED
  BY <1>1, <1>2, <1>4

(* No handler runs, and nothing is stored.                                 *)
LEMMA MainGoesOn ==
    ASSUME Line, NEW byte, LineStep(FALSE, byte), isr.pc = "off", isr' = isr,
           main.gap \in Nat,
           \/ main.pc # "poll"
           \/ main'.pc = "poll" /\ main.gap > 0 /\ main'.gap = main.gap - 1
           \/ /\ main.gap = 0
              /\ main'.pc = "poll" => main'.gap = Pace - 1
              /\ main'.pc # "poll" => ~uart_regs.txact
    PROVE  Linked(FALSE)
<1>1. Pace \in Nat /\ Pace >= 3
  BY ConsoleAssumption
<1>2. /\ Quiet => tx'.state = "IDLE"
      /\ ~tx_data_valid' /\ ~Collision' /\ (Quiet => Quiet')
      /\ ~uart_regs'.txact /\ tx'.state # "IDLE" =>
            tx_data_valid /\ tx.state = "IDLE"
  BY LineFacts DEF Line
<1>3. /\ main.pc # "poll" => Quiet
      /\ Fresh(main.gap) /\ ~Collision
  BY DEF Line, LineInv, QuietPlace, Beginning
<1>4. main.gap = 0 /\ ~uart_regs.txact => Quiet
  BY <1>1, <1>3 DEF Fresh, Quiet
<1>5. main'.pc # "poll" => Quiet'
  BY <1>2, <1>3, <1>4
<1>6. Fresh(main.gap)'
  <2>1. CASE main.pc # "poll" \/ main'.pc # "poll"
    BY <1>2, <1>3, <1>5, <2>1 DEF Fresh, Quiet
  <2>2. CASE main'.pc = "poll" /\ main.gap > 0 /\ main'.gap = main.gap - 1
    BY <1>1, <1>2, <1>3, <2>2 DEF Fresh
  <2>3. CASE main'.pc = "poll" /\ main'.gap = Pace - 1
    BY <1>1, <1>2, <2>3 DEF Fresh
  <2> QED
    BY <2>1, <2>2, <2>3
<1>7. lost = 0 /\ lost' = 0
  <2>1. lost = 0
    BY DEF Line, LostInv, Counted
  <2> QED
    BY <1>3, <2>1, LostNext
<1> QED
  BY <1>2, <1>5, <1>6, <1>7 DEF Linked, LineInv, LostInv, QuietPlace, Beginning

(* The interpreter stores a byte.                                          *)
LEMMA MainStores ==
    ASSUME Line, NEW byte \in Tx!Byte, LineStep(TRUE, byte),
           isr.pc = "off", isr' = isr,
           main.pc = "send", main'.pc = "poll", main'.gap = Pace - 1
    PROVE  Linked(TRUE)
<1>1. Pace \in Nat
  BY ConsoleAssumption
<1>2. Quiet /\ ~Collision
  BY DEF Line, LineInv, QuietPlace, Quiet, Collision
<1>3. ~Collision' /\ ~Pending
  BY <1>2, LineFacts DEF Line
<1>4. Fresh(main.gap)'
  BY <1>1 DEF Fresh
<1>5. lost = 0 /\ lost' = 0
  <2>1. lost = 0
    BY DEF Line, LostInv, Counted
  <2> QED
    BY <1>2, <2>1, LostNext
<1> QED
  BY <1>3, <1>4, <1>5 DEF Linked, LineInv, LostInv, QuietPlace

(* A handler is called, or none is there to be called.                     *)
LEMMA HandlerBegins ==
    ASSUME Line, NEW byte, LineStep(FALSE, byte), isr.pc \in {"off", "stray"},
           \/ isr'.pc = "send" /\ isr'.i = 0
           \/ isr'.pc = "stray"
    PROVE  Linked(FALSE)
<1>1. ~tx_data_valid' /\ ~Collision'
  BY LineFacts DEF Line
<1>2. ~Collision /\ ~Beginning
  BY DEF Line, LineInv, Beginning
<1>3. lost = 0 /\ lost' = 0
  <2>1. lost = 0
    BY DEF Line, LostInv, Counted
  <2> QED
    BY <1>2, <2>1, LostNext
<1> QED
  BY <1>1, <1>2, <1>3 DEF Linked, LineInv, LostInv, QuietPlace

(* The handler when it has printed.                                        *)
LEMMA HandlerEnds ==
    ASSUME Line, NEW byte, LineStep(FALSE, byte),
           isr.pc \in {"read_sr", "write_sr", "leave"},
           isr'.pc \in {"read_sr", "write_sr", "leave", "off"}
    PROVE  Linked(FALSE)
<1>1. Quiet /\ ~Collision /\ ~Beginning
  BY DEF Line, LineInv, QuietPlace, Quiet, Collision, Beginning
<1>2. ~tx_data_valid' /\ ~Collision' /\ Quiet' /\ ~Pending
  BY <1>1, LineFacts DEF Line
<1>3. lost = 0 /\ lost' = 0
  <2>1. lost = 0
    BY DEF Line, LostInv, Counted
  <2> QED
    BY <1>1, <2>1, LostNext
<1> QED
  BY <1>1, <1>2, <1>3 DEF Linked, LineInv, LostInv, Quiet, Fresh

(* The handler waits or reads the status.  A byte that was run into and    *)
(* lost is passed over when the handler's second byte is heard.            *)
LEMMA LostInHandler ==
    ASSUME Line, NEW byte, LineStep(FALSE, byte), isr.i \in Nat,
           isr.pc \in {"send", "poll"}, isr'.i = isr.i,
           \/ isr'.pc = isr.pc
           \/ /\ isr.pc = "poll" /\ Quiet
              /\ isr'.pc = IF isr.i < Len(Text.beat) THEN "send" ELSE "read_sr"
    PROVE  LostInv'
<1>1. Len(Text.beat) > 1 /\ Text.beat[1] # Text.beat[2]
  BY ConsoleAssumption
<1>2. /\ Ear!Hears => Pending
      /\ Pending' <=> (Pending /\ ~Ear!Hears) \/ (tx_data_valid /\ tx.state = "IDLE")
      /\ Quiet => ~Pending
      /\ ~tx_data_valid'
  BY LineFacts DEF Line
<1>3. /\ uart_regs'.tdr = uart_regs.tdr /\ owed' = Unheard
      /\ lost' = lost + One(Collision) - FoundLost
  BY DEF LineStep
<1>4. /\ FoundLost \in 0 .. 1 /\ lost \in Nat /\ lost <= 1
      /\ ~Ear!Hears => Unheard = owed
      /\ Ear!Hears /\ owed[1] # Ear!Heard => FoundLost = 1
  BY UnheardFacts DEF Line, Counted, LostInv
<1>5. isr'.pc \in {"send", "poll"} /\ isr'.i > 0 => uart_regs'.tdr = Text.beat[isr'.i]
  BY <1>3 DEF Line, LostInv
<1>6. CASE Collision
  <2>1. isr.pc = "poll" /\ isr.i = 1 /\ tx_data_valid /\ ~Quiet
    BY <1>6 DEF Line, LineInv, Beginning, Collision, Quiet
  <2>2. lost = 0
    BY <1>4, <2>1 DEF Line, LostInv
  <2>3. lost' = 1 - FoundLost
    BY <1>3, <1>4, <1>6, <2>2 DEF One
  <2> QED
    BY <1>2, <1>4, <1>5, <2>1, <2>3 DEF LostInv
<1>7. CASE ~Collision
  <2>1. lost' = lost - FoundLost /\ lost' \in Nat
    BY <1>7, LostNext
  <2>2. CASE lost' = 0
    BY <1>5, <2>2 DEF LostInv
  <2>3. CASE lost' # 0
    <3>1. lost = 1 /\ lost' = 1 /\ FoundLost = 0
      BY <1>4, <2>1, <2>3
    <3>2. CASE isr.i = 1
      BY <1>1, <1>2, <1>5, <3>1, <3>2 DEF LostInv
    <3>3. CASE isr.i = 2
      <4>1. /\ isr.pc = "poll" /\ (tx_data_valid \/ Pending)
            /\ owed[1] = Text.beat[1] /\ uart_regs.tdr = Text.beat[2]
        BY <3>1, <3>3 DEF Line, LostInv
      <4>2. isr'.pc = "poll"
        BY <1>2, <4>1 DEF Quiet
      <4>3. ~Ear!Hears
        <5> SUFFICES ASSUME Ear!Hears PROVE FALSE
          OBVIOUS
        <5>1. ~Beginning
          BY <3>3 DEF Beginning
        <5>2. Ear!Heard = uart_regs.tdr
          BY <5>1, HearsOwed DEF Line
        <5> QED
          BY <1>1, <1>4, <3>1, <4>1, <5>2
      <4>4. Pending'
        BY <1>2, <1>7, <4>1, <4>3 DEF Collision, Tx!busy
      <4> QED
        BY <1>2, <1>3, <1>4, <1>5, <3>1, <3>3, <4>1, <4>2, <4>3, <4>4 DEF LostInv
    <3> QED
      BY <3>1, <3>2, <3>3 DEF Line, LostInv
  <2> QED
    BY <2>2, <2>3
<1> QED
  BY <1>6, <1>7

(* The handler waits between two accesses.                                 *)
LEMMA HandlerWaits ==
    ASSUME Line, IsrOK, NEW byte, LineStep(FALSE, byte),
           isr.gap > 0, isr' = [isr EXCEPT !.gap = @ - 1]
    PROVE  Linked(FALSE)
<1>1. Pace \in Nat /\ Pace >= 3
  BY ConsoleAssumption
<1>2. /\ isr'.pc = isr.pc /\ isr'.i = isr.i /\ isr'.gap = isr.gap - 1
      /\ isr.i \in Nat /\ isr.gap \in Nat /\ isr.pc \notin {"off", "stray"}
      /\ isr.pc \in IsrPlaces
  BY DEF IsrOK
<1>3. CASE isr.pc \in {"read_sr", "write_sr", "leave"}
  BY <1>2, <1>3, HandlerEnds
<1>4. CASE isr.pc \in {"send", "poll"}
  <2>1. LostInv'
    BY <1>2, <1>4, LostInHandler
  <2>2. /\ ~tx_data_valid' /\ ~Collision' /\ (Quiet => Quiet')
        /\ ~uart_regs'.txact /\ tx'.state # "IDLE" => tx_data_valid
    BY LineFacts DEF Line
  <2>3. /\ isr.pc = "poll" => Fresh(isr.gap)
        /\ QuietPlace => Quiet
    BY DEF Line, LineInv
  <2>4. isr'.pc = "poll" => Fresh(isr.gap)'
    BY <1>1, <1>2, <2>2, <2>3 DEF Fresh
  <2>5. QuietPlace' => Quiet'
    BY <1>2, <1>4, <2>2, <2>3 DEF QuietPlace
  <2>6. Beginning => Beginning'
    BY <1>2 DEF Beginning
  <2> QED
    BY <1>2, <1>4, <2>1, <2>2, <2>4, <2>5, <2>6 DEF Linked, LineInv
<1> QED
  BY <1>2, <1>3, <1>4 DEF IsrPlaces

(* The handler polls txact after a byte.                                   *)
LEMMA HandlerPolls ==
    ASSUME Line, IsrOK, NEW byte, LineStep(FALSE, byte),
           isr.pc = "poll", isr.gap = 0, isr'.i = isr.i, isr'.gap = Pace - 1,
           isr'.pc = IF uart_regs.txact THEN "poll"
                     ELSE IF isr.i < Len(Text.beat) THEN "send" ELSE "read_sr"
    PROVE  Linked(FALSE)
<1>1. Pace \in Nat /\ Pace >= 3
  BY ConsoleAssumption
<1>2. ~uart_regs.txact => Quiet
  BY <1>1 DEF Line, LineInv, Fresh, Quiet
<1>3. isr.i \in Nat
  BY DEF IsrOK
<1>4. LostInv'
  BY <1>2, <1>3, LostInHandler
<1>5. /\ ~tx_data_valid' /\ ~Collision' /\ (Quiet => Quiet') /\ (Quiet => ~Pending)
      /\ ~uart_regs'.txact /\ tx'.state # "IDLE" => tx_data_valid
  BY LineFacts DEF Line
<1>6. ~tx_data_valid
  BY <1>1 DEF Line, LineInv, Fresh
<1>7. isr'.pc = "poll" => Fresh(isr.gap)'
  BY <1>5, <1>6 DEF Fresh
<1>8. QuietPlace' => Quiet'
  BY <1>2, <1>5 DEF QuietPlace
<1>9. Pending /\ Beginning => Beginning'
  BY <1>2, <1>5 DEF Beginning
<1> QED
  BY <1>4, <1>5, <1>7, <1>8, <1>9 DEF Linked, LineInv

(* The handler stores the next byte of its text in tdr.                    *)
LEMMA HandlerStores ==
    ASSUME Line, IsrOK, NEW byte \in Tx!Byte, LineStep(TRUE, byte),
           isr.pc = "send", byte = Text.beat[isr.i + 1],
           isr'.pc = "poll", isr'.i = isr.i + 1, isr'.gap = Pace - 1
    PROVE  Linked(TRUE)
<1>1. Pace \in Nat
  BY ConsoleAssumption
<1>2. isr.i \in Nat
  BY DEF IsrOK
<1>3. ~Collision /\ uart_regs'.tdr = Text.beat[isr'.i]
  BY DEF Line, LineInv, Beginning, LineStep
<1>4. Fresh(isr.gap)'
  BY <1>1 DEF Fresh
<1>5. CASE isr.i = 0
  <2>1. lost = 0 /\ lost' = 0
    <3>1. lost = 0
      BY <1>5 DEF Line, LostInv, Counted
    <3> QED
      BY <1>3, <3>1, LostNext
  <2>2. Beginning'
    BY <1>5 DEF Beginning
  <2> QED
    BY <1>3, <1>4, <1>5, <2>1, <2>2 DEF Linked, LineInv, LostInv, QuietPlace
<1>6. CASE isr.i > 0
  <2>1. Quiet
    BY <1>6 DEF Line, LineInv, QuietPlace
  <2>2. ~Collision' /\ ~Pending /\ ~Ear!Hears
    BY <2>1, LineFacts DEF Line
  <2>3. lost' = lost - FoundLost /\ FoundLost = 0 /\ lost \in Nat
    BY <1>3, <2>2, LostNext DEF FoundLost, Line, Counted
  <2>4. lost = 1 => isr.i = 1 /\ owed'[1] = Text.beat[1] /\ tx_data_valid'
    <3> SUFFICES ASSUME lost = 1
                 PROVE  isr.i = 1 /\ owed'[1] = Text.beat[1] /\ tx_data_valid'
      OBVIOUS
    <3>1. isr.i = 1 /\ uart_regs.tdr = Text.beat[1]
      BY <1>6 DEF Line, LostInv
    <3>2. Len(owed) = 1 /\ owed \in Seq(Tx!Byte)
      BY <2>1, <2>2 DEF Line, Counted, One, Quiet
    <3>3. owed[1] = uart_regs.tdr
      <4>1. Len(owed) # 0
        BY <3>2
      <4>2. owed # <<>>
        BY <4>1
      <4> QED
        BY <3>2, <4>2 DEF Line, Sending
    <3>4. owed' = Append(owed, byte)
      BY <2>2 DEF LineStep, Unheard
    <3>5. tx_data_valid'
      BY DEF LineStep
    <3> QED
      BY <3>1, <3>2, <3>3, <3>4, <3>5
  <2>5. LostInv'
    BY <1>2, <1>3, <2>3, <2>4 DEF LostInv, Line
  <2> QED
    BY <1>4, <2>2, <2>5 DEF Linked, LineInv, QuietPlace
<1>7. isr.i = 0 \/ isr.i > 0
  BY <1>2
<1> QED
  BY <1>5, <1>6, <1>7, Zenon

(* The line between the threads is kept.                                   *)
LEMMA LineNext ==
    ASSUME Line, NEW stores \in BOOLEAN, NEW byte, stores => byte \in Tx!Byte,
           LineStep(stores, byte), Linked(stores)
    PROVE  Line'
<1>1. TxInv' /\ LineInv' /\ LostInv'
  BY DEF LineStep, Linked
<1>2. Counted'
  BY CountedNext DEF Line
<1>3. Sending'
  BY SendingNext DEF Line, Linked
<1> QED
  BY <1>1, <1>2, <1>3 DEF Line

-----------------------------------------------------------------------------
(* The timer keeps its types under what the software writes.               *)
GoodTimerAccess(access) ==
    \/ access = None
    \/ \E reg \in {"sr", "cr"} : access = ReadReg(reg)
    \/ access = WriteReg("sr", [mtch |-> FALSE])
    \/ \E value \in Value : access = WriteReg("cmpr", [cmpr |-> value])
    \/ \E control \in Controls : access = WriteReg("cr", control)

(* A cycle of the timer keeps the types of its registers.                  *)
LEMMA TimerKeepsTypes ==
    ASSUME TimerTypeOK, NEW access, GoodTimerAccess(access), TimerCycle(access)
    PROVE  TimerTypeOK'
<1>1. CounterSize \in Nat \ {0} /\ 0 \in Value
  BY TimerAssumption DEF Value
<1>2. timer_regs \in [trg : BOOLEAN, hlt : BOOLEAN, sngl : BOOLEAN,
                      act : BOOLEAN, mtch : BOOLEAN,
                      cntr : Value, cmpr : Value]
      /\ timer_core \in [state : {"IDLE", "COUNT"},
                         run_mode : {"SINGLE_SHOT", "CONTINUOUS"},
                         counter : Value]
  BY DEF TimerTypeOK
<1>3. /\ TimerWritten(access, "cr", "trg") \in BOOLEAN
      /\ TimerWritten(access, "cr", "hlt") \in BOOLEAN
      /\ TimerWritten(access, "cr", "sngl") \in BOOLEAN
      /\ TimerWritten(access, "sr", "mtch") \in BOOLEAN
      /\ TimerWritten(access, "cntr", "cntr") \in Value
      /\ TimerWritten(access, "cmpr", "cmpr") \in Value
  <2>1. CASE ~access.we
    BY <1>2, <2>1 DEF TimerWritten
  <2>2. CASE access = WriteReg("sr", [mtch |-> FALSE])
    BY <1>2, <2>2 DEF TimerWritten, WriteReg
  <2>3. ASSUME NEW value \in Value, access = WriteReg("cmpr", [cmpr |-> value])
        PROVE  <1>3!:
    BY <1>2, <2>3 DEF TimerWritten, WriteReg
  <2>4. ASSUME NEW control \in Controls, access = WriteReg("cr", control)
        PROVE  <1>3!:
    <3>1. access.we /\ access.reg = "cr" /\ access.fields = control
      BY <2>4 DEF WriteReg
    <3>2. /\ control["trg"] \in BOOLEAN /\ control["hlt"] \in BOOLEAN
          /\ control["sngl"] \in BOOLEAN
      BY DEF Controls
    <3> QED
      BY <1>2, <3>1, <3>2 DEF TimerWritten
  <2>5. access = None \/ (\E reg \in {"sr", "cr"} : access = ReadReg(reg))
            => ~access.we
    BY DEF None, ReadReg
  <2> HIDE DEF TimerWritten
  <2> QED
    BY <2>1, <2>2, <2>3, <2>4, <2>5, Zenon DEF GoodTimerAccess
<1>4. active \in BOOLEAN /\ match_occurred \in BOOLEAN
  BY DEF active, match_occurred
<1>5. timer_regs' \in [trg : BOOLEAN, hlt : BOOLEAN, sngl : BOOLEAN,
                       act : BOOLEAN, mtch : BOOLEAN,
                       cntr : Value, cmpr : Value]
  BY <1>2, <1>3, <1>4 DEF TimerCycle, TimerRegsAfter
<1>6. (timer_core.counter + 1) % CounterSize \in Value
  BY <1>1, <1>2 DEF Value
<1>7. timer_core' \in [state : {"IDLE", "COUNT"},
                       run_mode : {"SINGLE_SHOT", "CONTINUOUS"},
                       counter : Value]
  <2>1. timer_core' = TimerCoreAfter
    BY DEF TimerCycle
  <2> DEFINE count == (timer_core.counter + 1) % CounterSize
  <2> HIDE DEF count
  <2>2. count \in Value
    BY <1>6 DEF count
  <2>3. [timer_core EXCEPT !.counter = count]
            \in [state : {"IDLE", "COUNT"},
                 run_mode : {"SINGLE_SHOT", "CONTINUOUS"}, counter : Value]
    BY <1>2, <2>2
  <2>4. CASE ~active /\ ~timer_regs.trg
    <3>1. timer_core' = timer_core
      BY <1>2, <2>1, <2>4 DEF TimerCoreAfter, match_occurred
    <3> QED
      BY <1>2, <3>1
  <2>5. CASE ~active /\ timer_regs.trg
    <3>1. timer_core' = [timer_core EXCEPT
                !.state = "COUNT",
                !.run_mode = IF timer_regs.sngl THEN "SINGLE_SHOT" ELSE "CONTINUOUS"]
      BY <1>2, <2>1, <2>5 DEF TimerCoreAfter, match_occurred
    <3> QED
      BY <1>2, <3>1
  <2>6. CASE active /\ timer_regs.hlt
    <3>1. timer_core' = [timer_core EXCEPT !.state = "IDLE", !.counter = 0]
      BY <1>2, <2>1, <2>6 DEF TimerCoreAfter
    <3> QED
      BY <1>1, <1>2, <3>1
  <2>7. CASE match_occurred /\ ~timer_regs.hlt
    <3>1. timer_core' = [timer_core EXCEPT
                !.state = IF timer_core.run_mode = "SINGLE_SHOT" THEN "IDLE" ELSE "COUNT",
                !.counter = 0]
      BY <1>2, <2>1, <2>7 DEF TimerCoreAfter, match_occurred
    <3> QED
      BY <1>1, <1>2, <3>1
  <2>8. CASE active /\ ~timer_regs.hlt /\ ~match_occurred
    BY <2>1, <2>3, <2>8 DEF TimerCoreAfter, count
  <2> QED
    BY <2>4, <2>5, <2>6, <2>7, <2>8
<1> QED
  BY <1>5, <1>7 DEF TimerTypeOK

-----------------------------------------------------------------------------
(* What is known of the texts and of the pace.                             *)
LEMMA Texts ==
    /\ Pace - 1 \in Nat /\ Entry \in Nat
    /\ \A text \in {"prompt", "ping"} :
          Len(Text[text]) \in Nat /\ Len(Text[text]) > 0
    /\ \A text \in {"prompt", "ping"} : \A i \in Nat :
          i < Len(Text[text]) => Text[text][i + 1] \in Tx!Byte
    /\ Len(Text.beat) \in Nat /\ Len(Text.beat) > 0
    /\ \A i \in Nat : i < Len(Text.beat) => Text.beat[i + 1] \in Tx!Byte
<1>1. \A text \in {"prompt", "ping", "beat"} :
          Text[text] \in Seq(Tx!Byte) /\ Text[text] # <<>>
  BY ConsoleAssumption DEF Tx!Byte
<1>2. \A text \in {"prompt", "ping", "beat"} :
          /\ Len(Text[text]) \in Nat /\ Len(Text[text]) > 0
          /\ \A i \in Nat : i < Len(Text[text]) => Text[text][i + 1] \in Tx!Byte
  <2> TAKE text \in {"prompt", "ping", "beat"}
  <2> DEFINE bytes == Text[text]
  <2>1. bytes \in Seq(Tx!Byte) /\ bytes # <<>>
    BY <1>1
  <2> HIDE DEF bytes
  <2>2. Len(bytes) \in Nat /\ Len(bytes) # 0
    BY <2>1, EmptySeq
  <2>3. \A i \in Nat : i < Len(bytes) => bytes[i + 1] \in Tx!Byte
    BY <2>1
  <2> QED
    BY <2>2, <2>3 DEF bytes
<1>3. Pace - 1 \in Nat /\ Entry \in Nat
  BY ConsoleAssumption
<1> QED
  BY <1>2, <1>3, Zenon

(* The cycles of the two threads: those without a store ...                *)
LEMMA QuietCycle ==
    ASSUME Line, TimerTypeOK, NEW access \in {None, ReadReg("sr")},
           NEW timer_access, GoodTimerAccess(timer_access),
           Cycle(access, timer_access)
    PROVE  LineStep(FALSE, Zeros) /\ TimerTypeOK'
<1>1. Stores(access, FALSE, Zeros)
  BY DEF Stores
<1>2. LineStep(FALSE, Zeros)
  BY <1>1, CycleSteps DEF Line
<1> QED
  BY <1>2, TimerKeepsTypes DEF Cycle

(* ... and those with one.                                                 *)
LEMMA StoreCycle ==
    ASSUME Line, TimerTypeOK, NEW byte \in Tx!Byte,
           Cycle(WriteReg("tdr", [tdr |-> byte]), None)
    PROVE  LineStep(TRUE, byte) /\ TimerTypeOK'
<1>1. PICK access : access = WriteReg("tdr", [tdr |-> byte])
  OBVIOUS
<1>2. Stores(access, TRUE, byte) /\ Cycle(access, None)
  BY <1>1 DEF Stores
<1>3. LineStep(TRUE, byte)
  BY <1>2, CycleSteps DEF Line
<1>4. GoodTimerAccess(None) /\ TimerCycle(None)
  BY DEF GoodTimerAccess, Cycle
<1>5. TimerTypeOK'
  BY <1>4, TimerKeepsTypes
<1> QED
  BY <1>3, <1>5

(* A thread that stands still keeps what is known of it.                   *)
LEMMA ThreadsStand ==
    ASSUME Threads, UNCHANGED <<main, isr, core>>
    PROVE  Threads'
BY DEF Threads, IsrOK, MainOK, HandlerInv

(* The interpreter's statements, but for those that print.                 *)
MainControls ==
    \/ Idle \/ Ping \/ \E period \in Periods : SetHandler(period)
    \/ Unmask \/ SetCmpr \/ ReadControl \/ Enable \/ EnableInterrupts
    \/ TurnOff \/ Disable \/ ClearHandler \/ Mask

(* The accesses with which the command starts and stops the timer and its  *)
(* interrupt keep the place of the software.                               *)
LEMMA ControlsKeep ==
    ASSUME Threads, TimerTypeOK, MainControls
    PROVE  /\ isr.pc = "off" /\ isr' = isr /\ main.pc # "poll" /\ main.gap \in Nat
           /\ \E access : GoodTimerAccess(access) /\ Cycle(None, access)
           /\ Threads'
<1>1. /\ main \in [pc : MainPlaces, gap : Nat, text : {"prompt", "ping"}, i : Nat,
                   period : 1 .. CounterSize, cr : Controls]
      /\ main.pc = "send" => main.i < Len(Text[main.text])
  BY DEF Threads, MainOK
<1>2. /\ core \in [mie : BOOLEAN, tmr : BOOLEAN, handler : {"null", "beat"}]
      /\ main.pc = "unmask" => core.handler = "beat"
      /\ core.tmr /\ core.handler = "null" => main.pc = "mask"
  BY DEF Threads, HandlerInv
<1>3. IsrOK
  BY DEF Threads
<1>4. Pace - 1 \in Nat /\ 0 < Len(Text.prompt) /\ 0 < Len(Text.ping)
  BY Texts
<1> DEFINE Still(pc) == /\ isr.pc = "off" /\ isr' = isr
                        /\ main.gap \in Nat /\ main.pc = pc
<1>5. ASSUME NEW pc, InMain(pc), isr' = isr
      PROVE  Still(pc)
  BY <1>1, <1>5 DEF InMain
<1>6. ASSUME NEW pc, pc # "poll", Still(pc), MainOK', HandlerInv',
             NEW access, GoodTimerAccess(access), Cycle(None, access)
      PROVE  /\ isr.pc = "off" /\ isr' = isr /\ main.pc # "poll"
             /\ main.gap \in Nat
             /\ \E some : GoodTimerAccess(some) /\ Cycle(None, some)
             /\ Threads'
  BY <1>3, <1>6 DEF Threads, IsrOK
<1>7. GoodTimerAccess(None) /\ GoodTimerAccess(ReadReg("cr"))
  BY DEF GoodTimerAccess
<1> HIDE DEF Still
<1>8. CASE Idle
  <2>1. Still("idle") /\ Cycle(None, None)
    BY <1>5, <1>8 DEF Idle
  <2>2. main.pc = "idle" /\ isr.pc = "off" /\ isr' = isr
    BY <2>1 DEF Still
  <2>3. MainOK'
    BY <1>1, <1>4, <2>2, <1>8 DEF MainOK, MainPlaces, Idle
  <2>4. HandlerInv'
    BY <1>1, <1>2, <2>2, <1>8 DEF HandlerInv, Idle
  <2> QED
    BY <1>6, <1>7, <2>1, <2>3, <2>4
<1>9. CASE Ping
  <2>1. Still("idle") /\ Cycle(None, None)
    BY <1>5, <1>9 DEF Ping
  <2>2. main.pc = "idle" /\ isr.pc = "off" /\ isr' = isr
    BY <2>1 DEF Still
  <2>3. MainOK'
    BY <1>1, <1>4, <2>2, <1>9 DEF MainOK, MainPlaces, Ping, Says, Go
  <2>4. HandlerInv'
    BY <1>1, <1>2, <2>2, <1>9 DEF HandlerInv, Ping, Says, Go
  <2> QED
    BY <1>6, <1>7, <2>1, <2>3, <2>4
<1>10. ASSUME NEW period \in Periods, SetHandler(period)
       PROVE  /\ isr.pc = "off" /\ isr' = isr /\ main.pc # "poll"
              /\ main.gap \in Nat
              /\ \E some : GoodTimerAccess(some) /\ Cycle(None, some)
              /\ Threads'
  <2>0. period \in 1 .. CounterSize
    BY ConsoleAssumption
  <2>1. Still("idle") /\ Cycle(None, None)
    BY <1>5, <1>10 DEF SetHandler
  <2>2. main.pc = "idle" /\ isr.pc = "off" /\ isr' = isr
    BY <2>1 DEF Still
  <2>3. MainOK'
    BY <1>1, <1>4, <2>0, <2>2, <1>10 DEF MainOK, MainPlaces, SetHandler, Go
  <2>4. HandlerInv'
    BY <1>1, <1>2, <2>2, <1>10 DEF HandlerInv, SetHandler, Go
  <2> QED
    BY <1>6, <1>7, <2>1, <2>3, <2>4
<1>11. CASE Unmask
  <2>1. Still("unmask") /\ Cycle(None, None)
    BY <1>5, <1>11 DEF Unmask
  <2>2. main.pc = "unmask" /\ isr.pc = "off" /\ isr' = isr
    BY <2>1 DEF Still
  <2>3. MainOK'
    BY <1>1, <1>4, <2>2, <1>11 DEF MainOK, MainPlaces, Unmask, Go
  <2>4. HandlerInv'
    BY <1>1, <1>2, <2>2, <1>11 DEF HandlerInv, Unmask, Go
  <2> QED
    BY <1>6, <1>7, <2>1, <2>3, <2>4
<1>12. CASE SetCmpr
  <2>1. Still("set_cmpr") /\ Cycle(None, WriteReg("cmpr", [cmpr |-> main.period - 1]))
    BY <1>5, <1>12 DEF SetCmpr
  <2>2. main.pc = "set_cmpr" /\ isr.pc = "off" /\ isr' = isr
    BY <2>1 DEF Still
  <2>3. MainOK'
    BY <1>1, <1>4, <2>2, <1>12 DEF MainOK, MainPlaces, SetCmpr, Go
  <2>4. HandlerInv'
    BY <1>1, <1>2, <2>2, <1>12 DEF HandlerInv, SetCmpr, Go
  <2>5. main.period - 1 \in Value
    BY <1>1, TimerAssumption DEF Value
  <2>6. GoodTimerAccess(WriteReg("cmpr", [cmpr |-> main.period - 1]))
    BY <2>5 DEF GoodTimerAccess
  <2> QED
    BY <1>6, <2>1, <2>3, <2>4, <2>6
<1>13. CASE ReadControl
  <2>1. PICK pc \in {"read_cr", "read_cr_off"} : InMain(pc)
    BY <1>13 DEF ReadControl
  <2>2. Still(pc) /\ Cycle(None, ReadReg("cr"))
    BY <1>5, <2>1, <1>13 DEF ReadControl
  <2>3. main.pc = pc /\ isr.pc = "off" /\ isr' = isr
    BY <2>2 DEF Still
  <2> DEFINE control == [hlt |-> timer_regs.hlt, sngl |-> timer_regs.sngl,
                         trg |-> main.pc = "read_cr"]
             next == IF main.pc = "read_cr" THEN "enable" ELSE "disable"
  <2>4. control \in Controls /\ next \in {"enable", "disable"}
    BY DEF Controls, TimerTypeOK
  <2>5. main' = [main EXCEPT !.pc = next, !.gap = Pace - 1, !.cr = control]
    BY <1>1, <1>13 DEF ReadControl, Go
  <2> HIDE DEF control, next
  <2>6. MainOK'
    BY <1>1, <1>4, <2>4, <2>5 DEF MainOK, MainPlaces
  <2>7. HandlerInv'
    BY <1>1, <1>2, <2>3, <2>4, <2>5, <1>13 DEF HandlerInv, ReadControl
  <2> QED
    BY <1>6, <1>7, <2>1, <2>2, <2>6, <2>7
<1>14. CASE Enable
  <2>1. Still("enable") /\ Cycle(None, WriteReg("cr", main.cr))
    BY <1>5, <1>14 DEF Enable
  <2>2. main.pc = "enable" /\ isr.pc = "off" /\ isr' = isr
    BY <2>1 DEF Still
  <2>3. MainOK'
    BY <1>1, <1>4, <2>2, <1>14 DEF MainOK, MainPlaces, Enable, Go
  <2>4. HandlerInv'
    BY <1>1, <1>2, <2>2, <1>14 DEF HandlerInv, Enable, Go
  <2>5. GoodTimerAccess(WriteReg("cr", main.cr))
    BY <1>1 DEF GoodTimerAccess
  <2> QED
    BY <1>6, <2>1, <2>3, <2>4, <2>5
<1>15. CASE EnableInterrupts
  <2>1. Still("enable_interrupts") /\ Cycle(None, None)
    BY <1>5, <1>15 DEF EnableInterrupts
  <2>2. main.pc = "enable_interrupts" /\ isr.pc = "off" /\ isr' = isr
    BY <2>1 DEF Still
  <2>3. MainOK'
    BY <1>1, <1>4, <2>2, <1>15 DEF MainOK, MainPlaces, EnableInterrupts, Says, Go
  <2>4. HandlerInv'
    BY <1>1, <1>2, <2>2, <1>15 DEF HandlerInv, EnableInterrupts, Says, Go
  <2> QED
    BY <1>6, <1>7, <2>1, <2>3, <2>4
<1>16. CASE TurnOff
  <2>1. Still("idle") /\ Cycle(None, None)
    BY <1>5, <1>16 DEF TurnOff
  <2>2. main.pc = "idle" /\ isr.pc = "off" /\ isr' = isr
    BY <2>1 DEF Still
  <2>3. MainOK'
    BY <1>1, <1>4, <2>2, <1>16 DEF MainOK, MainPlaces, TurnOff, Go
  <2>4. HandlerInv'
    BY <1>1, <1>2, <2>2, <1>16 DEF HandlerInv, TurnOff, Go
  <2> QED
    BY <1>6, <1>7, <2>1, <2>3, <2>4
<1>17. CASE Disable
  <2>1. Still("disable") /\ Cycle(None, WriteReg("cr", main.cr))
    BY <1>5, <1>17 DEF Disable
  <2>2. main.pc = "disable" /\ isr.pc = "off" /\ isr' = isr
    BY <2>1 DEF Still
  <2>3. MainOK'
    BY <1>1, <1>4, <2>2, <1>17 DEF MainOK, MainPlaces, Disable, Go
  <2>4. HandlerInv'
    BY <1>1, <1>2, <2>2, <1>17 DEF HandlerInv, Disable, Go
  <2>5. GoodTimerAccess(WriteReg("cr", main.cr))
    BY <1>1 DEF GoodTimerAccess
  <2> QED
    BY <1>6, <2>1, <2>3, <2>4, <2>5
<1>18. CASE ClearHandler
  <2>1. Still("clear_handler") /\ Cycle(None, None)
    BY <1>5, <1>18 DEF ClearHandler
  <2>2. main.pc = "clear_handler" /\ isr.pc = "off" /\ isr' = isr
    BY <2>1 DEF Still
  <2>3. MainOK'
    BY <1>1, <1>4, <2>2, <1>18 DEF MainOK, MainPlaces, ClearHandler, Go
  <2>4. HandlerInv'
    BY <1>1, <1>2, <2>2, <1>18 DEF HandlerInv, ClearHandler, Go
  <2> QED
    BY <1>6, <1>7, <2>1, <2>3, <2>4
<1>19. CASE Mask
  <2>1. Still("mask") /\ Cycle(None, None)
    BY <1>5, <1>19 DEF Mask
  <2>2. main.pc = "mask" /\ isr.pc = "off" /\ isr' = isr
    BY <2>1 DEF Still
  <2>3. MainOK'
    BY <1>1, <1>4, <2>2, <1>19 DEF MainOK, MainPlaces, Mask, Says, Go
  <2>4. HandlerInv'
    BY <1>1, <1>2, <2>2, <1>19 DEF HandlerInv, Mask, Says, Go
  <2> QED
    BY <1>6, <1>7, <2>1, <2>3, <2>4
<1> QED
  BY <1>8, <1>9, <1>10, <1>11, <1>12, <1>13, <1>14, <1>15, <1>16, <1>17, <1>18, <1>19 DEF MainControls

(* The statements that print or wait, and the handler's.                   *)
LEMMA MainPrintsKeep ==
    ASSUME Threads, MainWaits \/ MainSends \/ MainPolls
    PROVE  Threads' /\ isr.pc = "off" /\ isr' = isr /\ main.gap \in Nat
<1>1. /\ main \in [pc : MainPlaces, gap : Nat, text : {"prompt", "ping"}, i : Nat,
                   period : 1 .. CounterSize, cr : Controls]
      /\ main.pc = "send" => main.i < Len(Text[main.text])
  BY DEF Threads, MainOK
<1>2. /\ Pace - 1 \in Nat /\ 0 < Len(Text.prompt) /\ 0 < Len(Text.ping)
  BY Texts
<1>3. IsrOK /\ HandlerInv
  BY DEF Threads
<1>4. CASE MainWaits
  <2>1. /\ main' = [main EXCEPT !.gap = @ - 1] /\ main.gap > 0
        /\ isr.pc = "off" /\ isr' = isr /\ core' = core
    BY <1>4 DEF MainWaits
  <2>2. MainOK' /\ main'.pc = main.pc
    BY <1>1, <2>1 DEF MainOK
  <2> QED
    BY <1>1, <1>3, <2>1, <2>2 DEF Threads, HandlerInv, IsrOK
<1>5. CASE MainSends
  <2>1. /\ main' = [Go(main, "poll") EXCEPT !.i = @ + 1]
        /\ isr.pc = "off" /\ isr' = isr /\ core' = core /\ main.pc = "send"
    BY <1>5 DEF MainSends, InMain
  <2> DEFINE polls == Go(main, "poll")
  <2>2. /\ polls \in [pc : MainPlaces, gap : Nat, text : {"prompt", "ping"}, i : Nat,
                      period : 1 .. CounterSize, cr : Controls]
        /\ polls.pc = "poll"
    BY <1>1, <1>2 DEF MainPlaces, Go
  <2> HIDE DEF polls
  <2>3. MainOK' /\ main'.pc = "poll"
    BY <2>1, <2>2 DEF MainOK, polls
  <2> QED
    BY <1>1, <1>3, <2>1, <2>3 DEF Threads, HandlerInv, IsrOK
<1>6. CASE MainPolls
  <2>1. /\ main' = IF uart_regs.txact THEN Go(main, "poll") ELSE Printed
        /\ isr.pc = "off" /\ isr' = isr /\ core' = core /\ main.pc = "poll"
    BY <1>6 DEF MainPolls, InMain
  <2>2. MainOK' /\ main'.pc \in {"poll", "send", "idle"}
    <3>1. CASE main' = Go(main, "poll")
      BY <1>1, <1>2, <3>1 DEF MainOK, MainPlaces, Go
    <3>2. CASE main' = Go(main, "send") /\ main.i < Len(Text[main.text])
      BY <1>1, <1>2, <3>2 DEF MainOK, MainPlaces, Go
    <3>3. CASE main' = Says("prompt")
      BY <1>1, <1>2, <3>3 DEF MainOK, MainPlaces, Go, Says
    <3>4. CASE main' = [Go(main, "idle") EXCEPT !.gap = 0]
      BY <1>1, <1>2, <3>4 DEF MainOK, MainPlaces, Go
    <3> QED
      BY <2>1, <3>1, <3>2, <3>3, <3>4, Zenon DEF Printed
  <2> QED
    BY <1>1, <1>3, <2>1, <2>2 DEF Threads, HandlerInv, IsrOK
<1> QED
  BY <1>4, <1>5, <1>6

(* So do the steps of the handler, and its beginning.                      *)
LEMMA HandlerKeeps ==
    ASSUME Threads,
           \/ IsrWaits \/ Interrupt \/ Strays
           \/ IsrSends \/ IsrPolls \/ IsrReadsStatus \/ IsrClearsMatched \/ IsrReturns
    PROVE  Threads'
<1>1. /\ isr \in [pc : IsrPlaces, gap : Nat, i : Nat]
      /\ isr.pc \in {"off", "stray"} => isr.gap = 0
      /\ isr.pc = "send" => isr.i < Len(Text.beat)
      /\ isr.pc = "poll" => isr.i \in 1 .. Len(Text.beat)
  BY DEF Threads, IsrOK
<1>2. /\ core \in [mie : BOOLEAN, tmr : BOOLEAN, handler : {"null", "beat"}]
      /\ main.pc = "unmask" => core.handler = "beat"
      /\ core.tmr /\ core.handler = "null" => main.pc = "mask"
      /\ isr.pc = "stray" => main.pc = "mask"
  BY DEF Threads, HandlerInv
<1>3. Pace - 1 \in Nat /\ Entry \in Nat /\ Len(Text.beat) \in Nat /\ 0 < Len(Text.beat)
  BY Texts
<1>4. MainOK
  BY DEF Threads
<1>5. ASSUME main' = main, core' = core, IsrOK', isr'.pc # "stray"
      PROVE  Threads'
  BY <1>2, <1>4, <1>5 DEF Threads, MainOK, HandlerInv
<1>6. CASE IsrWaits
  <2>1. /\ isr' = [isr EXCEPT !.gap = @ - 1] /\ isr.gap > 0
        /\ main' = main /\ core' = core
    BY <1>6 DEF IsrWaits
  <2>2. IsrOK' /\ isr'.pc # "stray"
    BY <1>1, <2>1 DEF IsrOK
  <2> QED
    BY <1>5, <2>1, <2>2
<1>7. CASE Interrupt
  <2>1. /\ isr' = [isr EXCEPT !.pc = IF core.handler = "beat" THEN "send" ELSE "stray",
                              !.gap = IF core.handler = "beat" THEN Entry ELSE 0,
                              !.i = 0]
        /\ core' = [core EXCEPT !.mie = FALSE] /\ main' = main /\ core.tmr
    BY <1>7 DEF Interrupt, Taken
  <2>2. CASE core.handler = "beat"
    <3>1. isr' = [isr EXCEPT !.pc = "send", !.gap = Entry, !.i = 0]
      BY <2>1, <2>2
    <3>2. IsrOK' /\ isr'.pc = "send"
      BY <1>1, <1>3, <3>1 DEF IsrOK, IsrPlaces
    <3>3. HandlerInv'
      BY <1>2, <2>1, <3>2 DEF HandlerInv
    <3> QED
      BY <1>4, <2>1, <3>2, <3>3 DEF Threads, MainOK
  <2>3. CASE core.handler # "beat"
    <3>1. isr' = [isr EXCEPT !.pc = "stray", !.gap = 0, !.i = 0]
      BY <2>1, <2>3
    <3>2. IsrOK' /\ isr'.pc = "stray"
      BY <1>1, <1>3, <3>1 DEF IsrOK, IsrPlaces
    <3>3. HandlerInv'
      BY <1>2, <2>1, <2>3, <3>2 DEF HandlerInv
    <3> QED
      BY <1>4, <2>1, <3>2, <3>3 DEF Threads, MainOK
  <2> QED
    BY <2>2, <2>3
<1>8. CASE Strays
  BY <1>8, ThreadsStand DEF Strays
<1>9. CASE IsrSends
  <2>1. /\ isr' = [Go(isr, "poll") EXCEPT !.i = @ + 1]
        /\ main' = main /\ core' = core /\ isr.pc = "send"
    BY <1>9 DEF IsrSends, InIsr
  <2> DEFINE polls == Go(isr, "poll")
  <2>2. /\ polls \in [pc : IsrPlaces, gap : Nat, i : Nat]
        /\ polls.pc = "poll" /\ polls.i = isr.i
    BY <1>1, <1>3 DEF IsrPlaces, Go
  <2> HIDE DEF polls
  <2>3. IsrOK' /\ isr'.pc # "stray"
    BY <1>1, <1>3, <2>1, <2>2 DEF IsrOK, polls
  <2> QED
    BY <1>5, <2>1, <2>3
<1>10. CASE IsrPolls
  <2> DEFINE next == IF uart_regs.txact THEN "poll"
                     ELSE IF isr.i < Len(Text.beat) THEN "send" ELSE "read_sr"
  <2>1. /\ isr' = [isr EXCEPT !.pc = next, !.gap = Pace - 1]
        /\ main' = main /\ core' = core /\ isr.pc = "poll"
    BY <1>1, <1>10 DEF IsrPolls, InIsr, Go
  <2>2. /\ next \in {"poll", "send", "read_sr"}
        /\ next = "send" => isr.i < Len(Text.beat)
    OBVIOUS
  <2> HIDE DEF next
  <2>3. IsrOK' /\ isr'.pc # "stray"
    BY <1>1, <1>3, <2>1, <2>2 DEF IsrOK, IsrPlaces
  <2> QED
    BY <1>5, <2>1, <2>3
<1>11. CASE IsrReadsStatus
  <2>1. /\ isr' = [isr EXCEPT !.pc = "write_sr", !.gap = Pace - 1]
        /\ main' = main /\ core' = core
    BY <1>1, <1>11 DEF IsrReadsStatus, Go
  <2>2. IsrOK' /\ isr'.pc # "stray"
    BY <1>1, <1>3, <2>1 DEF IsrOK, IsrPlaces
  <2> QED
    BY <1>5, <2>1, <2>2
<1>12. CASE IsrClearsMatched
  <2>1. /\ isr' = [isr EXCEPT !.pc = "leave", !.gap = Pace - 1]
        /\ main' = main /\ core' = core
    BY <1>1, <1>12 DEF IsrClearsMatched, Go
  <2>2. IsrOK' /\ isr'.pc # "stray"
    BY <1>1, <1>3, <2>1 DEF IsrOK, IsrPlaces
  <2> QED
    BY <1>5, <2>1, <2>2
<1>13. CASE IsrReturns
  <2>1. /\ isr' = [isr EXCEPT !.pc = "off"] /\ isr.gap = 0
        /\ main' = main /\ core' = [core EXCEPT !.mie = TRUE]
    BY <1>13 DEF IsrReturns, InIsr
  <2>2. IsrOK' /\ isr'.pc = "off"
    BY <1>1, <2>1 DEF IsrOK, IsrPlaces
  <2>3. HandlerInv'
    BY <1>2, <2>1, <2>2 DEF HandlerInv
  <2> QED
    BY <1>4, <2>1, <2>2, <2>3 DEF Threads, MainOK
<1> QED
  BY <1>6, <1>7, <1>8, <1>9, <1>10, <1>11, <1>12, <1>13

(* The line in a step of the interpreter and in one of the handler.        *)
LEMMA MainLine ==
    ASSUME Inv, MainControls \/ MainWaits \/ MainSends \/ MainPolls
    PROVE  Line' /\ TimerTypeOK'
<1>1. Line /\ Threads /\ TimerTypeOK
  BY DEF Inv
<1>2. FALSE \in BOOLEAN /\ TRUE \in BOOLEAN /\ GoodTimerAccess(None)
  BY DEF GoodTimerAccess
<1>3. CASE MainControls
  <2>1. isr.pc = "off" /\ isr' = isr /\ main.pc # "poll" /\ main.gap \in Nat
    BY <1>1, <1>3, ControlsKeep
  <2>2. PICK access : GoodTimerAccess(access) /\ Cycle(None, access)
    BY <1>1, <1>3, ControlsKeep
  <2>3. LineStep(FALSE, Zeros) /\ TimerTypeOK'
    BY <1>1, <2>2, QuietCycle
  <2>4. Linked(FALSE)
    BY <1>1, <2>1, <2>3, MainGoesOn
  <2> QED
    BY <1>1, <1>2, <2>3, <2>4, LineNext
<1>4. CASE MainWaits
  <2>1. isr.pc = "off" /\ isr' = isr /\ main.gap \in Nat
    BY <1>1, <1>4, MainPrintsKeep
  <2>2. /\ Cycle(None, None) /\ main.gap > 0
        /\ main'.gap = main.gap - 1 /\ main'.pc = main.pc
    BY <1>1, <1>4 DEF MainWaits, Threads, MainOK
  <2>3. LineStep(FALSE, Zeros) /\ TimerTypeOK'
    BY <1>1, <1>2, <2>2, QuietCycle
  <2>4. Linked(FALSE)
    BY <1>1, <2>1, <2>2, <2>3, MainGoesOn
  <2> QED
    BY <1>1, <1>2, <2>3, <2>4, LineNext
<1>5. CASE MainSends
  <2>1. isr.pc = "off" /\ isr' = isr
    BY <1>1, <1>5, MainPrintsKeep
  <2> DEFINE byte == Text[main.text][main.i + 1]
  <2>2. /\ Cycle(WriteReg("tdr", [tdr |-> byte]), None)
        /\ main' = [Go(main, "poll") EXCEPT !.i = @ + 1] /\ main.pc = "send"
    BY <1>5 DEF MainSends, InMain
  <2>3. byte \in Tx!Byte
    BY <1>1, <2>2, Texts DEF Threads, MainOK
  <2>4. main'.pc = "poll" /\ main'.gap = Pace - 1
    BY <1>1, <2>2 DEF Go, Threads, MainOK
  <2> HIDE DEF byte
  <2>5. LineStep(TRUE, byte) /\ TimerTypeOK'
    BY <1>1, <2>2, <2>3, StoreCycle
  <2>6. PICK some : some = byte
    OBVIOUS
  <2>7. Linked(TRUE)
    BY <1>1, <2>1, <2>2, <2>3, <2>4, <2>5, <2>6, MainStores
  <2> QED
    BY <1>1, <1>2, <2>3, <2>5, <2>6, <2>7, LineNext
<1>6. CASE MainPolls
  <2>1. isr.pc = "off" /\ isr' = isr /\ main.gap \in Nat
    BY <1>1, <1>6, MainPrintsKeep
  <2>2. /\ Cycle(ReadReg("sr"), None) /\ main.gap = 0 /\ main.pc = "poll"
        /\ main' = IF uart_regs.txact THEN Go(main, "poll") ELSE Printed
    BY <1>6 DEF MainPolls, InMain
  <2>3. LineStep(FALSE, Zeros) /\ TimerTypeOK'
    BY <1>1, <1>2, <2>2, QuietCycle
  <2>4. /\ main'.pc = "poll" => main'.gap = Pace - 1
        /\ main'.pc # "poll" => ~uart_regs.txact
    BY <1>1, <2>2 DEF Go, Printed, Says, Threads, MainOK
  <2>5. Linked(FALSE)
    BY <1>1, <2>1, <2>2, <2>3, <2>4, MainGoesOn
  <2> QED
    BY <1>1, <1>2, <2>3, <2>5, LineNext
<1> QED
  BY <1>3, <1>4, <1>5, <1>6

(* The steps of the handler keep what is known of the line.                *)
LEMMA HandlerLine ==
    ASSUME Inv,
           \/ IsrWaits \/ Interrupt \/ Strays
           \/ IsrSends \/ IsrPolls \/ IsrReadsStatus \/ IsrClearsMatched \/ IsrReturns
    PROVE  Line' /\ TimerTypeOK'
<1>1. Line /\ Threads /\ TimerTypeOK /\ IsrOK
  BY DEF Inv, Threads
<1>2. /\ FALSE \in BOOLEAN /\ TRUE \in BOOLEAN
      /\ \A access \in {None, ReadReg("sr"), WriteReg("sr", [mtch |-> FALSE])} :
            GoodTimerAccess(access)
  BY DEF GoodTimerAccess
<1>3. isr \in [pc : IsrPlaces, gap : Nat, i : Nat] /\ Pace - 1 \in Nat
  BY <1>1, Texts DEF IsrOK
<1>4. ASSUME NEW access \in {None, ReadReg("sr")},
             NEW timer_access
                 \in {None, ReadReg("sr"), WriteReg("sr", [mtch |-> FALSE])},
             Cycle(access, timer_access)
      PROVE  LineStep(FALSE, Zeros) /\ TimerTypeOK'
  BY <1>1, <1>2, <1>4, QuietCycle
<1>5. ASSUME LineStep(FALSE, Zeros), TimerTypeOK', Linked(FALSE)
      PROVE  Line' /\ TimerTypeOK'
  BY <1>1, <1>2, <1>5, LineNext
<1>6. CASE IsrWaits
  <2>1. LineStep(FALSE, Zeros) /\ TimerTypeOK'
    BY <1>4, <1>6 DEF IsrWaits
  <2>2. Linked(FALSE)
    BY <1>1, <1>6, <2>1, HandlerWaits DEF IsrWaits
  <2> QED
    BY <1>5, <2>1, <2>2
<1>7. CASE Interrupt
  <2>1. LineStep(FALSE, Zeros) /\ TimerTypeOK'
    BY <1>4, <1>7 DEF Interrupt
  <2>2. /\ isr.pc = "off"
        /\ isr'.pc = (IF core.handler = "beat" THEN "send" ELSE "stray") /\ isr'.i = 0
    BY <1>3, <1>7 DEF Interrupt, Taken
  <2>3. Linked(FALSE)
    BY <1>1, <2>1, <2>2, HandlerBegins
  <2> QED
    BY <1>5, <2>1, <2>3
<1>8. CASE Strays
  <2>1. LineStep(FALSE, Zeros) /\ TimerTypeOK'
    BY <1>4, <1>8 DEF Strays
  <2>2. Linked(FALSE)
    BY <1>1, <1>8, <2>1, HandlerBegins DEF Strays
  <2> QED
    BY <1>5, <2>1, <2>2
<1>9. CASE IsrSends
  <2> DEFINE byte == Text.beat[isr.i + 1]
  <2>1. /\ Cycle(WriteReg("tdr", [tdr |-> byte]), None)
        /\ isr' = [Go(isr, "poll") EXCEPT !.i = @ + 1] /\ isr.pc = "send"
    BY <1>9 DEF IsrSends, InIsr
  <2>2. byte \in Tx!Byte
    BY <1>1, <2>1, Texts DEF IsrOK
  <2>3. isr'.pc = "poll" /\ isr'.i = isr.i + 1 /\ isr'.gap = Pace - 1
    BY <1>3, <2>1 DEF Go
  <2>4. PICK some : some = byte
    OBVIOUS
  <2> HIDE DEF byte
  <2>5. LineStep(TRUE, some) /\ TimerTypeOK' /\ some \in Tx!Byte
    BY <1>1, <2>1, <2>2, <2>4, StoreCycle
  <2>6. Linked(TRUE)
    BY <1>1, <2>1, <2>3, <2>4, <2>5, HandlerStores DEF byte
  <2> QED
    BY <1>1, <1>2, <2>5, <2>6, LineNext
<1>10. CASE IsrPolls
  <2>1. LineStep(FALSE, Zeros) /\ TimerTypeOK'
    BY <1>4, <1>10 DEF IsrPolls
  <2>2. /\ isr.pc = "poll" /\ isr.gap = 0 /\ isr'.i = isr.i /\ isr'.gap = Pace - 1
        /\ isr'.pc = IF uart_regs.txact THEN "poll"
                     ELSE IF isr.i < Len(Text.beat) THEN "send" ELSE "read_sr"
    BY <1>3, <1>10 DEF IsrPolls, InIsr, Go
  <2>3. Linked(FALSE)
    BY <1>1, <2>1, <2>2, HandlerPolls
  <2> QED
    BY <1>5, <2>1, <2>3
<1>11. CASE IsrReadsStatus \/ IsrClearsMatched \/ IsrReturns
  <2>1. LineStep(FALSE, Zeros) /\ TimerTypeOK'
    BY <1>4, <1>11 DEF IsrReadsStatus, IsrClearsMatched, IsrReturns
  <2>2. /\ isr.pc \in {"read_sr", "write_sr", "leave"}
        /\ isr'.pc \in {"read_sr", "write_sr", "leave", "off"}
    BY <1>3, <1>11 DEF IsrReadsStatus, IsrClearsMatched, IsrReturns, InIsr, Go
  <2>3. Linked(FALSE)
    BY <1>1, <2>1, <2>2, HandlerEnds
  <2> QED
    BY <1>5, <2>1, <2>3
<1> QED
  BY <1>6, <1>7, <1>8, <1>9, <1>10, <1>11

-----------------------------------------------------------------------------
(* The inductive invariant.                                                *)
LEMMA InitInv == ConsoleInit => Inv
<1> SUFFICES ASSUME ConsoleInit PROVE Inv
  OBVIOUS
<1>1. /\ {0, 1} \subseteq Bit /\ DataBits \in Nat \ {0} /\ MaxDivider \in Nat
      /\ Oversampling \in Nat /\ Oversampling > 1 /\ Div \in 0 .. MaxDivider
      /\ CounterSize \in Nat \ {0}
  BY UartAssumption, TimerAssumption, ConsoleAssumption
<1>2. /\ tx = [state |-> "IDLE", bits_counter |-> 0, edges_counter |-> 0,
               sout |-> 1, tx_buffer |-> Zeros]
      /\ ear = [left |-> 0, bits |-> <<>>, error |-> FALSE]
      /\ tx_data_valid = FALSE /\ clk_divider_valid = FALSE
      /\ uart_regs = [en |-> TRUE, rxne |-> FALSE, txact |-> FALSE, rxerr |-> FALSE,
                      tdr |-> Zeros, rdr |-> Zeros, cdr |-> Div]
      /\ clock = [sck |-> FALSE, rising_edge |-> FALSE, falling_edge |-> FALSE,
                  counter |-> 0, counter_target |-> Div]
      /\ owed = <<>> /\ lost = 0
  BY DEF ConsoleInit, Tx!Init, Ear!Init, Zeros
<1>3. /\ main = [pc |-> "send", gap |-> 0, text |-> "prompt", i |-> 0, period |-> 1,
                 cr |-> [hlt |-> FALSE, sngl |-> FALSE, trg |-> FALSE]]
      /\ isr = [pc |-> "off", gap |-> 0, i |-> 0]
      /\ core = [mie |-> FALSE, tmr |-> FALSE, handler |-> "null"]
  BY DEF ConsoleInit
<1>4. Zeros \in Tx!Byte /\ Zeros \in Rx!Byte
  BY <1>1 DEF Zeros, Tx!Byte, Rx!Byte
<1>5. UartTypeOK
  <2>1. Clock!TypeOK /\ uart_regs.cdr \in Clock!Divider
    BY <1>1, <1>2 DEF Clock!TypeOK, Clock!Divider
  <2>2. Tx!TypeOK
    BY <1>1, <1>2, <1>4 DEF Tx!TypeOK, Tx!States
  <2>3. Rx!TypeOK
    <3>1. Rx!Init
      BY DEF ConsoleInit
    <3> QED
      BY <1>1, <1>4, <3>1 DEF Rx!Init, Rx!TypeOK, Rx!States, Rx!Zeros, Zeros
  <2> QED
    BY <1>2, <1>4, <2>1, <2>2, <2>3 DEF UartTypeOK
<1>6. TimerTypeOK
  BY <1>1 DEF ConsoleInit, TimerInit, TimerTypeOK, Value
<1>7. ClockOK /\ TxOK
  BY <1>1, <1>2 DEF ClockOK, TxOK
<1>8. ear.bits \in Seq(Bit) /\ Len(ear.bits) = 0 /\ ear.left = 0
  BY <1>2, EmptySeq
<1>9. EarOK /\ InStep
  BY <1>2, <1>8 DEF EarOK, InStep, Aligned
<1>10. ~Pending /\ Quiet
  BY <1>2 DEF Pending, Quiet
<1>11. Sending /\ Counted
  <2>1. owed \in Seq(Tx!Byte) /\ Len(owed) = 0
    BY <1>2, EmptySeq
  <2> QED
    BY <1>2, <1>10, <2>1 DEF Sending, Counted, One
<1>12. LineInv /\ LostInv
  BY <1>2, <1>3, <1>10 DEF LineInv, LostInv, Fresh, Quiet, Collision
<1>13. IsrOK /\ HandlerInv
  BY <1>3 DEF IsrOK, IsrPlaces, HandlerInv
<1>14. MainOK
  <2>1. 0 < Len(Text.prompt)
    BY Texts
  <2> QED
    BY <1>1, <1>3, <2>1 DEF MainOK, MainPlaces, Controls
<1> QED
  BY <1>5, <1>6, <1>7, <1>9, <1>11, <1>12, <1>13, <1>14 DEF Inv, Line, Threads, TxInv

(* The invariant is inductive.                                             *)
LEMMA StepInv == Inv /\ [ConsoleNext]_consolevars => Inv'
<1> SUFFICES ASSUME Inv, [ConsoleNext]_consolevars PROVE Inv'
  OBVIOUS
<1>1. Threads /\ TimerTypeOK
  BY DEF Inv
<1>2. CASE MainControls
  BY <1>1, <1>2, ControlsKeep, MainLine DEF Inv
<1>3. CASE MainWaits \/ MainSends \/ MainPolls
  BY <1>1, <1>3, MainPrintsKeep, MainLine DEF Inv
<1>4. CASE \/ IsrWaits \/ Interrupt \/ Strays
           \/ IsrSends \/ IsrPolls \/ IsrReadsStatus \/ IsrClearsMatched
           \/ IsrReturns
  BY <1>1, <1>4, HandlerKeeps, HandlerLine DEF Inv
<1>5. CASE UNCHANGED consolevars
  <2>1. /\ UNCHANGED <<main, isr, core, ear, owed, lost>>
        /\ UNCHANGED <<timer_regs, timer_core>>
        /\ UNCHANGED <<uart_regs, tx_data_valid, clk_divider_valid, clock, tx, rx>>
    BY <1>5 DEF consolevars, uartvars, timervars
  <2>2. Threads' /\ TimerTypeOK'
    BY <1>1, <2>1, ThreadsStand DEF TimerTypeOK
  <2>3. TxInv'
    BY <2>1 DEF Inv, Line, TxInv, UartTypeOK, Clock!TypeOK, Tx!TypeOK, Rx!TypeOK,
                ClockOK, TxOK, EarOK, InStep, TxLeft, ToEdge
  <2>4. Sending' /\ Counted'
    BY <2>1 DEF Inv, Line, Sending, Counted, Pending, OnTheLine, Beginning,
                Carries, HeardOf
  <2>5. LineInv' /\ LostInv'
    BY <2>1 DEF Inv, Line, LineInv, LostInv, QuietPlace, Quiet, Fresh, Collision,
                Beginning, Pending, Tx!busy
  <2> QED
    BY <2>2, <2>3, <2>4, <2>5 DEF Inv, Line
<1> QED
  BY <1>2, <1>3, <1>4, <1>5 DEF ConsoleNext, MainControls

(* It holds in every state of the console.                                 *)
LEMMA InvHolds == ConsoleSpec => []Inv
BY InitInv, StepInv, PTL DEF ConsoleSpec

-----------------------------------------------------------------------------
(* The registers and counters keep their widths, the host has never more   *)
(* than a byte of bits, at most two bytes are on their way to it and at    *)
(* most one of them is lost.                                               *)
THEOREM ConsoleTyped == ConsoleSpec => []ConsoleTypeOK
<1>1. Inv => ConsoleTypeOK
  <2> SUFFICES ASSUME Inv PROVE ConsoleTypeOK
    OBVIOUS
  <2>1. UartTypeOK /\ TimerTypeOK
    BY DEF Inv, Line, TxInv
  <2>2. core \in [mie : BOOLEAN, tmr : BOOLEAN, handler : {"null", "beat"}]
    BY DEF Inv, Threads, HandlerInv
  <2>3. owed \in Seq(Tx!Byte) /\ Len(owed) <= 2 /\ lost \in 0 .. 1
    <3>1. Len(owed) \in 0 .. 2 /\ lost \in 0 .. 1 /\ owed \in Seq(Tx!Byte)
      BY OwedBound DEF Inv, Line
    <3> DEFINE n == Len(owed)
    <3> HIDE DEF n
    <3>2. n \in 0 .. 2 => n <= 2
      OBVIOUS
    <3> QED
      BY <3>1, <3>2, Zenon DEF n
  <2>4. Ear!TypeOK
    <3>1. ear.left \in Nat /\ ear.error \in BOOLEAN
      BY DEF Inv, Line, TxInv, EarOK
    <3>2. Aligned(tx.state, tx.sout, tx.bits_counter, TxLeft, ear.left,
                  Len(ear.bits))
      BY DEF Inv, Line, TxInv, InStep
    <3>3. /\ tx.state \in {"IDLE", "START", "ACTIVE", "STOP"}
          /\ tx.state = "START" => tx.sout \in {0, 1}
          /\ tx.bits_counter \in 0 .. DataBits - 1 /\ DataBits \in Nat
      BY <2>1, UartAssumption DEF Inv, Line, TxInv, TxOK, UartTypeOK, Tx!TypeOK, Tx!States
    <3>4. Len(ear.bits) <= DataBits
      BY <3>1, <3>2, <3>3 DEF Aligned
    <3> QED
      BY <3>1, <3>4 DEF Ear!TypeOK
  <2> QED
    BY <2>1, <2>2, <2>3, <2>4 DEF ConsoleTypeOK
<1> QED
  BY <1>1, InvHolds, PTL

(* Every byte that the host hears was written and had not been heard yet;  *)
(* when the line is at rest, all that it has not heard is lost; and no     *)
(* byte ever arrives spoilt.                                               *)
THEOREM LossesAreAccounted == ConsoleSpec => []LossesAccounted
<1>1. Inv => LossesAccounted
  <2> SUFFICES ASSUME Inv PROVE LossesAccounted
    OBVIOUS
  <2>1. Ear!Hears => Ear!Heard \in Range(owed)
    BY HearsOwed DEF Inv, Line
  <2>2. tx.state = "IDLE" /\ ~tx_data_valid => Len(owed) = lost
    BY DEF Inv, Line, Counted, Pending, One
  <2>3. ~ear.error
    BY DEF Inv, Line, TxInv, EarOK
  <2> QED
    BY <2>1, <2>2, <2>3 DEF LossesAccounted
<1> QED
  BY <1>1, InvHolds, PTL

(* A store meets a busy transmitter only when it is the first of a         *)
(* heartbeat.                                                              *)
THEOREM OnlyFirstBeatsCollide == ConsoleSpec => []OnlyBeatsCollide
<1>1. Inv => OnlyBeatsCollide
  BY DEF Inv, Line, LineInv, Beginning, OnlyBeatsCollide
<1> QED
  BY <1>1, InvHolds, PTL

(* The null handler is called only between the two statements of           *)
(* disable_timer_interrupts.                                               *)
THEOREM StraysOnlyInDisabling == ConsoleSpec => []StraysOnlyWhileDisabling
<1>1. Inv => StraysOnlyWhileDisabling
  BY DEF Inv, Threads, HandlerInv, StraysOnlyWhileDisabling
<1> QED
  BY <1>1, InvHolds, PTL
=============================================================================
