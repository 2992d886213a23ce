-------------------------- MODULE Bootloader_proof --------------------------
(***************************************************************************)
(* Proofs about the bootloader, for every image, host, divider and pace    *)
(* that the assumptions allow, and every timeout.                          *)
(***************************************************************************)
EXTENDS Bootloader, SequenceTheorems, TLAPS

(* The operations main is made of, and those that stand for them while a   *)
(* load function is at work.                                               *)
MainOps == {"uart_divider", "uart_enable", "say", "said", "direct", "light",
            "dark", "delay", "skip", "source", "uart", "uart_result", "spi",
            "again", "mtvec"}
SpiOps  == {"spi_write", "spi_poll", "spi_get"}
UartOps == {"timeout_high", "uart_poll", "test_low", "test_high", "uart_ask",
            "uart_get"}
Ops     == MainOps \cup SpiOps \cup UartOps \cup {"spi_divider", "store"}

IsSw == sw = [todo |-> sw.todo, gap |-> sw.gap, pace |-> sw.pace, mtvec |-> sw.mtvec]

SwOK ==
    /\ IsSw
    /\ sw.todo \in Seq(Ops)
    /\ \A k \in 2 .. Len(sw.todo) : sw.todo[k] \in MainOps
    /\ sw.pace \in Paces
    /\ sw.gap \in Nat /\ sw.gap >= 1

LoaderOK ==
    loader = [source |-> loader.source, i |-> loader.i, bytes |-> loader.bytes,
              low |-> loader.low, timeout |-> loader.timeout,
              began |-> loader.began, result |-> loader.result]

-----------------------------------------------------------------------------
(* The serial clock and the master, whatever the software does.  A master  *)
(* that has been in STOP for some cycles has counted them.                 *)
target == spi_clock.counter_target
Held   == IF spi_clock.rising_edge THEN target + 1 ELSE spi_clock.counter

ClockOK ==
    /\ spi_clock \in [sck : BOOLEAN, rising_edge : BOOLEAN, falling_edge : BOOLEAN,
                      counter : Nat, counter_target : 0 .. MaxDivider]
    /\ spi_clock.counter <= target
    /\ spi_clock.falling_edge => ~spi_clock.sck /\ spi_clock.counter = 0
                                 /\ ~spi_clock.rising_edge

IsMaster ==
    master = [state |-> master.state, bits_counter |-> master.bits_counter,
              ss |-> master.ss, sck |-> master.sck, mosi |-> master.mosi,
              rx_data_valid |-> master.rx_data_valid,
              rx_data |-> master.rx_data, en |-> master.en,
              tx_buffer |-> master.tx_buffer, rx_buffer |-> master.rx_buffer,
              sck_polarity |-> master.sck_polarity,
              sck_phase |-> master.sck_phase]

MasterOK ==
    /\ IsMaster
    /\ master.state \in {"IDLE", "START", "ACTIVE", "STOP"}
    /\ master.en \in BOOLEAN
    /\ master.en <=> master.state \in {"ACTIVE", "STOP"}
    /\ master.rx_data_valid \in BOOLEAN
    /\ master.state = "STOP" =>
           spi_clock.rising_edge \/ (~spi_clock.sck /\ spi_clock.counter >= 1)

HInv == ClockOK /\ MasterOK

(* The remainder of a number that is smaller than the divisor.             *)
LEMMA SmallRemainder ==
    ASSUME NEW n \in Nat, NEW m \in Nat, n < m
    PROVE  n % m = n
  BY SMT

(* One cycle of the clock. *)
LEMMA ClockCycle ==
    ASSUME ClockOK, NEW en \in BOOLEAN, NEW valid \in BOOLEAN,
           NEW divider, valid => divider \in 0 .. MaxDivider,
           Spim!SckGenerator!Cycle(en, valid, divider)
    PROVE  /\ ClockOK'
           /\ target' = IF valid THEN divider ELSE target
           /\ en /\ ~valid /\ ~spi_clock.rising_edge /\ ~spi_clock.sck =>
                  /\ Held' = Held + 1
                  /\ spi_clock'.rising_edge \/ (~spi_clock'.sck /\ spi_clock'.counter >= 1)
<1> USE LoaderAssumption
<1>1. CASE Spim!SckGenerator!SetDivider(valid, divider)
  BY <1>1 DEF Spim!SckGenerator!SetDivider, ClockOK, target, Held
<1>2. CASE Spim!SckGenerator!Turn(en, valid)
  <2>1. ClockOK'
    <3>1. spi_clock' \in [sck : BOOLEAN, rising_edge : BOOLEAN, falling_edge : BOOLEAN,
                      counter : Nat, counter_target : 0 .. MaxDivider]
      BY <1>2 DEF Spim!SckGenerator!Turn, ClockOK
    <3>2. spi_clock'.counter = 0 /\ target' = target
      BY <1>2 DEF Spim!SckGenerator!Turn, ClockOK, target
    <3>3. spi_clock'.falling_edge => ~spi_clock'.sck /\ ~spi_clock'.rising_edge
      BY <1>2 DEF Spim!SckGenerator!Turn, ClockOK
    <3> QED
      BY <3>1, <3>2, <3>3 DEF ClockOK, target
  <2>2. target' = target /\ ~valid
    BY <1>2 DEF Spim!SckGenerator!Turn, ClockOK, target
  <2>3. ASSUME ~spi_clock.rising_edge, ~spi_clock.sck
        PROVE Held' = Held + 1 /\ spi_clock'.rising_edge
    <3>1. spi_clock'.rising_edge
      BY <1>2, <2>3 DEF Spim!SckGenerator!Turn, ClockOK
    <3>2. spi_clock.counter = target
      BY <1>2 DEF Spim!SckGenerator!Turn, ClockOK, target
    <3> QED
      BY <3>1, <3>2, <2>2, <2>3 DEF Held
  <2> QED
    BY <2>1, <2>2, <2>3
<1>3. CASE Spim!SckGenerator!Count(en, valid)
  <2>1. spi_clock.counter < target /\ target <= MaxDivider
    BY <1>3 DEF Spim!SckGenerator!Count, ClockOK, target
  <2>2. (spi_clock.counter + 1) % (MaxDivider + 1) = spi_clock.counter + 1
    <3>1. spi_clock.counter \in Nat /\ target \in Nat
      BY DEF ClockOK, target
    <3>2. spi_clock.counter + 1 \in Nat /\ MaxDivider + 1 \in Nat
          /\ spi_clock.counter + 1 < MaxDivider + 1
      BY <2>1, <3>1
    <3> QED
      BY <3>2, SmallRemainder
  <2>3. /\ spi_clock' = [spi_clock EXCEPT !.rising_edge = FALSE, !.falling_edge = FALSE,
                                           !.counter = spi_clock.counter + 1]
        /\ ~valid
    BY <1>3, <2>2 DEF Spim!SckGenerator!Count
  <2>4. ClockOK' /\ target' = target
    <3>1. spi_clock' \in [sck : BOOLEAN, rising_edge : BOOLEAN, falling_edge : BOOLEAN,
                          counter : Nat, counter_target : 0 .. MaxDivider]
      <4>1. spi_clock.counter + 1 \in Nat
        BY DEF ClockOK
      <4> QED
        BY <2>3, <4>1 DEF ClockOK
    <3>2. spi_clock'.counter <= target /\ target' = target
      <4>1. spi_clock'.counter = spi_clock.counter + 1 /\ target' = target
        BY <2>3 DEF ClockOK, target
      <4>2. spi_clock.counter \in Nat /\ target \in Nat
        BY DEF ClockOK, target
      <4> QED
        BY <2>1, <4>1, <4>2
    <3>3. ~spi_clock'.falling_edge
      BY <2>3 DEF ClockOK
    <3> QED
      BY <3>1, <3>2, <3>3 DEF ClockOK, target
  <2>5. ~spi_clock'.rising_edge /\ spi_clock'.counter = spi_clock.counter + 1
        /\ (~spi_clock.sck => ~spi_clock'.sck)
    BY <2>3 DEF ClockOK
  <2> QED
    BY <2>3, <2>4, <2>5 DEF Held, ClockOK
<1>4. CASE Spim!SckGenerator!Stop(en, valid)
  <2>1. ClockOK' /\ target' = target
    <3>1. spi_clock' \in [sck : BOOLEAN, rising_edge : BOOLEAN, falling_edge : BOOLEAN,
                          counter : Nat, counter_target : 0 .. MaxDivider]
      BY <1>4 DEF Spim!SckGenerator!Stop, ClockOK
    <3>2. spi_clock'.counter = 0 /\ target' = target /\ target \in Nat
      BY <1>4 DEF Spim!SckGenerator!Stop, ClockOK, target
    <3>3. ~spi_clock'.falling_edge
      BY <1>4 DEF Spim!SckGenerator!Stop, ClockOK
    <3> QED
      BY <3>1, <3>2, <3>3 DEF ClockOK, target
  <2> QED
    BY <1>4, <2>1 DEF Spim!SckGenerator!Stop
<1> QED
  BY <1>1, <1>2, <1>3, <1>4 DEF Spim!SckGenerator!Cycle
(* One cycle of the master.                                                *)
MasterMoves ==
    \/ master.state = "IDLE" /\ ~master'.rx_data_valid
       /\ master'.state = IF spi_tx_data_valid THEN "START" ELSE "IDLE"
    \/ master.state = "START" /\ master'.state = "ACTIVE" /\ ~master'.rx_data_valid
    \/ master.state = "ACTIVE" /\ master'.state = "ACTIVE" /\ ~master'.rx_data_valid
    \/ master.state = "ACTIVE" /\ master'.state = "STOP" /\ master'.rx_data_valid
       /\ Held' = 1
    \/ master.state = "STOP" /\ master'.state = "STOP" /\ ~master'.rx_data_valid
       /\ Held' = Held + 1
    \/ master.state = "STOP" /\ master'.state = "IDLE" /\ ~master'.rx_data_valid

(* A cycle of the SPI master and of its clock, with or without a new       *)
(* divider, keeps what is said of them and moves the master as MasterMoves *)
(* says.                                                                   *)
LEMMA MasterCycle ==
    ASSUME HInv, spi_clk_divider_valid \in BOOLEAN,
           spi_clk_divider_valid =>
               master.state = "IDLE" /\ spi_regs.cdr \in 0 .. MaxDivider,
           NEW miso, Spim!MasterCycle(miso),
           Spim!SckGenerator!Cycle(master.en, spi_clk_divider_valid, spi_regs.cdr)
    PROVE  /\ HInv' /\ MasterMoves
           /\ target' = IF spi_clk_divider_valid THEN spi_regs.cdr ELSE target
<1> DEFINE en == master.en
           valid == spi_clk_divider_valid
<1>1. en \in BOOLEAN
  BY DEF HInv, MasterOK, IsMaster
<1>2. /\ ClockOK'
      /\ target' = IF valid THEN spi_regs.cdr ELSE target
      /\ en /\ ~valid /\ ~spi_clock.rising_edge /\ ~spi_clock.sck =>
             /\ Held' = Held + 1
             /\ spi_clock'.rising_edge \/ (~spi_clock'.sck /\ spi_clock'.counter >= 1)
  BY <1>1, ClockCycle DEF HInv
<1>3. CASE Spim!Rest
  <2>1. /\ master'.state = IF spi_tx_data_valid THEN "START" ELSE "IDLE"
        /\ master'.rx_data_valid = FALSE /\ master'.en = master.en
        /\ master.state = "IDLE"
    BY <1>3 DEF Spim!Rest, Spim!Becomes, HInv, MasterOK, IsMaster
  <2>2. IsMaster'
    BY <1>3 DEF Spim!Rest, Spim!Becomes, HInv, MasterOK, IsMaster
  <2>3. MasterOK'
    BY <2>1, <2>2 DEF HInv, MasterOK
  <2> QED
    BY <1>2, <2>1, <2>3 DEF HInv, MasterMoves
<1>4. CASE Spim!Start
  <2>1. /\ master'.state = "ACTIVE" /\ master.state = "START"
        /\ master'.rx_data_valid = FALSE /\ master'.en = TRUE
    BY <1>4 DEF Spim!Start, Spim!Becomes, HInv, MasterOK, IsMaster
  <2>2. MasterOK'
    BY <1>4, <2>1 DEF Spim!Start, Spim!Becomes, HInv, MasterOK, IsMaster
  <2> QED
    BY <1>2, <2>1, <2>2 DEF HInv, MasterMoves
<1>5. CASE Spim!Leading(miso)
  BY <1>2, <1>5 DEF Spim!Leading, Spim!Becomes, HInv, MasterOK, IsMaster, MasterMoves
<1>6. CASE Spim!Trailing(miso)
  BY <1>2, <1>6 DEF Spim!Trailing, Spim!TrailingEdge, Spim!Becomes, HInv, MasterOK, IsMaster,
     MasterMoves
<1>7. CASE Spim!LastTrailing(miso)
  <2>1. /\ master.state = "ACTIVE" /\ ~spi_clock.rising_edge /\ ~spi_clock.sck
        /\ Held = 0
    BY <1>7 DEF Spim!LastTrailing, Spim!leading, Spim!trailing, HInv, ClockOK, Held
  <2>2. en /\ ~valid
    BY <2>1 DEF HInv, MasterOK, IsMaster
  <2>3. /\ Held' = 1
        /\ spi_clock'.rising_edge \/ (~spi_clock'.sck /\ spi_clock'.counter >= 1)
    BY <1>2, <2>1, <2>2
  <2>4. /\ master'.state = "STOP" /\ master'.rx_data_valid = TRUE
        /\ master'.en = master.en
    BY <1>7 DEF Spim!LastTrailing, Spim!TrailingEdge, HInv, MasterOK, IsMaster
  <2>5. MasterOK'
    BY <1>7, <2>2, <2>3, <2>4 DEF Spim!LastTrailing, Spim!TrailingEdge, HInv, MasterOK, IsMaster
  <2> QED
    BY <1>2, <2>1, <2>3, <2>4, <2>5 DEF HInv, MasterMoves
<1>8. CASE Spim!Hold
  <2>1. CASE master.state = "ACTIVE"
    BY <1>2, <1>8, <2>1 DEF Spim!Hold, Spim!Becomes, HInv, MasterOK, IsMaster, MasterMoves
  <2>2. CASE master.state = "STOP"
    <3>1. ~spi_clock.rising_edge /\ ~spi_clock.sck
      BY <1>8, <2>2 DEF Spim!Hold, Spim!leading, HInv, MasterOK, IsMaster
    <3>2. /\ Held' = Held + 1
          /\ spi_clock'.rising_edge \/ (~spi_clock'.sck /\ spi_clock'.counter >= 1)
      BY <1>2, <2>2, <3>1 DEF HInv, MasterOK, IsMaster
    <3>3. master'.state = "STOP" /\ master'.rx_data_valid = FALSE /\ MasterOK'
      BY <1>8, <2>2, <3>2 DEF Spim!Hold, Spim!Becomes, HInv, MasterOK, IsMaster
    <3> QED
      BY <1>2, <2>2, <3>2, <3>3 DEF HInv, MasterMoves
  <2> QED
    BY <1>8, <2>1, <2>2 DEF Spim!Hold
<1>9. CASE Spim!Release
  <2>1. /\ master'.state = "IDLE" /\ master.state = "STOP"
        /\ master'.rx_data_valid = FALSE /\ master'.en = FALSE
    BY <1>9 DEF Spim!Release, Spim!Becomes, HInv, MasterOK, IsMaster
  <2>2. IsMaster'
    BY <1>9 DEF Spim!Release, Spim!Becomes, HInv, MasterOK, IsMaster
  <2>3. MasterOK'
    BY <2>1, <2>2 DEF HInv, MasterOK
  <2> QED
    BY <1>2, <2>1, <2>3 DEF HInv, MasterMoves
<1> QED
  BY <1>2, <1>3, <1>4, <1>5, <1>6, <1>7, <1>8, <1>9 DEF Spim!MasterCycle

-----------------------------------------------------------------------------
(* What is left to do.  Whatever follows the operation at hand is one of   *)
(* main's.                                                                 *)
LEMMA Doing ==
    ASSUME SwOK, sw.todo # <<>>,
           NEW ops \in Seq(Ops), \A k \in 2 .. Len(ops) : ops[k] \in MainOps,
           NEW mtvec,
           sw' = [sw EXCEPT !.todo = ops \o Tail(@), !.gap = 1, !.mtvec = mtvec]
    PROVE  /\ SwOK' /\ sw'.gap = 1 /\ sw'.pace = sw.pace
           /\ ops # <<>> => Now' = Head(ops)
           /\ ops = <<>> => Now' \in MainOps \cup {"jump"}
<1> DEFINE rest == Tail(sw.todo)
           todo == ops \o rest
<1>1. /\ rest \in Seq(Ops) /\ Len(rest) = Len(sw.todo) - 1
      /\ \A k \in 1 .. Len(rest) : rest[k] = sw.todo[k + 1]
  <2>1. sw.todo \in Seq(Ops)
    BY DEF SwOK
  <2> QED
    BY <2>1, HeadTailProperties
<1>2. \A k \in 1 .. Len(rest) : rest[k] \in MainOps
  <2>1. Len(sw.todo) \in Nat /\ \A k \in 2 .. Len(sw.todo) : sw.todo[k] \in MainOps
    BY LenProperties DEF SwOK
  <2> HIDE DEF rest
  <2> TAKE k \in 1 .. Len(rest)
  <2>2. k + 1 \in 2 .. Len(sw.todo)
    BY <1>1, <2>1
  <2> QED
    BY <1>1, <2>1, <2>2
<1>3. Len(ops) \in Nat /\ Len(rest) \in Nat
  BY <1>1, LenProperties
<1>4. /\ todo \in Seq(Ops) /\ Len(todo) = Len(ops) + Len(rest)
      /\ \A k \in 1 .. Len(ops) + Len(rest) :
             todo[k] = IF k <= Len(ops) THEN ops[k] ELSE rest[k - Len(ops)]
  BY <1>1, ConcatProperties
<1>5. \A k \in 2 .. Len(todo) : todo[k] \in MainOps
  BY <1>2, <1>3, <1>4
<1>6. /\ sw'.todo = todo /\ sw'.gap = 1 /\ sw'.pace = sw.pace
      /\ IsSw'
  <2>1. sw' = [todo |-> todo, gap |-> 1, pace |-> sw.pace, mtvec |-> mtvec]
    BY DEF SwOK, IsSw
  <2> QED
    BY <2>1 DEF IsSw
<1> HIDE DEF todo, rest
<1>7. SwOK'
  <2>1. sw.pace \in Paces
    BY DEF SwOK
  <2> QED
    <3>1. sw'.gap \in Nat /\ sw'.gap >= 1 /\ sw'.pace \in Paces
      BY <1>6, <2>1
    <3> QED
      BY <1>4, <1>5, <1>6, <3>1 DEF SwOK
<1>8. ASSUME ops # <<>> PROVE Now' = Head(ops)
  <2>1. Len(ops) >= 1 /\ Head(ops) = ops[1]
    BY <1>3, <1>8, EmptySeq, HeadTailProperties
  <2>2. todo # <<>> /\ Head(todo) = todo[1] /\ todo[1] = ops[1]
    BY <1>3, <1>4, <2>1, EmptySeq, HeadTailProperties
  <2> QED
    BY <1>6, <2>1, <2>2 DEF Now
<1>9. ASSUME ops = <<>> PROVE Now' \in MainOps \cup {"jump"}
  <2>1. CASE todo = <<>>
    BY <1>6, <2>1 DEF Now
  <2>2. CASE todo # <<>>
    <3>1. Len(todo) >= 1 /\ Head(todo) = todo[1] /\ Len(ops) = 0
      BY <1>3, <1>4, <1>9, <2>2, EmptySeq, HeadTailProperties
    <3>2. todo[1] \in MainOps
      BY <1>2, <1>3, <1>4, <3>1
    <3> QED
      BY <1>6, <2>2, <3>1, <3>2 DEF Now
  <2> QED
    BY <2>1, <2>2
<1> QED
  BY <1>6, <1>7, <1>8, <1>9

(* A cycle without an access only lengthens the gap.                       *)
LEMMA Waiting ==
    ASSUME SwOK, sw' = [sw EXCEPT !.gap = @ + 1]
    PROVE  SwOK' /\ Now' = Now /\ sw'.gap = sw.gap + 1 /\ sw'.pace = sw.pace
<1>1. sw' = [todo |-> sw.todo, gap |-> sw.gap + 1, pace |-> sw.pace, mtvec |-> sw.mtvec]
  BY DEF SwOK, IsSw
<1>2. sw.gap + 1 \in Nat /\ sw.gap + 1 >= 1
  BY DEF SwOK
<1> QED
  BY <1>1, <1>2 DEF SwOK, IsSw, Now

-----------------------------------------------------------------------------
(* What the software knows of the master: a byte is on its way for one     *)
(* cycle, then it is shifted, then the answer is flagged, and from there   *)
(* on the cycles that the software has let pass are cycles of the STOP.    *)
AfterPoll == {"spi_get", "spi_write", "store"}
Untouched == ~spi_regs.rxne /\ ~master.rx_data_valid
Polling   == Now = "spi_poll"
Stopping  == master.state = "STOP"

Configured ==
    \/ Now \in SpiOps
    \/ Now = "store" /\ loader.source = "spi"

SInv ==
    /\ spi_tx_data_valid \in BOOLEAN /\ spi_clk_divider_valid \in BOOLEAN
    /\ spi_regs.rxne \in BOOLEAN
    /\ spi_tx_data_valid => master.state = "IDLE" /\ Untouched /\ Polling
    /\ master.state \in {"START", "ACTIVE"} => Untouched /\ Polling
    /\ master.rx_data_valid => Stopping /\ Held = 1 /\ ~spi_regs.rxne /\ Polling
    /\ spi_regs.rxne => Now \in {"spi_poll", "spi_get"}
    /\ spi_regs.rxne /\ Stopping => Held >= 2
    /\ Stopping => Polling \/ Now \in AfterPoll
    /\ Stopping /\ Now = "spi_get" => Held >= 2 + sw.gap
    /\ Stopping /\ Now \in {"spi_write", "store"} => Held >= 2 + sw.pace + sw.gap
    /\ master.state # "IDLE" => target = SpiDivider /\ ~spi_clk_divider_valid
    /\ spi_clk_divider_valid => spi_regs.cdr = SpiDivider /\ Now = "spi_write"
    /\ Configured => spi_clk_divider_valid \/ target = SpiDivider

(* Each load function is at work on its own source.                        *)
OpsInv ==
    /\ Now \in UartOps => loader.source = "uart"
    /\ Now \in SpiOps \cup {"spi_divider"} => loader.source = "spi"
    /\ Now = "store" => loader.source \in {"spi", "uart"}

IInv == SwOK /\ LoaderOK /\ HInv /\ SInv /\ OpsInv

(* A cycle in which nothing is written to tdr or cdr and rdr is not read.  *)
Plain(port, access) ==
    port = "spi" => \/ access = Spim!ReadReg("sr")
                    \/ \E fields : access = Spim!WriteReg("cr", fields)

(* What any cycle of the bootloader does to the SPI hardware.              *)
LEMMA SpiHardware ==
    ASSUME HInv, SInv, NEW port, NEW access, Bus(port, access)
    PROVE  /\ HInv' /\ MasterMoves
           /\ target' = IF spi_clk_divider_valid THEN spi_regs.cdr ELSE target
<1>1. /\ Spim!MasterCycle(flash.miso)
      /\ Spim!SckGenerator!Cycle(master.en, spi_clk_divider_valid, spi_regs.cdr)
  BY DEF Bus, Spim!SpiCycle
<1>2. spi_clk_divider_valid =>
          master.state = "IDLE" /\ spi_regs.cdr \in 0 .. MaxDivider
  BY LoaderAssumption DEF SInv
<1>3. spi_clk_divider_valid \in BOOLEAN
  BY DEF SInv
<1> QED
  BY <1>1, <1>2, <1>3, MasterCycle

(* A cycle whose access does not touch the SPI leaves no command behind    *)
(* and clears nothing.                                                     *)
LEMMA Plainly ==
    ASSUME HInv, SInv, NEW port, NEW access, Bus(port, access), Plain(port, access)
    PROVE  /\ spi_tx_data_valid' = FALSE /\ spi_clk_divider_valid' = FALSE
           /\ spi_regs'.rxne = IF master.rx_data_valid THEN TRUE ELSE spi_regs.rxne
<1> DEFINE a == IF port = "spi" THEN access ELSE Spim!None
<1>1. /\ spi_tx_data_valid' = Spim!IsWritten(a, "tdr")
      /\ spi_clk_divider_valid' = Spim!IsWritten(a, "cdr")
      /\ spi_regs'.rxne = Spim!Rxne(a)
  BY DEF Bus, Spim!SpiCycle
<1>2. \/ a.we = FALSE /\ a.reg \in {"none", "sr"}
      \/ a.we = TRUE /\ a.reg = "cr"
  BY DEF Plain, Spim!None, Spim!ReadReg, Spim!WriteReg
<1> HIDE DEF a
<1> QED
  BY <1>1, <1>2 DEF Spim!IsWritten, Spim!Rxne, Spim!Written

-----------------------------------------------------------------------------
(* The steps.                                                              *)
LEMMA PacesAreLong ==
    ASSUME NEW pace \in Paces
    PROVE  pace \in Nat /\ SpiDivider \in Nat /\ SpiDivider <= 2 * pace
<1>1. pace \in Nat
  BY LoaderAssumption
<1>2. SpiDivider \in Nat
  BY LoaderAssumption
<1>3. SpiDivider <= 2 * pace
  BY LoaderAssumption
<1> QED
  BY <1>1, <1>2, <1>3

(* Two accesses after the answer was seen the STOP is over. *)
LEMMA AtRest ==
    ASSUME IInv, NEW op \in {"spi_write", "store"}, At(op)
    PROVE  master.state = "IDLE" /\ ~spi_tx_data_valid /\ ~spi_regs.rxne
<1>1. Now = op /\ sw.gap = sw.pace
  BY DEF At, Gap
<1>2. sw.pace \in Nat /\ SpiDivider \in Nat /\ SpiDivider <= 2 * sw.pace
  <2>1. sw.pace \in Paces
    BY DEF IInv, SwOK
  <2> QED
    BY <2>1, PacesAreLong
<1>3. master.state \in {"IDLE", "STOP"} /\ ~spi_tx_data_valid /\ ~spi_regs.rxne
  BY <1>1 DEF IInv, HInv, MasterOK, SInv, Polling
<1>4. ASSUME Stopping PROVE FALSE
  <2>1. Held >= 2 + sw.pace + sw.gap /\ target = SpiDivider
    BY <1>1, <1>4 DEF IInv, SInv, Stopping
  <2>2. Held <= target + 1
    BY DEF IInv, HInv, ClockOK, Held, target
  <2>3. Held \in Nat
    BY <2>1, <1>2 DEF IInv, HInv, ClockOK, Held, target
  <2> QED
    BY <1>1, <1>2, <2>1, <2>2, <2>3
<1> QED
  BY <1>3, <1>4 DEF Stopping

(* Outside the driver of the SPI the master is idle and nothing waits to   *)
(* be read.                                                                *)
LEMMA BusyOnlyPolled ==
    ASSUME IInv, Now \notin SpiOps, Now # "store"
    PROVE  master.state = "IDLE" /\ ~spi_tx_data_valid /\ ~spi_regs.rxne
BY DEF IInv, HInv, MasterOK, SInv, Polling, Stopping, SpiOps, AfterPoll

(* A step that has nothing to do with a master at rest. *)
LEMMA QuietStep ==
    ASSUME IInv, master.state = "IDLE", ~spi_tx_data_valid, ~spi_regs.rxne,
           NEW port, NEW access, Bus(port, access), Plain(port, access),
           SwOK', LoaderOK', OpsInv',
           Now' \notin SpiOps, Now' = "store" => loader'.source # "spi"
    PROVE  IInv'
<1>1. /\ HInv' /\ MasterMoves
      /\ spi_tx_data_valid' = FALSE /\ spi_clk_divider_valid' = FALSE
      /\ spi_regs'.rxne = IF master.rx_data_valid THEN TRUE ELSE spi_regs.rxne
  BY SpiHardware, Plainly DEF IInv
<1>2. ~master.rx_data_valid /\ spi_regs.rxne = FALSE
  BY DEF IInv, SInv, Stopping
<1>3. master'.state = "IDLE" /\ ~master'.rx_data_valid
  BY <1>1 DEF MasterMoves
<1>4. SInv'
  <2>1. ~Configured' /\ ~Stopping' /\ spi_regs'.rxne = FALSE
    BY <1>1, <1>2, <1>3 DEF Configured, Stopping
  <2> QED
    BY <1>1, <1>3, <2>1 DEF SInv
<1> QED
  BY <1>1, <1>4 DEF IInv

(* One lemma for each action: here a cycle without an access.              *)
LEMMA WaitHolds ==
    ASSUME IInv, Wait
    PROVE  IInv'
<1>1. /\ SwOK' /\ Now' = Now /\ sw'.gap = sw.gap + 1 /\ sw'.pace = sw.pace
      /\ loader' = loader
  BY Waiting DEF Wait, IInv
<1>2. Bus("none", Spim!None) /\ Plain("none", Spim!None)
  BY DEF Wait, NoAccess, Plain
<1>3. /\ HInv' /\ MasterMoves
      /\ target' = IF spi_clk_divider_valid THEN spi_regs.cdr ELSE target
      /\ spi_tx_data_valid' = FALSE /\ spi_clk_divider_valid' = FALSE
      /\ spi_regs'.rxne = IF master.rx_data_valid THEN TRUE ELSE spi_regs.rxne
  BY <1>2, SpiHardware, Plainly DEF IInv
<1>4. LoaderOK' /\ OpsInv'
  BY <1>1 DEF IInv, LoaderOK, OpsInv
<1>5. sw.gap \in Nat /\ sw.pace \in Nat
  BY LoaderAssumption DEF IInv, SwOK
<1>6. Held \in Nat /\ (Stopping => Held >= 1)
  BY DEF IInv, HInv, ClockOK, MasterOK, Held, target, Stopping
<1>7. SInv'
  <2>1. Configured' => spi_clk_divider_valid' \/ target' = SpiDivider
    BY <1>1, <1>3 DEF IInv, SInv, Configured
  <2>2. master'.state # "IDLE" => target' = SpiDivider
    BY <1>3 DEF IInv, SInv, MasterMoves, Configured, Polling, SpiOps
  <2>3. /\ spi_regs'.rxne \in BOOLEAN
        /\ master'.state \in {"START", "ACTIVE"} => Untouched' /\ Polling'
        /\ master'.rx_data_valid => Stopping' /\ Held' = 1 /\ ~spi_regs'.rxne /\ Polling'
        /\ spi_regs'.rxne => Now' \in {"spi_poll", "spi_get"}
        /\ Stopping' => Polling' \/ Now' \in AfterPoll
    BY <1>1, <1>3 DEF IInv, SInv, MasterMoves, Stopping, Polling, Untouched
  <2>4. /\ spi_regs'.rxne /\ Stopping' => Held' >= 2
        /\ Stopping' /\ Now' = "spi_get" => Held' >= 2 + sw'.gap
        /\ Stopping' /\ Now' \in {"spi_write", "store"} =>
               Held' >= 2 + sw'.pace + sw'.gap
    BY <1>1, <1>3, <1>5, <1>6
       DEF IInv, SInv, MasterMoves, Stopping, Polling, Untouched
  <2> QED
    BY <1>3, <2>1, <2>2, <2>3, <2>4 DEF SInv
<1> QED
  BY <1>1, <1>3, <1>4, <1>7 DEF IInv

(* Going to one operation, and going on with main. *)
LEMMA GoesTo ==
    ASSUME SwOK, Now # "jump", NEW op \in Ops, Do(<<op>>)
    PROVE  SwOK' /\ sw'.gap = 1 /\ sw'.pace = sw.pace /\ Now' = op
<1>1. sw.todo # <<>>
  BY DEF Now
<1>2. /\ <<op>> \in Seq(Ops) /\ Len(<<op>>) = 1 /\ <<op>> # <<>>
      /\ Head(<<op>>) = op
  OBVIOUS
<1>3. \A k \in 2 .. Len(<<op>>) : <<op>>[k] \in MainOps
  BY <1>2
<1>4. sw' = [sw EXCEPT !.todo = <<op>> \o Tail(@), !.gap = 1, !.mtvec = sw.mtvec]
  BY DEF Do, SwOK, IsSw
<1> QED
  BY <1>1, <1>2, <1>3, <1>4, Doing

(* An operation is replaced by others of main: the sequence stays one that *)
(* ends in the jump.                                                       *)
LEMMA GoesOn ==
    ASSUME SwOK, Now # "jump", NEW ops \in Seq(MainOps), NEW mtvec,
           sw' = [sw EXCEPT !.todo = ops \o Tail(@), !.gap = 1, !.mtvec = mtvec]
    PROVE  SwOK' /\ Now' \in MainOps \cup {"jump"}
<1>1. sw.todo # <<>>
  BY DEF Now
<1>2. MainOps \subseteq Ops
  BY DEF Ops
<1>3. ops \in Seq(Ops) /\ \A k \in 2 .. Len(ops) : ops[k] \in MainOps
  BY <1>2, SeqMonotonic, ElementOfSeq, LenProperties
<1>4. ops # <<>> => Head(ops) \in MainOps
  BY HeadTailProperties
<1> QED
  BY <1>1, <1>3, <1>4, Doing

(* The same for Do, which leaves the trap vector alone.                    *)
LEMMA DoesGoOn ==
    ASSUME SwOK, Now # "jump", NEW ops \in Seq(MainOps), Do(ops)
    PROVE  SwOK' /\ Now' \in MainOps \cup {"jump"}
<1>1. sw' = [sw EXCEPT !.todo = ops \o Tail(@), !.gap = 1, !.mtvec = sw.mtvec]
  BY DEF Do, SwOK, IsSw
<1> QED
  BY <1>1, GoesOn

(* Spi::Spi writes the divider while the master is idle.                   *)
LEMMA SetSpiDividerHolds ==
    ASSUME IInv, SetSpiDivider
    PROVE  IInv'
<1> DEFINE access == Spim!WriteReg("cdr", [cdr |-> SpiDivider])
<1>1. Now = "spi_divider" /\ loader' = loader
  BY DEF SetSpiDivider, At
<1>2. SwOK' /\ Now' = "spi_write"
  BY <1>1, GoesTo DEF IInv, Ops, SpiOps, SetSpiDivider
<1>3. Bus("spi", access)
  BY DEF SetSpiDivider
<1>4. /\ HInv' /\ MasterMoves
      /\ master.state = "IDLE" /\ ~spi_tx_data_valid /\ ~spi_regs.rxne
  BY <1>1, <1>3, SpiHardware, BusyOnlyPolled DEF IInv, SpiOps
<1>5. /\ spi_tx_data_valid' = FALSE /\ spi_clk_divider_valid' = TRUE
      /\ spi_regs'.rxne = spi_regs.rxne /\ spi_regs'.cdr = SpiDivider
  BY <1>1, <1>3, <1>4 DEF IInv, SInv, Stopping, Bus, Spim!SpiCycle, Spim!IsWritten,
     Spim!Rxne, Spim!Written, Spim!WriteReg
<1>6. master'.state = "IDLE" /\ ~master'.rx_data_valid
  BY <1>4 DEF MasterMoves
<1>7. SInv'
  BY <1>2, <1>4, <1>5, <1>6 DEF IInv, SInv, Stopping
<1>8. LoaderOK' /\ OpsInv'
  BY <1>1, <1>2 DEF IInv, LoaderOK, OpsInv, UartOps, SpiOps
<1> QED
  BY <1>2, <1>4, <1>7, <1>8 DEF IInv

(* Spi::write starts a transfer of an idle master.                         *)
LEMMA WriteSpiHolds ==
    ASSUME IInv, WriteSpi
    PROVE  IInv'
<1> DEFINE access == Spim!WriteReg("tdr", [tdr |-> Spim!Zeros])
<1>1. Now = "spi_write" /\ loader' = loader /\ At("spi_write")
  BY DEF WriteSpi, At
<1>2. SwOK' /\ Now' = "spi_poll"
  BY <1>1, GoesTo DEF IInv, Ops, SpiOps, WriteSpi
<1>3. Bus("spi", access)
  BY DEF WriteSpi
<1>4. /\ HInv' /\ MasterMoves
      /\ target' = IF spi_clk_divider_valid THEN spi_regs.cdr ELSE target
      /\ master.state = "IDLE" /\ ~spi_tx_data_valid /\ ~spi_regs.rxne
  BY <1>1, <1>3, SpiHardware, AtRest DEF IInv
<1>5. /\ spi_tx_data_valid' = TRUE /\ spi_clk_divider_valid' = FALSE
      /\ spi_regs'.rxne = spi_regs.rxne
  BY <1>1, <1>3, <1>4 DEF IInv, SInv, Stopping, Polling, Bus, Spim!SpiCycle,
     Spim!IsWritten, Spim!Rxne, Spim!Written, Spim!WriteReg
<1>6. master'.state = "IDLE" /\ ~master'.rx_data_valid
  BY <1>4 DEF MasterMoves
<1>7. target' = SpiDivider
  BY <1>1, <1>4 DEF IInv, SInv, Configured, SpiOps
<1>8. SInv'
  BY <1>2, <1>4, <1>5, <1>6, <1>7
     DEF IInv, SInv, Stopping, Untouched, Polling, Configured
<1>9. LoaderOK' /\ OpsInv'
  BY <1>1, <1>2 DEF IInv, LoaderOK, OpsInv, UartOps, SpiOps
<1> QED
  BY <1>2, <1>4, <1>8, <1>9 DEF IInv

(* Spi::write_and_read polls until the byte has come.                      *)
LEMMA PollSpiHolds ==
    ASSUME IInv, PollSpi
    PROVE  IInv'
<1> DEFINE next == IF spi_regs.rxne THEN "spi_get" ELSE "spi_poll"
<1>1. Now = "spi_poll" /\ loader' = loader
  BY DEF PollSpi, At
<1>2. Do(<<next>>) /\ next \in Ops
  BY DEF PollSpi, Ops, SpiOps
<1>3. SwOK' /\ Now' = next /\ sw'.gap = 1 /\ sw'.pace = sw.pace
  BY <1>1, <1>2, GoesTo DEF IInv
<1>4. /\ HInv' /\ MasterMoves
      /\ target' = IF spi_clk_divider_valid THEN spi_regs.cdr ELSE target
      /\ spi_tx_data_valid' = FALSE /\ spi_clk_divider_valid' = FALSE
      /\ spi_regs'.rxne = IF master.rx_data_valid THEN TRUE ELSE spi_regs.rxne
  BY SpiHardware, Plainly DEF IInv, PollSpi, Plain
<1>5. Held \in Nat /\ (Stopping => Held >= 1)
  BY DEF IInv, HInv, ClockOK, MasterOK, Held, target, Stopping
<1>6. target' = SpiDivider
  BY <1>1, <1>4 DEF IInv, SInv, Configured, SpiOps
<1>7. CASE spi_regs.rxne
  <2>1. next = "spi_get" /\ ~spi_tx_data_valid /\ ~master.rx_data_valid
        /\ master.state \in {"IDLE", "STOP"} /\ (Stopping => Held >= 2)
    BY <1>7 DEF IInv, HInv, MasterOK, SInv, Untouched
  <2>2. /\ master'.state \in {"IDLE", "STOP"} /\ ~master'.rx_data_valid
        /\ Stopping' => Held' >= 3
    BY <1>4, <1>5, <2>1 DEF MasterMoves, Stopping
  <2> QED
    <3>1. Now' = "spi_get" /\ sw'.gap = 1 /\ spi_regs'.rxne = TRUE
      BY <1>3, <1>4, <1>7, <2>1 DEF IInv, SInv
    <3>2. Stopping' => Held' >= 2 /\ Held' >= 2 + sw'.gap
      <4>1. Held' \in Nat
        BY <1>4 DEF HInv, ClockOK, Held, target
      <4> QED
        BY <2>2, <3>1, <4>1
    <3>3. SInv'
      BY <1>4, <1>6, <2>2, <3>1, <3>2 DEF SInv, Stopping, AfterPoll
    <3>4. LoaderOK' /\ OpsInv'
      BY <1>1, <3>1 DEF IInv, LoaderOK, OpsInv, UartOps, SpiOps
    <3> QED
      BY <1>3, <1>4, <3>3, <3>4 DEF IInv
<1>8. CASE ~spi_regs.rxne
  <2>1. Now' = "spi_poll"
    BY <1>3, <1>8
  <2>2. spi_regs'.rxne \in BOOLEAN /\ (spi_regs'.rxne <=> master.rx_data_valid)
    BY <1>4, <1>8 DEF IInv, SInv
  <2>3. /\ master.state \in {"START", "ACTIVE"} => ~master.rx_data_valid
        /\ master.rx_data_valid => Stopping /\ Held = 1
    BY DEF IInv, SInv, Untouched
  <2>4. /\ master'.state \in {"START", "ACTIVE"} => Untouched'
        /\ master'.rx_data_valid => Stopping' /\ Held' = 1 /\ ~spi_regs'.rxne
        /\ spi_regs'.rxne /\ Stopping' => Held' >= 2
    <3>1. CASE master.rx_data_valid
      BY <1>4, <2>2, <2>3, <3>1 DEF MasterMoves, Stopping, Untouched
    <3>2. CASE ~master.rx_data_valid
      BY <1>4, <2>2, <3>2 DEF MasterMoves, Stopping, Untouched
    <3> QED
      BY <3>1, <3>2
  <2>5. SInv'
    BY <1>4, <1>6, <2>1, <2>2, <2>4 DEF SInv, Polling
  <2>6. LoaderOK' /\ OpsInv'
    BY <1>1, <2>1 DEF IInv, LoaderOK, OpsInv, UartOps, SpiOps
  <2> QED
    BY <1>3, <1>4, <2>5, <2>6 DEF IInv
<1> QED
  BY <1>7, <1>8

(* The loader after its bytes were changed, field by field.                *)
LEMMA TakenFields ==
    ASSUME LoaderOK, NEW bytes
    PROVE  [loader EXCEPT !.bytes = bytes] =
               [source |-> loader.source, i |-> loader.i, bytes |-> bytes,
                low |-> loader.low, timeout |-> loader.timeout,
                began |-> loader.began, result |-> loader.result]
  BY DEF LoaderOK

(* The read of rdr takes the byte, and the SPI is idle again.              *)
LEMMA GetSpiHolds ==
    ASSUME IInv, GetSpi
    PROVE  IInv'
<1> DEFINE next == IF Len(loader.bytes) = 3 THEN "store" ELSE "spi_write"
<1>1. Now = "spi_get" /\ sw.gap = sw.pace
  BY DEF GetSpi, At, Gap
<1>2. Do(<<next>>) /\ next \in Ops
  BY DEF GetSpi, AfterByte, Ops, SpiOps
<1>3. SwOK' /\ Now' = next /\ sw'.gap = 1 /\ sw'.pace = sw.pace
  BY <1>1, <1>2, GoesTo DEF IInv
<1>4. LoaderOK' /\ loader'.source = loader.source
  <2>1. PICK bytes : loader' = [loader EXCEPT !.bytes = bytes]
    BY DEF GetSpi, Taken
  <2> QED
    BY <2>1, TakenFields DEF IInv, LoaderOK
<1>5. Bus("spi", Spim!ReadReg("rdr"))
  BY DEF GetSpi
<1>6. /\ HInv' /\ MasterMoves
      /\ target' = IF spi_clk_divider_valid THEN spi_regs.cdr ELSE target
  BY <1>5, SpiHardware DEF IInv
<1>7. /\ ~master.rx_data_valid /\ ~spi_tx_data_valid
      /\ master.state \in {"IDLE", "STOP"}
      /\ Stopping => Held >= 2 + sw.pace
  BY <1>1 DEF IInv, HInv, MasterOK, SInv, Polling
<1>8. /\ spi_tx_data_valid' = FALSE /\ spi_clk_divider_valid' = FALSE
      /\ spi_regs'.rxne = FALSE
  BY <1>5, <1>7 DEF Bus, Spim!SpiCycle, Spim!IsWritten, Spim!Rxne, Spim!ReadReg
<1>9. target' = SpiDivider
  BY <1>1, <1>6 DEF IInv, SInv, Configured, SpiOps
<1>10. sw.pace \in Nat /\ Held \in Nat
  BY PacesAreLong DEF IInv, SwOK, HInv, ClockOK, Held, target
<1>11. /\ master'.state \in {"IDLE", "STOP"} /\ ~master'.rx_data_valid
       /\ Stopping' => Held' >= 2 + sw'.pace + sw'.gap
  BY <1>3, <1>6, <1>7, <1>10 DEF MasterMoves, Stopping
<1>12. SInv'
  BY <1>3, <1>8, <1>9, <1>11 DEF SInv, Stopping, AfterPoll
<1>13. OpsInv'
  BY <1>1, <1>3, <1>4 DEF IInv, OpsInv, UartOps, SpiOps
<1> QED
  BY <1>3, <1>4, <1>6, <1>12, <1>13 DEF IInv

(* A whole word goes to the code RAM; the next byte is asked for.          *)
LEMMA StoreHolds ==
    ASSUME IInv, Store
    PROVE  IInv'
<1>1. /\ Now = "store" /\ NoAccess
      /\ master.state = "IDLE" /\ ~spi_tx_data_valid /\ ~spi_regs.rxne
  BY AtRest DEF Store, At
<1>2. LoaderOK' /\ loader'.source = loader.source
  BY DEF IInv, Store, LoaderOK
<1>3. Bus("none", Spim!None) /\ Plain("none", Spim!None)
  BY <1>1 DEF NoAccess, Plain
<1>4. CASE Do(<<>>)
  <2>1. SwOK' /\ Now' \in MainOps \cup {"jump"}
    BY <1>1, <1>4, DoesGoOn, EmptySeq DEF IInv
  <2>2. OpsInv' /\ Now' \notin SpiOps /\ Now' # "store"
    BY <2>1 DEF OpsInv, MainOps, UartOps, SpiOps
  <2> QED
    BY <1>1, <1>2, <1>3, <2>1, <2>2, QuietStep
<1>5. CASE loader.source = "spi" /\ Do(<<"spi_write">>)
  <2>1. SwOK' /\ Now' = "spi_write"
    BY <1>1, <1>5, GoesTo DEF IInv, Ops, SpiOps
  <2>2. /\ HInv' /\ MasterMoves
        /\ target' = IF spi_clk_divider_valid THEN spi_regs.cdr ELSE target
        /\ spi_tx_data_valid' = FALSE /\ spi_clk_divider_valid' = FALSE
        /\ spi_regs'.rxne = IF master.rx_data_valid THEN TRUE ELSE spi_regs.rxne
    BY <1>3, SpiHardware, Plainly DEF IInv
  <2>3. /\ target' = SpiDivider /\ ~master.rx_data_valid
        /\ spi_regs'.rxne = FALSE
    BY <1>1, <1>5, <2>2 DEF IInv, SInv, Configured, Stopping
  <2>4. master'.state = "IDLE" /\ ~master'.rx_data_valid
    BY <1>1, <2>2 DEF MasterMoves
  <2>5. SInv'
    BY <2>1, <2>2, <2>3, <2>4 DEF SInv, Stopping
  <2>6. OpsInv'
    BY <1>2, <1>5, <2>1 DEF OpsInv, UartOps
  <2> QED
    BY <1>2, <2>1, <2>2, <2>5, <2>6 DEF IInv
<1>6. CASE loader.source # "spi" /\ Do(<<"uart_poll">>)
  <2>1. SwOK' /\ Now' = "uart_poll"
    BY <1>1, <1>6, GoesTo DEF IInv, Ops, UartOps
  <2>2. OpsInv' /\ Now' \notin SpiOps
    BY <1>1, <1>2, <1>6, <2>1 DEF IInv, OpsInv, SpiOps
  <2> QED
    BY <1>1, <1>2, <1>3, <2>1, <2>2, QuietStep
<1> QED
  BY <1>4, <1>5, <1>6 DEF Store, Return

(* The other steps leave the master alone. *)
LEMMA QuietGoesTo ==
    ASSUME IInv, Now \notin SpiOps \cup {"store", "jump"},
           NEW port, NEW access, Bus(port, access), Plain(port, access),
           NEW op \in Ops \ SpiOps, Do(<<op>>), LoaderOK',
           op = "spi_divider" => loader'.source = "spi",
           op \in UartOps \cup {"store"} => loader'.source = "uart"
    PROVE  IInv'
<1>1. SwOK' /\ Now' = op
  BY GoesTo DEF IInv
<1>2. master.state = "IDLE" /\ ~spi_tx_data_valid /\ ~spi_regs.rxne
  BY BusyOnlyPolled
<1>3. OpsInv'
  BY <1>1 DEF OpsInv
<1> QED
  BY <1>1, <1>2, <1>3, QuietStep

(* A step that does not touch the SPI and stays in main keeps the          *)
(* invariant.                                                              *)
LEMMA QuietGoesOn ==
    ASSUME IInv, Now \notin SpiOps \cup {"store", "jump"},
           NEW port, NEW access, Bus(port, access), Plain(port, access),
           LoaderOK', SwOK', Now' \in MainOps \cup {"jump"}
    PROVE  IInv'
<1>1. master.state = "IDLE" /\ ~spi_tx_data_valid /\ ~spi_regs.rxne
  BY BusyOnlyPolled
<1>2. Now' \notin SpiOps \cup UartOps \cup {"spi_divider", "store"}
  BY DEF MainOps, SpiOps, UartOps
<1>3. OpsInv'
  BY <1>2 DEF OpsInv
<1> QED
  BY <1>1, <1>2, <1>3, QuietStep

(* The loader after one of its fields was changed, field by field.         *)
LEMMA LoaderFields ==
    ASSUME LoaderOK, NEW a
    PROVE  /\ [loader EXCEPT !.source = a] =
                  [source |-> a, i |-> loader.i, bytes |-> loader.bytes,
                   low |-> loader.low, timeout |-> loader.timeout,
                   began |-> loader.began, result |-> loader.result]
           /\ [loader EXCEPT !.timeout = a] =
                  [source |-> loader.source, i |-> loader.i, bytes |-> loader.bytes,
                   low |-> loader.low, timeout |-> a,
                   began |-> loader.began, result |-> loader.result]
           /\ [loader EXCEPT !.result = a] =
                  [source |-> loader.source, i |-> loader.i, bytes |-> loader.bytes,
                   low |-> loader.low, timeout |-> loader.timeout,
                   began |-> loader.began, result |-> a]
<1>1. [loader EXCEPT !.source = a] =
          [source |-> a, i |-> loader.i, bytes |-> loader.bytes,
           low |-> loader.low, timeout |-> loader.timeout,
           began |-> loader.began, result |-> loader.result]
  BY DEF LoaderOK
<1>2. [loader EXCEPT !.timeout = a] =
          [source |-> loader.source, i |-> loader.i, bytes |-> loader.bytes,
           low |-> loader.low, timeout |-> a,
           began |-> loader.began, result |-> loader.result]
  BY DEF LoaderOK
<1>3. [loader EXCEPT !.result = a] =
          [source |-> loader.source, i |-> loader.i, bytes |-> loader.bytes,
           low |-> loader.low, timeout |-> loader.timeout,
           began |-> loader.began, result |-> a]
  BY DEF LoaderOK
<1> QED
  BY <1>1, <1>2, <1>3

(* The loader after the start of a load was noted, field by field.         *)
LEMMA BegunFields ==
    ASSUME LoaderOK, NEW low, NEW source, NEW began
    PROVE  [loader EXCEPT !.low = low, !.source = source, !.began = began] =
               [source |-> source, i |-> loader.i, bytes |-> loader.bytes,
                low |-> low, timeout |-> loader.timeout,
                began |-> began, result |-> loader.result]
<1> DEFINE one == [loader EXCEPT !.low = low]
           two == [one EXCEPT !.source = source]
<1>1. one = [source |-> loader.source, i |-> loader.i, bytes |-> loader.bytes,
             low |-> low, timeout |-> loader.timeout,
             began |-> loader.began, result |-> loader.result]
  BY DEF LoaderOK
<1>2. two = [source |-> source, i |-> loader.i, bytes |-> loader.bytes,
             low |-> low, timeout |-> loader.timeout,
             began |-> loader.began, result |-> loader.result]
  <2> HIDE DEF one
  <2> QED
    BY <1>1
<1>3. [two EXCEPT !.began = began] =
          [source |-> source, i |-> loader.i, bytes |-> loader.bytes,
           low |-> low, timeout |-> loader.timeout,
           began |-> began, result |-> loader.result]
  <2> HIDE DEF two
  <2> QED
    BY <1>2
<1>4. [loader EXCEPT !.low = low, !.source = source, !.began = began] =
          [two EXCEPT !.began = began]
  OBVIOUS
<1> QED
  BY <1>3, <1>4

(* Spi::Spi writes cpha and cpol.                                          *)
LEMMA SetPhaseHolds ==
    ASSUME IInv, SetPhase
    PROVE  IInv'
<1> DEFINE fields == [cpol |-> spi_regs.cpol, cpha |-> TRUE]
<1>1. Now = "spi" /\ Now \notin SpiOps \cup {"store", "jump"}
  BY DEF SetPhase, At, SpiOps
<1>2. Bus("spi", Spim!WriteReg("cr", fields))
  BY DEF SetPhase
<1>3. Plain("spi", Spim!WriteReg("cr", fields))
  BY DEF Plain
<1>4. LoaderOK' /\ loader'.source = "spi"
  BY LoaderFields DEF IInv, SetPhase, LoaderOK
<1>5. Do(<<"spi_divider">>) /\ "spi_divider" \in Ops \ SpiOps
      /\ "spi_divider" \notin UartOps \cup {"store"}
  BY DEF SetPhase, Ops, SpiOps, UartOps
<1> HIDE DEF fields
<1> QED
  BY <1>1, <1>2, <1>3, <1>4, <1>5, QuietGoesTo

(* The lower half of mcycle is read.                                       *)
LEMMA ReadLowHolds ==
    ASSUME IInv, NEW op \in {"uart", "test_low"}, NEW next \in {"timeout_high", "test_high"},
           ReadLow(op, next)
    PROVE  IInv'
<1>1. Now = op /\ Now \notin SpiOps \cup {"store", "jump"}
  BY DEF ReadLow, At, SpiOps
<1>2. Bus("none", Spim!None) /\ Plain("none", Spim!None)
  BY DEF ReadLow, NoAccess, Plain
<1>3. LoaderOK' /\ loader'.source = "uart"
  <2>1. PICK low, began :
            loader' = [loader EXCEPT !.low = low, !.source = "uart", !.began = began]
    BY DEF ReadLow
  <2> QED
    BY <2>1, BegunFields DEF IInv, LoaderOK
<1>4. Do(<<next>>) /\ next \in Ops \ SpiOps /\ next # "spi_divider"
  BY DEF ReadLow, Ops, SpiOps, UartOps
<1> QED
  BY <1>1, <1>2, <1>3, <1>4, QuietGoesTo

(* The steps of a load through the UART.                                   *)
LEMMA UartStepHolds ==
    ASSUME IInv, SetTimeout \/ PollUart \/ TestTimeout \/ AskAgain \/ GetUart
    PROVE  IInv'
<1>1. Now \in UartOps /\ Now \notin SpiOps \cup {"store", "jump"}
      /\ loader.source = "uart"
  BY DEF IInv, OpsInv, SetTimeout, PollUart, TestTimeout, AskAgain, GetUart, At,
     SpiOps, UartOps
<1>2. ASSUME NEW op \in {"timeout_high", "uart_poll", "test_low", "test_high",
                         "uart_ask", "uart_get", "store"},
             NEW port \in {"none", "uart"}, NEW access, Bus(port, access),
             Do(<<op>>), LoaderOK', loader'.source = "uart"
      PROVE  IInv'
  <2>1. op \in Ops \ SpiOps /\ op # "spi_divider"
    BY <1>2 DEF Ops, SpiOps, UartOps
  <2>2. Plain(port, access)
    BY <1>2 DEF Plain
  <2> QED
    BY <1>1, <1>2, <2>1, <2>2, QuietGoesTo
<1>3. CASE SetTimeout
  <2>1. Bus("none", Spim!None) /\ Do(<<"uart_poll">>)
    BY <1>3 DEF SetTimeout, NoAccess
  <2>2. LoaderOK' /\ loader'.source = "uart"
    BY <1>1, <1>3, LoaderFields DEF IInv, SetTimeout, LoaderOK
  <2> QED
    BY <1>2, <2>1, <2>2
<1>4. CASE PollUart
  <2>1. Bus("uart", Uartm!ReadReg("sr")) /\ (Do(<<"uart_ask">>) \/ Do(<<"test_low">>))
    BY <1>4 DEF PollUart
  <2>2. LoaderOK' /\ loader'.source = "uart"
    BY <1>1, <1>4 DEF IInv, PollUart, LoaderOK
  <2> QED
    BY <1>2, <2>1, <2>2
<1>5. CASE TestTimeout
  <2>1. Bus("none", Spim!None) /\ (Do(<<"uart_poll">>) \/ Do(<<"uart_ask">>))
    BY <1>5 DEF TestTimeout, NoAccess
  <2>2. LoaderOK' /\ loader'.source = "uart"
    BY <1>1, <1>5 DEF IInv, TestTimeout, LoaderOK
  <2> QED
    BY <1>2, <2>1, <2>2
<1>6. CASE AskAgain
  <2>1. Bus("uart", Uartm!ReadReg("sr")) /\ (Do(<<"uart_get">>) \/ Do(<<>>))
    BY <1>6 DEF AskAgain
  <2>2. LoaderOK' /\ loader'.source = "uart"
    BY <1>1, <1>6, LoaderFields DEF IInv, AskAgain, LoaderOK
  <2>3. CASE Do(<<>>)
    <3>1. SwOK' /\ Now' \in MainOps \cup {"jump"}
      BY <1>1, <2>3, DoesGoOn, EmptySeq DEF IInv
    <3>2. Plain("uart", Uartm!ReadReg("sr"))
      BY DEF Plain
    <3> QED
      BY <1>1, <2>1, <2>2, <3>1, <3>2, QuietGoesOn
  <2> QED
    BY <1>2, <2>1, <2>2, <2>3
<1>7. CASE GetUart
  <2>1. Bus("uart", Uartm!ReadReg("rdr")) /\ (Do(<<"store">>) \/ Do(<<"uart_poll">>))
    BY <1>7 DEF GetUart, AfterByte
  <2>2. LoaderOK' /\ loader'.source = "uart"
    <3>1. PICK bytes : loader' = [loader EXCEPT !.bytes = bytes]
      BY <1>7 DEF GetUart, Taken
    <3> QED
      BY <1>1, <3>1, TakenFields DEF IInv, LoaderOK
  <2> QED
    BY <1>2, <2>1, <2>2
<1> QED
  BY <1>3, <1>4, <1>5, <1>6, <1>7

-----------------------------------------------------------------------------
(* main. *)
LEMMA MainIsMade ==
    /\ Say \in Seq(MainOps) /\ Light \in Seq(MainOps) /\ Dark \in Seq(MainOps)
    /\ Blink \in Seq(MainOps) /\ Main \in Seq(MainOps)
    /\ CodeloadStep \in Seq(MainOps) /\ ThroughUart \in Seq(MainOps)
    /\ ThroughSpi \in Seq(MainOps) /\ Failure \in Seq(MainOps)
    /\ Success \o End \in Seq(MainOps) /\ Say \o End \in Seq(MainOps)
    /\ ThroughSpi \o Success \o End \in Seq(MainOps)
<1> DEFINE S == Seq(MainOps)
<1>1. \A s, t \in S : s \o t \in S
  BY ConcatProperties
<1>2. Say \in S /\ Light \in S /\ Dark \in S /\ CodeloadStep \in S
  BY DEF Say, Light, Dark, CodeloadStep, MainOps
<1>3. /\ <<"delay">> \in S /\ <<"skip">> \in S /\ <<"again">> \in S
      /\ <<"mtvec">> \in S /\ <<"spi">> \in S /\ <<"uart", "uart_result">> \in S
  BY DEF MainOps
<1> HIDE DEF S
<1>4. Blink \in S
  BY <1>1, <1>2, <1>3 DEF Blink
<1>5. Main \in S /\ Failure \in S /\ ThroughUart \in S /\ ThroughSpi \in S
  BY <1>1, <1>2, <1>3, <1>4 DEF Main, Failure, ThroughUart, ThroughSpi
<1>6. Success \in S /\ End \in S
  BY <1>1, <1>2, <1>3, <1>4 DEF Success, End
<1>7. Success \o End \in S /\ Say \o End \in S /\ ThroughSpi \o Success \o End \in S
  <2>1. Success \o End \in S /\ Say \o End \in S
    BY <1>1, <1>2, <1>6
  <2>2. ThroughSpi \o Success \in S
    BY <1>1, <1>5, <1>6
  <2> QED
    BY <1>1, <1>6, <2>1, <2>2
<1> QED
  BY <1>2, <1>4, <1>5, <1>7 DEF S

MainStep ==
    \/ SetUartDivider \/ EnableUart \/ SayByte \/ PollTransmitter \/ Skip
    \/ Source \/ CheckResult \/ SetDirection \/ SetStatusPin \/ ClearStatusPin
    \/ Delay \/ BlinkAgain \/ SetTrapVector

(* An access that leaves the flag of the UART's receiver alone. *)
UartPlain(port, access) ==
    port = "uart" => access.reg # "rdr" /\ ~(access.we /\ access.reg = "sr")

(* A step of main leads from one operation of main to the next and touches *)
(* the UART, the GPIO or nothing.                                          *)
LEMMA MainGoesOn ==
    ASSUME SwOK, MainStep
    PROVE  /\ Now \in MainOps /\ loader' = loader
           /\ SwOK' /\ Now' \in MainOps \cup {"jump"}
           /\ \E port \in {"none", "uart", "gpio"} : \E access :
                  Bus(port, access) /\ UartPlain(port, access)
<1>1. /\ Now \in MainOps /\ Now # "jump"
      /\ loader' = loader
  BY DEF MainStep, SetUartDivider, EnableUart, SayByte, UartWrite, PollTransmitter,
     Skip, Source, ReadPin, CheckResult, SetDirection, SetStatusPin, ClearStatusPin,
     GpioWrite, Delay, BlinkAgain, SetTrapVector, At, MainOps
<1>2. /\ UartPlain("none", Spim!None)
      /\ \A access : UartPlain("gpio", access)
      /\ UartPlain("uart", Uartm!ReadReg("sr"))
      /\ \A reg \in {"cdr", "cr", "tdr"} : \A fields : UartPlain("uart", Uartm!WriteReg(reg, fields))
  BY DEF UartPlain, Uartm!ReadReg, Uartm!WriteReg
<1>3. ASSUME NEW port \in {"none", "uart", "gpio"}, NEW access, Bus(port, access),
             UartPlain(port, access), NEW ops \in Seq(MainOps), Do(ops)
      PROVE  /\ SwOK' /\ Now' \in MainOps \cup {"jump"}
             /\ \E p \in {"none", "uart", "gpio"} : \E a : Bus(p, a) /\ UartPlain(p, a)
  BY <1>1, <1>3, DoesGoOn
<1>4. <<>> \in Seq(MainOps) /\ <<"said">> \in Seq(MainOps)
      /\ Blink \o <<"again">> \in Seq(MainOps)
  <2>1. <<"said">> \in Seq(MainOps) /\ <<"again">> \in Seq(MainOps)
    BY DEF MainOps
  <2> QED
    BY <2>1, MainIsMade, ConcatProperties, EmptySeq
<1>5. CASE SetUartDivider
  BY <1>1, <1>2, <1>3, <1>4, <1>5 DEF SetUartDivider, UartWrite
<1>6. CASE EnableUart
  BY <1>1, <1>2, <1>3, <1>6, MainIsMade DEF EnableUart, UartWrite
<1>7. CASE SayByte
  BY <1>1, <1>2, <1>3, <1>4, <1>7 DEF SayByte, UartWrite
<1>8. CASE PollTransmitter
  BY <1>1, <1>2, <1>3, <1>4, <1>8 DEF PollTransmitter
<1>9. CASE Skip
  BY <1>1, <1>2, <1>3, <1>9, MainIsMade DEF Skip, ReadPin
<1>10. CASE Source
  BY <1>1, <1>2, <1>3, <1>10, MainIsMade DEF Source, ReadPin
<1>11. CASE CheckResult
  BY <1>1, <1>2, <1>3, <1>11, MainIsMade DEF CheckResult, NoAccess
<1>12. CASE SetDirection
  BY <1>1, <1>2, <1>3, <1>4, <1>12 DEF SetDirection, GpioWrite, Return
<1>13. CASE SetStatusPin
  BY <1>1, <1>2, <1>3, <1>4, <1>13 DEF SetStatusPin, GpioWrite, Return
<1>14. CASE ClearStatusPin
  BY <1>1, <1>2, <1>3, <1>4, <1>14 DEF ClearStatusPin, GpioWrite, Return
<1>15. CASE Delay
  BY <1>1, <1>2, <1>3, <1>4, <1>15 DEF Delay, Return, NoAccess
<1>16. CASE BlinkAgain
  BY <1>1, <1>2, <1>3, <1>4, <1>16 DEF BlinkAgain, NoAccess
<1>17. CASE SetTrapVector
  <2>1. Bus("none", Spim!None)
    BY <1>17 DEF SetTrapVector, NoAccess
  <2>2. sw' = [sw EXCEPT !.todo = <<>> \o Tail(@), !.gap = 1, !.mtvec = "code_ram"]
    <3>1. sw.todo # <<>> /\ sw.todo \in Seq(Ops)
      BY <1>1 DEF SwOK, Now
    <3>2. Tail(sw.todo) \in Seq(Ops)
      BY <3>1, HeadTailProperties
    <3>3. <<>> \o Tail(sw.todo) = Tail(sw.todo)
      BY <3>2, ConcatEmptySeq
    <3> QED
      BY <1>17, <3>3 DEF SetTrapVector
  <2>3. SwOK' /\ Now' \in MainOps \cup {"jump"}
    BY <1>1, <1>4, <2>2, GoesOn
  <2> QED
    BY <1>1, <1>2, <2>1, <2>3
<1> QED
  BY <1>5, <1>6, <1>7, <1>8, <1>9, <1>10, <1>11, <1>12, <1>13, <1>14, <1>15, <1>16,
     <1>17 DEF MainStep

(* A step of main keeps the invariant.                                     *)
LEMMA MainStepHolds ==
    ASSUME IInv, MainStep
    PROVE  IInv'
<1>1. Now \in MainOps /\ SwOK' /\ Now' \in MainOps \cup {"jump"} /\ loader' = loader
  BY MainGoesOn DEF IInv
<1>p. PICK port \in {"none", "uart", "gpio"} : \E access : Bus(port, access)
  BY MainGoesOn DEF IInv
<1>2. PICK access : port \in {"none", "uart", "gpio"} /\ Bus(port, access)
  BY <1>p
<1>3. Plain(port, access) /\ LoaderOK' /\ Now \notin SpiOps \cup {"store", "jump"}
  BY <1>1, <1>2 DEF Plain, IInv, LoaderOK, MainOps, SpiOps
<1> QED
  BY <1>1, <1>2, <1>3, QuietGoesOn

-----------------------------------------------------------------------------
(* The invariant holds after reset.                                        *)
LEMMA IInvStarts ==
    ASSUME BootInit
    PROVE  IInv
<1>1. SwOK /\ Now = "uart_divider"
  <2>1. PICK pace \in Paces :
            sw = [todo |-> <<"uart_divider", "uart_enable">>, gap |-> 1,
                  pace |-> pace, mtvec |-> "boot_rom"]
    BY DEF BootInit
  <2>2. /\ sw.todo = <<"uart_divider", "uart_enable">> /\ sw.gap = 1
        /\ sw.pace \in Paces /\ IsSw
    BY <2>1 DEF IsSw
  <2>3. /\ sw.todo \in Seq(Ops) /\ Len(sw.todo) = 2 /\ sw.todo[2] = "uart_enable"
        /\ sw.todo # <<>> /\ Head(sw.todo) = "uart_divider"
    BY <2>2 DEF Ops, MainOps
  <2>4. \A k \in 2 .. Len(sw.todo) : sw.todo[k] \in MainOps
    BY <2>3 DEF MainOps
  <2> QED
    BY <2>2, <2>3, <2>4 DEF SwOK, Now
<1>2. LoaderOK
  BY DEF BootInit, LoaderOK
<1>3. HInv /\ master.state = "IDLE" /\ ~master.rx_data_valid
  <2>1. MasterOK /\ master.state = "IDLE" /\ ~master.rx_data_valid
    BY DEF BootInit, Spim!SpiInit, MasterOK, IsMaster
  <2>2. ClockOK
    BY LoaderAssumption DEF BootInit, Spim!SpiInit, Spim!SckGenerator!Init, ClockOK, target
  <2> QED
    BY <2>1, <2>2 DEF HInv
<1>4. SInv
  <2>1. ~spi_regs.rxne /\ spi_regs.rxne \in BOOLEAN
        /\ spi_tx_data_valid = FALSE /\ spi_clk_divider_valid = FALSE
    BY DEF BootInit, Spim!SpiInit
  <2>2. ~Configured
    BY <1>1 DEF Configured, SpiOps
  <2> QED
    BY <1>3, <2>1, <2>2 DEF SInv, Stopping
<1>5. OpsInv
  BY <1>1 DEF OpsInv, UartOps, SpiOps
<1> QED
  BY <1>1, <1>2, <1>3, <1>4, <1>5 DEF IInv

(* The invariant is inductive.                                             *)
LEMMA IInvHolds ==
    ASSUME IInv, [BootNext]_loadervars
    PROVE  IInv'
<1>1. CASE Wait
  BY <1>1, WaitHolds
<1>2. CASE LoaderStep
  BY <1>2, StoreHolds, SetPhaseHolds, SetSpiDividerHolds, WriteSpiHolds, PollSpiHolds,
     GetSpiHolds, ReadLowHolds, UartStepHolds DEF LoaderStep
<1>3. CASE MainStep
  BY <1>3, MainStepHolds
<1>4. CASE UNCHANGED loadervars
  <2>1. /\ spi_regs' = spi_regs /\ spi_tx_data_valid' = spi_tx_data_valid
        /\ spi_clk_divider_valid' = spi_clk_divider_valid
        /\ spi_clock' = spi_clock /\ master' = master /\ sw' = sw /\ loader' = loader
    BY <1>4 DEF loadervars, hwvars
  <2>2. Now' = Now /\ Held' = Held /\ target' = target
    BY <2>1 DEF Now, Held, target
  <2>3. SwOK' /\ LoaderOK' /\ HInv'
    BY <2>1, <2>2 DEF IInv, SwOK, IsSw, LoaderOK, HInv, ClockOK, MasterOK, IsMaster
  <2>4. SInv' /\ OpsInv'
    BY <2>1, <2>2 DEF IInv, SInv, Untouched, Polling, Stopping, Configured, OpsInv
  <2> QED
    BY <2>3, <2>4 DEF IInv
<1> QED
  BY <1>1, <1>2, <1>3, <1>4 DEF BootNext, MainStep, Running

(* No byte that the bootloader asks the flash for is ever dropped by the   *)
(* master, whatever the pace of the software above half of its divider:    *)
(* Spi::read always finds the master at rest.                              *)
THEOREM NothingIsDropped == BootSpec => []NothingDropped
<1>1. IInv => NothingDropped
  BY AtRest DEF NothingDropped
<1> QED
  BY <1>1, IInvStarts, IInvHolds, PTL DEF BootSpec

-----------------------------------------------------------------------------
(* The timeout.  As long as the counter is in the half it was in when the  *)
(* load began, the two halves that were read are of one count.             *)
LEMMA Quotient ==
    ASSUME NEW n \in Nat, NEW m \in Nat \ {0}
    PROVE  n \div m \in Nat /\ n % m \in 0 .. m - 1 /\ n = m * (n \div m) + (n % m)
  BY SMT

(* Multiples of m lie m apart.                                             *)
LEMMA Multiples ==
    ASSUME NEW m \in Nat \ {0}, NEW p \in Nat, NEW q \in Nat, p > q
    PROVE  m * p >= m * q + m
  BY SMT

(* A quotient grows with its dividend.                                     *)
LEMMA QuotientGrows ==
    ASSUME NEW a \in Nat, NEW b \in Nat, a <= b, NEW m \in Nat \ {0}
    PROVE  a \div m <= b \div m
<1>1. /\ a \div m \in Nat /\ a % m \in 0 .. m - 1 /\ a = m * (a \div m) + (a % m)
      /\ b \div m \in Nat /\ b % m \in 0 .. m - 1 /\ b = m * (b \div m) + (b % m)
  BY Quotient
<1>2. ASSUME a \div m > b \div m PROVE FALSE
  <2> DEFINE p == a \div m
             q == b \div m
             r == a % m
             s == b % m
  <2>1. m * p >= m * q + m
    BY <1>1, <1>2, Multiples
  <2>2. /\ a = m * p + r /\ b = m * q + s /\ r \in 0 .. m - 1 /\ s \in 0 .. m - 1
        /\ m * p \in Nat /\ m * q \in Nat /\ p \in Nat /\ q \in Nat
    BY <1>1
  <2> HIDE DEF p, q, r, s
  <2> QED
    BY <2>1, <2>2
<1> QED
  BY <1>1, <1>2

Half(n)  == n \div CounterHalf
SameHalf == Half(mcycle) = Half(loader.began)

TimeOK ==
    /\ mcycle \in Nat /\ loader.began \in Nat /\ loader.low \in Nat
    /\ loader.timeout \in Nat /\ uart_regs.rxne \in BOOLEAN
    /\ loader.began <= mcycle

TimerSet ==
    \/ Now \in UartOps \ {"timeout_high"}
    \/ Now = "store" /\ loader.source = "uart"

TimerInv ==
    /\ Now = "timeout_high" => loader.low = loader.began % CounterHalf
    /\ TimerSet /\ SameHalf => loader.timeout = loader.began + Timeout
    /\ Now = "test_high" /\ SameHalf =>
           loader.low + CounterHalf * Half(loader.began) <= mcycle
    /\ Now = "uart_ask" => uart_regs.rxne \/ Late

TInv == IInv /\ TimeOK /\ TimerInv

(* The counter is made of its two halves.                                  *)
LEMMA Halves ==
    ASSUME NEW n \in Nat
    PROVE  /\ Half(n) \in Nat /\ n % CounterHalf \in Nat
           /\ CounterHalf * Half(n) \in Nat
           /\ n = (n % CounterHalf) + CounterHalf * Half(n)
<1>1. CounterHalf \in Nat \ {0}
  BY LoaderAssumption
<1>2. /\ Half(n) \in Nat /\ n % CounterHalf \in 0 .. CounterHalf - 1
      /\ n = CounterHalf * Half(n) + (n % CounterHalf)
  BY <1>1, Quotient DEF Half
<1> DEFINE h == Half(n)
<1>3. CounterHalf * h \in Nat
  <2> HIDE DEF h
  <2> QED
    BY <1>1, <1>2 DEF h
<1> HIDE DEF h
<1> QED
  BY <1>1, <1>2, <1>3 DEF h

(* What a cycle does to the time and to the flag. *)
LEMMA TimeGoesOn ==
    ASSUME TimeOK, NEW port, NEW access, Bus(port, access),
           UartPlain(port, access) \/ access = Uartm!ReadReg("rdr")
    PROVE  /\ mcycle' \in Nat /\ mcycle <= mcycle'
           /\ uart_regs'.rxne \in BOOLEAN
           /\ UartPlain(port, access) /\ uart_regs.rxne => uart_regs'.rxne
<1> DEFINE a == IF port = "uart" THEN access ELSE Spim!None
<1>1. /\ uart_regs'.rxne = Uartm!Rxne(a)
      /\ mcycle' = IF Timing THEN mcycle + 1 ELSE mcycle
  BY DEF Bus, Uartm!UartCycle, Uartm!RegsAfter
<1>2. mcycle' \in Nat /\ mcycle <= mcycle'
  BY <1>1 DEF TimeOK
<1>3. ~(a.we /\ a.reg = "sr") /\ (UartPlain(port, access) => a.reg # "rdr")
  BY DEF UartPlain, Spim!None, Uartm!ReadReg
<1> HIDE DEF a
<1>4. Uartm!Rxne(a) = IF rx.rx_data_valid THEN TRUE
                      ELSE IF a.reg = "rdr" THEN FALSE ELSE uart_regs.rxne
  BY <1>3 DEF Uartm!Rxne, Uartm!Written, Uartm!IsWritten
<1> QED
  BY <1>1, <1>2, <1>3, <1>4 DEF TimeOK

(* A step that leaves the timing of the load alone keeps what is known of  *)
(* it: time only passes.                                                   *)
LEMMA TimeKept ==
    ASSUME TimeOK, mcycle' \in Nat, mcycle <= mcycle', uart_regs'.rxne \in BOOLEAN,
           loader'.began = loader.began, loader'.low \in Nat, loader'.timeout \in Nat
    PROVE  TimeOK' /\ (SameHalf' => SameHalf) /\ (Late => Late')
<1>1. TimeOK'
  BY DEF TimeOK
<1>2. /\ Half(loader.began) <= Half(mcycle) /\ Half(mcycle) <= Half(mcycle')
      /\ Half(loader.began) \in Nat /\ Half(mcycle) \in Nat /\ Half(mcycle') \in Nat
  BY Halves, QuotientGrows, LoaderAssumption DEF TimeOK, Half
<1>3. SameHalf' => SameHalf
  <2> SUFFICES ASSUME Half(mcycle') = Half(loader.began) PROVE Half(mcycle) = Half(loader.began)
    BY DEF SameHalf, Half
  <2> QED
    BY <1>2
<1>4. Late <=> mcycle - loader.began >= Timeout \/ Half(mcycle) # Half(loader.began)
  BY DEF Late, Half
<1>5. Late' <=> mcycle' - loader.began >= Timeout \/ Half(mcycle') # Half(loader.began)
  BY DEF Late, Half
<1>6. ASSUME Late PROVE Late'
  <2>1. CASE mcycle - loader.began >= Timeout
    <3>1. mcycle' - loader.began >= Timeout
      BY <2>1, LoaderAssumption DEF TimeOK
    <3> QED
      BY <1>5, <3>1
  <2>2. CASE Half(mcycle) # Half(loader.began)
    BY <1>2, <1>5, <2>2
  <2> QED
    BY <1>4, <1>6, <2>1, <2>2
<1> QED
  BY <1>1, <1>3, <1>6

(* Outside a load through the UART nothing is asked of the times.          *)
LEMMA Untimed ==
    ASSUME Now' \notin UartOps, Now' = "store" => loader'.source # "uart"
    PROVE  TimerInv'
  BY DEF TimerInv, TimerSet, UartOps

(* A step that leaves what the load remembers of the time as it is. *)
LEMMA TimeSteps ==
    ASSUME TInv, NEW port, NEW access, Bus(port, access),
           UartPlain(port, access) \/ access = Uartm!ReadReg("rdr"),
           loader'.began = loader.began, loader'.low = loader.low,
           loader'.timeout = loader.timeout
    PROVE  /\ TimeOK' /\ mcycle <= mcycle'
           /\ (SameHalf' => SameHalf) /\ (Late => Late')
           /\ UartPlain(port, access) /\ uart_regs.rxne => uart_regs'.rxne
<1>1. /\ mcycle' \in Nat /\ mcycle <= mcycle' /\ uart_regs'.rxne \in BOOLEAN
      /\ UartPlain(port, access) /\ uart_regs.rxne => uart_regs'.rxne
  BY TimeGoesOn DEF TInv
<1>2. TimeOK' /\ (SameHalf' => SameHalf) /\ (Late => Late')
  BY <1>1, TimeKept DEF TInv, TimeOK
<1> QED
  BY <1>1, <1>2

(* A step without an access is a plain one.                                *)
LEMMA NothingPlain ==
    NoAccess => Bus("none", Spim!None) /\ UartPlain("none", Spim!None)
  BY DEF NoAccess, UartPlain

(* One lemma for each action: here a cycle without an access.              *)
LEMMA WaitTimed ==
    ASSUME TInv, Wait
    PROVE  TimeOK' /\ TimerInv'
<1>1. Now' = Now /\ loader' = loader
  BY Waiting DEF TInv, IInv, Wait
<1>2. Bus("none", Spim!None) /\ UartPlain("none", Spim!None)
  BY NothingPlain DEF Wait
<1>3. /\ TimeOK' /\ mcycle <= mcycle' /\ (SameHalf' => SameHalf) /\ (Late => Late')
      /\ uart_regs.rxne => uart_regs'.rxne
  BY <1>1, <1>2, TimeSteps
<1>4. TimerSet' <=> TimerSet
  BY <1>1 DEF TimerSet
<1>5. Now = "test_high" /\ SameHalf' =>
          loader.low + CounterHalf * Half(loader.began) <= mcycle'
  <2>1. Half(loader.began) \in Nat /\ CounterHalf * Half(loader.began) \in Nat
    BY Halves DEF TInv, TimeOK
  <2>2. loader.low \in Nat /\ mcycle \in Nat /\ mcycle' \in Nat
    BY <1>3 DEF TInv, TimeOK
  <2>3. Now = "test_high" /\ SameHalf' =>
            loader.low + CounterHalf * Half(loader.began) <= mcycle
    BY <1>3 DEF TInv, TimerInv
  <2> DEFINE h == CounterHalf * Half(loader.began)
  <2> HIDE DEF h
  <2> QED
    BY <1>3, <2>1, <2>2, <2>3 DEF h
<1>6. TimerInv'
  <2>1. /\ Now' = "timeout_high" => loader'.low = loader'.began % CounterHalf
        /\ TimerSet' /\ SameHalf' => loader'.timeout = loader'.began + Timeout
    BY <1>1, <1>3, <1>4 DEF TInv, TimerInv
  <2>2. Now' = "test_high" /\ SameHalf' =>
            loader'.low + CounterHalf * Half(loader'.began) <= mcycle'
    BY <1>1, <1>5
  <2>3. Now' = "uart_ask" => uart_regs'.rxne \/ Late'
    BY <1>1, <1>3 DEF TInv, TimerInv
  <2> QED
    BY <2>1, <2>2, <2>3 DEF TimerInv, Half
<1> QED
  BY <1>3, <1>6

(* The SPI driver keeps no times.                                          *)
LEMMA SpiTimed ==
    ASSUME TInv, SetPhase \/ SetSpiDivider \/ WriteSpi \/ PollSpi \/ GetSpi
    PROVE  TimeOK' /\ TimerInv'
<1>1. /\ Now # "jump" /\ (~SetPhase => loader.source = "spi")
  BY DEF TInv, IInv, OpsInv, SetPhase, SetSpiDivider, WriteSpi, PollSpi, GetSpi, At, SpiOps
<1>2. PICK access : Bus("spi", access)
  BY DEF SetPhase, SetSpiDivider, WriteSpi, PollSpi, GetSpi
<1>3. /\ loader'.began = loader.began /\ loader'.low = loader.low
      /\ loader'.timeout = loader.timeout /\ loader'.source = "spi"
  <2>1. CASE SetPhase
    BY <2>1, LoaderFields DEF TInv, IInv, SetPhase
  <2>2. CASE GetSpi
    <3>1. PICK bytes : loader' = [loader EXCEPT !.bytes = bytes]
      BY <2>2 DEF GetSpi, Taken
    <3>2. loader.source = "spi"
      BY <1>1, <2>2 DEF GetSpi, SetPhase, At
    <3> QED
      BY <3>1, <3>2, TakenFields DEF TInv, IInv
  <2>3. CASE SetSpiDivider \/ WriteSpi \/ PollSpi
    BY <1>1, <2>3 DEF SetPhase, SetSpiDivider, WriteSpi, PollSpi, At
  <2> QED
    BY <2>1, <2>2, <2>3
<1>4. TimeOK'
  BY <1>2, <1>3, TimeSteps DEF UartPlain
<1>5. PICK op \in SpiOps \cup {"spi_divider", "store"} : Do(<<op>>)
  BY DEF SetPhase, SetSpiDivider, WriteSpi, PollSpi, GetSpi, AfterByte, SpiOps
<1>6. Now' = op
  BY <1>1, <1>5, GoesTo DEF TInv, IInv, Ops
<1>7. TimerInv'
  BY <1>3, <1>5, <1>6, Untimed DEF SpiOps, UartOps
<1> QED
  BY <1>4, <1>7

(* A word is stored; of a load through the UART a new byte may then be     *)
(* awaited.                                                                *)
LEMMA StoreTimed ==
    ASSUME TInv, Store
    PROVE  TimeOK' /\ TimerInv'
<1>1. Now = "store" /\ Now # "jump"
  BY DEF Store, At
<1>2. /\ loader'.began = loader.began /\ loader'.low = loader.low
      /\ loader'.timeout = loader.timeout /\ loader'.source = loader.source
  BY DEF TInv, IInv, LoaderOK, Store
<1>3. TimeOK' /\ (SameHalf' => SameHalf)
  BY <1>2, NothingPlain, TimeSteps DEF Store
<1>4. CASE Do(<<>>)
  <2>1. Now' \in MainOps \cup {"jump"}
    BY <1>1, <1>4, DoesGoOn, EmptySeq DEF TInv, IInv
  <2> QED
    BY <1>3, <2>1, Untimed DEF MainOps, UartOps
<1>5. CASE Do(<<"spi_write">>)
  <2>1. Now' = "spi_write"
    BY <1>1, <1>5, GoesTo DEF TInv, IInv, Ops, SpiOps
  <2> QED
    BY <1>3, <2>1, Untimed DEF UartOps
<1>6. CASE loader.source # "spi" /\ Do(<<"uart_poll">>)
  <2>1. Now' = "uart_poll"
    BY <1>1, <1>6, GoesTo DEF TInv, IInv, Ops, UartOps
  <2>2. TimerSet
    BY <1>1, <1>6 DEF TInv, IInv, OpsInv, TimerSet
  <2>3. SameHalf' => loader'.timeout = loader'.began + Timeout
    BY <1>2, <1>3, <2>2 DEF TInv, TimerInv
  <2> QED
    BY <1>3, <2>1, <2>3 DEF TimerInv
<1> QED
  BY <1>4, <1>5, <1>6 DEF Store, Return

(* The low half of the counter is read: the other half is read later, and  *)
(* may have moved on.                                                      *)
LEMMA ReadLowTimed ==
    ASSUME TInv, \/ ReadLow("uart", "timeout_high")
                 \/ ReadLow("test_low", "test_high")
    PROVE  TimeOK' /\ TimerInv'
<1>1. /\ mcycle' \in Nat /\ mcycle <= mcycle' /\ uart_regs'.rxne \in BOOLEAN
  BY NothingPlain, TimeGoesOn DEF TInv, ReadLow
<1>2. /\ mcycle \in Nat /\ Half(mcycle) \in Nat /\ mcycle % CounterHalf \in Nat
      /\ CounterHalf * Half(mcycle) \in Nat
      /\ mcycle = (mcycle % CounterHalf) + CounterHalf * Half(mcycle)
  BY Halves DEF TInv, TimeOK
<1>3. CASE ReadLow("uart", "timeout_high")
  <2>1. /\ loader'.began = mcycle /\ loader'.low = mcycle % CounterHalf
        /\ loader'.timeout = loader.timeout
    <3>1. loader' = [loader EXCEPT !.low = mcycle % CounterHalf, !.source = "uart",
                                   !.began = mcycle]
      BY <1>3 DEF ReadLow
    <3> QED
      BY <3>1, BegunFields DEF TInv, IInv
  <2>2. Now' = "timeout_high"
    BY <1>3, GoesTo DEF TInv, IInv, ReadLow, At, Ops, UartOps
  <2>3. TimeOK'
    BY <1>1, <1>2, <2>1 DEF TInv, TimeOK
  <2> QED
    BY <2>1, <2>2, <2>3 DEF TimerInv, TimerSet, UartOps
<1>4. CASE ReadLow("test_low", "test_high")
  <2>1. /\ loader'.began = loader.began /\ loader'.low = mcycle % CounterHalf
        /\ loader'.timeout = loader.timeout
    <3>1. loader' = [loader EXCEPT !.low = mcycle % CounterHalf, !.source = "uart",
                                   !.began = loader.began]
      <4>1. loader' = [loader EXCEPT !.low = mcycle % CounterHalf, !.source = "uart",
                                     !.began = @]
        BY <1>4 DEF ReadLow
      <4> QED
        BY <4>1
    <3> QED
      BY <3>1, BegunFields DEF TInv, IInv
  <2>2. Now = "test_low" /\ Now' = "test_high"
    BY <1>4, GoesTo DEF TInv, IInv, ReadLow, At, Ops, UartOps
  <2>3. TimeOK' /\ (SameHalf' => SameHalf)
    BY <1>1, <1>2, <2>1, TimeKept DEF TInv, TimeOK
  <2>4. SameHalf' => loader'.timeout = loader'.began + Timeout
    BY <2>1, <2>2, <2>3 DEF TInv, TimerInv, TimerSet, UartOps
  <2>5. ASSUME SameHalf'
        PROVE  loader'.low + CounterHalf * Half(loader'.began) <= mcycle'
    <3>1. Half(loader'.began) = Half(mcycle)
      BY <2>1, <2>3, <2>5 DEF SameHalf
    <3> QED
      BY <1>1, <1>2, <2>1, <3>1
  <2> QED
    BY <2>2, <2>3, <2>4, <2>5 DEF TimerInv, Half
<1> QED
  BY <1>3, <1>4

(* The timeout is computed from two halves read one after the other.       *)
LEMMA SetTimeoutTimed ==
    ASSUME TInv, SetTimeout
    PROVE  TimeOK' /\ TimerInv'
<1>1. Now = "timeout_high" /\ Now' = "uart_poll"
  BY GoesTo DEF TInv, IInv, SetTimeout, At, Ops, UartOps
<1>2. /\ loader'.began = loader.began /\ loader'.low = loader.low
      /\ loader'.timeout = Counter + Timeout
  BY LoaderFields DEF TInv, IInv, SetTimeout
<1>3. /\ mcycle' \in Nat /\ mcycle <= mcycle' /\ uart_regs'.rxne \in BOOLEAN
  BY NothingPlain, TimeGoesOn DEF TInv, SetTimeout
<1>4. /\ CounterHalf * Half(mcycle) \in Nat /\ CounterHalf * Half(loader.began) \in Nat
      /\ loader.began = (loader.began % CounterHalf) + CounterHalf * Half(loader.began)
      /\ loader.low \in Nat /\ Timeout \in Nat /\ loader.began \in Nat
  BY Halves, LoaderAssumption DEF TInv, TimeOK
<1>5. Counter = loader.low + CounterHalf * Half(mcycle)
  BY DEF Counter, Half
<1>6. loader'.timeout \in Nat
  BY <1>2, <1>4, <1>5
<1>7. TimeOK' /\ (SameHalf' => SameHalf)
  BY <1>2, <1>3, <1>4, <1>6, TimeKept DEF TInv
<1>8. ASSUME SameHalf' PROVE loader'.timeout = loader'.began + Timeout
  <2>1. Half(mcycle) = Half(loader.began) /\ loader.low = loader.began % CounterHalf
    BY <1>1, <1>7, <1>8 DEF SameHalf, TInv, TimerInv
  <2> QED
    BY <1>2, <1>4, <1>5, <2>1
<1> QED
  BY <1>1, <1>7, <1>8 DEF TimerInv

(* The polls of the receiver, and the test of the timeout.                 *)
LEMMA UartStepTimed ==
    ASSUME TInv, PollUart \/ TestTimeout \/ AskAgain \/ GetUart
    PROVE  TimeOK' /\ TimerInv'
<1>1. Now # "jump" /\ Now \in UartOps \ {"timeout_high"}
  BY DEF PollUart, TestTimeout, AskAgain, GetUart, At, UartOps
<1>p. PICK port \in {"none", "uart"} : \E access :
          /\ Bus(port, access)
          /\ UartPlain(port, access) \/ access = Uartm!ReadReg("rdr")
          /\ ~GetUart => UartPlain(port, access)
  BY NothingPlain
     DEF PollUart, TestTimeout, AskAgain, GetUart, UartPlain, Uartm!ReadReg
<1>2. PICK access :
          /\ port \in {"none", "uart"} /\ Bus(port, access)
          /\ UartPlain(port, access) \/ access = Uartm!ReadReg("rdr")
          /\ ~GetUart => UartPlain(port, access)
  BY <1>p
<1>3. /\ loader'.began = loader.began /\ loader'.low = loader.low
      /\ loader'.timeout = loader.timeout
  <2>1. CASE GetUart
    <3>1. PICK bytes : loader' = [loader EXCEPT !.bytes = bytes]
      BY <2>1 DEF GetUart, Taken
    <3> QED
      BY <3>1, TakenFields DEF TInv, IInv
  <2>2. CASE AskAgain
    BY <2>2, LoaderFields DEF TInv, IInv, AskAgain
  <2>3. CASE PollUart \/ TestTimeout
    BY <2>3 DEF PollUart, TestTimeout
  <2> QED
    BY <2>1, <2>2, <2>3
<1>4. /\ TimeOK' /\ mcycle <= mcycle'
      /\ (SameHalf' => SameHalf) /\ (Late => Late')
      /\ ~GetUart /\ uart_regs.rxne => uart_regs'.rxne
  BY <1>2, <1>3, TimeSteps
<1>5. SameHalf' => loader'.timeout = loader'.began + Timeout
  BY <1>1, <1>3, <1>4 DEF TInv, TimerInv, TimerSet
<1>6. ASSUME NEW op \in {"uart_poll", "test_low", "uart_get", "store"}, Do(<<op>>)
      PROVE  TimerInv'
  <2>1. Now' = op
    BY <1>1, <1>6, GoesTo DEF TInv, IInv, Ops, UartOps
  <2> QED
    BY <1>5, <1>6, <2>1 DEF TimerInv
<1>7. ASSUME Do(<<"uart_ask">>), uart_regs'.rxne \/ Late'
      PROVE  TimerInv'
  <2>1. Now' = "uart_ask"
    BY <1>1, <1>7, GoesTo DEF TInv, IInv, Ops, UartOps
  <2> QED
    BY <1>5, <1>7, <2>1 DEF TimerInv
<1>8. CASE PollUart
  <2>1. ~GetUart
    BY <1>8 DEF PollUart, GetUart, At
  <2> QED
    BY <1>4, <1>6, <1>7, <1>8, <2>1 DEF PollUart
<1>9. CASE TestTimeout
  <2>1. Now = "test_high"
    BY <1>9 DEF TestTimeout, At
  <2>2. ASSUME ~(Counter < loader.timeout) PROVE Late
    <3>1. CASE SameHalf
      <4>1. /\ loader.timeout = loader.began + Timeout
            /\ loader.low + CounterHalf * Half(loader.began) <= mcycle
        BY <2>1, <3>1 DEF TInv, TimerInv, TimerSet, UartOps
      <4>2. Counter = loader.low + CounterHalf * Half(loader.began)
        BY <3>1 DEF Counter, SameHalf, Half
      <4>3. /\ CounterHalf * Half(loader.began) \in Nat /\ loader.low \in Nat
            /\ loader.began \in Nat /\ mcycle \in Nat /\ Timeout \in Nat
        BY Halves, LoaderAssumption DEF TInv, TimeOK
      <4> HIDE DEF Half
      <4>4. mcycle - loader.began >= Timeout
        BY <2>2, <4>1, <4>2, <4>3
      <4> QED
        BY <4>4 DEF Late
    <3>2. CASE ~SameHalf
      BY <3>2 DEF SameHalf, Half, Late
    <3> QED
      BY <3>1, <3>2
  <2> QED
    BY <1>4, <1>6, <1>7, <1>9, <2>2 DEF TestTimeout
<1>10. CASE AskAgain
  <2>1. CASE Do(<<>>)
    <3>1. Now' \in MainOps \cup {"jump"}
      BY <1>1, <2>1, DoesGoOn, EmptySeq DEF TInv, IInv
    <3> QED
      BY <1>4, <3>1, Untimed DEF MainOps, UartOps
  <2> QED
    BY <1>4, <1>6, <1>10, <2>1 DEF AskAgain
<1>11. CASE GetUart
  BY <1>4, <1>6, <1>11 DEF GetUart, AfterByte
<1> QED
  BY <1>8, <1>9, <1>10, <1>11

(* The steps of main keep no times.                                        *)
LEMMA MainStepTimed ==
    ASSUME TInv, MainStep
    PROVE  TimeOK' /\ TimerInv'
<1>1. loader' = loader /\ Now' \in MainOps \cup {"jump"}
  BY MainGoesOn DEF TInv, IInv
<1>p. PICK port \in {"none", "uart", "gpio"} : \E access :
          Bus(port, access) /\ UartPlain(port, access)
  BY MainGoesOn DEF TInv, IInv
<1>2. PICK access :
          /\ port \in {"none", "uart", "gpio"}
          /\ Bus(port, access) /\ UartPlain(port, access)
  BY <1>p
<1>3. TimeOK'
  BY <1>1, <1>2, TimeSteps
<1> QED
  BY <1>1, <1>3, Untimed DEF MainOps, UartOps

(* The invariant of the times holds after reset.                           *)
LEMMA TInvStarts ==
    ASSUME BootInit
    PROVE  TInv
<1>1. IInv
  BY IInvStarts
<1>2. Now = "uart_divider"
  <2>1. sw.todo = <<"uart_divider", "uart_enable">>
    BY DEF BootInit
  <2> QED
    BY <2>1 DEF Now
<1>3. TimeOK
  BY BootAssumption DEF BootInit, TimeOK, Uartm!UartInit
<1> QED
  BY <1>1, <1>2, <1>3 DEF TInv, TimerInv, TimerSet, UartOps

(* It is inductive.                                                        *)
LEMMA TInvHolds ==
    ASSUME TInv, [BootNext]_loadervars
    PROVE  TInv'
<1>1. IInv'
  BY IInvHolds DEF TInv
<1>2. CASE Wait
  BY <1>1, <1>2, WaitTimed DEF TInv
<1>3. CASE LoaderStep
  BY <1>1, <1>3, StoreTimed, SpiTimed, ReadLowTimed, SetTimeoutTimed, UartStepTimed
     DEF TInv, LoaderStep
<1>4. CASE MainStep
  BY <1>1, <1>4, MainStepTimed DEF TInv
<1>5. CASE UNCHANGED loadervars
  <2>1. mcycle' = mcycle /\ uart_regs' = uart_regs /\ sw' = sw /\ loader' = loader
    BY <1>5 DEF loadervars, hwvars
  <2>2. TimeOK' /\ TimerInv'
    BY <2>1 DEF TInv, TimeOK, TimerInv, TimerSet, SameHalf, Half, Late, Now
  <2> QED
    BY <1>1, <2>2 DEF TInv
<1> QED
  BY <1>2, <1>3, <1>4, <1>5 DEF BootNext, MainStep, Running

(* The load over the UART is never given up before its time, whatever the  *)
(* timeout and wherever the cycle counter starts from, unless the counter  *)
(* has gone into another half of its meanwhile: the timeout is computed    *)
(* from two halves that were not read at once.                             *)
THEOREM NeverGivesUpEarly == BootSpec => []GivesUpOnlyLate
<1>1. TInv => GivesUpOnlyLate
  BY DEF TInv, TimerInv, GivesUpOnlyLate, At
<1> QED
  BY <1>1, TInvStarts, TInvHolds, PTL DEF BootSpec

-----------------------------------------------------------------------------
(* The types.  Of the SPI the master's count of bits is the one that does  *)
(* not stay within its type by itself: between the leading edge that ends  *)
(* the count and the trailing one that clears it comes no other.           *)
Bytes == [0 .. DataBits - 1 -> Bit]

SpiRegs == [cpol : {0, 1}, cpha : BOOLEAN, txact : BOOLEAN, rxne : BOOLEAN,
            tdr : Bytes, rdr : Bytes, cdr : 0 .. MaxDivider]
Masters == [state : {"IDLE", "START", "ACTIVE", "STOP"},
            bits_counter : 0 .. DataBits, ss : {0, 1}, sck : {0, 1},
            mosi : Bit, rx_data_valid : BOOLEAN, rx_data : Bytes,
            en : BOOLEAN, tx_buffer : Bytes, rx_buffer : Bytes,
            sck_polarity : {0, 1}, sck_phase : BOOLEAN]

Counted ==
    /\ spi_clock.rising_edge => spi_clock.sck
    /\ master.state # "ACTIVE" => master.bits_counter = 0
    /\ master.state = "ACTIVE" /\ master.bits_counter = DataBits =>
           ~spi_clock.rising_edge /\ (spi_clock.sck \/ spi_clock.falling_edge)

SpiInv == spi_regs \in SpiRegs /\ master \in Masters /\ Counted

HwInv ==
    /\ SpiInv /\ Flash!FlashTypeOK
    /\ Uartm!UartTypeOK /\ Host!Framed(Bytes)
    /\ Gpiom!GpioTypeOK /\ din \subseteq Pins

(* The accesses of the bootloader write what fits into the registers.      *)
SpiGood(access) ==
    \/ \E reg \in {"sr", "rdr"} : access = Spim!ReadReg(reg)
    \/ \E cpol \in {0, 1} :
          access = Spim!WriteReg("cr", [cpol |-> cpol, cpha |-> TRUE])
    \/ access = Spim!WriteReg("cdr", [cdr |-> SpiDivider])
    \/ access = Spim!WriteReg("tdr", [tdr |-> Spim!Zeros])

GpioGood(access) ==
    \/ access = Gpiom!ReadReg("idr")
    \/ \E reg \in {"odr", "oenr"}, pins \in SUBSET Pins :
          access = Gpiom!WriteReg(reg, pins)

GoodBus(port, access) ==
    /\ port \in {"none", "spi", "uart", "gpio"}
    /\ port = "spi" => SpiGood(access)
    /\ port = "uart" => Uartm!GoodAccess(access)
    /\ port = "gpio" => GpioGood(access)

(* The clock's edges in a cycle. *)
LEMMA EdgesOfClock ==
    ASSUME ClockOK, spi_clock.rising_edge => spi_clock.sck,
           NEW en \in BOOLEAN, NEW valid \in BOOLEAN, NEW divider,
           Spim!SckGenerator!Cycle(en, valid, divider)
    PROVE  /\ spi_clock'.rising_edge => spi_clock'.sck
           /\ en /\ ~valid /\ spi_clock.sck =>
                  /\ ~spi_clock'.rising_edge
                  /\ spi_clock'.sck \/ spi_clock'.falling_edge
<1> USE DEF ClockOK
<1>1. CASE Spim!SckGenerator!SetDivider(valid, divider)
  BY <1>1 DEF Spim!SckGenerator!SetDivider
<1>2. CASE Spim!SckGenerator!Turn(en, valid)
  BY <1>2 DEF Spim!SckGenerator!Turn
<1>3. CASE Spim!SckGenerator!Count(en, valid)
  BY <1>3 DEF Spim!SckGenerator!Count
<1>4. CASE Spim!SckGenerator!Stop(en, valid)
  BY <1>4 DEF Spim!SckGenerator!Stop
<1> QED
  BY <1>1, <1>2, <1>3, <1>4 DEF Spim!SckGenerator!Cycle

(* What the master shifts are bytes.                                       *)
LEMMA ShiftedBytes ==
    ASSUME NEW b \in Bytes, NEW in \in Bit
    PROVE  Spim!Shifted(b, in) \in Bytes /\ Spim!Top(b) \in Bit
  BY BootAssumption DEF Bytes, Spim!Shifted, Spim!Top

(* The master keeps its types, and its count of bits stays below nine.     *)
LEMMA MasterKeepsTypes ==
    ASSUME HInv, SpiInv, spi_clk_divider_valid \in BOOLEAN,
           spi_clk_divider_valid => master.state = "IDLE",
           NEW miso \in Bit, Spim!MasterCycle(miso),
           Spim!SckGenerator!Cycle(master.en, spi_clk_divider_valid, spi_regs.cdr)
    PROVE  master' \in Masters /\ Counted'
<1> USE BootAssumption
<1>1. /\ spi_clock'.rising_edge => spi_clock'.sck
      /\ master.state = "ACTIVE" /\ spi_clock.sck =>
             ~spi_clock'.rising_edge /\ (spi_clock'.sck \/ spi_clock'.falling_edge)
  BY EdgesOfClock DEF HInv, MasterOK, SpiInv, Counted, Masters
<1>2. /\ spi_clock.rising_edge \in BOOLEAN /\ spi_clock.falling_edge \in BOOLEAN
      /\ spi_clock.sck \in BOOLEAN /\ (spi_clock.falling_edge => ~spi_clock.sck)
  BY DEF HInv, ClockOK
<1>3. /\ master \in Masters /\ spi_regs \in SpiRegs /\ Spim!Zeros \in Bytes
      /\ 0 \in Bit /\ DataBits \in 1 .. 15 /\ 0 \in 0 .. DataBits
  BY DEF SpiInv, Spim!Zeros, Bytes
<1>4. \A b \in Bytes, in \in Bit : Spim!Shifted(b, in) \in Bytes /\ Spim!Top(b) \in Bit
  BY ShiftedBytes
<1> HIDE BootAssumption
<1> USE DEF Counted, Masters, Spim!Becomes, Spim!leading, Spim!trailing
<1>5. CASE Spim!Rest
  BY <1>1, <1>3, <1>5 DEF Spim!Rest, SpiInv, SpiRegs
<1>6. CASE Spim!Start
  <2> DEFINE mosi == IF master.sck_phase THEN master.mosi ELSE Spim!Top(spi_regs.tdr)
             buffer == IF master.sck_phase THEN spi_regs.tdr
                       ELSE Spim!Shifted(spi_regs.tdr, 0)
  <2>1. spi_regs.tdr \in Bytes
    BY <1>3 DEF SpiRegs
  <2>2. mosi \in Bit /\ buffer \in Bytes
    BY <1>3, <1>4, <2>1
  <2>3. master' = [master EXCEPT
                      !.state = "ACTIVE", !.ss = 0, !.en = TRUE,
                      !.rx_buffer = Spim!Zeros, !.mosi = mosi,
                      !.tx_buffer = buffer, !.rx_data_valid = FALSE]
        /\ master.state = "START"
    BY <1>3, <1>6 DEF Spim!Start
  <2> HIDE DEF mosi, buffer
  <2>4. master' \in Masters /\ master'.bits_counter = master.bits_counter
    BY <1>3, <2>2, <2>3
  <2> QED
    BY <1>1, <1>3, <2>3, <2>4 DEF SpiInv
<1>7. CASE Spim!Leading(miso)
  <2>1. master.bits_counter < DataBits /\ master.bits_counter \in Nat
    BY <1>3, <1>7 DEF Spim!Leading, SpiInv
  <2>2. (master.bits_counter + 1) % 16 = master.bits_counter + 1
    BY <1>3, <2>1
  <2>3. spi_clock.sck /\ master.state = "ACTIVE"
    BY <1>7 DEF Spim!Leading, SpiInv
  <2> DEFINE m == [master EXCEPT !.bits_counter = (@ + 1) % 16,
                                 !.sck = 1 - master.sck_polarity]
  <2>4. m \in Masters
    <3>1. (master.bits_counter + 1) % 16 \in 0 .. DataBits
      BY <1>3, <2>1, <2>2
    <3>2. 1 - master.sck_polarity \in {0, 1}
      BY <1>3
    <3> QED
      BY <1>3, <3>1, <3>2
  <2>5. m.state = "ACTIVE"
    BY <1>3, <2>3
  <2>6. Spim!Becomes(IF master.sck_phase
                     THEN [m EXCEPT !.mosi = Spim!Top(m.tx_buffer),
                                    !.tx_buffer = Spim!Shifted(@, 0)]
                     ELSE [m EXCEPT !.rx_buffer = Spim!Shifted(@, miso)])
    BY <1>7 DEF Spim!Leading
  <2> HIDE DEF m
  <2>7. master' \in Masters /\ master'.state = "ACTIVE"
    <3>1. /\ Spim!Shifted(m.rx_buffer, miso) \in Bytes
          /\ Spim!Shifted(m.tx_buffer, 0) \in Bytes
          /\ Spim!Top(m.tx_buffer) \in Bit
      BY <1>3, <1>4, <2>4
    <3>2. CASE master.sck_phase
      <4>1. master' = [m EXCEPT !.mosi = Spim!Top(m.tx_buffer),
                                !.tx_buffer = Spim!Shifted(m.tx_buffer, 0),
                                !.rx_data_valid = FALSE]
        BY <2>4, <2>6, <3>2
      <4> QED
        BY <2>4, <2>5, <3>1, <4>1
    <3>3. CASE ~master.sck_phase
      <4>1. master' = [m EXCEPT !.rx_buffer = Spim!Shifted(m.rx_buffer, miso),
                                !.rx_data_valid = FALSE]
        BY <2>4, <2>6, <3>3
      <4> QED
        BY <2>4, <2>5, <3>1, <4>1
    <3> QED
      BY <3>2, <3>3
  <2> QED
    BY <1>1, <2>3, <2>7
<1>8. ASSUME NEW m, m = Spim!TrailingEdge(miso)
      PROVE  /\ m \in Masters /\ m.state = master.state
             /\ m.bits_counter = master.bits_counter
  <2>1. master.sck_polarity \in {0, 1} /\ master.sck_phase \in BOOLEAN
        /\ Spim!Shifted(master.rx_buffer, miso) \in Bytes
        /\ Spim!Shifted(master.tx_buffer, 0) \in Bytes
        /\ Spim!Top(master.tx_buffer) \in Bit
    BY <1>3, <1>4
  <2>2. CASE master.sck_phase
    <3>1. m = [master EXCEPT !.sck = master.sck_polarity,
                             !.rx_buffer = Spim!Shifted(master.rx_buffer, miso)]
      BY <1>8, <2>2 DEF Spim!TrailingEdge
    <3> QED
      BY <1>3, <2>1, <3>1
  <2>3. CASE ~master.sck_phase
    <3>1. m = [master EXCEPT !.sck = master.sck_polarity,
                             !.mosi = Spim!Top(master.tx_buffer),
                             !.tx_buffer = Spim!Shifted(master.tx_buffer, 0)]
      BY <1>8, <2>3 DEF Spim!TrailingEdge
    <3> QED
      BY <1>3, <2>1, <3>1
  <2> QED
    BY <2>1, <2>2, <2>3
<1>9. CASE Spim!Trailing(miso)
  <2> DEFINE m == Spim!TrailingEdge(miso)
  <2>1. m \in Masters /\ m.state = master.state /\ m.bits_counter = master.bits_counter
    BY <1>8
  <2>2. master' = [m EXCEPT !.rx_data_valid = FALSE] /\ master.bits_counter # DataBits
        /\ master.state = "ACTIVE"
    BY <1>9 DEF Spim!Trailing
  <2> HIDE DEF m
  <2>3. /\ master' \in Masters /\ master'.state = master.state
        /\ master'.bits_counter = master.bits_counter
    BY <2>1, <2>2
  <2> QED
    BY <1>1, <1>3, <2>2, <2>3
<1>10. CASE Spim!LastTrailing(miso)
  <2> DEFINE m == Spim!TrailingEdge(miso)
  <2>1. m \in Masters
    BY <1>8
  <2>2. master' = [m EXCEPT !.state = "STOP", !.bits_counter = 0,
                            !.rx_data_valid = TRUE, !.rx_data = m.rx_buffer]
    BY <1>10 DEF Spim!LastTrailing
  <2> HIDE DEF m
  <2> QED
    BY <1>1, <1>3, <2>1, <2>2
<1>11. CASE Spim!Hold
  <2>1. /\ master' \in Masters /\ master'.state = master.state
        /\ master'.bits_counter = master.bits_counter
    BY <1>3, <1>11 DEF Spim!Hold
  <2>2. master.state = "ACTIVE" => ~spi_clock.falling_edge
    BY <1>11 DEF Spim!Hold
  <2> QED
    BY <1>1, <1>2, <2>1, <2>2 DEF SpiInv
<1>12. CASE Spim!Release
  BY <1>1, <1>3, <1>12 DEF Spim!Release, SpiInv
<1> QED
  BY <1>5, <1>6, <1>7, <1>9, <1>10, <1>11, <1>12 DEF Spim!MasterCycle

(* The registers of the SPI hold what was written, or what came in.        *)
LEMMA SpiRegsKeepTypes ==
    ASSUME SpiInv, NEW access, access = Spim!None \/ SpiGood(access),
           NEW miso, Spim!SpiCycle(access, miso)
    PROVE  spi_regs' \in SpiRegs
<1> USE BootAssumption, LoaderAssumption
<1>1. spi_regs \in SpiRegs /\ master \in Masters
  BY DEF SpiInv
<1>2. Spim!Zeros \in Bytes /\ SpiDivider \in 0 .. MaxDivider
  BY DEF Spim!Zeros, Bytes
<1>3. /\ Spim!Written(access, "cr", "cpol") \in {0, 1}
      /\ Spim!Written(access, "cr", "cpha") \in BOOLEAN
      /\ Spim!Written(access, "tdr", "tdr") \in Bytes
      /\ Spim!Written(access, "rdr", "rdr") \in Bytes
      /\ Spim!Written(access, "cdr", "cdr") \in 0 .. MaxDivider
      /\ Spim!Rxne(access) \in BOOLEAN
  <2> USE DEF Spim!Written, Spim!IsWritten, Spim!Rxne, SpiRegs
  <2>1. CASE access = Spim!None
    BY <1>1, <2>1 DEF Spim!None
  <2>2. ASSUME NEW reg \in {"sr", "rdr"}, access = Spim!ReadReg(reg)
        PROVE  <1>3!:
    BY <1>1, <2>2 DEF Spim!ReadReg
  <2>3. ASSUME NEW cpol \in {0, 1},
               access = Spim!WriteReg("cr", [cpol |-> cpol, cpha |-> TRUE])
        PROVE  <1>3!:
    BY <1>1, <2>3 DEF Spim!WriteReg
  <2>4. CASE access = Spim!WriteReg("cdr", [cdr |-> SpiDivider])
    BY <1>1, <1>2, <2>4 DEF Spim!WriteReg
  <2>5. CASE access = Spim!WriteReg("tdr", [tdr |-> Spim!Zeros])
    BY <1>1, <1>2, <2>5 DEF Spim!WriteReg
  <2> QED
    BY <2>1, <2>2, <2>3, <2>4, <2>5 DEF SpiGood
<1>4. Spim!busy \in BOOLEAN /\ master.rx_data \in Bytes
  BY <1>1 DEF Spim!busy, Masters
<1> QED
  BY <1>3, <1>4 DEF Spim!SpiCycle, SpiRegs

(* The flash shows a word at every address.                                *)
LEMMA FlashShows ==
    ASSUME NEW addr
    PROVE  Flash!rdata(addr) \in [0 .. 3 -> Flash!FlashByte]
<1>1. Flash!Blank \in Flash!FlashByte
  BY BootAssumption DEF Flash!Blank, Flash!FlashByte
<1>2. addr \in DOMAIN FlashImage => FlashImage[addr] \in [0 .. 3 -> Flash!FlashByte]
  BY BootAssumption DEF Flash!FlashByte
<1> QED
  BY <1>1, <1>2 DEF Flash!rdata

(* Addresses are numbers, and go round. *)
LEMMA WithinSpace ==
    \A addr \in 0 .. Flash!FlashSpace - 1 :
        /\ addr \in Nat
        /\ (addr + 1) % Flash!FlashSpace \in 0 .. Flash!FlashSpace - 1
BY DEF Flash!FlashSpace

(* Where the flash is. *)
LEMMA FlashPlace ==
    Flash!FlashTypeOK =>
        /\ flash.addr \in 0 .. Flash!FlashSpace - 1 /\ flash.addr \in Nat
        /\ flash.bytes_counter \in 0 .. 3
<1>1. Flash!FlashTypeOK =>
          /\ flash.addr \in 0 .. Flash!FlashSpace - 1
          /\ flash.bytes_counter \in 0 .. 3
  BY DEF Flash!FlashTypeOK
<1> DEFINE addr == flash.addr
<1> HIDE DEF addr
<1>2. Flash!FlashTypeOK => addr \in Nat
  <2>1. Flash!FlashTypeOK => addr \in 0 .. Flash!FlashSpace - 1
    BY <1>1 DEF addr
  <2> QED
    BY <2>1, WithinSpace
<1> QED
  BY <1>1, <1>2 DEF addr

(* The flash stays within its space and its counters within their widths.  *)
LEMMA FlashKeepsTypes ==
    ASSUME Flash!FlashTypeOK, NEW ss \in {0, 1}, NEW sck \in {0, 1},
           Flash!FlashCycle(ss, sck)
    PROVE  Flash!FlashTypeOK'
<1> USE BootAssumption
<1>0. Flash!FlashTypeOK /\ Flash!rdata(flash.addr) \in [0 .. 3 -> Flash!FlashByte]
  BY FlashShows
<1> USE DEF Flash!FlashTypeOK, Flash!FlashByte
<1>1. Flash!Fetched \in Flash!FlashByte
  BY <1>0 DEF Flash!Fetched
<1>2. Flash!NextAddr(ss) \in 0 .. Flash!FlashSpace - 1
  <2> HIDE DEF Flash!FlashTypeOK, Flash!FlashByte
  <2>1. flash.addr \in 0 .. Flash!FlashSpace - 1
    BY FlashPlace
  <2> QED
    BY <2>1, WithinSpace DEF Flash!NextAddr
<1>3. Flash!NextByte(ss) \in 0 .. 3
  BY DEF Flash!NextByte
<1>4. Flash!Bits(ss) \in 0 .. 15
  BY DEF Flash!Bits
<1>5. Flash!Source \in Flash!FlashByte
  BY DEF Flash!Source
<1>6. Flash!Source[DataBits - 1] \in Bit /\ flash.miso \in Bit /\ 0 \in Bit
  BY <1>5
<1>7. [k \in 0 .. DataBits - 1 |-> IF k = 0 THEN 0 ELSE Flash!Source[k - 1]]
          \in Flash!FlashByte
  BY <1>5, <1>6
<1>8. Flash!Sampled(flash.edges, sck) \in Flash!Synchroniser
  BY DEF Flash!Sampled, Flash!Synchroniser
<1> QED
  BY <1>1, <1>2, <1>3, <1>4, <1>6, <1>7, <1>8 DEF Flash!FlashCycle

(* The registers of the GPIO controller hold sets of pins.                 *)
LEMMA GpioKeepsTypes ==
    ASSUME Gpiom!GpioTypeOK, NEW pins \in SUBSET Pins, NEW access,
           access = Spim!None \/ GpioGood(access), Gpiom!GpioCycle(access, pins)
    PROVE  Gpiom!GpioTypeOK'
<1> USE DEF Gpiom!GpioTypeOK
<1>1. \A reg \in {"odr", "ier", "isr", "rier", "fier", "oenr"} :
          Gpiom!Written(access, reg) \in SUBSET Pins
  BY DEF Gpiom!Written, GpioGood, Spim!None, Gpiom!ReadReg, Gpiom!WriteReg
<1>2. Gpiom!interrupt_detected \in SUBSET Pins
  BY DEF Gpiom!interrupt_detected
<1>3. Gpiom!IsrAfter(access) \in SUBSET Pins
  BY <1>1, <1>2 DEF Gpiom!IsrAfter
<1>4. edges' \in [Pins -> Gpiom!Synchroniser]
  BY DEF Gpiom!GpioCycle, Gpiom!Sampled, Gpiom!Synchroniser
<1> QED
  BY <1>1, <1>3, <1>4 DEF Gpiom!GpioCycle

(* A cycle of the whole hardware.                                          *)
LEMMA HardwareKeepsTypes ==
    ASSUME IInv, HwInv, NEW port, NEW access, Bus(port, access),
           GoodBus(port, access)
    PROVE  HwInv'
<1> DEFINE To(p) == IF p = port THEN access ELSE Spim!None
<1>1. /\ Spim!SpiCycle(To("spi"), flash.miso)
      /\ Flash!FlashCycle(master.ss, master.sck)
      /\ Uartm!UartCycle(To("uart"), Host!Level)
      /\ Gpiom!GpioCycle(To("gpio"), din)
      /\ Host!Speak \/ host' = host
      /\ din' = din
  BY DEF Bus
<1>2. /\ To("spi") = Spim!None \/ SpiGood(To("spi"))
      /\ Uartm!GoodAccess(To("uart"))
      /\ To("gpio") = Spim!None \/ GpioGood(To("gpio"))
  BY DEF GoodBus, Uartm!GoodAccess, Uartm!None, Spim!None
<1> HIDE DEF To
<1>3. SpiInv'
  <2>1. spi_regs' \in SpiRegs
    BY <1>1, <1>2, SpiRegsKeepTypes DEF HwInv
  <2>2. /\ flash.miso \in Bit /\ spi_clk_divider_valid \in BOOLEAN
        /\ spi_clk_divider_valid => master.state = "IDLE"
    BY DEF HwInv, Flash!FlashTypeOK, IInv, SInv
  <2>3. master' \in Masters /\ Counted'
    <3>1. /\ Spim!MasterCycle(flash.miso)
          /\ Spim!SckGenerator!Cycle(master.en, spi_clk_divider_valid, spi_regs.cdr)
      BY <1>1 DEF Spim!SpiCycle
    <3> QED
      BY <2>2, <3>1, MasterKeepsTypes DEF HwInv, IInv
  <2> QED
    BY <2>1, <2>3 DEF SpiInv
<1>4. Flash!FlashTypeOK'
  <2>1. master.ss \in {0, 1} /\ master.sck \in {0, 1}
    BY DEF HwInv, SpiInv, Masters
  <2> QED
    BY <1>1, <2>1, FlashKeepsTypes DEF HwInv
<1>5. Host!Framed(Bytes)'
  <2>1. CASE Host!Speak
    BY <2>1, Host!SpeakKeepsFrames, BootAssumption DEF HwInv
  <2>2. CASE host' = host
    BY <2>2 DEF HwInv, Host!Framed
  <2> QED
    BY <1>1, <2>1, <2>2
<1>6. Uartm!UartTypeOK'
  <2>1. Uartm!UartAssumption
    BY BootAssumption, LoaderAssumption DEF Uartm!UartAssumption
  <2>2. Host!Level \in Bit
    BY Host!LevelIsBit, BootAssumption DEF HwInv, Bytes
  <2> QED
    BY <1>1, <1>2, <2>1, <2>2, Uartm!UartKeepsTypes DEF HwInv
<1>7. Gpiom!GpioTypeOK' /\ din' \subseteq Pins
  BY <1>1, <1>2, GpioKeepsTypes DEF HwInv
<1> QED
  BY <1>3, <1>4, <1>5, <1>6, <1>7 DEF HwInv

-----------------------------------------------------------------------------
(* The loader's variables.  A load begins at most once: the operations     *)
(* that lead to it are never there twice, and none is left when it began.  *)
Starters == {"uart_enable", "skip", "source", "spi", "uart"}
LoadOps  == SpiOps \cup UartOps \cup {"spi_divider", "store"}

NoStarter(s)  == \A k \in 1 .. Len(s) : s[k] \notin Starters
OneStarter(s) == \A j, k \in 1 .. Len(s) :
                     s[j] \in Starters /\ s[k] \in Starters => j = k

LoadInv ==
    /\ OneStarter(sw.todo)
    /\ loader.source # "none" => NoStarter(sw.todo)
    /\ loader.source = "none" => loader.i = 0 /\ loader.bytes = <<>>
    /\ loader.i \in 0 .. CodeWords
    /\ loader.bytes \in Seq(Bytes) /\ Len(loader.bytes) <= 4
    /\ Now \in LoadOps =>
           /\ loader.source # "none" /\ loader.i < CodeWords
           /\ Now # "store" => Len(loader.bytes) <= 3

BInv == HwInv /\ LoadInv /\ sw.gap <= Gap(Now)

(* A sequence without starters before or after one with a starter.         *)
LEMMA JoinNone ==
    ASSUME NEW S, NEW s \in Seq(S), NEW t \in Seq(S), NoStarter(s), NoStarter(t)
    PROVE  NoStarter(s \o t)
<1>1. /\ Len(s) \in Nat /\ Len(t) \in Nat /\ Len(s \o t) = Len(s) + Len(t)
      /\ \A k \in 1 .. Len(s) + Len(t) :
             (s \o t)[k] = IF k <= Len(s) THEN s[k] ELSE t[k - Len(s)]
  BY ConcatProperties, LenProperties
<1> QED
  BY <1>1 DEF NoStarter

(* One with a starter before or after one without.                         *)
LEMMA JoinOne ==
    ASSUME NEW S, NEW s \in Seq(S), NEW t \in Seq(S),
           \/ NoStarter(s) /\ OneStarter(t)
           \/ OneStarter(s) /\ NoStarter(t)
    PROVE  OneStarter(s \o t)
<1>1. /\ Len(s) \in Nat /\ Len(t) \in Nat /\ Len(s \o t) = Len(s) + Len(t)
      /\ \A k \in 1 .. Len(s) + Len(t) :
             (s \o t)[k] = IF k <= Len(s) THEN s[k] ELSE t[k - Len(s)]
  BY ConcatProperties, LenProperties
<1> SUFFICES ASSUME NEW j \in 1 .. Len(s) + Len(t), NEW k \in 1 .. Len(s) + Len(t),
                    (s \o t)[j] \in Starters, (s \o t)[k] \in Starters
             PROVE  j = k
  BY <1>1 DEF OneStarter
<1>2. CASE NoStarter(s) /\ OneStarter(t)
  <2>1. j > Len(s) /\ k > Len(s)
    BY <1>1, <1>2 DEF NoStarter
  <2>2. /\ j - Len(s) \in 1 .. Len(t) /\ k - Len(s) \in 1 .. Len(t)
        /\ t[j - Len(s)] \in Starters /\ t[k - Len(s)] \in Starters
    BY <1>1, <2>1
  <2>3. j - Len(s) = k - Len(s)
    BY <1>2, <2>2 DEF OneStarter
  <2> QED
    BY <1>1, <2>3
<1>3. CASE OneStarter(s) /\ NoStarter(t)
  <2>1. j <= Len(s) /\ k <= Len(s)
    BY <1>1, <1>3 DEF NoStarter
  <2>2. /\ j \in 1 .. Len(s) /\ k \in 1 .. Len(s)
        /\ s[j] \in Starters /\ s[k] \in Starters
    BY <1>1, <2>1
  <2> QED
    BY <1>3, <2>2 DEF OneStarter
<1> QED
  BY <1>2, <1>3

(* What is left after the operation at hand, if that one is a starter or   *)
(* none is there.                                                          *)
LEMMA TailOfStarters ==
    ASSUME NEW S, NEW s \in Seq(S), s # <<>>, OneStarter(s)
    PROVE  /\ Tail(s) \in Seq(S) /\ OneStarter(Tail(s))
           /\ Head(s) \in Starters \/ NoStarter(s) => NoStarter(Tail(s))
<1>1. /\ Tail(s) \in Seq(S) /\ Len(Tail(s)) = Len(s) - 1 /\ Head(s) = s[1]
      /\ Len(s) \in Nat /\ Len(s) >= 1
      /\ \A k \in 1 .. Len(Tail(s)) : Tail(s)[k] = s[k + 1]
  BY HeadTailProperties, LenProperties, EmptySeq
<1>2. \A k \in 1 .. Len(Tail(s)) : k + 1 \in 1 .. Len(s) /\ k + 1 # 1
  BY <1>1
<1>3. 1 \in 1 .. Len(s)
  BY <1>1
<1>4. OneStarter(Tail(s))
  <2> SUFFICES ASSUME NEW j \in 1 .. Len(Tail(s)), NEW k \in 1 .. Len(Tail(s)),
                      Tail(s)[j] \in Starters, Tail(s)[k] \in Starters
               PROVE  j = k
    BY DEF OneStarter
  <2>1. j + 1 = k + 1
    BY <1>1, <1>2 DEF OneStarter
  <2> QED
    BY <1>1, <2>1
<1>5. Head(s) \in Starters \/ NoStarter(s) => NoStarter(Tail(s))
  BY <1>1, <1>2, <1>3 DEF OneStarter, NoStarter
<1> QED
  BY <1>1, <1>4, <1>5

(* An operation is replaced by others, of which one is a starter only if   *)
(* it was one: what is said of the starters stays true.                    *)
LEMMA Replaced ==
    ASSUME NEW S, NEW s \in Seq(S), s # <<>>, OneStarter(s),
           NEW t \in Seq(S), OneStarter(t), Head(s) \notin Starters => NoStarter(t)
    PROVE  /\ OneStarter(t \o Tail(s))
           /\ NoStarter(s) => NoStarter(t \o Tail(s))
           /\ NoStarter(t) /\ Head(s) \in Starters => NoStarter(t \o Tail(s))
<1>1. /\ Tail(s) \in Seq(S) /\ OneStarter(Tail(s))
      /\ Head(s) \in Starters \/ NoStarter(s) => NoStarter(Tail(s))
  BY TailOfStarters
<1>2. NoStarter(s) => Head(s) \notin Starters
  BY HeadTailProperties, EmptySeq, LenProperties DEF NoStarter
<1>3. OneStarter(t \o Tail(s))
  BY <1>1, JoinOne
<1>4. NoStarter(s) => NoStarter(t \o Tail(s))
  BY <1>1, <1>2, JoinNone
<1>5. NoStarter(t) /\ Head(s) \in Starters => NoStarter(t \o Tail(s))
  BY <1>1, JoinNone
<1> QED
  BY <1>3, <1>4, <1>5

(* Any gap that an operation asks for is a cycle at least.                 *)
LEMMA GapsAreLong ==
    ASSUME SwOK
    PROVE  Gap(Now) \in Nat /\ Gap(Now) >= 1
  BY LoaderAssumption DEF SwOK, Gap

(* Where main goes on.  The constructor of the UART's driver comes once.   *)
Setup    == {"uart_divider", "uart_enable"}
LaterOps == MainOps \ Setup

LEMMA MainHasOneStarter ==
    /\ Main \in Seq(LaterOps) /\ OneStarter(Main)
    /\ CodeloadStep \in Seq(LaterOps) /\ OneStarter(CodeloadStep)
    /\ ThroughUart \in Seq(LaterOps) /\ OneStarter(ThroughUart)
    /\ ThroughSpi \o Success \o End \in Seq(LaterOps)
    /\ OneStarter(ThroughSpi \o Success \o End)
    /\ \A s \in {Say \o End, Success \o End, Failure, Blink \o <<"again">>} :
           s \in Seq(LaterOps) /\ OneStarter(s) /\ NoStarter(s)
<1> DEFINE S == Seq(LaterOps)
           None(s) == s \in S /\ NoStarter(s)
           One(s)  == s \in S /\ OneStarter(s)
<1>1. \A s, t : None(s) /\ None(t) => None(s \o t)
  BY JoinNone, ConcatProperties
<1>2. \A s, t : (None(s) /\ One(t)) \/ (One(s) /\ None(t)) => One(s \o t)
  BY JoinOne, ConcatProperties
<1>3. \A s : None(s) => One(s)
  BY DEF NoStarter, OneStarter
<1>4. None(Say) /\ None(Light) /\ None(Dark)
  BY DEF Say, Light, Dark, LaterOps, MainOps, Setup, NoStarter, Starters
<1>5. None(<<"delay">>) /\ None(<<"again">>) /\ None(<<"mtvec">>)
  BY DEF LaterOps, MainOps, Setup, NoStarter, Starters
<1>6. One(<<"skip">>) /\ One(<<"source">>) /\ One(<<"spi">>)
  BY DEF LaterOps, MainOps, Setup, OneStarter
<1>7. One(<<"uart", "uart_result">>)
  BY DEF LaterOps, MainOps, Setup, OneStarter, Starters
<1> HIDE DEF None, One
<1>8. None(Blink) /\ None(Blink \o <<"again">>)
  BY <1>1, <1>4, <1>5 DEF Blink
<1>9. None(Success) /\ None(End) /\ None(Failure)
  BY <1>1, <1>4, <1>5, <1>8 DEF Success, End, Failure
<1>10. None(Say \o End) /\ None(Success \o End)
  BY <1>1, <1>4, <1>9
<1>11. One(Main)
  BY <1>1, <1>2, <1>4, <1>5, <1>6, <1>8 DEF Main
<1>12. One(CodeloadStep)
  BY <1>6 DEF CodeloadStep
<1>13. One(ThroughUart) /\ One(ThroughSpi)
  BY <1>2, <1>4, <1>6, <1>7 DEF ThroughUart, ThroughSpi
<1>14. One(ThroughSpi \o Success \o End)
  <2>1. One(ThroughSpi \o Success)
    BY <1>2, <1>9, <1>13
  <2> QED
    BY <1>2, <1>9, <2>1
<1> QED
  BY <1>3, <1>8, <1>9, <1>10, <1>11, <1>12, <1>13, <1>14 DEF None, One

(* What a step of main puts in the place of its operation, and with which  *)
(* access: after the constructor one that leaves alone what it has set.    *)
Steady(port, access) ==
    port = "uart" => \/ access = Uartm!ReadReg("sr")
                     \/ \E fields : access = Uartm!WriteReg("tdr", fields)

MainPuts(port, access, ops) ==
    /\ Bus(port, access) /\ GoodBus(port, access)
    /\ Now \notin Setup => Steady(port, access)
    /\ ops \in Seq(LaterOps) /\ OneStarter(ops)
    /\ Now \notin Starters => NoStarter(ops)
    /\ sw'.todo = ops \o Tail(sw.todo) /\ sw'.gap = 1

LEMMA MainShape ==
    ASSUME SwOK, HwInv, MainStep
    PROVE  \E port, access, ops : MainPuts(port, access, ops)
<1> DEFINE Good == \E port, access, ops : MainPuts(port, access, ops)
<1> SUFFICES Good
  OBVIOUS
<1>1. ASSUME NEW port, NEW access, Bus(port, access), GoodBus(port, access),
             Now \notin Setup => Steady(port, access),
             NEW ops \in Seq(LaterOps), OneStarter(ops),
             Now \notin Starters => NoStarter(ops), Do(ops)
      PROVE  Good
  <2>1. sw'.todo = ops \o Tail(sw.todo) /\ sw'.gap = 1
    BY <1>1 DEF Do, SwOK, IsSw
  <2>2. MainPuts(port, access, ops)
    BY <1>1, <2>1 DEF MainPuts
  <2> QED
    BY <2>2
<1> HIDE DEF Good
<1>2. /\ <<>> \in Seq(LaterOps) /\ OneStarter(<<>>) /\ NoStarter(<<>>)
      /\ <<"said">> \in Seq(LaterOps) /\ OneStarter(<<"said">>) /\ NoStarter(<<"said">>)
  BY DEF LaterOps, MainOps, Setup, OneStarter, NoStarter, Starters
<1>3. /\ GoodBus("none", Spim!None)
      /\ GoodBus("uart", Uartm!ReadReg("sr"))
      /\ GoodBus("uart", Uartm!WriteReg("cdr", [cdr |-> UartDivider]))
      /\ GoodBus("uart", Uartm!WriteReg("cr", [en |-> TRUE]))
      /\ GoodBus("uart", Uartm!WriteReg("tdr", [tdr |-> Message]))
  <2>1. UartDivider \in Uartm!Clock!Divider
    BY BootAssumption DEF Uartm!Clock!Divider
  <2>2. Message \in Uartm!Tx!Byte
    BY BootAssumption DEF Message, Uartm!Tx!Byte
  <2> QED
    BY <2>1, <2>2 DEF GoodBus, Uartm!GoodAccess
<1>4. /\ GoodBus("gpio", Gpiom!ReadReg("idr"))
      /\ \A reg \in {"odr", "oenr"}, pins \in SUBSET Pins :
             GoodBus("gpio", Gpiom!WriteReg(reg, pins))
  BY DEF GoodBus, GpioGood
<1>5. /\ gpio_regs.oenr \ {StatusPin} \in SUBSET Pins
      /\ gpio_regs.odr \cup {StatusPin} \in SUBSET Pins
      /\ gpio_regs.odr \ {StatusPin} \in SUBSET Pins
  BY BootAssumption DEF HwInv, Gpiom!GpioTypeOK
<1>6. /\ \A access : Steady("none", access) /\ Steady("gpio", access)
      /\ Steady("uart", Uartm!ReadReg("sr"))
      /\ Steady("uart", Uartm!WriteReg("tdr", [tdr |-> Message]))
  BY DEF Steady
<1>7. CASE SetUartDivider
  <2>1. Now \in Setup
    BY <1>7 DEF SetUartDivider, UartWrite, At, Setup
  <2> QED
    BY <1>1, <1>2, <1>3, <1>7, <2>1 DEF SetUartDivider, UartWrite
<1>8. CASE EnableUart
  <2>1. Now \in Starters /\ Now \in Setup
    BY <1>8 DEF EnableUart, UartWrite, At, Starters, Setup
  <2> QED
    BY <1>1, <1>3, <1>8, <2>1, MainHasOneStarter DEF EnableUart, UartWrite
<1>9. CASE SayByte
  BY <1>1, <1>2, <1>3, <1>6, <1>9 DEF SayByte, UartWrite
<1>10. CASE PollTransmitter
  BY <1>1, <1>2, <1>3, <1>6, <1>10 DEF PollTransmitter
<1>11. CASE Skip
  <2>1. Now \in Starters
    BY <1>11 DEF Skip, ReadPin, At, Starters
  <2> QED
    BY <1>1, <1>4, <1>6, <1>11, <2>1, MainHasOneStarter DEF Skip, ReadPin
<1>12. CASE Source
  <2>1. Now \in Starters
    BY <1>12 DEF Source, ReadPin, At, Starters
  <2> QED
    BY <1>1, <1>4, <1>6, <1>12, <2>1, MainHasOneStarter DEF Source, ReadPin
<1>13. CASE CheckResult
  BY <1>1, <1>3, <1>6, <1>13, MainHasOneStarter DEF CheckResult, NoAccess
<1>14. CASE SetDirection
  BY <1>1, <1>2, <1>4, <1>5, <1>6, <1>14 DEF SetDirection, GpioWrite, Return
<1>15. CASE SetStatusPin
  BY <1>1, <1>2, <1>4, <1>5, <1>6, <1>15 DEF SetStatusPin, GpioWrite, Return
<1>16. CASE ClearStatusPin
  BY <1>1, <1>2, <1>4, <1>5, <1>6, <1>16 DEF ClearStatusPin, GpioWrite, Return
<1>17. CASE Delay
  BY <1>1, <1>2, <1>3, <1>6, <1>17 DEF Delay, Return, NoAccess
<1>18. CASE BlinkAgain
  BY <1>1, <1>3, <1>6, <1>18, MainHasOneStarter DEF BlinkAgain, NoAccess
<1>19. CASE SetTrapVector
  <2>1. sw.todo # <<>> /\ sw.todo \in Seq(Ops)
    BY <1>19 DEF SetTrapVector, At, Now, SwOK
  <2>2. <<>> \o Tail(sw.todo) = Tail(sw.todo)
    BY <2>1, HeadTailProperties, ConcatEmptySeq
  <2>3. sw'.todo = Tail(sw.todo) /\ sw'.gap = 1
    BY <1>19 DEF SetTrapVector, SwOK, IsSw
  <2>4. MainPuts("none", Spim!None, <<>>)
    BY <1>2, <1>3, <1>6, <1>19, <2>2, <2>3 DEF MainPuts, SetTrapVector, NoAccess
  <2> QED
    BY <2>4 DEF Good
<1> QED
  BY <1>7, <1>8, <1>9, <1>10, <1>11, <1>12, <1>13, <1>14, <1>15, <1>16, <1>17, <1>18,
     <1>19 DEF MainStep

(* The same of the operation that comes next.                              *)
LEMMA GapsStayLong ==
    ASSUME SwOK'
    PROVE  (Gap(Now) \in Nat /\ Gap(Now) >= 1)'
  BY LoaderAssumption DEF SwOK, Gap

(* The operation at hand comes first.                                      *)
LEMMA NowComesFirst ==
    ASSUME SwOK, Now # "jump"
    PROVE  /\ sw.todo \in Seq(Ops) /\ sw.todo # <<>> /\ Head(sw.todo) = Now
           /\ Now \in Starters => ~NoStarter(sw.todo)
<1>1. sw.todo \in Seq(Ops) /\ sw.todo # <<>> /\ Head(sw.todo) = Now
  BY DEF SwOK, Now
<1>2. Now = sw.todo[1] /\ 1 \in 1 .. Len(sw.todo)
  BY <1>1, HeadTailProperties, EmptySeq, LenProperties
<1> QED
  BY <1>1, <1>2 DEF NoStarter

(* A cycle without an access.                                              *)
LEMMA WaitTyped ==
    ASSUME IInv, BInv, Wait
    PROVE  BInv'
<1>1. /\ SwOK' /\ Now' = Now /\ sw'.gap = sw.gap + 1 /\ sw'.pace = sw.pace
      /\ loader' = loader /\ sw'.todo = sw.todo
  BY Waiting DEF Wait, IInv, SwOK, IsSw
<1>2. HwInv'
  <2>1. Bus("none", Spim!None) /\ GoodBus("none", Spim!None)
    BY DEF Wait, NoAccess, GoodBus
  <2> QED
    BY <2>1, HardwareKeepsTypes DEF BInv
<1>3. LoadInv'
  BY <1>1 DEF BInv, LoadInv, OneStarter, NoStarter
<1>4. sw'.gap <= Gap(Now)'
  <2>1. Gap(Now)' = Gap(Now)
    BY <1>1 DEF Gap
  <2>2. sw.gap < Gap(Now) /\ sw.gap \in Nat /\ Gap(Now) \in Nat
    BY GapsAreLong DEF Wait, IInv, SwOK
  <2> QED
    BY <1>1, <2>1, <2>2
<1> QED
  BY <1>2, <1>3, <1>4 DEF BInv

(* The steps of main.                                                      *)
LEMMA MainStepTyped ==
    ASSUME IInv, BInv, MainStep
    PROVE  BInv'
<1>1. /\ Now \in MainOps /\ loader' = loader
      /\ SwOK' /\ Now' \in MainOps \cup {"jump"}
  BY MainGoesOn DEF IInv
<1>2. PICK port, access, ops : MainPuts(port, access, ops)
  BY MainShape DEF IInv, BInv
<1>3. HwInv'
  BY <1>2, HardwareKeepsTypes DEF BInv, MainPuts
<1>4. OneStarter(sw'.todo) /\ (NoStarter(sw.todo) => NoStarter(sw'.todo))
  <2>1. Now # "jump" /\ LaterOps \subseteq Ops
    BY <1>1 DEF LaterOps, MainOps, Ops
  <2>2. sw.todo \in Seq(Ops) /\ sw.todo # <<>> /\ Head(sw.todo) = Now
    BY <2>1, NowComesFirst DEF IInv
  <2>3. ops \in Seq(Ops)
    BY <1>2, <2>1, SeqMonotonic DEF MainPuts
  <2> QED
    BY <1>2, <2>2, <2>3, Replaced DEF MainPuts, BInv, LoadInv
<1>5. LoadInv'
  <2>1. Now' \notin LoadOps
    BY <1>1 DEF MainOps, LoadOps, SpiOps, UartOps
  <2>2. OneStarter(sw.todo)' /\ (NoStarter(sw.todo) => NoStarter(sw.todo)')
    BY <1>4 DEF OneStarter, NoStarter
  <2> QED
    BY <1>1, <2>1, <2>2 DEF BInv, LoadInv
<1>6. sw'.gap <= Gap(Now)'
  BY <1>1, <1>2, GapsStayLong DEF MainPuts
<1> QED
  BY <1>3, <1>5, <1>6 DEF BInv

(* A step of a load, or the first of one.                                  *)
LEMMA LoadGoesOn ==
    ASSUME IInv, LoadInv, Now \in LoadOps \cup Starters, SwOK',
           NEW ops \in Seq(Ops), NoStarter(ops), Do(ops),
           loader'.source # "none", loader'.i \in 0 .. CodeWords,
           loader'.bytes \in Seq(Bytes), Len(loader'.bytes) <= 4,
           Now' \in LoadOps =>
               /\ loader'.i < CodeWords
               /\ Now' # "store" => Len(loader'.bytes) <= 3
    PROVE  LoadInv' /\ sw'.gap <= Gap(Now)'
<1>1. sw'.todo = ops \o Tail(sw.todo) /\ sw'.gap = 1
  BY DEF Do, IInv, SwOK, IsSw
<1>2. /\ sw.todo \in Seq(Ops) /\ sw.todo # <<>> /\ Head(sw.todo) = Now
      /\ OneStarter(ops)
  <2>1. Now # "jump"
    BY DEF LoadOps, SpiOps, UartOps, Starters
  <2> QED
    BY <2>1, NowComesFirst DEF IInv, OneStarter, NoStarter
<1>3. Now \in LoadOps => NoStarter(sw.todo)
  BY DEF LoadInv
<1>4. OneStarter(sw'.todo) /\ NoStarter(sw'.todo)
  BY <1>1, <1>2, <1>3, Replaced DEF LoadInv
<1>5. OneStarter(sw.todo)' /\ NoStarter(sw.todo)'
  BY <1>4 DEF OneStarter, NoStarter
<1>6. LoadInv'
  BY <1>5 DEF LoadInv
<1> QED
  BY <1>1, <1>6, GapsStayLong

(* A step of a load that goes on to another operation, with the loader's   *)
(* count and bytes as they were.                                           *)
LEMMA LoadStays ==
    ASSUME IInv, BInv, Now \in LoadOps \ {"store"},
           NEW port, NEW access, Bus(port, access), GoodBus(port, access),
           loader'.source = loader.source, loader'.i = loader.i,
           loader'.bytes = loader.bytes,
           \/ \E op \in LoadOps \ {"store"} : Do(<<op>>)
           \/ Do(<<>>)
    PROVE  BInv'
<1>1. HwInv'
  BY HardwareKeepsTypes DEF BInv
<1>2. /\ Now # "jump" /\ loader.source # "none" /\ loader.i < CodeWords
      /\ Len(loader.bytes) <= 3
  BY DEF BInv, LoadInv, LoadOps, SpiOps, UartOps
<1>3. loader.i \in 0 .. CodeWords /\ loader.bytes \in Seq(Bytes)
      /\ Len(loader.bytes) <= 4
  BY DEF BInv, LoadInv
<1>4. CASE \E op \in LoadOps \ {"store"} : Do(<<op>>)
  <2>1. PICK op \in LoadOps \ {"store"} : Do(<<op>>)
    BY <1>4
  <2>2. op \in Ops
    BY DEF LoadOps, Ops
  <2>3. SwOK'
    BY <1>2, <2>1, <2>2, GoesTo DEF IInv
  <2>4. <<op>> \in Seq(Ops) /\ NoStarter(<<op>>)
    BY <2>2 DEF NoStarter, Starters, LoadOps, SpiOps, UartOps
  <2> QED
    BY <1>1, <1>2, <1>3, <2>1, <2>3, <2>4, LoadGoesOn DEF BInv
<1>5. CASE Do(<<>>)
  <2>1. SwOK'
    BY <1>2, <1>5, DoesGoOn, EmptySeq DEF IInv
  <2>2. <<>> \in Seq(Ops) /\ NoStarter(<<>>)
    BY DEF NoStarter
  <2> QED
    BY <1>1, <1>2, <1>3, <1>5, <2>1, <2>2, LoadGoesOn DEF BInv
<1> QED
  BY <1>4, <1>5

(* A load begins, and no load has begun before.                            *)
LEMMA LoadBegins ==
    ASSUME IInv, BInv, Now \in Starters,
           NEW port, NEW access, Bus(port, access), GoodBus(port, access),
           loader'.source # "none", loader'.i = loader.i,
           loader'.bytes = loader.bytes,
           NEW op \in LoadOps \ {"store"}, Do(<<op>>)
    PROVE  BInv'
<1>1. HwInv'
  BY HardwareKeepsTypes DEF BInv
<1>2. Now # "jump"
  BY DEF Starters
<1>3. loader.i = 0 /\ loader.bytes = <<>>
  BY <1>2, NowComesFirst DEF IInv, BInv, LoadInv
<1>4. /\ loader'.i \in 0 .. CodeWords /\ loader'.i < CodeWords
      /\ loader'.bytes \in Seq(Bytes) /\ Len(loader'.bytes) = 0
  BY <1>3, BootAssumption
<1>5. op \in Ops
  BY DEF LoadOps, Ops
<1>6. SwOK'
  BY <1>2, <1>5, GoesTo DEF IInv
<1>7. <<op>> \in Seq(Ops) /\ NoStarter(<<op>>)
  BY <1>5 DEF NoStarter, Starters, LoadOps, SpiOps, UartOps
<1>8. LoadInv /\ Now \in LoadOps \cup Starters
  BY DEF BInv
<1>9. LoadInv' /\ sw'.gap <= Gap(Now)'
  <2> DEFINE ops == <<op>>
  <2>1. ops \in Seq(Ops) /\ NoStarter(ops) /\ Do(ops)
    BY <1>7
  <2>2. Len(loader'.bytes) <= 4 /\ Len(loader'.bytes) <= 3
    BY <1>4
  <2> HIDE DEF ops
  <2> QED
    BY <1>4, <1>6, <1>8, <2>1, <2>2, LoadGoesOn
<1> QED
  BY <1>1, <1>9 DEF BInv

(* A byte is taken out of a receive register.                              *)
LEMMA ByteTyped ==
    ASSUME IInv, BInv, NEW op \in {"spi_write", "uart_poll"},
           Now \in {"spi_get", "uart_get"}, NEW byte \in Bytes,
           loader' = Taken(byte), Do(AfterByte(op)),
           NEW port, NEW access, Bus(port, access), GoodBus(port, access)
    PROVE  BInv'
<1>1. HwInv'
  BY HardwareKeepsTypes DEF BInv
<1>2. Now # "jump" /\ Now \in LoadOps \ {"store"}
  BY DEF LoadOps, SpiOps, UartOps
<1>3. /\ loader.source # "none" /\ loader.i < CodeWords /\ Len(loader.bytes) <= 3
      /\ loader.i \in 0 .. CodeWords /\ loader.bytes \in Seq(Bytes)
      /\ Len(loader.bytes) \in Nat
  BY <1>2, LenProperties DEF BInv, LoadInv
<1>4. /\ loader'.source = loader.source /\ loader'.i = loader.i
      /\ loader'.bytes = Append(loader.bytes, byte)
  BY DEF IInv, LoaderOK, Taken
<1>5. /\ loader'.bytes \in Seq(Bytes)
      /\ Len(loader'.bytes) = Len(loader.bytes) + 1
  BY <1>3, <1>4, AppendProperties
<1>6. PICK next \in {"store", op} : /\ Do(<<next>>)
                                    /\ Len(loader.bytes) = 3 <=> next = "store"
  BY DEF AfterByte
<1>7. next \in Ops /\ <<next>> \in Seq(Ops) /\ NoStarter(<<next>>)
  BY DEF Ops, SpiOps, UartOps, NoStarter, Starters
<1>8. SwOK' /\ Now' = next
  BY <1>2, <1>6, <1>7, GoesTo DEF IInv
<1>9. Now' # "store" => Len(loader'.bytes) <= 3
  <2> DEFINE n == Len(loader.bytes)
  <2>1. n \in Nat /\ n <= 3 /\ (n = 3 <=> next = "store")
    BY <1>3, <1>6
  <2>2. Len(loader'.bytes) = n + 1
    BY <1>5
  <2>3. Now' = next
    BY <1>8
  <2> HIDE DEF n
  <2> QED
    BY <2>1, <2>2, <2>3
<1>10. Len(loader'.bytes) <= 4
  BY <1>3, <1>5
<1>11. LoadInv /\ Now \in LoadOps \cup Starters
  BY <1>2 DEF BInv
<1>12. LoadInv' /\ sw'.gap <= Gap(Now)'
  <2>1. loader'.source # "none" /\ loader'.i \in 0 .. CodeWords /\ loader'.i < CodeWords
    BY <1>3, <1>4
  <2> DEFINE ops == <<next>>
  <2>2. ops \in Seq(Ops) /\ NoStarter(ops) /\ Do(ops)
    BY <1>6, <1>7
  <2>3. Now' \in LoadOps => /\ loader'.i < CodeWords
                            /\ Now' # "store" => Len(loader'.bytes) <= 3
    BY <1>9, <2>1
  <2>4. SwOK' /\ loader'.bytes \in Seq(Bytes)
    BY <1>5, <1>8
  <2> HIDE DEF ops
  <2> QED
    BY <1>10, <1>11, <2>1, <2>2, <2>3, <2>4, LoadGoesOn
<1> QED
  BY <1>1, <1>12 DEF BInv

(* A word is stored.                                                       *)
LEMMA StoreTyped ==
    ASSUME IInv, BInv, Store
    PROVE  BInv'
<1>1. Now = "store" /\ Now # "jump" /\ Now \in LoadOps
  BY DEF Store, At, LoadOps
<1>2. HwInv'
  <2>1. Bus("none", Spim!None) /\ GoodBus("none", Spim!None)
    BY DEF Store, NoAccess, GoodBus
  <2> QED
    BY <2>1, HardwareKeepsTypes DEF BInv
<1>3. loader.source # "none" /\ loader.i < CodeWords /\ loader.i \in 0 .. CodeWords
  BY <1>1 DEF BInv, LoadInv
<1>4. /\ loader'.source = loader.source /\ loader'.i = loader.i + 1
      /\ loader'.bytes = <<>>
  BY DEF IInv, LoaderOK, Store
<1>5. /\ loader'.i \in 0 .. CodeWords
      /\ loader'.bytes \in Seq(Bytes) /\ Len(loader'.bytes) = 0
  BY <1>3, <1>4, BootAssumption
<1>8. LoadInv /\ Now \in LoadOps \cup Starters /\ loader'.source # "none"
      /\ Len(loader'.bytes) <= 3 /\ Len(loader'.bytes) <= 4
  BY <1>1, <1>3, <1>4, <1>5 DEF BInv
<1> SUFFICES LoadInv' /\ sw'.gap <= Gap(Now)'
  BY <1>2 DEF BInv
<1>6. CASE loader.i + 1 = CodeWords
  <2>1. Do(<<>>)
    BY <1>6 DEF Store, Return
  <2>2. SwOK' /\ Now' \notin LoadOps
    <3>1. SwOK' /\ Now' \in MainOps \cup {"jump"}
      BY <1>1, <2>1, DoesGoOn, EmptySeq DEF IInv
    <3> QED
      BY <3>1 DEF MainOps, LoadOps, SpiOps, UartOps
  <2>3. <<>> \in Seq(Ops) /\ NoStarter(<<>>)
    BY DEF NoStarter
  <2> QED
    BY <1>3, <1>4, <1>5, <1>8, <2>1, <2>2, <2>3, LoadGoesOn
<1>7. CASE loader.i + 1 # CodeWords
  <2>1. PICK op \in {"spi_write", "uart_poll"} : Do(<<op>>)
    BY <1>7 DEF Store
  <2>2. op \in Ops /\ <<op>> \in Seq(Ops) /\ NoStarter(<<op>>)
    BY DEF Ops, SpiOps, UartOps, NoStarter, Starters
  <2>3. SwOK'
    BY <1>1, <2>1, <2>2, GoesTo DEF IInv
  <2>4. loader'.i < CodeWords
    BY <1>3, <1>4, <1>7, BootAssumption
  <2> QED
    BY <1>3, <1>4, <1>5, <1>8, <2>1, <2>2, <2>3, <2>4, LoadGoesOn
<1> QED
  BY <1>6, <1>7

(* The steps of a load.                                                    *)
LEMMA LoaderStepTyped ==
    ASSUME IInv, BInv, LoaderStep
    PROVE  BInv'
<1>1. CASE Store
  BY <1>1, StoreTyped
<1>2. CASE SetPhase
  <2> DEFINE access == Spim!WriteReg("cr", [cpol |-> spi_regs.cpol, cpha |-> TRUE])
  <2>1. spi_regs.cpol \in {0, 1}
    BY DEF BInv, HwInv, SpiInv, SpiRegs
  <2>2. Bus("spi", access) /\ GoodBus("spi", access)
    BY <1>2, <2>1 DEF SetPhase, GoodBus, SpiGood
  <2>3. Now \in Starters /\ Do(<<"spi_divider">>) /\ "spi_divider" \in LoadOps \ {"store"}
    BY <1>2 DEF SetPhase, At, Starters, LoadOps
  <2>4. loader'.source # "none" /\ loader'.i = loader.i /\ loader'.bytes = loader.bytes
    BY <1>2, LoaderFields DEF IInv, SetPhase
  <2> HIDE DEF access
  <2> QED
    BY <2>2, <2>3, <2>4, LoadBegins
<1>3. ASSUME NEW op, NEW next, ReadLow(op, next)
      PROVE  /\ Now = op /\ Bus("none", Spim!None) /\ GoodBus("none", Spim!None)
             /\ Do(<<next>>) /\ loader'.source = "uart"
             /\ loader'.i = loader.i /\ loader'.bytes = loader.bytes
  <2>1. PICK low, began :
            loader' = [loader EXCEPT !.low = low, !.source = "uart", !.began = began]
    BY <1>3 DEF ReadLow
  <2>2. loader' = [source |-> "uart", i |-> loader.i, bytes |-> loader.bytes,
                   low |-> low, timeout |-> loader.timeout,
                   began |-> began, result |-> loader.result]
    BY <2>1, BegunFields DEF IInv
  <2> QED
    BY <1>3, <2>2 DEF ReadLow, At, NoAccess, GoodBus
<1>4. CASE ReadLow("uart", "timeout_high")
  <2>1. Now \in Starters /\ "timeout_high" \in LoadOps \ {"store"}
    BY <1>3, <1>4 DEF Starters, LoadOps, UartOps
  <2>2. /\ Bus("none", Spim!None) /\ GoodBus("none", Spim!None)
        /\ Do(<<"timeout_high">>) /\ loader'.source # "none"
        /\ loader'.i = loader.i /\ loader'.bytes = loader.bytes
    BY <1>3, <1>4
  <2> QED
    BY <2>1, <2>2, LoadBegins
<1>5. CASE ReadLow("test_low", "test_high")
  <2>1. Now \in LoadOps \ {"store"} /\ "test_high" \in LoadOps \ {"store"}
    BY <1>5 DEF ReadLow, At, LoadOps, UartOps
  <2>2. /\ Bus("none", Spim!None) /\ GoodBus("none", Spim!None)
        /\ Do(<<"test_high">>) /\ loader'.source = "uart"
        /\ loader'.i = loader.i /\ loader'.bytes = loader.bytes
    BY <1>3, <1>5
  <2>3. loader'.source = loader.source
    BY <1>3, <1>5, <2>2 DEF IInv, OpsInv, UartOps
  <2> QED
    BY <2>1, <2>2, <2>3, LoadStays
<1>6. ASSUME NEW port, NEW access, Bus(port, access), GoodBus(port, access),
             Now \in LoadOps \ {"store"}, loader' = loader,
             NEW op \in LoadOps \ {"store"}, Do(<<op>>)
      PROVE  BInv'
  <2>1. /\ loader'.source = loader.source /\ loader'.i = loader.i
        /\ loader'.bytes = loader.bytes
    BY <1>6
  <2> QED
    BY <1>6, <2>1, LoadStays
<1>7. CASE SetSpiDivider
  <2>1. GoodBus("spi", Spim!WriteReg("cdr", [cdr |-> SpiDivider]))
    BY DEF GoodBus, SpiGood
  <2>2. /\ Now \in LoadOps \ {"store"} /\ "spi_write" \in LoadOps \ {"store"}
        /\ Do(<<"spi_write">>) /\ loader' = loader
        /\ Bus("spi", Spim!WriteReg("cdr", [cdr |-> SpiDivider]))
    BY <1>7 DEF SetSpiDivider, At, LoadOps, SpiOps
  <2> QED
    BY <1>6, <2>1, <2>2
<1>8. CASE WriteSpi
  <2>1. GoodBus("spi", Spim!WriteReg("tdr", [tdr |-> Spim!Zeros]))
    BY DEF GoodBus, SpiGood
  <2>2. /\ Now \in LoadOps \ {"store"} /\ "spi_poll" \in LoadOps \ {"store"}
        /\ Do(<<"spi_poll">>) /\ loader' = loader
        /\ Bus("spi", Spim!WriteReg("tdr", [tdr |-> Spim!Zeros]))
    BY <1>8 DEF WriteSpi, At, LoadOps, SpiOps
  <2> QED
    BY <1>6, <2>1, <2>2
<1>9. CASE PollSpi
  <2>1. GoodBus("spi", Spim!ReadReg("sr"))
    BY DEF GoodBus, SpiGood
  <2>2. PICK op \in {"spi_get", "spi_poll"} : Do(<<op>>)
    BY <1>9 DEF PollSpi
  <2>3. /\ Now \in LoadOps \ {"store"} /\ op \in LoadOps \ {"store"}
        /\ loader' = loader /\ Bus("spi", Spim!ReadReg("sr"))
    BY <1>9 DEF PollSpi, At, LoadOps, SpiOps
  <2> QED
    BY <1>6, <2>1, <2>2, <2>3
<1>10. CASE GetSpi
  <2>1. spi_regs.rdr \in Bytes
    BY DEF BInv, HwInv, SpiInv, SpiRegs
  <2>2. GoodBus("spi", Spim!ReadReg("rdr"))
    BY DEF GoodBus, SpiGood
  <2>3. /\ Now \in {"spi_get", "uart_get"} /\ loader' = Taken(spi_regs.rdr)
        /\ Do(AfterByte("spi_write")) /\ Bus("spi", Spim!ReadReg("rdr"))
    BY <1>10 DEF GetSpi, At
  <2> QED
    BY <2>1, <2>2, <2>3, ByteTyped
<1>11. CASE SetTimeout
  <2>1. GoodBus("none", Spim!None)
    BY DEF GoodBus
  <2>2. /\ Now \in LoadOps \ {"store"} /\ "uart_poll" \in LoadOps \ {"store"}
        /\ Do(<<"uart_poll">>) /\ Bus("none", Spim!None)
    BY <1>11 DEF SetTimeout, NoAccess, At, LoadOps, UartOps
  <2>3. /\ loader'.source = loader.source /\ loader'.i = loader.i
        /\ loader'.bytes = loader.bytes
    BY <1>11, LoaderFields DEF IInv, SetTimeout
  <2> QED
    BY <2>1, <2>2, <2>3, LoadStays
<1>12. CASE PollUart
  <2>1. GoodBus("uart", Uartm!ReadReg("sr"))
    BY DEF GoodBus, Uartm!GoodAccess
  <2>2. PICK op \in {"uart_ask", "test_low"} : Do(<<op>>)
    BY <1>12 DEF PollUart
  <2>3. /\ Now \in LoadOps \ {"store"} /\ op \in LoadOps \ {"store"}
        /\ loader' = loader /\ Bus("uart", Uartm!ReadReg("sr"))
    BY <1>12 DEF PollUart, At, LoadOps, UartOps
  <2> QED
    BY <1>6, <2>1, <2>2, <2>3
<1>13. CASE TestTimeout
  <2>1. GoodBus("none", Spim!None)
    BY DEF GoodBus
  <2>2. PICK op \in {"uart_poll", "uart_ask"} : Do(<<op>>)
    BY <1>13 DEF TestTimeout
  <2>3. /\ Now \in LoadOps \ {"store"} /\ op \in LoadOps \ {"store"}
        /\ loader' = loader /\ Bus("none", Spim!None)
    BY <1>13 DEF TestTimeout, NoAccess, At, LoadOps, UartOps
  <2> QED
    BY <1>6, <2>1, <2>2, <2>3
<1>14. CASE AskAgain
  <2>1. GoodBus("uart", Uartm!ReadReg("sr"))
    BY DEF GoodBus, Uartm!GoodAccess
  <2>2. /\ Now \in LoadOps \ {"store"} /\ "uart_get" \in LoadOps \ {"store"}
        /\ Bus("uart", Uartm!ReadReg("sr"))
        /\ Do(<<"uart_get">>) \/ Do(<<>>)
    BY <1>14 DEF AskAgain, At, LoadOps, UartOps
  <2>3. /\ loader'.source = loader.source /\ loader'.i = loader.i
        /\ loader'.bytes = loader.bytes
    BY <1>14, LoaderFields DEF IInv, AskAgain
  <2>4. \/ \E op \in LoadOps \ {"store"} : Do(<<op>>)
        \/ Do(<<>>)
    BY <2>2
  <2> QED
    BY <2>1, <2>2, <2>3, <2>4, LoadStays
<1>15. CASE GetUart
  <2>1. uart_regs.rdr \in Bytes
    BY DEF BInv, HwInv, Uartm!UartTypeOK, Uartm!Rx!Byte, Bytes
  <2>2. GoodBus("uart", Uartm!ReadReg("rdr"))
    BY DEF GoodBus, Uartm!GoodAccess
  <2>3. /\ Now \in {"spi_get", "uart_get"} /\ loader' = Taken(uart_regs.rdr)
        /\ Do(AfterByte("uart_poll")) /\ Bus("uart", Uartm!ReadReg("rdr"))
    BY <1>15 DEF GetUart, At
  <2> QED
    BY <2>1, <2>2, <2>3, ByteTyped
<1> QED
  BY <1>1, <1>2, <1>4, <1>5, <1>7, <1>8, <1>9, <1>10, <1>11, <1>12, <1>13, <1>14,
     <1>15 DEF LoaderStep

(* An idle host is between two slots.                                      *)
LEMMA IdleSlot ==
    -1 \in Host!Slots /\ BitTime \in Host!Duration
<1>1. DataBits \in Nat /\ BitTime \in Nat \ {0}
  BY BootAssumption, LoaderAssumption
<1>2. -1 \in Host!Slots
  BY <1>1 DEF Host!Slots
<1>3. BitTime \in Host!Duration
  BY <1>1 DEF Host!Duration
<1> QED
  BY <1>2, <1>3

(* The invariant holds in the beginning.                                   *)
LEMMA BInvStarts ==
    ASSUME BootInit
    PROVE  BInv
<1> USE BootAssumption, LoaderAssumption DEF BootInit
<1>1. /\ 0 \in Bit /\ 1 \in Bit /\ DataBits \in 1 .. 15 /\ MaxDivider \in Nat
      /\ 0 \in 0 .. MaxDivider
  OBVIOUS
<1>2. SpiInv
  <2>1. Spim!Zeros \in Bytes /\ 0 \in 0 .. DataBits
    BY <1>1 DEF Spim!Zeros, Bytes
  <2>2. spi_regs \in SpiRegs
    BY <1>1, <2>1 DEF Spim!SpiInit, SpiRegs
  <2>3. master \in Masters
    BY <1>1, <2>1 DEF Spim!SpiInit, Masters
  <2>4. Counted
    BY DEF Spim!SpiInit, Spim!SckGenerator!Init, Counted
  <2> QED
    BY <2>2, <2>3, <2>4 DEF SpiInv
<1>3. Flash!FlashTypeOK
  <2>1. Flash!Blank \in Flash!FlashByte /\ Flash!Low \in Flash!Synchroniser
        /\ 0 \in 0 .. Flash!FlashSpace - 1 /\ 0 \in 0 .. 3 /\ 0 \in 0 .. 15
    BY <1>1 DEF Flash!Blank, Flash!FlashByte, Flash!Low, Flash!Synchroniser,
       Flash!FlashSpace
  <2> QED
    BY <1>1, <2>1 DEF Flash!FlashInit, Flash!FlashTypeOK
<1>4. Uartm!UartTypeOK
  <2> USE DEF Uartm!UartInit
  <2>1. Uartm!Zeros \in Uartm!Tx!Byte /\ Uartm!Zeros \in Uartm!Rx!Byte
        /\ 0 \in Uartm!Clock!Divider
    BY <1>1 DEF Uartm!Zeros, Uartm!Tx!Byte, Uartm!Rx!Byte, Uartm!Clock!Divider
  <2>2. Uartm!Clock!TypeOK
    BY <2>1 DEF Uartm!Clock!Init, Uartm!Clock!TypeOK
  <2>3. Uartm!Tx!TypeOK
    BY <1>1 DEF Uartm!Tx!Init, Uartm!Tx!TypeOK, Uartm!Tx!Byte, Uartm!Tx!States
  <2>4. Uartm!Rx!TypeOK
    BY <1>1 DEF Uartm!Rx!Init, Uartm!Rx!TypeOK, Uartm!Rx!Byte, Uartm!Rx!States,
       Uartm!Rx!Zeros
  <2>5. uart_regs \in [en : BOOLEAN, rxne : BOOLEAN, txact : BOOLEAN,
                       rxerr : BOOLEAN, tdr : Uartm!Tx!Byte, rdr : Uartm!Rx!Byte,
                       cdr : Uartm!Clock!Divider]
    BY <2>1
  <2> QED
    BY <2>2, <2>3, <2>4, <2>5 DEF Uartm!UartTypeOK
<1>5. Host!Framed(Bytes)
  <2>1. PICK sent \in Sent, pause \in Pauses :
            Host!Starts([n \in 1 .. sent |-> HostByte(n)], BitTime,
                        IF sent = 0 THEN 0 ELSE 1 + pause)
    OBVIOUS
  <2> DEFINE line == [n \in 1 .. sent |-> HostByte(n)]
             left == IF sent = 0 THEN 0 ELSE 1 + pause
  <2>2. sent \in Nat /\ pause \in Nat /\ left \in Nat /\ (left > 0 => sent # 0)
    OBVIOUS
  <2>3. \A n \in 1 .. sent : HostByte(n) \in Bytes
    BY DEF Bytes
  <2>4. line \in Seq(Bytes) /\ (sent # 0 => line # <<>>)
    <3>1. line \in [1 .. sent -> Bytes]
      BY <2>3
    <3>2. line \in Seq(Bytes) /\ Len(line) = sent
      BY <2>2, <3>1, SeqDef
    <3> QED
      BY <3>2
  <2>5. host = [line |-> line, queue |-> line, bit_time |-> BitTime, slot |-> -1,
                left |-> left]
    BY <2>1 DEF Host!Starts
  <2> HIDE DEF line, left
  <2>6. -1 \in Host!Slots /\ BitTime \in Host!Duration
    BY IdleSlot
  <2> QED
    BY <2>2, <2>4, <2>5, <2>6 DEF Host!Framed, Host!Hosts
<1>6. Gpiom!GpioTypeOK
  BY DEF Gpiom!GpioInit, Gpiom!GpioTypeOK, Gpiom!Low, Gpiom!Synchroniser
<1>7. din \subseteq Pins
  OBVIOUS
<1>8. LoadInv /\ sw.gap <= Gap(Now)
  <2>1. PICK pace \in Paces :
            sw = [todo |-> <<"uart_divider", "uart_enable">>, gap |-> 1,
                  pace |-> pace, mtvec |-> "boot_rom"]
    OBVIOUS
  <2>2. /\ sw.todo = <<"uart_divider", "uart_enable">> /\ sw.gap = 1
        /\ Now = "uart_divider"
    BY <2>1 DEF Now
  <2>3. /\ loader.source = "none" /\ loader.i = 0 /\ loader.bytes = <<>>
        /\ 0 \in 0 .. CodeWords /\ <<>> \in Seq(Bytes) /\ Len(<<>>) = 0
    OBVIOUS
  <2>4. OneStarter(sw.todo)
    <3> DEFINE s == <<"uart_divider", "uart_enable">>
    <3>1. Len(s) = 2 /\ s[1] \notin Starters
      BY DEF Starters
    <3> HIDE DEF s
    <3>2. \A j, k \in 1 .. Len(s) : s[j] \in Starters /\ s[k] \in Starters => j = k
      <4> SUFFICES ASSUME NEW j \in 1 .. 2, NEW k \in 1 .. 2,
                          s[j] \in Starters, s[k] \in Starters
                   PROVE  j = k
        BY <3>1
      <4>1. j # 1 /\ k # 1
        BY <3>1
      <4> QED
        BY <4>1
    <3>3. OneStarter(s)
      BY <3>2 DEF OneStarter
    <3> QED
      BY <2>2, <3>3 DEF s
  <2>5. Now \notin LoadOps
    BY <2>2 DEF LoadOps, SpiOps, UartOps
  <2>6. sw.gap <= Gap(Now)
    BY <2>2, IInvStarts, GapsAreLong DEF IInv
  <2> QED
    BY <2>3, <2>4, <2>5, <2>6 DEF LoadInv
<1> QED
  BY <1>2, <1>3, <1>4, <1>5, <1>6, <1>7, <1>8 DEF BInv, HwInv

(* The invariant is inductive.                                             *)
LEMMA BInvHolds ==
    ASSUME IInv, BInv, [BootNext]_loadervars
    PROVE  BInv'
<1>1. CASE Wait
  BY <1>1, WaitTyped
<1>2. CASE LoaderStep
  BY <1>2, LoaderStepTyped
<1>3. CASE MainStep
  BY <1>3, MainStepTyped
<1>4. CASE UNCHANGED loadervars
  <2> USE <1>4 DEF loadervars, hwvars
  <2>1. SpiInv'
    BY DEF BInv, HwInv, SpiInv, Counted
  <2>2. Flash!FlashTypeOK' /\ Gpiom!GpioTypeOK' /\ (din \subseteq Pins)'
    BY DEF BInv, HwInv, Flash!FlashTypeOK, Gpiom!GpioTypeOK
  <2>3. Uartm!UartTypeOK'
    BY DEF BInv, HwInv, Uartm!UartTypeOK, Uartm!Clock!TypeOK, Uartm!Tx!TypeOK,
       Uartm!Rx!TypeOK
  <2>4. Host!Framed(Bytes)'
    BY DEF BInv, HwInv, Host!Framed
  <2>5. Now' = Now /\ Gap(Now)' = Gap(Now) /\ sw' = sw /\ loader' = loader
    BY DEF Now, Gap
  <2>6. LoadInv' /\ sw'.gap <= Gap(Now)'
    BY <2>5 DEF BInv, LoadInv, OneStarter, NoStarter
  <2> QED
    BY <2>1, <2>2, <2>3, <2>4, <2>6 DEF BInv, HwInv
<1> QED
  BY <1>1, <1>2, <1>3, <1>4 DEF BootNext, MainStep, Running

(* Whatever the images, the paces, the host and the pins: the registers of *)
(* the SPI, the UART and the GPIO controller and the counters of the flash *)
(* and of the host keep to their widths, the SPI master never counts more  *)
(* bits than a byte has, and the load's index, which each store moves on   *)
(* by one, never passes the end of the code RAM: no word is stored past it.*)
THEOREM BootTyped == BootSpec => []BootTypeOK
<1>1. IInv /\ BInv => BootTypeOK
  <2> SUFFICES ASSUME IInv, BInv PROVE BootTypeOK
    OBVIOUS
  <2>1. Spim!SpiTypeOK
    <3>1. Spim!SckGenerator!TypeOK
      BY LoaderAssumption DEF IInv, HInv, ClockOK, target, Spim!SckGenerator!TypeOK,
         Spim!SckGenerator!Divider
    <3>2. spi_tx_data_valid \in BOOLEAN /\ spi_clk_divider_valid \in BOOLEAN
      BY DEF IInv, SInv
    <3> QED
      BY <3>1, <3>2 DEF BInv, HwInv, SpiInv, SpiRegs, Masters, Bytes, Spim!Byte,
         Spim!SpiTypeOK, Spim!SckGenerator!Divider
  <2>2. Host!TypeOK
    BY DEF BInv, HwInv, Host!Framed, Host!Hosts, Host!Slots, Host!TypeOK
  <2>3. sw.gap \in 1 .. Gap(Now)
    BY GapsAreLong DEF IInv, SwOK, BInv
  <2> QED
    BY <2>1, <2>2, <2>3 DEF BInv, HwInv, LoadInv, BootTypeOK
<1>2. BootInit => IInv /\ BInv
  BY IInvStarts, BInvStarts
<1>3. (IInv /\ BInv) /\ [BootNext]_loadervars => (IInv /\ BInv)'
  BY IInvHolds, BInvHolds
<1> QED
  BY <1>1, <1>2, <1>3, PTL DEF BootSpec

-----------------------------------------------------------------------------
(* The order of a load.  Each kind of operation that decides how it goes   *)
(* on stands where it may: the jump comes after the trap vector was set,   *)
(* that after a load or instead of one, and a load only when the switches  *)
(* ask for it.                                                             *)
Skipping     == SkippingPin \in din
ChosenSource == IF SourcePin \in din THEN "uart" ELSE "spi"

(* Each a of s comes after a b.                                            *)
After(s, a, b) ==
    \A k \in 1 .. Len(s) : s[k] = a => \E j \in 1 .. k - 1 : s[j] = b

(* What the trap vector, and the look at the result, wait for.             *)
MayStart == \/ loader.result = "done" \/ Skipping
            \/ Now \in LoadOps /\ loader.source = "spi"
MayLook  == \/ loader.result # "none"
            \/ Now \in LoadOps /\ loader.source = "uart"

(* A sequence of main ends where it decides, or in the light of the end.   *)
Deciding == {"uart_enable", "skip", "source", "uart_result", "again"}
Closed(s) ==
    s # <<>> => \/ s[Len(s)] \in Deciding
                \/ s[Len(s)] = "light"

Chosen(s) ==
    \A k \in 1 .. Len(s) :
        /\ s[k] \in {"source", "spi", "uart"} => ~Skipping
        /\ s[k] \in {"spi", "uart"} => s[k] = ChosenSource

TrapSet == sw.mtvec = "code_ram"

LoaderCtl ==
    /\ loader.result \in {"none", "done", "timeout"}
    /\ loader.source = "none" => loader.result = "none"
    /\ loader.source # "none" => ~Skipping /\ loader.source = ChosenSource
    /\ Now \in LoadOps => loader.result = "none"

CtlInv ==
    /\ gpio_regs.idr = din \/ Now = "uart_divider"
    /\ Closed(sw.todo) /\ Chosen(sw.todo)
    /\ (sw.todo # <<>> => sw.todo[Len(sw.todo)] = "light") =>
           TrapSet \/ \E k \in 1 .. Len(sw.todo) - 1 : sw.todo[k] = "mtvec"
    /\ MayStart \/ After(sw.todo, "mtvec", "spi")
    /\ MayLook \/ After(sw.todo, "uart_result", "uart")
    /\ TrapSet => loader.result = "done" \/ (Skipping /\ loader.source = "none")
    /\ LoaderCtl

(* An operation is replaced by others: what stands where.                  *)
Splice(r, s, t) ==
    /\ Len(s) \in Nat /\ Len(s) >= 1 /\ Len(t) \in Nat
    /\ Len(r) = Len(t) + Len(s) - 1 /\ Len(r) \in Nat
    /\ (r = <<>> <=> Len(r) = 0) /\ (t = <<>> <=> Len(t) = 0)
    /\ \A k \in 1 .. Len(t) : k \in 1 .. Len(r) /\ r[k] = t[k]
    /\ \A k \in 2 .. Len(s) : /\ Len(t) + k - 1 \in 1 .. Len(r)
                              /\ r[Len(t) + k - 1] = s[k]
    /\ \A k \in 1 .. Len(r) : k > Len(t) => /\ k - Len(t) + 1 \in 2 .. Len(s)
                                           /\ r[k] = s[k - Len(t) + 1]

LEMMA Spliced ==
    ASSUME NEW S, NEW s \in Seq(S), s # <<>>, NEW t \in Seq(S),
           NEW r, r = t \o Tail(s)
    PROVE  Splice(r, s, t)
<1>1. /\ Tail(s) \in Seq(S) /\ Len(Tail(s)) = Len(s) - 1
      /\ Len(s) \in Nat /\ Len(s) >= 1
      /\ \A k \in 1 .. Len(Tail(s)) : Tail(s)[k] = s[k + 1]
  BY HeadTailProperties, LenProperties, EmptySeq
<1>2. /\ Len(t) \in Nat /\ Len(r) = Len(t) + Len(Tail(s)) /\ r \in Seq(S)
      /\ \A k \in 1 .. Len(t) + Len(Tail(s)) :
             r[k] = IF k <= Len(t) THEN t[k] ELSE Tail(s)[k - Len(t)]
  BY <1>1, ConcatProperties, LenProperties
<1>3. (r = <<>> <=> Len(r) = 0) /\ (t = <<>> <=> Len(t) = 0)
  BY <1>2, EmptySeq
<1> DEFINE rest == Tail(s)
           n == Len(s)
           m == Len(t)
           l == Len(r)
<1>4. /\ n \in Nat /\ n >= 1 /\ m \in Nat /\ l = m + n - 1
      /\ \A k \in 1 .. n - 1 : rest[k] = s[k + 1]
      /\ \A k \in 1 .. m + n - 1 : r[k] = IF k <= m THEN t[k] ELSE rest[k - m]
  BY <1>1, <1>2
<1> HIDE DEF rest, n, m, l
<1>5. l \in Nat /\ \A k \in 1 .. m : k \in 1 .. l /\ r[k] = t[k]
  <2>1. l \in Nat /\ l >= m /\ l = m + n - 1
    BY <1>4
  <2>2. ASSUME NEW k \in 1 .. m PROVE k \in 1 .. l /\ r[k] = t[k]
    <3>1. k \in 1 .. m + n - 1 /\ k \in 1 .. l /\ k <= m
      BY <1>4, <2>1
    <3> QED
      BY <1>4, <3>1
  <2> QED
    BY <2>1, <2>2
<1>6. \A k \in 2 .. n : m + k - 1 \in 1 .. l /\ r[m + k - 1] = s[k]
  <2> TAKE k \in 2 .. n
  <2>1. /\ m + k - 1 \in 1 .. l /\ ~(m + k - 1 <= m) /\ k - 1 \in 1 .. n - 1
        /\ (m + k - 1) - m = k - 1 /\ (k - 1) + 1 = k
    BY <1>4
  <2>2. r[m + k - 1] = rest[k - 1]
    BY <1>4, <2>1
  <2> QED
    BY <1>4, <2>1, <2>2
<1>7. \A k \in 1 .. l : k > m => k - m + 1 \in 2 .. n /\ r[k] = s[k - m + 1]
  <2> TAKE k \in 1 .. l
  <2> HAVE k > m
  <2>1. /\ k - m + 1 \in 2 .. n /\ ~(k <= m) /\ k - m \in 1 .. n - 1
        /\ k \in 1 .. m + n - 1
    BY <1>4
  <2>2. r[k] = rest[k - m]
    BY <1>4, <2>1
  <2> QED
    BY <1>4, <2>1, <2>2
<1>8. (r = <<>> <=> l = 0) /\ (t = <<>> <=> m = 0)
  BY <1>3 DEF m, l
<1> QED
  BY <1>4, <1>5, <1>6, <1>7, <1>8 DEF n, m, l, Splice

(* The order of two operations is kept.                                    *)
LEMMA AfterSpliced ==
    ASSUME NEW S, NEW s \in Seq(S), s # <<>>, NEW t \in Seq(S),
           NEW r, r = t \o Tail(s), NEW a, NEW b,
           After(s, a, b), Head(s) # b, After(t, a, b)
    PROVE  After(r, a, b)
<1>1. /\ Len(s) \in Nat /\ Len(s) >= 1 /\ Len(t) \in Nat
      /\ Len(r) = Len(t) + Len(s) - 1
      /\ \A k \in 1 .. Len(t) : r[k] = t[k]
      /\ \A k \in 2 .. Len(s) : r[Len(t) + k - 1] = s[k]
      /\ \A k \in 1 .. Len(r) : k > Len(t) =>
             k - Len(t) + 1 \in 2 .. Len(s) /\ r[k] = s[k - Len(t) + 1]
  BY Spliced DEF Splice
<1>2. Head(s) = s[1]
  BY HeadTailProperties
<1> SUFFICES ASSUME NEW k \in 1 .. Len(r), r[k] = a
             PROVE  \E j \in 1 .. k - 1 : r[j] = b
  BY DEF After
<1> DEFINE n == Len(s)
           m == Len(t)
<1>3. CASE k <= m
  <2>1. k \in 1 .. m /\ t[k] = a
    BY <1>1, <1>3
  <2>2. PICK j \in 1 .. k - 1 : t[j] = b
    BY <2>1 DEF After
  <2>3. r[j] = t[j]
    BY <1>1, <1>3
  <2> QED
    BY <2>2, <2>3
<1>4. CASE k > m
  <2>1. k - m + 1 \in 2 .. n /\ s[k - m + 1] = a /\ k - m + 1 \in 1 .. n
    BY <1>1, <1>4
  <2>2. PICK j \in 1 .. (k - m + 1) - 1 : s[j] = b
    BY <2>1 DEF After
  <2>3. j # 1
    BY <1>2, <2>2
  <2>4. j \in 2 .. n /\ m + j - 1 \in 1 .. k - 1
    BY <1>1, <2>1, <2>2, <2>3
  <2>5. r[m + j - 1] = b
    BY <1>1, <2>2, <2>4
  <2> QED
    BY <2>4, <2>5
<1> QED
  BY <1>1, <1>3, <1>4

(* What the steps of main and of a load put in the place of an operation   *)
(* that decides ends with another one, or has the trap vector set before   *)
(* the light.                                                              *)
Closing(t) ==
    /\ t # <<>>
    /\ \/ t[Len(t)] \in Deciding
       \/ t[Len(t)] = "light" /\ \E k \in 1 .. Len(t) - 1 : t[k] = "mtvec"

LEMMA CtlGoesOn ==
    ASSUME SwOK, CtlInv, Now # "jump", NEW ops \in Seq(Ops),
           sw'.todo = ops \o Tail(sw.todo),
           sw'.mtvec = IF Now = "mtvec" THEN "code_ram" ELSE sw.mtvec,
           din' = din, gpio_regs'.idr = din,
           Chosen(ops), Now \in Deciding => Closing(ops),
           MayStart \/ Now = "spi" => MayStart',
           MayStart' \/ After(ops, "mtvec", "spi"),
           MayLook \/ Now = "uart" => MayLook',
           MayLook' \/ After(ops, "uart_result", "uart"),
           loader.result = "done" => loader'.result = "done",
           Now = "light" => ops = <<>>,
           LoaderCtl'
    PROVE  CtlInv'
<1>1. /\ sw.todo \in Seq(Ops) /\ sw.todo # <<>> /\ Head(sw.todo) = Now
      /\ Head(sw.todo) = sw.todo[1]
  BY NowComesFirst, HeadTailProperties
<1>0. sw'.todo = ops \o Tail(sw.todo)
  OBVIOUS
<1>a. Splice(sw'.todo, sw.todo, ops)
  BY <1>0, <1>1, Spliced
<1> DEFINE s == sw.todo
           r == sw'.todo
           n == Len(s)
           m == Len(ops)
<1>2. /\ n \in Nat /\ n >= 1 /\ m \in Nat /\ Len(r) = m + n - 1
      /\ (r = <<>> <=> Len(r) = 0) /\ (ops = <<>> <=> m = 0)
      /\ \A k \in 1 .. m : k \in 1 .. Len(r) /\ r[k] = ops[k]
      /\ \A k \in 2 .. n : m + k - 1 \in 1 .. Len(r) /\ r[m + k - 1] = s[k]
      /\ \A k \in 1 .. Len(r) : k > m =>
             k - m + 1 \in 2 .. n /\ r[k] = s[k - m + 1]
  BY <1>a DEF Splice
<1>3. MayStart' \/ After(r, "mtvec", "spi")
  BY <1>0, <1>1, AfterSpliced DEF CtlInv
<1>4. MayLook' \/ After(r, "uart_result", "uart")
  BY <1>0, <1>1, AfterSpliced DEF CtlInv
<1>5. /\ s # <<>> /\ s[1] = Now
      /\ s[n] \in Deciding \/ s[n] = "light"
  BY <1>1 DEF CtlInv, Closed
<1>6. (s[n] = "light") => TrapSet \/ \E k \in 1 .. n - 1 : s[k] = "mtvec"
  BY DEF CtlInv
<1>7. TrapSet' <=> TrapSet \/ Now = "mtvec"
  BY DEF TrapSet
<1>8. Chosen(r)
  <2> SUFFICES ASSUME NEW k \in 1 .. Len(r)
               PROVE  /\ r[k] \in {"source", "spi", "uart"} => ~Skipping
                      /\ r[k] \in {"spi", "uart"} => r[k] = ChosenSource
    BY DEF Chosen
  <2>1. CASE k <= m
    BY <1>2, <2>1 DEF Chosen
  <2>2. CASE k > m
    <3>1. k - m + 1 \in 1 .. n /\ r[k] = s[k - m + 1]
      BY <1>2, <2>2
    <3> QED
      BY <3>1 DEF CtlInv, Chosen
  <2> QED
    BY <1>2, <2>1, <2>2
<1>9. /\ Closed(r)
      /\ (r # <<>> => r[Len(r)] = "light") =>
             TrapSet' \/ \E k \in 1 .. Len(r) - 1 : r[k] = "mtvec"
  <2> HIDE DEF s, r, n, m
  <2>1. CASE n = 1
    <3>1. n = 1 /\ Now = s[n] /\ Now \in Deciding \cup {"light"}
      BY <1>5, <2>1
    <3>2. CASE Now = "light"
      <4>1. r = <<>> /\ TrapSet
        BY <1>2, <1>6, <3>1, <3>2
      <4> QED
        BY <1>7, <4>1 DEF Closed
    <3>3. CASE Now \in Deciding
      <4>1. Closing(ops) /\ Len(r) = m /\ m >= 1 /\ r # <<>>
        BY <1>2, <2>1, <3>3 DEF Closing
      <4>2. r[Len(r)] = ops[m] /\ m = Len(ops)
        BY <1>2, <4>1 DEF m
      <4>3. CASE ops[m] \in Deciding
        BY <4>1, <4>2, <4>3 DEF Closed, Deciding
      <4>4. CASE ops[m] = "light" /\ \E k \in 1 .. m - 1 : ops[k] = "mtvec"
        <5>1. PICK k \in 1 .. m - 1 : ops[k] = "mtvec"
          BY <4>4
        <5>2. k \in 1 .. Len(r) - 1 /\ r[k] = "mtvec"
          BY <1>2, <4>1, <5>1
        <5> QED
          BY <4>1, <4>2, <4>4, <5>2 DEF Closed
      <4> QED
        BY <4>1, <4>2, <4>3, <4>4 DEF Closing
    <3> QED
      BY <3>1, <3>2, <3>3
  <2>2. CASE n # 1
    <3>1. r # <<>> /\ r[Len(r)] = s[n]
      <4>1. n \in 2 .. n /\ m + n - 1 = Len(r) /\ Len(r) # 0
        BY <1>2, <2>2
      <4> QED
        BY <1>2, <4>1
    <3>2. Closed(r)
      BY <1>5, <3>1 DEF Closed
    <3>3. ASSUME s[n] = "light"
          PROVE  TrapSet' \/ \E k \in 1 .. Len(r) - 1 : r[k] = "mtvec"
      <4>1. CASE TrapSet
        BY <1>7, <4>1
      <4>2. ASSUME NEW k \in 1 .. n - 1, s[k] = "mtvec"
            PROVE  TrapSet' \/ \E j \in 1 .. Len(r) - 1 : r[j] = "mtvec"
        <5>1. CASE k = 1
          BY <1>5, <1>7, <4>2, <5>1
        <5>2. CASE k # 1
          <6>1. m + k - 1 \in 1 .. Len(r) - 1 /\ r[m + k - 1] = "mtvec"
            BY <1>2, <4>2, <5>2
          <6> QED
            BY <6>1
        <5> QED
          BY <5>1, <5>2
      <4> QED
        BY <1>6, <3>3, <4>1, <4>2
    <3> QED
      BY <3>1, <3>2, <3>3
  <2> QED
    BY <2>1, <2>2
<1>10. TrapSet' => loader'.result = "done" \/ (Skipping /\ loader'.source = "none")
  <2>1. Skipping' = Skipping /\ (Skipping => loader'.source = "none")
    BY DEF LoaderCtl, Skipping
  <2>2. CASE TrapSet
    BY <2>1, <2>2 DEF CtlInv
  <2>3. CASE Now = "mtvec"
    <3>1. s[1] = "mtvec" /\ 1 \in 1 .. n /\ ~(Now \in LoadOps)
      BY <1>2, <1>5, <2>3 DEF LoadOps, SpiOps, UartOps
    <3>2. loader.result = "done" \/ Skipping
      BY <3>1 DEF CtlInv, After, MayStart
    <3> QED
      BY <2>1, <3>2
  <2> QED
    BY <1>7, <2>2, <2>3
<1>11. Closed(sw.todo)' /\ Chosen(sw.todo)'
  BY <1>8, <1>9 DEF Closed, Chosen, Skipping, ChosenSource
<1>12. Skipping' = Skipping
  BY DEF Skipping
<1>13. /\ (MayStart \/ After(sw.todo, "mtvec", "spi"))'
       /\ (MayLook \/ After(sw.todo, "uart_result", "uart"))'
  BY <1>3, <1>4 DEF After, MayStart, MayLook
<1>14. ((sw.todo # <<>> => sw.todo[Len(sw.todo)] = "light") =>
            TrapSet \/ \E k \in 1 .. Len(sw.todo) - 1 : sw.todo[k] = "mtvec")'
  BY <1>9
<1> QED
  BY <1>10, <1>11, <1>12, <1>13, <1>14 DEF CtlInv, LoaderCtl

-----------------------------------------------------------------------------
(* What main is made of, without what decides.                             *)
Quiet == {"say", "said", "direct", "light", "dark", "delay"}

(* The end of two sequences is the end of the second.                      *)
LEMMA LastOfTwo ==
    ASSUME NEW S, NEW s \in Seq(S), NEW t \in Seq(S), t # <<>>
    PROVE  /\ s \o t \in Seq(S) /\ s \o t # <<>>
           /\ (s \o t)[Len(s \o t)] = t[Len(t)]
           /\ \A k \in 1 .. Len(t) : Len(s) + k \in 1 .. Len(s \o t)
                                     /\ (s \o t)[Len(s) + k] = t[k]
<1>1. /\ Len(s) \in Nat /\ Len(t) \in Nat /\ Len(t) >= 1
      /\ s \o t \in Seq(S) /\ Len(s \o t) = Len(s) + Len(t)
      /\ \A k \in 1 .. Len(s) + Len(t) :
             (s \o t)[k] = IF k <= Len(s) THEN s[k] ELSE t[k - Len(s)]
  BY ConcatProperties, LenProperties, EmptySeq
<1> DEFINE m == Len(s)
           n == Len(t)
           r == s \o t
<1>2. /\ m \in Nat /\ n \in Nat /\ n >= 1 /\ Len(r) = m + n
      /\ \A k \in 1 .. m + n : r[k] = IF k <= m THEN s[k] ELSE t[k - m]
  BY <1>1
<1> HIDE DEF m, n, r
<1>3. ASSUME NEW k \in 1 .. n PROVE m + k \in 1 .. Len(r) /\ r[m + k] = t[k]
  <2>1. m + k \in 1 .. m + n /\ ~(m + k <= m) /\ (m + k) - m = k
    BY <1>2
  <2> QED
    BY <1>2, <2>1
<1>4. r # <<>>
  <2>1. r \in Seq(S) /\ Len(r) >= 1
    BY <1>1, <1>2 DEF r
  <2> QED
    BY <2>1, EmptySeq
<1>5. r[Len(r)] = t[n]
  <2>1. n \in 1 .. n
    BY <1>2
  <2> QED
    BY <1>2, <1>3, <2>1
<1> QED
  BY <1>1, <1>3, <1>4, <1>5 DEF m, n, r

(* An operation that is not in S is not in a sequence of S.                *)
LEMMA NotThere ==
    ASSUME NEW S, NEW s \in Seq(S), NEW a, a \notin S
    PROVE  \A k \in 1 .. Len(s) : s[k] # a
  BY ElementOfSeq

(* The messages, the waiting and the light.                                *)
LEMMA QuietParts ==
    /\ Say \in Seq(Quiet) /\ Light \in Seq(Quiet) /\ Dark \in Seq(Quiet)
    /\ <<"delay">> \in Seq(Quiet) /\ Blink \in Seq(Quiet) /\ Success \in Seq(Quiet)
<1>1. Say \in Seq(Quiet) /\ Light \in Seq(Quiet) /\ Dark \in Seq(Quiet)
      /\ <<"delay">> \in Seq(Quiet)
  BY DEF Say, Light, Dark, Quiet
<1>2. \A s, t \in Seq(Quiet) : s \o t \in Seq(Quiet)
  BY ConcatProperties
<1>3. Blink \in Seq(Quiet)
  BY <1>1, <1>2 DEF Blink
<1> QED
  BY <1>1, <1>2, <1>3 DEF Success

(* The end sets the trap vector and then lights the pin, whatever came     *)
(* before it.                                                              *)
LEMMA EndCloses ==
    /\ End \in Seq(Quiet \cup {"mtvec"})
    /\ \A s \in Seq(MainOps) : s \o End \in Seq(MainOps) /\ Closing(s \o End)
<1> DEFINE S == Quiet \cup {"mtvec"}
           a == <<"mtvec">> \o Say
           b == a \o <<"delay">>
<1>1. /\ <<"mtvec">> \in Seq(S) /\ Say \in Seq(S) /\ <<"delay">> \in Seq(S)
      /\ Light \in Seq(S) /\ Light # <<>> /\ Light[Len(Light)] = "light"
  BY DEF Say, Light, Quiet
<1>2. a \in Seq(S) /\ a[1] = "mtvec" /\ 1 \in 1 .. Len(a) /\ Len(a) \in Nat
  <2>1. a \in Seq(S) /\ Len(<<"mtvec">>) = 1 /\ <<"mtvec">>[1] = "mtvec"
    BY <1>1, ConcatProperties
  <2>2. Len(a) = Len(<<"mtvec">>) + Len(Say) /\ Len(Say) \in Nat
        /\ \A k \in 1 .. Len(<<"mtvec">>) + Len(Say) :
               a[k] = IF k <= Len(<<"mtvec">>) THEN <<"mtvec">>[k]
                      ELSE Say[k - Len(<<"mtvec">>)]
    BY <1>1, ConcatProperties, LenProperties
  <2> HIDE DEF a
  <2> QED
    BY <2>1, <2>2
<1>3. \A s, t \in Seq(S) : 1 \in 1 .. Len(s) =>
          /\ s \o t \in Seq(S) /\ (s \o t)[1] = s[1] /\ 1 \in 1 .. Len(s \o t)
  <2> TAKE s, t \in Seq(S)
  <2> HAVE 1 \in 1 .. Len(s)
  <2>1. /\ s \o t \in Seq(S) /\ Len(s \o t) = Len(s) + Len(t)
        /\ Len(s) \in Nat /\ Len(t) \in Nat
        /\ \A k \in 1 .. Len(s) + Len(t) :
               (s \o t)[k] = IF k <= Len(s) THEN s[k] ELSE t[k - Len(s)]
    BY ConcatProperties, LenProperties
  <2> QED
    BY <2>1
<1> HIDE DEF a
<1>4. b \in Seq(S) /\ b[1] = "mtvec" /\ 1 \in 1 .. Len(b)
  BY <1>1, <1>2, <1>3
<1>5. End = b \o Light
  BY DEF End, a, b
<1> HIDE DEF b
<1>6. /\ End \in Seq(S) /\ End[1] = "mtvec" /\ 1 \in 1 .. Len(End)
      /\ End # <<>> /\ End[Len(End)] = "light"
  BY <1>1, <1>3, <1>4, <1>5, LastOfTwo
<1>7. S \subseteq MainOps
  BY DEF Quiet, MainOps
<1> HIDE DEF S
<1>8. ASSUME NEW s \in Seq(MainOps) PROVE s \o End \in Seq(MainOps) /\ Closing(s \o End)
  <2>1. End \in Seq(MainOps)
    BY <1>6, <1>7, SeqMonotonic
  <2>2. /\ s \o End \in Seq(MainOps) /\ s \o End # <<>>
        /\ (s \o End)[Len(s \o End)] = "light"
        /\ Len(s) + 1 \in 1 .. Len(s \o End) /\ (s \o End)[Len(s) + 1] = "mtvec"
    BY <1>6, <2>1, LastOfTwo
  <2>3. Len(s) \in Nat /\ Len(s \o End) \in Nat
    BY <2>2, LenProperties
  <2>4. Len(s) + 1 # Len(s \o End)
    BY <2>2
  <2>5. Len(s) + 1 \in 1 .. Len(s \o End) - 1
    BY <2>2, <2>3, <2>4
  <2> QED
    BY <2>2, <2>5 DEF Closing
<1> QED
  BY <1>6, <1>8 DEF S

(* What follows a source is ready when that is there.                      *)
LEMMA MainInOrder ==
    /\ Main \in Seq(Quiet \cup {"skip"}) /\ Closing(Main)
    /\ Closing(CodeloadStep)
    /\ ThroughUart \in Seq(Quiet \cup {"uart", "uart_result"}) /\ Closing(ThroughUart)
    /\ After(ThroughUart, "uart_result", "uart")
    /\ ThroughSpi \o Success \o End \in Seq(Quiet \cup {"spi", "mtvec"})
    /\ Closing(ThroughSpi \o Success \o End)
    /\ After(ThroughSpi \o Success \o End, "mtvec", "spi")
    /\ \A s \in {Say \o End, Success \o End} :
           s \in Seq(Quiet \cup {"mtvec"}) /\ Closing(s)
    /\ \A s \in {Failure, Blink \o <<"again">>} :
           s \in Seq(Quiet \cup {"again"}) /\ Closing(s)
<1> USE QuietParts
<1>1. \A S : Quiet \subseteq S => \A s \in Seq(Quiet) : s \in Seq(S)
  BY SeqMonotonic
<1>2. ASSUME NEW op \in Deciding, NEW s \in Seq(Quiet \cup {op})
      PROVE  s \o <<op>> \in Seq(Quiet \cup {op}) /\ Closing(s \o <<op>>)
  <2>1. <<op>> \in Seq(Quiet \cup {op}) /\ <<op>> # <<>> /\ <<op>>[Len(<<op>>)] = op
    OBVIOUS
  <2> QED
    BY <2>1, LastOfTwo DEF Closing
<1>3. \A s, t \in Seq(Quiet) : s \o t \in Seq(Quiet)
  BY ConcatProperties
<1>4. Main \in Seq(Quiet \cup {"skip"}) /\ Closing(Main)
  <2>1. Say \o <<"delay">> \o Blink \in Seq(Quiet)
    BY <1>3
  <2>2. Say \o <<"delay">> \o Blink \in Seq(Quiet \cup {"skip"}) /\ "skip" \in Deciding
    BY <1>1, <2>1 DEF Deciding
  <2> QED
    BY <1>2, <2>2 DEF Main
<1>5. Closing(CodeloadStep)
  BY DEF CodeloadStep, Closing, Deciding
<1>6. /\ ThroughUart \in Seq(Quiet \cup {"uart", "uart_result"})
      /\ Closing(ThroughUart) /\ After(ThroughUart, "uart_result", "uart")
  <2> DEFINE S == Quiet \cup {"uart", "uart_result"}
             t == <<"uart", "uart_result">>
  <2>1. /\ Say \in Seq(S) /\ t \in Seq(S) /\ t # <<>> /\ Len(t) = 2
        /\ t[1] = "uart" /\ t[2] = "uart_result"
    BY DEF Say, Quiet
  <2>2. \A k \in 1 .. Len(Say) : Say[k] # "uart_result"
    <3>1. "uart_result" \notin Quiet
      BY DEF Quiet
    <3> QED
      BY <3>1, NotThere
  <2> HIDE DEF t
  <2>3. ThroughUart = Say \o t
    BY DEF ThroughUart, t
  <2>5. /\ Say \o t \in Seq(S) /\ Say \o t # <<>>
        /\ (Say \o t)[Len(Say \o t)] = t[Len(t)]
        /\ \A k \in 1 .. Len(t) : Len(Say) + k \in 1 .. Len(Say \o t)
                                  /\ (Say \o t)[Len(Say) + k] = t[k]
    <3> HIDE DEF S
    <3> QED
      BY <2>1, LastOfTwo, ZenonT(60)
  <2>6. Len(Say \o t) = Len(Say) + Len(t) /\ Len(Say) \in Nat
        /\ \A k \in 1 .. Len(Say) + Len(t) :
               (Say \o t)[k] = IF k <= Len(Say) THEN Say[k] ELSE t[k - Len(Say)]
    BY <2>1, ConcatProperties, LenProperties
  <2>7. /\ ThroughUart \in Seq(S) /\ ThroughUart # <<>>
        /\ ThroughUart[Len(ThroughUart)] = "uart_result"
        /\ Len(Say) + 1 \in 1 .. Len(ThroughUart)
        /\ ThroughUart[Len(Say) + 1] = "uart"
        /\ Len(ThroughUart) = Len(Say) + 2 /\ Len(Say) \in Nat
        /\ \A k \in 1 .. Len(Say) : ThroughUart[k] = Say[k]
    <3>1. 1 \in 1 .. Len(t) /\ t[Len(t)] = "uart_result"
      BY <2>1
    <3>2. \A k \in 1 .. Len(Say) : k \in 1 .. Len(Say) + Len(t) /\ k <= Len(Say)
      BY <2>1, <2>6
    <3>3. \A k \in 1 .. Len(Say) : (Say \o t)[k] = Say[k]
      BY <2>6, <3>2
    <3>4. Len(Say \o t) = Len(Say) + 2
      BY <2>1, <2>6
    <3>5. Len(Say) + 1 \in 1 .. Len(Say \o t) /\ (Say \o t)[Len(Say) + 1] = "uart"
      BY <2>1, <2>5, <3>1
    <3> QED
      BY <2>3, <2>5, <2>6, <3>1, <3>3, <3>4, <3>5
  <2>4. ASSUME NEW k \in 1 .. Len(ThroughUart), ThroughUart[k] = "uart_result"
        PROVE  \E j \in 1 .. k - 1 : ThroughUart[j] = "uart"
    <3>1. k > Len(Say)
      <4>1. k \notin 1 .. Len(Say)
        BY <2>2, <2>4, <2>7
      <4>2. k \in 1 .. Len(Say) + 2 /\ Len(Say) \in Nat
        BY <2>7
      <4> QED
        BY <4>1, <4>2
    <3>2. k # Len(Say) + 1
      BY <2>4, <2>7
    <3>3. Len(Say) + 1 \in 1 .. k - 1
      BY <2>7, <3>1, <3>2
    <3> QED
      BY <2>7, <3>3
  <2> QED
    BY <2>4, <2>7 DEF After, Closing, Deciding
<1>7. \A s \in {Say, Success} : s \o End \in Seq(Quiet \cup {"mtvec"}) /\ Closing(s \o End)
  <2>1. ASSUME NEW s \in Seq(Quiet)
        PROVE  s \o End \in Seq(Quiet \cup {"mtvec"}) /\ Closing(s \o End)
    <3>1. s \in Seq(Quiet \cup {"mtvec"}) /\ s \in Seq(MainOps)
      <4>1. Quiet \subseteq MainOps
        BY DEF Quiet, MainOps
      <4> QED
        BY <1>1, <4>1
    <3> QED
      BY <3>1, EndCloses, ConcatProperties
  <2> QED
    BY <2>1
<1>8. /\ ThroughSpi \o Success \o End \in Seq(Quiet \cup {"spi", "mtvec"})
      /\ Closing(ThroughSpi \o Success \o End)
      /\ After(ThroughSpi \o Success \o End, "mtvec", "spi")
  <2> DEFINE S == Quiet \cup {"spi", "mtvec"}
             p == Say \o <<"spi">>
             q == p \o Success
             r == q \o End
  <2>1. /\ Say \in Seq(Quiet \cup {"spi"}) /\ <<"spi">> \in Seq(Quiet \cup {"spi"})
        /\ Success \in Seq(Quiet \cup {"spi"})
        /\ <<"spi">> # <<>> /\ Len(<<"spi">>) = 1 /\ <<"spi">>[1] = "spi"
    BY <1>1
  <2>2. /\ p \in Seq(Quiet \cup {"spi"}) /\ Len(p) \in Nat /\ Len(p) >= 1
        /\ p[Len(p)] = "spi"
    BY <2>1, LastOfTwo, LenProperties, EmptySeq
  <2> HIDE DEF p
  <2>3. /\ q \in Seq(Quiet \cup {"spi"}) /\ Len(q) = Len(p) + Len(Success)
        /\ Len(q) \in Nat /\ Len(Success) \in Nat
        /\ \A k \in 1 .. Len(p) + Len(Success) :
               q[k] = IF k <= Len(p) THEN p[k] ELSE Success[k - Len(p)]
    BY <2>1, <2>2, ConcatProperties, LenProperties
  <2> HIDE DEF q
  <2>4. /\ Len(p) \in 1 .. Len(q) /\ q[Len(p)] = "spi"
        /\ \A k \in 1 .. Len(q) : q[k] # "mtvec"
    <3>1. \A k \in 1 .. Len(q) : q[k] # "mtvec"
      <4>1. "mtvec" \notin Quiet \cup {"spi"}
        BY DEF Quiet
      <4> QED
        BY <2>3, <4>1, NotThere
    <3>2. Len(p) \in 1 .. Len(p) + Len(Success) /\ Len(p) <= Len(p)
      BY <2>2, <2>3
    <3> QED
      BY <2>2, <2>3, <3>1, <3>2
  <2>5. q \in Seq(S) /\ End \in Seq(S) /\ q \in Seq(MainOps)
    <3>1. /\ Quiet \cup {"spi"} \subseteq S /\ Quiet \cup {"spi"} \subseteq MainOps
          /\ Quiet \cup {"mtvec"} \subseteq S
      BY DEF Quiet, MainOps
    <3> HIDE DEF S
    <3> QED
      BY <2>3, <3>1, EndCloses, SeqMonotonic
  <2>6. r \in Seq(S) /\ Closing(r)
    BY <2>5, EndCloses, ConcatProperties
  <2>7. /\ Len(End) \in Nat /\ Len(r) = Len(q) + Len(End)
        /\ \A k \in 1 .. Len(q) + Len(End) :
               r[k] = IF k <= Len(q) THEN q[k] ELSE End[k - Len(q)]
    BY <2>5, ConcatProperties, LenProperties
  <2> HIDE DEF r
  <2>8. ASSUME NEW k \in 1 .. Len(r), r[k] = "mtvec"
        PROVE  \E j \in 1 .. k - 1 : r[j] = "spi"
    <3>1. k > Len(q)
      BY <2>3, <2>4, <2>7, <2>8
    <3>2. Len(p) \in 1 .. k - 1 /\ Len(p) <= Len(q)
          /\ Len(p) \in 1 .. Len(q) + Len(End)
      BY <2>3, <2>4, <2>7, <3>1
    <3> QED
      BY <2>4, <2>7, <3>2
  <2>9. r = ThroughSpi \o Success \o End
    BY DEF r, q, p, ThroughSpi
  <2> QED
    BY <2>6, <2>8, <2>9 DEF After
<1>9. \A s \in {Failure, Blink \o <<"again">>} :
          s \in Seq(Quiet \cup {"again"}) /\ Closing(s)
  <2>1. Say \o <<"delay">> \o Blink \in Seq(Quiet)
    BY <1>3
  <2>2. /\ Say \o <<"delay">> \o Blink \in Seq(Quiet \cup {"again"})
        /\ Blink \in Seq(Quiet \cup {"again"}) /\ "again" \in Deciding
    BY <1>1, <2>1 DEF Deciding
  <2> QED
    BY <1>2, <2>2 DEF Failure
<1> QED
  BY <1>4, <1>5, <1>6, <1>7, <1>8, <1>9
-----------------------------------------------------------------------------
(* A sequence without an operation leaves open what that would decide.     *)
LEMMA Harmless ==
    ASSUME NEW S, NEW s \in Seq(S)
    PROVE  /\ S \cap {"source", "spi", "uart"} = {} => Chosen(s)
           /\ "mtvec" \notin S => After(s, "mtvec", "spi")
           /\ "uart_result" \notin S => After(s, "uart_result", "uart")
<1>1. \A k \in 1 .. Len(s) : s[k] \in S
  BY ElementOfSeq
<1> QED
  BY <1>1 DEF Chosen, After

(* What a step of main puts in the place of its operation is in order.     *)
InOrder(ops) ==
    /\ ops \in Seq(MainOps) /\ Chosen(ops)
    /\ Now \in Deciding => Closing(ops)
    /\ Now = "light" => ops = <<>>
    /\ MayStart \/ After(ops, "mtvec", "spi")
    /\ After(ops, "uart_result", "uart")

MainOrdered ==
    /\ Now \notin {"jump", "spi", "uart"}
    /\ din' = din /\ gpio_regs'.idr = din /\ cram' = cram
    /\ sw'.mtvec = IF Now = "mtvec" THEN "code_ram" ELSE sw.mtvec
    /\ \E ops : InOrder(ops) /\ sw'.todo = ops \o Tail(sw.todo)

LEMMA MainIsOrdered ==
    ASSUME SwOK, CtlInv, MainStep
    PROVE  MainOrdered
<1>1. /\ Now \notin {"jump", "spi", "uart"} /\ cram' = cram
      /\ \E port, access : Bus(port, access)
  BY DEF MainStep, SetUartDivider, EnableUart, SayByte, UartWrite, PollTransmitter,
     Skip, Source, ReadPin, CheckResult, SetDirection, SetStatusPin, ClearStatusPin,
     GpioWrite, Delay, BlinkAgain, SetTrapVector, At, NoAccess
<1>2. din' = din /\ gpio_regs'.idr = din
  BY <1>1 DEF Bus, Gpiom!GpioCycle
<1>3. /\ sw.todo \in Seq(Ops) /\ sw.todo # <<>> /\ Now = sw.todo[1]
      /\ 1 \in 1 .. Len(sw.todo) /\ sw.mtvec = sw.mtvec
  BY <1>1, NowComesFirst, HeadTailProperties, EmptySeq, LenProperties
<1>4. ASSUME NEW ops, InOrder(ops), Do(ops), Now # "mtvec"
      PROVE  MainOrdered
  <2>1. sw'.todo = ops \o Tail(sw.todo) /\ sw'.mtvec = sw.mtvec
    BY <1>4 DEF Do, SwOK, IsSw
  <2> QED
    BY <1>1, <1>2, <1>4, <2>1 DEF MainOrdered
<1>5. ASSUME NEW ops \in {<<>>, <<"said">>}, Now \notin Deciding,
             Now = "light" => ops = <<>>
      PROVE  InOrder(ops)
  <2>1. ops \in Seq(Quiet) /\ ops \in Seq(MainOps)
    <3>1. <<"said">> \in Seq(Quiet) /\ <<"said">> \in Seq(MainOps)
      BY DEF Quiet, MainOps
    <3>2. <<>> \in Seq(Quiet) /\ <<>> \in Seq(MainOps)
      BY EmptySeq
    <3> QED
      BY <3>1, <3>2
  <2>2. Chosen(ops) /\ After(ops, "mtvec", "spi") /\ After(ops, "uart_result", "uart")
    <3>1. /\ Quiet \cap {"source", "spi", "uart"} = {}
          /\ "mtvec" \notin Quiet /\ "uart_result" \notin Quiet
      BY DEF Quiet
    <3> QED
      BY <2>1, <3>1, Harmless
  <2> QED
    BY <1>5, <2>1, <2>2 DEF InOrder
<1>6. ASSUME NEW op \in {"skip", "again", "mtvec"},
             NEW ops \in Seq(Quiet \cup {op}), Closing(ops), Now # "light",
             op = "mtvec" => MayStart
      PROVE  InOrder(ops)
  <2>1. Chosen(ops) /\ After(ops, "uart_result", "uart")
        /\ (op # "mtvec" => After(ops, "mtvec", "spi"))
    <3>1. /\ (Quiet \cup {op}) \cap {"source", "spi", "uart"} = {}
          /\ (op # "mtvec" => "mtvec" \notin Quiet \cup {op})
          /\ "uart_result" \notin Quiet \cup {op}
      BY DEF Quiet
    <3> QED
      BY <3>1, Harmless
  <2>2. ops \in Seq(MainOps)
    <3>1. Quiet \cup {op} \subseteq MainOps
      BY DEF Quiet, MainOps
    <3> QED
      BY <3>1, SeqMonotonic
  <2> QED
    BY <1>6, <2>1, <2>2 DEF InOrder
<1>7. CASE Now \in Deciding
  <2>1. CASE EnableUart
    <3>1. Do(Main) /\ Now = "uart_enable"
      BY <2>1 DEF EnableUart, UartWrite, At
    <3>2. InOrder(Main)
      BY <1>6, <3>1, MainInOrder
    <3> QED
      BY <1>4, <3>1, <3>2
  <2>2. CASE Skip
    <3>1. /\ Now = "skip" /\ gpio_regs.idr = din
          /\ Do(IF Skipping THEN Say \o End ELSE CodeloadStep)
      BY <2>2 DEF Skip, ReadPin, At, CtlInv, Skipping
    <3>2. CASE Skipping
      <4>1. Say \o End \in Seq(Quiet \cup {"mtvec"}) /\ Closing(Say \o End)
        BY MainInOrder
      <4>2. InOrder(Say \o End)
        BY <1>6, <3>1, <3>2, <4>1 DEF MayStart
      <4> QED
        BY <1>4, <3>1, <3>2, <4>2
    <3>3. CASE ~Skipping
      <4>1. CodeloadStep \in Seq({"source"}) /\ CodeloadStep \in Seq(MainOps)
        BY DEF CodeloadStep, MainOps
      <4>2. After(CodeloadStep, "mtvec", "spi")
            /\ After(CodeloadStep, "uart_result", "uart")
        BY <4>1, Harmless
      <4>3. Chosen(CodeloadStep)
        BY <3>3 DEF Chosen, CodeloadStep
      <4>4. InOrder(CodeloadStep)
        BY <3>1, <4>1, <4>2, <4>3, MainInOrder DEF InOrder
      <4> QED
        BY <1>4, <3>1, <3>3, <4>4
    <3> QED
      BY <3>2, <3>3
  <2>3. CASE Source
    <3> DEFINE load == IF SourcePin \in din THEN ThroughUart
                       ELSE ThroughSpi \o Success \o End
    <3>1. Now = "source" /\ gpio_regs.idr = din /\ Do(load)
      BY <2>3 DEF Source, ReadPin, At, CtlInv
    <3>2. ~Skipping
      BY <1>3, <3>1 DEF CtlInv, Chosen
    <3> DEFINE U == Quiet \cup {"uart", "uart_result"}
               V == Quiet \cup {"spi", "mtvec"}
    <3>3. /\ U \subseteq MainOps /\ V \subseteq MainOps
          /\ "mtvec" \notin U /\ "uart_result" \notin V
          /\ U \cap {"source", "spi"} = {} /\ V \cap {"source", "uart"} = {}
      BY DEF Quiet, MainOps
    <3> HIDE DEF U, V
    <3>4. load \in Seq(IF SourcePin \in din THEN U ELSE V)
      BY MainInOrder DEF U, V
    <3>5. load \in Seq(MainOps) /\ Closing(load)
      BY <3>3, <3>4, MainInOrder, SeqMonotonic
    <3>6. After(load, "mtvec", "spi") /\ After(load, "uart_result", "uart")
      BY <3>3, <3>4, MainInOrder, Harmless
    <3>7. Chosen(load)
      <4>1. \A k \in 1 .. Len(load) : load[k] \in IF SourcePin \in din THEN U ELSE V
        BY <3>4, ElementOfSeq
      <4> HIDE DEF load
      <4> QED
        BY <3>2, <3>3, <4>1 DEF Chosen, ChosenSource
    <3>8. InOrder(load)
      <4> HIDE DEF load
      <4> QED
        BY <3>1, <3>5, <3>6, <3>7 DEF InOrder
    <3> HIDE DEF load
    <3> QED
      BY <1>4, <3>1, <3>8
  <2>4. CASE CheckResult
    <3>1. /\ Now = "uart_result"
          /\ Do(IF loader.result = "timeout" THEN Failure ELSE Success \o End)
      BY <2>4 DEF CheckResult, At
    <3>2. loader.result \in {"done", "timeout"}
      <4>1. ASSUME After(sw.todo, "uart_result", "uart") PROVE FALSE
        <5>1. \E j \in 1 .. 1 - 1 : sw.todo[j] = "uart"
          BY <1>3, <3>1, <4>1 DEF After
        <5> QED
          BY <5>1
      <4>2. Now \notin LoadOps
        BY <3>1 DEF LoadOps, SpiOps, UartOps
      <4> QED
        BY <4>1, <4>2 DEF CtlInv, MayLook, LoaderCtl
    <3>3. InOrder(Failure)
      <4>1. Failure \in Seq(Quiet \cup {"again"}) /\ Closing(Failure)
        BY MainInOrder
      <4> QED
        BY <1>6, <3>1, <4>1
    <3>4. loader.result # "timeout" => InOrder(Success \o End)
      <4>1. Success \o End \in Seq(Quiet \cup {"mtvec"}) /\ Closing(Success \o End)
        BY MainInOrder
      <4> QED
        BY <1>6, <3>1, <3>2, <4>1 DEF MayStart
    <3> QED
      BY <1>4, <3>1, <3>3, <3>4
  <2>5. CASE BlinkAgain
    <3>1. Do(Blink \o <<"again">>) /\ Now = "again"
      BY <2>5 DEF BlinkAgain, At
    <3>2. InOrder(Blink \o <<"again">>)
      <4>1. /\ Blink \o <<"again">> \in Seq(Quiet \cup {"again"})
            /\ Closing(Blink \o <<"again">>)
        BY MainInOrder
      <4> QED
        BY <1>6, <3>1, <4>1
    <3> QED
      BY <1>4, <3>1, <3>2
  <2> QED
    BY <1>7, <2>1, <2>2, <2>3, <2>4, <2>5 DEF MainStep, SetUartDivider, SayByte, UartWrite,
       PollTransmitter, SetDirection, SetStatusPin, ClearStatusPin, GpioWrite,
       Delay, SetTrapVector, At, Deciding
<1>8. CASE Now \notin Deciding
  <2>1. CASE SetTrapVector
    <3>1. Now = "mtvec" /\ sw'.todo = Tail(sw.todo) /\ sw'.mtvec = "code_ram"
      BY <2>1 DEF SetTrapVector, At, SwOK, IsSw
    <3>2. Tail(sw.todo) = <<>> \o Tail(sw.todo)
      BY <1>3, HeadTailProperties, ConcatEmptySeq
    <3>3. InOrder(<<>>)
      BY <1>5, <1>8, <3>1
    <3> QED
      BY <1>1, <1>2, <3>1, <3>2, <3>3 DEF MainOrdered
  <2>2. CASE ~SetTrapVector
    <3>1. /\ Now # "mtvec"
          /\ Do(<<>>) \/ (Do(<<"said">>) /\ Now # "light")
      BY <1>8, <2>2 DEF MainStep, SetUartDivider, EnableUart, SayByte, UartWrite,
         PollTransmitter, Skip, Source, ReadPin, CheckResult, SetDirection,
         SetStatusPin, ClearStatusPin, GpioWrite, Delay, BlinkAgain, At, Return,
         Deciding
    <3> QED
      BY <1>4, <1>5, <1>8, <3>1
  <2> QED
    BY <2>1, <2>2
<1> QED
  BY <1>7, <1>8

(* The steps of main keep the order.                                       *)
LEMMA MainCtl ==
    ASSUME IInv, CtlInv, MainStep
    PROVE  CtlInv'
<1>1. SwOK /\ SwOK' /\ Now \in MainOps /\ loader' = loader
      /\ Now' \in MainOps \cup {"jump"} /\ Now \notin LoadOps /\ Now' \notin LoadOps
  <2>1. SwOK /\ SwOK' /\ Now \in MainOps /\ loader' = loader
        /\ Now' \in MainOps \cup {"jump"}
    BY MainGoesOn DEF IInv
  <2> QED
    BY <2>1 DEF MainOps, LoadOps, SpiOps, UartOps
<1>2. MainOrdered
  BY <1>1, MainIsOrdered
<1>3. PICK ops : InOrder(ops) /\ sw'.todo = ops \o Tail(sw.todo)
  BY <1>2 DEF MainOrdered
<1>4. /\ Now # "jump" /\ ops \in Seq(Ops) /\ Now \notin {"spi", "uart"}
      /\ sw'.mtvec = IF Now = "mtvec" THEN "code_ram" ELSE sw.mtvec
      /\ din' = din /\ gpio_regs'.idr = din
      /\ Chosen(ops) /\ (Now \in Deciding => Closing(ops))
      /\ (Now = "light" => ops = <<>>)
  <2>1. MainOps \subseteq Ops
    BY DEF Ops
  <2> QED
    BY <1>2, <1>3, <2>1, SeqMonotonic DEF MainOrdered, InOrder
<1>5. /\ MayStart \/ Now = "spi" => MayStart'
      /\ MayLook \/ Now = "uart" => MayLook'
  BY <1>1, <1>4 DEF MayStart, MayLook, Skipping
<1>6. /\ MayStart' \/ After(ops, "mtvec", "spi")
      /\ MayLook' \/ After(ops, "uart_result", "uart")
  BY <1>3, <1>5 DEF InOrder
<1>7. LoaderCtl'
  BY <1>1, <1>4 DEF CtlInv, LoaderCtl, Skipping, ChosenSource
<1>8. loader.result = "done" => loader'.result = "done"
  BY <1>1
<1> QED
  BY <1>1, <1>3, <1>4, <1>5, <1>6, <1>7, <1>8, CtlGoesOn

(* A step of a load, which puts one operation of the load in the place of  *)
(* another, or nothing when the load is over.                              *)
LEMMA LoadCtl ==
    ASSUME SwOK, CtlInv, Now # "jump", Now \in LoadOps \cup {"spi", "uart"},
           NEW port, NEW access, Bus(port, access),
           NEW ops, ops = <<>> \/ \E op \in LoadOps : ops = <<op>>,
           Do(ops), LoaderCtl',
           loader.result # "none" => loader'.result = loader.result,
           Now = "spi" => loader'.source = "spi" /\ ops # <<>>,
           Now = "uart" => loader'.source = "uart" /\ ops # <<>>,
           Now \in LoadOps => loader'.source = loader.source,
           ops = <<>> => loader'.result # "none",
           ops = <<>> /\ loader.source = "spi" => loader'.result = "done"
    PROVE  CtlInv'
<1>1. din' = din /\ gpio_regs'.idr = din
  BY DEF Bus, Gpiom!GpioCycle
<1>2. /\ sw'.todo = ops \o Tail(sw.todo)
      /\ sw'.mtvec = sw.mtvec
  BY DEF Do, SwOK, IsSw
<1>3. Now \notin {"mtvec", "light"} /\ Now \notin Deciding
  BY DEF LoadOps, SpiOps, UartOps, Deciding
<1>4. ops \in Seq(LoadOps) /\ ops \in Seq(Ops)
  <2>1. <<>> \in Seq(LoadOps) /\ LoadOps \subseteq Ops
    BY DEF LoadOps, Ops
  <2>2. \A op \in LoadOps : <<op>> \in Seq(LoadOps)
    OBVIOUS
  <2> QED
    BY <2>1, <2>2, SeqMonotonic
<1>5. /\ Chosen(ops) /\ After(ops, "mtvec", "spi")
      /\ After(ops, "uart_result", "uart")
  <2>1. /\ LoadOps \cap {"source", "spi", "uart"} = {}
        /\ "mtvec" \notin LoadOps /\ "uart_result" \notin LoadOps
    BY DEF LoadOps, SpiOps, UartOps
  <2> QED
    BY <1>4, <2>1, Harmless
<1>6. ops # <<>> => Now' \in LoadOps
  <2>1. ASSUME NEW op \in LoadOps, ops = <<op>> PROVE Now' = op
    <3>1. op \in Ops
      BY DEF LoadOps, Ops
    <3> QED
      BY <2>1, <3>1, GoesTo
  <2> QED
    BY <2>1
<1>7. MayStart \/ Now = "spi" => MayStart'
  BY <1>1, <1>6 DEF MayStart, Skipping
<1>8. MayLook \/ Now = "uart" => MayLook'
  BY <1>6 DEF MayLook
<1> QED
  BY <1>1, <1>2, <1>3, <1>4, <1>5, <1>7, <1>8, CtlGoesOn

(* How a step of a load goes on.                                           *)
LoadTurn(ops) ==
    /\ Now # "jump" /\ Now \in LoadOps \cup {"spi", "uart"}
    /\ \E port, access : Bus(port, access)
    /\ Do(ops)
    /\ ops = <<>> \/ \E op \in LoadOps : ops = <<op>>
    /\ loader'.source = IF Now \in LoadOps THEN loader.source ELSE Now
    /\ ops # <<>> => loader'.result = loader.result
    /\ ops = <<>> => /\ loader'.result = "done" \/ loader'.result = "timeout"
                     /\ loader.source = "spi" => loader'.result = "done"
                     /\ Now \in LoadOps

LEMMA LoaderTurns ==
    ASSUME SwOK, LoaderOK, OpsInv, LoaderStep
    PROVE  \E ops : LoadTurn(ops)
<1> DEFINE Good == \E ops : LoadTurn(ops)
<1> SUFFICES Good
  OBVIOUS
<1>1. ASSUME Now \in LoadOps \cup {"spi", "uart"},
             NEW port, NEW access, Bus(port, access),
             NEW op \in LoadOps, Do(<<op>>), loader'.result = loader.result,
             loader'.source = IF Now \in LoadOps THEN loader.source ELSE Now
      PROVE  Good
  <2>1. Now # "jump" /\ <<op>> # <<>>
    BY <1>1 DEF LoadOps, SpiOps, UartOps
  <2>2. LoadTurn(<<op>>)
    BY <1>1, <2>1 DEF LoadTurn
  <2> QED
    BY <2>2
<1>2. ASSUME Now \in LoadOps, NEW port, NEW access, Bus(port, access), Do(<<>>),
             loader'.source = loader.source,
             \/ loader'.result = "done"
             \/ loader'.result = "timeout" /\ loader.source # "spi"
      PROVE  Good
  <2>1. Now # "jump"
    BY <1>2 DEF LoadOps, SpiOps, UartOps
  <2>2. LoadTurn(<<>>)
    BY <1>2, <2>1 DEF LoadTurn
  <2> QED
    BY <2>2
<1> HIDE DEF Good
<1>3. /\ loader.source = loader.source /\ loader.result = loader.result
      /\ {"spi_divider", "spi_write", "spi_poll", "spi_get", "store", "timeout_high",
          "uart_poll", "test_low", "test_high", "uart_ask", "uart_get"} \subseteq LoadOps
      /\ "spi" \notin LoadOps /\ "uart" \notin LoadOps
  BY DEF LoadOps, SpiOps, UartOps
<1>4. CASE Store
  <2>1. /\ Now = "store" /\ Bus("none", Spim!None)
        /\ loader'.source = loader.source
        /\ loader'.result = IF loader.i + 1 = CodeWords THEN "done" ELSE loader.result
    BY <1>4 DEF Store, At, NoAccess, LoaderOK
  <2>2. CASE loader.i + 1 = CodeWords
    <3>1. Do(<<>>)
      BY <1>4, <2>2 DEF Store, Return
    <3> QED
      BY <1>2, <1>3, <2>1, <2>2, <3>1
  <2>3. CASE loader.i + 1 # CodeWords
    <3>1. PICK op \in {"spi_write", "uart_poll"} : Do(<<op>>)
      BY <1>4, <2>3 DEF Store
    <3> QED
      BY <1>1, <1>3, <2>1, <2>3, <3>1
  <2> QED
    BY <2>2, <2>3
<1>5. CASE SetPhase
  <2>1. loader'.source = "spi" /\ loader'.result = loader.result
    BY <1>5, LoaderFields DEF SetPhase
  <2> QED
    BY <1>1, <1>3, <1>5, <2>1 DEF SetPhase, At
<1>6. ASSUME NEW op, NEW next, ReadLow(op, next)
      PROVE  /\ loader'.source = "uart" /\ loader'.result = loader.result
             /\ Bus("none", Spim!None) /\ Do(<<next>>) /\ Now = op
  <2>1. PICK low, began :
            loader' = [loader EXCEPT !.low = low, !.source = "uart", !.began = began]
    BY <1>6 DEF ReadLow
  <2>2. loader' = [source |-> "uart", i |-> loader.i, bytes |-> loader.bytes,
                   low |-> low, timeout |-> loader.timeout,
                   began |-> began, result |-> loader.result]
    BY <2>1, BegunFields
  <2> QED
    BY <1>6, <2>2 DEF ReadLow, At, NoAccess
<1>7. CASE ReadLow("uart", "timeout_high")
  <2>1. /\ Now = "uart" /\ loader'.source = "uart" /\ loader'.result = loader.result
        /\ Bus("none", Spim!None) /\ Do(<<"timeout_high">>)
    BY <1>6, <1>7
  <2> QED
    BY <1>1, <1>3, <2>1
<1>8. CASE ReadLow("test_low", "test_high")
  <2>1. /\ Now = "test_low" /\ loader'.source = "uart" /\ loader'.result = loader.result
        /\ Bus("none", Spim!None) /\ Do(<<"test_high">>)
    BY <1>6, <1>8
  <2>2. loader.source = "uart"
    BY <2>1 DEF OpsInv, UartOps
  <2> QED
    BY <1>1, <1>3, <2>1, <2>2
<1>9. ASSUME NEW port, NEW access, Bus(port, access), Now \in LoadOps,
             loader' = loader, NEW op \in LoadOps, Do(<<op>>)
      PROVE  Good
  BY <1>1, <1>9
<1>10. CASE SetSpiDivider
  BY <1>3, <1>9, <1>10 DEF SetSpiDivider, At
<1>11. CASE WriteSpi
  BY <1>3, <1>9, <1>11 DEF WriteSpi, At
<1>12. CASE PollSpi
  BY <1>3, <1>9, <1>12 DEF PollSpi, At
<1>13. ASSUME NEW byte, loader' = Taken(byte)
       PROVE  loader'.source = loader.source /\ loader'.result = loader.result
  BY <1>13 DEF Taken, LoaderOK
<1>14. CASE GetSpi
  <2>1. PICK op \in {"store", "spi_write"} : Do(<<op>>)
    BY <1>14 DEF GetSpi, AfterByte
  <2> QED
    BY <1>1, <1>3, <1>13, <1>14, <2>1 DEF GetSpi, At
<1>15. CASE GetUart
  <2>1. PICK op \in {"store", "uart_poll"} : Do(<<op>>)
    BY <1>15 DEF GetUart, AfterByte
  <2> QED
    BY <1>1, <1>3, <1>13, <1>15, <2>1 DEF GetUart, At
<1>16. CASE SetTimeout
  <2>1. loader'.source = loader.source /\ loader'.result = loader.result
    BY <1>16, LoaderFields DEF SetTimeout
  <2> QED
    BY <1>1, <1>3, <1>16, <2>1 DEF SetTimeout, NoAccess, At
<1>17. CASE PollUart
  BY <1>3, <1>9, <1>17 DEF PollUart, At
<1>18. CASE TestTimeout
  BY <1>3, <1>9, <1>18 DEF TestTimeout, NoAccess, At
<1>19. CASE AskAgain
  <2>1. /\ Now = "uart_ask" /\ Bus("uart", Uartm!ReadReg("sr"))
        /\ loader.source = "uart" /\ loader'.source = loader.source
        /\ loader'.result = IF uart_regs.rxne THEN loader.result ELSE "timeout"
    BY <1>19, LoaderFields DEF AskAgain, At, OpsInv, UartOps
  <2>2. Do(IF uart_regs.rxne THEN <<"uart_get">> ELSE <<>>)
    BY <1>19 DEF AskAgain
  <2>3. CASE uart_regs.rxne
    BY <1>1, <1>3, <2>1, <2>2, <2>3
  <2>4. CASE ~uart_regs.rxne
    BY <1>2, <1>3, <2>1, <2>2, <2>4
  <2> QED
    BY <2>3, <2>4
<1> QED
  BY <1>4, <1>5, <1>7, <1>8, <1>10, <1>11, <1>12, <1>14, <1>15, <1>16, <1>17, <1>18,
     <1>19 DEF LoaderStep

(* The steps of a load keep the order.                                     *)
LEMMA LoaderCtlKept ==
    ASSUME IInv, BInv, CtlInv, LoaderStep
    PROVE  CtlInv'
<1>1. SwOK /\ SwOK' /\ LoaderOK /\ OpsInv
  BY IInvHolds DEF IInv, BootNext
<1>2. PICK ops : LoadTurn(ops)
  BY <1>1, LoaderTurns
<1>3. PICK port, access : Bus(port, access)
  BY <1>2 DEF LoadTurn
<1>4. Now # "jump" /\ Now \in LoadOps \cup {"spi", "uart"} /\ din' = din
      /\ {"spi", "uart"} \cap LoadOps = {}
  BY <1>2, <1>3 DEF LoadTurn, Bus, LoadOps, SpiOps, UartOps
<1>5. ASSUME Now \notin LoadOps
      PROVE  /\ loader.source = "none" /\ loader.result = "none"
             /\ ~Skipping /\ Now = ChosenSource
  <2>1. Now \in Starters
    BY <1>4, <1>5 DEF Starters
  <2>2. loader.source = "none"
    BY <1>1, <1>4, <2>1, NowComesFirst DEF BInv, LoadInv
  <2>3. 1 \in 1 .. Len(sw.todo) /\ sw.todo[1] = Now
    BY <1>1, <1>4, NowComesFirst, HeadTailProperties, EmptySeq, LenProperties
  <2> QED
    BY <1>4, <1>5, <2>2, <2>3 DEF CtlInv, LoaderCtl, Chosen
<1>6. ops = <<>> => Now' \notin LoadOps
  <2>1. <<>> \in Seq(MainOps)
    BY EmptySeq
  <2>2. ops = <<>> => Now' \in MainOps \cup {"jump"}
    BY <1>1, <1>2, <2>1, DoesGoOn DEF LoadTurn
  <2> QED
    BY <2>2 DEF MainOps, LoadOps, SpiOps, UartOps
<1>7. Now \in LoadOps => loader.source # "none" /\ loader.result = "none"
  BY DEF BInv, LoadInv, CtlInv, LoaderCtl
<1>8. LoaderCtl'
  <2>1. /\ loader'.result \in {"none", "done", "timeout"}
        /\ loader'.source # "none"
        /\ Now' \in LoadOps => loader'.result = "none"
    BY <1>2, <1>4, <1>5, <1>6, <1>7 DEF LoadTurn
  <2>2. ~Skipping /\ loader'.source = ChosenSource
    BY <1>2, <1>4, <1>5, <1>7 DEF LoadTurn, CtlInv, LoaderCtl
  <2> QED
    BY <1>4, <2>1, <2>2 DEF LoaderCtl, Skipping, ChosenSource
<1>9. /\ Do(ops) /\ (ops = <<>> \/ \E op \in LoadOps : ops = <<op>>)
      /\ (loader.result # "none" => loader'.result = loader.result)
      /\ (Now = "spi" => loader'.source = "spi" /\ ops # <<>>)
      /\ (Now = "uart" => loader'.source = "uart" /\ ops # <<>>)
      /\ (Now \in LoadOps => loader'.source = loader.source)
      /\ (ops = <<>> => loader'.result # "none")
      /\ (ops = <<>> /\ loader.source = "spi" => loader'.result = "done")
  BY <1>2, <1>4, <1>5, <1>7 DEF LoadTurn
<1> QED
  BY <1>1, <1>3, <1>4, <1>8, <1>9, LoadCtl

(* The order holds from the beginning on.                                  *)
LEMMA CtlStarts ==
    ASSUME BootInit
    PROVE  CtlInv
<1>1. /\ sw.todo = <<"uart_divider", "uart_enable">> /\ sw.mtvec = "boot_rom"
      /\ loader.source = "none" /\ loader.result = "none"
  BY DEF BootInit
<1>2. /\ Len(sw.todo) = 2 /\ sw.todo[1] = "uart_divider"
      /\ sw.todo[2] = "uart_enable" /\ Now = "uart_divider"
  BY <1>1 DEF Now
<1>3. \A k \in 1 .. Len(sw.todo) : sw.todo[k] \in {"uart_divider", "uart_enable"}
  BY <1>2
<1>4. Closed(sw.todo) /\ Chosen(sw.todo) /\ After(sw.todo, "mtvec", "spi")
      /\ After(sw.todo, "uart_result", "uart")
  BY <1>2, <1>3 DEF Closed, Deciding, Chosen, After
<1> QED
  BY <1>1, <1>2, <1>4 DEF CtlInv, TrapSet, LoaderCtl, LoadOps, SpiOps, UartOps

(* The order is kept.                                                      *)
LEMMA CtlHolds ==
    ASSUME IInv, BInv, CtlInv, [BootNext]_loadervars
    PROVE  CtlInv'
<1>1. CASE UNCHANGED loadervars
  BY <1>1 DEF loadervars, hwvars, CtlInv, Closed, Chosen, After, MayStart, MayLook,
     Skipping, ChosenSource, TrapSet, LoaderCtl, Now
<1>2. CASE Wait
  <2>1. /\ sw'.todo = sw.todo /\ sw'.mtvec = sw.mtvec /\ loader' = loader
        /\ din' = din /\ gpio_regs'.idr = din
    BY <1>2 DEF Wait, NoAccess, Bus, Gpiom!GpioCycle, IInv, SwOK, IsSw
  <2> QED
    BY <2>1 DEF CtlInv, Closed, Chosen, After, MayStart, MayLook,
       Skipping, ChosenSource, TrapSet, LoaderCtl, Now
<1>3. CASE LoaderStep
  BY <1>3, LoaderCtlKept
<1>4. CASE MainStep
  BY <1>4, MainCtl
<1> QED
  BY <1>1, <1>2, <1>3, <1>4 DEF BootNext, MainStep, Running

-----------------------------------------------------------------------------
(* What a step is to a load of code, of which a stored word is the one the *)
(* load function has put together.                                         *)
Still == /\ loader'.source = loader.source /\ loader'.i = loader.i /\ cram' = cram
         /\ din' = din
Begins == /\ Status = "starting" /\ ~Skipping
          /\ Status' = "loading" /\ loader'.source = ChosenSource
          /\ loader'.i = loader.i /\ cram' = cram /\ din' = din
Stores == /\ Status = "loading" /\ loader.source = ChosenSource /\ Now = "store"
          /\ cram' = [cram EXCEPT ![loader.i] = Word]
          /\ loader'.i = loader.i + 1
          /\ Status' = IF loader.i + 1 = CodeWords THEN "loaded" ELSE "loading"
          /\ loader'.source = loader.source /\ din' = din
GivesUp == Status = "loading" /\ loader.source = "uart" /\ Status' = "failed" /\ Still
Runs == /\ Status = "loaded" \/ (Status = "starting" /\ Skipping)
        /\ Status' = "running" /\ Still
LoadingGoesOn == Begins \/ Stores \/ GivesUp \/ Runs \/ (Status' = Status /\ Still)

(* How far it is while it is not over.                                     *)
LEMMA StatusBefore ==
    ASSUME ~Jumped, LoaderCtl
    PROVE  Status = IF loader.source = "none" THEN "starting"
                    ELSE IF loader.result = "done" THEN "loaded"
                    ELSE IF loader.result = "timeout" THEN "failed" ELSE "loading"
  BY DEF Status, LoaderCtl

(* The same after a step.                                                  *)
LEMMA StatusAfter ==
    ASSUME ~Jumped', LoaderCtl'
    PROVE  Status' = IF loader'.source = "none" THEN "starting"
                     ELSE IF loader'.result = "done" THEN "loaded"
                     ELSE IF loader'.result = "timeout" THEN "failed" ELSE "loading"
  BY DEF Status, LoaderCtl

(* The jump comes when nothing else is to be done.                         *)
LEMMA NothingLeft ==
    ASSUME SwOK', Jumped'
    PROVE  sw'.todo = <<>>
<1>1. SUFFICES ASSUME sw'.todo # <<>> PROVE FALSE
  OBVIOUS
<1>2. sw'.todo \in Seq(Ops)
  BY DEF SwOK
<1>3. Head(sw'.todo) \in Ops
  BY <1>1, <1>2
<1>4. Head(sw'.todo) = "jump"
  BY <1>1 DEF Jumped, At, Now
<1>5. "jump" \notin Ops
  BY DEF Ops, MainOps, SpiOps, UartOps
<1> QED
  BY <1>3, <1>4, <1>5

(* An access is never the last thing before the jump.                      *)
LEMMA NotYet ==
    ASSUME SwOK', sw'.gap = 1
    PROVE  ~Jumped'
<1>1. sw'.pace \in Paces
  BY DEF SwOK
<1>2. sw'.pace # 1
  BY <1>1, LoaderAssumption
<1>3. Now' = "jump" => Gap(Now)' = sw'.pace
  BY DEF Gap
<1> QED
  BY <1>2, <1>3 DEF Jumped, At, Gap

(* Only Store changes the code RAM.                                        *)
LEMMA OnlyStoreStores ==
    ASSUME LoaderOK, LoaderStep
    PROVE  \/ Store /\ loader'.i = loader.i + 1
                    /\ cram' = [cram EXCEPT ![loader.i] = Word]
                    /\ loader'.result = IF loader.i + 1 = CodeWords THEN "done"
                                        ELSE loader.result
           \/ ~Store /\ loader'.i = loader.i /\ cram' = cram
                     /\ (loader'.result = loader.result \/ loader'.result = "timeout")
<1>1. CASE Store
  BY <1>1 DEF Store, LoaderOK
<1>2. CASE ~Store
  <2>1. ASSUME loader' = loader \/ \E a : \/ loader' = [loader EXCEPT !.source = a]
                                         \/ loader' = [loader EXCEPT !.timeout = a]
        PROVE  loader'.i = loader.i /\ loader'.result = loader.result
    BY <2>1, LoaderFields
  <2>2. CASE SetPhase \/ SetSpiDivider \/ WriteSpi \/ PollSpi \/ SetTimeout
              \/ PollUart \/ TestTimeout
    <3>1. cram' = cram
          /\ (loader' = loader \/ \E a : \/ loader' = [loader EXCEPT !.source = a]
                                        \/ loader' = [loader EXCEPT !.timeout = a])
      BY <2>2 DEF SetPhase, SetSpiDivider, WriteSpi, PollSpi, SetTimeout, PollUart,
         TestTimeout
    <3> QED
      BY <1>2, <2>1, <3>1
  <2>3. CASE GetSpi \/ GetUart
    <3>1. PICK byte : loader' = Taken(byte) /\ cram' = cram
      BY <2>3 DEF GetSpi, GetUart
    <3>2. loader'.i = loader.i /\ loader'.result = loader.result
      BY <3>1, TakenFields DEF Taken
    <3> QED
      BY <1>2, <3>1, <3>2
  <2>4. ASSUME NEW op, NEW next, ReadLow(op, next)
        PROVE  loader'.i = loader.i /\ loader'.result = loader.result /\ cram' = cram
    <3>1. PICK low, began :
              loader' = [loader EXCEPT !.low = low, !.source = "uart", !.began = began]
      BY <2>4 DEF ReadLow
    <3>2. loader' = [source |-> "uart", i |-> loader.i, bytes |-> loader.bytes,
                     low |-> low, timeout |-> loader.timeout,
                     began |-> began, result |-> loader.result]
      BY <3>1, BegunFields
    <3> QED
      BY <2>4, <3>2 DEF ReadLow
  <2>5. CASE AskAgain
    BY <1>2, <2>5, LoaderFields DEF AskAgain
  <2> QED
    BY <1>2, <2>2, <2>3, <2>4, <2>5 DEF LoaderStep
<1> QED
  BY <1>1, <1>2

(* Each step is one of a load of code or changes nothing of it.            *)
LEMMA StepsOfLoading ==
    ASSUME IInv, BInv, CtlInv, [BootNext]_loadervars
    PROVE  LoadingGoesOn
<1>1. SwOK /\ SwOK' /\ LoaderOK /\ OpsInv /\ CtlInv' /\ LoaderCtl /\ LoaderCtl'
  BY IInvHolds, CtlHolds DEF IInv, CtlInv
<1>2. CASE UNCHANGED loadervars
  BY <1>2 DEF loadervars, hwvars, LoadingGoesOn, Still, Status, Jumped, At, Now, Gap
<1>3. CASE Wait
  <2>1. /\ sw'.todo = sw.todo /\ sw'.mtvec = sw.mtvec /\ loader' = loader
        /\ din' = din /\ cram' = cram /\ ~Jumped
    <3>1. ~Jumped
      <4>1. ASSUME Now = "jump" PROVE sw.gap # Gap("jump")
        <5> DEFINE long == Gap(Now)
        <5>1. Gap("jump") = long
          BY <4>1
        <5>2. sw.gap < long
          BY <1>3 DEF Wait
        <5>3. sw.gap \in Nat /\ long \in Nat
          BY <1>1, GapsAreLong DEF SwOK
        <5> HIDE DEF long
        <5> QED
          BY <5>1, <5>2, <5>3
      <4> QED
        BY <4>1 DEF Jumped, At
    <3> QED
      BY <1>1, <1>3, <3>1 DEF Wait, NoAccess, Bus, SwOK, IsSw
  <2>2. Still
    BY <2>1 DEF Still
  <2>3. CASE Jumped'
    <3>1. sw'.todo = <<>>
      BY <1>1, <2>3, NothingLeft
    <3>2. TrapSet
      BY <2>1, <3>1, EmptySeq DEF CtlInv, TrapSet
    <3>3. loader.result = "done" \/ (Skipping /\ loader.source = "none")
      BY <3>2 DEF CtlInv
    <3>4. Status' = "running"
      BY <2>1, <2>3, <3>2 DEF Status, TrapSet
    <3>5. Status = "loaded" \/ (Status = "starting" /\ Skipping)
      BY <1>1, <2>1, <3>3, StatusBefore DEF LoaderCtl
    <3> QED
      BY <2>2, <3>4, <3>5 DEF Runs, LoadingGoesOn
  <2>4. CASE ~Jumped'
    <3>1. Status' = Status
      BY <1>1, <2>1, <2>4, StatusBefore, StatusAfter
    <3> QED
      BY <2>2, <3>1 DEF LoadingGoesOn
  <2> QED
    BY <2>3, <2>4
<1>4. ASSUME sw'.gap = 1, Now # "jump"
      PROVE  ~Jumped /\ ~Jumped'
  BY <1>1, <1>4, NotYet DEF Jumped, At
<1>5. CASE MainStep
  <2>1. loader' = loader /\ Now # "jump"
    BY <1>1, <1>5, MainGoesOn DEF MainOps
  <2>2. MainOrdered
    BY <1>1, <1>5, MainIsOrdered
  <2>3. sw'.gap = 1
    BY <1>1, <1>5, MainShape DEF BInv, MainPuts
  <2>4. Status' = Status
    BY <1>1, <1>4, <2>1, <2>3, StatusBefore, StatusAfter
  <2> QED
    BY <2>1, <2>2, <2>4 DEF LoadingGoesOn, Still, MainOrdered
<1>6. CASE LoaderStep
  <2>1. PICK ops : LoadTurn(ops)
    BY <1>1, <1>6, LoaderTurns
  <2>2. /\ Now # "jump" /\ Now \in LoadOps \cup {"spi", "uart"} /\ din' = din
        /\ sw'.gap = 1
    BY <1>1, <2>1 DEF LoadTurn, Bus, Do, SwOK, IsSw
  <2>3. /\ Status = IF loader.source = "none" THEN "starting"
                    ELSE IF loader.result = "done" THEN "loaded"
                    ELSE IF loader.result = "timeout" THEN "failed" ELSE "loading"
        /\ Status' = IF loader'.source = "none" THEN "starting"
                     ELSE IF loader'.result = "done" THEN "loaded"
                     ELSE IF loader'.result = "timeout" THEN "failed" ELSE "loading"
    BY <1>1, <1>4, <2>2, StatusBefore, StatusAfter
  <2>4. \/ Store /\ loader'.i = loader.i + 1
                 /\ cram' = [cram EXCEPT ![loader.i] = Word]
                 /\ loader'.result = IF loader.i + 1 = CodeWords THEN "done"
                                     ELSE loader.result
        \/ ~Store /\ loader'.i = loader.i /\ cram' = cram
                  /\ (loader'.result = loader.result \/ loader'.result = "timeout")
    BY <1>1, <1>6, OnlyStoreStores
  <2>5. Store => Now = "store" /\ Now \in LoadOps
    BY DEF Store, At, LoadOps
  <2>6. CASE Now \in LoadOps
    <3>1. /\ loader.source # "none" /\ loader.result = "none"
          /\ loader.source = ChosenSource /\ loader'.source = loader.source
      BY <1>1, <2>1, <2>6 DEF BInv, LoadInv, LoaderCtl, LoadTurn
    <3>2. CASE Store
      <4>1. Stores
        BY <2>2, <2>3, <2>4, <2>5, <3>1, <3>2 DEF Stores
      <4> QED
        BY <4>1 DEF LoadingGoesOn
    <3>3. CASE ~Store
      <4>1. Still
        BY <2>2, <2>4, <3>1, <3>3 DEF Still
      <4>2. CASE loader'.result = loader.result
        BY <2>3, <3>1, <4>1, <4>2 DEF LoadingGoesOn
      <4>3. CASE loader'.result = "timeout"
        <5>1. loader.source = "uart"
          BY <2>1, <3>1, <4>3 DEF LoadTurn, ChosenSource
        <5> QED
          BY <2>3, <3>1, <4>1, <4>3, <5>1 DEF LoadingGoesOn, GivesUp
      <4> QED
        BY <2>4, <3>3, <4>2, <4>3
    <3> QED
      BY <3>2, <3>3
  <2>7. CASE Now \notin LoadOps
    <3>1. Now \in Starters /\ ~Store
      BY <2>2, <2>5, <2>7 DEF Starters
    <3>2. loader.source = "none" /\ loader.result = "none"
      BY <1>1, <2>2, <3>1, NowComesFirst DEF BInv, LoadInv, LoaderCtl
    <3>3. 1 \in 1 .. Len(sw.todo) /\ sw.todo[1] = Now
      BY <1>1, <2>2, NowComesFirst, HeadTailProperties, EmptySeq, LenProperties
    <3>4. ~Skipping /\ Now = ChosenSource /\ Now \in {"spi", "uart"}
      BY <2>2, <2>7, <3>3 DEF CtlInv, Chosen
    <3>5. loader'.source = Now /\ loader'.result = "none"
      BY <2>1, <2>7, <3>2 DEF LoadTurn
    <3>6. Begins
      BY <2>2, <2>3, <2>4, <3>1, <3>2, <3>4, <3>5 DEF Begins
    <3> QED
      BY <3>6 DEF LoadingGoesOn
  <2> QED
    BY <2>6, <2>7
<1> QED
  BY <1>2, <1>3, <1>5, <1>6 DEF BootNext, MainStep, Running

-----------------------------------------------------------------------------
(* A load of code of which only is kept which words are in.                *)
Whole   == <<0>>
Filled  == [n \in 0 .. CodeWords - 1 |-> IF cram[n] = <<>> THEN <<>> ELSE Whole]
Full    == [n \in 0 .. CodeWords - 1 |-> Whole]

Ordered == INSTANCE CodeLoading WITH
    Images <- [spi |-> Full, uart |-> Full],
    status <- Status, source <- loader.source, stored <- loader.i, ram <- Filled,
    skip <- Skipping, chosen <- ChosenSource

CramInv == cram = [n \in 0 .. CodeWords - 1 |-> cram[n]]

LEMMA CramKept ==
    ASSUME CramInv, LoadingGoesOn
    PROVE  CramInv'
<1>1. cram' = cram \/ cram' = [cram EXCEPT ![loader.i] = Word]
  BY DEF LoadingGoesOn, Begins, Stores, GivesUp, Runs, Still
<1> QED
  BY <1>1 DEF CramInv

(* A word of four bytes is not nothing.                                    *)
LEMMA WordIsThere == Word # <<>>
<1>1. DOMAIN Word = 0 .. 3 /\ 0 \in 0 .. 3
  BY DEF Word
<1>2. DOMAIN <<>> = 1 .. 0
  OBVIOUS
<1> QED
  BY <1>1, <1>2

(* The control of a load, for both sources, whatever the divider, the      *)
(* paces, the timeout and the host: it begins only when the switches do    *)
(* not skip it and from the source they choose; the words of the code RAM  *)
(* are filled one after the other, each of them once; the load is done     *)
(* when the last is in, and only a load over the UART can be given up;     *)
(* the jump to the code RAM, with the trap vector there, comes after a     *)
(* load that was done or instead of one, and never after one given up.     *)
THEOREM LoadingInOrder == BootSpec => Ordered!Spec
<1> DEFINE Inv == IInv /\ BInv /\ CtlInv /\ CramInv
<1>1. ASSUME BootInit PROVE Inv /\ Ordered!Init
  <2>1. IInv /\ BInv /\ CtlInv
    BY <1>1, IInvStarts, BInvStarts, CtlStarts
  <2>2. /\ cram = [n \in 0 .. CodeWords - 1 |-> <<>>]
        /\ loader.source = "none" /\ loader.i = 0
        /\ Now = "uart_divider"
    BY <1>1 DEF BootInit, Now
  <2>3. CramInv /\ Filled = [n \in 0 .. CodeWords - 1 |-> <<>>]
    BY <2>2 DEF CramInv, Filled
  <2>4. Status = "starting"
    BY <2>2 DEF Status, Jumped, At
  <2>5. Skipping \in BOOLEAN /\ ChosenSource \in DOMAIN [spi |-> Full, uart |-> Full]
    BY DEF Skipping, ChosenSource
  <2> QED
    BY <2>1, <2>2, <2>3, <2>4, <2>5 DEF Ordered!Init, Ordered!Unknown
<1>2. ASSUME Inv, [BootNext]_loadervars PROVE Inv' /\ [Ordered!Next]_(Ordered!vars)
  <2>1. LoadingGoesOn
    BY <1>2, StepsOfLoading
  <2>2. Inv'
    BY <1>2, <2>1, IInvHolds, BInvHolds, CtlHolds, CramKept
  <2>3. din' = din
    BY <2>1 DEF LoadingGoesOn, Begins, Stores, GivesUp, Runs, Still
  <2>4. Skipping' = Skipping /\ ChosenSource' = ChosenSource
    BY <2>3 DEF Skipping, ChosenSource
  <2>5. cram' = cram => Filled' = Filled
    BY DEF Filled
  <2>6. CASE Begins
    <3>1. Ordered!Load
      BY <2>4, <2>5, <2>6 DEF Begins, Ordered!Load
    <3> QED
      BY <2>2, <3>1 DEF Ordered!Next
  <2>7. CASE Stores
    <3>1. loader.i \in 0 .. CodeWords - 1
      <4>1. Now \in LoadOps
        BY <2>7 DEF Stores, LoadOps
      <4> QED
        BY <1>2, <4>1, BootAssumption DEF BInv, LoadInv
    <3>2. Filled' = [Filled EXCEPT ![loader.i] = Whole]
      <4>1. cram' = [cram EXCEPT ![loader.i] = Word]
        BY <2>7 DEF Stores
      <4>2. \A n \in 0 .. CodeWords - 1 :
                cram'[n] = IF n = loader.i THEN Word ELSE cram[n]
        BY <1>2, <3>1, <4>1 DEF CramInv
      <4> QED
        BY <3>1, <4>2, WordIsThere DEF Filled
    <3>3. [spi |-> Full, uart |-> Full][loader.source][loader.i] = Whole
      <4>1. loader.source \in {"spi", "uart"}
        BY <2>7 DEF Stores, ChosenSource
      <4>2. [spi |-> Full, uart |-> Full][loader.source] = Full
        BY <4>1
      <4> QED
        BY <3>1, <4>2 DEF Full
    <3>4. Ordered!Store
      BY <2>4, <2>7, <3>2, <3>3 DEF Stores, Ordered!Store
    <3> QED
      BY <2>2, <3>4 DEF Ordered!Next
  <2>8. CASE GivesUp
    <3>1. Ordered!GiveUp
      BY <2>4, <2>5, <2>8 DEF GivesUp, Still, Ordered!GiveUp
    <3> QED
      BY <2>2, <3>1 DEF Ordered!Next
  <2>9. CASE Runs
    <3>1. Ordered!Run
      BY <2>4, <2>5, <2>9 DEF Runs, Still, Ordered!Run
    <3> QED
      BY <2>2, <3>1 DEF Ordered!Next
  <2>10. CASE Status' = Status /\ Still
    BY <2>2, <2>4, <2>5, <2>10 DEF Still, Ordered!vars
  <2> QED
    BY <2>1, <2>6, <2>7, <2>8, <2>9, <2>10 DEF LoadingGoesOn
<1> QED
  BY <1>1, <1>2, PTL DEF BootSpec, Ordered!Spec

-----------------------------------------------------------------------------
(* The master and the flash, bit by bit.  Both see the serial clock late:  *)
(* the master's line follows the clock by a cycle, the flash's synchroniser *)
(* by three more; so long may a half period not be shorter.                *)
Age    == spi_clock.counter        \* the cycles since the last edge
Count  == master.bits_counter

(* What the line of the clock was n cycles before the master's last.       *)
Was(n) ==
    IF master.state = "ACTIVE" /\ spi_clock.sck THEN IF Age > n THEN 1 ELSE 0
    ELSE IF \/ master.state = "ACTIVE" /\ Count > 0
            \/ master.state = "STOP" /\ ~spi_clock.sck
         THEN IF Age <= n THEN 1 ELSE 0
    ELSE 0

LineInv ==
    /\ master.sck = Was(0)
    /\ flash.edges = [prv |-> Was(1), prv2 |-> Was(2), prv3 |-> Was(3)]

ModeInv ==
    /\ spi_regs.cpol = 0 /\ master.sck_polarity = 0
    /\ loader.source = "spi" => spi_regs.cpha
    /\ master.state # "IDLE" => master.sck_phase /\ loader.source = "spi"

SelectInv ==
    /\ master.ss = IF master.state \in {"ACTIVE", "STOP"} THEN 0 ELSE 1
    /\ master.state = "START" => ~flash.selected
    /\ master.state = "STOP" => flash.selected
    /\ master.state = "ACTIVE" /\ ~flash.selected =>
           Count = 0 /\ Age = 0 /\ ~spi_clock.sck

ClockInv ==
    /\ master.state = "START" => ~spi_clock.sck /\ Age = 0
    /\ master.state \in {"IDLE", "START"} => ~spi_clock.falling_edge /\ Count = 0
    /\ master.state = "START" => ~spi_clock.rising_edge
    /\ master.state \in {"ACTIVE", "STOP"} =>
           (spi_clock.rising_edge <=> spi_clock.sck /\ Age = 0)
    /\ master.state = "ACTIVE" =>
           (spi_clock.falling_edge <=> ~spi_clock.sck /\ Age = 0 /\ Count > 0)
    /\ master.state = "STOP" => Count = 0 /\ ~spi_clock.falling_edge
                                /\ (spi_clock.sck => Age = 0)
                                /\ (~spi_clock.sck => Age > 0)
    /\ master.state = "ACTIVE" /\ spi_clock.sck /\ Age > 0 => Count > 0
    /\ master.state = "ACTIVE" /\ Count = DataBits =>
           IF spi_clock.sck THEN Age > 0 ELSE Age = 0

(* How many bits the flash has shown, and the master has taken.            *)
Shown == IF spi_clock.sck /\ Age \in 1 .. 3 THEN Count - 1 ELSE Count
Came  == IF Count > 0 /\ (spi_clock.sck <=> Age > 0) THEN Count - 1 ELSE Count

ShownInv ==
    /\ flash.bits_counter = Shown
    /\ Shown > 0 =>
           /\ flash.miso = flash.tx_data[DataBits - Shown]
           /\ \A k \in 0 .. DataBits - 1 :
                  flash.tx_buffer[k] = IF k < Shown THEN 0 ELSE flash.tx_data[k - Shown]

(* The n bits of b that come first, in the order in which they come.       *)
Part(r, b, n) ==
    \A k \in 0 .. DataBits - 1 : r[k] = IF k < n THEN b[DataBits - n + k] ELSE 0

CameInv == Part(master.rx_buffer, flash.tx_data, Came)

BitsInv ==
    /\ flash.selected =>
           flash.tx_data = Flash!rdata(flash.addr)[flash.bytes_counter]
    /\ master.state = "START" => flash.bits_counter = 0
    /\ master.state = "ACTIVE" => ShownInv /\ CameInv

HardInv == LineInv /\ ModeInv /\ SelectInv /\ ClockInv /\ BitsInv

-----------------------------------------------------------------------------
(* The flash and the load.  The flash has turned to the next byte when the *)
(* master has let it go.                                                   *)
Pending == IF master.rx_data_valid \/ spi_regs.rxne THEN 1 ELSE 0
Got     == 4 * loader.i + Len(loader.bytes) + Pending
Behind  == IF flash.selected /\ master.state \in {"STOP", "IDLE"} THEN 1 ELSE 0

PlaceInv ==
    loader.source = "spi" /\ Got - Behind < 4 * CodeWords =>
        4 * flash.addr + flash.bytes_counter = Got - Behind

UnreadInv ==
    loader.source # "spi" =>
        /\ master.state = "IDLE" /\ ~master.rx_data_valid /\ ~spi_regs.rxne
        /\ ~flash.selected /\ flash.addr = 0 /\ flash.bytes_counter = 0

WordInv ==
    loader.source = "spi" =>
        /\ Len(loader.bytes) <= 4
        /\ Now = "store" => Len(loader.bytes) = 4
        /\ Now = "spi_get" => spi_regs.rxne
        /\ \A j \in 1 .. Len(loader.bytes) :
               loader.bytes[j] = FlashImage[loader.i][j - 1]
        /\ master.rx_data_valid =>
               master.rx_data = FlashImage[loader.i][Len(loader.bytes)]
        /\ spi_regs.rxne =>
               spi_regs.rdr = FlashImage[loader.i][Len(loader.bytes)]

DataInv == HardInv /\ PlaceInv /\ UnreadInv /\ WordInv

-----------------------------------------------------------------------------
(* What a cycle does to the clock and the master.                          *)
Beat(state, sck, age, count, turned) ==
    /\ master'.state = state /\ Count' = count
    /\ spi_clock'.sck = sck /\ Age' = age
    /\ (spi_clock'.rising_edge <=> (turned /\ sck))
    /\ (spi_clock'.falling_edge <=> (turned /\ ~sck))

SameMode == /\ master'.sck_polarity = master.sck_polarity
            /\ master'.sck_phase = master.sck_phase
NoByte   == ~master'.rx_data_valid /\ master'.rx_data = master.rx_data
SameLine == master'.sck = master.sck /\ master'.ss = master.ss

RestBeat ==
    /\ master.state = "IDLE"
    /\ Beat(IF spi_tx_data_valid THEN "START" ELSE "IDLE", FALSE, 0, Count, FALSE)
    /\ master'.ss = master.ss /\ master'.sck = spi_regs.cpol
    /\ master'.sck_polarity = spi_regs.cpol /\ master'.sck_phase = spi_regs.cpha
    /\ NoByte

StartBeat ==
    /\ master.state = "START" /\ Beat("ACTIVE", FALSE, 0, Count, FALSE)
    /\ master'.ss = 0 /\ master'.sck = master.sck /\ master'.rx_buffer = Spim!Zeros
    /\ SameMode /\ NoByte

HoldBeat ==
    /\ master.state = "ACTIVE" /\ (Age > 0 \/ (Count = 0 /\ ~spi_clock.sck))
    /\ IF Age # target THEN Beat("ACTIVE", spi_clock.sck, Age + 1, Count, FALSE)
       ELSE IF spi_clock.sck THEN Beat("ACTIVE", FALSE, 0, Count, TRUE)
       ELSE Beat("ACTIVE", TRUE, 0, Count, TRUE)
    /\ master'.rx_buffer = master.rx_buffer /\ SameLine /\ SameMode /\ NoByte

LeadBeat ==
    /\ master.state = "ACTIVE" /\ spi_clock.sck /\ Age = 0
    /\ Beat("ACTIVE", TRUE, 1, Count + 1, FALSE) /\ Count < DataBits
    /\ master'.sck = 1 /\ master'.ss = master.ss
    /\ master'.rx_buffer = master.rx_buffer /\ SameMode /\ NoByte

TrailBeat ==
    /\ master.state = "ACTIVE" /\ ~spi_clock.sck /\ Age = 0 /\ Count > 0
    /\ Count # DataBits /\ Beat("ACTIVE", FALSE, 1, Count, FALSE)
    /\ master'.sck = 0 /\ master'.ss = master.ss
    /\ master'.rx_buffer = Spim!Shifted(master.rx_buffer, flash.miso)
    /\ SameMode /\ NoByte

LastBeat ==
    /\ master.state = "ACTIVE" /\ ~spi_clock.sck /\ Age = 0
    /\ Count = DataBits /\ Beat("STOP", FALSE, 1, 0, FALSE)
    /\ master'.sck = 0 /\ master'.ss = master.ss
    /\ master'.rx_data_valid
    /\ master'.rx_data = Spim!Shifted(master.rx_buffer, flash.miso)
    /\ SameMode

StopBeat ==
    /\ master.state = "STOP" /\ ~spi_clock.sck
    /\ IF Age = target THEN Beat("STOP", TRUE, 0, 0, TRUE)
       ELSE Beat("STOP", FALSE, Age + 1, 0, FALSE)
    /\ SameLine /\ SameMode /\ NoByte

FreeBeat ==
    /\ master.state = "STOP" /\ spi_clock.sck
    /\ Beat("IDLE", TRUE, 1, 0, FALSE)
    /\ master'.ss = 1 /\ master'.sck = master.sck /\ SameMode /\ NoByte

Beats == \/ RestBeat \/ StartBeat \/ HoldBeat \/ LeadBeat \/ TrailBeat
         \/ LastBeat \/ StopBeat \/ FreeBeat

(* The clock is reset while it is off, and goes on while it is on.         *)
LEMMA ClockBeats ==
    ASSUME ClockOK, NEW en \in BOOLEAN, NEW valid \in BOOLEAN, NEW divider,
           Spim!SckGenerator!Cycle(en, valid, divider)
    PROVE  /\ ~en => /\ ~spi_clock'.sck /\ Age' = 0
                     /\ ~spi_clock'.rising_edge /\ ~spi_clock'.falling_edge
           /\ en /\ ~valid /\ target > 0 /\ Age = target =>
                  /\ spi_clock'.sck = ~spi_clock.sck /\ Age' = 0
                  /\ (spi_clock'.rising_edge <=> ~spi_clock.sck)
                  /\ (spi_clock'.falling_edge <=> spi_clock.sck)
           /\ en /\ ~valid /\ target > 0 /\ Age # target =>
                  /\ spi_clock'.sck = spi_clock.sck /\ Age' = Age + 1
                  /\ ~spi_clock'.rising_edge /\ ~spi_clock'.falling_edge
<1> USE LoaderAssumption DEF ClockOK, Age, target
<1>1. CASE Spim!SckGenerator!SetDivider(valid, divider)
  BY <1>1 DEF Spim!SckGenerator!SetDivider
<1>2. CASE Spim!SckGenerator!Turn(en, valid)
  <2>1. /\ en /\ ~valid /\ (target = 0 \/ Age = target)
        /\ spi_clock' = [spi_clock EXCEPT !.sck = ~spi_clock.sck,
               !.rising_edge = ~spi_clock.sck, !.falling_edge = spi_clock.sck,
               !.counter = 0]
    BY <1>2 DEF Spim!SckGenerator!Turn
  <2>2. /\ spi_clock'.sck = ~spi_clock.sck /\ Age' = 0
        /\ spi_clock'.rising_edge = ~spi_clock.sck
        /\ spi_clock'.falling_edge = spi_clock.sck
    BY <2>1
  <2>3. (spi_clock'.rising_edge <=> ~spi_clock.sck)
        /\ (spi_clock'.falling_edge <=> spi_clock.sck)
    BY <2>2, Zenon
  <2>4. target \in Nat
    OBVIOUS
  <2> HIDE DEF ClockOK, Age, target
  <2> QED
    BY <2>1, <2>2, <2>3, <2>4
<1>3. CASE Spim!SckGenerator!Count(en, valid)
  <2>1. /\ en /\ ~valid /\ Age # target /\ Age < target /\ target <= MaxDivider
        /\ Age \in Nat /\ target \in Nat /\ MaxDivider \in Nat
    BY <1>3 DEF Spim!SckGenerator!Count
  <2>2. (Age + 1) % (MaxDivider + 1) = Age + 1
    <3> HIDE DEF Age, target
    <3>1. Age + 1 \in Nat /\ MaxDivider + 1 \in Nat /\ Age + 1 < MaxDivider + 1
      BY <2>1
    <3> QED
      BY <3>1, SmallRemainder
  <2>3. spi_clock' = [spi_clock EXCEPT !.rising_edge = FALSE, !.falling_edge = FALSE,
                                       !.counter = Age + 1]
    BY <1>3, <2>2 DEF Spim!SckGenerator!Count
  <2>4. Age + 1 \in Nat
    BY <2>1
  <2> QED
    BY <2>1, <2>3, <2>4
<1>4. CASE Spim!SckGenerator!Stop(en, valid)
  BY <1>4 DEF Spim!SckGenerator!Stop
<1> QED
  BY <1>1, <1>2, <1>3, <1>4 DEF Spim!SckGenerator!Cycle

(* Each cycle is one of those.                                             *)
LEMMA SpiBeats ==
    ASSUME HInv, SInv, SpiInv, ModeInv, ClockInv,
           NEW access, Spim!SpiCycle(access, flash.miso)
    PROVE  Beats
<1> DEFINE en == master.en
           valid == spi_clk_divider_valid
<1>1. /\ en \in BOOLEAN /\ valid \in BOOLEAN
      /\ (en <=> master.state \in {"ACTIVE", "STOP"})
      /\ (en => ~valid /\ target > 0)
      /\ Spim!SckGenerator!Cycle(en, valid, spi_regs.cdr)
      /\ Spim!MasterCycle(flash.miso)
  BY LoaderAssumption, FlashAssumption DEF HInv, MasterOK, SInv, Spim!SpiCycle
<1>2. ClockOK /\ master \in Masters /\ Age \in Nat /\ spi_clock.sck \in BOOLEAN
      /\ Count \in 0 .. DataBits /\ DataBits \in 1 .. 15
      /\ spi_clock.rising_edge \in BOOLEAN /\ spi_clock.falling_edge \in BOOLEAN
  BY BootAssumption DEF HInv, SpiInv, ClockOK, Age, Masters, Count
<1>3. /\ ~en => /\ ~spi_clock'.sck /\ Age' = 0
                /\ ~spi_clock'.rising_edge /\ ~spi_clock'.falling_edge
      /\ en /\ Age = target =>
             /\ spi_clock'.sck = ~spi_clock.sck /\ Age' = 0
             /\ (spi_clock'.rising_edge <=> ~spi_clock.sck)
             /\ (spi_clock'.falling_edge <=> spi_clock.sck)
      /\ en /\ Age # target =>
             /\ spi_clock'.sck = spi_clock.sck /\ Age' = Age + 1
             /\ ~spi_clock'.rising_edge /\ ~spi_clock'.falling_edge
  BY <1>1, <1>2, ClockBeats
<1> HIDE DEF en, valid
<1>4. en /\ Age = 0 => Age' = 1 /\ Age # target
  BY <1>1, <1>2, <1>3
<1>5. CASE Spim!Rest
  <2>1. /\ master.state = "IDLE" /\ ~en /\ Count' = Count
        /\ master'.state = IF spi_tx_data_valid THEN "START" ELSE "IDLE"
        /\ master'.ss = master.ss /\ master'.sck = spi_regs.cpol
        /\ master'.sck_polarity = spi_regs.cpol /\ master'.sck_phase = spi_regs.cpha
        /\ NoByte
    BY <1>1, <1>2, <1>5 DEF Spim!Rest, Spim!Becomes, Masters, Count, NoByte
  <2> QED
    BY <1>3, <2>1 DEF Beats, RestBeat, Beat
<1>6. CASE Spim!Start
  <2>1. /\ master.state = "START" /\ ~en /\ Count' = Count
        /\ master'.state = "ACTIVE"
        /\ master'.ss = 0 /\ master'.sck = master.sck /\ master'.rx_buffer = Spim!Zeros
        /\ SameMode /\ NoByte
    BY <1>1, <1>2, <1>6 DEF Spim!Start, Spim!Becomes, Masters, Count, NoByte, SameMode
  <2> QED
    BY <1>3, <2>1 DEF Beats, StartBeat, Beat
<1>7. CASE Spim!Leading(flash.miso)
  <2>1. master.state = "ACTIVE" /\ en /\ spi_clock.sck /\ Age = 0 /\ master.sck_phase
        /\ master.sck_polarity = 0 /\ Count < DataBits
    BY <1>1, <1>2, <1>7 DEF Spim!Leading, Spim!leading, ClockInv, ModeInv
  <2>2. (Count + 1) % 16 = Count + 1
    BY <1>2, <2>1
  <2> DEFINE m == [master EXCEPT !.bits_counter = Count + 1, !.sck = 1]
  <2>3. m = [master EXCEPT !.bits_counter = (@ + 1) % 16,
                           !.sck = 1 - master.sck_polarity]
    <3>1. master.bits_counter = Count /\ 1 - master.sck_polarity = 1
      BY <2>1 DEF Count
    <3> QED
      BY <2>2, <3>1
  <2>4. /\ m.state = "ACTIVE" /\ m.bits_counter = Count + 1 /\ m.sck = 1
        /\ m.ss = master.ss /\ m.rx_buffer = master.rx_buffer
        /\ m.sck_polarity = master.sck_polarity /\ m.sck_phase = master.sck_phase
        /\ m.rx_data = master.rx_data
        /\ m \in [DOMAIN master -> {m[f] : f \in DOMAIN master}]
    BY <1>2, <2>1 DEF Masters
  <2>5. Spim!Becomes([m EXCEPT !.mosi = Spim!Top(m.tx_buffer),
                               !.tx_buffer = Spim!Shifted(@, 0)])
    BY <1>7, <2>1, <2>3 DEF Spim!Leading
  <2>6. DOMAIN m = DOMAIN master /\ "rx_data_valid" \in DOMAIN m
    BY <1>2 DEF Masters
  <2> HIDE DEF m
  <2>7. /\ master'.state = "ACTIVE" /\ Count' = Count + 1 /\ master'.sck = 1
        /\ master'.ss = master.ss /\ master'.rx_buffer = master.rx_buffer
        /\ SameMode /\ NoByte
    BY <2>4, <2>5, <2>6 DEF Spim!Becomes, Count, SameMode, NoByte
  <2> QED
    BY <1>3, <1>4, <2>1, <2>7 DEF Beats, LeadBeat, Beat
<1>8. ASSUME master.state = "ACTIVE", NEW m, m = Spim!TrailingEdge(flash.miso)
      PROVE  /\ m.state = "ACTIVE" /\ m.bits_counter = Count /\ m.sck = 0
             /\ m.ss = master.ss
             /\ m.rx_buffer = Spim!Shifted(master.rx_buffer, flash.miso)
             /\ m.sck_polarity = master.sck_polarity /\ m.sck_phase = master.sck_phase
             /\ m.rx_data = master.rx_data /\ DOMAIN m = DOMAIN master
  <2>1. master.sck_phase /\ master.sck_polarity = 0
    BY <1>8 DEF ModeInv
  <2>2. m = [master EXCEPT !.sck = 0,
                           !.rx_buffer = Spim!Shifted(master.rx_buffer, flash.miso)]
    BY <1>2, <1>8, <2>1 DEF Spim!TrailingEdge, Masters
  <2> QED
    BY <1>2, <1>8, <2>2 DEF Masters, Count
<1>9. ASSUME master.state = "ACTIVE", Spim!trailing, ~Spim!leading
      PROVE  en /\ ~spi_clock.sck /\ Age = 0 /\ Count > 0
  BY <1>1, <1>9 DEF Spim!trailing, Spim!leading, ClockInv
<1>10. CASE Spim!Trailing(flash.miso)
  <2> DEFINE m == Spim!TrailingEdge(flash.miso)
  <2>1. /\ master.state = "ACTIVE" /\ Spim!trailing /\ ~Spim!leading
        /\ Count # DataBits /\ master' = [m EXCEPT !.rx_data_valid = FALSE]
    BY <1>10 DEF Spim!Trailing, Spim!Becomes, Count
  <2>2. /\ m.state = "ACTIVE" /\ m.bits_counter = Count /\ m.sck = 0
        /\ m.ss = master.ss
        /\ m.rx_buffer = Spim!Shifted(master.rx_buffer, flash.miso)
        /\ m.sck_polarity = master.sck_polarity /\ m.sck_phase = master.sck_phase
        /\ m.rx_data = master.rx_data /\ DOMAIN m = DOMAIN master
        /\ "rx_data_valid" \in DOMAIN master
    BY <1>2, <1>8, <2>1 DEF Masters
  <2> HIDE DEF m
  <2>3. /\ master'.state = "ACTIVE" /\ Count' = Count /\ master'.sck = 0
        /\ master'.ss = master.ss
        /\ master'.rx_buffer = Spim!Shifted(master.rx_buffer, flash.miso)
        /\ SameMode /\ NoByte
    BY <2>1, <2>2 DEF Count, SameMode, NoByte
  <2> QED
    BY <1>3, <1>4, <1>9, <2>1, <2>3 DEF Beats, TrailBeat, Beat
<1>11. CASE Spim!LastTrailing(flash.miso)
  <2> DEFINE m == Spim!TrailingEdge(flash.miso)
  <2>1. /\ master.state = "ACTIVE" /\ Spim!trailing /\ ~Spim!leading
        /\ Count = DataBits
        /\ master' = [m EXCEPT !.state = "STOP", !.bits_counter = 0,
                               !.rx_data_valid = TRUE, !.rx_data = m.rx_buffer]
    BY <1>11 DEF Spim!LastTrailing, Count
  <2>2. /\ m.sck = 0 /\ m.ss = master.ss
        /\ m.rx_buffer = Spim!Shifted(master.rx_buffer, flash.miso)
        /\ m.sck_polarity = master.sck_polarity /\ m.sck_phase = master.sck_phase
        /\ DOMAIN m = DOMAIN master
        /\ {"state", "bits_counter", "rx_data_valid", "rx_data"} \subseteq DOMAIN master
    BY <1>2, <1>8, <2>1 DEF Masters
  <2> HIDE DEF m
  <2>3. /\ master'.state = "STOP" /\ Count' = 0 /\ master'.sck = 0
        /\ master'.ss = master.ss /\ master'.rx_data_valid
        /\ master'.rx_data = Spim!Shifted(master.rx_buffer, flash.miso)
        /\ SameMode
    BY <2>1, <2>2 DEF Count, SameMode
  <2> QED
    BY <1>3, <1>4, <1>9, <2>1, <2>3 DEF Beats, LastBeat, Beat
<1>12. CASE Spim!Hold
  <2>1. /\ master'.state = master.state /\ Count' = Count /\ SameLine /\ SameMode
        /\ master'.rx_buffer = master.rx_buffer /\ NoByte
    BY <1>2, <1>12 DEF Spim!Hold, Spim!Becomes, Masters, Count, SameLine, SameMode,
       NoByte
  <2>2. CASE master.state = "ACTIVE"
    <3>1. en /\ (Age > 0 \/ (Count = 0 /\ ~spi_clock.sck))
      BY <1>1, <1>2, <1>12, <2>2 DEF Spim!Hold, Spim!leading, Spim!trailing, ClockInv
    <3> QED
      BY <1>2, <1>3, <2>1, <2>2, <3>1 DEF Beats, HoldBeat, Beat
  <2>3. CASE master.state = "STOP"
    <3>1. en /\ ~spi_clock.sck /\ Count = 0
      BY <1>1, <1>2, <1>12, <2>3 DEF Spim!Hold, Spim!leading, ClockInv
    <3> QED
      BY <1>2, <1>3, <2>1, <2>3, <3>1 DEF Beats, StopBeat, Beat
  <2> QED
    BY <1>12, <2>2, <2>3 DEF Spim!Hold
<1>13. CASE Spim!Release
  <2>1. /\ master.state = "STOP" /\ spi_clock.sck /\ en /\ Age = 0 /\ Count = 0
    BY <1>1, <1>13 DEF Spim!Release, Spim!leading, ClockInv
  <2>2. /\ master'.state = "IDLE" /\ Count' = 0 /\ master'.ss = 1
        /\ master'.sck = master.sck /\ SameMode /\ NoByte
    BY <1>2, <1>13, <2>1 DEF Spim!Release, Spim!Becomes, Masters, Count, SameMode, NoByte
  <2> QED
    BY <1>3, <1>4, <2>1, <2>2 DEF Beats, FreeBeat, Beat
<1> QED
  BY <1>1, <1>5, <1>6, <1>7, <1>10, <1>11, <1>12, <1>13 DEF Spim!MasterCycle

-----------------------------------------------------------------------------
(* What holds of the numbers.                                              *)
Sizes ==
    /\ Age \in Nat /\ Count \in 0 .. DataBits /\ DataBits \in 1 .. 15
    /\ spi_clock.sck \in BOOLEAN /\ target \in Nat
    /\ master.state # "IDLE" => target >= 3

(* The counters are in their ranges, and while the master is not idle the  *)
(* software has set a divider of at least three.                           *)
LEMMA SizesHold ==
    ASSUME HInv, SInv, SpiInv
    PROVE  Sizes
<1>1. /\ Age \in Nat /\ spi_clock.sck \in BOOLEAN /\ target \in Nat
      /\ Count \in 0 .. DataBits /\ DataBits \in 1 .. 15
  BY LoaderAssumption, BootAssumption
     DEF HInv, ClockOK, SpiInv, Masters, Age, target, Count
<1>2. master.state # "IDLE" => target >= 3
  BY FlashAssumption DEF SInv
<1> QED
  BY <1>1, <1>2 DEF Sizes

(* The line of the clock, one cycle later.                                 *)
LEMMA LineMoves ==
    ASSUME Sizes, ClockInv, Beats, NEW n \in 0 .. 2
    PROVE  Was(n + 1)' = Was(n)
<1> USE DEF Sizes, ClockInv, Was, Beat
<1>1. CASE RestBeat
  BY <1>1 DEF RestBeat
<1>2. CASE StartBeat
  BY <1>2 DEF StartBeat
<1>3. CASE HoldBeat
  <2>1. CASE Age = target /\ spi_clock.sck
    BY <1>3, <2>1 DEF HoldBeat
  <2>3. CASE Age = target /\ ~spi_clock.sck
    BY <1>3, <2>3 DEF HoldBeat
  <2>2. CASE Age # target
    BY <1>3, <2>2 DEF HoldBeat
  <2> QED
    BY <2>1, <2>2, <2>3
<1>4. CASE LeadBeat
  BY <1>4 DEF LeadBeat
<1>5. CASE TrailBeat
  BY <1>5 DEF TrailBeat
<1>6. CASE LastBeat
  BY <1>6 DEF LastBeat
<1>7. CASE StopBeat
  BY <1>7 DEF StopBeat
<1>8. CASE FreeBeat
  BY <1>8 DEF FreeBeat
<1> QED
  BY <1>1, <1>2, <1>3, <1>4, <1>5, <1>6, <1>7, <1>8 DEF Beats

(* The master's line and the flash's three stages of synchroniser are what *)
(* the clock was one to four cycles ago: no cycle breaks that.             *)
LEMMA LineKept ==
    ASSUME Sizes, ClockInv, ModeInv, LineInv, Beats,
           Flash!FlashCycle(master.ss, master.sck)
    PROVE  LineInv'
<1>1. master'.sck = Was(0)'
  <2> USE DEF Sizes, ClockInv, Was, Beat, LineInv, SameLine
  <2>1. CASE RestBeat
    BY <2>1 DEF RestBeat, ModeInv
  <2>2. CASE StartBeat
    BY <2>2 DEF StartBeat
  <2>3. CASE HoldBeat
    <3>1. CASE Age = target /\ spi_clock.sck
      BY <2>3, <3>1 DEF HoldBeat
    <3>3. CASE Age = target /\ ~spi_clock.sck
      BY <2>3, <3>3 DEF HoldBeat
    <3>2. CASE Age # target
      BY <2>3, <3>2 DEF HoldBeat
    <3> QED
      BY <3>1, <3>2, <3>3
  <2>4. CASE LeadBeat
    BY <2>4 DEF LeadBeat
  <2>5. CASE TrailBeat
    BY <2>5 DEF TrailBeat
  <2>6. CASE LastBeat
    BY <2>6 DEF LastBeat
  <2>7. CASE StopBeat
    BY <2>7 DEF StopBeat
  <2>8. CASE FreeBeat
    BY <2>8 DEF FreeBeat
  <2> QED
    BY <2>1, <2>2, <2>3, <2>4, <2>5, <2>6, <2>7, <2>8 DEF Beats
<1>2. Was(1)' = Was(0) /\ Was(2)' = Was(1) /\ Was(3)' = Was(2)
  <2>1. Was(0 + 1)' = Was(0) /\ Was(1 + 1)' = Was(1) /\ Was(2 + 1)' = Was(2)
    BY LineMoves
  <2> QED
    BY <2>1 DEF Was
<1>3. flash'.edges = [prv |-> master.sck, prv2 |-> flash.edges.prv,
                      prv3 |-> flash.edges.prv2]
  BY DEF Flash!FlashCycle, Flash!Sampled
<1>4. flash.edges.prv = Was(1) /\ flash.edges.prv2 = Was(2) /\ master.sck = Was(0)
  BY DEF LineInv
<1> QED
  BY <1>1, <1>2, <1>3, <1>4 DEF LineInv

(* The master's states, and the edges of the clock in each.                *)
LEMMA ClockKept ==
    ASSUME Sizes, ClockInv, Beats
    PROVE  ClockInv'
<1> USE DEF Sizes, ClockInv, Beat
<1>1. CASE RestBeat
  BY <1>1 DEF RestBeat
<1>2. CASE StartBeat
  BY <1>2 DEF StartBeat
<1>3. CASE HoldBeat
  <2>1. CASE Age = target /\ spi_clock.sck
    BY <1>3, <2>1 DEF HoldBeat
  <2>3. CASE Age = target /\ ~spi_clock.sck
    BY <1>3, <2>3 DEF HoldBeat
  <2>2. CASE Age # target
    BY <1>3, <2>2 DEF HoldBeat
  <2> QED
    BY <2>1, <2>2, <2>3
<1>4. CASE LeadBeat
  BY <1>4 DEF LeadBeat
<1>5. CASE TrailBeat
  BY <1>5 DEF TrailBeat
<1>6. CASE LastBeat
  BY <1>6 DEF LastBeat
<1>7. CASE StopBeat
  BY <1>7 DEF StopBeat
<1>8. CASE FreeBeat
  BY <1>8 DEF FreeBeat
<1> QED
  BY <1>1, <1>2, <1>3, <1>4, <1>5, <1>6, <1>7, <1>8 DEF Beats

(* Who is selected.                                                        *)
LEMMA SelectKept ==
    ASSUME Sizes, HInv, ClockInv, SelectInv, Beats,
           Flash!FlashCycle(master.ss, master.sck)
    PROVE  /\ SelectInv'
           /\ (flash'.selected <=> master.state \in {"ACTIVE", "STOP"})
<1>1. flash'.selected <=> master.state \in {"ACTIVE", "STOP"}
  <2>1. flash'.selected = (master.ss = 0)
    BY DEF Flash!FlashCycle
  <2>2. master.ss = 0 <=> master.state \in {"ACTIVE", "STOP"}
    BY DEF SelectInv
  <2> QED
    BY <2>1, <2>2
<1>2. SelectInv'
  <2> USE <1>1 DEF SelectInv, Beat, SameLine
  <2>1. CASE RestBeat
    BY <2>1 DEF RestBeat
  <2>2. CASE StartBeat
    BY <2>2 DEF StartBeat, ClockInv
  <2>3. CASE HoldBeat
    <3>1. CASE Age = target /\ spi_clock.sck
      BY <2>3, <3>1 DEF HoldBeat
    <3>3. CASE Age = target /\ ~spi_clock.sck
      BY <2>3, <3>3 DEF HoldBeat
    <3>2. CASE Age # target
      BY <2>3, <3>2 DEF HoldBeat
    <3> QED
      BY <3>1, <3>2, <3>3
  <2>4. CASE LeadBeat
    BY <2>4 DEF LeadBeat
  <2>5. CASE TrailBeat
    BY <2>5 DEF TrailBeat
  <2>6. CASE LastBeat
    BY <2>6 DEF LastBeat
  <2>7. CASE StopBeat
    BY <2>7 DEF StopBeat
  <2>8. CASE FreeBeat
    BY <2>8 DEF FreeBeat
  <2> QED
    BY <2>1, <2>2, <2>3, <2>4, <2>5, <2>6, <2>7, <2>8 DEF Beats
<1> QED
  BY <1>1, <1>2

(* The flash shows a bit three cycles after the leading edge, the master   *)
(* takes it at the trailing edge.                                          *)
Showing == master.state = "ACTIVE" /\ spi_clock.sck /\ Age = 3
Taking  == master.state = "ACTIVE" /\ ~spi_clock.sck /\ Age = 0 /\ Count > 0

BitsMove ==
    /\ Shown \in Nat /\ Came \in Nat /\ Shown <= DataBits /\ Came <= DataBits
    /\ Showing => Shown' = Shown + 1 /\ Shown < DataBits
    /\ ~Showing => Shown' = Shown
    /\ Taking => /\ Came' = Came + 1 /\ Came < DataBits /\ Shown = Came + 1
                 /\ master'.rx_buffer = Spim!Shifted(master.rx_buffer, flash.miso)
    /\ ~Taking => Came' = Came /\ master'.rx_buffer = master.rx_buffer

(* In an exchange the count of bits shown and the count of bits taken move *)
(* at their own edges only, and a bit is shown before it is taken.         *)
LEMMA CountsMove ==
    ASSUME Sizes, ClockInv, Beats, master.state = "ACTIVE", master'.state = "ACTIVE"
    PROVE  BitsMove
<1>1. HoldBeat \/ LeadBeat \/ TrailBeat
  BY DEF Beats, RestBeat, StartBeat, LastBeat, StopBeat, FreeBeat, Beat
<1> USE DEF Sizes, ClockInv, Beat, BitsMove, Showing, Taking, Shown, Came
<1>2. CASE HoldBeat
  <2>1. CASE Age = target /\ spi_clock.sck
    BY <1>2, <2>1 DEF HoldBeat
  <2>2. CASE Age = target /\ ~spi_clock.sck
    BY <1>2, <2>2 DEF HoldBeat
  <2>3. CASE Age # target
    BY <1>2, <2>3 DEF HoldBeat
  <2> QED
    BY <2>1, <2>2, <2>3
<1>3. CASE LeadBeat
  BY <1>3 DEF LeadBeat
<1>4. CASE TrailBeat
  BY <1>4 DEF TrailBeat
<1> QED
  BY <1>1, <1>2, <1>3, <1>4

(* The flash's edge is the one it showed a bit for.                        *)
LEMMA RisingShows ==
    ASSUME Sizes, LineInv
    PROVE  Flash!rising(flash.edges) <=> Showing
<1>1. flash.edges.prv2 = Was(2) /\ flash.edges.prv3 = Was(3)
  BY DEF LineInv
<1>2. Was(2) = 1 /\ Was(3) = 0 <=> Showing
  BY DEF Sizes, Was, Showing
<1>3. Was(3) \in {0, 1} /\ Was(2) \in {0, 1}
  BY DEF Was
<1> QED
  BY <1>1, <1>2, <1>3 DEF Flash!rising

(* A cycle in which the flash shows a bit, and one in which it does not.   *)
LEMMA ShownKept ==
    ASSUME Sizes, ClockInv, LineInv, ShownInv, SelectInv, Flash!FlashTypeOK,
           Beats, master.state = "ACTIVE", master'.state = "ACTIVE",
           Flash!FlashCycle(master.ss, master.sck)
    PROVE  ShownInv'
<1>1. BitsMove
  BY CountsMove
<1>2. Flash!rising(flash.edges) <=> Showing
  BY RisingShows
<1>3. master.ss = 0 /\ (~flash.selected => Shown = 0 /\ ~Showing)
  BY DEF SelectInv, Shown, Showing, Sizes
<1>4. DataBits \in 1 .. 15 /\ Shown \in 0 .. DataBits /\ flash.bits_counter = Shown
  BY <1>1 DEF BitsMove, Sizes, ShownInv
<1>5. CASE Showing
  <2>1. flash.selected /\ Flash!ShiftsOut /\ Shown' = Shown + 1 /\ Shown < DataBits
    BY <1>1, <1>2, <1>3, <1>5 DEF BitsMove, Flash!ShiftsOut
  <2>2. flash'.bits_counter = Shown + 1
    <3>1. Flash!Bits(master.ss) = (Shown + 1) % 16
      BY <1>2, <1>3, <1>4, <1>5, <2>1 DEF Flash!Bits
    <3>2. (Shown + 1) % 16 = Shown + 1
      BY <1>4, <2>1
    <3> QED
      BY <3>1, <3>2 DEF Flash!FlashCycle
  <2>3. \A k \in 0 .. DataBits - 1 :
            Flash!Source[k] = IF k < Shown THEN 0 ELSE flash.tx_data[k - Shown]
    BY <1>4 DEF Flash!Source, ShownInv
  <2>4. flash'.tx_data = flash.tx_data
    BY <2>1 DEF Flash!FlashCycle, Flash!Fetched
  <2>5. flash'.miso = flash'.tx_data[DataBits - (Shown + 1)]
    <3>1. flash'.miso = Flash!Source[DataBits - 1]
      BY <2>1 DEF Flash!FlashCycle
    <3>2. /\ DataBits - 1 \in 0 .. DataBits - 1 /\ ~(DataBits - 1 < Shown)
          /\ DataBits - 1 - Shown = DataBits - (Shown + 1)
      BY <1>4, <2>1
    <3> QED
      BY <2>3, <2>4, <3>1, <3>2
  <2>6. ASSUME NEW k \in 0 .. DataBits - 1
        PROVE  flash'.tx_buffer[k] = IF k < Shown + 1 THEN 0
                                     ELSE flash'.tx_data[k - (Shown + 1)]
    <3>1. flash'.tx_buffer[k] = IF k = 0 THEN 0 ELSE Flash!Source[k - 1]
      BY <2>1 DEF Flash!FlashCycle
    <3>2. CASE k = 0
      BY <1>4, <3>1, <3>2
    <3>3. CASE k # 0
      <4>1. /\ k - 1 \in 0 .. DataBits - 1 /\ (k - 1 < Shown <=> k < Shown + 1)
            /\ k - 1 - Shown = k - (Shown + 1)
        BY <1>4, <3>3
      <4> QED
        BY <2>3, <2>4, <3>1, <3>3, <4>1
    <3> QED
      BY <3>2, <3>3
  <2> QED
    BY <2>1, <2>2, <2>5, <2>6 DEF ShownInv
<1>6. CASE ~Showing
  <2>1. ~Flash!ShiftsOut /\ Shown' = Shown
    BY <1>1, <1>2, <1>6 DEF BitsMove, Flash!ShiftsOut
  <2>2. flash'.bits_counter = Shown
    <3>1. Flash!Bits(master.ss) = IF flash.selected THEN (Shown + 0) % 16 ELSE 0
      BY <1>2, <1>3, <1>4, <1>6 DEF Flash!Bits
    <3>2. (Shown + 0) % 16 = Shown
      BY <1>4
    <3> QED
      BY <1>3, <3>1, <3>2 DEF Flash!FlashCycle
  <2>3. Shown > 0 => /\ flash.selected /\ flash'.tx_data = flash.tx_data
                     /\ flash'.miso = flash.miso
                     /\ flash'.tx_buffer = flash.tx_buffer
    BY <1>3, <2>1 DEF Flash!FlashCycle, Flash!Fetched
  <2> QED
    BY <2>1, <2>2, <2>3 DEF ShownInv
<1> QED
  BY <1>5, <1>6

(* A byte after a bit more.                                                *)
LEMMA OneMore ==
    ASSUME NEW b, NEW r, NEW n \in Nat, n < DataBits, DataBits \in Nat, NEW in,
           in = b[DataBits - (n + 1)], Part(r, b, n)
    PROVE  Part(Spim!Shifted(r, in), b, n + 1)
<1> SUFFICES ASSUME NEW k \in 0 .. DataBits - 1
             PROVE  Spim!Shifted(r, in)[k] =
                        IF k < n + 1 THEN b[DataBits - (n + 1) + k] ELSE 0
  BY DEF Part
<1>1. Spim!Shifted(r, in)[k] = IF k = 0 THEN in ELSE r[k - 1]
  BY DEF Spim!Shifted
<1>2. CASE k = 0
  <2>1. k < n + 1 /\ DataBits - (n + 1) + k = DataBits - (n + 1)
    BY <1>2
  <2> QED
    BY <1>1, <1>2, <2>1
<1>3. CASE k # 0
  <2>1. /\ k - 1 \in 0 .. DataBits - 1 /\ (k - 1 < n <=> k < n + 1)
        /\ DataBits - n + (k - 1) = DataBits - (n + 1) + k
    BY <1>3
  <2> QED
    BY <1>1, <1>3, <2>1 DEF Part
<1> QED
  BY <1>2, <1>3

(* A cycle in which the master takes a bit, and one in which it does not.  *)
LEMMA CameKept ==
    ASSUME Sizes, ClockInv, SelectInv, ShownInv, CameInv,
           Beats, master.state = "ACTIVE", master'.state = "ACTIVE",
           Flash!FlashCycle(master.ss, master.sck)
    PROVE  CameInv'
<1>1. BitsMove
  BY CountsMove
<1>2. DataBits \in Nat /\ Came \in Nat
  BY <1>1 DEF BitsMove, Sizes
<1>3. CASE Taking
  <2>1. /\ Came' = Came + 1 /\ Came < DataBits /\ Shown = Came + 1
        /\ master'.rx_buffer = Spim!Shifted(master.rx_buffer, flash.miso)
    BY <1>1, <1>3 DEF BitsMove
  <2>2. flash.selected /\ flash'.tx_data = flash.tx_data
    BY <1>3 DEF Taking, SelectInv, Sizes, Flash!FlashCycle, Flash!Fetched
  <2>3. flash.miso = flash.tx_data[DataBits - (Came + 1)]
    BY <1>2, <2>1 DEF ShownInv
  <2>4. Part(Spim!Shifted(master.rx_buffer, flash.miso), flash.tx_data, Came + 1)
    BY <1>2, <2>1, <2>3, OneMore DEF CameInv
  <2> QED
    BY <2>1, <2>2, <2>4 DEF CameInv
<1>4. CASE ~Taking
  <2>1. Came' = Came /\ master'.rx_buffer = master.rx_buffer
    BY <1>1, <1>4 DEF BitsMove
  <2>2. Came > 0 => flash'.tx_data = flash.tx_data
    BY DEF SelectInv, Came, Sizes, Flash!FlashCycle, Flash!Fetched
  <2> QED
    BY <1>2, <2>1, <2>2 DEF CameInv, Part
<1> QED
  BY <1>3, <1>4

(* The last bit makes the byte whole.                                      *)
LEMMA WholeByte ==
    ASSUME Sizes, SelectInv, ShownInv, CameInv, Flash!FlashTypeOK, LastBeat
    PROVE  flash.selected /\ master'.rx_data = flash.tx_data
<1>1. /\ Shown = DataBits /\ Came = DataBits - 1 /\ DataBits \in Nat
      /\ DataBits - 1 \in Nat /\ DataBits > 0
      /\ master'.rx_data = Spim!Shifted(master.rx_buffer, flash.miso)
      /\ master.state = "ACTIVE" /\ Count = DataBits
  BY DEF LastBeat, Sizes, Shown, Came
<1>2. flash.selected
  BY <1>1 DEF SelectInv
<1>3. flash.miso = flash.tx_data[DataBits - (DataBits - 1 + 1)]
  BY <1>1 DEF ShownInv
<1>4. Part(Spim!Shifted(master.rx_buffer, flash.miso), flash.tx_data, DataBits - 1 + 1)
  BY <1>1, <1>3, OneMore DEF CameInv
<1>5. \A k \in 0 .. DataBits - 1 :
          Spim!Shifted(master.rx_buffer, flash.miso)[k] = flash.tx_data[k]
  <2> TAKE k \in 0 .. DataBits - 1
  <2>1. k < DataBits - 1 + 1 /\ DataBits - (DataBits - 1 + 1) + k = k
    BY <1>1
  <2> QED
    BY <1>4, <2>1 DEF Part
<1>6. flash.tx_data = [k \in 0 .. DataBits - 1 |-> flash.tx_data[k]]
  BY DEF Flash!FlashTypeOK, Flash!FlashByte
<1>7. Spim!Shifted(master.rx_buffer, flash.miso) =
          [k \in 0 .. DataBits - 1 |->
               Spim!Shifted(master.rx_buffer, flash.miso)[k]]
  BY DEF Spim!Shifted
<1> QED
  BY <1>1, <1>2, <1>5, <1>6, <1>7

(* The bits that the flash has left and those that the master has taken    *)
(* are parts of the same byte of the image, after every cycle.             *)
LEMMA BitsKept ==
    ASSUME Sizes, HInv, ClockInv, LineInv, SelectInv, BitsInv, Flash!FlashTypeOK,
           Beats, Flash!FlashCycle(master.ss, master.sck)
    PROVE  BitsInv'
<1>1. flash'.selected =>
          flash'.tx_data = Flash!rdata(flash'.addr)[flash'.bytes_counter]
  <2>1. flash'.selected = (master.ss = 0)
    BY DEF Flash!FlashCycle
  <2>2. master.ss = 0 =>
            flash'.addr = flash.addr /\ flash'.bytes_counter = flash.bytes_counter
    BY DEF Flash!FlashCycle, Flash!NextAddr, Flash!NextByte, Flash!Deselected
  <2> QED
    BY <2>1, <2>2 DEF Flash!FlashCycle, Flash!Fetched, BitsInv
<1>2. master'.state = "START" => flash'.bits_counter = 0
  <2>1. master'.state = "START" => master.state = "IDLE"
    BY DEF Beats, Beat, RestBeat, StartBeat, HoldBeat, LeadBeat, TrailBeat, LastBeat,
       StopBeat, FreeBeat
  <2>2. master.state = "IDLE" => master.ss = 1
    BY DEF SelectInv
  <2> QED
    BY <2>1, <2>2 DEF Flash!FlashCycle, Flash!Bits
<1>3. CASE master'.state = "ACTIVE" /\ master.state = "ACTIVE"
  BY <1>1, <1>2, <1>3, ShownKept, CameKept DEF BitsInv
<1>4. CASE master'.state = "ACTIVE" /\ master.state # "ACTIVE"
  <2>1. StartBeat
    BY <1>4 DEF Beats, Beat, RestBeat, HoldBeat, LeadBeat, TrailBeat, LastBeat,
       StopBeat, FreeBeat
  <2>2. Shown' = 0 /\ Came' = 0 /\ ~flash.selected
    BY <2>1 DEF StartBeat, Beat, ClockInv, Shown, Came, SelectInv
  <2>3. flash'.bits_counter = 0
    BY <2>2 DEF Flash!FlashCycle, Flash!Bits
  <2>4. CameInv'
    BY <2>1, <2>2 DEF StartBeat, CameInv, Part, Spim!Zeros
  <2> QED
    BY <1>1, <1>2, <2>2, <2>3, <2>4 DEF BitsInv, ShownInv
<1> QED
  BY <1>1, <1>2, <1>3, <1>4 DEF BitsInv

-----------------------------------------------------------------------------
(* What the software does with the SPI.                                    *)
SpiPart(a) ==
    /\ Spim!SpiCycle(a, flash.miso)
    /\ Flash!FlashCycle(master.ss, master.sck)

(* An access that leaves the mode and the byte that came alone.            *)
Leaves(a) == a.reg \notin {"cr", "sr", "rdr"} \/ (a.reg = "sr" /\ ~a.we)

SameLoad == /\ loader'.source = loader.source /\ loader'.i = loader.i
            /\ loader'.bytes = loader.bytes

Passes(a) ==
    /\ Leaves(a) /\ SameLoad
    /\ Now' = "store" => Now = "store"
    /\ Now' = "spi_get" => Now = "spi_get" \/ (Now = "spi_poll" /\ spi_regs.rxne)

Elsewhere(a) == Leaves(a) /\ loader.source # "spi" /\ loader'.source # "spi"

Opens(a) ==
    /\ a = Spim!WriteReg("cr", [cpol |-> spi_regs.cpol, cpha |-> TRUE])
    /\ loader.source = "none" /\ loader'.source = "spi"
    /\ loader'.i = loader.i /\ loader'.bytes = loader.bytes /\ Now' = "spi_divider"

Takes(a) ==
    /\ a = Spim!ReadReg("rdr") /\ Now = "spi_get" /\ loader.source = "spi"
    /\ loader'.source = "spi" /\ loader'.i = loader.i
    /\ loader'.bytes = Append(loader.bytes, spi_regs.rdr)
    /\ Now' = IF Len(loader.bytes) = 3 THEN "store" ELSE "spi_write"

Puts(a) ==
    /\ a = Spim!None /\ At("store") /\ loader.source = "spi"
    /\ loader'.source = "spi" /\ loader'.i = loader.i + 1 /\ loader'.bytes = <<>>
    /\ Now' \notin {"store", "spi_get"}

FlashTurn(a) ==
    /\ SpiPart(a)
    /\ Passes(a) \/ Elsewhere(a) \/ Opens(a) \/ Takes(a) \/ Puts(a)

(* An access to another port is no access to the SPI.                      *)
LEMMA PartOfBus ==
    ASSUME NEW port, NEW access, Bus(port, access)
    PROVE  /\ port = "spi" => SpiPart(access)
           /\ port # "spi" => SpiPart(Spim!None)
  BY DEF Bus, SpiPart

(* Every cycle of the bootloader is, for the SPI and the load, one of the  *)
(* five turns, or leaves all as it is.                                     *)
LEMMA FlashTurns ==
    ASSUME IInv, BInv, BootNext
    PROVE  (\E a : FlashTurn(a)) \/ UNCHANGED loadervars
<1> DEFINE Good == \E a : FlashTurn(a)
<1>1. /\ SwOK /\ LoaderOK /\ OpsInv /\ Leaves(Spim!None)
      /\ SwOK' /\ "store" \notin MainOps /\ "spi_get" \notin MainOps
  BY IInvHolds DEF IInv, Leaves, Spim!None, MainOps
<1>2. CASE Wait
  <2>1. SpiPart(Spim!None)
    BY <1>2, PartOfBus DEF Wait, NoAccess
  <2>2. Now' = Now /\ loader' = loader
    BY <1>1, <1>2, Waiting DEF Wait
  <2>3. FlashTurn(Spim!None)
    BY <1>1, <2>1, <2>2 DEF FlashTurn, Passes, SameLoad
  <2> QED
    BY <2>3
<1>3. CASE MainStep
  <2>1. PICK port, access : Bus(port, access) /\ port # "spi"
    BY <1>1, <1>3, MainGoesOn
  <2>2. SpiPart(Spim!None)
    BY <2>1, PartOfBus
  <2>3. Now' \in MainOps \cup {"jump"} /\ loader' = loader
    BY <1>1, <1>3, MainGoesOn
  <2>4. FlashTurn(Spim!None)
    BY <1>1, <2>2, <2>3 DEF FlashTurn, Passes, SameLoad
  <2> QED
    BY <2>4
<1>4. ASSUME NEW port, NEW access, Bus(port, access), port # "spi",
             loader.source # "spi", loader'.source # "spi"
      PROVE  Good
  <2>1. SpiPart(Spim!None)
    BY <1>4, PartOfBus
  <2>2. FlashTurn(Spim!None)
    BY <1>1, <1>4, <2>1 DEF FlashTurn, Elsewhere
  <2> QED
    BY <2>2
<1>5. CASE Store
  <2>1. /\ Now = "store" /\ Bus("none", Spim!None) /\ At("store")
        /\ loader'.source = loader.source /\ loader'.i = loader.i + 1
        /\ loader'.bytes = <<>> /\ "none" # "spi"
    BY <1>1, <1>5 DEF Store, At, NoAccess, LoaderOK
  <2>2. CASE loader.source = "spi"
    <3>1. Do(<<>>) \/ Do(<<"spi_write">>)
      BY <1>5, <2>2 DEF Store, Return
    <3>2. Now' \notin {"store", "spi_get"}
      <4>1. Now # "jump" /\ <<>> \in Seq(MainOps) /\ "spi_write" \in Ops
        BY <2>1, EmptySeq DEF Ops, SpiOps
      <4>2. CASE Do(<<>>)
        BY <1>1, <4>1, <4>2, DoesGoOn
      <4>3. CASE Do(<<"spi_write">>)
        BY <1>1, <4>1, <4>3, GoesTo
      <4> QED
        BY <3>1, <4>2, <4>3
    <3>3. SpiPart(Spim!None)
      BY <2>1, PartOfBus
    <3>4. FlashTurn(Spim!None)
      BY <2>1, <2>2, <3>2, <3>3 DEF FlashTurn, Puts
    <3> QED
      BY <3>4
  <2>3. CASE loader.source # "spi"
    BY <1>4, <2>1, <2>3
  <2> QED
    BY <2>2, <2>3
<1>6. ASSUME Now \in Starters
      PROVE  loader.source = "none"
  <2>1. Now # "jump"
    BY <1>6 DEF Starters
  <2> QED
    BY <1>1, <1>6, <2>1, NowComesFirst DEF BInv, LoadInv
<1>7. CASE SetPhase
  <2> DEFINE a == Spim!WriteReg("cr", [cpol |-> spi_regs.cpol, cpha |-> TRUE])
  <2>1. SpiPart(a) /\ Now = "spi" /\ Do(<<"spi_divider">>)
    BY <1>7, PartOfBus DEF SetPhase, At
  <2>2. loader.source = "none"
    BY <1>6, <2>1 DEF Starters
  <2>3. /\ loader'.source = "spi" /\ loader'.i = loader.i
        /\ loader'.bytes = loader.bytes
    BY <1>1, <1>7, LoaderFields DEF SetPhase
  <2>4. Now' = "spi_divider"
    BY <1>1, <2>1, GoesTo DEF Ops
  <2>5. FlashTurn(a)
    BY <2>1, <2>2, <2>3, <2>4 DEF FlashTurn, Opens
  <2> QED
    BY <2>5
<1>8. ASSUME NEW op \in {"uart", "test_low"}, NEW next, ReadLow(op, next)
      PROVE  Good
  <2>1. PICK low, began :
            loader' = [loader EXCEPT !.low = low, !.source = "uart", !.began = began]
    BY <1>8 DEF ReadLow
  <2>2. loader' = [source |-> "uart", i |-> loader.i, bytes |-> loader.bytes,
                   low |-> low, timeout |-> loader.timeout,
                   began |-> began, result |-> loader.result]
    BY <1>1, <2>1, BegunFields
  <2>3. Now = op /\ Bus("none", Spim!None) /\ "none" # "spi"
    BY <1>8 DEF ReadLow, At, NoAccess
  <2>4. loader.source # "spi"
    <3>1. op = "uart" => loader.source = "none"
      BY <1>6, <2>3 DEF Starters
    <3>2. op = "test_low" => loader.source = "uart"
      BY <1>1, <2>3 DEF OpsInv, UartOps
    <3> QED
      BY <3>1, <3>2
  <2> QED
    BY <1>4, <2>2, <2>3, <2>4
<1>9. CASE SetTimeout \/ PollUart \/ TestTimeout \/ AskAgain \/ GetUart
  <2>1. loader.source = "uart"
    BY <1>1, <1>9 DEF SetTimeout, PollUart, TestTimeout, AskAgain, GetUart, At, OpsInv,
       UartOps
  <2>2. loader'.source = loader.source
    <3>1. \/ loader' = loader
          \/ \E x : \/ loader' = [loader EXCEPT !.timeout = x]
                    \/ loader' = [loader EXCEPT !.result = x]
                    \/ loader' = [loader EXCEPT !.bytes = x]
      BY <1>9 DEF SetTimeout, PollUart, TestTimeout, AskAgain, GetUart, Taken
    <3> QED
      BY <1>1, <3>1 DEF LoaderOK
  <2>3. \E port, access : Bus(port, access) /\ port # "spi"
    BY <1>9 DEF SetTimeout, PollUart, TestTimeout, AskAgain, GetUart, NoAccess
  <2> QED
    BY <1>4, <2>1, <2>2, <2>3
<1>10. ASSUME NEW a, Bus("spi", a), Leaves(a), loader' = loader,
              NEW op \in Ops, Now # "jump", Do(<<op>>), op # "store",
              op = "spi_get" => Now = "spi_poll" /\ spi_regs.rxne
       PROVE  Good
  <2>1. Now' = op
    BY <1>1, <1>10, GoesTo
  <2>2. SpiPart(a)
    BY <1>10, PartOfBus
  <2>3. FlashTurn(a)
    BY <1>10, <2>1, <2>2 DEF FlashTurn, Passes, SameLoad
  <2> QED
    BY <2>3
<1>11. /\ Leaves(Spim!WriteReg("cdr", [cdr |-> SpiDivider]))
       /\ Leaves(Spim!WriteReg("tdr", [tdr |-> Spim!Zeros]))
       /\ Leaves(Spim!ReadReg("sr"))
       /\ {"spi_write", "spi_poll", "spi_get", "store"} \subseteq Ops
  BY DEF Leaves, Spim!WriteReg, Spim!ReadReg, Ops, SpiOps
<1>12. CASE SetSpiDivider
  BY <1>10, <1>11, <1>12 DEF SetSpiDivider, At
<1>13. CASE WriteSpi
  BY <1>10, <1>11, <1>13 DEF WriteSpi, At
<1>14. CASE PollSpi
  <2>1. PICK op \in {"spi_get", "spi_poll"} :
            Do(<<op>>) /\ (op = "spi_get" => spi_regs.rxne)
    BY <1>14 DEF PollSpi
  <2> QED
    BY <1>10, <1>11, <1>14, <2>1 DEF PollSpi, At
<1>15. CASE GetSpi
  <2>1. SpiPart(Spim!ReadReg("rdr")) /\ Now = "spi_get"
    BY <1>15, PartOfBus DEF GetSpi, At
  <2>2. /\ loader'.source = loader.source /\ loader'.i = loader.i
        /\ loader'.bytes = Append(loader.bytes, spi_regs.rdr)
    BY <1>1, <1>15 DEF GetSpi, Taken, LoaderOK
  <2>3. loader.source = "spi"
    BY <1>1, <2>1 DEF OpsInv, SpiOps
  <2>4. Now' = IF Len(loader.bytes) = 3 THEN "store" ELSE "spi_write"
    <3> DEFINE op == IF Len(loader.bytes) = 3 THEN "store" ELSE "spi_write"
    <3>1. Do(<<op>>) /\ op \in Ops /\ Now # "jump"
      BY <1>11, <1>15, <2>1 DEF GetSpi, AfterByte
    <3> HIDE DEF op
    <3>2. Now' = op
      BY <1>1, <3>1, GoesTo
    <3> QED
      BY <3>2 DEF op
  <2>5. FlashTurn(Spim!ReadReg("rdr"))
    BY <2>1, <2>2, <2>3, <2>4 DEF FlashTurn, Takes
  <2> QED
    BY <2>5
<1>16. CASE LoaderStep
  BY <1>5, <1>7, <1>8, <1>9, <1>12, <1>13, <1>14, <1>15, <1>16 DEF LoaderStep
<1> QED
  BY <1>2, <1>3, <1>16 DEF BootNext, MainStep, Running

(* The registers after a cycle.                                            *)
LEMMA RegsAfter ==
    ASSUME NEW a, SpiPart(a)
    PROVE  /\ Leaves(a) => /\ spi_regs'.cpol = spi_regs.cpol
                           /\ spi_regs'.cpha = spi_regs.cpha
                           /\ spi_regs'.rxne = IF master.rx_data_valid THEN TRUE
                                               ELSE spi_regs.rxne
                           /\ spi_regs'.rdr = IF master.rx_data_valid THEN master.rx_data
                                              ELSE spi_regs.rdr
           /\ Opens(a) => /\ spi_regs'.cpol = spi_regs.cpol /\ spi_regs'.cpha
                          /\ spi_regs'.rxne = IF master.rx_data_valid THEN TRUE
                                              ELSE spi_regs.rxne
           /\ Takes(a) => /\ spi_regs'.cpol = spi_regs.cpol
                          /\ spi_regs'.cpha = spi_regs.cpha
                          /\ ~master.rx_data_valid => spi_regs'.rxne = FALSE
           /\ Puts(a) => Leaves(a)
<1> USE DEF SpiPart, Spim!SpiCycle, Spim!Written, Spim!IsWritten, Spim!Rxne
<1>1. Leaves(a) => /\ spi_regs'.cpol = spi_regs.cpol
                   /\ spi_regs'.cpha = spi_regs.cpha
                   /\ spi_regs'.rxne = IF master.rx_data_valid THEN TRUE
                                       ELSE spi_regs.rxne
                   /\ spi_regs'.rdr = IF master.rx_data_valid THEN master.rx_data
                                      ELSE spi_regs.rdr
  BY DEF Leaves
<1>2. Opens(a) => /\ spi_regs'.cpol = spi_regs.cpol /\ spi_regs'.cpha
                  /\ spi_regs'.rxne = IF master.rx_data_valid THEN TRUE
                                      ELSE spi_regs.rxne
  BY DEF Opens, Spim!WriteReg
<1>3. Takes(a) => /\ spi_regs'.cpol = spi_regs.cpol
                  /\ spi_regs'.cpha = spi_regs.cpha
                  /\ ~master.rx_data_valid => spi_regs'.rxne = FALSE
  BY DEF Takes, Spim!ReadReg
<1>4. Puts(a) => Leaves(a)
  BY DEF Puts, Leaves, Spim!None
<1> QED
  BY <1>1, <1>2, <1>3, <1>4

(* A turn leaves the source of a load over the SPI as it is.               *)
LEMMA SourceStays ==
    ASSUME NEW a, FlashTurn(a)
    PROVE  /\ loader.source = "spi" => loader'.source = "spi"
           /\ loader'.source = "spi" => loader.source = "spi" \/ Opens(a)
  BY DEF FlashTurn, Passes, SameLoad, Elsewhere, Opens, Takes, Puts

(* The clock idles low and the data change on the leading edge for as long *)
(* as the flash is the source.                                             *)
LEMMA ModeKept ==
    ASSUME IInv, ModeInv, Beats, NEW a, FlashTurn(a)
    PROVE  ModeInv'
<1>1. SpiPart(a)
  BY DEF FlashTurn
<1>2. /\ spi_regs'.cpol = 0
      /\ loader'.source = "spi" => spi_regs'.cpha
  <2>1. Leaves(a) \/ Opens(a) \/ Takes(a)
    BY <1>1, RegsAfter DEF FlashTurn, Passes, Elsewhere
  <2>2. spi_regs'.cpol = 0 /\ (Opens(a) => spi_regs'.cpha)
        /\ (loader.source = "spi" /\ ~Opens(a) => spi_regs'.cpha = spi_regs.cpha)
    BY <1>1, <2>1, RegsAfter DEF ModeInv
  <2>3. loader'.source = "spi" => loader.source = "spi" \/ Opens(a)
    BY SourceStays
  <2> QED
    BY <2>2, <2>3 DEF ModeInv
<1>3. /\ master'.sck_polarity = 0
      /\ master'.state # "IDLE" => master'.sck_phase /\ loader.source = "spi"
  <2>1. CASE RestBeat
    <3>1. spi_tx_data_valid => loader.source = "spi"
      BY DEF IInv, SInv, Polling, OpsInv, SpiOps
    <3> QED
      BY <2>1, <3>1 DEF RestBeat, Beat, ModeInv
  <2>2. CASE ~RestBeat
    BY <2>2 DEF Beats, StartBeat, HoldBeat, LeadBeat, TrailBeat, LastBeat, StopBeat,
       FreeBeat, SameMode, Beat, ModeInv
  <2> QED
    BY <2>1, <2>2
<1> QED
  BY <1>2, <1>3, SourceStays DEF ModeInv

-----------------------------------------------------------------------------
(* The flash moves on by a byte when it is let go.                         *)
Ends  == IF LastBeat THEN 1 ELSE 0
Moves == IF flash.selected /\ master.state = "IDLE" THEN 1 ELSE 0

(* The flash falls a byte behind when an exchange ends, and catches up in  *)
(* the first cycle in which it sees that the master has let it go.         *)
LEMMA FlashMoves ==
    ASSUME Sizes, SelectInv, Beats, Flash!FlashCycle(master.ss, master.sck),
           flash'.selected <=> master.state \in {"ACTIVE", "STOP"}
    PROVE  /\ Behind \in {0, 1} /\ Behind' = Behind + Ends - Moves
           /\ Ends = 1 => Behind = 0 /\ master.state = "ACTIVE"
           /\ Moves = 1 => Behind = 1 /\ Ends = 0
           /\ Moves = 0 => /\ flash'.addr = flash.addr
                           /\ flash'.bytes_counter = flash.bytes_counter
           /\ Moves = 1 => /\ flash'.addr = Flash!NextAddr(1)
                           /\ flash'.bytes_counter = Flash!NextByte(1)
                           /\ Flash!Deselected(1)
           /\ Ends = 1 => master'.rx_data_valid
           /\ Ends = 0 => ~master'.rx_data_valid
<1>1. Flash!Deselected(master.ss) <=> Moves = 1
  <2>1. master.state \in {"IDLE", "START", "ACTIVE", "STOP"}
    BY DEF Beats, RestBeat, StartBeat, HoldBeat, LeadBeat, TrailBeat, LastBeat,
       StopBeat, FreeBeat
  <2>2. master.ss = 1 <=> master.state \in {"IDLE", "START"}
    BY <2>1 DEF SelectInv
  <2> QED
    BY <2>1, <2>2 DEF Flash!Deselected, Moves, SelectInv
<1>2. master.state = "IDLE" => master.ss = 1
  BY DEF SelectInv
<1>3. /\ Moves = 0 => /\ flash'.addr = flash.addr
                      /\ flash'.bytes_counter = flash.bytes_counter
      /\ Moves = 1 => /\ flash'.addr = Flash!NextAddr(1)
                      /\ flash'.bytes_counter = Flash!NextByte(1)
                      /\ Flash!Deselected(1)
  BY <1>1, <1>2 DEF Flash!FlashCycle, Flash!NextAddr, Flash!NextByte, Moves
<1>4. /\ Ends = 1 => master'.rx_data_valid
      /\ Ends = 0 => ~master'.rx_data_valid
  <2>1. LastBeat => master'.rx_data_valid
    BY DEF LastBeat
  <2>2. ~LastBeat => NoByte
    BY DEF Beats, RestBeat, StartBeat, HoldBeat, LeadBeat, TrailBeat, StopBeat, FreeBeat
  <2> QED
    BY <2>1, <2>2 DEF Ends, NoByte
<1>5. /\ Behind \in {0, 1} /\ Behind' = Behind + Ends - Moves
      /\ Ends = 1 => Behind = 0 /\ master.state = "ACTIVE"
      /\ Moves = 1 => Behind = 1 /\ Ends = 0
  <2> USE DEF Behind, Ends, Moves, Beat, SelectInv
  <2>1. CASE RestBeat
    BY <2>1 DEF RestBeat, LastBeat
  <2>2. CASE StartBeat
    BY <2>2 DEF StartBeat, LastBeat
  <2>3. CASE HoldBeat
    BY <2>3 DEF HoldBeat, LastBeat
  <2>4. CASE LeadBeat
    BY <2>4 DEF LeadBeat, LastBeat
  <2>5. CASE TrailBeat
    BY <2>5 DEF TrailBeat, LastBeat
  <2>6. CASE LastBeat
    BY <2>6 DEF LastBeat
  <2>7. CASE StopBeat
    BY <2>7 DEF StopBeat, LastBeat
  <2>8. CASE FreeBeat
    BY <2>8 DEF FreeBeat, LastBeat
  <2> QED
    BY <2>1, <2>2, <2>3, <2>4, <2>5, <2>6, <2>7, <2>8 DEF Beats
<1> QED
  BY <1>3, <1>4, <1>5

(* Each byte that came is counted once, until the software has it stored.  *)
LEMMA GotMoves ==
    ASSUME IInv, BInv, WordInv, Sizes, SelectInv, Beats, NEW a, FlashTurn(a),
           flash'.selected <=> master.state \in {"ACTIVE", "STOP"},
           loader.source = "spi"
    PROVE  Got' = Got + Ends /\ Got \in Nat
<1>1. SpiPart(a) /\ Flash!FlashCycle(master.ss, master.sck)
  BY DEF FlashTurn, SpiPart
<1>2. /\ Ends \in {0, 1} /\ (Ends = 1 => master.state = "ACTIVE")
      /\ Ends = 1 => master'.rx_data_valid
      /\ Ends = 0 => ~master'.rx_data_valid
  <2>1. Ends \in {0, 1}
    BY DEF Ends
  <2> QED
    BY <1>1, <2>1, FlashMoves
<1>3. /\ loader.i \in Nat /\ loader.bytes \in Seq(Bytes) /\ Len(loader.bytes) \in Nat
      /\ Pending \in {0, 1}
  BY BootAssumption, LenProperties DEF BInv, LoadInv, Pending
<1>4. CASE Passes(a)
  <2>1. loader'.i = loader.i /\ loader'.bytes = loader.bytes
        /\ spi_regs'.rxne = IF master.rx_data_valid THEN TRUE ELSE spi_regs.rxne
    BY <1>1, <1>4, RegsAfter DEF Passes, SameLoad
  <2>2. Ends = 1 => Pending = 0
    BY <1>2 DEF IInv, SInv, Untouched, Pending
  <2>3. Pending' = Pending + Ends
    <3>1. CASE Ends = 1
      BY <1>2, <2>2, <3>1 DEF Pending
    <3>2. CASE Ends = 0
      BY <1>2, <2>1, <3>2 DEF Pending
    <3> QED
      BY <1>2, <3>1, <3>2
  <2>4. Got' = 4 * loader.i + Len(loader.bytes) + (Pending + Ends)
    BY <2>1, <2>3 DEF Got
  <2> DEFINE n == 4 * loader.i + Len(loader.bytes)
  <2>5. n \in Nat /\ Got = n + Pending /\ Got' = n + (Pending + Ends)
    BY <1>3, <2>4 DEF Got
  <2> HIDE DEF n
  <2>6. Ends \in Nat /\ Pending \in Nat
    BY <1>2, <1>3
  <2> QED
    BY <2>5, <2>6
<1>5. CASE Takes(a)
  <2>1. /\ Now = "spi_get" /\ loader'.i = loader.i
        /\ loader'.bytes = Append(loader.bytes, spi_regs.rdr)
    BY <1>5 DEF Takes
  <2>2. spi_regs.rxne /\ ~master.rx_data_valid /\ master.state # "ACTIVE"
    BY <2>1 DEF IInv, SInv, Polling, WordInv
  <2>3. Ends = 0 /\ spi_regs'.rxne = FALSE /\ ~master'.rx_data_valid
    BY <1>1, <1>2, <1>5, <2>2, RegsAfter
  <2>4. Pending = 1 /\ Pending' = 0
    BY <2>2, <2>3 DEF Pending
  <2>5. spi_regs.rdr \in Bytes
    BY DEF BInv, HwInv, SpiInv, SpiRegs
  <2>6. Len(loader'.bytes) = Len(loader.bytes) + 1
    BY <1>3, <2>1, <2>5, AppendProperties
  <2>7. /\ Got' = 4 * loader.i + (Len(loader.bytes) + 1) + 0
        /\ Got = 4 * loader.i + Len(loader.bytes) + 1
    BY <2>1, <2>4, <2>6 DEF Got
  <2> QED
    BY <1>3, <2>3, <2>7
<1>6. CASE Puts(a)
  <2>1. /\ Now = "store" /\ loader'.i = loader.i + 1 /\ loader'.bytes = <<>>
        /\ At("store")
    BY <1>6 DEF Puts, At
  <2>2. master.state = "IDLE" /\ ~spi_regs.rxne /\ ~master.rx_data_valid
    BY <2>1, AtRest DEF IInv, SInv, Stopping
  <2>3. Ends = 0 /\ ~spi_regs'.rxne /\ ~master'.rx_data_valid
    BY <1>1, <1>2, <1>6, <2>2, RegsAfter
  <2>4. Pending = 0 /\ Pending' = 0
    BY <2>2, <2>3 DEF Pending
  <2>5. Len(loader.bytes) = 4 /\ Len(loader'.bytes) = 0
    BY <2>1 DEF WordInv
  <2> QED
    BY <1>3, <2>1, <2>3, <2>4, <2>5 DEF Got
<1> QED
  BY <1>4, <1>5, <1>6 DEF FlashTurn, Elsewhere, Opens

(* Until the load begins nobody asks the flash for anything.               *)
LEMMA StillUnread ==
    ASSUME IInv, UnreadInv, SelectInv, Beats, NEW a, FlashTurn(a),
           loader.source # "spi",
           flash'.selected <=> master.state \in {"ACTIVE", "STOP"}
    PROVE  /\ master'.state = "IDLE" /\ ~master'.rx_data_valid /\ ~spi_regs'.rxne
           /\ ~flash'.selected /\ flash'.addr = 0 /\ flash'.bytes_counter = 0
<1>1. SpiPart(a) /\ Flash!FlashCycle(master.ss, master.sck)
  BY DEF FlashTurn, SpiPart
<1>2. /\ master.state = "IDLE" /\ ~master.rx_data_valid /\ ~spi_regs.rxne
      /\ ~flash.selected /\ flash.addr = 0 /\ flash.bytes_counter = 0
      /\ ~spi_tx_data_valid
  BY DEF UnreadInv, IInv, SInv, Polling, OpsInv, SpiOps
<1>3. RestBeat
  BY <1>2 DEF Beats, StartBeat, HoldBeat, LeadBeat, TrailBeat, LastBeat, StopBeat,
     FreeBeat
<1>4. master'.state = "IDLE" /\ ~master'.rx_data_valid
  BY <1>2, <1>3 DEF RestBeat, Beat, NoByte
<1>5. ~spi_regs'.rxne
  <2>1. Leaves(a) \/ Opens(a)
    BY DEF FlashTurn, Passes, Elsewhere, Takes, Puts
  <2> QED
    BY <1>1, <1>2, <2>1, RegsAfter
<1>6. flash'.addr = 0 /\ flash'.bytes_counter = 0
  BY <1>1, <1>2 DEF Flash!FlashCycle, Flash!NextAddr, Flash!NextByte, Flash!Deselected
<1> QED
  BY <1>2, <1>4, <1>5, <1>6

(* The place in the flash.                                                 *)
LEMMA PlaceKept ==
    ASSUME IInv, BInv, WordInv, UnreadInv, PlaceInv, Sizes, SelectInv, Beats,
           NEW a, FlashTurn(a),
           flash'.selected <=> master.state \in {"ACTIVE", "STOP"}
    PROVE  PlaceInv'
<1>1. Flash!FlashCycle(master.ss, master.sck)
  BY DEF FlashTurn, SpiPart
<1>2. CASE loader.source = "spi"
  <2>1. Got' = Got + Ends /\ Got \in Nat
    BY <1>2, GotMoves
  <2>2. /\ Behind \in {0, 1} /\ Behind' = Behind + Ends - Moves
        /\ Ends \in {0, 1} /\ Moves \in {0, 1}
    <3>1. Ends \in {0, 1} /\ Moves \in {0, 1}
      BY DEF Ends, Moves
    <3> QED
      BY <1>1, <3>1, FlashMoves
  <2>3. Got' - Behind' = Got - Behind + Moves
    BY <2>1, <2>2
  <2>4. CASE Moves = 0
    <3>1. flash'.addr = flash.addr /\ flash'.bytes_counter = flash.bytes_counter
      BY <1>1, <2>4, FlashMoves
    <3>2. Got' - Behind' = Got - Behind
      BY <2>1, <2>2, <2>3, <2>4
    <3> QED
      BY <1>2, <3>1, <3>2 DEF PlaceInv
  <2>5. CASE Moves = 1
    <3>1. /\ flash'.addr = Flash!NextAddr(1) /\ flash'.bytes_counter = Flash!NextByte(1)
          /\ Flash!Deselected(1)
      BY <1>1, <2>5, FlashMoves
    <3>2. /\ flash.addr \in Nat /\ flash.bytes_counter \in 0 .. 3 /\ CodeWords \in Nat
          /\ CodeWords <= Flash!FlashSpace
      BY FlashAssumption, BootAssumption, FlashPlace DEF BInv, HwInv
    <3> DEFINE addr == flash.addr
               n == flash.bytes_counter
               g == Got - Behind
    <3>3. g \in Int /\ Got' - Behind' = g + 1
      BY <2>1, <2>2, <2>3, <2>5
    <3>4. g < 4 * CodeWords => 4 * addr + n = g
      BY <1>2 DEF PlaceInv
    <3>5. /\ n = 3 => flash'.addr = (addr + 1) % Flash!FlashSpace
          /\ n # 3 => flash'.addr = addr
          /\ flash'.bytes_counter = (n + 1) % 4
      BY <3>1 DEF Flash!NextAddr, Flash!NextByte
    <3> SUFFICES ASSUME g + 1 < 4 * CodeWords
                 PROVE  4 * flash'.addr + flash'.bytes_counter = g + 1
      BY <3>3 DEF PlaceInv
    <3> HIDE DEF addr, n, g
    <3>6. addr \in Nat /\ n \in 0 .. 3
      BY <3>2 DEF addr, n
    <3>7. 4 * addr + n = g
      BY <3>2, <3>3, <3>4
    <3>8. CASE n = 3
      <4>1. addr + 1 < CodeWords
        BY <3>2, <3>3, <3>6, <3>7, <3>8
      <4>2. (addr + 1) % Flash!FlashSpace = addr + 1
        BY <3>2, <3>6, <4>1 DEF Flash!FlashSpace
      <4>3. (n + 1) % 4 = 0
        BY <3>8
      <4> QED
        BY <3>3, <3>5, <3>6, <3>7, <3>8, <4>2, <4>3
    <3>9. CASE n # 3
      <4>1. (n + 1) % 4 = n + 1
        BY <3>6, <3>9
      <4> QED
        BY <3>3, <3>5, <3>6, <3>7, <3>9, <4>1
    <3> QED
      BY <3>8, <3>9
  <2> QED
    BY <2>2, <2>4, <2>5
<1>3. CASE loader.source # "spi"
  <2>1. /\ master'.state = "IDLE" /\ ~master'.rx_data_valid /\ ~spi_regs'.rxne
        /\ ~flash'.selected /\ flash'.addr = 0 /\ flash'.bytes_counter = 0
    BY <1>3, StillUnread
  <2>2. Pending' = 0 /\ Behind' = 0
    BY <2>1 DEF Pending, Behind
  <2>3. loader'.source = "spi" =>
            loader.source = "none" /\ loader'.i = loader.i /\ loader'.bytes = loader.bytes
    BY <1>3, SourceStays DEF Opens
  <2>4. loader'.source = "spi" => loader'.i = 0 /\ loader'.bytes = <<>>
    BY <2>3 DEF BInv, LoadInv
  <2>5. loader'.source = "spi" => Got' = 0
    <3>1. Len(<<>>) = 0
      BY EmptySeq
    <3> QED
      BY <2>2, <2>4, <3>1 DEF Got
  <2> QED
    BY <2>1, <2>2, <2>5 DEF PlaceInv
<1> QED
  BY <1>2, <1>3

(* A place is one byte of one word.                                        *)
Place(word, n) == 4 * word + n

(* Two bytes with the same place are the same byte of the same word.       *)
LEMMA SamePlace ==
    ASSUME NEW i \in Nat, NEW n \in 0 .. 3, NEW j \in Nat, NEW m \in 0 .. 3,
           Place(i, n) = Place(j, m)
    PROVE  i = j /\ n = m
<1> USE DEF Place
<1>1. ~(i < j)
  <2> SUFFICES ASSUME i < j PROVE FALSE
    OBVIOUS
  <2>1. i + 1 <= j
    OBVIOUS
  <2> QED
    BY <2>1
<1>2. ~(j < i)
  <2> SUFFICES ASSUME j < i PROVE FALSE
    OBVIOUS
  <2>1. j + 1 <= i
    OBVIOUS
  <2> QED
    BY <2>1
<1> QED
  BY <1>1, <1>2

(* The bytes of the word, and the one the master or its register holds,    *)
(* are those of the image.                                                 *)
LEMMA WordKept ==
    ASSUME IInv, BInv, WordInv, UnreadInv, PlaceInv, Sizes, SelectInv, Beats,
           LastBeat => flash.selected /\ master'.rx_data = flash.tx_data,
           flash.selected =>
               flash.tx_data = Flash!rdata(flash.addr)[flash.bytes_counter],
           NEW a, FlashTurn(a),
           flash'.selected <=> master.state \in {"ACTIVE", "STOP"}
    PROVE  WordInv'
<1>1. SpiPart(a) /\ Flash!FlashCycle(master.ss, master.sck)
  BY DEF FlashTurn, SpiPart
<1>2. /\ master'.rx_data_valid => LastBeat
      /\ LastBeat => master.state = "ACTIVE" /\ Ends = 1
  BY <1>1, FlashMoves DEF Ends
<1>3. /\ loader.i \in Nat /\ Len(loader.bytes) \in Nat /\ Len(loader.bytes) <= 4
  BY BootAssumption, LenProperties DEF BInv, LoadInv
<1>4. CASE loader.source = "spi" /\ Passes(a)
  <2>1. SameLoad /\ loader'.source = "spi"
    BY <1>4 DEF Passes, SameLoad
  <2>2. /\ spi_regs'.rxne = IF master.rx_data_valid THEN TRUE ELSE spi_regs.rxne
        /\ spi_regs'.rdr = IF master.rx_data_valid THEN master.rx_data ELSE spi_regs.rdr
    BY <1>1, <1>4, RegsAfter DEF Passes
  <2>3. Now' = "store" => Len(loader.bytes) = 4
    BY <1>4 DEF Passes, WordInv
  <2>4. Now' = "spi_get" => spi_regs'.rxne
    BY <1>4, <2>2 DEF Passes, WordInv
  <2>5. spi_regs'.rxne => spi_regs'.rdr = FlashImage[loader.i][Len(loader.bytes)]
    BY <1>4, <2>2 DEF WordInv
  <2>6. ASSUME LastBeat
        PROVE  master'.rx_data = FlashImage[loader.i][Len(loader.bytes)]
    <3>1. Now = "spi_poll" /\ ~spi_regs.rxne /\ ~master.rx_data_valid
      BY <1>2, <2>6 DEF IInv, SInv, Polling, Untouched
    <3>2. Len(loader.bytes) <= 3 /\ loader.i < CodeWords
      BY <3>1 DEF BInv, LoadInv, LoadOps, SpiOps
    <3>3. Pending = 0 /\ Behind = 0
      <4>1. Behind = 0
        BY <1>1, <1>2, <2>6, FlashMoves
      <4> QED
        BY <3>1, <4>1 DEF Pending
    <3> DEFINE n == Len(loader.bytes)
               i == loader.i
    <3>4. Got = 4 * i + n /\ Got - Behind = 4 * i + n
      BY <1>3, <3>3 DEF Got
    <3>5. /\ flash.addr \in Nat /\ flash.bytes_counter \in 0 .. 3
      BY FlashPlace DEF BInv, HwInv
    <3>6. i \in Nat /\ n \in Nat /\ n <= 3 /\ i < CodeWords
      BY <1>3, <3>2
    <3> HIDE DEF n, i
    <3>10. n \in 0 .. 3
      BY <3>6
    <3>7. 4 * i + n < 4 * CodeWords
      <4>1. CodeWords \in Nat
        BY BootAssumption
      <4> QED
        BY <3>6, <4>1
    <3>8. 4 * flash.addr + flash.bytes_counter = 4 * i + n
      <4>1. Got - Behind < 4 * CodeWords
        BY <3>4, <3>7
      <4>2. 4 * flash.addr + flash.bytes_counter = Got - Behind
        BY <1>4, <4>1 DEF PlaceInv
      <4> QED
        BY <3>4, <4>2
    <3>9. flash.addr = i /\ flash.bytes_counter = n
      <4>1. Place(flash.addr, flash.bytes_counter) = Place(i, n)
        BY <3>8 DEF Place
      <4> QED
        BY <3>5, <3>6, <3>10, <4>1, SamePlace
    <3>11. Flash!rdata(i) = FlashImage[i]
      BY <3>6, FlashAssumption, BootAssumption DEF Flash!rdata
    <3> QED
      BY <2>6, <3>9, <3>11 DEF n, i
  <2> QED
    BY <1>2, <1>4, <2>1, <2>3, <2>4, <2>5, <2>6 DEF WordInv, SameLoad
<1>5. CASE Takes(a)
  <2>1. /\ Now = "spi_get" /\ loader.source = "spi" /\ loader'.i = loader.i
        /\ loader'.bytes = Append(loader.bytes, spi_regs.rdr)
        /\ Now' = IF Len(loader.bytes) = 3 THEN "store" ELSE "spi_write"
    BY <1>5 DEF Takes
  <2>2. /\ spi_regs.rxne /\ ~master.rx_data_valid /\ master.state # "ACTIVE"
    BY <2>1 DEF IInv, SInv, Polling, WordInv
  <2>3. ~master'.rx_data_valid /\ spi_regs'.rxne = FALSE
    BY <1>1, <1>2, <1>5, <2>2, RegsAfter
  <2>4. Len(loader.bytes) <= 3 /\ loader.bytes \in Seq(Bytes) /\ spi_regs.rdr \in Bytes
    BY <2>1 DEF BInv, LoadInv, LoadOps, SpiOps, HwInv, SpiInv, SpiRegs
  <2>5. /\ Len(loader'.bytes) = Len(loader.bytes) + 1
        /\ \A j \in 1 .. Len(loader.bytes) : loader'.bytes[j] = loader.bytes[j]
        /\ loader'.bytes[Len(loader.bytes) + 1] = spi_regs.rdr
    BY <2>1, <2>4, AppendProperties
  <2>6. ASSUME NEW j \in 1 .. Len(loader'.bytes)
        PROVE  loader'.bytes[j] = FlashImage[loader'.i][j - 1]
    <3>1. CASE j = Len(loader.bytes) + 1
      BY <1>3, <2>1, <2>2, <2>5, <3>1 DEF WordInv
    <3>2. CASE j # Len(loader.bytes) + 1
      <4>1. j \in 1 .. Len(loader.bytes)
        BY <1>3, <2>5, <3>2
      <4> QED
        BY <2>1, <2>5, <4>1 DEF WordInv
    <3> QED
      BY <3>1, <3>2
  <2>7. Len(loader'.bytes) <= 4 /\ (Now' = "store" => Len(loader'.bytes) = 4)
        /\ Now' # "spi_get"
    BY <1>3, <2>1, <2>4, <2>5
  <2> QED
    BY <2>3, <2>6, <2>7 DEF WordInv
<1>6. CASE Puts(a)
  <2>1. /\ At("store") /\ Now = "store" /\ loader'.bytes = <<>>
        /\ Now' \notin {"store", "spi_get"} /\ Leaves(a)
    BY <1>1, <1>6, RegsAfter DEF Puts, At
  <2>2. master.state = "IDLE" /\ ~spi_regs.rxne /\ ~master.rx_data_valid
    BY <2>1, AtRest DEF IInv, SInv, Stopping
  <2>3. ~master'.rx_data_valid /\ ~spi_regs'.rxne
    BY <1>1, <1>2, <2>1, <2>2, RegsAfter
  <2>4. Len(<<>>) = 0
    BY EmptySeq
  <2> QED
    BY <2>1, <2>3, <2>4 DEF WordInv
<1>7. CASE loader.source # "spi"
  <2>1. ~master'.rx_data_valid /\ ~spi_regs'.rxne
    BY <1>7, StillUnread
  <2>2. loader'.source = "spi" => loader'.bytes = <<>> /\ Now' = "spi_divider"
    <3>1. loader'.source = "spi" => Opens(a)
      BY <1>7, SourceStays
    <3> QED
      BY <3>1 DEF Opens, BInv, LoadInv
  <2>3. Len(<<>>) = 0
    BY EmptySeq
  <2> QED
    BY <2>1, <2>2, <2>3 DEF WordInv
<1> QED
  BY <1>4, <1>5, <1>6, <1>7 DEF FlashTurn, Elsewhere, Opens

-----------------------------------------------------------------------------
(* The whole of it.                                                        *)
LEMMA DataStarts ==
    ASSUME BootInit
    PROVE  DataInv
<1>1. /\ master.state = "IDLE" /\ master.sck = 0 /\ master.ss = 1
      /\ master.sck_polarity = 0 /\ master.bits_counter = 0
      /\ ~master.rx_data_valid /\ ~spi_regs.rxne /\ spi_regs.cpol = 0
      /\ ~spi_clock.falling_edge
  BY DEF BootInit, Spim!SpiInit, Spim!SckGenerator!Init
<1>2. /\ ~flash.selected /\ flash.addr = 0 /\ flash.bytes_counter = 0
      /\ flash.edges = [prv |-> 0, prv2 |-> 0, prv3 |-> 0]
  BY DEF BootInit, Flash!FlashInit, Flash!Low
<1>3. loader.source = "none"
  BY DEF BootInit
<1>4. LineInv
  BY <1>1, <1>2 DEF LineInv, Was
<1>5. ModeInv /\ SelectInv /\ ClockInv /\ BitsInv
  BY <1>1, <1>2, <1>3 DEF ModeInv, SelectInv, ClockInv, BitsInv, Count
<1>6. PlaceInv /\ UnreadInv /\ WordInv
  BY <1>1, <1>2, <1>3 DEF PlaceInv, UnreadInv, WordInv
<1> QED
  BY <1>4, <1>5, <1>6 DEF DataInv, HardInv

(* Every cycle keeps the whole invariant of the data.                      *)
LEMMA DataHolds ==
    ASSUME IInv, BInv, DataInv, [BootNext]_loadervars
    PROVE  DataInv'
<1>1. CASE UNCHANGED loadervars
  <2> USE <1>1 DEF loadervars, hwvars
  <2>1. Now' = Now
    BY DEF Now
  <2>2. HardInv'
    BY DEF DataInv, HardInv, LineInv, Was, ModeInv, SelectInv, ClockInv, BitsInv,
       ShownInv, CameInv, Part, Shown, Came, Age, Count
  <2>3. PlaceInv' /\ UnreadInv' /\ WordInv'
    BY <2>1 DEF DataInv, PlaceInv, UnreadInv, WordInv, Got, Behind, Pending
  <2> QED
    BY <2>2, <2>3 DEF DataInv
<1>2. CASE BootNext /\ ~UNCHANGED loadervars
  <2>1. PICK a : FlashTurn(a)
    BY <1>2, FlashTurns
  <2>2. Spim!SpiCycle(a, flash.miso) /\ Flash!FlashCycle(master.ss, master.sck)
    BY <2>1 DEF FlashTurn, SpiPart
  <2>3. HInv /\ SInv /\ SpiInv /\ Flash!FlashTypeOK
        /\ LineInv /\ ModeInv /\ SelectInv /\ ClockInv /\ BitsInv
        /\ PlaceInv /\ UnreadInv /\ WordInv
    BY DEF IInv, BInv, HwInv, DataInv, HardInv
  <2>4. Sizes /\ Beats
    BY <2>2, <2>3, SizesHold, SpiBeats
  <2>5. /\ SelectInv' /\ (flash'.selected <=> master.state \in {"ACTIVE", "STOP"})
        /\ LineInv' /\ ClockInv' /\ BitsInv'
    BY <2>2, <2>3, <2>4, SelectKept, LineKept, ClockKept, BitsKept
  <2>6. ModeInv'
    BY <2>1, <2>3, <2>4, ModeKept
  <2>7. LastBeat => flash.selected /\ master'.rx_data = flash.tx_data
    <3>1. LastBeat => ShownInv /\ CameInv
      BY <2>3 DEF LastBeat, BitsInv
    <3> QED
      BY <2>3, <2>4, <3>1, WholeByte
  <2>8. flash.selected =>
            flash.tx_data = Flash!rdata(flash.addr)[flash.bytes_counter]
    BY <2>3 DEF BitsInv
  <2>9. PlaceInv' /\ WordInv'
    BY <2>1, <2>3, <2>4, <2>5, <2>7, <2>8, PlaceKept, WordKept
  <2>10. UnreadInv'
    <3>1. loader'.source # "spi" => loader.source # "spi"
      BY <2>1, SourceStays
    <3> QED
      BY <2>1, <2>3, <2>4, <2>5, <3>1, StillUnread DEF UnreadInv
  <2> QED
    BY <2>5, <2>6, <2>9, <2>10 DEF DataInv, HardInv
<1> QED
  BY <1>1, <1>2

-----------------------------------------------------------------------------
(* The other source.                                                       *)
(* The receiver and the load over the UART.  Until the loader is at it the *)
(* host has not begun and the receiver is at rest.                         *)
HostInv ==
    /\ Host!Ordered /\ host.bit_time = BitTime
    /\ \A n \in 1 .. Len(host.line) : host.line[n] = HostByte(n)

AtEase ==
    /\ rx.state = "IDLE" /\ rx.edges_counter = 0 /\ rx.bits_counter = 0
    /\ ~rx.rx_data_valid /\ ~uart_regs.rxne
    /\ host.slot = -1 /\ host.queue = host.line

(* The constructor of the driver, which sets the UART up. *)
Begun ==
    /\ ~uart_regs.en /\ ~clock.sck /\ ~clock.rising_edge /\ clock.counter = 0
    /\ IF Now = "uart_divider"
       THEN ~clk_divider_valid /\ sw.todo = <<"uart_divider", "uart_enable">>
       ELSE /\ sw.todo = <<"uart_enable">>
            /\ IF sw.gap = 1 THEN clk_divider_valid /\ uart_regs.cdr = UartDivider
               ELSE ~clk_divider_valid /\ clock.counter_target = UartDivider

SetupInv ==
    IF Now \in Setup THEN Begun
    ELSE sw.todo \in Seq(Ops \ Setup) /\ Uartm!RunsWith(UartDivider)

RxInv ==
    IF loader.source = "uart"
    THEN Uartm!RxFollows(host, UartDivider) /\ Uartm!RxBits(host, UartDivider)
    ELSE AtEase

(* The bytes: those that the loader has put together are the first ones    *)
(* that the host sent, and the one that waits is the next.  The loader     *)
(* reads it before another comes: so many cycles at most from an operation *)
(* to the end of the read.                                                 *)
Filling == loader.source = "uart" /\ Now \in LoadOps
Placed  == 4 * loader.i + Len(loader.bytes)
Unread  == IF rx.rx_data_valid \/ uart_regs.rxne THEN 1 ELSE 0

Slack ==
    CASE Now = "uart_get" -> 0
      [] Now = "uart_ask" -> sw.pace
      [] Now = "uart_poll" -> 2 * sw.pace
      [] Now = "test_low" -> 3 * sw.pace + 1
      [] OTHER -> 3 * sw.pace
TimeLeft == Gap(Now) - sw.gap + 1 + Slack

ReadInv ==
    Filling =>
        /\ Placed + Unread = Uartm!RxTook(host, UartDivider)
        /\ Now = "store" => Len(loader.bytes) = 4
        /\ \A j \in 1 .. Len(loader.bytes) :
               loader.bytes[j] = HostByte(4 * loader.i + j)
        /\ rx.rx_data_valid =>
               /\ ~uart_regs.rxne /\ 4 * sw.pace + 1 < Uartm!QuietFor(UartDivider)
               /\ rx.rx_data = host.line[Placed + 1]
        /\ uart_regs.rxne =>
               /\ TimeLeft <= Uartm!QuietFor(UartDivider)
               /\ uart_regs.rdr = host.line[Placed + 1]
        /\ Now = "uart_get" => uart_regs.rxne

UartInv == HostInv /\ SetupInv /\ RxInv /\ ReadInv

(* A cycle of the UART and of the host, and the accesses that leave the    *)
(* clock and the receiver running; a calm one leaves its byte there, too.  *)
UartTurn(a) ==
    /\ Uartm!UartCycle(a, Host!Level)
    /\ IF loader.source = "uart" THEN Host!Speak ELSE host' = host

LetsRun(a) == \A reg \in {"cr", "cdr", "sr"} : ~Uartm!IsWritten(a, reg)
Calm(a)    == a.reg # "rdr" /\ LetsRun(a)

(* What a cycle of the whole hardware is to the UART.                      *)
LEMMA UartPart ==
    ASSUME NEW port, NEW access, Bus(port, access)
    PROVE  UartTurn(IF port = "uart" THEN access ELSE Spim!None)
  BY DEF Bus, UartTurn

(* Which accesses are calm.                                                *)
LEMMA CalmOnes ==
    /\ Calm(Spim!None) /\ Calm(Uartm!ReadReg("sr"))
    /\ \A fields : Calm(Uartm!WriteReg("tdr", fields))
    /\ LetsRun(Uartm!ReadReg("rdr")) /\ Uartm!ReadReg("rdr").reg = "rdr"
  BY DEF Calm, LetsRun, Uartm!IsWritten, Spim!None, Uartm!ReadReg, Uartm!WriteReg

(* The host and the UART as the receiver's lemmas want them.               *)
LEMMA HostIsKept ==
    ASSUME BInv, HostInv
    PROVE  /\ Uartm!UartAssumption /\ Uartm!UartTypeOK
           /\ UartDivider \in 0 .. MaxDivider
           /\ Uartm!KeepsUp(host.bit_time, UartDivider)
           /\ Uartm!LineKept(host) /\ Uartm!LevelOf(host) = Host!Level
<1>1. Uartm!UartAssumption
  BY BootAssumption, LoaderAssumption DEF Uartm!UartAssumption
<1>2. /\ UartDivider \in 0 .. MaxDivider
      /\ Uartm!KeepsUp(host.bit_time, UartDivider)
  BY BootAssumption, HostAssumption DEF HostInv
<1>3. /\ host.line \in Seq(Bytes) /\ host.queue \in Seq(Bytes)
      /\ host.slot \in -1 .. DataBits + 1 /\ host.left \in Nat
      /\ host.bit_time \in Nat /\ Uartm!Rx!Byte = Bytes
      /\ host.left > 0 => host.queue # <<>>
      /\ host.slot >= 0 => host.left > 0
  BY DEF BInv, HwInv, Host!Framed, Host!Hosts, Host!Slots, Host!Duration, Bytes,
     Uartm!Rx!Byte
<1>4. DataBits \in Nat /\ (host.slot # -1 => host.slot >= 0)
  BY <1>3, BootAssumption
<1>5. Uartm!OnTheWay(host.slot, host.left, host.bit_time)
  BY <1>3, <1>4 DEF HostInv, Host!Ordered, Uartm!OnTheWay
<1>6. Uartm!RestOf(host.queue, host.line)
  BY DEF HostInv, Host!Ordered, Uartm!RestOf
<1>7. Uartm!LineKept(host)
  BY <1>3, <1>4, <1>5, <1>6 DEF Uartm!LineKept
<1>8. Uartm!LevelOf(host) = Host!Level
  BY DEF Uartm!LevelOf, Host!Level
<1> QED
  BY <1>1, <1>2, <1>7, <1>8 DEF BInv, HwInv

(* The host's turn while the load is at it.                                *)
LEMMA HostGoesOn ==
    ASSUME BInv, HostInv, loader.source = "uart", NEW a, UartTurn(a)
    PROVE  Uartm!LineTurns(host, host') /\ HostInv' /\ host'.line = host.line
<1>1. Host!Framed(Bytes) /\ Host!Speak /\ DataBits \in Nat \ {0} /\ Pauses \subseteq Nat
  <2>1. Host!Framed(Bytes) /\ Host!Speak
    BY DEF BInv, HwInv, UartTurn
  <2> QED
    BY <2>1, BootAssumption, SMTT(60)
<1>2. Host!Turned
  BY <1>1, Host!SpeakTurns
<1>3. Host!Ordered'
  BY <1>1, Host!SpeakKeepsOrder DEF HostInv
<1>4. host'.bit_time = host.bit_time /\ host'.line = host.line
  BY <1>2 DEF Host!Turned
<1> QED
  BY <1>2, <1>3, <1>4 DEF Host!Turned, Uartm!LineTurns, Uartm!Turns, Uartm!ByteEnds,
     HostInv

(* The receiver's turn (uart_receiver.sv): it goes on as the line of the   *)
(* host says, and the byte that it takes is the one that was sent.         *)
LEMMA ReceiverGoesOn ==
    ASSUME BInv, HostInv, loader.source = "uart", RxInv,
           Uartm!RunsWith(UartDivider), NEW a, LetsRun(a), UartTurn(a)
    PROVE  /\ Uartm!RunsWith(UartDivider)' /\ Uartm!RxFollows(host, UartDivider)'
           /\ Uartm!RxBits(host, UartDivider)'
           /\ rx'.rx_data_valid =>
                 rx'.rx_data = host.line[Uartm!RxTook(host, UartDivider) + 1]
           /\ Uartm!RxTook(host, UartDivider)' =
                 Uartm!RxTook(host, UartDivider) + (IF rx'.rx_data_valid THEN 1 ELSE 0)
           /\ Uartm!RxTook(host, UartDivider) \in Nat
           /\ Uartm!QuietFor(UartDivider) \in Nat /\ Uartm!QuietFor(UartDivider)' \in Nat
           /\ Uartm!QuietFor(UartDivider)' >= Uartm!QuietFor(UartDivider) - 1
           /\ rx'.rx_data_valid =>
                 /\ Uartm!QuietFor(UartDivider) = 0
                 /\ Uartm!QuietFor(UartDivider)' = Uartm!MaxWait(UartDivider)
<1>1. /\ Uartm!UartAssumption /\ Uartm!UartTypeOK
      /\ UartDivider \in 0 .. MaxDivider
      /\ Uartm!KeepsUp(host.bit_time, UartDivider)
      /\ Uartm!LineKept(host) /\ Uartm!LevelOf(host) = Host!Level
  BY HostIsKept
<1>2. Uartm!RxFollows(host, UartDivider) /\ Uartm!RxBits(host, UartDivider)
  BY DEF RxInv
<1>3. Uartm!LineTurns(host, host')
  BY HostGoesOn
<1>4. Uartm!UartCycle(a, Uartm!LevelOf(host))
  BY <1>1 DEF UartTurn
<1>5. ~Uartm!IsWritten(a, "cr") /\ ~Uartm!IsWritten(a, "cdr")
  BY DEF LetsRun
<1>6. /\ Uartm!RunsWith(UartDivider)'
      /\ Uartm!Clock!Cycle(TRUE, FALSE, uart_regs.cdr)
  BY <1>1, <1>4, <1>5, Uartm!RunsOn
<1>7. Uartm!Rx!Cycle(clock.rising_edge, Uartm!LevelOf(host))
  BY <1>4 DEF Uartm!UartCycle
<1>8. Uartm!RxFollows(host, UartDivider)'
  BY <1>1, <1>2, <1>3, <1>6, <1>7, Uartm!ReceiverFollows
<1>9. Uartm!RxBits(host, UartDivider)'
  BY <1>1, <1>2, <1>3, <1>6, <1>7, Uartm!ReceiverHoldsBits
<1>10. /\ rx'.rx_data_valid =>
             rx'.rx_data = host.line[Uartm!RxTook(host, UartDivider) + 1]
       /\ Uartm!RxTook(host, UartDivider)' =
             Uartm!RxTook(host, UartDivider) + (IF rx'.rx_data_valid THEN 1 ELSE 0)
       /\ Uartm!RxTook(host, UartDivider) \in Nat
  BY <1>1, <1>2, <1>3, <1>6, <1>7, Uartm!ReceiverTakesBytes
<1>11. /\ Uartm!QuietFor(UartDivider) \in Nat /\ Uartm!QuietFor(UartDivider)' \in Nat
       /\ Uartm!QuietFor(UartDivider)' >= Uartm!QuietFor(UartDivider) - 1
       /\ rx'.rx_data_valid =>
             /\ Uartm!QuietFor(UartDivider) = 0
             /\ Uartm!QuietFor(UartDivider)' = Uartm!MaxWait(UartDivider)
  BY <1>1, <1>2, <1>3, <1>6, <1>7, Uartm!ReceiverIsQuiet
<1> QED
  BY <1>6, <1>8, <1>9, <1>10, <1>11

(* What a turn does to the register of the byte and to its flag.           *)
LEMMA FlagOfTheByte ==
    ASSUME NEW a, ~Uartm!IsWritten(a, "sr"), ~Uartm!IsWritten(a, "rdr"), UartTurn(a)
    PROVE  /\ uart_regs'.rxne <=>
                 rx.rx_data_valid \/ (uart_regs.rxne /\ a.reg # "rdr")
           /\ uart_regs'.rdr = IF rx.rx_data_valid THEN rx.rx_data
                                                   ELSE uart_regs.rdr
<1>1. uart_regs' = Uartm!RegsAfter(a)
  BY DEF UartTurn, Uartm!UartCycle
<1>2. uart_regs'.rxne = Uartm!Rxne(a)
      /\ uart_regs'.rdr = IF rx.rx_data_valid THEN rx.rx_data
                          ELSE Uartm!Written(a, "rdr", "rdr")
  BY <1>1 DEF Uartm!RegsAfter
<1>3. Uartm!Rxne(a) <=> rx.rx_data_valid \/ (uart_regs.rxne /\ a.reg # "rdr")
  BY DEF Uartm!Rxne, Uartm!Written
<1> QED
  BY <1>2, <1>3 DEF Uartm!Written

(* Until it is listened to the host says nothing and the receiver rests.   *)
LEMMA StaysAtEase ==
    ASSUME BInv, HostInv, AtEase, loader.source # "uart",
           NEW a, ~Uartm!IsWritten(a, "sr"), UartTurn(a)
    PROVE  AtEase' /\ HostInv' /\ host' = host
<1>1. host' = host /\ Uartm!UartCycle(a, Host!Level)
  BY DEF UartTurn
<1>2. Host!Level = 1
  BY BootAssumption DEF AtEase, Host!Level
<1>3. rx' = [rx EXCEPT !.rx_data_valid = FALSE]
  BY <1>1, <1>2 DEF AtEase, Uartm!UartCycle, Uartm!Rx!Cycle, Uartm!Rx!Rest,
     Uartm!Rx!Detect, Uartm!Rx!WithinBit, Uartm!Rx!FirstBit, Uartm!Rx!NextBit,
     Uartm!Rx!StopBit, Uartm!Rx!Finish
<1>4. /\ rx'.state = "IDLE" /\ rx'.edges_counter = 0 /\ rx'.bits_counter = 0
      /\ ~rx'.rx_data_valid
  BY <1>3 DEF AtEase, BInv, HwInv, Uartm!UartTypeOK, Uartm!Rx!TypeOK
<1>5. ~uart_regs'.rxne
  <2>1. uart_regs'.rxne = Uartm!Rxne(a)
    BY <1>1 DEF Uartm!UartCycle, Uartm!RegsAfter
  <2> QED
    BY <2>1 DEF AtEase, Uartm!Rxne, Uartm!Written
<1>6. HostInv'
  BY <1>1 DEF HostInv, Host!Ordered
<1> QED
  BY <1>1, <1>4, <1>5, <1>6 DEF AtEase

(* A receiver at rest is ready for the first byte.                         *)
LEMMA ReadyToListen ==
    ASSUME BInv', AtEase'
    PROVE  /\ Uartm!RxFollows(host, UartDivider)'
           /\ Uartm!RxBits(host, UartDivider)'
           /\ Uartm!RxTook(host, UartDivider)' = 0
<1>1. host'.slot = -1 /\ host'.queue = host'.line /\ host'.line \in Seq(Bytes)
      /\ rx'.state = "IDLE" /\ rx'.edges_counter = 0 /\ rx'.bits_counter = 0
  BY DEF AtEase, BInv, HwInv, Host!Framed, Host!Hosts
<1>2. Uartm!RxFollows(host, UartDivider)'
  BY <1>1 DEF Uartm!RxFollows, Uartm!Waits
<1>3. Uartm!RxBits(host, UartDivider)'
  BY <1>1 DEF Uartm!RxBits
<1>4. Len(host'.line) \in Nat /\ host'.slot # DataBits + 1
  BY <1>1, BootAssumption, LenProperties
<1>5. Uartm!RxTook(host, UartDivider)' = Len(host'.line) - Len(host'.queue) + 0
  BY <1>4 DEF Uartm!RxTook
<1> QED
  BY <1>1, <1>2, <1>3, <1>4, <1>5

(* The paces, and how long an operation of the load still has.             *)
LEMMA TimesOfLoad ==
    ASSUME IInv, BInv
    PROVE  /\ sw.pace \in Nat /\ sw.pace > 1 /\ sw.gap \in Nat /\ sw.gap >= 1
           /\ 4 * sw.pace + 1 < Uartm!MaxWait(UartDivider)
           /\ Now \in LoadOps =>
                 /\ Gap(Now) = IF Now \in {"timeout_high", "test_high"} THEN 1
                               ELSE sw.pace
                 /\ Slack \in Nat
                 /\ TimeLeft \in Nat /\ TimeLeft >= 1 + Slack
                 /\ sw.gap = Gap(Now) => TimeLeft = 1 + Slack
<1>1. sw.pace \in Paces /\ sw.gap \in Nat /\ sw.gap >= 1 /\ sw.gap <= Gap(Now)
  BY DEF IInv, SwOK, BInv
<1>2. sw.pace \in Nat /\ sw.pace > 1
  <2>1. sw.pace \in Nat /\ sw.pace \notin 0 .. 1
    BY <1>1, LoaderAssumption
  <2> QED
    BY <2>1
<1>3. 4 * sw.pace + 1 < Uartm!MaxWait(UartDivider)
  <2>1. \A pace \in Paces : 4 * pace + 1 < Uartm!MaxWait(UartDivider)
    BY HostAssumption
  <2> QED
    BY <1>1, <2>1
<1>4. ASSUME Now \in LoadOps
      PROVE  /\ Gap(Now) = IF Now \in {"timeout_high", "test_high"} THEN 1
                           ELSE sw.pace
             /\ Gap(Now) \in Nat /\ Slack \in Nat
  <2>1. Now # "delay"
    BY <1>4 DEF LoadOps, SpiOps, UartOps
  <2>2. Gap(Now) = IF Now \in {"timeout_high", "test_high"} THEN 1 ELSE sw.pace
    BY <2>1 DEF Gap
  <2>3. Slack \in Nat
    BY <1>2 DEF Slack
  <2> QED
    BY <1>2, <2>2, <2>3
<1>5. ASSUME Now \in LoadOps
      PROVE  /\ TimeLeft \in Nat /\ TimeLeft >= 1 + Slack
             /\ sw.gap = Gap(Now) => TimeLeft = 1 + Slack
  BY <1>1, <1>4, <1>5 DEF TimeLeft
<1> QED
  BY <1>1, <1>2, <1>3, <1>4, <1>5

(* The same of the operation that comes next, when it has just come.       *)
LEMMA TimesThen ==
    ASSUME IInv, sw'.pace = sw.pace, sw'.gap = 1
    PROVE  /\ Now' \in {"timeout_high", "test_high"} => TimeLeft' = 1 + Slack'
           /\ Now' \in {"uart_poll", "uart_ask", "uart_get", "test_low", "store"} =>
                 TimeLeft' = sw.pace + Slack'
           /\ Slack' = CASE Now' = "uart_get" -> 0
                         [] Now' = "uart_ask" -> sw.pace
                         [] Now' = "uart_poll" -> 2 * sw.pace
                         [] Now' = "test_low" -> 3 * sw.pace + 1
                         [] OTHER -> 3 * sw.pace
<1>1. sw.pace \in Nat
  BY LoaderAssumption DEF IInv, SwOK
<1>2. Slack' = CASE Now' = "uart_get" -> 0
                 [] Now' = "uart_ask" -> sw.pace
                 [] Now' = "uart_poll" -> 2 * sw.pace
                 [] Now' = "test_low" -> 3 * sw.pace + 1
                 [] OTHER -> 3 * sw.pace
  BY DEF Slack
<1>3. Slack' \in Nat
  BY <1>1, <1>2
<1>4. TimeLeft' = Gap(Now)' - 1 + 1 + Slack'
  BY DEF TimeLeft
<1>5. Now' \in {"timeout_high", "test_high"} => Gap(Now)' = 1
  BY DEF Gap
<1>6. Now' \in {"uart_poll", "uart_ask", "uart_get", "test_low", "store"} =>
          Gap(Now)' = sw.pace
  BY DEF Gap
<1> QED
  BY <1>1, <1>2, <1>3, <1>4, <1>5, <1>6

(* The loader goes on, and no byte is taken out of the UART: it has the    *)
(* same bytes, stored or not, and comes back to the receiver in time.      *)
FillsOn ==
    /\ Filling /\ sw'.pace = sw.pace
    /\ \/ loader'.i = loader.i /\ loader'.bytes = loader.bytes
          /\ (Now' = "store" => Now = "store")
       \/ loader'.i = loader.i + 1 /\ loader'.bytes = <<>>
          /\ Now = "store" /\ Now' # "store"
    /\ Now' = "uart_get" => uart_regs.rxne
    /\ TimeLeft' \in Nat /\ TimeLeft' <= 4 * sw.pace + 1
    /\ uart_regs.rxne => TimeLeft' <= TimeLeft - 1

(* The byte that waits is still the next one, and no other has come.       *)
LEMMA ByteWaits ==
    ASSUME IInv, BInv, HostInv, RxInv, ReadInv, Uartm!RunsWith(UartDivider),
           loader.source = "uart", NEW a, Calm(a), UartTurn(a), FillsOn
    PROVE  ReadInv'
<1> DEFINE quiet == Uartm!QuietFor(UartDivider)  next == Uartm!QuietFor(UartDivider)'
           most == Uartm!MaxWait(UartDivider)    took == Uartm!RxTook(host, UartDivider)
           left == TimeLeft  after == TimeLeft'  n == Placed
<1>1. /\ n + Unread = took
      /\ Now = "store" => Len(loader.bytes) = 4
      /\ \A j \in 1 .. Len(loader.bytes) : loader.bytes[j] = HostByte(4 * loader.i + j)
      /\ rx.rx_data_valid => /\ ~uart_regs.rxne /\ 4 * sw.pace + 1 < quiet
                             /\ rx.rx_data = host.line[n + 1]
      /\ uart_regs.rxne => left <= quiet /\ uart_regs.rdr = host.line[n + 1]
      /\ Now = "uart_get" => uart_regs.rxne
  BY DEF FillsOn, ReadInv
<1>2. LetsRun(a) /\ ~Uartm!IsWritten(a, "sr") /\ ~Uartm!IsWritten(a, "rdr")
      /\ a.reg # "rdr"
  BY DEF Calm, LetsRun, Uartm!IsWritten
<1>3. /\ rx'.rx_data_valid => rx'.rx_data = host.line[took + 1]
      /\ took' = took + (IF rx'.rx_data_valid THEN 1 ELSE 0)
      /\ took \in Nat /\ quiet \in Nat /\ next \in Nat /\ next >= quiet - 1
      /\ rx'.rx_data_valid => quiet = 0 /\ next = most
  BY <1>2, ReceiverGoesOn
<1>4. host'.line = host.line
  BY HostGoesOn
<1>5. /\ uart_regs'.rxne <=> rx.rx_data_valid \/ uart_regs.rxne
      /\ uart_regs'.rdr = IF rx.rx_data_valid THEN rx.rx_data ELSE uart_regs.rdr
  BY <1>2, FlagOfTheByte
<1>6. /\ sw.pace \in Nat /\ 4 * sw.pace + 1 < most
      /\ left \in Nat /\ left >= 1
  BY TimesOfLoad DEF FillsOn, Filling
<1>7. /\ after \in Nat /\ after <= 4 * sw.pace + 1
      /\ uart_regs.rxne => after <= left - 1
      /\ sw'.pace = sw.pace /\ (Now' = "uart_get" => uart_regs.rxne)
  BY DEF FillsOn
<1>8. n \in Nat /\ n' = n
  <2>1. loader.i \in Nat /\ Len(loader.bytes) \in Nat
    BY BootAssumption, LenProperties DEF BInv, LoadInv
  <2>2. CASE loader'.i = loader.i /\ loader'.bytes = loader.bytes
    BY <2>1, <2>2 DEF Placed
  <2>3. CASE loader'.i = loader.i + 1 /\ loader'.bytes = <<>> /\ Now = "store"
    <3>1. Len(loader'.bytes) = 0 /\ Len(loader.bytes) = 4
      BY <1>1, <2>3, EmptySeq
    <3> QED
      BY <2>1, <2>3, <3>1 DEF Placed
  <2> QED
    BY <2>2, <2>3 DEF FillsOn
<1>9. (Now' = "store" => Len(loader'.bytes) = 4)
      /\ \A j \in 1 .. Len(loader'.bytes) :
             loader'.bytes[j] = HostByte(4 * loader'.i + j)
  <2>1. CASE loader'.i = loader.i /\ loader'.bytes = loader.bytes
             /\ (Now' = "store" => Now = "store")
    BY <1>1, <2>1
  <2>2. CASE loader'.bytes = <<>> /\ Now' # "store"
    BY <2>2, EmptySeq
  <2> QED
    BY <2>1, <2>2 DEF FillsOn
<1>10. Placed' = n' /\ Uartm!RxTook(host, UartDivider)' = took'
       /\ TimeLeft' = after /\ Uartm!QuietFor(UartDivider)' = next
  OBVIOUS
<1> DEFINE came == took'
<1>11. came = took + (IF rx'.rx_data_valid THEN 1 ELSE 0) /\ n' = n
  BY <1>3, <1>8
<1>12. Placed' = n /\ Uartm!RxTook(host, UartDivider)' = came
  BY <1>8, <1>10
<1> HIDE DEF quiet, next, most, took, left, after, n, came
<1>13. ~(rx'.rx_data_valid /\ (rx.rx_data_valid \/ uart_regs.rxne))
  BY <1>1, <1>3, <1>6
<1>14. (rx.rx_data_valid \/ uart_regs.rxne) => after <= next
  BY <1>1, <1>3, <1>6, <1>7
<1>15. /\ Unread \in {0, 1} /\ (rx'.rx_data_valid => Unread = 0)
       /\ Unread' = IF rx'.rx_data_valid THEN 1 ELSE Unread
  BY <1>5, <1>13 DEF Unread
<1>16. n + Unread' = came
  BY <1>1, <1>3, <1>8, <1>11, <1>15
<1>17. rx'.rx_data_valid => rx'.rx_data = host'.line[n + 1]
  <2>1. rx'.rx_data_valid => took = n
    BY <1>1, <1>8, <1>15
  <2> QED
    BY <1>3, <1>4, <2>1
<1>18. rx'.rx_data_valid => ~uart_regs'.rxne /\ 4 * sw'.pace + 1 < next
  BY <1>3, <1>5, <1>6, <1>7, <1>13
<1>19. uart_regs'.rxne => after <= next /\ uart_regs'.rdr = host'.line[n + 1]
  BY <1>1, <1>4, <1>5, <1>14
<1>20. Now' = "uart_get" => uart_regs'.rxne
  BY <1>5, <1>7
<1> QED
  BY <1>9, <1>10, <1>12, <1>16, <1>17, <1>18, <1>19, <1>20 DEF ReadInv

(* The bytes that were taken are bytes of the line.                        *)
LEMMA TookFromTheLine ==
    ASSUME BInv, HostInv
    PROVE  Uartm!RxTook(host, UartDivider) <= Len(host.line)
<1>1. /\ host.line \in Seq(Bytes) /\ host.queue \in Seq(Bytes)
      /\ host.slot >= 0 => host.queue # <<>>
      /\ Len(host.queue) <= Len(host.line)
  BY DEF BInv, HwInv, Host!Framed, Host!Hosts, HostInv, Host!Ordered
<1>2. DataBits + 1 >= 0
  BY BootAssumption
<1>3. /\ Len(host.line) \in Nat /\ Len(host.queue) \in Nat
      /\ host.slot = DataBits + 1 => Len(host.queue) > 0
  BY <1>1, <1>2, LenProperties, EmptySeq
<1> DEFINE m == Len(host.line)  n == Len(host.queue)
           one == IF host.slot = DataBits + 1
                     /\ (rx.state = "IDLE" \/ (rx.state = "STOP" /\ Uartm!Past(UartDivider)))
                  THEN 1 ELSE 0
<1>4. Uartm!RxTook(host, UartDivider) = m - n + one
  BY DEF Uartm!RxTook
<1>5. one \in {0, 1} /\ (one = 1 => host.slot = DataBits + 1)
  OBVIOUS
<1> HIDE DEF m, n, one
<1>6. m \in Nat /\ n \in Nat /\ n <= m /\ (one = 1 => n > 0)
  BY <1>1, <1>3, <1>5 DEF m, n
<1>7. m - n + one <= m
  BY <1>5, <1>6
<1> QED
  BY <1>4, <1>7 DEF m

(* A step after the constructor that takes no byte.                        *)
Listens(a) ==
    /\ UartTurn(a) /\ Calm(a)
    /\ Now \notin Setup /\ sw'.todo \in Seq(Ops \ Setup)
    /\ loader.source = "uart" => loader'.source = "uart" /\ (Filling' => FillsOn)
    /\ loader.source # "uart" /\ loader'.source = "uart" =>
           /\ loader.source = "none" /\ Now' = "timeout_high"
           /\ loader'.i = loader.i /\ loader'.bytes = loader.bytes

(* What comes next is never the constructor again.                         *)
LEMMA SetupIsOver ==
    ASSUME sw'.todo \in Seq(Ops \ Setup)
    PROVE  Now' \notin Setup
<1>1. sw'.todo # <<>> => Head(sw'.todo) \in Ops \ Setup
  OBVIOUS
<1> QED
  BY <1>1 DEF Now, Setup

(* Such a step keeps the load over the UART whole.                         *)
LEMMA ListensOn ==
    ASSUME IInv, BInv, BInv', UartInv, NEW a, Listens(a)
    PROVE  UartInv'
<1>1. HostInv /\ RxInv /\ ReadInv /\ Uartm!RunsWith(UartDivider)
  BY DEF UartInv, SetupInv, Listens
<1>2. UartTurn(a) /\ Calm(a) /\ LetsRun(a) /\ ~Uartm!IsWritten(a, "sr")
  BY DEF Listens, Calm, LetsRun
<1>3. SetupInv'
  <2>1. Uartm!RunsWith(UartDivider)'
    <3>1. /\ Uartm!UartAssumption /\ Uartm!UartTypeOK
          /\ UartDivider \in 0 .. MaxDivider
      BY <1>1, HostIsKept
    <3>2. ~Uartm!IsWritten(a, "cr") /\ ~Uartm!IsWritten(a, "cdr")
      BY <1>2 DEF LetsRun
    <3> QED
      BY <1>1, <1>2, <3>1, <3>2, Uartm!RunsOn DEF UartTurn
  <2> QED
    BY <2>1, SetupIsOver DEF Listens, SetupInv
<1>4. CASE loader.source = "uart"
  <2>1. loader'.source = "uart" /\ (Filling' => FillsOn)
    BY <1>4 DEF Listens
  <2>2. HostInv'
    BY <1>1, <1>2, <1>4, HostGoesOn
  <2>3. RxInv'
    <3>1. Uartm!RxFollows(host, UartDivider)' /\ Uartm!RxBits(host, UartDivider)'
      BY <1>1, <1>2, <1>4, ReceiverGoesOn
    <3> QED
      BY <2>1, <3>1 DEF RxInv
  <2>4. ReadInv'
    <3>1. CASE Filling'
      BY <1>1, <1>2, <1>4, <2>1, <3>1, ByteWaits
    <3>2. CASE ~Filling'
      BY <3>2 DEF ReadInv
    <3> QED
      BY <3>1, <3>2
  <2> QED
    BY <1>3, <2>2, <2>3, <2>4 DEF UartInv
<1>5. CASE loader.source # "uart"
  <2>1. AtEase' /\ HostInv'
    BY <1>1, <1>2, <1>5, StaysAtEase DEF RxInv
  <2>2. CASE loader'.source # "uart"
    BY <1>3, <2>1, <2>2 DEF UartInv, RxInv, ReadInv, Filling
  <2>3. CASE loader'.source = "uart"
    <3>1. /\ Uartm!RxFollows(host, UartDivider)' /\ Uartm!RxBits(host, UartDivider)'
          /\ Uartm!RxTook(host, UartDivider)' = 0
      BY <2>1, ReadyToListen
    <3>2. RxInv'
      BY <2>3, <3>1 DEF RxInv
    <3>3. Now' = "timeout_high" /\ loader'.i = 0 /\ loader'.bytes = <<>>
      BY <1>5, <2>3 DEF Listens, BInv, LoadInv
    <3>4. Unread' = 0 /\ ~rx'.rx_data_valid /\ ~uart_regs'.rxne
      BY <2>1 DEF AtEase, Unread
    <3>5. Placed' = 0 /\ Len(loader'.bytes) = 0
      <4>1. Len(<<>>) = 0
        BY EmptySeq
      <4> QED
        BY <3>3, <4>1 DEF Placed
    <3>6. Placed' + Unread' = Uartm!RxTook(host, UartDivider)'
      BY <3>1, <3>4, <3>5
    <3>7. ReadInv'
      BY <3>3, <3>4, <3>5, <3>6 DEF ReadInv
    <3> QED
      BY <1>3, <2>1, <3>2, <3>7 DEF UartInv
  <2> QED
    BY <2>2, <2>3
<1> QED
  BY <1>4, <1>5

(* Taking a byte out of the UART: it is the next one of the line, and no   *)
(* other comes in that cycle.                                              *)
LEMMA TakingReads ==
    ASSUME IInv, BInv, BInv', UartInv, GetUart
    PROVE  UartInv'
<1> DEFINE a == Uartm!ReadReg("rdr")  byte == uart_regs.rdr  n == Len(loader.bytes)
           took == Uartm!RxTook(host, UartDivider)
<1>1. /\ At("uart_get") /\ Now = "uart_get" /\ Bus("uart", a)
      /\ loader' = Taken(byte) /\ Do(AfterByte("uart_poll"))
  BY DEF GetUart, At
<1>2. Now \in LoadOps /\ Now \notin Setup /\ loader.source = "uart" /\ Now # "jump"
  BY <1>1 DEF LoadOps, UartOps, Setup, IInv, OpsInv
<1>3. HostInv /\ RxInv /\ ReadInv /\ Uartm!RunsWith(UartDivider)
      /\ sw.todo \in Seq(Ops \ Setup)
  BY <1>2 DEF UartInv, SetupInv
<1>4. UartTurn(a)
  BY <1>1, UartPart
<1>5. /\ LetsRun(a) /\ a.reg = "rdr"
      /\ ~Uartm!IsWritten(a, "sr") /\ ~Uartm!IsWritten(a, "rdr")
      /\ ~Uartm!IsWritten(a, "cr") /\ ~Uartm!IsWritten(a, "cdr")
  BY DEF LetsRun, Uartm!IsWritten, Uartm!ReadReg
<1> HIDE DEF a
<1>6. /\ Placed + Unread = took
      /\ \A j \in 1 .. n : loader.bytes[j] = HostByte(4 * loader.i + j)
      /\ ~rx.rx_data_valid /\ uart_regs.rxne /\ TimeLeft <= Uartm!QuietFor(UartDivider)
      /\ byte = host.line[Placed + 1]
  BY <1>1, <1>2, <1>3 DEF ReadInv, Filling
<1>7. /\ Uartm!RunsWith(UartDivider)' /\ Uartm!RxFollows(host, UartDivider)'
      /\ Uartm!RxBits(host, UartDivider)'
      /\ Uartm!RxTook(host, UartDivider)' =
             took + (IF rx'.rx_data_valid THEN 1 ELSE 0)
      /\ took \in Nat
      /\ rx'.rx_data_valid => Uartm!QuietFor(UartDivider) = 0
  BY <1>2, <1>3, <1>4, <1>5, ReceiverGoesOn
<1>8. ~rx'.rx_data_valid
  <2>1. TimeLeft \in Nat /\ TimeLeft >= 1
    BY <1>2, TimesOfLoad
  <2> QED
    BY <1>6, <1>7, <2>1
<1>9. ~uart_regs'.rxne
  BY <1>4, <1>5, <1>6, FlagOfTheByte
<1>10. HostInv' /\ host'.line = host.line
  BY <1>2, <1>3, <1>4, HostGoesOn
<1>11. /\ loader.i \in Nat /\ loader.bytes \in Seq(Bytes) /\ n \in Nat /\ n <= 3
       /\ byte \in Bytes /\ Placed = 4 * loader.i + n
  <2>1. loader.i \in 0 .. CodeWords /\ loader.bytes \in Seq(Bytes) /\ n <= 3
    BY <1>1, <1>2 DEF BInv, LoadInv
  <2>2. byte \in Bytes
    BY DEF BInv, HwInv, Uartm!UartTypeOK, Uartm!Rx!Byte, Bytes
  <2> QED
    BY <2>1, <2>2, BootAssumption, LenProperties DEF Placed
<1>12. /\ loader'.source = "uart" /\ loader'.i = loader.i
       /\ loader'.bytes = Append(loader.bytes, byte)
  BY <1>1, <1>2 DEF IInv, LoaderOK, Taken
<1>13. /\ Len(loader'.bytes) = n + 1
       /\ \A j \in 1 .. n : loader'.bytes[j] = loader.bytes[j]
       /\ loader'.bytes[n + 1] = byte
  <2> HIDE DEF byte
  <2> QED
    BY <1>11, <1>12, AppendProperties
<1>14. took = Placed + 1 /\ Uartm!RxTook(host, UartDivider)' = Placed + 1
       /\ Placed \in Nat
  <2>1. Unread = 1 /\ Placed \in Nat
    BY <1>6, <1>11 DEF Unread
  <2> DEFINE next == Uartm!RxTook(host, UartDivider)'
  <2>2. next = took + 0
    BY <1>7, <1>8
  <2> HIDE DEF took, next
  <2>3. next = Placed + 1 /\ took = Placed + 1
    BY <1>6, <1>7, <2>1, <2>2
  <2> QED
    BY <2>1, <2>3 DEF next
<1>15. byte = HostByte(4 * loader.i + (n + 1))
  <2> DEFINE m == Placed + 1  size == Len(host.line)
  <2>1. took <= size
    BY <1>3, TookFromTheLine
  <2>2. size \in Nat
    BY LenProperties DEF BInv, HwInv, Host!Framed, Host!Hosts
  <2>3. m \in Nat /\ m >= 1 /\ m = took
    BY <1>14
  <2>4. \A k \in 1 .. size : host.line[k] = HostByte(k)
    BY <1>3 DEF HostInv
  <2>5. host.line[m] = HostByte(m)
    <3> HIDE DEF m, size, took
    <3>1. m \in 1 .. size
      BY <2>1, <2>2, <2>3
    <3> QED
      BY <2>4, <3>1
  <2>6. m = 4 * loader.i + (n + 1)
    BY <1>11, SMTT(60)
  <2>7. byte = HostByte(m)
    BY <1>6, <2>5
  <2> HIDE DEF m, byte
  <2> QED
    BY <2>6, <2>7
<1>16. PICK op \in {"store", "uart_poll"} : Do(<<op>>) /\ (op = "store" <=> n = 3)
  BY <1>1 DEF AfterByte
<1>17. sw'.todo \in Seq(Ops \ Setup) /\ Now' = op
  <2> DEFINE ops == <<op>>  rest == Tail(sw.todo)  later == Ops \ Setup
  <2>1. op \in Ops /\ op \in later
    BY DEF Ops, UartOps, Setup
  <2>2. ops \in Seq(later)
    BY <2>1
  <2>3. sw.todo # <<>>
    BY <1>2, NowComesFirst DEF IInv
  <2>4. rest \in Seq(later)
    <3> HIDE DEF later
    <3> QED
      BY <1>3, <2>3, HeadTailProperties DEF later
  <2>5. sw'.todo \in Seq(Ops \ Setup)
    <3>1. Do(ops)
      BY <1>16
    <3> HIDE DEF ops
    <3>2. sw'.todo = ops \o rest
      BY <3>1 DEF Do, IInv, SwOK, IsSw
    <3> HIDE DEF rest, later
    <3>3. ops \o rest \in Seq(later)
      BY <2>2, <2>4, ConcatProperties
    <3> QED
      BY <3>2, <3>3 DEF later
  <2>6. Now' = op
    BY <1>2, <1>16, <2>1, GoesTo DEF IInv
  <2> QED
    BY <2>5, <2>6
<1>18. SetupInv'
  BY <1>7, <1>17, SetupIsOver DEF SetupInv
<1>19. RxInv'
  BY <1>7, <1>12 DEF RxInv
<1>20. ReadInv'
  <2>1. Unread' = 0
    BY <1>8, <1>9 DEF Unread
  <2>2. Placed' = Placed + 1
    <3> DEFINE before == loader.i  more == Len(loader'.bytes)
    <3>1. Placed' = 4 * before + more
      BY <1>12 DEF Placed
    <3>2. more = n + 1 /\ before \in Nat /\ n \in Nat /\ Placed = 4 * before + n
      BY <1>11, <1>13
    <3> HIDE DEF before, more, n
    <3> QED
      BY <3>1, <3>2
  <2>3. Placed' + Unread' = Uartm!RxTook(host, UartDivider)'
    BY <1>14, <2>1, <2>2
  <2>4. Now' = "store" => Len(loader'.bytes) = 4
    <3> DEFINE more == Len(loader'.bytes)
    <3>1. Now' = "store" => n = 3
      BY <1>16, <1>17
    <3>2. more = n + 1
      BY <1>13
    <3> HIDE DEF n, more
    <3>3. Now' = "store" => more = 4
      BY <3>1, <3>2
    <3> QED
      BY <3>3 DEF more
  <2>5. ASSUME NEW j \in 1 .. Len(loader'.bytes)
        PROVE  loader'.bytes[j] = HostByte(4 * loader'.i + j)
    <3> DEFINE last == n + 1
    <3>1. j \in 1 .. n \/ j = last
      BY <1>11, <1>13
    <3>2. CASE j \in 1 .. n
      BY <1>6, <1>12, <1>13, <3>2
    <3>3. CASE j = last
      BY <1>12, <1>13, <1>15, <3>3
    <3> QED
      BY <3>1, <3>2, <3>3
  <2>6. Now' # "uart_get"
    BY <1>17
  <2> QED
    BY <1>8, <1>9, <2>3, <2>4, <2>5, <2>6 DEF ReadInv
<1> QED
  BY <1>10, <1>18, <1>19, <1>20 DEF UartInv


(* The constructor comes before any load.                                  *)
LEMMA SetupIsFirst ==
    ASSUME IInv, BInv, UartInv, Now \in Setup
    PROVE  Begun /\ HostInv /\ AtEase /\ loader.source = "none"
<1>1. Begun /\ HostInv
  BY DEF UartInv, SetupInv
<1>2. ~NoStarter(sw.todo)
  <2>1. CASE Now = "uart_divider"
    <3>1. sw.todo = <<"uart_divider", "uart_enable">>
      BY <1>1, <2>1 DEF Begun
    <3>2. 2 \in 1 .. Len(sw.todo) /\ sw.todo[2] = "uart_enable"
      BY <3>1
    <3> QED
      BY <3>2 DEF NoStarter, Starters
  <2>2. CASE Now = "uart_enable"
    <3>1. Now # "jump" /\ Now \in Starters
      BY <2>2 DEF Starters
    <3> QED
      BY <3>1, NowComesFirst DEF IInv
  <2> QED
    BY <2>1, <2>2 DEF Setup
<1>3. loader.source = "none"
  BY <1>2 DEF BInv, LoadInv
<1>4. AtEase
  BY <1>3 DEF UartInv, RxInv
<1> QED
  BY <1>1, <1>3, <1>4

(* A cycle of the UART before it is enabled: its clock rests, and takes    *)
(* the divider that was written in the cycle before.                       *)
LEMMA ClockRests ==
    ASSUME IInv, BInv, UartInv, Now \in Setup,
           NEW a, ~Uartm!IsWritten(a, "sr"), UartTurn(a), loader' = loader
    PROVE  /\ ~clock'.sck /\ ~clock'.rising_edge /\ clock'.counter = 0
           /\ clock'.counter_target = IF clk_divider_valid THEN uart_regs.cdr
                                      ELSE clock.counter_target
           /\ (uart_regs'.en <=> Uartm!IsWritten(a, "cr") /\ a.fields.en)
           /\ (clk_divider_valid' <=> Uartm!IsWritten(a, "cdr"))
           /\ HostInv' /\ RxInv' /\ ReadInv'
<1>1. Begun /\ HostInv /\ AtEase /\ loader.source = "none"
  BY SetupIsFirst
<1>2. Uartm!UartCycle(a, Host!Level)
  BY DEF UartTurn
<1>3. /\ ~clock'.sck /\ ~clock'.rising_edge /\ clock'.counter = 0
      /\ clock'.counter_target = IF clk_divider_valid THEN uart_regs.cdr
                                 ELSE clock.counter_target
  <2>1. /\ Uartm!Clock!Cycle(uart_regs.en, clk_divider_valid, uart_regs.cdr)
        /\ ~uart_regs.en
    BY <1>1, <1>2 DEF Uartm!UartCycle, Begun
  <2>2. clock \in [sck : BOOLEAN, rising_edge : BOOLEAN, falling_edge : BOOLEAN,
                   counter : Uartm!Clock!Divider,
                   counter_target : Uartm!Clock!Divider]
    BY DEF BInv, HwInv, Uartm!UartTypeOK, Uartm!Clock!TypeOK
  <2>3. CASE Uartm!Clock!SetDivider(clk_divider_valid, uart_regs.cdr)
    BY <2>3 DEF Uartm!Clock!SetDivider
  <2>4. CASE Uartm!Clock!Stop(uart_regs.en, clk_divider_valid)
    BY <2>2, <2>4 DEF Uartm!Clock!Stop
  <2>5. \/ Uartm!Clock!SetDivider(clk_divider_valid, uart_regs.cdr)
        \/ Uartm!Clock!Stop(uart_regs.en, clk_divider_valid)
    BY <2>1 DEF Uartm!Clock!Cycle, Uartm!Clock!Turn, Uartm!Clock!Count
  <2> QED
    BY <2>3, <2>4, <2>5
<1>4. uart_regs' = Uartm!RegsAfter(a)
      /\ (clk_divider_valid' <=> Uartm!IsWritten(a, "cdr"))
  BY <1>2 DEF Uartm!UartCycle
<1>5. uart_regs'.en <=> Uartm!IsWritten(a, "cr") /\ a.fields.en
  <2>1. uart_regs'.en = Uartm!Written(a, "cr", "en")
    BY <1>4 DEF Uartm!RegsAfter
  <2> QED
    BY <1>1, <2>1 DEF Uartm!Written, Begun
<1>6. AtEase' /\ HostInv'
  BY <1>1, StaysAtEase
<1>7. RxInv' /\ ReadInv'
  BY <1>1, <1>6 DEF RxInv, ReadInv, Filling
<1> QED
  BY <1>3, <1>4, <1>5, <1>6, <1>7

(* Waiting for one of the two writes.                                      *)
LEMMA WaitingSetsUp ==
    ASSUME IInv, BInv, UartInv, Now \in Setup, Wait
    PROVE  UartInv'
<1> DEFINE a == Spim!None
<1>1. Begun
  BY SetupIsFirst
<1>2. /\ UartTurn(a) /\ loader' = loader
      /\ sw'.todo = sw.todo /\ sw'.gap = sw.gap + 1 /\ sw.gap \in Nat /\ sw.gap >= 1
  <2>1. Bus("none", Spim!None)
    BY DEF Wait, NoAccess
  <2> QED
    BY <2>1, UartPart DEF Wait, IInv, SwOK, IsSw
<1>3. /\ ~Uartm!IsWritten(a, "sr") /\ ~Uartm!IsWritten(a, "cr")
      /\ ~Uartm!IsWritten(a, "cdr")
  BY DEF Uartm!IsWritten, Spim!None
<1> HIDE DEF a
<1>4. /\ ~clock'.sck /\ ~clock'.rising_edge /\ clock'.counter = 0
      /\ clock'.counter_target = IF clk_divider_valid THEN uart_regs.cdr
                                 ELSE clock.counter_target
      /\ ~uart_regs'.en /\ ~clk_divider_valid'
      /\ HostInv' /\ RxInv' /\ ReadInv'
  BY <1>2, <1>3, ClockRests
<1>5. Now' = Now
  BY <1>2 DEF Now
<1>6. sw'.gap # 1
  BY <1>2
<1>7. Now # "uart_divider" => clock'.counter_target = UartDivider
  BY <1>1, <1>4 DEF Begun
<1>8. Begun'
  BY <1>1, <1>2, <1>4, <1>5, <1>6, <1>7 DEF Begun
<1> QED
  BY <1>4, <1>5, <1>8 DEF UartInv, SetupInv

(* The write of the divider.                                               *)
LEMMA DividerSetsUp ==
    ASSUME IInv, BInv, UartInv, SetUartDivider
    PROVE  UartInv'
<1> DEFINE a == Uartm!WriteReg("cdr", [cdr |-> UartDivider])
<1>1. Now = "uart_divider" /\ Now \in Setup
  BY DEF SetUartDivider, UartWrite, At, Setup
<1>2. Begun
  BY <1>1, SetupIsFirst
<1>3. /\ UartTurn(a) /\ loader' = loader
      /\ sw'.todo = <<>> \o Tail(sw.todo) /\ sw'.gap = 1
  <2>1. Bus("uart", a)
    BY DEF SetUartDivider, UartWrite
  <2> QED
    BY <2>1, UartPart DEF SetUartDivider, UartWrite, Do, IInv, SwOK, IsSw
<1>4. /\ ~Uartm!IsWritten(a, "sr") /\ ~Uartm!IsWritten(a, "cr")
      /\ Uartm!IsWritten(a, "cdr") /\ a.fields.cdr = UartDivider
  BY DEF Uartm!IsWritten, Uartm!WriteReg
<1> HIDE DEF a
<1>5. uart_regs'.cdr = UartDivider
  BY <1>3, <1>4 DEF UartTurn, Uartm!UartCycle, Uartm!RegsAfter, Uartm!Written
<1>6. /\ ~clock'.sck /\ ~clock'.rising_edge /\ clock'.counter = 0
      /\ ~uart_regs'.en /\ clk_divider_valid'
      /\ HostInv' /\ RxInv' /\ ReadInv'
  BY <1>1, <1>3, <1>4, ClockRests
<1>7. sw'.todo = <<"uart_enable">> /\ Now' = "uart_enable"
  <2>1. sw.todo = <<"uart_divider", "uart_enable">>
    BY <1>1, <1>2 DEF Begun
  <2>2. Tail(sw.todo) = <<"uart_enable">>
    BY <2>1
  <2>3. sw'.todo = <<"uart_enable">>
    BY <1>3, <2>2
  <2> QED
    BY <2>3 DEF Now
<1>8. Begun'
  BY <1>3, <1>5, <1>6, <1>7 DEF Begun
<1> QED
  BY <1>6, <1>7, <1>8 DEF UartInv, SetupInv, Setup

(* What main puts in the place of an operation, and how it goes on.        *)
LEMMA LaterAreOps ==
    ASSUME NEW ops \in Seq(LaterOps)
    PROVE  ops \in Seq(Ops \ Setup)
<1> DEFINE later == Ops \ Setup
<1>1. LaterOps \subseteq later
  BY DEF LaterOps, Ops
<1> HIDE DEF later
<1>2. ops \in Seq(later)
  BY <1>1, SeqMonotonic
<1> QED
  BY <1>2 DEF later

(* Such a sequence goes on with such a one.                                *)
LEMMA GoesOnLater ==
    ASSUME SwOK, Now # "jump", sw.todo \in Seq(Ops \ Setup),
           NEW ops \in Seq(Ops \ Setup), sw'.todo = ops \o Tail(sw.todo)
    PROVE  sw'.todo \in Seq(Ops \ Setup)
<1> DEFINE later == Ops \ Setup  rest == Tail(sw.todo)
<1>1. sw.todo # <<>>
  BY NowComesFirst
<1> HIDE DEF later
<1>2. sw.todo \in Seq(later) /\ ops \in Seq(later)
  BY DEF later
<1>3. rest \in Seq(later)
  BY <1>1, <1>2, HeadTailProperties
<1> HIDE DEF rest
<1>4. ops \o rest \in Seq(later)
  BY <1>2, <1>3, ConcatProperties
<1> QED
  BY <1>4 DEF later, rest

(* The write that starts the clock.                                        *)
LEMMA EnableSetsUp ==
    ASSUME IInv, BInv, UartInv, EnableUart
    PROVE  UartInv'
<1> DEFINE a == Uartm!WriteReg("cr", [en |-> TRUE])
<1>1. Now = "uart_enable" /\ Now \in Setup /\ sw.gap = sw.pace
  BY DEF EnableUart, UartWrite, At, Setup, Gap
<1>2. Begun
  BY <1>1, SetupIsFirst
<1>3. /\ UartTurn(a) /\ loader' = loader
      /\ sw'.todo = Main \o Tail(sw.todo)
  <2>1. Bus("uart", a)
    BY DEF EnableUart, UartWrite
  <2> QED
    BY <2>1, UartPart DEF EnableUart, UartWrite, Do, IInv, SwOK, IsSw
<1>4. /\ ~Uartm!IsWritten(a, "sr") /\ Uartm!IsWritten(a, "cr")
      /\ ~Uartm!IsWritten(a, "cdr") /\ a.fields.en
  BY DEF Uartm!IsWritten, Uartm!WriteReg
<1> HIDE DEF a
<1>5. /\ ~clock'.sck /\ ~clock'.rising_edge /\ clock'.counter = 0
      /\ clock'.counter_target = IF clk_divider_valid THEN uart_regs.cdr
                                 ELSE clock.counter_target
      /\ uart_regs'.en /\ ~clk_divider_valid'
      /\ HostInv' /\ RxInv' /\ ReadInv'
  BY <1>1, <1>3, <1>4, ClockRests
<1>6. clock'.counter_target = UartDivider
  <2>1. sw.gap # 1
    BY <1>1, TimesOfLoad
  <2> QED
    BY <1>1, <1>2, <1>5, <2>1 DEF Begun
<1>7. Uartm!RunsWith(UartDivider)'
  <2>1. 0 <= UartDivider
    BY BootAssumption, LoaderAssumption
  <2> QED
    BY <1>5, <1>6, <2>1 DEF Uartm!RunsWith
<1>8. sw'.todo \in Seq(Ops \ Setup)
  <2> DEFINE rest == Tail(sw.todo)  later == Ops \ Setup
  <2>1. sw.todo = <<"uart_enable">>
    BY <1>1, <1>2 DEF Begun
  <2>2. rest = <<>>
    BY <2>1
  <2>3. Main \in Seq(LaterOps)
    BY MainHasOneStarter
  <2>4. Main \in Seq(later)
    BY <2>3, LaterAreOps
  <2> HIDE DEF later
  <2>5. rest \in Seq(later)
    <3> HIDE DEF rest
    <3> QED
      BY <2>2, EmptySeq
  <2>6. Main \o rest \in Seq(later)
    <3> HIDE DEF rest
    <3> QED
      BY <2>4, <2>5, ConcatProperties
  <2> QED
    BY <1>3, <2>6 DEF later
<1> QED
  BY <1>5, <1>7, <1>8, SetupIsOver DEF UartInv, SetupInv


(* A cycle without an access, after the constructor.                       *)
LEMMA WaitListens ==
    ASSUME IInv, BInv, UartInv, Now \notin Setup, Wait
    PROVE  \E a : Listens(a)
<1> DEFINE a == Spim!None  gap == Gap(Now)  slack == Slack
<1>1. UartTurn(a) /\ Calm(a)
  <2>1. Bus("none", Spim!None)
    BY DEF Wait, NoAccess
  <2> QED
    BY <2>1, UartPart, CalmOnes
<1>2. /\ loader' = loader /\ sw'.todo = sw.todo /\ sw'.pace = sw.pace
      /\ sw'.gap = sw.gap + 1 /\ Now' = Now /\ sw.gap < gap
  BY DEF Wait, IInv, SwOK, IsSw, Now
<1>3. ReadInv /\ sw.todo \in Seq(Ops \ Setup)
  BY DEF UartInv, SetupInv
<1>4. ASSUME Filling PROVE FillsOn
  <2>1. Now \in LoadOps
    BY <1>4 DEF Filling
  <2>2. /\ sw.pace \in Nat /\ sw.pace > 1 /\ sw.gap \in Nat /\ sw.gap >= 1
        /\ gap = (IF Now \in {"timeout_high", "test_high"} THEN 1 ELSE sw.pace)
        /\ slack \in Nat
    BY <2>1, TimesOfLoad
  <2>3. slack <= 3 * sw.pace + 1
    BY <2>2 DEF Slack
  <2>4. TimeLeft = gap - sw.gap + 1 + slack
    BY DEF TimeLeft
  <2>5. TimeLeft' = gap - (sw.gap + 1) + 1 + slack
    <3>1. Gap(Now)' = gap /\ Slack' = slack
      BY <1>2 DEF Gap, Slack
    <3> QED
      BY <1>2, <3>1 DEF TimeLeft
  <2> DEFINE left == TimeLeft  after == TimeLeft'
  <2>6. left = gap - sw.gap + 1 + slack /\ after = gap - (sw.gap + 1) + 1 + slack
    BY <2>4, <2>5
  <2> HIDE DEF gap, slack, left, after
  <2>7. after \in Nat /\ after <= 4 * sw.pace + 1 /\ after <= left - 1
    BY <1>2, <2>2, <2>3, <2>6
  <2>8. Now' = "uart_get" => uart_regs.rxne
    BY <1>2, <1>3, <1>4 DEF ReadInv
  <2> QED
    BY <1>2, <1>4, <2>7, <2>8 DEF FillsOn, left, after
<1>5. loader.source = "uart" => loader'.source = "uart" /\ (Filling' => FillsOn)
  BY <1>2, <1>4 DEF Filling
<1>6. Listens(a)
  BY <1>1, <1>2, <1>3, <1>5 DEF Listens
<1> QED
  BY <1>6

(* A step of main, after the constructor.                                  *)
LEMMA MainListens ==
    ASSUME IInv, BInv, UartInv, Now \notin Setup, MainStep
    PROVE  \E a : Listens(a)
<1>1. PICK port, access, ops : MainPuts(port, access, ops)
  BY MainShape DEF IInv, BInv
<1> DEFINE a == IF port = "uart" THEN access ELSE Spim!None
<1>2. UartTurn(a)
  BY <1>1, UartPart DEF MainPuts
<1>3. Calm(a)
  <2>1. CASE port # "uart"
    BY <2>1, CalmOnes
  <2>2. CASE port = "uart"
    BY <1>1, <2>2, CalmOnes DEF MainPuts, Steady
  <2> QED
    BY <2>1, <2>2
<1>4. /\ Now \in MainOps /\ loader' = loader /\ Now' \in MainOps \cup {"jump"}
  BY MainGoesOn DEF IInv
<1>5. sw'.todo \in Seq(Ops \ Setup)
  <2>1. Now # "jump" /\ sw.todo \in Seq(Ops \ Setup)
    BY <1>4 DEF MainOps, UartInv, SetupInv
  <2>2. ops \in Seq(Ops \ Setup) /\ sw'.todo = ops \o Tail(sw.todo)
    BY <1>1, LaterAreOps DEF MainPuts
  <2> QED
    BY <2>1, <2>2, GoesOnLater DEF IInv
<1>6. ~Filling'
  BY <1>4 DEF Filling, LoadOps, MainOps, SpiOps, UartOps
<1> HIDE DEF a
<1>7. Listens(a)
  BY <1>2, <1>3, <1>4, <1>5, <1>6 DEF Listens
<1> QED
  BY <1>7

(* The operation that follows one of the load over the UART.               *)
Follows(op) ==
    \/ Now = "timeout_high" /\ op = "uart_poll"
    \/ Now = "uart_poll" /\ op = (IF uart_regs.rxne THEN "uart_ask" ELSE "test_low")
    \/ Now = "test_low" /\ op = "test_high"
    \/ Now = "test_high" /\ op \in {"uart_poll", "uart_ask"}
    \/ Now = "uart_ask" /\ uart_regs.rxne /\ op = "uart_get"
    \/ Now = "store" /\ op = "uart_poll"

(* It comes back to the receiver in time.                                  *)
LEMMA ComesBack ==
    ASSUME IInv, BInv, loader.source = "uart", sw.gap = Gap(Now), NEW op,
           Follows(op), Do(<<op>>),
           \/ loader'.i = loader.i /\ loader'.bytes = loader.bytes /\ Now # "store"
           \/ loader'.i = loader.i + 1 /\ loader'.bytes = <<>> /\ Now = "store"
    PROVE  FillsOn
<1>1. op \in Ops /\ op # "store" /\ Now # "jump" /\ Now \in LoadOps /\ Filling
  BY DEF Follows, Ops, UartOps, LoadOps, Filling
<1>2. sw'.gap = 1 /\ sw'.pace = sw.pace /\ Now' = op
  BY <1>1, GoesTo DEF IInv
<1> DEFINE left == TimeLeft  after == TimeLeft'
<1>3. sw.pace \in Nat /\ sw.pace > 1 /\ left = 1 + Slack
  BY <1>1, TimesOfLoad
<1>4. /\ op = "test_high" => after = 1 + Slack'
      /\ op \in {"uart_poll", "uart_ask", "uart_get", "test_low"} =>
             after = sw.pace + Slack'
      /\ Slack' = CASE op = "uart_get" -> 0
                    [] op = "uart_ask" -> sw.pace
                    [] op = "uart_poll" -> 2 * sw.pace
                    [] op = "test_low" -> 3 * sw.pace + 1
                    [] OTHER -> 3 * sw.pace
  BY <1>2, TimesThen
<1> DEFINE next == Slack'
<1>5. Slack = CASE Now = "uart_get" -> 0
                [] Now = "uart_ask" -> sw.pace
                [] Now = "uart_poll" -> 2 * sw.pace
                [] Now = "test_low" -> 3 * sw.pace + 1
                [] OTHER -> 3 * sw.pace
  BY DEF Slack
<1> HIDE DEF left, after, next
<1>6. /\ after \in Nat /\ after <= 4 * sw.pace + 1
      /\ uart_regs.rxne => after <= left - 1
  <2>1. CASE Now \in {"timeout_high", "test_high", "store"} /\ op = "uart_poll"
    BY <1>3, <1>4, <1>5, <2>1 DEF next
  <2>2. CASE Now = "test_high" /\ op = "uart_ask"
    BY <1>3, <1>4, <1>5, <2>2 DEF next
  <2>3. CASE Now = "uart_poll" /\ op = "uart_ask"
    BY <1>3, <1>4, <1>5, <2>3 DEF next
  <2>4. CASE Now = "uart_poll" /\ op = "test_low" /\ ~uart_regs.rxne
    BY <1>3, <1>4, <1>5, <2>4 DEF next
  <2>5. CASE Now = "test_low" /\ op = "test_high"
    BY <1>3, <1>4, <1>5, <2>5 DEF next
  <2>6. CASE Now = "uart_ask" /\ op = "uart_get"
    BY <1>3, <1>4, <1>5, <2>6 DEF next
  <2> QED
    BY <2>1, <2>2, <2>3, <2>4, <2>5, <2>6 DEF Follows
<1>7. Now' = "uart_get" => uart_regs.rxne
  BY <1>2 DEF Follows
<1>8. Now' # "store"
  BY <1>1, <1>2
<1> QED
  BY <1>1, <1>2, <1>6, <1>7, <1>8 DEF FillsOn, left, after

(* A step of a load that takes no byte out of the UART.                    *)
LEMMA LoadListens ==
    ASSUME IInv, BInv, UartInv, NEW a, UartTurn(a), Calm(a),
           Now # "jump", Now \notin Setup, NEW ops \in Seq(Ops \ Setup), Do(ops),
           loader.source = "uart" => loader'.source = "uart" /\ (Filling' => FillsOn),
           loader.source # "uart" /\ loader'.source = "uart" =>
               /\ loader.source = "none" /\ Now' = "timeout_high"
               /\ loader'.i = loader.i /\ loader'.bytes = loader.bytes
    PROVE  Listens(a)
<1>1. sw.todo \in Seq(Ops \ Setup)
  BY DEF UartInv, SetupInv
<1>2. sw'.todo = ops \o Tail(sw.todo)
  BY DEF Do, IInv, SwOK, IsSw
<1>3. sw'.todo \in Seq(Ops \ Setup)
  BY <1>1, <1>2, GoesOnLater DEF IInv
<1> QED
  BY <1>3 DEF Listens

(* Which the steps are.                                                    *)
LEMMA LoaderListens ==
    ASSUME IInv, BInv, UartInv, LoaderStep, ~GetUart
    PROVE  \E a : Listens(a)
<1> DEFINE Good == \E a : Listens(a)
<1> SUFFICES Good
  OBVIOUS
<1>1. SwOK /\ LoaderOK /\ OpsInv
  BY DEF IInv
<1>2. \A op \in Ops \ Setup : <<op>> \in Seq(Ops \ Setup)
  <2> DEFINE later == Ops \ Setup
  <2>1. \A op \in later : <<op>> \in Seq(later)
    <3> HIDE DEF later
    <3> QED
      OBVIOUS
  <2> QED
    BY <2>1
<1>3. <<>> \in Seq(Ops \ Setup)
  BY EmptySeq
<1>4. /\ LoadOps \subseteq Ops \ Setup /\ "jump" \notin LoadOps
      /\ {"store"} \cup UartOps \cup {"spi_divider"} \cup SpiOps = LoadOps
      /\ "spi" \notin Setup /\ "uart" \notin Setup
      /\ {"spi_divider", "spi_write", "spi_poll", "spi_get", "store", "timeout_high",
          "uart_poll", "test_low", "test_high", "uart_ask", "uart_get"} \subseteq LoadOps
  BY DEF LoadOps, SpiOps, UartOps, Ops, MainOps, Setup
<1>5. Calm(Spim!None) /\ Calm(Uartm!ReadReg("sr"))
  BY CalmOnes
<1>6. /\ NoAccess => UartTurn(Spim!None)
      /\ \A access : Bus("spi", access) => UartTurn(Spim!None)
      /\ \A access : Bus("uart", access) => UartTurn(access)
  BY UartPart DEF NoAccess
(* Into the load over the flash, and within it. *)
<1>7. ASSUME UartTurn(Spim!None), loader.source # "uart", loader'.source # "uart",
             Now # "jump", Now \notin Setup, NEW op \in LoadOps, Do(<<op>>)
      PROVE  Good
  <2>1. <<op>> \in Seq(Ops \ Setup)
    BY <1>2, <1>4
  <2> DEFINE ops == <<op>>
  <2>2. ops \in Seq(Ops \ Setup) /\ Do(ops)
    BY <1>7, <2>1
  <2> HIDE DEF ops
  <2>3. Listens(Spim!None)
    BY <1>5, <1>7, <2>2, LoadListens
  <2> QED
    BY <2>3
(* To an operation that follows in the load over the UART. *)
<1>8. ASSUME NEW a, UartTurn(a), Calm(a), loader.source = "uart",
             loader'.source = "uart", sw.gap = Gap(Now),
             NEW op, Follows(op), Do(<<op>>),
             \/ loader'.i = loader.i /\ loader'.bytes = loader.bytes /\ Now # "store"
             \/ loader'.i = loader.i + 1 /\ loader'.bytes = <<>> /\ Now = "store"
      PROVE  Good
  <2>1. FillsOn
    BY <1>8, ComesBack
  <2>2. Now # "jump" /\ Now \notin Setup /\ op \in LoadOps
    BY <1>4, <1>8 DEF Follows, Setup
  <2>3. <<op>> \in Seq(Ops \ Setup)
    BY <1>2, <1>4, <2>2
  <2> DEFINE ops == <<op>>
  <2>4. ops \in Seq(Ops \ Setup) /\ Do(ops)
    BY <1>8, <2>3
  <2> HIDE DEF ops
  <2>5. Listens(a)
    BY <1>8, <2>1, <2>2, <2>4, LoadListens
  <2> QED
    BY <2>5
(* To the end of a load. *)
<1>9. ASSUME NEW a, UartTurn(a), Calm(a), loader'.source = loader.source,
             Now \in LoadOps, Do(<<>>)
      PROVE  Good
  <2>1. Now # "jump" /\ Now \notin Setup
    BY <1>4, <1>9
  <2>2. Now' \in MainOps \cup {"jump"}
    <3>1. <<>> \in Seq(MainOps)
      BY EmptySeq
    <3> QED
      BY <1>1, <1>9, <2>1, <3>1, DoesGoOn
  <2>3. ~Filling'
    BY <2>2 DEF Filling, LoadOps, MainOps, SpiOps, UartOps
  <2>4. Listens(a)
    BY <1>3, <1>9, <2>1, <2>3, LoadListens
  <2> QED
    BY <2>4
<1> HIDE DEF Good
<1>10. CASE Store
  <2>1. /\ Now = "store" /\ sw.gap = Gap(Now) /\ UartTurn(Spim!None)
        /\ loader'.source = loader.source
        /\ loader'.i = loader.i + 1 /\ loader'.bytes = <<>>
        /\ loader.source \in {"spi", "uart"}
    BY <1>1, <1>6, <1>10 DEF Store, At, OpsInv, LoaderOK
  <2>2. CASE loader.i + 1 = CodeWords
    <3>1. Do(<<>>)
      BY <1>10, <2>2 DEF Store, Return
    <3> QED
      BY <1>4, <1>5, <1>9, <2>1, <3>1
  <2>3. CASE loader.i + 1 # CodeWords /\ loader.source = "spi"
    <3>1. Do(<<"spi_write">>)
      BY <1>10, <2>3 DEF Store
    <3> QED
      BY <1>4, <1>7, <2>1, <2>3, <3>1
  <2>4. CASE loader.i + 1 # CodeWords /\ loader.source = "uart"
    <3>1. Do(<<"uart_poll">>)
      BY <1>10, <2>4 DEF Store
    <3>2. Follows("uart_poll")
      BY <2>1 DEF Follows
    <3> QED
      BY <1>5, <1>8, <2>1, <2>4, <3>1, <3>2
  <2> QED
    BY <2>1, <2>2, <2>3, <2>4
<1>11. ASSUME Now \in {"spi", "uart"} PROVE loader.source = "none" /\ Now # "jump"
  <2>1. Now # "jump" /\ Now \in Starters
    BY <1>11 DEF Starters
  <2> QED
    BY <1>1, <2>1, NowComesFirst DEF BInv, LoadInv
<1>12. CASE SetPhase
  <2>1. /\ Now = "spi" /\ UartTurn(Spim!None) /\ Do(<<"spi_divider">>)
        /\ loader'.source = "spi"
    BY <1>1, <1>6, <1>12, LoaderFields DEF SetPhase, At
  <2> QED
    BY <1>4, <1>7, <1>11, <2>1
<1>13. ASSUME Now \in SpiOps \cup {"spi_divider"}, UartTurn(Spim!None),
              loader'.source = loader.source, NEW op \in LoadOps, Do(<<op>>)
       PROVE  Good
  BY <1>1, <1>4, <1>7, <1>13 DEF OpsInv
<1>14. CASE SetSpiDivider
  BY <1>4, <1>6, <1>13, <1>14 DEF SetSpiDivider, At
<1>15. CASE WriteSpi
  BY <1>4, <1>6, <1>13, <1>15 DEF WriteSpi, At, SpiOps
<1>16. CASE PollSpi
  BY <1>4, <1>6, <1>13, <1>16 DEF PollSpi, At, SpiOps
<1>17. CASE GetSpi
  <2>1. PICK op \in {"store", "spi_write"} : Do(<<op>>)
    BY <1>17 DEF GetSpi, AfterByte
  <2>2. loader'.source = loader.source
    BY <1>1, <1>17 DEF GetSpi, Taken, LoaderOK
  <2> QED
    BY <1>4, <1>6, <1>13, <1>17, <2>1, <2>2 DEF GetSpi, At, SpiOps
<1>18. ASSUME NEW op, NEW next, ReadLow(op, next)
       PROVE  /\ loader'.source = "uart" /\ loader'.i = loader.i
              /\ loader'.bytes = loader.bytes /\ Do(<<next>>)
              /\ Now = op /\ sw.gap = Gap(op) /\ UartTurn(Spim!None)
  <2>1. PICK low, began :
            loader' = [loader EXCEPT !.low = low, !.source = "uart", !.began = began]
    BY <1>18 DEF ReadLow
  <2>2. loader' = [source |-> "uart", i |-> loader.i, bytes |-> loader.bytes,
                   low |-> low, timeout |-> loader.timeout,
                   began |-> began, result |-> loader.result]
    BY <1>1, <2>1, BegunFields
  <2> QED
    BY <1>6, <1>18, <2>2 DEF ReadLow, At
<1>19. CASE ReadLow("uart", "timeout_high")
  <2>1. /\ loader'.source = "uart" /\ loader'.i = loader.i
        /\ loader'.bytes = loader.bytes /\ Do(<<"timeout_high">>)
        /\ Now = "uart" /\ UartTurn(Spim!None)
    BY <1>18, <1>19
  <2>2. loader.source = "none" /\ Now # "jump" /\ Now \notin Setup
    BY <1>4, <1>11, <2>1
  <2>3. "timeout_high" \in Ops /\ <<"timeout_high">> \in Seq(Ops \ Setup)
    BY <1>2, <1>4
  <2>4. Now' = "timeout_high"
    BY <1>1, <2>1, <2>2, <2>3, GoesTo
  <2>5. Listens(Spim!None)
    BY <1>5, <2>1, <2>2, <2>3, <2>4, LoadListens
  <2> QED
    BY <2>5 DEF Good
<1>20. CASE ReadLow("test_low", "test_high")
  <2>1. /\ loader'.source = "uart" /\ loader'.i = loader.i
        /\ loader'.bytes = loader.bytes /\ Do(<<"test_high">>)
        /\ Now = "test_low" /\ sw.gap = Gap(Now) /\ UartTurn(Spim!None)
    BY <1>18, <1>20
  <2>2. loader.source = "uart" /\ Follows("test_high")
    BY <1>1, <2>1 DEF OpsInv, UartOps, Follows
  <2> QED
    BY <1>5, <1>8, <2>1, <2>2
<1>21. CASE SetTimeout
  <2>1. /\ Now = "timeout_high" /\ sw.gap = Gap(Now) /\ UartTurn(Spim!None)
        /\ loader'.source = loader.source /\ loader'.i = loader.i
        /\ loader'.bytes = loader.bytes /\ Do(<<"uart_poll">>)
    BY <1>1, <1>6, <1>21, LoaderFields DEF SetTimeout, At
  <2>2. loader.source = "uart" /\ Follows("uart_poll")
    BY <1>1, <2>1 DEF OpsInv, UartOps, Follows
  <2> QED
    BY <1>5, <1>8, <2>1, <2>2
<1>22. CASE PollUart
  <2> DEFINE op == IF uart_regs.rxne THEN "uart_ask" ELSE "test_low"
  <2>1. /\ Now = "uart_poll" /\ sw.gap = Gap(Now)
        /\ UartTurn(Uartm!ReadReg("sr")) /\ loader' = loader
    BY <1>6, <1>22 DEF PollUart, At
  <2>2. Do(<<op>>)
    BY <1>22 DEF PollUart
  <2>3. loader.source = "uart" /\ Follows(op)
    BY <1>1, <2>1 DEF OpsInv, UartOps, Follows
  <2> HIDE DEF op
  <2> QED
    BY <1>5, <1>8, <2>1, <2>2, <2>3
<1>23. CASE TestTimeout
  <2>1. PICK op \in {"uart_poll", "uart_ask"} : Do(<<op>>)
    BY <1>23 DEF TestTimeout
  <2>2. /\ Now = "test_high" /\ sw.gap = Gap(Now)
        /\ UartTurn(Spim!None) /\ loader' = loader
    BY <1>6, <1>23 DEF TestTimeout, At
  <2>3. loader.source = "uart" /\ Follows(op)
    BY <1>1, <2>1, <2>2 DEF OpsInv, UartOps, Follows
  <2> QED
    BY <1>5, <1>8, <2>1, <2>2, <2>3
<1>24. CASE AskAgain
  <2>1. /\ Now = "uart_ask" /\ sw.gap = Gap(Now)
        /\ UartTurn(Uartm!ReadReg("sr"))
        /\ loader'.source = loader.source /\ loader'.i = loader.i
        /\ loader'.bytes = loader.bytes
    BY <1>1, <1>6, <1>24, LoaderFields DEF AskAgain, At
  <2>2. CASE uart_regs.rxne
    <3>1. Do(<<"uart_get">>)
      BY <1>24, <2>2 DEF AskAgain
    <3>2. loader.source = "uart" /\ Follows("uart_get")
      BY <1>1, <2>1, <2>2 DEF OpsInv, UartOps, Follows
    <3> QED
      BY <1>5, <1>8, <2>1, <3>1, <3>2
  <2>3. CASE ~uart_regs.rxne
    <3>1. Do(<<>>)
      BY <1>24, <2>3 DEF AskAgain
    <3> QED
      BY <1>4, <1>5, <1>9, <2>1, <3>1
  <2> QED
    BY <2>2, <2>3
<1> QED
  BY <1>10, <1>12, <1>14, <1>15, <1>16, <1>17, <1>19, <1>20, <1>21, <1>22, <1>23,
     <1>24 DEF LoaderStep

(* In the beginning the host is silent and the UART has just been reset.   *)
LEMMA UartStarts ==
    ASSUME BootInit
    PROVE  UartInv
<1>1. PICK sent \in Sent, pause \in Pauses :
          Host!Starts([n \in 1 .. sent |-> HostByte(n)], BitTime,
                      IF sent = 0 THEN 0 ELSE 1 + pause)
  BY DEF BootInit
<1>2. PICK pace \in Paces :
          sw = [todo |-> <<"uart_divider", "uart_enable">>, gap |-> 1,
                pace |-> pace, mtvec |-> "boot_rom"]
  BY DEF BootInit
<1>3. /\ sw.todo = <<"uart_divider", "uart_enable">>
      /\ Now = "uart_divider" /\ loader.source = "none"
  BY <1>2 DEF BootInit, Now
<1> DEFINE line == [n \in 1 .. sent |-> HostByte(n)]
<1>4. /\ host.line = line /\ host.queue = line /\ host.bit_time = BitTime
      /\ host.slot = -1
  BY <1>1 DEF Host!Starts
<1>5. sent \in Nat
  BY BootAssumption
<1>6. Len(line) = sent /\ \A n \in 1 .. sent : line[n] = HostByte(n)
  BY <1>5
<1> HIDE DEF line
<1>7. HostInv
  <2>1. Host!Ordered
    BY <1>4, <1>5, <1>6 DEF Host!Ordered
  <2> QED
    BY <1>4, <1>6, <2>1 DEF HostInv
<1>8. AtEase
  BY <1>4 DEF AtEase, BootInit, Uartm!UartInit, Uartm!Rx!Init
<1>9. SetupInv
  <2>1. Begun
    BY <1>3 DEF Begun, BootInit, Uartm!UartInit, Uartm!Clock!Init
  <2> QED
    BY <1>3, <2>1 DEF SetupInv, Setup
<1>10. RxInv /\ ReadInv
  BY <1>3, <1>8 DEF RxInv, ReadInv, Filling
<1> QED
  BY <1>7, <1>9, <1>10 DEF UartInv

(* Every cycle keeps the invariant of the load over the UART.              *)
LEMMA UartHolds ==
    ASSUME IInv, BInv, UartInv, [BootNext]_loadervars
    PROVE  UartInv'
<1>1. BInv'
  BY BInvHolds
<1>2. CASE UNCHANGED loadervars
  <2> USE <1>2 DEF loadervars, hwvars
  <2>1. Now' = Now /\ Gap(Now)' = Gap(Now)
    BY DEF Now, Gap
  <2>2. HostInv'
    BY DEF UartInv, HostInv, Host!Ordered
  <2>3. SetupInv'
    BY <2>1 DEF UartInv, SetupInv, Begun, Uartm!RunsWith
  <2>4. /\ Uartm!RxLeft(UartDivider)' = Uartm!RxLeft(UartDivider)
        /\ Uartm!EdgeIn(UartDivider)' = Uartm!EdgeIn(UartDivider)
        /\ Uartm!RxSlot' = Uartm!RxSlot
    BY DEF Uartm!RxLeft, Uartm!EdgeIn, Uartm!LeftOf, Uartm!RxSlot
  <2>5. /\ Uartm!Past(UartDivider)' = Uartm!Past(UartDivider)
        /\ Uartm!BitsTaken(UartDivider)' = Uartm!BitsTaken(UartDivider)
    BY <2>4 DEF Uartm!Past, Uartm!BitsTaken
  <2>6. /\ Uartm!RxTook(host, UartDivider)' = Uartm!RxTook(host, UartDivider)
        /\ Uartm!QuietFor(UartDivider)' = Uartm!QuietFor(UartDivider)
    BY <2>4, <2>5 DEF Uartm!RxTook, Uartm!QuietFor
  <2>7. RxInv'
    <3>1. Uartm!RxFollows(host, UartDivider) => Uartm!RxFollows(host, UartDivider)'
      BY <2>4 DEF Uartm!RxFollows
    <3>2. Uartm!RxBits(host, UartDivider) => Uartm!RxBits(host, UartDivider)'
      BY <2>5 DEF Uartm!RxBits
    <3>3. AtEase => AtEase'
      BY DEF AtEase
    <3> QED
      BY <3>1, <3>2, <3>3 DEF UartInv, RxInv
  <2>8. ReadInv'
    <3>1. TimeLeft' = TimeLeft /\ Placed' = Placed /\ Unread' = Unread
          /\ (Filling' <=> Filling)
      BY <2>1 DEF TimeLeft, Slack, Placed, Unread, Filling
    <3> QED
      BY <2>1, <2>6, <3>1 DEF UartInv, ReadInv
  <2> QED
    BY <2>2, <2>3, <2>7, <2>8 DEF UartInv
<1>3. CASE Wait
  BY <1>1, <1>3, WaitingSetsUp, WaitListens, ListensOn
<1>4. CASE LoaderStep
  BY <1>1, <1>4, TakingReads, LoaderListens, ListensOn
<1>5. CASE SetUartDivider
  BY <1>5, DividerSetsUp
<1>6. CASE EnableUart
  BY <1>6, EnableSetsUp
<1>7. CASE MainStep /\ ~SetUartDivider /\ ~EnableUart
  <2>1. Now \notin Setup
    <3>1. /\ "uart_divider" \notin {"say", "said", "skip", "source", "uart_result",
                 "direct", "light", "dark", "delay", "again", "mtvec"}
          /\ "uart_enable" \notin {"say", "said", "skip", "source", "uart_result",
                 "direct", "light", "dark", "delay", "again", "mtvec"}
      OBVIOUS
    <3>2. Now \in {"say", "said", "skip", "source", "uart_result", "direct", "light",
                   "dark", "delay", "again", "mtvec"}
      BY <1>7 DEF MainStep, SayByte, UartWrite, PollTransmitter, Skip, Source, ReadPin,
         CheckResult, SetDirection, SetStatusPin, ClearStatusPin, GpioWrite, Delay,
         BlinkAgain, SetTrapVector, At
    <3> QED
      BY <3>1, <3>2 DEF Setup
  <2> QED
    BY <1>1, <1>7, <2>1, MainListens, ListensOn
<1> QED
  BY <1>2, <1>3, <1>4, <1>5, <1>6, <1>7 DEF BootNext, MainStep, Running

(* The four bytes make the word of the image.                              *)
LEMMA WordOfImage ==
    ASSUME BInv, WordInv, Now = "store", loader.source = "spi"
    PROVE  loader.i \in 0 .. CodeWords - 1 /\ Word = FlashImage[loader.i]
<1>1. loader.i \in 0 .. CodeWords - 1
  <2>1. loader.i \in 0 .. CodeWords /\ loader.i < CodeWords
    BY DEF BInv, LoadInv, LoadOps
  <2> QED
    BY <2>1, BootAssumption
<1>2. loader.i \in DOMAIN FlashImage
  BY <1>1, FlashAssumption
<1>3. FlashImage[loader.i] = [j \in 0 .. 3 |-> FlashImage[loader.i][j]]
  BY <1>2, BootAssumption
<1>4. \A j \in 1 .. 4 : loader.bytes[j] = FlashImage[loader.i][j - 1]
  BY DEF WordInv
<1>5. \A j \in 0 .. 3 : loader.bytes[j + 1] = FlashImage[loader.i][j]
  <2> TAKE j \in 0 .. 3
  <2>1. j + 1 \in 1 .. 4 /\ (j + 1) - 1 = j
    OBVIOUS
  <2> QED
    BY <1>4, <2>1
<1> QED
  BY <1>1, <1>3, <1>5 DEF Word

(* The bytes of the host, four of them a word.                             *)
LEMMA ByteOfWord ==
    ASSUME NEW n \in Nat, NEW j \in 0 .. 3
    PROVE  HostByte(4 * n + (j + 1)) = HostImage[n][j]
<1> DEFINE k == 4 * n + (j + 1)
<1>1. (k - 1) \div 4 = n /\ (k - 1) % 4 = j
  OBVIOUS
<1>2. HostByte(k) = HostImage[(k - 1) \div 4][(k - 1) % 4]
  BY DEF HostByte
<1> HIDE DEF k
<1>3. HostByte(k) = HostImage[n][j]
  BY <1>1, <1>2
<1> QED
  BY <1>3 DEF k

(* The four bytes that came over the UART make the word that was sent.     *)
LEMMA WordOfHost ==
    ASSUME BInv, UartInv, Now = "store", loader.source = "uart"
    PROVE  Word = HostImage[loader.i]
<1> DEFINE n == loader.i
<1>1. n \in 0 .. CodeWords - 1 /\ n \in Nat /\ Now \in LoadOps
  <2>1. loader.i \in 0 .. CodeWords /\ loader.i < CodeWords /\ Now \in LoadOps
    BY DEF BInv, LoadInv, LoadOps
  <2> QED
    BY <2>1, BootAssumption
<1>2. /\ Len(loader.bytes) = 4
      /\ \A j \in 1 .. Len(loader.bytes) : loader.bytes[j] = HostByte(4 * loader.i + j)
  BY <1>1 DEF UartInv, ReadInv, Filling
<1>3. HostImage[n] = [j \in 0 .. 3 |-> HostImage[n][j]]
  BY <1>1, HostAssumption
<1>4. \A j \in 0 .. 3 : loader.bytes[j + 1] = HostImage[n][j]
  <2> TAKE j \in 0 .. 3
  <2>1. j + 1 \in 1 .. 4
    OBVIOUS
  <2>2. loader.bytes[j + 1] = HostByte(4 * n + (j + 1))
    BY <1>2, <2>1
  <2> QED
    BY <1>1, <2>2, ByteOfWord
<1> QED
  BY <1>3, <1>4 DEF Word

(* The bootloader does what CodeLoading promises: the words that it puts   *)
(* into the code RAM are those of the chosen source, bit by bit and in     *)
(* their order.  The flash sees each edge of the clock late and turns to   *)
(* the next byte only when it is let go; the host sends at a clock of its  *)
(* own and never waits for the loader, which must be at the receiver in    *)
(* time.  This holds for every image, every divider that the assumptions   *)
(* allow, every pace and any number of words.                              *)
THEOREM CodeIsLoaded == BootSpec => ImplementsLoading
<1> DEFINE Inv == IInv /\ BInv /\ CtlInv /\ DataInv /\ UartInv
<1>1. ASSUME BootInit PROVE Inv /\ Loading!Init
  <2>1. IInv /\ BInv /\ CtlInv /\ DataInv /\ UartInv
    BY <1>1, IInvStarts, BInvStarts, CtlStarts, DataStarts, UartStarts
  <2>2. /\ cram = [n \in 0 .. CodeWords - 1 |-> <<>>]
        /\ loader.source = "none" /\ loader.i = 0
        /\ Now = "uart_divider"
    BY <1>1 DEF BootInit, Now
  <2>3. Status = "starting"
    BY <2>2 DEF Status, Jumped, At
  <2>4. (IF SourcePin \in din THEN "uart" ELSE "spi")
            \in DOMAIN [spi |-> FlashImage, uart |-> HostImage]
    OBVIOUS
  <2> QED
    BY <1>1, <2>1, <2>2, <2>3, <2>4 DEF Loading!Init, Loading!Unknown
<1>2. ASSUME Inv, [BootNext]_loadervars PROVE Inv' /\ [Loading!Next]_(Loading!vars)
  <2>1. LoadingGoesOn
    BY <1>2, StepsOfLoading
  <2>2. din' = din
    BY <2>1 DEF LoadingGoesOn, Begins, Stores, GivesUp, Runs, Still
  <2>3. Inv'
    BY <1>2, IInvHolds, BInvHolds, CtlHolds, DataHolds, UartHolds
  <2> USE <2>2
  <2>4. CASE Begins
    <3>1. Loading!Load
      BY <2>4 DEF Begins, Skipping, ChosenSource, Loading!Load
    <3> QED
      BY <2>3, <3>1 DEF Loading!Next
  <2>5. CASE Stores
    <3>1. /\ Status = "loading" /\ loader.source = ChosenSource /\ Now = "store"
          /\ cram' = [cram EXCEPT ![loader.i] = Word]
          /\ loader'.i = loader.i + 1
          /\ Status' = IF loader.i + 1 = CodeWords THEN "loaded" ELSE "loading"
          /\ loader'.source = loader.source
      BY <2>5 DEF Stores
    <3>2. loader.source \in {"spi", "uart"}
      BY <1>2, <3>1 DEF IInv, OpsInv
    <3>3. Word = [spi |-> FlashImage, uart |-> HostImage][loader.source][loader.i]
      <4>1. CASE loader.source = "spi"
        <5>1. Word = FlashImage[loader.i]
          BY <1>2, <3>1, <4>1, WordOfImage DEF DataInv
        <5> QED
          BY <4>1, <5>1
      <4>2. CASE loader.source = "uart"
        <5>1. Word = HostImage[loader.i]
          BY <1>2, <3>1, <4>2, WordOfHost
        <5> QED
          BY <4>2, <5>1
      <4> QED
        BY <3>2, <4>1, <4>2
    <3>4. loader'.i = loader.i + 1
      BY <3>1
    <3>5. Loading!Store
      BY <3>1, <3>3, <3>4 DEF Loading!Store
    <3> QED
      BY <2>3, <3>5 DEF Loading!Next
  <2>6. CASE GivesUp
    <3>1. Loading!GiveUp
      BY <2>6 DEF GivesUp, Still, Loading!GiveUp
    <3> QED
      BY <2>3, <3>1 DEF Loading!Next
  <2>7. CASE Runs
    <3>1. Loading!Run
      BY <2>7 DEF Runs, Still, Skipping, Loading!Run
    <3> QED
      BY <2>3, <3>1 DEF Loading!Next
  <2>8. CASE Status' = Status /\ Still
    BY <2>3, <2>8 DEF Still, Loading!vars
  <2> QED
    BY <2>1, <2>4, <2>5, <2>6, <2>7, <2>8 DEF LoadingGoesOn
<1> QED
  BY <1>1, <1>2, PTL DEF BootSpec, Loading!Spec, ImplementsLoading
=============================================================================
