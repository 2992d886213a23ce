------------------------------ MODULE SpiFlash ------------------------------
(***************************************************************************)
(* The simulation model of the SPI flash                                   *)
(* (rtl/misc/spi_flash_memory/spi_flash_memory.sv, spi_slave.sv): a memory *)
(* that shows one byte per selection, and a slave that shifts it out.      *)
(* Both follow ss in the same way, so that one state stands for the two.   *)
(* What comes in on mosi goes nowhere and is left out.  The FPGA build     *)
(* holds this very memory, and the bootloader reads its program from it.   *)
(***************************************************************************)
EXTENDS EdgeDetector, Integers

CONSTANTS Bit, DataBits, FlashImage    \* words of four bytes

VARIABLE flash

FlashByte == [0 .. DataBits - 1 -> Bit]
Blank == [k \in 0 .. DataBits - 1 |-> 0]

(* The memory looks at twelve bits of an address, which count words; where *)
(* nothing is programmed it shows zeros.                                   *)
FlashSpace == 4096
rdata(addr) ==
    IF addr \in DOMAIN FlashImage THEN FlashImage[addr] ELSE [j \in 0 .. 3 |-> Blank]

FlashTypeOK ==
    flash \in [selected : BOOLEAN, addr : 0 .. FlashSpace - 1, bytes_counter : 0 .. 3,
               tx_data : FlashByte, bits_counter : 0 .. 15,
               miso : Bit, tx_buffer : FlashByte, edges : Synchroniser]

(* The byte to show is chosen while the flash is not selected; the end of  *)
(* a selection moves on to the next one.  The address goes on by four      *)
(* bytes, a word; its upper bits, that nobody looks at, are left out.      *)
Fetched ==
    IF flash.selected THEN flash.tx_data
    ELSE rdata(flash.addr)[flash.bytes_counter]

Deselected(ss) == flash.selected /\ ss = 1

NextAddr(ss) ==
    IF Deselected(ss) /\ flash.bytes_counter = 3
    THEN (flash.addr + 1) % FlashSpace
    ELSE flash.addr

(* Faulty variant, for the mutation runs: the next byte is shown from the  *)
(* start of a selection on.                                                *)
NextByte_Early(ss) ==
    IF ~flash.selected /\ ss = 0 THEN (flash.bytes_counter + 1) % 4
    ELSE flash.bytes_counter

NextByte(ss) ==
    IF Deselected(ss) THEN (flash.bytes_counter + 1) % 4 ELSE flash.bytes_counter

(* The slave: a bit per rising edge, the first one out of the new byte.    *)
Bits(ss) ==
    IF ~flash.selected \/ ss = 1 THEN 0
    ELSE (flash.bits_counter + IF rising(flash.edges) THEN 1 ELSE 0) % 16

Source == IF flash.bits_counter = 0 THEN flash.tx_data ELSE flash.tx_buffer

ShiftsOut == flash.selected /\ rising(flash.edges)

FlashCycle(ss, sck) ==
    flash' = [selected      |-> ss = 0,
              addr          |-> NextAddr(ss),
              bytes_counter |-> NextByte(ss),
              tx_data       |-> Fetched,
              bits_counter  |-> Bits(ss),
              miso          |-> IF ShiftsOut THEN Source[DataBits - 1]
                                ELSE IF flash.selected THEN flash.miso ELSE 0,
              tx_buffer     |-> IF ShiftsOut
                                THEN [k \in 0 .. DataBits - 1 |->
                                         IF k = 0 THEN 0 ELSE Source[k - 1]]
                                ELSE flash.tx_buffer,
              edges         |-> Sampled(flash.edges, sck)]

FlashInit ==
    flash = [selected |-> FALSE, addr |-> 0, bytes_counter |-> 0,
             tx_data |-> Blank, bits_counter |-> 0, miso |-> 0,
             tx_buffer |-> Blank, edges |-> Low]
=============================================================================
