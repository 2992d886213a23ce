-------------------------------- MODULE Spi --------------------------------
(***************************************************************************)
(* The SPI controller: its registers (rtl/soc/peripherals/spi/spi.sv)      *)
(* around the serial clock generator and the master (spi_master.sv).  One  *)
(* step is one clock cycle, with at most one access of the bus in it.  A   *)
(* byte is a function from the numbers of its bits, which go out and come  *)
(* in with the highest one first.                                          *)
(***************************************************************************)
EXTENDS Integers

CONSTANTS MaxDivider, Bit, DataBits

VARIABLES spi_regs,            \* the fields of cr, sr, tdr, rdr, cdr
          spi_tx_data_valid, spi_clk_divider_valid,
          spi_clock, master

spivars == <<spi_regs, spi_tx_data_valid, spi_clk_divider_valid, spi_clock, master>>

SckGenerator == INSTANCE SerialClock WITH clock <- spi_clock

Byte   == [0 .. DataBits - 1 -> Bit]
Zeros  == [k \in 0 .. DataBits - 1 |-> 0]
Top(b) == b[DataBits - 1]
Shifted(b, in) == [k \in 0 .. DataBits - 1 |-> IF k = 0 THEN in ELSE b[k - 1]]

SpiTypeOK ==
    /\ spi_regs \in [cpol : {0, 1}, cpha : BOOLEAN, txact : BOOLEAN, rxne : BOOLEAN,
                     tdr : Byte, rdr : Byte, cdr : SckGenerator!Divider]
    /\ spi_tx_data_valid \in BOOLEAN /\ spi_clk_divider_valid \in BOOLEAN
    /\ SckGenerator!TypeOK
    /\ master \in [state : {"IDLE", "START", "ACTIVE", "STOP"},
                   bits_counter : 0 .. DataBits, ss : {0, 1}, sck : {0, 1},
                   mosi : Bit, rx_data_valid : BOOLEAN, rx_data : Byte,
                   en : BOOLEAN, tx_buffer : Byte, rx_buffer : Byte,
                   sck_polarity : {0, 1}, sck_phase : BOOLEAN]

-----------------------------------------------------------------------------
(* The master.  rx_data_valid is up for one cycle only.                    *)
leading  == spi_clock.rising_edge
trailing == spi_clock.falling_edge
busy     == master.state # "IDLE"

Becomes(m) == master' = [m EXCEPT !.rx_data_valid = FALSE]

(* IDLE: the mode is taken over, a byte begins.                            *)
Rest ==
    /\ master.state = "IDLE"
    /\ Becomes([master EXCEPT !.state = IF spi_tx_data_valid THEN "START" ELSE "IDLE",
                              !.sck = spi_regs.cpol,
                              !.sck_polarity = spi_regs.cpol,
                              !.sck_phase = spi_regs.cpha])

(* START lasts one cycle.  Without a phase the first bit is out at once.   *)
Start ==
    /\ master.state = "START"
    /\ LET byte == spi_regs.tdr IN
       Becomes([master EXCEPT
                   !.state = "ACTIVE", !.ss = 0, !.en = TRUE, !.rx_buffer = Zeros,
                   !.mosi = IF master.sck_phase THEN @ ELSE Top(byte),
                   !.tx_buffer = IF master.sck_phase THEN byte ELSE Shifted(byte, 0)])

Leading(miso) ==
    /\ master.state = "ACTIVE" /\ leading
    /\ LET m == [master EXCEPT !.bits_counter = (@ + 1) % 16,
                               !.sck = 1 - master.sck_polarity]
       IN  Becomes(IF master.sck_phase
                   THEN [m EXCEPT !.mosi = Top(m.tx_buffer),
                                  !.tx_buffer = Shifted(@, 0)]
                   ELSE [m EXCEPT !.rx_buffer = Shifted(@, miso)])

TrailingEdge(miso) ==
    IF master.sck_phase
    THEN [master EXCEPT !.sck = master.sck_polarity, !.rx_buffer = Shifted(@, miso)]
    ELSE [master EXCEPT !.sck = master.sck_polarity, !.mosi = Top(master.tx_buffer),
                        !.tx_buffer = Shifted(@, 0)]

Trailing(miso) ==
    /\ master.state = "ACTIVE" /\ ~leading /\ trailing
    /\ master.bits_counter # DataBits
    /\ Becomes(TrailingEdge(miso))

(* After the last bit the master waits for another leading edge in STOP.   *)
LastTrailing(miso) ==
    /\ master.state = "ACTIVE" /\ ~leading /\ trailing
    /\ master.bits_counter = DataBits
    /\ LET m == TrailingEdge(miso) IN
       master' = [m EXCEPT !.state = "STOP", !.bits_counter = 0,
                           !.rx_data_valid = TRUE, !.rx_data = m.rx_buffer]

Hold ==
    /\ \/ master.state = "ACTIVE" /\ ~leading /\ ~trailing
       \/ master.state = "STOP" /\ ~leading
    /\ Becomes(master)

Release ==
    /\ master.state = "STOP" /\ leading
    /\ Becomes([master EXCEPT !.state = "IDLE", !.ss = 1, !.en = FALSE])

MasterCycle(miso) ==
    Rest \/ Start \/ Leading(miso) \/ Trailing(miso) \/ LastTrailing(miso) \/ Hold \/ Release

-----------------------------------------------------------------------------
(* An access of the bus: none, the read of a register, or a write with the *)
(* new values of the register's fields.                                    *)
None == [reg |-> "none", we |-> FALSE]
ReadReg(reg) == [reg |-> reg, we |-> FALSE]
WriteReg(reg, fields) == [reg |-> reg, we |-> TRUE, fields |-> fields]

IsWritten(access, reg) == access.we /\ access.reg = reg

Written(access, reg, field) ==
    IF IsWritten(access, reg) THEN access.fields[field] ELSE spi_regs[field]

Rxne(access) ==
    IF master.rx_data_valid THEN TRUE
    ELSE IF access.reg = "rdr" THEN FALSE
    ELSE Written(access, "sr", "rxne")

SpiCycle(access, miso) ==
    /\ spi_regs' = [cpol  |-> Written(access, "cr", "cpol"),
                    cpha  |-> Written(access, "cr", "cpha"),
                    txact |-> busy,
                    rxne  |-> Rxne(access),
                    tdr   |-> Written(access, "tdr", "tdr"),
                    rdr   |-> IF master.rx_data_valid THEN master.rx_data
                              ELSE Written(access, "rdr", "rdr"),
                    cdr   |-> Written(access, "cdr", "cdr")]
    /\ spi_tx_data_valid' = IsWritten(access, "tdr")
    /\ spi_clk_divider_valid' = IsWritten(access, "cdr")
    /\ SckGenerator!Cycle(master.en, spi_clk_divider_valid, spi_regs.cdr)
    /\ MasterCycle(miso)

SpiInit ==
    /\ spi_regs = [cpol |-> 0, cpha |-> FALSE, txact |-> FALSE, rxne |-> FALSE,
                   tdr |-> Zeros, rdr |-> Zeros, cdr |-> 0]
    /\ spi_tx_data_valid = FALSE /\ spi_clk_divider_valid = FALSE
    /\ SckGenerator!Init
    /\ master = [state |-> "IDLE", bits_counter |-> 0, ss |-> 1, sck |-> 0,
                 mosi |-> 0, rx_data_valid |-> FALSE, rx_data |-> Zeros,
                 en |-> FALSE, tx_buffer |-> Zeros, rx_buffer |-> Zeros,
                 sck_polarity |-> 0, sck_phase |-> FALSE]
=============================================================================
