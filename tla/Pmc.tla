-------------------------------- MODULE Pmc --------------------------------
(***************************************************************************)
(* The pixel matrix controller (rtl/soc/peripherals/pmc/pmc.sv): its       *)
(* registers, the coprocessor with its code RAM, and the transmitter and   *)
(* the receiver that shift a row of bits into the matrix and out of it.    *)
(* One step is one clock cycle, with at most one access of the bus.  All   *)
(* columns shift together, so one column stands for the 32 of them.  The   *)
(* external gate and strobe lines are left at the coprocessor's.           *)
(***************************************************************************)
EXTENDS Pmcc

CONSTANT Data            \* values of a bit: 0 and names for the bits that
                         \* are followed through the shift registers

Bits == 0 .. 15          \* bits of a word of a pixel, the first one last

VARIABLES cr,            \* control register
          pmcc_wtt,      \* the bit of the status register
          ctrls,         \* direct control of the matrix lines
          dout, din,     \* the words to shift in, and shifted out
          din_reg,       \* din as the software reads it, a cycle later
          tx, rx,        \* FSMs of the transmitter and of the receiver
          pm_din,        \* the bit the transmitter shows to the matrix
          code           \* the code RAM

pmcvars == <<pmccvars, cr, pmcc_wtt, ctrls, dout, din, din_reg, tx, rx, pm_din,
             code>>

Cr   == [pmcc_rst_n : BOOLEAN, pmcc_trg : BOOLEAN, direct_ctrl : BOOLEAN]
ShifterState == [state : {"IDLE", "WAITING", "ACTIVE"}, bits_counter : Bits]
Word == [Bits -> Data]

PmcTypeOK ==
    /\ TypeOK
    /\ cr \in Cr
    /\ pmcc_wtt \in BOOLEAN
    /\ ctrls \in 0 .. 63
    /\ dout \in Word /\ din \in Word /\ din_reg \in Word
    /\ tx \in ShifterState /\ rx \in ShifterState
    /\ pm_din \in Data
    /\ code \in [Addr -> Byte]

(* An access of the bus: None, a write of a register with its value, or of *)
(* four bytes of the code RAM at an address.  Reads change nothing here.   *)
None == [reg |-> "none"]
WriteCr(val)       == [reg |-> "cr", val |-> val]
WriteCtrls(val)    == [reg |-> "ctrls", val |-> val]
WriteDout(val)     == [reg |-> "dout", val |-> val]
WriteCode(a, word) == [reg |-> "code", at |-> a, val |-> word]

(* The value a register has after the access. *)
Written(access, reg, old) == IF access.reg = reg THEN access.val ELSE old

-----------------------------------------------------------------------------
(* The lines of the matrix: the coprocessor's or the direct ones. *)
Line(mask) == LET lines == IF cr.direct_ctrl THEN ctrls ELSE matrix_ctrl
              IN  (lines \div mask) % 2 = 1
ClkSh == Line(1)
ShA   == Line(2)
ShB   == Line(4)
Gate  == Line(8)
Store == Line(32)

(* Faulty variant, for the mutation runs: bits are counted past a word.    *)
Shifted_PastWord(s) ==
    CASE s.state = "IDLE" /\ (ShA \/ ShB) -> [s EXCEPT !.state = "WAITING"]
      [] s.state # "IDLE" /\ ClkSh ->
             [state |-> "ACTIVE", bits_counter |-> s.bits_counter + 1]
      [] OTHER -> s

(* The FSM that transmitter and receiver have in common. *)
Shifted(s) ==
    CASE s.state = "IDLE" /\ (ShA \/ ShB) -> [s EXCEPT !.state = "WAITING"]
      [] s.state = "WAITING" /\ ClkSh ->
             [state |-> "ACTIVE", bits_counter |-> (s.bits_counter + 1) % 16]
      [] s.state = "WAITING" /\ ~ClkSh /\ ~(ShA \/ ShB) ->
             [s EXCEPT !.state = "IDLE"]
      [] s.state = "ACTIVE" /\ ClkSh /\ s.bits_counter = 15 ->
             [state |-> "WAITING", bits_counter |-> 0]
      [] s.state = "ACTIVE" /\ ClkSh /\ s.bits_counter # 15 ->
             [s EXCEPT !.bits_counter = @ + 1]
      [] OTHER -> s

(* Faulty variant, for the mutation runs: one bit behind.                  *)
Shown_OneBehind ==
    CASE tx.state # "ACTIVE"           -> dout[15]
      [] tx.state = "ACTIVE" /\ ~ClkSh -> dout[16 - tx.bits_counter]
      [] OTHER                         -> pm_din

Shown ==
    CASE tx.state # "ACTIVE"           -> dout[15]
      [] tx.state = "ACTIVE" /\ ~ClkSh -> dout[15 - tx.bits_counter]
      [] OTHER                         -> pm_din

(* pm_dout_a and pm_dout_b: what the matrix shows. *)
Received(pm_dout_a, pm_dout_b) ==
    LET pm_dout == IF ShA THEN pm_dout_a ELSE pm_dout_b IN
    CASE rx.state = "WAITING" /\ ClkSh -> [din EXCEPT ![15] = pm_dout]
      [] rx.state = "ACTIVE" /\ ClkSh  ->
             [din EXCEPT ![15 - rx.bits_counter] = pm_dout]
      [] OTHER                         -> din

(* Faulty variant, for the mutation runs: the trigger is not taken back.   *)
CrAfter_Sticky(access) == Written(access, "cr", cr)

(* The trigger lasts one cycle, whatever is written in it. *)
CrAfter(access) ==
    LET written == Written(access, "cr", cr) IN
    IF cr.pmcc_trg THEN [written EXCEPT !.pmcc_trg = FALSE] ELSE written

CodeAfter(access) ==
    IF access.reg = "code"
    THEN [a \in Addr |-> IF a \in access.at .. access.at + 3
                         THEN access.val[a - access.at] ELSE code[a]]
    ELSE code

PmcCycle(access, pm_dout_a, pm_dout_b) ==
    /\ cr' = CrAfter(access)
    /\ Step(cr.pmcc_rst_n, cr'.pmcc_rst_n, cr.pmcc_trg, code)
    /\ pmcc_wtt' = Waitt
    /\ ctrls' = Written(access, "ctrls", ctrls)
    /\ dout' = Written(access, "dout", dout)
    /\ din' = Received(pm_dout_a, pm_dout_b) /\ din_reg' = din
    /\ tx' = Shifted(tx) /\ rx' = Shifted(rx)
    /\ pm_din' = Shown
    /\ code' = CodeAfter(access)

PmcInit ==
    /\ cr = [pmcc_rst_n |-> FALSE, pmcc_trg |-> FALSE, direct_ctrl |-> FALSE]
    /\ pmcc_wtt = FALSE
    /\ ctrls = 0
    /\ dout = [k \in Bits |-> 0] /\ din = [k \in Bits |-> 0] /\ din_reg = din
    /\ tx = [state |-> "IDLE", bits_counter |-> 0] /\ rx = tx
    /\ pm_din = 0
    /\ code = [a \in Addr |-> 0]
    /\ Init(code)
=============================================================================
