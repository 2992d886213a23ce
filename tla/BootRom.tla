------------------------------ MODULE BootRom ------------------------------
(***************************************************************************)
(* The boot ROM (rtl/soc/memories/boot_rom.sv): one memory behind a data   *)
(* and an instruction port.  A request is accepted only when the ROM is    *)
(* idle, the data port first; the word is read one cycle later and shown   *)
(* with rvalid the cycle after.  `we` is not connected: a write is         *)
(* answered like a read.                                                   *)
(***************************************************************************)
EXTENDS Memory

CONSTANT RomImage      \* contents of boot_mem.sv, by word index

VARIABLE rom

TypeOK ==
    rom \in [ state   : {"IDLE", "DATA_READOUT", "INSTR_READOUT"},
              addr    : Address \cup {0},
              drvalid : BOOLEAN,  drdata : Word,
              irvalid : BOOLEAN,  irdata : Word ]

AfterReset == [ state   |-> "IDLE", addr |-> 0,
                drvalid |-> FALSE,  drdata |-> Zero,
                irvalid |-> FALSE,  irdata |-> Zero ]

Init == rom = AfterReset

(* dreq, ireq: is the data, the instruction request line up in this cycle? *)
DataGnt(dreq)        == rom.state = "IDLE" /\ dreq
InstrGnt(dreq, ireq) == rom.state = "IDLE" /\ ~dreq /\ ireq

Contents(addr) == RomImage[WordIndex(addr)]

AcceptData(dreq, daddr) ==
    /\ DataGnt(dreq)
    /\ rom' = [rom EXCEPT !.state = "DATA_READOUT", !.addr = daddr,
                          !.drvalid = FALSE, !.irvalid = FALSE]

AcceptInstr(dreq, ireq, iaddr) ==
    /\ InstrGnt(dreq, ireq)
    /\ rom' = [rom EXCEPT !.state = "INSTR_READOUT", !.addr = iaddr,
                          !.drvalid = FALSE, !.irvalid = FALSE]

Rest(dreq, ireq) ==
    /\ rom.state = "IDLE" /\ ~dreq /\ ~ireq
    /\ rom' = [rom EXCEPT !.drvalid = FALSE, !.irvalid = FALSE]

(* Faulty variants, for the mutation runs: a readout that does not end,    *)
(* and one that forgets rvalid.                                            *)
DataReadout_Endless ==
    /\ rom.state = "DATA_READOUT"
    /\ rom' = [rom EXCEPT !.drvalid = TRUE, !.drdata = Contents(rom.addr)]
InstrReadout_Silent ==
    /\ rom.state = "INSTR_READOUT"
    /\ rom' = [rom EXCEPT !.state = "IDLE", !.irdata = Contents(rom.addr)]

DataReadout ==
    /\ rom.state = "DATA_READOUT"
    /\ rom' = [rom EXCEPT !.state = "IDLE", !.drvalid = TRUE,
                          !.drdata = Contents(rom.addr)]

InstrReadout ==
    /\ rom.state = "INSTR_READOUT"
    /\ rom' = [rom EXCEPT !.state = "IDLE", !.irvalid = TRUE,
                          !.irdata = Contents(rom.addr)]

Step(dreq, daddr, ireq, iaddr) ==
    \/ AcceptData(dreq, daddr)
    \/ AcceptInstr(dreq, ireq, iaddr)
    \/ Rest(dreq, ireq)
    \/ DataReadout
    \/ InstrReadout

Reset == rom' = AfterReset
=============================================================================
