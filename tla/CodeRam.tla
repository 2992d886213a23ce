------------------------------ MODULE CodeRam ------------------------------
(***************************************************************************)
(* The code RAM (rtl/soc/memories/code_ram.sv): one single-ported RAM      *)
(* behind a data and an instruction port.  The data port wins; both ports  *)
(* show the same rdata register, and rvalid tells them apart.              *)
(***************************************************************************)
EXTENDS Memory

VARIABLE cram

Index == IndexIn(AddressSpace.CODE_RAM)

TypeOK == cram \in [mem : [Index -> Word], rdata : Word,
                    drvalid : BOOLEAN, irvalid : BOOLEAN]

(* Power-up contents are arbitrary. *)
Init == cram \in [mem : [Index -> Word], rdata : {Zero},
                  drvalid : {FALSE}, irvalid : {FALSE}]

DataGnt(d)        == d.req
(* Faulty variant, for the mutation runs: grants although the data wins.   *)
InstrGnt_Always(d, ireq) == ireq
InstrGnt(d, ireq) == ~d.req /\ ireq

(* Faulty variant, for the mutation runs: the byte enables are ignored.    *)
ServeData_AllLanes(d) ==
    /\ DataGnt(d)
    /\ cram' = [mem |-> Written(cram.mem, [d EXCEPT !.be = Lane]),
                rdata |-> Read(cram.mem, d), drvalid |-> TRUE, irvalid |-> FALSE]

ServeData(d) ==
    /\ DataGnt(d)
    /\ cram' = [mem |-> Written(cram.mem, d), rdata |-> Read(cram.mem, d),
                drvalid |-> TRUE, irvalid |-> FALSE]

ServeInstr(d, ireq, iaddr) ==
    /\ InstrGnt(d, ireq)
    /\ cram' = [cram EXCEPT !.rdata = cram.mem[WordIndex(iaddr)],
                            !.drvalid = FALSE, !.irvalid = TRUE]

(* Faulty variant, for the mutation runs: rvalid is not cleared.           *)
Rest_KeepsValid(d, ireq) ==
    /\ ~d.req /\ ~ireq
    /\ cram' = cram

Rest(d, ireq) ==
    /\ ~d.req /\ ~ireq
    /\ cram' = [cram EXCEPT !.drvalid = FALSE, !.irvalid = FALSE]

Step(d, ireq, iaddr) ==
    \/ ServeData(d)
    \/ ServeInstr(d, ireq, iaddr)
    \/ Rest(d, ireq)

Reset == cram' = [cram EXCEPT !.drvalid = FALSE, !.irvalid = FALSE]
=============================================================================
