------------------------------ MODULE DataRam ------------------------------
(***************************************************************************)
(* The data RAM (rtl/soc/memories/data_ram.sv): a RAM that accepts every   *)
(* request at once and answers in the next cycle.                          *)
(***************************************************************************)
EXTENDS Memory

VARIABLE dram

Index == IndexIn(AddressSpace.DATA_RAM)

TypeOK == dram \in [mem : [Index -> Word], rdata : Word, rvalid : BOOLEAN]

Init == dram \in [mem : [Index -> Word], rdata : {Zero}, rvalid : {FALSE}]

DataGnt(d) == d.req

Serve(d) ==
    /\ DataGnt(d)
    /\ dram' = [mem |-> Written(dram.mem, d), rdata |-> Read(dram.mem, d),
                rvalid |-> TRUE]

Rest(d) ==
    /\ ~d.req
    /\ dram' = [dram EXCEPT !.rvalid = FALSE]

Step(d) == Serve(d) \/ Rest(d)

Reset == dram' = [dram EXCEPT !.rvalid = FALSE]
=============================================================================
