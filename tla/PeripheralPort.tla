--------------------------- MODULE PeripheralPort ---------------------------
(***************************************************************************)
(* The bus side that GPIO, SPI, UART, timer and PMC have in common         *)
(* (rtl/soc/peripherals): a request is granted at once and answered in the *)
(* next cycle, with err when the offset selects no register.  What the     *)
(* registers hold is left to the modules of the peripherals: here a read   *)
(* of an implemented register returns any word.                            *)
(***************************************************************************)
EXTENDS Memory

VARIABLE per

Registers(n) == {4 * k : k \in 0 .. (n - 1)}

(* is_offset_valid of each peripheral. *)
ValidOffset ==
    [ GPIO  |-> Registers(9),
      SPI   |-> Registers(5),
      UART  |-> Registers(5),
      TIMER |-> Registers(4),
      PMC   |-> 0 .. 140 \cup 256 .. 268 \cup {512} \cup 4096 .. 5119 ]

Valid(p, addr) == addr - BaseAddress[p] \in ValidOffset[p]

TypeOK == per \in [Peripherals -> [rvalid : BOOLEAN, err : BOOLEAN, rdata : Word]]

Init == per = [p \in Peripherals |->
                  [rvalid |-> FALSE, err |-> FALSE, rdata |-> Zero]]

(* sel is the peripheral that sees the request d in this cycle, if any.    *)
DataGnt(p, sel) == p = sel

Rest(p) ==
    [per[p] EXCEPT !.rvalid = FALSE, !.err = FALSE]

(* w stands for the contents of the addressed register.                    *)
Serve(p, d, w) ==
    [ rvalid |-> TRUE,
      err    |-> ~Valid(p, d.addr),
      rdata  |-> IF Valid(p, d.addr) THEN w ELSE per[p].rdata ]

ServeOne(sel, d) ==
    /\ sel \in Peripherals
    /\ \E w \in Word :
          per' = [p \in Peripherals |-> IF DataGnt(p, sel) THEN Serve(p, d, w)
                                                           ELSE Rest(p)]

RestAll(sel) ==
    /\ sel \notin Peripherals
    /\ per' = [p \in Peripherals |-> Rest(p)]

Step(sel, d) == ServeOne(sel, d) \/ RestAll(sel)

Reset == per' = [p \in Peripherals |->
                    [rvalid |-> FALSE, err |-> FALSE, rdata |-> Zero]]
=============================================================================
