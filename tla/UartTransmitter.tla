-------------------------- MODULE UartTransmitter --------------------------
(***************************************************************************)
(* The UART's transmitter                                                  *)
(* (rtl/soc/peripherals/uart/uart_transmitter.sv): a start bit, the bits   *)
(* of the byte and a stop bit, each as long as Oversampling rising edges   *)
(* of the serial clock.                                                    *)
(***************************************************************************)
EXTENDS Integers

CONSTANTS Bit,           \* values of the line: 0, 1, and names for data bits
          DataBits,      \* bits of a byte: 8 in the code
          Oversampling   \* edges per bit: 16 in the code

VARIABLE tx

Byte   == [0 .. DataBits - 1 -> Bit]
States == {"IDLE", "START", "ACTIVE", "STOP"}

TypeOK == tx \in [state : States, bits_counter : 0 .. DataBits - 1,
                  edges_counter : 0 .. Oversampling - 1,
                  sout : Bit, tx_buffer : Byte]

Init == tx = [state |-> "IDLE", bits_counter |-> 0, edges_counter |-> 0,
              sout |-> 1, tx_buffer |-> [k \in 0 .. DataBits - 1 |-> 0]]

(* Faulty variant, for the mutation runs: IDLE does not clear it.          *)
busy_InIdle == tx.state \in States

busy == tx.state # "IDLE"

(* tx_buffer >> 1 *)
Shifted(b) == [k \in 0 .. DataBits - 1 |-> IF k = DataBits - 1 THEN 0 ELSE b[k + 1]]

LastEdge(edge) == edge /\ tx.edges_counter = Oversampling - 1

Rest(valid) ==
    /\ tx.state = "IDLE" /\ ~valid
    /\ tx' = tx

Accept(valid) ==
    /\ tx.state = "IDLE" /\ valid
    /\ tx' = [tx EXCEPT !.state = "START"]

(* Within a bit: nothing but the count of edges, and in START the data     *)
(* register is copied once more.                                           *)
WithinBit(edge, data) ==
    /\ tx.state # "IDLE" /\ ~LastEdge(edge)
    /\ tx' = [tx EXCEPT !.edges_counter = IF edge THEN @ + 1 ELSE @,
                        !.sout = IF tx.state = "START" THEN 0 ELSE @,
                        !.tx_buffer = IF tx.state = "START" THEN data ELSE @]

(* Faulty variant, for the mutation runs: the edges are not counted anew.  *)
FirstBit_CountsOn(edge) ==
    /\ tx.state = "START" /\ LastEdge(edge)
    /\ tx' = [tx EXCEPT !.state = "ACTIVE", !.sout = tx.tx_buffer[0],
                        !.tx_buffer = Shifted(@)]

FirstBit(edge) ==
    /\ tx.state = "START" /\ LastEdge(edge)
    /\ tx' = [tx EXCEPT !.state = "ACTIVE", !.edges_counter = 0,
                        !.sout = tx.tx_buffer[0],
                        !.tx_buffer = Shifted(@)]

NextBit(edge) ==
    /\ tx.state = "ACTIVE" /\ LastEdge(edge) /\ tx.bits_counter # DataBits - 1
    /\ tx' = [tx EXCEPT !.bits_counter = @ + 1, !.edges_counter = 0,
                        !.sout = tx.tx_buffer[0],
                        !.tx_buffer = Shifted(@)]

(* Faulty variant, for the mutation runs: the line stays as it is.         *)
StopBit_KeepsLevel(edge) ==
    /\ tx.state = "ACTIVE" /\ LastEdge(edge) /\ tx.bits_counter = DataBits - 1
    /\ tx' = [tx EXCEPT !.state = "STOP", !.bits_counter = 0,
                        !.edges_counter = 0]

StopBit(edge) ==
    /\ tx.state = "ACTIVE" /\ LastEdge(edge) /\ tx.bits_counter = DataBits - 1
    /\ tx' = [tx EXCEPT !.state = "STOP", !.bits_counter = 0,
                        !.edges_counter = 0, !.sout = 1]

Finish(edge) ==
    /\ tx.state = "STOP" /\ LastEdge(edge)
    /\ tx' = [tx EXCEPT !.state = "IDLE", !.edges_counter = 0]

Cycle(edge, valid, data) ==
    \/ Rest(valid)
    \/ Accept(valid)
    \/ WithinBit(edge, data)
    \/ FirstBit(edge)
    \/ NextBit(edge)
    \/ StopBit(edge)
    \/ Finish(edge)
=============================================================================
