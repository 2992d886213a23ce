---------------------------- MODULE UartReceiver ----------------------------
(***************************************************************************)
(* The UART's receiver (rtl/soc/peripherals/uart/uart_receiver.sv): it     *)
(* starts when it sees the line low and from then on counts edges of its   *)
(* own serial clock, taking each bit half way.                             *)
(***************************************************************************)
EXTENDS Integers

CONSTANTS Bit, DataBits, Oversampling      \* as in UartTransmitter

VARIABLE rx

Byte   == [0 .. DataBits - 1 -> Bit]
States == {"IDLE", "START", "ACTIVE", "STOP"}

TypeOK == rx \in [state : States, bits_counter : 0 .. DataBits - 1,
                  edges_counter : 0 .. Oversampling - 1,
                  rx_data_valid : BOOLEAN, rx_data : Byte,
                  error : BOOLEAN, rx_buffer : Byte]

Zeros == [k \in 0 .. DataBits - 1 |-> 0]

Init == rx = [state |-> "IDLE", bits_counter |-> 0, edges_counter |-> 0,
              rx_data_valid |-> FALSE, rx_data |-> Zeros,
              error |-> FALSE, rx_buffer |-> Zeros]

(* Faulty variant, for the mutation runs: bits are taken at their end.     *)
Middle_AtTheEnd(edge) == edge /\ rx.edges_counter = Oversampling - 1

Middle(edge)   == edge /\ rx.edges_counter = Oversampling \div 2 - 1
LastEdge(edge) == edge /\ rx.edges_counter = Oversampling - 1

(* {sin, rx_buffer[7:1]} *)
ShiftedIn(b, sin) == [k \in 0 .. DataBits - 1 |-> IF k = DataBits - 1 THEN sin
                                                                   ELSE b[k + 1]]

Rest(sin) ==
    /\ rx.state = "IDLE" /\ sin # 0
    /\ rx' = [rx EXCEPT !.rx_data_valid = FALSE]

Detect(sin) ==
    /\ rx.state = "IDLE" /\ sin = 0
    /\ rx' = [rx EXCEPT !.state = "START", !.rx_data_valid = FALSE]

(* What the state of the receiver does in every cycle, and what in the     *)
(* middle of a bit.                                                        *)
Taken(edge, sin) ==
    CASE rx.state = "START" ->
             [rx EXCEPT !.rx_buffer = Zeros, !.error = FALSE,
                        !.rx_data_valid = FALSE]
      [] rx.state = "ACTIVE" /\ Middle(edge) ->
             [rx EXCEPT !.rx_buffer = ShiftedIn(@, sin), !.rx_data_valid = FALSE]
      [] rx.state = "STOP" /\ Middle(edge) ->
             [rx EXCEPT !.rx_data_valid = TRUE, !.rx_data = rx.rx_buffer,
                        !.error = (sin = 0)]
      [] OTHER -> [rx EXCEPT !.rx_data_valid = FALSE]

WithinBit(edge, sin) ==
    /\ rx.state # "IDLE" /\ ~LastEdge(edge)
    /\ rx' = [Taken(edge, sin) EXCEPT !.edges_counter = IF edge THEN @ + 1 ELSE @]

FirstBit(edge, sin) ==
    /\ rx.state = "START" /\ LastEdge(edge)
    /\ rx' = [Taken(edge, sin) EXCEPT !.state = "ACTIVE", !.edges_counter = 0]

NextBit(edge, sin) ==
    /\ rx.state = "ACTIVE" /\ LastEdge(edge) /\ rx.bits_counter # DataBits - 1
    /\ rx' = [Taken(edge, sin) EXCEPT !.bits_counter = @ + 1, !.edges_counter = 0]

StopBit(edge, sin) ==
    /\ rx.state = "ACTIVE" /\ LastEdge(edge) /\ rx.bits_counter = DataBits - 1
    /\ rx' = [Taken(edge, sin) EXCEPT !.state = "STOP", !.bits_counter = 0,
                                      !.edges_counter = 0]

Finish(edge, sin) ==
    /\ rx.state = "STOP" /\ LastEdge(edge)
    /\ rx' = [Taken(edge, sin) EXCEPT !.state = "IDLE", !.edges_counter = 0]

Cycle(edge, sin) ==
    \/ Rest(sin)
    \/ Detect(sin)
    \/ WithinBit(edge, sin)
    \/ FirstBit(edge, sin)
    \/ NextBit(edge, sin)
    \/ StopBit(edge, sin)
    \/ Finish(edge, sin)
=============================================================================
