---------------------------- MODULE SerialClock ----------------------------
(***************************************************************************)
(* The serial clock generator of UART and SPI                              *)
(* (rtl/soc/misc/serial_clock_generator.sv): it turns over every           *)
(* counter_target + 1 cycles and flags the cycles after its edges.         *)
(***************************************************************************)
EXTENDS Integers

CONSTANT MaxDivider      \* 255 in the code: eight bits

VARIABLE clock

Divider == 0 .. MaxDivider

TypeOK == clock \in [sck : BOOLEAN, rising_edge : BOOLEAN,
                     falling_edge : BOOLEAN,
                     counter : Divider, counter_target : Divider]

Init == clock = [sck |-> FALSE, rising_edge |-> FALSE, falling_edge |-> FALSE,
                 counter |-> 0, counter_target |-> 0]

(* A new divider starts the clock afresh. *)
SetDivider(valid, divider) ==
    /\ valid
    /\ clock' = [sck |-> FALSE, rising_edge |-> FALSE, falling_edge |-> FALSE,
                 counter |-> 0, counter_target |-> divider]

Turn(en, valid) ==
    /\ ~valid /\ en
    /\ clock.counter_target = 0 \/ clock.counter = clock.counter_target
    /\ clock' = [clock EXCEPT !.sck = ~@, !.rising_edge = ~clock.sck,
                              !.falling_edge = clock.sck, !.counter = 0]

Count(en, valid) ==
    /\ ~valid /\ en
    /\ clock.counter_target # 0 /\ clock.counter # clock.counter_target
    /\ clock' = [clock EXCEPT !.rising_edge = FALSE, !.falling_edge = FALSE,
                              !.counter = (@ + 1) % (MaxDivider + 1)]

Stop(en, valid) ==
    /\ ~valid /\ ~en
    /\ clock' = [clock EXCEPT !.sck = FALSE, !.rising_edge = FALSE,
                              !.falling_edge = FALSE, !.counter = 0]

Cycle(en, valid, divider) ==
    \/ SetDivider(valid, divider)
    \/ Turn(en, valid)
    \/ Count(en, valid)
    \/ Stop(en, valid)
=============================================================================
