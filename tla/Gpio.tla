-------------------------------- MODULE Gpio --------------------------------
(***************************************************************************)
(* The GPIO controller (rtl/soc/peripherals/gpio/gpio.sv and               *)
(* gpio_interrupt_detector.sv) and its driver's registers                  *)
(* (sw/libs/drivers/src/gpio.cpp).  A register is the set of the pins      *)
(* whose bit is one.  One step is one clock cycle, with at most one access *)
(* of the bus in it.                                                       *)
(***************************************************************************)
EXTENDS EdgeDetector, FiniteSets, Integers

CONSTANT Pins            \* 0 .. 31 in the code

VARIABLES gpio_regs,     \* odr, idr, ier, isr, rier, fier, oenr
          edges          \* the edge detector of each pin

gpiovars == <<gpio_regs, edges>>

GpioTypeOK ==
    /\ gpio_regs \in [odr : SUBSET Pins, idr : SUBSET Pins, ier : SUBSET Pins,
                      isr : SUBSET Pins, rier : SUBSET Pins, fier : SUBSET Pins,
                      oenr : SUBSET Pins]
    /\ edges \in [Pins -> Synchroniser]

(* An access of the bus: none, the read of a register, or its write.       *)
None == [reg |-> "none", we |-> FALSE]
ReadReg(reg) == [reg |-> reg, we |-> FALSE]
WriteReg(reg, data) == [reg |-> reg, we |-> TRUE, data |-> data]

interrupt_detected ==
    {p \in gpio_regs.ier : \/ p \in gpio_regs.rier /\ rising(edges[p])
                           \/ p \in gpio_regs.fier /\ falling(edges[p])}

irq == gpio_regs.isr # {}

Written(access, reg) ==
    IF access.we /\ access.reg = reg THEN access.data ELSE gpio_regs[reg]

(* An edge seen in the cycle of a write is kept.                           *)
IsrAfter(access) == Written(access, "isr") \cup interrupt_detected

GpioCycle(access, din) ==
    /\ gpio_regs' = [odr  |-> Written(access, "odr"),
                     idr  |-> din,
                     ier  |-> Written(access, "ier"),
                     isr  |-> IsrAfter(access),
                     rier |-> Written(access, "rier"),
                     fier |-> Written(access, "fier"),
                     oenr |-> Written(access, "oenr")]
    /\ edges' = [p \in Pins |-> Sampled(edges[p], IF p \in din THEN 1 ELSE 0)]

GpioInit ==
    /\ gpio_regs = [odr |-> {}, idr |-> {}, ier |-> {}, isr |-> {},
                    rier |-> {}, fier |-> {}, oenr |-> Pins]
    /\ edges = [p \in Pins |-> Low]

(* The level of a driven pin. *)
Driven == Pins \ gpio_regs.oenr
High   == gpio_regs.odr \cap Driven
=============================================================================
