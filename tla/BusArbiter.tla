----------------------------- MODULE BusArbiter -----------------------------
(***************************************************************************)
(* A bus arbiter between one port of the core and the slaves behind it.    *)
(* The data arbiter (rtl/soc/data_bus_arbiter.sv) and the instruction      *)
(* arbiter (rtl/soc/instr_bus_arbiter.sv) are this module with different   *)
(* sets of slaves.  One step is one clock cycle.  The operators take the   *)
(* signals of the cycle: req and target describe the core's request lines  *)
(* (target is the decoded address), gnt(s) and rvalid(s) are what slave s  *)
(* drives.                                                                 *)
(***************************************************************************)
CONSTANT Slave

VARIABLES state, responding_slave

Incorrect == "INCORRECT"
None      == "NONE"

TypeOK == /\ state \in {"IDLE", "WAITING_FOR_GRANT", "WAITING_FOR_RESPONSE"}
          /\ responding_slave \in Slave \cup {Incorrect}

Init == /\ state = "IDLE"
        /\ responding_slave = Incorrect

(* Faulty variants, for the mutation runs: the request stays up during the *)
(* response; the answer is looked for at the address now on the bus.       *)
Forwarded_DuringResponse(req, target) ==
    IF req /\ target \in Slave THEN target ELSE None
Attached_ToTarget(req, target) ==
    IF state = "WAITING_FOR_GRANT" THEN responding_slave
    ELSE IF req THEN target ELSE responding_slave

(* Demultiplexing: the slave that sees the core's request in this cycle.   *)
(* All the others see req = 0, and so does everybody during a response.    *)
Forwarded(req, target) ==
    IF req /\ state # "WAITING_FOR_RESPONSE" /\ target \in Slave THEN target
                                                                 ELSE None

(* Multiplexing: the slave whose answers the core sees in this cycle.      *)
Attached(req, target) ==
    IF state # "IDLE" THEN responding_slave
    ELSE IF req THEN target ELSE None

(* The lines the core sees: those of the attached slave, or the arbiter's  *)
(* own for an address of nobody.                                           *)
Granted(slave, gnt) ==
    \/ slave = Incorrect /\ state # "WAITING_FOR_RESPONSE"
    \/ slave \in Slave /\ gnt

Answered(slave, rvalid) ==
    \/ slave = Incorrect /\ state = "WAITING_FOR_RESPONSE"
    \/ slave \in Slave /\ rvalid

-----------------------------------------------------------------------------
Rest(req) ==
    /\ state = "IDLE"
    /\ ~req
    /\ UNCHANGED <<state, responding_slave>>

Accept(req, target, gnt) ==
    /\ state = "IDLE"
    /\ req
    /\ gnt
    /\ state' = "WAITING_FOR_RESPONSE"
    /\ responding_slave' = target

Refuse(req, target, gnt) ==
    /\ state = "IDLE"
    /\ req
    /\ ~gnt
    /\ state' = "WAITING_FOR_GRANT"
    /\ responding_slave' = target

AcceptLate(gnt) ==
    /\ state = "WAITING_FOR_GRANT"
    /\ gnt
    /\ state' = "WAITING_FOR_RESPONSE"
    /\ UNCHANGED responding_slave

RefuseAgain(gnt) ==
    /\ state = "WAITING_FOR_GRANT"
    /\ ~gnt
    /\ UNCHANGED <<state, responding_slave>>

Complete(rvalid) ==
    /\ state = "WAITING_FOR_RESPONSE"
    /\ rvalid
    /\ state' = "IDLE"
    /\ UNCHANGED responding_slave

Await(rvalid) ==
    /\ state = "WAITING_FOR_RESPONSE"
    /\ ~rvalid
    /\ UNCHANGED <<state, responding_slave>>

(* gnt and rvalid: the lines the core sees.                               *)
Step(req, target, gnt, rvalid) ==
    \/ Rest(req)
    \/ Accept(req, target, gnt)
    \/ Refuse(req, target, gnt)
    \/ AcceptLate(gnt)
    \/ RefuseAgain(gnt)
    \/ Complete(rvalid)
    \/ Await(rvalid)

Reset == /\ state' = "IDLE"
         /\ responding_slave' = Incorrect
=============================================================================
