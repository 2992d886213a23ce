----------------------------- MODULE BusFabric -----------------------------
(***************************************************************************)
(* The bus of the SoC as pixel_riscv_soc.sv wires it: the data and the     *)
(* instruction port of the Ibex core, one arbiter behind each, the boot    *)
(* ROM and the code RAM shared by both arbiters, the data RAM and the      *)
(* peripherals behind the data arbiter.                                    *)
(*                                                                         *)
(* Everything is clocked by one clock, so a step of the system is one      *)
(* cycle in which every component takes its step.  Combinational signals   *)
(* of the cycle are operators on the current state.  Ibex is external: it  *)
(* holds a request until it is granted, raises a new one whenever it likes *)
(* (also while an earlier one is unanswered), and takes an answer with     *)
(* rvalid.                                                                 *)
(***************************************************************************)
EXTENDS Memory, FiniteSets

CONSTANTS RomImage, DataRequests, FetchAddresses

ASSUME BusAssumption ==
    /\ Address \subseteq Nat
    /\ Zero \in Word
    /\ RomImage \in [IndexIn(AddressSpace.BOOT_ROM) -> Word]
    /\ DataRequests \subseteq {r \in Request : r.req /\ r.addr \in Address}
    /\ FetchAddresses \subseteq Address

VARIABLES dcore,            \* request lines of the core's data port
          icore,            \* request lines of the core's instruction port
          dstate, dslave,   \* data bus arbiter
          istate, islave,   \* instruction bus arbiter
          rom, cram, dram, per,
          dwait, iwait      \* history: cycles the request has been refused

arbiters == <<dstate, dslave, istate, islave>>
vars == <<dcore, icore, arbiters, rom, cram, dram, per, dwait, iwait>>

DArb == INSTANCE BusArbiter WITH Slave <- DataSlaves,
                                 state <- dstate, responding_slave <- dslave
IArb == INSTANCE BusArbiter WITH Slave <- InstrSlaves,
                                 state <- istate, responding_slave <- islave
Rom  == INSTANCE BootRom
CRam == INSTANCE CodeRam
DRam == INSTANCE DataRam
Per  == INSTANCE PeripheralPort

Fetch   == [req : BOOLEAN, addr : Address \cup {0}]
WaitCap == 3        \* the history counters stop here
NoFetch == [req |-> FALSE, addr |-> 0]

(* Every register of the core, the arbiters and the slaves is well typed;  *)
(* no wait counts beyond its cap.                                          *)
TypeOK ==
    /\ dcore \in Request
    /\ icore \in Fetch
    /\ DArb!TypeOK /\ IArb!TypeOK
    /\ Rom!TypeOK /\ CRam!TypeOK /\ DRam!TypeOK /\ Per!TypeOK
    /\ dwait \in 0 .. WaitCap /\ iwait \in 0 .. WaitCap

-----------------------------------------------------------------------------
(* The signals of a cycle. *)
DTarget == DataTarget(dcore.addr)
ITarget == InstrTarget(icore.addr)

DSel == DArb!Forwarded(dcore.req, DTarget)
ISel == IArb!Forwarded(icore.req, ITarget)

(* What a slave sees of the data port: the request, or all lines at 0.     *)
DataBus(s) == IF DSel = s THEN dcore ELSE NoRequest

SlaveGnt(s) ==
    CASE s = "BOOT_ROM" -> Rom!DataGnt(DSel = s)
      [] s = "CODE_RAM" -> CRam!DataGnt(DataBus(s))
      [] s = "DATA_RAM" -> DRam!DataGnt(DataBus(s))
      [] OTHER          -> Per!DataGnt(s, DSel)

SlaveRvalid(s) ==
    CASE s = "BOOT_ROM" -> rom.drvalid
      [] s = "CODE_RAM" -> cram.drvalid
      [] s = "DATA_RAM" -> dram.rvalid
      [] OTHER          -> per[s].rvalid

SlaveFetchGnt(s) ==
    IF s = "BOOT_ROM"
    THEN Rom!InstrGnt(DSel = s, ISel = s)
    ELSE CRam!InstrGnt(DataBus(s), ISel = s)

SlaveFetchRvalid(s) ==
    IF s = "BOOT_ROM" THEN rom.irvalid ELSE cram.irvalid

(* The slaves the core is attached to, and the lines it sees.              *)
DSeen == DArb!Attached(dcore.req, DTarget)
ISeen == IArb!Attached(icore.req, ITarget)

DGnt    == DArb!Granted(DSeen, SlaveGnt(DSeen))
IGnt    == IArb!Granted(ISeen, SlaveFetchGnt(ISeen))
DRvalid == DArb!Answered(DSeen, SlaveRvalid(DSeen))
IRvalid == IArb!Answered(ISeen, SlaveFetchRvalid(ISeen))

(* The answer that the core takes in a cycle with rvalid. *)
DAnswer ==
    LET s == DSeen IN
    CASE s = "BOOT_ROM"     -> [err |-> FALSE, rdata |-> rom.drdata]
      [] s = "CODE_RAM"     -> [err |-> FALSE, rdata |-> cram.rdata]
      [] s = "DATA_RAM"     -> [err |-> FALSE, rdata |-> dram.rdata]
      [] s \in Peripherals  -> [err |-> per[s].err, rdata |-> per[s].rdata]
      [] OTHER              -> [err |-> TRUE, rdata |-> Zero]

IAnswer ==
    LET s == ISeen IN
    CASE s = "BOOT_ROM"     -> [err |-> FALSE, rdata |-> rom.irdata]
      [] s = "CODE_RAM"     -> [err |-> FALSE, rdata |-> cram.rdata]
      [] OTHER              -> [err |-> TRUE, rdata |-> Zero]

-----------------------------------------------------------------------------
(* Ibex, from the side of the bus (external). *)
CoreData ==
    IF dcore.req /\ ~DGnt THEN UNCHANGED dcore
    ELSE dcore' \in {NoRequest} \cup DataRequests

CoreFetch ==
    IF icore.req /\ ~IGnt THEN UNCHANGED icore
    ELSE icore' \in {NoFetch} \cup
                    {[req |-> TRUE, addr |-> a] : a \in FetchAddresses}

(* History: how long the arbiter has forwarded a request in vain. *)
Refused(wait, state, req, gnt) ==
    IF req /\ state # "WAITING_FOR_RESPONSE" /\ ~gnt
    THEN IF wait < WaitCap THEN wait + 1 ELSE wait
    ELSE 0

Tick ==
    /\ DArb!Step(dcore.req, DTarget, DGnt, DRvalid)
    /\ IArb!Step(icore.req, ITarget, IGnt, IRvalid)
    /\ Rom!Step(DSel = "BOOT_ROM", dcore.addr, ISel = "BOOT_ROM", icore.addr)
    /\ CRam!Step(DataBus("CODE_RAM"), ISel = "CODE_RAM", icore.addr)
    /\ DRam!Step(DataBus("DATA_RAM"))
    /\ Per!Step(DSel, dcore)
    /\ dwait' = Refused(dwait, dstate, dcore.req, DGnt)
    /\ iwait' = Refused(iwait, istate, icore.req, IGnt)
    /\ CoreData
    /\ CoreFetch

(* rst_n reaches the core and every component; the RAM arrays keep their   *)
(* contents.                                                               *)
Reset ==
    /\ dcore' = NoRequest
    /\ icore' = NoFetch
    /\ DArb!Reset /\ IArb!Reset
    /\ Rom!Reset /\ CRam!Reset /\ DRam!Reset /\ Per!Reset
    /\ dwait' = 0 /\ iwait' = 0

Init ==
    /\ dcore = NoRequest
    /\ icore = NoFetch
    /\ DArb!Init /\ IArb!Init
    /\ Rom!Init /\ CRam!Init /\ DRam!Init /\ Per!Init
    /\ dwait = 0 /\ iwait = 0

Next == Tick \/ Reset

(* The clock never stops: a cycle always comes. *)
Spec == Init /\ [][Next]_vars /\ WF_vars(Tick)

-----------------------------------------------------------------------------
(* A slave raises rvalid only towards the port whose arbiter is waiting    *)
(* for exactly this slave: no answer is dropped by an arbiter that looks   *)
(* elsewhere, and none reaches a port that has no request outstanding      *)
(* (the arbiters pass rvalid on in every state, data_bus_arbiter.sv:       *)
(* attach_data_bus_slave in IDLE and WAITING_FOR_GRANT).                   *)
AnswersAreOwned ==
    /\ \A s \in DataSlaves :
          SlaveRvalid(s) => dstate = "WAITING_FOR_RESPONSE" /\ dslave = s
    /\ \A s \in InstrSlaves :
          SlaveFetchRvalid(s) => istate = "WAITING_FOR_RESPONSE" /\ islave = s

(* No answer reaches the core while it has no granted request: Ibex would  *)
(* take it for the answer of the next one.                                 *)
NoSpuriousResponse ==
    /\ DRvalid => dstate = "WAITING_FOR_RESPONSE"
    /\ IRvalid => istate = "WAITING_FOR_RESPONSE"

(* Every request the arbiters wait for is really being served: the slave   *)
(* answers in this cycle, or is the boot ROM reading the word for this     *)
(* port.  Were it not so the port would wait for ever.                     *)
WaitsAreServed ==
    /\ dstate = "WAITING_FOR_RESPONSE" =>
          DRvalid \/ (dslave = "BOOT_ROM" /\ rom.state = "DATA_READOUT")
    /\ istate = "WAITING_FOR_RESPONSE" =>
          IRvalid \/ (islave = "BOOT_ROM" /\ rom.state = "INSTR_READOUT")

(* The data port has priority everywhere and yet cannot starve fetching:   *)
(* its arbiter lets no request through while an answer is outstanding.  A  *)
(* load or store is refused for at most one cycle, a fetch for at most two *)
(* (one on the code RAM).                                                  *)
BoundedWait ==
    /\ dwait <= 1
    /\ iwait <= 2
    /\ islave = "CODE_RAM" /\ istate = "WAITING_FOR_GRANT" => iwait <= 1

(* A request that the core has up is granted and answered, unless a reset  *)
(* wipes it out: the answer is its own, as none is shown while it is up    *)
(* ungranted (NoSpuriousResponse).                                         *)
Quiet(state, core) == state = "IDLE" /\ ~core.req
EveryRequestAnswered ==
    /\ dcore.req /\ dstate # "WAITING_FOR_RESPONSE"
           ~> (DRvalid \/ Quiet(dstate, dcore))
    /\ icore.req /\ istate # "WAITING_FOR_RESPONSE"
           ~> (IRvalid \/ Quiet(istate, icore))

-----------------------------------------------------------------------------
(* The refinement mapping to SharedMemory.  The answer owed to a port is   *)
(* already in a register of the slave, except for the boot ROM, which has  *)
(* only latched the address.                                               *)
DOwed ==
    CASE dstate # "WAITING_FOR_RESPONSE" -> {}
      [] dslave = "BOOT_ROM" /\ rom.state = "DATA_READOUT" ->
            {[err |-> FALSE, rdata |-> Rom!Contents(rom.addr)]}
      [] OTHER -> {DAnswer}

IOwed ==
    CASE istate # "WAITING_FOR_RESPONSE" -> {}
      [] islave = "BOOT_ROM" /\ rom.state = "INSTR_READOUT" ->
            {[err |-> FALSE, rdata |-> Rom!Contents(rom.addr)]}
      [] OTHER -> {IAnswer}

Mem == INSTANCE SharedMemory WITH
           code  <- cram.mem,
           data  <- dram.mem,
           dport <- [asked |-> dcore, owed |-> DOwed, shown |-> DRvalid],
           iport <- [asked |-> icore, owed |-> IOwed, shown |-> IRvalid]

(* The bus behaves as the two-port memory: each request is served exactly  *)
(* once, atomically, with the addressed word, and answered once, in order. *)
SharedMemorySpec == Mem!Spec
=============================================================================
