-------------------------- MODULE BusFabric_proof --------------------------
(***************************************************************************)
(* Proofs about the bus, for every set of addresses, every width of a      *)
(* word, every boot ROM image and every stream of requests of the core.    *)
(***************************************************************************)
EXTENDS BusFabric, TLAPS

RESPONSE == "WAITING_FOR_RESPONSE"

(* An address decodes to a slave of the data port or to none.              *)
LEMMA DataTargetType ==
    ASSUME NEW a PROVE DataTarget(a) \in DataSlaves \cup {"INCORRECT"}
  BY DEF DataTarget, Decode

(* An address decodes to a slave of the instruction port or to none.       *)
LEMMA InstrTargetType ==
    ASSUME NEW a PROVE InstrTarget(a) \in InstrSlaves \cup {"INCORRECT"}
  BY DEF InstrTarget, Decode

(* The instances carry their own copies of the definitions of Memory.      *)
LEMMA WordsAgree ==
    Rom!Word = Word /\ CRam!Word = Word /\ DRam!Word = Word /\ Per!Word = Word
  BY DEF Word, Rom!Word, CRam!Word, DRam!Word, Per!Word

(* The peripherals of the instance are those of the memory map.            *)
LEMMA PeripheralsAgree == Per!Peripherals = Peripherals
  BY DEF Per!Peripherals, Peripherals

-----------------------------------------------------------------------------
(* An arbiter that waits for a grant still sees the request it decoded, and *)
(* never waits for a grant of an address that nobody decodes.               *)
DataHeld  == dstate = "WAITING_FOR_GRANT" => dcore.req /\ dslave = DTarget
FetchHeld == istate = "WAITING_FOR_GRANT" => icore.req /\ islave = ITarget

(* The boot ROM reads a word only for a port that waits for it, and shows   *)
(* no answer while it does.                                                 *)
RomReads ==
    /\ rom.state = "DATA_READOUT" =>
          /\ dstate = RESPONSE /\ dslave = "BOOT_ROM"
          /\ ~rom.drvalid /\ ~rom.irvalid
    /\ rom.state = "INSTR_READOUT" =>
          /\ istate = RESPONSE /\ islave = "BOOT_ROM"
          /\ ~rom.drvalid /\ ~rom.irvalid

(* A request that is up has an address of the model, and the boot ROM reads *)
(* one of its own words.                                                    *)
Addresses ==
    /\ dcore.req => dcore.addr \in Address
    /\ icore.req => icore.addr \in Address
    /\ rom.state # "IDLE" => rom.addr \in Address \cap AddressSpace.BOOT_ROM

CInv == /\ TypeOK
        /\ Addresses
        /\ AnswersAreOwned
        /\ DataHeld /\ FetchHeld
        /\ RomReads

-----------------------------------------------------------------------------
(* The signals of a cycle. *)
LEMMA DSelMeaning ==
    ASSUME NEW s \in DataSlaves
    PROVE  DSel = s <=> dcore.req /\ dstate # RESPONSE /\ DTarget = s
  BY DEF DSel, DArb!Forwarded, RESPONSE, DArb!None, DataSlaves, Peripherals

(* When the instruction arbiter selects a slave.                           *)
LEMMA ISelMeaning ==
    ASSUME NEW s \in InstrSlaves
    PROVE  ISel = s <=> icore.req /\ istate # RESPONSE /\ ITarget = s
  BY DEF ISel, IArb!Forwarded, RESPONSE, IArb!None, InstrSlaves

(* A slave sees a request exactly when it is selected.                     *)
LEMMA BusRequest ==
    ASSUME NEW s \in DataSlaves
    PROVE  DataBus(s).req <=> DSel = s
  BY DSelMeaning DEF DataBus, NoRequest

(* Only a selected slave grants; the boot ROM only when it is idle.        *)
LEMMA SlaveGntMeaning ==
    ASSUME NEW s \in DataSlaves
    PROVE  SlaveGnt(s) <=> DSel = s /\ (s = "BOOT_ROM" => rom.state = "IDLE")
  BY BusRequest
     DEF SlaveGnt, Rom!DataGnt, CRam!DataGnt, DRam!DataGnt, Per!DataGnt,
         DataSlaves, Peripherals

(* A slave grants a fetch when the data port does not select it.           *)
LEMMA SlaveFetchGntMeaning ==
    ASSUME NEW s \in InstrSlaves
    PROVE  SlaveFetchGnt(s) <=>
              ISel = s /\ DSel # s /\ (s = "BOOT_ROM" => rom.state = "IDLE")
  BY BusRequest
     DEF SlaveFetchGnt, Rom!InstrGnt, CRam!InstrGnt, InstrSlaves, DataSlaves,
         Peripherals

(* When the core's request is granted. *)
LEMMA DGntMeaning ==
    ASSUME CInv, dcore.req, dstate # RESPONSE
    PROVE  DGnt <=> (DTarget = "BOOT_ROM" => rom.state = "IDLE")
<1>1. DTarget \in DataSlaves \cup {"INCORRECT"}
  BY DataTargetType DEF DTarget
<1>2. DArb!Attached(dcore.req, DTarget) = DTarget
  BY DEF CInv, TypeOK, DArb!TypeOK, DataHeld, DArb!Attached, RESPONSE
<1>3. CASE DTarget = "INCORRECT"
  BY <1>2, <1>3 DEF DGnt, DSeen, DArb!Granted, DArb!Incorrect, RESPONSE
<1>4. CASE DTarget \in DataSlaves
  <2>1. DTarget # "INCORRECT"
    BY <1>4 DEF DataSlaves, Peripherals
  <2>2. DGnt <=> SlaveGnt(DTarget)
    BY <1>2, <1>4, <2>1 DEF DGnt, DSeen, DArb!Granted, DArb!Incorrect
  <2>3. DSel = DTarget
    BY <1>4, DSelMeaning
  <2> QED
    BY <1>4, <2>2, <2>3, SlaveGntMeaning
<1> QED
  BY <1>1, <1>3, <1>4

(* When a fetch of the core is granted.                                    *)
LEMMA IGntMeaning ==
    ASSUME CInv, icore.req, istate # RESPONSE
    PROVE  IGnt <=> /\ DSel # ITarget
                    /\ ITarget = "BOOT_ROM" => rom.state = "IDLE"
<1>1. ITarget \in InstrSlaves \cup {"INCORRECT"}
  BY InstrTargetType DEF ITarget
<1>2. IArb!Attached(icore.req, ITarget) = ITarget
  BY DEF CInv, TypeOK, IArb!TypeOK, FetchHeld, IArb!Attached, RESPONSE
<1>3. CASE ITarget = "INCORRECT"
  <2>1. DSel # "INCORRECT"
    BY DEF DSel, DArb!Forwarded, DArb!None, DataSlaves, Peripherals
  <2> QED
    BY <1>2, <1>3, <2>1 DEF IGnt, ISeen, IArb!Granted, IArb!Incorrect, RESPONSE
<1>4. CASE ITarget \in InstrSlaves
  <2>1. ITarget # "INCORRECT"
    BY <1>4 DEF InstrSlaves
  <2>2. IGnt <=> SlaveFetchGnt(ITarget)
    BY <1>2, <1>4, <2>1 DEF IGnt, ISeen, IArb!Granted, IArb!Incorrect
  <2>3. ISel = ITarget
    BY <1>4, ISelMeaning
  <2> QED
    BY <1>4, <2>2, <2>3, SlaveFetchGntMeaning
<1> QED
  BY <1>1, <1>3, <1>4

(* When an outstanding request is answered. *)
LEMMA DRvalidMeaning ==
    ASSUME CInv, dstate = RESPONSE
    PROVE  DRvalid <=> \/ dslave = "INCORRECT"
                       \/ dslave \in DataSlaves /\ SlaveRvalid(dslave)
  BY DEF DRvalid, DSeen, DArb!Answered, DArb!Attached, DArb!Incorrect, RESPONSE

(* When an outstanding fetch is answered.                                  *)
LEMMA IRvalidMeaning ==
    ASSUME CInv, istate = RESPONSE
    PROVE  IRvalid <=> \/ islave = "INCORRECT"
                       \/ islave \in InstrSlaves /\ SlaveFetchRvalid(islave)
  BY DEF IRvalid, ISeen, IArb!Answered, IArb!Attached, IArb!Incorrect, RESPONSE

-----------------------------------------------------------------------------
(* What the slaves do in a cycle. *)
LEMMA RomCycle ==
    ASSUME CInv, Tick
    PROVE  /\ rom.state = "IDLE" =>
                 /\ ~rom'.drvalid /\ ~rom'.irvalid
                 /\ rom'.state = IF DSel = "BOOT_ROM" THEN "DATA_READOUT"
                                 ELSE IF ISel = "BOOT_ROM" THEN "INSTR_READOUT"
                                 ELSE "IDLE"
           /\ rom.state = "DATA_READOUT" =>
                 rom'.state = "IDLE" /\ rom'.drvalid /\ ~rom'.irvalid
           /\ rom.state = "INSTR_READOUT" =>
                 rom'.state = "IDLE" /\ ~rom'.drvalid /\ rom'.irvalid
<1>1. rom \in [ state   : {"IDLE", "DATA_READOUT", "INSTR_READOUT"},
                addr    : Address \cup {0},
                drvalid : BOOLEAN,  drdata : Word,
                irvalid : BOOLEAN,  irdata : Word ]
  BY WordsAgree DEF CInv, TypeOK, Rom!TypeOK
<1>2. Rom!Step(DSel = "BOOT_ROM", dcore.addr, ISel = "BOOT_ROM", icore.addr)
  BY DEF Tick
<1>3. CASE rom.state = "IDLE"
  BY <1>1, <1>2, <1>3
     DEF Rom!Step, Rom!AcceptData, Rom!AcceptInstr, Rom!Rest, Rom!DataReadout,
         Rom!InstrReadout, Rom!DataGnt, Rom!InstrGnt
<1>4. CASE rom.state = "DATA_READOUT"
  BY <1>1, <1>2, <1>4
     DEF Rom!Step, Rom!AcceptData, Rom!AcceptInstr, Rom!Rest, Rom!DataReadout,
         Rom!InstrReadout, Rom!DataGnt, Rom!InstrGnt, CInv, RomReads
<1>5. CASE rom.state = "INSTR_READOUT"
  BY <1>1, <1>2, <1>5
     DEF Rom!Step, Rom!AcceptData, Rom!AcceptInstr, Rom!Rest, Rom!DataReadout,
         Rom!InstrReadout, Rom!DataGnt, Rom!InstrGnt, CInv, RomReads
<1> QED
  BY <1>3, <1>4, <1>5

(* The code RAM answers the port that it served, and no other.             *)
LEMMA CodeRamCycle ==
    ASSUME CInv, Tick
    PROVE  /\ cram'.drvalid <=> DSel = "CODE_RAM"
           /\ cram'.irvalid <=> DSel # "CODE_RAM" /\ ISel = "CODE_RAM"
<1>1. cram \in [mem : [CRam!Index -> Word], rdata : Word,
                drvalid : BOOLEAN, irvalid : BOOLEAN]
  BY WordsAgree DEF CInv, TypeOK, CRam!TypeOK
<1>2. CRam!Step(DataBus("CODE_RAM"), ISel = "CODE_RAM", icore.addr)
  BY DEF Tick
<1>3. DataBus("CODE_RAM").req <=> DSel = "CODE_RAM"
  BY BusRequest DEF DataSlaves
<1>4. CASE CRam!ServeData(DataBus("CODE_RAM"))
  BY <1>3, <1>4 DEF CRam!ServeData, CRam!DataGnt
<1>5. CASE CRam!ServeInstr(DataBus("CODE_RAM"), ISel = "CODE_RAM", icore.addr)
  BY <1>1, <1>3, <1>5 DEF CRam!ServeInstr, CRam!InstrGnt
<1>6. CASE CRam!Rest(DataBus("CODE_RAM"), ISel = "CODE_RAM")
  BY <1>1, <1>3, <1>6 DEF CRam!Rest
<1> QED
  BY <1>2, <1>4, <1>5, <1>6 DEF CRam!Step

(* The data RAM answers in the cycle after it was selected.                *)
LEMMA DataRamCycle ==
    ASSUME CInv, Tick
    PROVE  dram'.rvalid <=> DSel = "DATA_RAM"
<1>1. dram \in [mem : [DRam!Index -> Word], rdata : Word, rvalid : BOOLEAN]
  BY WordsAgree DEF CInv, TypeOK, DRam!TypeOK
<1>2. DRam!Step(DataBus("DATA_RAM"))
  BY DEF Tick
<1>3. DataBus("DATA_RAM").req <=> DSel = "DATA_RAM"
  BY BusRequest DEF DataSlaves
<1> QED
  BY <1>1, <1>2, <1>3 DEF DRam!Step, DRam!Serve, DRam!Rest, DRam!DataGnt

(* So does a peripheral.                                                   *)
LEMMA PeripheralCycle ==
    ASSUME CInv, Tick, NEW p \in Peripherals
    PROVE  per'[p].rvalid <=> DSel = p
<1>1. per[p] \in [rvalid : BOOLEAN, err : BOOLEAN, rdata : Word]
  BY WordsAgree, PeripheralsAgree DEF CInv, TypeOK, Per!TypeOK
<1>2. Per!ServeOne(DSel, dcore) \/ Per!RestAll(DSel)
  BY DEF Tick, Per!Step
<1>3. CASE Per!ServeOne(DSel, dcore)
  <2>1. PICK w : per' = [q \in Per!Peripherals |->
                            IF Per!DataGnt(q, DSel) THEN Per!Serve(q, dcore, w)
                                                    ELSE Per!Rest(q)]
    BY <1>3 DEF Per!ServeOne
  <2>2. per'[p] = IF p = DSel THEN Per!Serve(p, dcore, w) ELSE Per!Rest(p)
    BY <2>1, PeripheralsAgree DEF Per!DataGnt
  <2>3. Per!Serve(p, dcore, w).rvalid
    BY DEF Per!Serve
  <2>4. ~Per!Rest(p).rvalid
    BY <1>1 DEF Per!Rest
  <2> QED
    BY <2>2, <2>3, <2>4
<1>4. CASE Per!RestAll(DSel)
  BY <1>1, <1>4, PeripheralsAgree DEF Per!RestAll, Per!Rest
<1> QED
  BY <1>2, <1>3, <1>4

(* Together: a slave other than the boot ROM shows rvalid in the cycle      *)
(* after it was selected.                                                   *)
LEMMA SlaveRvalidCycle ==
    ASSUME CInv, Tick, NEW s \in DataSlaves, s # "BOOT_ROM"
    PROVE  SlaveRvalid(s)' <=> DSel = s
<1>1. CASE s = "CODE_RAM"
  BY <1>1, CodeRamCycle DEF SlaveRvalid
<1>2. CASE s = "DATA_RAM"
  BY <1>2, DataRamCycle DEF SlaveRvalid
<1>3. CASE s \in Peripherals
  BY <1>3, PeripheralCycle DEF SlaveRvalid, Peripherals
<1> QED
  BY <1>1, <1>2, <1>3 DEF DataSlaves

(* The code RAM answers a fetch when the data port left it free.           *)
LEMMA FetchRvalidCycle ==
    ASSUME CInv, Tick
    PROVE  SlaveFetchRvalid("CODE_RAM")' <=> DSel # "CODE_RAM" /\ ISel = "CODE_RAM"
  BY CodeRamCycle DEF SlaveFetchRvalid

-----------------------------------------------------------------------------
(* What the arbiters and the core do in a cycle. *)
LEMMA DataArbiterCycle ==
    ASSUME CInv, Tick
    PROVE  /\ dstate = RESPONSE =>
                 /\ dslave' = dslave
                 /\ dstate' = IF DRvalid THEN "IDLE" ELSE RESPONSE
           /\ dstate # RESPONSE /\ dcore.req =>
                 /\ dslave' = DTarget
                 /\ dstate' = IF DGnt THEN RESPONSE ELSE "WAITING_FOR_GRANT"
           /\ dstate # RESPONSE /\ ~dcore.req =>
                 dslave' = dslave /\ dstate' = "IDLE"
<1>1. DArb!Step(dcore.req, DTarget, DGnt, DRvalid)
  BY DEF Tick
<1>2. dstate \in {"IDLE", "WAITING_FOR_GRANT", "WAITING_FOR_RESPONSE"}
  BY DEF CInv, TypeOK, DArb!TypeOK
<1>3. CASE dstate = RESPONSE
  BY <1>1, <1>3
     DEF DArb!Step, DArb!Rest, DArb!Accept, DArb!Refuse, DArb!AcceptLate,
         DArb!RefuseAgain, DArb!Complete, DArb!Await, DRvalid, RESPONSE
<1>4. CASE dstate # RESPONSE
  BY <1>1, <1>2, <1>4
     DEF DArb!Step, DArb!Rest, DArb!Accept, DArb!Refuse, DArb!AcceptLate,
         DArb!RefuseAgain, DArb!Complete, DArb!Await, DGnt, RESPONSE,
         CInv, DataHeld
<1> QED
  BY <1>3, <1>4

(* The instruction arbiter's next state, by grant and answer.              *)
LEMMA FetchArbiterCycle ==
    ASSUME CInv, Tick
    PROVE  /\ istate = RESPONSE =>
                 /\ islave' = islave
                 /\ istate' = IF IRvalid THEN "IDLE" ELSE RESPONSE
           /\ istate # RESPONSE /\ icore.req =>
                 /\ islave' = ITarget
                 /\ istate' = IF IGnt THEN RESPONSE ELSE "WAITING_FOR_GRANT"
           /\ istate # RESPONSE /\ ~icore.req =>
                 islave' = islave /\ istate' = "IDLE"
<1>1. IArb!Step(icore.req, ITarget, IGnt, IRvalid)
  BY DEF Tick
<1>2. istate \in {"IDLE", "WAITING_FOR_GRANT", "WAITING_FOR_RESPONSE"}
  BY DEF CInv, TypeOK, IArb!TypeOK
<1>3. CASE istate = RESPONSE
  BY <1>1, <1>3
     DEF IArb!Step, IArb!Rest, IArb!Accept, IArb!Refuse, IArb!AcceptLate,
         IArb!RefuseAgain, IArb!Complete, IArb!Await, IRvalid, RESPONSE
<1>4. CASE istate # RESPONSE
  BY <1>1, <1>2, <1>4
     DEF IArb!Step, IArb!Rest, IArb!Accept, IArb!Refuse, IArb!AcceptLate,
         IArb!RefuseAgain, IArb!Complete, IArb!Await, IGnt, RESPONSE,
         CInv, FetchHeld
<1> QED
  BY <1>3, <1>4

(* The core holds a request that is not granted.                           *)
LEMMA CoreHolds ==
    ASSUME Tick
    PROVE  /\ dcore.req /\ ~DGnt => dcore' = dcore
           /\ icore.req /\ ~IGnt => icore' = icore
  BY DEF Tick, CoreData, CoreFetch

-----------------------------------------------------------------------------
(* Types. *)
LEMMA DecodedSpace ==
    ASSUME NEW slaves, NEW a, NEW s \in slaves, s # "INCORRECT",
           Decode(slaves, a) = s
    PROVE  a \in AddressSpace[s]
  BY DEF Decode

(* A selected slave sees an address of its own space.                      *)
LEMMA SelectedAddress ==
    ASSUME CInv
    PROVE  /\ \A s \in DataSlaves :
                 DSel = s => dcore.addr \in Address \cap AddressSpace[s]
           /\ \A s \in InstrSlaves :
                 ISel = s => icore.addr \in Address \cap AddressSpace[s]
<1>1. ASSUME NEW s \in DataSlaves, DSel = s
      PROVE  dcore.addr \in Address \cap AddressSpace[s]
  <2>1. dcore.req /\ Decode(DataSlaves, dcore.addr) = s
    BY <1>1, DSelMeaning DEF DTarget, DataTarget
  <2>2. s # "INCORRECT"
    BY DEF DataSlaves, Peripherals
  <2> QED
    BY <2>1, <2>2, DecodedSpace DEF CInv, Addresses
<1>2. ASSUME NEW s \in InstrSlaves, ISel = s
      PROVE  icore.addr \in Address \cap AddressSpace[s]
  <2>1. icore.req /\ Decode(InstrSlaves, icore.addr) = s
    BY <1>2, ISelMeaning DEF ITarget, InstrTarget
  <2>2. s # "INCORRECT"
    BY DEF InstrSlaves
  <2> QED
    BY <2>1, <2>2, DecodedSpace DEF CInv, Addresses
<1> QED
  BY <1>1, <1>2

(* The empty requests are well typed.                                      *)
LEMMA RequestTypes ==
    /\ NoRequest \in Request /\ ~NoRequest.req
    /\ NoFetch \in Fetch /\ ~NoFetch.req
  BY BusAssumption DEF NoRequest, Request, NoFetch, Fetch

(* The core's next requests are well typed, at addresses of the model.     *)
LEMMA CoreTypes ==
    ASSUME CInv, Tick
    PROVE  /\ dcore' \in Request /\ (dcore'.req => dcore'.addr \in Address)
           /\ icore' \in Fetch /\ (icore'.req => icore'.addr \in Address)
<1>1. dcore' = dcore \/ dcore' = NoRequest \/ dcore' \in DataRequests
  BY DEF Tick, CoreData
<1>2. \/ icore' = icore \/ icore' = NoFetch
      \/ \E a \in FetchAddresses : icore' = [req |-> TRUE, addr |-> a]
  BY DEF Tick, CoreFetch
<1>3. \A r \in DataRequests : r \in Request /\ r.addr \in Address
  BY BusAssumption
<1>4. \A a \in FetchAddresses :
          a \in Address /\ [req |-> TRUE, addr |-> a] \in Fetch
  BY BusAssumption DEF Fetch
<1>5. dcore \in Request /\ icore \in Fetch
  BY DEF CInv, TypeOK
<1>6. /\ dcore.req => dcore.addr \in Address
      /\ icore.req => icore.addr \in Address
  BY DEF CInv, Addresses
<1>7. dcore' \in Request /\ (dcore'.req => dcore'.addr \in Address)
  BY <1>1, <1>3, <1>5, <1>6, RequestTypes
<1>8. icore' \in Fetch /\ (icore'.req => icore'.addr \in Address)
  BY <1>2, <1>4, <1>5, <1>6, RequestTypes
<1> QED
  BY <1>7, <1>8

(* A cycle keeps the boot ROM well typed.                                  *)
LEMMA RomTypes ==
    ASSUME CInv, Tick
    PROVE  /\ Rom!TypeOK'
           /\ rom'.state # "IDLE" => rom'.addr \in Address \cap AddressSpace.BOOT_ROM
<1>1. rom \in [ state   : {"IDLE", "DATA_READOUT", "INSTR_READOUT"},
                addr    : Address \cup {0},
                drvalid : BOOLEAN,  drdata : Word,
                irvalid : BOOLEAN,  irdata : Word ]
  BY WordsAgree DEF CInv, TypeOK, Rom!TypeOK
<1>2. Rom!Step(DSel = "BOOT_ROM", dcore.addr, ISel = "BOOT_ROM", icore.addr)
  BY DEF Tick
<1>3. rom.state # "IDLE" => Rom!Contents(rom.addr) \in Word
  <2>1. SUFFICES ASSUME rom.state # "IDLE"
                 PROVE  RomImage[WordIndex(rom.addr)] \in Word
    BY DEF Rom!Contents, Rom!WordIndex, WordIndex
  <2>2. WordIndex(rom.addr) \in IndexIn(AddressSpace.BOOT_ROM)
    BY <2>1 DEF CInv, Addresses, IndexIn
  <2> QED
    BY <2>2, BusAssumption
<1>4. /\ DSel = "BOOT_ROM" => dcore.addr \in Address \cap AddressSpace.BOOT_ROM
      /\ ISel = "BOOT_ROM" => icore.addr \in Address \cap AddressSpace.BOOT_ROM
  BY SelectedAddress DEF DataSlaves, InstrSlaves
<1>5. CASE Rom!AcceptData(DSel = "BOOT_ROM", dcore.addr)
  BY <1>1, <1>4, <1>5, WordsAgree DEF Rom!AcceptData, Rom!DataGnt, Rom!TypeOK
<1>6. CASE Rom!AcceptInstr(DSel = "BOOT_ROM", ISel = "BOOT_ROM", icore.addr)
  BY <1>1, <1>4, <1>6, WordsAgree DEF Rom!AcceptInstr, Rom!InstrGnt, Rom!TypeOK
<1>7. CASE Rom!Rest(DSel = "BOOT_ROM", ISel = "BOOT_ROM")
  BY <1>1, <1>7, WordsAgree DEF Rom!Rest, Rom!TypeOK
<1>8. CASE Rom!DataReadout
  BY <1>1, <1>3, <1>8, WordsAgree DEF Rom!DataReadout, Rom!TypeOK
<1>9. CASE Rom!InstrReadout
  BY <1>1, <1>3, <1>9, WordsAgree DEF Rom!InstrReadout, Rom!TypeOK
<1> QED
  BY <1>2, <1>5, <1>6, <1>7, <1>8, <1>9 DEF Rom!Step

(* The RAM instances number their words as the memory map does.            *)
LEMMA IndexesAgree ==
    /\ CRam!Index = IndexIn(AddressSpace.CODE_RAM)
    /\ DRam!Index = IndexIn(AddressSpace.DATA_RAM)
    /\ \A a : CRam!WordIndex(a) = WordIndex(a) /\ DRam!WordIndex(a) = WordIndex(a)
  BY DEF CRam!Index, DRam!Index, IndexIn, CRam!IndexIn, DRam!IndexIn,
         CRam!AddressSpace, DRam!AddressSpace, AddressSpace,
         CRam!BaseAddress, DRam!BaseAddress, BaseAddress,
         CRam!Size, DRam!Size, Size,
         WordIndex, CRam!WordIndex, DRam!WordIndex

(* Masked writes keep words words. *)
LEMMA MergedWord ==
    ASSUME NEW old \in Word, NEW be, NEW wdata \in Word
    PROVE  Merge(old, be, wdata) \in Word
  BY DEF Merge, Word

(* The RAM instances mask writes as Memory does.                           *)
LEMMA MergesAgree ==
    ASSUME NEW old, NEW be, NEW wdata
    PROVE  /\ CRam!Merge(old, be, wdata) = Merge(old, be, wdata)
           /\ DRam!Merge(old, be, wdata) = Merge(old, be, wdata)
  BY DEF Merge, CRam!Merge, DRam!Merge

(* The data port selects a RAM only with an address of its own words. *)
LEMMA RamIndexes ==
    ASSUME CInv
    PROVE  /\ DataBus("CODE_RAM").req =>
                 /\ DataBus("CODE_RAM") = dcore
                 /\ WordIndex(dcore.addr) \in CRam!Index
           /\ DataBus("DATA_RAM").req =>
                 /\ DataBus("DATA_RAM") = dcore
                 /\ WordIndex(dcore.addr) \in DRam!Index
           /\ ISel = "CODE_RAM" => WordIndex(icore.addr) \in CRam!Index
<1>1. \A s \in {"CODE_RAM", "DATA_RAM"} : DataBus(s).req => DSel = s
  BY BusRequest DEF DataSlaves
<1>2. \A s \in {"CODE_RAM", "DATA_RAM"} : DSel = s => DataBus(s) = dcore
  BY DEF DataBus
<1>3. \A s \in {"CODE_RAM", "DATA_RAM"} :
          DSel = s => WordIndex(dcore.addr) \in IndexIn(AddressSpace[s])
  BY SelectedAddress DEF DataSlaves, IndexIn
<1>4. ISel = "CODE_RAM" => WordIndex(icore.addr) \in IndexIn(AddressSpace.CODE_RAM)
  BY SelectedAddress DEF InstrSlaves, IndexIn
<1> QED
  BY <1>1, <1>2, <1>3, <1>4, IndexesAgree

(* A cycle keeps the code RAM well typed.                                  *)
LEMMA CodeRamTypes ==
    ASSUME CInv, Tick
    PROVE  CRam!TypeOK'
<1>1. cram \in [mem : [CRam!Index -> Word], rdata : Word,
                drvalid : BOOLEAN, irvalid : BOOLEAN]
  BY WordsAgree DEF CInv, TypeOK, CRam!TypeOK
<1>2. SUFFICES cram' \in [mem : [CRam!Index -> Word], rdata : Word,
                          drvalid : BOOLEAN, irvalid : BOOLEAN]
  BY WordsAgree DEF CRam!TypeOK
<1>3. CRam!Step(DataBus("CODE_RAM"), ISel = "CODE_RAM", icore.addr)
  BY DEF Tick
<1>4. CASE CRam!ServeData(DataBus("CODE_RAM"))
  <2>1. /\ DataBus("CODE_RAM") = dcore
        /\ WordIndex(dcore.addr) \in CRam!Index
    BY <1>4, RamIndexes DEF CRam!ServeData, CRam!DataGnt
  <2>2. dcore.wdata \in Word
    BY DEF CInv, TypeOK, Request
  <2>3. CRam!Read(cram.mem, dcore) \in Word
    BY <1>1, <2>1, IndexesAgree DEF CRam!Read
  <2>4. CRam!Written(cram.mem, dcore) \in [CRam!Index -> Word]
    BY <1>1, <2>1, <2>2, IndexesAgree, MergedWord, MergesAgree DEF CRam!Written
  <2> QED
    BY <1>4, <2>1, <2>3, <2>4 DEF CRam!ServeData
<1>5. CASE CRam!ServeInstr(DataBus("CODE_RAM"), ISel = "CODE_RAM", icore.addr)
  <2>1. cram.mem[CRam!WordIndex(icore.addr)] \in Word
    BY <1>1, <1>5, RamIndexes, IndexesAgree DEF CRam!ServeInstr, CRam!InstrGnt
  <2> QED
    BY <1>1, <1>5, <2>1 DEF CRam!ServeInstr
<1>6. CASE CRam!Rest(DataBus("CODE_RAM"), ISel = "CODE_RAM")
  BY <1>1, <1>6 DEF CRam!Rest
<1> QED
  BY <1>3, <1>4, <1>5, <1>6 DEF CRam!Step

(* A cycle keeps the data RAM well typed.                                  *)
LEMMA DataRamTypes ==
    ASSUME CInv, Tick
    PROVE  DRam!TypeOK'
<1>1. dram \in [mem : [DRam!Index -> Word], rdata : Word, rvalid : BOOLEAN]
  BY WordsAgree DEF CInv, TypeOK, DRam!TypeOK
<1>2. SUFFICES dram' \in [mem : [DRam!Index -> Word], rdata : Word,
                          rvalid : BOOLEAN]
  BY WordsAgree DEF DRam!TypeOK
<1>3. DRam!Step(DataBus("DATA_RAM"))
  BY DEF Tick
<1>4. CASE DRam!Serve(DataBus("DATA_RAM"))
  <2>1. /\ DataBus("DATA_RAM") = dcore
        /\ WordIndex(dcore.addr) \in DRam!Index
    BY <1>4, RamIndexes DEF DRam!Serve, DRam!DataGnt
  <2>2. dcore.wdata \in Word
    BY DEF CInv, TypeOK, Request
  <2>3. DRam!Read(dram.mem, dcore) \in Word
    BY <1>1, <2>1, IndexesAgree DEF DRam!Read
  <2>4. DRam!Written(dram.mem, dcore) \in [DRam!Index -> Word]
    BY <1>1, <2>1, <2>2, IndexesAgree, MergedWord, MergesAgree DEF DRam!Written
  <2> QED
    BY <1>4, <2>1, <2>3, <2>4 DEF DRam!Serve
<1>5. CASE DRam!Rest(DataBus("DATA_RAM"))
  BY <1>1, <1>5 DEF DRam!Rest
<1> QED
  BY <1>3, <1>4, <1>5 DEF DRam!Step

(* A cycle keeps the peripherals' ports well typed.                        *)
LEMMA PeripheralTypes ==
    ASSUME CInv, Tick
    PROVE  Per!TypeOK'
<1>1. per \in [Peripherals -> [rvalid : BOOLEAN, err : BOOLEAN, rdata : Word]]
  BY WordsAgree, PeripheralsAgree DEF CInv, TypeOK, Per!TypeOK
<1>2. SUFFICES per' \in [Peripherals ->
                            [rvalid : BOOLEAN, err : BOOLEAN, rdata : Word]]
  BY WordsAgree, PeripheralsAgree DEF Per!TypeOK
<1>3. Per!ServeOne(DSel, dcore) \/ Per!RestAll(DSel)
  BY DEF Tick, Per!Step
<1>4. ASSUME NEW p \in Peripherals
      PROVE  Per!Rest(p) \in [rvalid : BOOLEAN, err : BOOLEAN, rdata : Word]
  BY <1>1, <1>4 DEF Per!Rest
<1>5. ASSUME NEW p \in Peripherals, NEW w \in Word
      PROVE  Per!Serve(p, dcore, w) \in
                 [rvalid : BOOLEAN, err : BOOLEAN, rdata : Word]
  <2>1. per[p].rdata \in Word
    BY <1>1
  <2>2. (~Per!Valid(p, dcore.addr)) \in BOOLEAN
    OBVIOUS
  <2> QED
    BY <2>1, <2>2 DEF Per!Serve
<1>6. CASE Per!ServeOne(DSel, dcore)
  <2>1. PICK w \in Word :
            per' = [q \in Peripherals |->
                      IF Per!DataGnt(q, DSel) THEN Per!Serve(q, dcore, w)
                                              ELSE Per!Rest(q)]
    BY <1>6, WordsAgree, PeripheralsAgree DEF Per!ServeOne
  <2> QED
    BY <1>4, <1>5, <2>1
<1>7. CASE Per!RestAll(DSel)
  BY <1>4, <1>7, PeripheralsAgree DEF Per!RestAll
<1> QED
  BY <1>3, <1>6, <1>7

(* A cycle keeps both arbiters well typed.                                 *)
LEMMA ArbiterTypes ==
    ASSUME CInv, Tick
    PROVE  DArb!TypeOK' /\ IArb!TypeOK'
<1>1. /\ dslave \in DataSlaves \cup {"INCORRECT"}
      /\ islave \in InstrSlaves \cup {"INCORRECT"}
  BY DEF CInv, TypeOK, DArb!TypeOK, IArb!TypeOK, DArb!Incorrect, IArb!Incorrect
<1>2. /\ DTarget \in DataSlaves \cup {"INCORRECT"}
      /\ ITarget \in InstrSlaves \cup {"INCORRECT"}
  BY DataTargetType, InstrTargetType DEF DTarget, ITarget
<1>3. dslave' = dslave \/ dslave' = DTarget
  BY DataArbiterCycle
<1>4. dstate' \in {"IDLE", "WAITING_FOR_GRANT", "WAITING_FOR_RESPONSE"}
  BY DataArbiterCycle DEF RESPONSE
<1>5. islave' = islave \/ islave' = ITarget
  BY FetchArbiterCycle
<1>6. istate' \in {"IDLE", "WAITING_FOR_GRANT", "WAITING_FOR_RESPONSE"}
  BY FetchArbiterCycle DEF RESPONSE
<1> QED
  BY <1>1, <1>2, <1>3, <1>4, <1>5, <1>6
     DEF DArb!TypeOK, IArb!TypeOK, DArb!Incorrect, IArb!Incorrect

(* The history counters stop at their bound.                               *)
LEMMA WaitTypes ==
    ASSUME CInv, Tick
    PROVE  dwait' \in 0 .. WaitCap /\ iwait' \in 0 .. WaitCap
  BY DEF CInv, TypeOK, Tick, Refused, WaitCap

(* Together: a cycle keeps the whole bus well typed.                       *)
LEMMA TickTypeOK ==
    ASSUME CInv, Tick
    PROVE  TypeOK' /\ Addresses'
<1>1. TypeOK'
  BY CoreTypes, ArbiterTypes, RomTypes, CodeRamTypes, DataRamTypes,
     PeripheralTypes, WaitTypes DEF TypeOK
<1>2. Addresses'
  BY CoreTypes, RomTypes DEF Addresses
<1> QED
  BY <1>1, <1>2

-----------------------------------------------------------------------------
(* A cycle keeps the control invariant. *)
LEMMA RomAnswers ==
    ASSUME CInv, Tick
    PROVE  /\ rom'.drvalid => dstate' = RESPONSE /\ dslave' = "BOOT_ROM"
           /\ rom'.irvalid => istate' = RESPONSE /\ islave' = "BOOT_ROM"
<1>1. rom.state \in {"IDLE", "DATA_READOUT", "INSTR_READOUT"}
  BY DEF CInv, TypeOK, Rom!TypeOK
<1>2. ASSUME rom'.drvalid
      PROVE  dstate' = RESPONSE /\ dslave' = "BOOT_ROM"
  <2>1. rom.state = "DATA_READOUT"
    BY <1>1, <1>2, RomCycle
  <2>2. dstate = RESPONSE /\ dslave = "BOOT_ROM" /\ ~rom.drvalid
    BY <2>1 DEF CInv, RomReads
  <2>3. ~DRvalid
    BY <2>2, DRvalidMeaning DEF SlaveRvalid
  <2> QED
    BY <2>2, <2>3, DataArbiterCycle
<1>3. ASSUME rom'.irvalid
      PROVE  istate' = RESPONSE /\ islave' = "BOOT_ROM"
  <2>1. rom.state = "INSTR_READOUT"
    BY <1>1, <1>3, RomCycle
  <2>2. istate = RESPONSE /\ islave = "BOOT_ROM" /\ ~rom.irvalid
    BY <2>1 DEF CInv, RomReads
  <2>3. ~IRvalid
    BY <2>2, IRvalidMeaning DEF SlaveFetchRvalid
  <2> QED
    BY <2>2, <2>3, FetchArbiterCycle
<1> QED
  BY <1>2, <1>3

(* A cycle keeps every answer with the port it is for.                     *)
LEMMA TickAnswersAreOwned ==
    ASSUME CInv, Tick
    PROVE  AnswersAreOwned'
<1>1. ASSUME NEW s \in DataSlaves, SlaveRvalid(s)'
      PROVE  dstate' = RESPONSE /\ dslave' = s
  <2>1. CASE s = "BOOT_ROM"
    <3>1. rom'.drvalid
      BY <1>1, <2>1 DEF SlaveRvalid
    <3> QED
      BY <2>1, <3>1, RomAnswers
  <2>2. CASE s # "BOOT_ROM"
    <3>1. dcore.req /\ dstate # RESPONSE /\ DTarget = s
      BY <1>1, <2>2, SlaveRvalidCycle, DSelMeaning
    <3>2. DGnt
      BY <2>2, <3>1, DGntMeaning
    <3> QED
      BY <3>1, <3>2, DataArbiterCycle
  <2> QED
    BY <2>1, <2>2
<1>2. ASSUME NEW s \in InstrSlaves, SlaveFetchRvalid(s)'
      PROVE  istate' = RESPONSE /\ islave' = s
  <2>1. CASE s = "BOOT_ROM"
    <3>1. rom'.irvalid
      BY <1>2, <2>1 DEF SlaveFetchRvalid
    <3> QED
      BY <2>1, <3>1, RomAnswers
  <2>2. CASE s # "BOOT_ROM"
    <3>1. s = "CODE_RAM"
      BY <2>2 DEF InstrSlaves
    <3>2. DSel # "CODE_RAM" /\ ISel = "CODE_RAM"
      BY <1>2, <3>1, FetchRvalidCycle
    <3>3. icore.req /\ istate # RESPONSE /\ ITarget = "CODE_RAM"
      BY <3>2, ISelMeaning DEF InstrSlaves
    <3>4. IGnt
      BY <3>2, <3>3, IGntMeaning
    <3> QED
      BY <3>1, <3>3, <3>4, FetchArbiterCycle
  <2> QED
    BY <2>1, <2>2
<1> QED
  BY <1>1, <1>2 DEF AnswersAreOwned, RESPONSE

(* A cycle keeps what an arbiter decoded in line with the core's request.  *)
LEMMA TickHeld ==
    ASSUME CInv, Tick
    PROVE  DataHeld' /\ FetchHeld'
<1>1. ASSUME dstate' = "WAITING_FOR_GRANT"
      PROVE  dcore'.req /\ dslave' = DTarget'
  <2>1. dcore.req /\ ~DGnt /\ dslave' = DTarget
    BY <1>1, DataArbiterCycle DEF RESPONSE
  <2>2. dcore' = dcore
    BY <2>1, CoreHolds
  <2> QED
    BY <2>1, <2>2 DEF DTarget
<1>2. ASSUME istate' = "WAITING_FOR_GRANT"
      PROVE  icore'.req /\ islave' = ITarget'
  <2>1. icore.req /\ ~IGnt /\ islave' = ITarget
    BY <1>2, FetchArbiterCycle DEF RESPONSE
  <2>2. icore' = icore
    BY <2>1, CoreHolds
  <2> QED
    BY <2>1, <2>2 DEF ITarget
<1> QED
  BY <1>1, <1>2 DEF DataHeld, FetchHeld

(* A cycle keeps the boot ROM reading only for a port that waits for it.   *)
LEMMA TickRomReads ==
    ASSUME CInv, Tick
    PROVE  RomReads'
<1>1. rom.state \in {"IDLE", "DATA_READOUT", "INSTR_READOUT"}
  BY DEF CInv, TypeOK, Rom!TypeOK
<1>2. ASSUME rom'.state = "DATA_READOUT"
      PROVE  /\ dstate' = RESPONSE /\ dslave' = "BOOT_ROM"
             /\ ~rom'.drvalid /\ ~rom'.irvalid
  <2>1. /\ rom.state = "IDLE" /\ DSel = "BOOT_ROM"
        /\ ~rom'.drvalid /\ ~rom'.irvalid
    BY <1>1, <1>2, RomCycle
  <2>2. dcore.req /\ dstate # RESPONSE /\ DTarget = "BOOT_ROM"
    BY <2>1, DSelMeaning DEF DataSlaves
  <2>3. DGnt
    BY <2>1, <2>2, DGntMeaning
  <2> QED
    BY <2>1, <2>2, <2>3, DataArbiterCycle
<1>3. ASSUME rom'.state = "INSTR_READOUT"
      PROVE  /\ istate' = RESPONSE /\ islave' = "BOOT_ROM"
             /\ ~rom'.drvalid /\ ~rom'.irvalid
  <2>1. /\ rom.state = "IDLE" /\ DSel # "BOOT_ROM" /\ ISel = "BOOT_ROM"
        /\ ~rom'.drvalid /\ ~rom'.irvalid
    BY <1>1, <1>3, RomCycle
  <2>2. icore.req /\ istate # RESPONSE /\ ITarget = "BOOT_ROM"
    BY <2>1, ISelMeaning DEF InstrSlaves
  <2>3. IGnt
    BY <2>1, <2>2, IGntMeaning
  <2> QED
    BY <2>1, <2>2, <2>3, FetchArbiterCycle
<1> QED
  BY <1>2, <1>3 DEF RomReads

-----------------------------------------------------------------------------
(* Reset and the initial state. *)
Cleared ==
    /\ dcore = NoRequest /\ icore = NoFetch
    /\ DArb!Init /\ IArb!Init
    /\ rom = Rom!AfterReset
    /\ ~cram.drvalid /\ ~cram.irvalid /\ ~dram.rvalid
    /\ \A p \in Peripherals : ~per[p].rvalid

(* A cleared bus satisfies the invariant.                                  *)
LEMMA ClearedCInv == TypeOK /\ Cleared => CInv
<1> SUFFICES ASSUME TypeOK, Cleared PROVE CInv
  OBVIOUS
<1>1. /\ ~dcore.req /\ ~icore.req /\ dstate = "IDLE" /\ istate = "IDLE"
      /\ rom.state = "IDLE" /\ ~rom.drvalid /\ ~rom.irvalid
  BY RequestTypes DEF Cleared, DArb!Init, IArb!Init, Rom!AfterReset
<1>2. ASSUME NEW s \in DataSlaves PROVE ~SlaveRvalid(s)
  BY <1>1 DEF Cleared, SlaveRvalid, DataSlaves
<1>3. ASSUME NEW s \in InstrSlaves PROVE ~SlaveFetchRvalid(s)
  BY <1>1 DEF Cleared, SlaveFetchRvalid
<1>4. AnswersAreOwned
  BY <1>2, <1>3 DEF AnswersAreOwned
<1> QED
  BY <1>1, <1>4 DEF CInv, Addresses, DataHeld, FetchHeld, RomReads

(* The registers' reset values are well typed.                             *)
LEMMA ResetTypes ==
    /\ Rom!AfterReset \in
          [ state   : {"IDLE", "DATA_READOUT", "INSTR_READOUT"},
            addr    : Address \cup {0},
            drvalid : BOOLEAN,  drdata : Word,
            irvalid : BOOLEAN,  irdata : Word ]
    /\ [p \in Peripherals |-> [rvalid |-> FALSE, err |-> FALSE, rdata |-> Zero]]
          \in [Peripherals -> [rvalid : BOOLEAN, err : BOOLEAN, rdata : Word]]
  BY BusAssumption DEF Rom!AfterReset

(* The bus starts cleared.                                                 *)
LEMMA InitCleared == Init => TypeOK /\ Cleared
<1> SUFFICES ASSUME Init PROVE TypeOK /\ Cleared
  OBVIOUS
<1>1. dcore \in Request /\ icore \in Fetch
  BY RequestTypes DEF Init
<1>2. DArb!TypeOK /\ IArb!TypeOK /\ DArb!Init /\ IArb!Init
  BY DEF Init, DArb!Init, IArb!Init, DArb!TypeOK, IArb!TypeOK
<1>3. Rom!TypeOK /\ rom = Rom!AfterReset
  BY ResetTypes, WordsAgree DEF Init, Rom!Init, Rom!TypeOK
<1>4. CRam!TypeOK /\ ~cram.drvalid /\ ~cram.irvalid
  BY BusAssumption, WordsAgree DEF Init, CRam!Init, CRam!TypeOK
<1>5. DRam!TypeOK /\ ~dram.rvalid
  BY BusAssumption, WordsAgree DEF Init, DRam!Init, DRam!TypeOK
<1>6. Per!TypeOK /\ \A p \in Peripherals : ~per[p].rvalid
  BY ResetTypes, WordsAgree, PeripheralsAgree DEF Init, Per!Init, Per!TypeOK
<1>7. dwait \in 0 .. WaitCap /\ iwait \in 0 .. WaitCap
  BY DEF Init, WaitCap
<1> QED
  BY <1>1, <1>2, <1>3, <1>4, <1>5, <1>6, <1>7 DEF TypeOK, Cleared, Init

(* A reset clears the bus.                                                 *)
LEMMA ResetCleared == TypeOK /\ Reset => (TypeOK /\ Cleared)'
<1> SUFFICES ASSUME TypeOK, Reset PROVE (TypeOK /\ Cleared)'
  OBVIOUS
<1>1. (dcore \in Request /\ icore \in Fetch)'
  BY RequestTypes DEF Reset
<1>2. (DArb!TypeOK /\ IArb!TypeOK /\ DArb!Init /\ IArb!Init)'
  BY DEF Reset, DArb!Reset, IArb!Reset, DArb!Init, IArb!Init,
         DArb!TypeOK, IArb!TypeOK
<1>3. (Rom!TypeOK /\ rom = Rom!AfterReset)'
  BY ResetTypes, WordsAgree DEF Reset, Rom!Reset, Rom!TypeOK, Rom!AfterReset
<1>4. (CRam!TypeOK /\ ~cram.drvalid /\ ~cram.irvalid)'
  BY WordsAgree DEF TypeOK, Reset, CRam!Reset, CRam!TypeOK
<1>5. (DRam!TypeOK /\ ~dram.rvalid)'
  BY WordsAgree DEF TypeOK, Reset, DRam!Reset, DRam!TypeOK
<1>6. (Per!TypeOK /\ \A p \in Peripherals : ~per[p].rvalid)'
  BY ResetTypes, WordsAgree, PeripheralsAgree DEF Reset, Per!Reset, Per!TypeOK
<1>7. (dwait \in 0 .. WaitCap /\ iwait \in 0 .. WaitCap)'
  BY DEF Reset, WaitCap
<1> QED
  BY <1>1, <1>2, <1>3, <1>4, <1>5, <1>6, <1>7 DEF TypeOK, Cleared, Reset

(* CInv is inductive. *)
LEMMA StepCInv == CInv /\ [Next]_vars => CInv'
<1> SUFFICES ASSUME CInv, [Next]_vars PROVE CInv'
  OBVIOUS
<1>1. CASE Tick
  BY <1>1, TickTypeOK, TickAnswersAreOwned, TickHeld, TickRomReads DEF CInv
<1>2. CASE Reset
  <2>1. TypeOK' /\ Cleared'
    BY <1>2, ResetCleared DEF CInv
  <2>2. (TypeOK /\ Cleared => CInv)'
    BY ClearedCInv, PTL
  <2> QED
    BY <2>1, <2>2
<1>3. CASE UNCHANGED vars
  <2>1. /\ dcore' = dcore /\ icore' = icore
        /\ dstate' = dstate /\ dslave' = dslave
        /\ istate' = istate /\ islave' = islave
        /\ rom' = rom /\ cram' = cram /\ dram' = dram /\ per' = per
        /\ dwait' = dwait /\ iwait' = iwait
    BY <1>3 DEF vars, arbiters
  <2>2. TypeOK'
    BY <2>1 DEF CInv, TypeOK, DArb!TypeOK, IArb!TypeOK, Rom!TypeOK,
                CRam!TypeOK, DRam!TypeOK, Per!TypeOK
  <2>3. AnswersAreOwned'
    BY <2>1 DEF CInv, AnswersAreOwned, SlaveRvalid, SlaveFetchRvalid
  <2>4. (Addresses /\ DataHeld /\ FetchHeld /\ RomReads)'
    BY <2>1 DEF CInv, Addresses, DataHeld, FetchHeld, RomReads,
                DTarget, ITarget
  <2> QED
    BY <2>2, <2>3, <2>4 DEF CInv
<1> QED
  BY <1>1, <1>2, <1>3 DEF Next

(* The first inductive invariant holds.                                    *)
LEMMA InvariantC == Spec => []CInv
<1>1. Init => CInv
  BY InitCleared, ClearedCInv
<1> QED
  BY <1>1, StepCInv, PTL DEF Spec

-----------------------------------------------------------------------------
(* Every register of the bus keeps its type: in particular no RAM is ever  *)
(* read or written outside its words, whatever addresses the core asks for. *)
THEOREM TypeCorrect == Spec => []TypeOK
<1>1. CInv => TypeOK
  BY DEF CInv
<1> QED
  BY <1>1, InvariantC, PTL

(* A slave answers only the port whose arbiter waits for it.                *)
THEOREM AnswersOwned == Spec => []AnswersAreOwned
<1>1. CInv => AnswersAreOwned
  BY DEF CInv
<1> QED
  BY <1>1, InvariantC, PTL

(* It implies that no answer comes unasked.                                *)
LEMMA SpuriousFromCInv == CInv => NoSpuriousResponse
<1> SUFFICES ASSUME CInv PROVE NoSpuriousResponse
  OBVIOUS
<1>1. DRvalid => dstate = RESPONSE
  BY DEF DRvalid, DSeen, DArb!Answered, CInv, AnswersAreOwned, RESPONSE
<1>2. IRvalid => istate = RESPONSE
  BY DEF IRvalid, ISeen, IArb!Answered, CInv, AnswersAreOwned, RESPONSE
<1> QED
  BY <1>1, <1>2 DEF NoSpuriousResponse, RESPONSE

(* No answer reaches the core on a port with no granted request.            *)
THEOREM NoAnswerUnasked == Spec => []NoSpuriousResponse
  BY InvariantC, SpuriousFromCInv, PTL

-----------------------------------------------------------------------------
(* Progress, cycle by cycle. *)
LEMMA AnsweredPorts ==
    CInv => /\ dstate = RESPONSE /\ dslave = "INCORRECT" => DRvalid
            /\ \A s \in DataSlaves :
                  dstate = RESPONSE /\ dslave = s /\ SlaveRvalid(s) => DRvalid
            /\ istate = RESPONSE /\ islave = "INCORRECT" => IRvalid
            /\ \A s \in InstrSlaves :
                  istate = RESPONSE /\ islave = s /\ SlaveFetchRvalid(s) => IRvalid
  BY DRvalidMeaning, IRvalidMeaning

(* The same in the next state of any step.                                 *)
LEMMA AnsweredNext ==
    CInv /\ [Next]_vars =>
        /\ dstate' = RESPONSE /\ dslave' = "INCORRECT" => DRvalid'
        /\ \A s \in DataSlaves :
              dstate' = RESPONSE /\ dslave' = s /\ SlaveRvalid(s)' => DRvalid'
        /\ istate' = RESPONSE /\ islave' = "INCORRECT" => IRvalid'
        /\ \A s \in InstrSlaves :
              istate' = RESPONSE /\ islave' = s /\ SlaveFetchRvalid(s)' => IRvalid'
<1>1. CInv /\ [Next]_vars => CInv'
  BY StepCInv
<1>2. (CInv => /\ dstate = RESPONSE /\ dslave = "INCORRECT" => DRvalid
               /\ \A s \in DataSlaves :
                     dstate = RESPONSE /\ dslave = s /\ SlaveRvalid(s) => DRvalid
               /\ istate = RESPONSE /\ islave = "INCORRECT" => IRvalid
               /\ \A s \in InstrSlaves :
                     istate = RESPONSE /\ islave = s /\ SlaveFetchRvalid(s)
                         => IRvalid)'
  BY AnsweredPorts, PTL
<1> QED
  BY <1>1, <1>2, Zenon DEF RESPONSE

(* A load or store on the way is answered now or comes out of the boot ROM. *)
LEMMA TickDataServed ==
    ASSUME CInv, WaitsAreServed, Tick, dstate' = RESPONSE
    PROVE  DRvalid' \/ (dslave' = "BOOT_ROM" /\ rom'.state = "DATA_READOUT")
<1>1. /\ dslave' = "INCORRECT" => DRvalid'
      /\ \A s \in DataSlaves : dslave' = s /\ SlaveRvalid(s)' => DRvalid'
  BY AnsweredNext DEF Next
<1>2. CASE dstate = RESPONSE
  <2>1. ~DRvalid /\ dslave' = dslave
    BY <1>2, DataArbiterCycle DEF RESPONSE
  <2>2. dslave = "BOOT_ROM" /\ rom.state = "DATA_READOUT"
    BY <1>2, <2>1 DEF WaitsAreServed, RESPONSE
  <2>3. dslave' = "BOOT_ROM" /\ rom'.drvalid
    BY <2>1, <2>2, RomCycle
  <2>4. "BOOT_ROM" \in DataSlaves /\ SlaveRvalid("BOOT_ROM")'
    BY <2>3 DEF SlaveRvalid, DataSlaves
  <2> QED
    BY <1>1, <2>3, <2>4
<1>3. CASE dstate # RESPONSE
  <2>1. dcore.req /\ DGnt /\ dslave' = DTarget
    BY <1>3, DataArbiterCycle DEF RESPONSE
  <2>2. DTarget \in DataSlaves \cup {"INCORRECT"}
    BY DataTargetType DEF DTarget
  <2>3. CASE DTarget = "INCORRECT"
    BY <1>1, <2>1, <2>3
  <2>4. CASE DTarget = "BOOT_ROM"
    <3>1. rom.state = "IDLE"
      BY <1>3, <2>1, <2>4, DGntMeaning
    <3>2. DSel = "BOOT_ROM"
      BY <1>3, <2>1, <2>4, DSelMeaning DEF DataSlaves
    <3> QED
      BY <2>1, <2>4, <3>1, <3>2, RomCycle
  <2>5. CASE DTarget \in DataSlaves /\ DTarget # "BOOT_ROM"
    <3>1. DSel = DTarget
      BY <1>3, <2>1, <2>5, DSelMeaning
    <3>2. PICK s \in DataSlaves : s = DTarget /\ s # "BOOT_ROM"
      BY <2>5
    <3>3. SlaveRvalid(s)'
      BY <3>1, <3>2, SlaveRvalidCycle
    <3>4. dslave' = s
      BY <2>1, <3>2
    <3> QED
      BY <1>1, <3>2, <3>3, <3>4
  <2> QED
    BY <2>2, <2>3, <2>4, <2>5
<1> QED
  BY <1>2, <1>3

(* After a cycle a waiting instruction port is answered or read for.       *)
LEMMA TickFetchServed ==
    ASSUME CInv, WaitsAreServed, Tick, istate' = RESPONSE
    PROVE  IRvalid' \/ (islave' = "BOOT_ROM" /\ rom'.state = "INSTR_READOUT")
<1>1. /\ islave' = "INCORRECT" => IRvalid'
      /\ \A s \in InstrSlaves : islave' = s /\ SlaveFetchRvalid(s)' => IRvalid'
  BY AnsweredNext DEF Next
<1>2. CASE istate = RESPONSE
  <2>1. ~IRvalid /\ islave' = islave
    BY <1>2, FetchArbiterCycle DEF RESPONSE
  <2>2. islave = "BOOT_ROM" /\ rom.state = "INSTR_READOUT"
    BY <1>2, <2>1 DEF WaitsAreServed, RESPONSE
  <2>3. islave' = "BOOT_ROM" /\ rom'.irvalid
    BY <2>1, <2>2, RomCycle
  <2>4. "BOOT_ROM" \in InstrSlaves /\ SlaveFetchRvalid("BOOT_ROM")'
    BY <2>3 DEF SlaveFetchRvalid, InstrSlaves
  <2> QED
    BY <1>1, <2>3, <2>4
<1>3. CASE istate # RESPONSE
  <2>1. icore.req /\ IGnt /\ islave' = ITarget
    BY <1>3, FetchArbiterCycle DEF RESPONSE
  <2>2. ITarget \in InstrSlaves \cup {"INCORRECT"}
    BY InstrTargetType DEF ITarget
  <2>3. /\ DSel # ITarget
        /\ ITarget = "BOOT_ROM" => rom.state = "IDLE"
    BY <1>3, <2>1, IGntMeaning
  <2>4. CASE ITarget = "INCORRECT"
    BY <1>1, <2>1, <2>4
  <2>5. CASE ITarget = "BOOT_ROM"
    <3>1. ISel = "BOOT_ROM"
      BY <1>3, <2>1, <2>5, ISelMeaning DEF InstrSlaves
    <3> QED
      BY <2>1, <2>3, <2>5, <3>1, RomCycle
  <2>6. CASE ITarget = "CODE_RAM"
    <3>1. ISel = "CODE_RAM"
      BY <1>3, <2>1, <2>6, ISelMeaning DEF InstrSlaves
    <3>2. SlaveFetchRvalid("CODE_RAM")'
      BY <2>3, <2>6, <3>1, FetchRvalidCycle
    <3> QED
      BY <1>1, <2>1, <2>6, <3>2 DEF InstrSlaves
  <2> QED
    BY <2>2, <2>4, <2>5, <2>6 DEF InstrSlaves
<1> QED
  BY <1>2, <1>3

(* How long a request has been refused tells what it waits for: a load or   *)
(* store for the boot ROM, which is free by now; a fetch for the data port, *)
(* which awaits its own answer, and after two cycles for the free boot ROM. *)
Waiting ==
    /\ dwait \in {0, 1} /\ iwait \in {0, 1, 2}
    /\ dwait = 1 => dstate = "WAITING_FOR_GRANT" /\ rom.state = "IDLE"
    /\ iwait # 0 => istate = "WAITING_FOR_GRANT" /\ dstate = RESPONSE
    /\ iwait = 2 => islave = "BOOT_ROM" /\ rom.state = "IDLE"

WInv == CInv /\ WaitsAreServed /\ Waiting

(* A load is refused only while the boot ROM reads, for one cycle.         *)
LEMMA TickDataWait ==
    ASSUME WInv, Tick
    PROVE  /\ dwait' \in {0, 1}
           /\ dwait' = 1 => dstate' = "WAITING_FOR_GRANT" /\ rom'.state = "IDLE"
<1>1. rom.state \in {"IDLE", "DATA_READOUT", "INSTR_READOUT"}
  BY DEF WInv, CInv, TypeOK, Rom!TypeOK
<1>2. CASE dcore.req /\ dstate # RESPONSE /\ ~DGnt
  <2>1. rom.state # "IDLE"
    BY <1>2, DGntMeaning DEF WInv
  <2>2. dwait = 0
    BY <2>1 DEF WInv, Waiting
  <2>3. dwait' = 1
    BY <1>2, <2>2 DEF Tick, Refused, WaitCap, RESPONSE
  <2>4. dstate' = "WAITING_FOR_GRANT"
    BY <1>2, DataArbiterCycle DEF WInv
  <2>5. rom'.state = "IDLE"
    BY <1>1, <2>1, RomCycle DEF WInv
  <2> QED
    BY <2>3, <2>4, <2>5
<1>3. CASE ~(dcore.req /\ dstate # RESPONSE /\ ~DGnt)
  BY <1>3 DEF Tick, Refused, RESPONSE
<1> QED
  BY <1>2, <1>3

(* A fetch is refused for a load of its slave, and for the ROM's read.     *)
LEMMA TickFetchWait ==
    ASSUME WInv, Tick
    PROVE  /\ iwait' \in {0, 1, 2}
           /\ iwait' # 0 => istate' = "WAITING_FOR_GRANT" /\ dstate' = RESPONSE
           /\ iwait' = 2 => islave' = "BOOT_ROM" /\ rom'.state = "IDLE"
<1>1. rom.state \in {"IDLE", "DATA_READOUT", "INSTR_READOUT"}
  BY DEF WInv, CInv, TypeOK, Rom!TypeOK
<1>2. CASE icore.req /\ istate # RESPONSE /\ ~IGnt
  <2>1. DSel = ITarget \/ (ITarget = "BOOT_ROM" /\ rom.state # "IDLE")
    BY <1>2, IGntMeaning DEF WInv
  <2>2. istate' = "WAITING_FOR_GRANT" /\ islave' = ITarget
    BY <1>2, FetchArbiterCycle DEF WInv
  <2>3. CASE ITarget = "BOOT_ROM" /\ rom.state # "IDLE"
    <3>1. rom.state = "DATA_READOUT"
      BY <1>1, <1>2, <2>3 DEF WInv, CInv, RomReads
    <3>2. dstate = RESPONSE /\ dslave = "BOOT_ROM" /\ ~rom.drvalid
      BY <3>1 DEF WInv, CInv, RomReads
    <3>3. ~DRvalid
      BY <3>2, DRvalidMeaning DEF WInv, SlaveRvalid
    <3>4. dstate' = RESPONSE
      BY <3>2, <3>3, DataArbiterCycle DEF WInv
    <3>5. rom'.state = "IDLE"
      BY <3>1, RomCycle DEF WInv
    <3>6. iwait \in {0, 1}
      BY <2>3 DEF WInv, Waiting
    <3>7. iwait' = iwait + 1
      BY <1>2, <3>6 DEF Tick, Refused, WaitCap, RESPONSE
    <3> QED
      BY <2>2, <2>3, <3>4, <3>5, <3>6, <3>7
  <2>4. CASE DSel = ITarget /\ ~(ITarget = "BOOT_ROM" /\ rom.state # "IDLE")
    <3>1. ITarget \in InstrSlaves
      <4>1. ITarget \in InstrSlaves \cup {"INCORRECT"}
        BY InstrTargetType DEF ITarget
      <4>2. DSel # "INCORRECT"
        BY DEF DSel, DArb!Forwarded, DArb!None, DataSlaves, Peripherals
      <4> QED
        BY <2>4, <4>1, <4>2
    <3>2. dcore.req /\ dstate # RESPONSE /\ DTarget = ITarget
      BY <2>4, <3>1, DSelMeaning DEF DataSlaves, InstrSlaves
    <3>3. DGnt
      BY <2>4, <3>2, DGntMeaning DEF WInv
    <3>4. dstate' = RESPONSE
      BY <3>2, <3>3, DataArbiterCycle DEF WInv
    <3>5. iwait = 0
      BY <3>2 DEF WInv, Waiting
    <3>6. iwait' = 1
      BY <1>2, <3>5 DEF Tick, Refused, WaitCap, RESPONSE
    <3> QED
      BY <2>2, <3>4, <3>6
  <2> QED
    BY <2>1, <2>3, <2>4
<1>3. CASE ~(icore.req /\ istate # RESPONSE /\ ~IGnt)
  BY <1>3 DEF Tick, Refused, RESPONSE
<1> QED
  BY <1>2, <1>3

(* An idle bus satisfies the second invariant.                             *)
LEMMA IdleWInv ==
    CInv /\ dstate = "IDLE" /\ istate = "IDLE" /\ dwait = 0 /\ iwait = 0 => WInv
  BY DEF WInv, WaitsAreServed, Waiting

(* Every step keeps the second invariant.                                  *)
LEMMA StepWInv == WInv /\ [Next]_vars => WInv'
<1> SUFFICES ASSUME WInv, [Next]_vars PROVE WInv'
  OBVIOUS
<1>1. CInv'
  BY StepCInv DEF WInv
<1>2. CASE Tick
  <2>1. WaitsAreServed'
    BY <1>2, TickDataServed, TickFetchServed DEF WInv, WaitsAreServed, RESPONSE
  <2>2. Waiting'
    BY <1>2, TickDataWait, TickFetchWait DEF Waiting, RESPONSE
  <2> QED
    BY <1>1, <2>1, <2>2 DEF WInv
<1>3. CASE Reset
  <2>1. (CInv /\ dstate = "IDLE" /\ istate = "IDLE" /\ dwait = 0 /\ iwait = 0)'
    BY <1>1, <1>3 DEF Reset, DArb!Reset, IArb!Reset
  <2>2. (CInv /\ dstate = "IDLE" /\ istate = "IDLE" /\ dwait = 0 /\ iwait = 0
            => WInv)'
    BY IdleWInv, PTL
  <2> QED
    BY <2>1, <2>2
<1>4. CASE UNCHANGED vars
  <2>1. /\ dcore' = dcore /\ icore' = icore
        /\ dstate' = dstate /\ dslave' = dslave
        /\ istate' = istate /\ islave' = islave
        /\ rom' = rom /\ cram' = cram /\ dram' = dram /\ per' = per
        /\ dwait' = dwait /\ iwait' = iwait
    BY <1>4 DEF vars, arbiters
  <2>2. Waiting'
    BY <2>1 DEF WInv, Waiting
  <2>3. DRvalid' = DRvalid /\ IRvalid' = IRvalid
    BY <2>1 DEF DRvalid, IRvalid, DSeen, ISeen, DArb!Answered, IArb!Answered,
                DArb!Attached, IArb!Attached, DTarget, ITarget,
                SlaveRvalid, SlaveFetchRvalid
  <2>4. WaitsAreServed'
    BY <2>1, <2>3 DEF WInv, WaitsAreServed
  <2> QED
    BY <1>1, <2>2, <2>4 DEF WInv
<1> QED
  BY <1>2, <1>3, <1>4 DEF Next

(* The second inductive invariant holds.                                   *)
LEMMA InvariantW == Spec => []WInv
<1>1. Init => WInv
  BY InitCleared, ClearedCInv, IdleWInv
     DEF Init, DArb!Init, IArb!Init
<1> QED
  BY <1>1, StepWInv, PTL DEF Spec

(* Whatever an arbiter waits for is on its way: no port hangs on an answer  *)
(* that no slave is going to give.                                          *)
THEOREM NobodyHangs == Spec => []WaitsAreServed
<1>1. WInv => WaitsAreServed
  BY DEF WInv
<1> QED
  BY <1>1, InvariantW, PTL

(* A load or store is refused for one cycle at most, a fetch for two.       *)
THEOREM WaitsAreBounded == Spec => []BoundedWait
<1>1. WInv => BoundedWait
  BY DEF WInv, Waiting, BoundedWait
<1> QED
  BY <1>1, InvariantW, PTL
-----------------------------------------------------------------------------
(* The refinement.  The instance Mem has copies of the definitions of the  *)
(* memory map, which mean the same.                                        *)
LEMMA MapsAgree ==
    /\ Mem!Word = Word
    /\ Mem!Peripherals = Peripherals
    /\ Mem!NoRequest = NoRequest
    /\ Mem!IndexIn(Mem!AddressSpace.CODE_RAM) = IndexIn(AddressSpace.CODE_RAM)
    /\ Mem!IndexIn(Mem!AddressSpace.DATA_RAM) = IndexIn(AddressSpace.DATA_RAM)
    /\ \A a : /\ Mem!WordIndex(a) = WordIndex(a)
              /\ Rom!WordIndex(a) = WordIndex(a)
<1>1. Mem!Word = Word
  BY DEF Mem!Word, Word
<1>2. Mem!Peripherals = Peripherals
  BY DEF Mem!Peripherals, Peripherals
<1>3. Mem!NoRequest = NoRequest
  BY DEF Mem!NoRequest, NoRequest
<1>4. /\ Mem!IndexIn(Mem!AddressSpace.CODE_RAM) = IndexIn(AddressSpace.CODE_RAM)
      /\ Mem!IndexIn(Mem!AddressSpace.DATA_RAM) = IndexIn(AddressSpace.DATA_RAM)
  BY DEF Mem!IndexIn, IndexIn, Mem!AddressSpace, AddressSpace, Mem!Size, Size,
         Mem!BaseAddress, BaseAddress, Mem!WordIndex, WordIndex
<1>5. \A a : /\ Mem!WordIndex(a) = WordIndex(a)
             /\ Rom!WordIndex(a) = WordIndex(a)
  BY DEF Mem!WordIndex, Rom!WordIndex, WordIndex
<1> QED
  BY <1>1, <1>2, <1>3, <1>4, <1>5

(* So do its decoders.                                                     *)
LEMMA DecodersAgree ==
    ASSUME NEW a
    PROVE  Mem!DataTarget(a) = DataTarget(a) /\ Mem!InstrTarget(a) = InstrTarget(a)
<1>1. Mem!AddressSpace = AddressSpace
  BY DEF Mem!AddressSpace, AddressSpace, Mem!Size, Size, Mem!BaseAddress,
         BaseAddress
<1>2. Mem!DataSlaves = DataSlaves /\ Mem!InstrSlaves = InstrSlaves
  BY DEF Mem!DataSlaves, DataSlaves, Mem!InstrSlaves, InstrSlaves,
         Mem!Peripherals, Peripherals
<1>3. ASSUME NEW slaves PROVE Mem!Decode(slaves, a) = Decode(slaves, a)
  BY <1>1, Zenon DEF Mem!Decode, Decode
<1>4. /\ Mem!Decode(DataSlaves, a) = Decode(DataSlaves, a)
      /\ Mem!Decode(InstrSlaves, a) = Decode(InstrSlaves, a)
  BY <1>3
<1> QED
  BY <1>2, <1>4 DEF Mem!DataTarget, DataTarget, Mem!InstrTarget, InstrTarget

(* And its writes, as those of the two RAMs.                               *)
LEMMA WritesAgree ==
    ASSUME NEW mem, NEW r
    PROVE  /\ Mem!Written(mem, r) = CRam!Written(mem, r)
           /\ Mem!Written(mem, r) = DRam!Written(mem, r)
  BY Zenon
     DEF Mem!Written, CRam!Written, DRam!Written, Mem!Merge, CRam!Merge,
         DRam!Merge, Mem!WordIndex, CRam!WordIndex, DRam!WordIndex

DPort == [asked |-> dcore, owed |-> DOwed, shown |-> DRvalid]
IPort == [asked |-> icore, owed |-> IOwed, shown |-> IRvalid]

(* The cycles in which a port is served.                                   *)
DServed == dcore.req /\ dstate # RESPONSE /\ DGnt
IServed == icore.req /\ istate # RESPONSE /\ IGnt

(* What a port owes, by the state of its arbiter.                          *)
DOwes ==
    /\ dstate # RESPONSE => DOwed = {} /\ ~DRvalid
    /\ dstate = RESPONSE =>
          /\ dslave = "BOOT_ROM" /\ rom.state = "DATA_READOUT" =>
                DOwed = {[err |-> FALSE, rdata |-> RomImage[WordIndex(rom.addr)]]}
          /\ dslave = "BOOT_ROM" /\ rom.state # "DATA_READOUT" =>
                DOwed = {[err |-> FALSE, rdata |-> rom.drdata]}
          /\ dslave = "CODE_RAM" => DOwed = {[err |-> FALSE, rdata |-> cram.rdata]}
          /\ dslave = "DATA_RAM" => DOwed = {[err |-> FALSE, rdata |-> dram.rdata]}
          /\ dslave \in Peripherals =>
                DOwed = {[err |-> per[dslave].err, rdata |-> per[dslave].rdata]}
          /\ dslave = "INCORRECT" => DOwed = {[err |-> TRUE, rdata |-> Zero]}

IOwes ==
    /\ istate # RESPONSE => IOwed = {} /\ ~IRvalid
    /\ istate = RESPONSE =>
          /\ islave = "BOOT_ROM" /\ rom.state = "INSTR_READOUT" =>
                IOwed = {[err |-> FALSE, rdata |-> RomImage[WordIndex(rom.addr)]]}
          /\ islave = "BOOT_ROM" /\ rom.state # "INSTR_READOUT" =>
                IOwed = {[err |-> FALSE, rdata |-> rom.irdata]}
          /\ islave = "CODE_RAM" => IOwed = {[err |-> FALSE, rdata |-> cram.rdata]}
          /\ islave = "INCORRECT" => IOwed = {[err |-> TRUE, rdata |-> Zero]}

(* The mapping says so.                                                    *)
LEMMA PortsOwe == CInv => DOwes /\ IOwes
<1> SUFFICES ASSUME CInv PROVE DOwes /\ IOwes
  OBVIOUS
<1>1. /\ dstate # RESPONSE => DOwed = {} /\ ~DRvalid
      /\ istate # RESPONSE => IOwed = {} /\ ~IRvalid
  <2>1. dstate # RESPONSE => DOwed = {} /\ ~DRvalid
    <3>1. dstate # RESPONSE => DOwed = {}
      BY DEF DOwed, RESPONSE, CInv, RomReads
    <3>2. dstate # RESPONSE => ~DRvalid
      BY SpuriousFromCInv DEF NoSpuriousResponse, RESPONSE
    <3> QED
      BY <3>1, <3>2
  <2>2. istate # RESPONSE => IOwed = {} /\ ~IRvalid
    <3>1. istate # RESPONSE => IOwed = {}
      BY DEF IOwed, RESPONSE, CInv, RomReads
    <3>2. istate # RESPONSE => ~IRvalid
      BY SpuriousFromCInv DEF NoSpuriousResponse, RESPONSE
    <3> QED
      BY <3>1, <3>2
  <2> QED
    BY <2>1, <2>2
<1>2. ASSUME dstate = RESPONSE PROVE DOwes
  <2>1. DSeen = dslave
    BY <1>2 DEF DSeen, DArb!Attached, RESPONSE
  <2>2. CASE dslave = "BOOT_ROM" /\ rom.state = "DATA_READOUT"
    <3>1. DOwed = {[err |-> FALSE, rdata |-> RomImage[WordIndex(rom.addr)]]}
      BY <1>2, <2>2, MapsAgree DEF DOwed, RESPONSE, Rom!Contents
    <3> QED
      BY <1>2, <2>2, <3>1 DEF DOwes, Peripherals
  <2>3. CASE ~(dslave = "BOOT_ROM" /\ rom.state = "DATA_READOUT")
    <3>1. DOwed = {DAnswer}
      BY <1>2, <2>3 DEF DOwed, RESPONSE
    <3>2. CASE dslave = "BOOT_ROM"
      BY <1>2, <2>1, <2>3, <3>1, <3>2 DEF DOwes, DAnswer, Peripherals
    <3>3. CASE dslave = "CODE_RAM"
      BY <1>2, <2>1, <3>1, <3>3 DEF DOwes, DAnswer, Peripherals
    <3>4. CASE dslave = "DATA_RAM"
      BY <1>2, <2>1, <3>1, <3>4 DEF DOwes, DAnswer, Peripherals
    <3>5. CASE dslave \in Peripherals
      <4>1. DAnswer = [err |-> per[dslave].err, rdata |-> per[dslave].rdata]
        BY <2>1, <3>5 DEF DAnswer, Peripherals
      <4> QED
        BY <1>2, <3>1, <3>5, <4>1 DEF DOwes, Peripherals
    <3>6. CASE dslave = "INCORRECT"
      BY <1>2, <2>1, <3>1, <3>6 DEF DOwes, DAnswer, Peripherals
    <3>7. dslave \in DataSlaves \cup {"INCORRECT"}
      BY DEF CInv, TypeOK, DArb!TypeOK, DArb!Incorrect
    <3> QED
      BY <3>2, <3>3, <3>4, <3>5, <3>6, <3>7 DEF DataSlaves
  <2> QED
    BY <2>2, <2>3
<1>3. ASSUME istate = RESPONSE PROVE IOwes
  <2>1. ISeen = islave
    BY <1>3 DEF ISeen, IArb!Attached, RESPONSE
  <2>2. CASE islave = "BOOT_ROM" /\ rom.state = "INSTR_READOUT"
    <3>1. IOwed = {[err |-> FALSE, rdata |-> RomImage[WordIndex(rom.addr)]]}
      BY <1>3, <2>2, MapsAgree DEF IOwed, RESPONSE, Rom!Contents
    <3> QED
      BY <1>3, <2>2, <3>1 DEF IOwes
  <2>3. CASE ~(islave = "BOOT_ROM" /\ rom.state = "INSTR_READOUT")
    <3>1. IOwed = {IAnswer}
      BY <1>3, <2>3 DEF IOwed, RESPONSE
    <3>2. CASE islave = "BOOT_ROM"
      BY <1>3, <2>1, <2>3, <3>1, <3>2 DEF IOwes, IAnswer
    <3>3. CASE islave # "BOOT_ROM"
      BY <1>3, <2>1, <3>1, <3>3 DEF IOwes, IAnswer
    <3> QED
      BY <3>2, <3>3
  <2> QED
    BY <2>2, <2>3
<1> QED
  BY <1>1, <1>2, <1>3 DEF DOwes, IOwes

(* It says so of the next state too.                                       *)
LEMMA PortsOweNext == CInv /\ [Next]_vars => DOwes' /\ IOwes'
<1>1. (CInv => DOwes /\ IOwes)'
  BY PortsOwe, PTL
<1> QED
  BY <1>1, StepCInv

-----------------------------------------------------------------------------
(* A cycle without service.  The core's data port holds its request, and    *)
(* the answer that it is owed is shown or comes out of the boot ROM.        *)
LEMMA DataHolds ==
    ASSUME WInv, Tick, ~DServed
    PROVE  /\ dcore' \in IF dcore.req THEN {dcore} ELSE {NoRequest} \cup DataRequests
           /\ DOwed' = IF DRvalid THEN {} ELSE DOwed
           /\ DOwed' = {} => ~DRvalid'
<1>1. CInv
  BY DEF WInv
<1>2. DOwes /\ DOwes'
  BY <1>1, PortsOwe, PortsOweNext DEF Next
<1>3. dcore.req => ~DGnt
  <2>1. ASSUME dcore.req, dstate = RESPONSE PROVE ~DGnt
    <3>1. \A s \in DataSlaves : ~SlaveGnt(s)
      BY <2>1, SlaveGntMeaning, DSelMeaning
    <3> QED
      BY <2>1, <3>1 DEF DGnt, DArb!Granted, DArb!Incorrect, RESPONSE
  <2> QED
    BY <2>1 DEF DServed
<1>4. dcore' \in IF dcore.req THEN {dcore} ELSE {NoRequest} \cup DataRequests
  BY <1>3 DEF Tick, CoreData
<1>5. CASE dstate = RESPONSE /\ DRvalid
  <2>1. dstate' # RESPONSE
    BY <1>1, <1>5, DataArbiterCycle DEF RESPONSE
  <2> QED
    BY <1>2, <1>4, <1>5, <2>1 DEF DOwes
<1>6. CASE dstate = RESPONSE /\ ~DRvalid
  <2>1. dslave = "BOOT_ROM" /\ rom.state = "DATA_READOUT"
    BY <1>6 DEF WInv, WaitsAreServed, RESPONSE
  <2>2. dstate' = RESPONSE /\ dslave' = "BOOT_ROM"
    BY <1>1, <1>6, <2>1, DataArbiterCycle
  <2>3. rom'.state = "IDLE" /\ rom'.drdata = RomImage[WordIndex(rom.addr)]
    <3>1. Rom!DataReadout
      BY <2>1 DEF Tick, Rom!Step, Rom!AcceptData, Rom!AcceptInstr, Rom!Rest,
                  Rom!DataReadout, Rom!InstrReadout, Rom!DataGnt, Rom!InstrGnt
    <3>2. rom \in [ state   : {"IDLE", "DATA_READOUT", "INSTR_READOUT"},
                    addr    : Address \cup {0},
                    drvalid : BOOLEAN,  drdata : Word,
                    irvalid : BOOLEAN,  irdata : Word ]
      BY <1>1, WordsAgree DEF CInv, TypeOK, Rom!TypeOK
    <3> QED
      BY <3>1, <3>2, MapsAgree DEF Rom!DataReadout, Rom!Contents
  <2>4. DOwed' = {[err |-> FALSE, rdata |-> rom'.drdata]}
    BY <1>2, <2>2, <2>3 DEF DOwes
  <2>5. DOwed = {[err |-> FALSE, rdata |-> RomImage[WordIndex(rom.addr)]]}
    BY <1>2, <1>6, <2>1 DEF DOwes
  <2> QED
    BY <1>4, <1>6, <2>3, <2>4, <2>5
<1>7. CASE dstate # RESPONSE
  <2>1. dstate' # RESPONSE
    BY <1>1, <1>7, DataArbiterCycle DEF DServed, RESPONSE
  <2> QED
    BY <1>2, <1>4, <1>7, <2>1 DEF DOwes
<1> QED
  BY <1>5, <1>6, <1>7

(* The fetches that the core may raise.                                    *)
LEMMA FetchRequests ==
    ASSUME NEW a \in FetchAddresses
    PROVE  [req |-> TRUE, addr |-> a] \in [req : {TRUE}, addr : FetchAddresses]
  BY Zenon

(* So does the instruction port.                                           *)
LEMMA FetchHolds ==
    ASSUME WInv, Tick, ~IServed
    PROVE  /\ icore' \in IF icore.req THEN {icore}
                         ELSE {NoFetch} \cup [req : {TRUE}, addr : FetchAddresses]
           /\ IOwed' = IF IRvalid THEN {} ELSE IOwed
           /\ IOwed' = {} => ~IRvalid'
<1>1. CInv
  BY DEF WInv
<1>2. IOwes /\ IOwes'
  BY <1>1, PortsOwe, PortsOweNext DEF Next
<1>3. icore.req => ~IGnt
  <2>1. ASSUME icore.req, istate = RESPONSE PROVE ~IGnt
    <3>1. \A s \in InstrSlaves : ~SlaveFetchGnt(s)
      BY <2>1, SlaveFetchGntMeaning, ISelMeaning
    <3> QED
      BY <2>1, <3>1 DEF IGnt, IArb!Granted, IArb!Incorrect, RESPONSE
  <2> QED
    BY <2>1 DEF IServed
<1>4. icore' \in IF icore.req THEN {icore}
                ELSE {NoFetch} \cup [req : {TRUE}, addr : FetchAddresses]
  BY <1>3, FetchRequests DEF Tick, CoreFetch
<1>5. CASE istate = RESPONSE /\ IRvalid
  <2>1. istate' # RESPONSE
    BY <1>1, <1>5, FetchArbiterCycle DEF RESPONSE
  <2> QED
    BY <1>2, <1>4, <1>5, <2>1 DEF IOwes
<1>6. CASE istate = RESPONSE /\ ~IRvalid
  <2>1. islave = "BOOT_ROM" /\ rom.state = "INSTR_READOUT"
    BY <1>6 DEF WInv, WaitsAreServed, RESPONSE
  <2>2. istate' = RESPONSE /\ islave' = "BOOT_ROM"
    BY <1>1, <1>6, <2>1, FetchArbiterCycle
  <2>3. rom'.state = "IDLE" /\ rom'.irdata = RomImage[WordIndex(rom.addr)]
    <3>1. Rom!InstrReadout
      BY <2>1 DEF Tick, Rom!Step, Rom!AcceptData, Rom!AcceptInstr, Rom!Rest,
                  Rom!DataReadout, Rom!InstrReadout, Rom!DataGnt, Rom!InstrGnt
    <3>2. rom \in [ state   : {"IDLE", "DATA_READOUT", "INSTR_READOUT"},
                    addr    : Address \cup {0},
                    drvalid : BOOLEAN,  drdata : Word,
                    irvalid : BOOLEAN,  irdata : Word ]
      BY <1>1, WordsAgree DEF CInv, TypeOK, Rom!TypeOK
    <3> QED
      BY <3>1, <3>2, MapsAgree DEF Rom!InstrReadout, Rom!Contents
  <2>4. IOwed' = {[err |-> FALSE, rdata |-> rom'.irdata]}
    BY <1>2, <2>2, <2>3 DEF IOwes
  <2>5. IOwed = {[err |-> FALSE, rdata |-> RomImage[WordIndex(rom.addr)]]}
    BY <1>2, <1>6, <2>1 DEF IOwes
  <2> QED
    BY <1>4, <1>6, <2>3, <2>4, <2>5
<1>7. CASE istate # RESPONSE
  <2>1. istate' # RESPONSE
    BY <1>1, <1>7, FetchArbiterCycle DEF IServed, RESPONSE
  <2> QED
    BY <1>2, <1>4, <1>7, <2>1 DEF IOwes
<1> QED
  BY <1>5, <1>6, <1>7

-----------------------------------------------------------------------------
(* What the memories do with a request.  The boot ROM latches its address. *)
LEMMA RomAccepts ==
    ASSUME CInv, Tick, rom.state = "IDLE"
    PROVE  /\ DSel = "BOOT_ROM" =>
                 rom'.state = "DATA_READOUT" /\ rom'.addr = dcore.addr
           /\ DSel # "BOOT_ROM" /\ ISel = "BOOT_ROM" =>
                 rom'.state = "INSTR_READOUT" /\ rom'.addr = icore.addr
<1>1. rom \in [ state   : {"IDLE", "DATA_READOUT", "INSTR_READOUT"},
                addr    : Address \cup {0},
                drvalid : BOOLEAN,  drdata : Word,
                irvalid : BOOLEAN,  irdata : Word ]
  BY WordsAgree DEF CInv, TypeOK, Rom!TypeOK
<1> QED
  BY <1>1 DEF Tick, Rom!Step, Rom!AcceptData, Rom!AcceptInstr, Rom!Rest,
              Rom!DataReadout, Rom!InstrReadout, Rom!DataGnt, Rom!InstrGnt

(* The code RAM reads for one port, and writes for the data port only.     *)
LEMMA CodeRamServes ==
    ASSUME CInv, Tick
    PROVE  /\ DSel = "CODE_RAM" =>
                 /\ cram'.rdata = cram.mem[WordIndex(dcore.addr)]
                 /\ cram'.mem = Mem!Written(cram.mem, dcore)
           /\ DSel # "CODE_RAM" => cram'.mem = cram.mem
           /\ DSel # "CODE_RAM" /\ ISel = "CODE_RAM" =>
                 cram'.rdata = cram.mem[WordIndex(icore.addr)]
<1>1. cram \in [mem : [CRam!Index -> Word], rdata : Word,
                drvalid : BOOLEAN, irvalid : BOOLEAN]
  BY WordsAgree DEF CInv, TypeOK, CRam!TypeOK
<1>2. CRam!Step(DataBus("CODE_RAM"), ISel = "CODE_RAM", icore.addr)
  BY DEF Tick
<1>3. /\ DataBus("CODE_RAM").req <=> DSel = "CODE_RAM"
      /\ DSel = "CODE_RAM" => DataBus("CODE_RAM") = dcore
  BY BusRequest DEF DataSlaves, DataBus
<1>4. CASE DSel = "CODE_RAM"
  <2>1. CRam!ServeData(dcore)
    BY <1>2, <1>3, <1>4 DEF CRam!Step, CRam!ServeInstr, CRam!Rest, CRam!InstrGnt
  <2>2. CRam!Read(cram.mem, dcore) = cram.mem[WordIndex(dcore.addr)]
    BY IndexesAgree DEF CRam!Read
  <2> QED
    BY <1>4, <2>1, <2>2, WritesAgree DEF CRam!ServeData
<1>5. CASE DSel # "CODE_RAM"
  <2>1. \/ CRam!ServeInstr(DataBus("CODE_RAM"), ISel = "CODE_RAM", icore.addr)
        \/ CRam!Rest(DataBus("CODE_RAM"), ISel = "CODE_RAM")
    BY <1>2, <1>3, <1>5 DEF CRam!Step, CRam!ServeData, CRam!DataGnt
  <2>2. CRam!WordIndex(icore.addr) = WordIndex(icore.addr)
    BY IndexesAgree
  <2> QED
    BY <1>1, <1>5, <2>1, <2>2 DEF CRam!ServeInstr, CRam!Rest
<1> QED
  BY <1>4, <1>5

(* The data RAM serves the data port.                                      *)
LEMMA DataRamServes ==
    ASSUME CInv, Tick
    PROVE  /\ DSel = "DATA_RAM" =>
                 /\ dram'.rdata = dram.mem[WordIndex(dcore.addr)]
                 /\ dram'.mem = Mem!Written(dram.mem, dcore)
           /\ DSel # "DATA_RAM" => dram'.mem = dram.mem
<1>1. dram \in [mem : [DRam!Index -> Word], rdata : Word, rvalid : BOOLEAN]
  BY WordsAgree DEF CInv, TypeOK, DRam!TypeOK
<1>2. DRam!Step(DataBus("DATA_RAM"))
  BY DEF Tick
<1>3. /\ DataBus("DATA_RAM").req <=> DSel = "DATA_RAM"
      /\ DSel = "DATA_RAM" => DataBus("DATA_RAM") = dcore
  BY BusRequest DEF DataSlaves, DataBus
<1>4. CASE DSel = "DATA_RAM"
  <2>1. DRam!Serve(dcore)
    BY <1>2, <1>3, <1>4 DEF DRam!Step, DRam!Rest
  <2>2. DRam!Read(dram.mem, dcore) = dram.mem[WordIndex(dcore.addr)]
    BY IndexesAgree DEF DRam!Read
  <2> QED
    BY <1>4, <2>1, <2>2, WritesAgree DEF DRam!Serve
<1>5. CASE DSel # "DATA_RAM"
  BY <1>1, <1>2, <1>3, <1>5 DEF DRam!Step, DRam!Serve, DRam!Rest, DRam!DataGnt
<1> QED
  BY <1>4, <1>5

(* A cycle in which the core's data port is served.                        *)
LEMMA DataAccepted ==
    ASSUME WInv, Tick, DServed
    PROVE  /\ CInv /\ dstate' = RESPONSE /\ dslave' = DTarget
           /\ DTarget = "BOOT_ROM" => rom.state = "IDLE"
           /\ \A s \in DataSlaves : DSel = s <=> DTarget = s
           /\ dcore' \in {NoRequest} \cup DataRequests
  BY DataArbiterCycle, DGntMeaning, DSelMeaning
     DEF WInv, DServed, Tick, CoreData

(* It owes the word that the addressed slave held.                         *)
LEMMA DataServed ==
    ASSUME WInv, Tick, DServed
    PROVE  \E a \in Mem!DataAnswers(dcore) : DOwed' = {a}
<1> DEFINE p == DTarget
<1>1. /\ CInv /\ dstate' = RESPONSE /\ dslave' = p
      /\ p = "BOOT_ROM" => rom.state = "IDLE"
      /\ \A s \in DataSlaves : DSel = s <=> p = s
  BY DataAccepted
<1>2. DOwes'
  BY <1>1, PortsOweNext DEF Next
<1>3. p \in DataSlaves \cup {"INCORRECT"}
  BY DataTargetType DEF DTarget
<1>4. Mem!DataAnswers(dcore) = IF p \in Peripherals
                               THEN {[err |-> e, rdata |-> w] : e \in BOOLEAN, w \in Word}
                               ELSE Mem!ReadOnlyAnswers(p, dcore.addr)
  BY MapsAgree, DecodersAgree DEF Mem!DataAnswers, Mem!Answer, DTarget
<1>5. CASE p = "INCORRECT"
  <2>1. DOwed' = {[err |-> TRUE, rdata |-> Zero]}
    BY <1>1, <1>2, <1>5 DEF DOwes
  <2>2. Mem!DataAnswers(dcore) = {[err |-> TRUE, rdata |-> Zero]}
    BY <1>4, <1>5 DEF Peripherals, Mem!ReadOnlyAnswers, Mem!Answer
  <2> QED
    BY <2>1, <2>2
<1>6. CASE p = "BOOT_ROM"
  <2>1. rom.state = "IDLE" /\ DSel = "BOOT_ROM"
    BY <1>1, <1>6 DEF DataSlaves
  <2>2. rom'.state = "DATA_READOUT" /\ rom'.addr = dcore.addr
    BY <2>1, RomAccepts, <1>1
  <2>3. DOwed' = {[err |-> FALSE, rdata |-> RomImage[WordIndex(dcore.addr)]]}
    BY <1>1, <1>2, <1>6, <2>2 DEF DOwes
  <2>4. Mem!DataAnswers(dcore) =
            {[err |-> FALSE, rdata |-> RomImage[WordIndex(dcore.addr)]]}
    BY <1>4, <1>6, MapsAgree DEF Peripherals, Mem!ReadOnlyAnswers, Mem!Answer
  <2> QED
    BY <2>3, <2>4
<1>7. CASE p = "CODE_RAM"
  <2>1. DSel = "CODE_RAM"
    BY <1>1, <1>7 DEF DataSlaves
  <2>2. cram'.rdata = cram.mem[WordIndex(dcore.addr)]
    BY <1>1, <2>1, CodeRamServes
  <2>3. DOwed' = {[err |-> FALSE, rdata |-> cram.mem[WordIndex(dcore.addr)]]}
    BY <1>1, <1>2, <1>7, <2>2 DEF DOwes
  <2>4. Mem!DataAnswers(dcore) =
            {[err |-> FALSE, rdata |-> cram.mem[WordIndex(dcore.addr)]]}
    BY <1>4, <1>7, MapsAgree DEF Peripherals, Mem!ReadOnlyAnswers, Mem!Answer
  <2> QED
    BY <2>3, <2>4
<1>8. CASE p = "DATA_RAM"
  <2>1. DSel = "DATA_RAM"
    BY <1>1, <1>8 DEF DataSlaves
  <2>2. dram'.rdata = dram.mem[WordIndex(dcore.addr)]
    BY <1>1, <2>1, DataRamServes
  <2>3. DOwed' = {[err |-> FALSE, rdata |-> dram.mem[WordIndex(dcore.addr)]]}
    BY <1>1, <1>2, <1>8, <2>2 DEF DOwes
  <2>4. Mem!DataAnswers(dcore) =
            {[err |-> FALSE, rdata |-> dram.mem[WordIndex(dcore.addr)]]}
    BY <1>4, <1>8, MapsAgree DEF Peripherals, Mem!ReadOnlyAnswers, Mem!Answer
  <2> QED
    BY <2>3, <2>4
<1>9. CASE p \in Peripherals
  <2>1. DOwed' = {[err |-> per'[p].err, rdata |-> per'[p].rdata]}
    BY <1>1, <1>2, <1>9 DEF DOwes
  <2>2. per'[p] \in [rvalid : BOOLEAN, err : BOOLEAN, rdata : Word]
    BY <1>1, <1>9, PeripheralTypes, WordsAgree, PeripheralsAgree DEF Per!TypeOK
  <2>3. per'[p].err \in BOOLEAN /\ per'[p].rdata \in Word
    BY <2>2
  <2>4. [err |-> per'[p].err, rdata |-> per'[p].rdata] \in Mem!DataAnswers(dcore)
    BY <1>4, <1>9, <2>3
  <2> QED
    BY <2>1, <2>4
<1> QED
  BY <1>3, <1>5, <1>6, <1>7, <1>8, <1>9 DEF DataSlaves

(* A cycle in which its instruction port is: it owes the word that the      *)
(* addressed memory held, and the data port is not served by this memory.  *)
LEMMA FetchServed ==
    ASSUME WInv, Tick, IServed
    PROVE  /\ \E a \in Mem!ReadOnlyAnswers(Mem!InstrTarget(icore.addr), icore.addr) :
                 IOwed' = {a}
           /\ icore' \in {NoFetch} \cup [req : {TRUE}, addr : FetchAddresses]
           /\ DSel # ITarget
<1> DEFINE p == ITarget
<1>1. /\ CInv /\ istate' = RESPONSE /\ islave' = p
      /\ DSel # p
      /\ p = "BOOT_ROM" => rom.state = "IDLE"
      /\ \A s \in InstrSlaves : ISel = s <=> p = s
      /\ icore' \in {NoFetch} \cup [req : {TRUE}, addr : FetchAddresses]
  BY FetchArbiterCycle, IGntMeaning, ISelMeaning, FetchRequests
     DEF WInv, IServed, Tick, CoreFetch
<1>2. IOwes'
  BY <1>1, PortsOweNext DEF Next
<1>3. p \in InstrSlaves \cup {"INCORRECT"}
  BY InstrTargetType DEF ITarget
<1>4. Mem!InstrTarget(icore.addr) = p
  BY DecodersAgree DEF ITarget
<1>5. CASE p = "INCORRECT"
  <2>1. IOwed' = {[err |-> TRUE, rdata |-> Zero]}
    BY <1>1, <1>2, <1>5 DEF IOwes
  <2>2. Mem!ReadOnlyAnswers(p, icore.addr) = {[err |-> TRUE, rdata |-> Zero]}
    BY <1>5 DEF Mem!ReadOnlyAnswers, Mem!Answer
  <2> QED
    BY <1>1, <1>4, <2>1, <2>2
<1>6. CASE p = "BOOT_ROM"
  <2>1. rom.state = "IDLE" /\ ISel = "BOOT_ROM" /\ DSel # "BOOT_ROM"
    BY <1>1, <1>6 DEF InstrSlaves
  <2>2. rom'.state = "INSTR_READOUT" /\ rom'.addr = icore.addr
    BY <2>1, RomAccepts, <1>1
  <2>3. IOwed' = {[err |-> FALSE, rdata |-> RomImage[WordIndex(icore.addr)]]}
    BY <1>1, <1>2, <1>6, <2>2 DEF IOwes
  <2>4. Mem!ReadOnlyAnswers(p, icore.addr) =
            {[err |-> FALSE, rdata |-> RomImage[WordIndex(icore.addr)]]}
    BY <1>6, MapsAgree DEF Mem!ReadOnlyAnswers, Mem!Answer
  <2> QED
    BY <1>1, <1>4, <2>3, <2>4
<1>7. CASE p = "CODE_RAM"
  <2>1. ISel = "CODE_RAM" /\ DSel # "CODE_RAM"
    BY <1>1, <1>7 DEF InstrSlaves
  <2>2. cram'.rdata = cram.mem[WordIndex(icore.addr)]
    BY <1>1, <2>1, CodeRamServes
  <2>3. IOwed' = {[err |-> FALSE, rdata |-> cram.mem[WordIndex(icore.addr)]]}
    BY <1>1, <1>2, <1>7, <2>2 DEF IOwes
  <2>4. Mem!ReadOnlyAnswers(p, icore.addr) =
            {[err |-> FALSE, rdata |-> cram.mem[WordIndex(icore.addr)]]}
    BY <1>7, MapsAgree DEF Mem!ReadOnlyAnswers, Mem!Answer
  <2> QED
    BY <1>1, <1>4, <2>3, <2>4
<1> QED
  BY <1>3, <1>5, <1>6, <1>7 DEF InstrSlaves

-----------------------------------------------------------------------------
(* The abstract data port serves when the data port is granted.            *)
LEMMA ServesData ==
    ASSUME WInv, Tick, DServed
    PROVE  Mem!ServeData
<1>1. /\ CInv
      /\ \A s \in DataSlaves : DSel = s <=> DTarget = s
      /\ dcore' \in {NoRequest} \cup DataRequests
  BY DataAccepted
<1>2. DOwed = {}
  BY <1>1, PortsOwe DEF DOwes, DServed
<1>3. PICK a \in Mem!DataAnswers(dcore) : DOwed' = {a}
  BY DataServed
<1>4. DRvalid' \in BOOLEAN
  BY DEF DRvalid, DArb!Answered
<1>5. /\ cram'.mem = IF DTarget = "CODE_RAM" THEN Mem!Written(cram.mem, dcore)
                                            ELSE cram.mem
      /\ dram'.mem = IF DTarget = "DATA_RAM" THEN Mem!Written(dram.mem, dcore)
                                            ELSE dram.mem
  BY <1>1, CodeRamServes, DataRamServes DEF DataSlaves
<1>6. Mem!CanServe(DPort)
  BY <1>2 DEF Mem!CanServe, DPort, DServed
<1>7. DPort' \in [asked : Mem!Loads,
                  owed  : {{b} : b \in Mem!DataAnswers(dcore)},
                  shown : BOOLEAN]
  BY <1>1, <1>3, <1>4, MapsAgree DEF DPort, Mem!Loads
<1>8. Mem!DataTarget(dcore.addr) = DTarget
  BY DecodersAgree DEF DTarget
<1>9. DPort.asked = dcore
  BY DEF DPort
<1> QED
  BY <1>5, <1>6, <1>7, <1>8, <1>9 DEF Mem!ServeData, Mem!Serve, DPort

(* It holds otherwise.                                                     *)
LEMMA HoldsData ==
    ASSUME WInv, Tick, ~DServed
    PROVE  Mem!HoldData
<1>1. /\ dcore' \in IF dcore.req THEN {dcore} ELSE {NoRequest} \cup DataRequests
      /\ DOwed' = IF DRvalid THEN {} ELSE DOwed
      /\ DOwed' = {} => ~DRvalid'
  BY DataHolds
<1>2. DRvalid' \in BOOLEAN
  BY DEF DRvalid, DArb!Answered
<1>3. CInv
  BY DEF WInv
<1>4. DSel # "CODE_RAM" /\ DSel # "DATA_RAM"
  BY <1>3, DSelMeaning, DGntMeaning DEF DServed, DataSlaves
<1>5. cram'.mem = cram.mem /\ dram'.mem = dram.mem
  BY <1>3, <1>4, CodeRamServes, DataRamServes
<1>6. Mem!StillOwed(DPort) = DOwed'
  BY <1>1 DEF Mem!StillOwed, DPort
<1>7. DPort' \in [asked : IF dcore.req THEN {dcore} ELSE Mem!Loads,
                  owed  : {DOwed'},
                  shown : IF DOwed' = {} THEN {FALSE} ELSE BOOLEAN]
  BY <1>1, <1>2, MapsAgree DEF DPort, Mem!Loads
<1>8. DPort.asked = dcore
  BY DEF DPort
<1> QED
  BY <1>5, <1>6, <1>7, <1>8 DEF Mem!HoldData, Mem!Hold, DPort

(* The abstract instruction port serves when the fetch is granted.         *)
LEMMA ServesFetch ==
    ASSUME WInv, Tick, IServed
    PROVE  Mem!ServeFetch
<1>1. /\ \E a \in Mem!ReadOnlyAnswers(Mem!InstrTarget(icore.addr), icore.addr) :
            IOwed' = {a}
      /\ icore' \in {NoFetch} \cup [req : {TRUE}, addr : FetchAddresses]
  BY FetchServed
<1>2. IOwed = {}
  BY PortsOwe DEF WInv, IOwes, IServed
<1>3. IRvalid' \in BOOLEAN
  BY DEF IRvalid, IArb!Answered
<1>4. Mem!CanServe(IPort)
  BY <1>2 DEF Mem!CanServe, IPort, IServed
<1>5. IPort' \in
          [asked : Mem!Fetches,
           owed  : {{b} : b \in Mem!ReadOnlyAnswers(Mem!InstrTarget(icore.addr),
                                                    icore.addr)},
           shown : BOOLEAN]
  BY <1>1, <1>3 DEF IPort, Mem!Fetches
<1>6. IPort.asked = icore
  BY DEF IPort
<1> QED
  BY <1>4, <1>5, <1>6 DEF Mem!ServeFetch, Mem!Serve, IPort

(* It holds otherwise.                                                     *)
LEMMA HoldsFetch ==
    ASSUME WInv, Tick, ~IServed
    PROVE  Mem!HoldFetch
<1>1. /\ icore' \in IF icore.req THEN {icore}
                    ELSE {NoFetch} \cup [req : {TRUE}, addr : FetchAddresses]
      /\ IOwed' = IF IRvalid THEN {} ELSE IOwed
      /\ IOwed' = {} => ~IRvalid'
  BY FetchHolds
<1>2. IRvalid' \in BOOLEAN
  BY DEF IRvalid, IArb!Answered
<1>3. Mem!StillOwed(IPort) = IOwed'
  BY <1>1 DEF Mem!StillOwed, IPort
<1>4. IPort' \in [asked : IF icore.req THEN {icore} ELSE Mem!Fetches,
                  owed  : {IOwed'},
                  shown : IF IOwed' = {} THEN {FALSE} ELSE BOOLEAN]
  BY <1>1, <1>2 DEF IPort, Mem!Fetches
<1>5. IPort.asked = icore
  BY DEF IPort
<1> QED
  BY <1>3, <1>4, <1>5 DEF Mem!HoldFetch, Mem!Hold, IPort

(* Both ports are served in one cycle only by different memories.          *)
LEMMA NeverBoth ==
    ASSUME WInv, Tick, DServed, IServed
    PROVE  ~ /\ Mem!DataTarget(dcore.addr) \in Mem!Shared
             /\ Mem!DataTarget(dcore.addr) = Mem!InstrTarget(icore.addr)
<1>1. DSel # ITarget /\ \A s \in DataSlaves : DSel = s <=> DTarget = s
  BY FetchServed, DataAccepted
<1> QED
  BY <1>1, DecodersAgree DEF DTarget, ITarget, Mem!Shared, DataSlaves

(* A reset wipes out what the ports asked for and are owed.                *)
LEMMA ResetPorts == CInv /\ Reset => Mem!Next
<1> SUFFICES ASSUME CInv, Reset PROVE Mem!Next
  OBVIOUS
<1>1. DOwes' /\ IOwes'
  BY PortsOweNext DEF Next
<1>2. dstate' # RESPONSE /\ istate' # RESPONSE
  BY DEF Reset, DArb!Reset, IArb!Reset, RESPONSE
<1>3. DOwed' = {} /\ ~DRvalid' /\ IOwed' = {} /\ ~IRvalid'
  BY <1>1, <1>2 DEF DOwes, IOwes
<1>4. DRvalid' \in BOOLEAN /\ IRvalid' \in BOOLEAN
  BY DEF DRvalid, DArb!Answered, IRvalid, IArb!Answered
<1>5. /\ DPort' = [asked |-> Mem!NoRequest, owed |-> {}, shown |-> FALSE]
      /\ IPort' = [asked |-> NoFetch, owed |-> {}, shown |-> FALSE]
  BY <1>3, <1>4, MapsAgree DEF Reset, DPort, IPort
<1>6. cram'.mem = cram.mem /\ dram'.mem = dram.mem
  <2>1. cram \in [mem : [CRam!Index -> Word], rdata : Word,
                  drvalid : BOOLEAN, irvalid : BOOLEAN]
    BY WordsAgree DEF CInv, TypeOK, CRam!TypeOK
  <2>2. dram \in [mem : [DRam!Index -> Word], rdata : Word, rvalid : BOOLEAN]
    BY WordsAgree DEF CInv, TypeOK, DRam!TypeOK
  <2> QED
    BY <2>1, <2>2 DEF Reset, CRam!Reset, DRam!Reset
<1> QED
  BY <1>5, <1>6 DEF Mem!Next, DPort, IPort

(* Every step of the bus is a step of the two-port memory, or none.        *)
LEMMA StepMem == WInv /\ [Next]_vars => [Mem!Next]_(Mem!svars)
<1> SUFFICES ASSUME WInv, [Next]_vars PROVE [Mem!Next]_(Mem!svars)
  OBVIOUS
<1>1. CASE Tick
  <2>1. CASE DServed /\ IServed
    BY <1>1, <2>1, ServesData, ServesFetch, NeverBoth, Zenon DEF Mem!Next, DPort, IPort
  <2>2. CASE DServed /\ ~IServed
    BY <1>1, <2>2, ServesData, HoldsFetch DEF Mem!Next
  <2>3. CASE ~DServed /\ IServed
    BY <1>1, <2>3, HoldsData, ServesFetch DEF Mem!Next
  <2>4. CASE ~DServed /\ ~IServed
    BY <1>1, <2>4, HoldsData, HoldsFetch DEF Mem!Next
  <2> QED
    BY <2>1, <2>2, <2>3, <2>4
<1>2. CASE Reset
  BY <1>2, ResetPorts DEF WInv
<1>3. CASE UNCHANGED vars
  <2>1. /\ dcore' = dcore /\ icore' = icore
        /\ dstate' = dstate /\ dslave' = dslave
        /\ istate' = istate /\ islave' = islave
        /\ rom' = rom /\ cram' = cram /\ dram' = dram /\ per' = per
    BY <1>3 DEF vars, arbiters
  <2>2. DRvalid' = DRvalid /\ IRvalid' = IRvalid
    BY <2>1 DEF DRvalid, IRvalid, DSeen, ISeen, DArb!Answered, IArb!Answered,
                DArb!Attached, IArb!Attached, DTarget, ITarget,
                SlaveRvalid, SlaveFetchRvalid
  <2>3. DOwed' = DOwed /\ IOwed' = IOwed
    BY <2>1 DEF DOwed, IOwed, DAnswer, IAnswer, DSeen, ISeen, DArb!Attached,
                IArb!Attached, DTarget, ITarget, Rom!Contents
  <2> QED
    BY <2>1, <2>2, <2>3 DEF Mem!svars
<1> QED
  BY <1>1, <1>2, <1>3 DEF Next

(* The bus starts as the two-port memory does.                             *)
LEMMA InitMem == Init => Mem!Init
<1> SUFFICES ASSUME Init PROVE Mem!Init
  OBVIOUS
<1>1. CInv
  BY InitCleared, ClearedCInv
<1>2. dstate # RESPONSE /\ istate # RESPONSE
  BY DEF Init, DArb!Init, IArb!Init, RESPONSE
<1>3. DOwed = {} /\ ~DRvalid /\ IOwed = {} /\ ~IRvalid
  BY <1>1, <1>2, PortsOwe DEF DOwes, IOwes
<1>4. DRvalid \in BOOLEAN /\ IRvalid \in BOOLEAN
  BY DEF DRvalid, DArb!Answered, IRvalid, IArb!Answered
<1>5. /\ DPort = [asked |-> Mem!NoRequest, owed |-> {}, shown |-> FALSE]
      /\ IPort = [asked |-> NoFetch, owed |-> {}, shown |-> FALSE]
  BY <1>3, <1>4, MapsAgree DEF Init, DPort, IPort
<1>6. /\ cram.mem \in [IndexIn(AddressSpace.CODE_RAM) -> Word]
      /\ dram.mem \in [IndexIn(AddressSpace.DATA_RAM) -> Word]
  <2>1. cram \in [mem : [CRam!Index -> Word], rdata : Word,
                  drvalid : BOOLEAN, irvalid : BOOLEAN]
    BY <1>1, WordsAgree DEF CInv, TypeOK, CRam!TypeOK
  <2>2. dram \in [mem : [DRam!Index -> Word], rdata : Word, rvalid : BOOLEAN]
    BY <1>1, WordsAgree DEF CInv, TypeOK, DRam!TypeOK
  <2> QED
    BY <2>1, <2>2, IndexesAgree
<1> QED
  BY <1>5, <1>6, MapsAgree DEF Mem!Init, DPort, IPort

(* The bus implements the two-port memory: every request of the core is     *)
(* served once, atomically, by the addressed memory, and answered once, in *)
(* order; the ports are never served by one memory in the same cycle.      *)
THEOREM BusIsMemory == Spec => SharedMemorySpec
<1>1. Init => Mem!Init
  BY InitMem
<1>2. WInv /\ [Next]_vars => [Mem!Next]_(Mem!svars)
  BY StepMem
<1> QED
  BY <1>1, <1>2, InvariantW, PTL DEF Spec, SharedMemorySpec, Mem!Spec
=============================================================================
