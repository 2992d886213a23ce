------------------------------- MODULE Memory -------------------------------
(***************************************************************************)
(* The memory map of the SoC (rtl/soc/memory_map.sv) with the two address  *)
(* decoders that use it, the `case (addr) inside` of the data and of the   *)
(* instruction bus arbiter, and the synchronous RAM of the FPGA build      *)
(* (rtl/soc/memories/fpga/ram.sv): a write is masked by the byte enables,  *)
(* a read shows the old word one cycle later, and both hold still when req *)
(* is low.  Addresses are byte addresses; a word is a function from its    *)
(* byte lanes to bytes; the RAM has no reset.                              *)
(***************************************************************************)
EXTENDS Integers

CONSTANTS Address,     \* the byte addresses of the model
          Lane,        \* byte lanes of a word: 0..3 in the code
          Byte,        \* values of a byte
          Zero         \* the word 32'b0

-----------------------------------------------------------------------------
(* Address spaces and decoders. *)
BaseAddress ==
    [ BOOT_ROM |-> 0,        CODE_RAM |-> 65536,    DATA_RAM |-> 1048576,
      GPIO     |-> 16777216, SPI      |-> 16781312, UART     |-> 16785408,
      TIMER    |-> 16789504, PMC      |-> 16842752 ]

Size ==
    [ BOOT_ROM |-> 4096, CODE_RAM |-> 16384, DATA_RAM |-> 16384,
      GPIO     |-> 4096, SPI      |-> 4096,  UART     |-> 4096,
      TIMER    |-> 4096, PMC      |-> 65536 ]

AddressSpace ==
    [s \in DOMAIN Size |-> BaseAddress[s] .. (BaseAddress[s] + Size[s] - 1)]

Peripherals == {"GPIO", "SPI", "UART", "TIMER", "PMC"}
DataSlaves  == {"BOOT_ROM", "CODE_RAM", "DATA_RAM"} \cup Peripherals
InstrSlaves == {"BOOT_ROM", "CODE_RAM"}

(* The slave an address selects, INCORRECT when no address space holds it. *)
Decode(slaves, addr) ==
    IF \E s \in slaves : addr \in AddressSpace[s]
    THEN CHOOSE s \in slaves : addr \in AddressSpace[s]
    ELSE "INCORRECT"

DataTarget(addr)  == Decode(DataSlaves, addr)
(* Faulty variant, for the mutation runs: the decoder of the data port.    *)
InstrTarget_OfDataPort(addr) == Decode(DataSlaves, addr)
InstrTarget(addr) == Decode(InstrSlaves, addr)

(* addr[13:2]: the index of a word in the boot ROM and in a 4096-word RAM. *)
WordIndex(addr) == (addr \div 4) % 4096

-----------------------------------------------------------------------------
(* Words, requests and the RAM. *)
Word == [Lane -> Byte]

(* The words of a memory that the addresses of the model reach.            *)
IndexIn(space) == {WordIndex(a) : a \in Address \cap space}

(* A request of the core's data port.                                      *)
Request == [req : BOOLEAN, addr : Address \cup {0}, we : BOOLEAN,
            be : SUBSET Lane, wdata : Word]
NoRequest == [req |-> FALSE, addr |-> 0, we |-> FALSE, be |-> {},
              wdata |-> Zero]

Merge(old, be, wdata) == [l \in Lane |-> IF l \in be THEN wdata[l] ELSE old[l]]

Written(mem, r) ==
    IF r.we
    THEN [mem EXCEPT ![WordIndex(r.addr)] = Merge(@, r.be, r.wdata)]
    ELSE mem

Read(mem, r) == mem[WordIndex(r.addr)]
=============================================================================
