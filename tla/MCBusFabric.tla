---------------------------- MODULE MCBusFabric ----------------------------
(***************************************************************************)
(* Small instances of the bus.  Mapped are the addresses of the loads,     *)
(* Stored those of the stores, Fetched those of the instruction fetches.   *)
(* The bytes of a stored word differ, so that a lane taken from the wrong  *)
(* side shows.                                                             *)
(***************************************************************************)
EXTENDS BusFabric, Functions

CONSTANTS Mapped, Stored, Fetched

MCAddress == Mapped \cup Stored \cup Fetched
MCZero == [l \in Lane |-> 0]
MCRomImage == [i \in IndexIn(AddressSpace.BOOT_ROM) |->
                  [l \in Lane |-> CHOOSE b \in Byte : Byte = {0} \/ b # 0]]

Load(a)        == [req |-> TRUE, addr |-> a, we |-> FALSE, be |-> {}, wdata |-> Zero]
Store(a, b, w) == [req |-> TRUE, addr |-> a, we |-> TRUE, be |-> b, wdata |-> w]

MCDataRequests ==
    {Load(a) : a \in Mapped} \cup
    {Store(a, b, w) : a \in Stored, b \in SUBSET Lane \ {{}},
                      w \in {v \in Word : IsInjective(v)}}
=============================================================================
