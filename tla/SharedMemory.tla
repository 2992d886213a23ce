---------------------------- MODULE SharedMemory ----------------------------
(***************************************************************************)
(* What the bus promises to the core, without arbiters, decoders or        *)
(* registers: two ports on one memory.  A port holds the request it asked  *)
(* for until the request is served; serving is atomic, reads the memory as *)
(* it is at that moment, applies a write, and leaves exactly one answer    *)
(* owed to the port; no further request of the port is served before the   *)
(* owed answer has been shown for one cycle.  The two ports are never      *)
(* served by the same shared memory at once.                               *)
(***************************************************************************)
EXTENDS Memory

CONSTANTS RomImage, DataRequests, FetchAddresses, NoFetch

VARIABLES code, data,     \* contents of the two RAMs
          dport, iport    \* [asked, owed, shown] of the two ports

svars == <<code, data, dport, iport>>

Answer(err, rdata) == [err |-> err, rdata |-> rdata]

ReadOnlyAnswers(target, addr) ==
    CASE target = "BOOT_ROM" -> {Answer(FALSE, RomImage[WordIndex(addr)])}
      [] target = "CODE_RAM" -> {Answer(FALSE, code[WordIndex(addr)])}
      [] target = "DATA_RAM" -> {Answer(FALSE, data[WordIndex(addr)])}
      [] OTHER               -> {Answer(TRUE, Zero)}

(* A peripheral answers with whatever its register holds.                  *)
DataAnswers(r) ==
    LET p == DataTarget(r.addr) IN
    IF p \in Peripherals THEN {Answer(e, w) : e \in BOOLEAN, w \in Word}
                         ELSE ReadOnlyAnswers(p, r.addr)

-----------------------------------------------------------------------------
Init ==
    /\ code \in [IndexIn(AddressSpace.CODE_RAM) -> Word]
    /\ data \in [IndexIn(AddressSpace.DATA_RAM) -> Word]
    /\ dport = [asked |-> NoRequest, owed |-> {}, shown |-> FALSE]
    /\ iport = [asked |-> NoFetch,   owed |-> {}, shown |-> FALSE]

CanServe(port) == port.asked.req /\ port.owed = {}

(* The answer owed at the beginning of the cycle, unless it is taken now.  *)
StillOwed(port) == IF port.shown THEN {} ELSE port.owed

(* A port is served: from now on it owes the answer, and it may ask again. *)
Serve(port, nextPort, answers, requests) ==
    /\ CanServe(port)
    /\ nextPort \in [asked : requests, owed : {{a} : a \in answers},
                     shown : BOOLEAN]

(* A cycle in which a port is not served: it may ask, and an owed answer   *)
(* may be shown, or disappear after it was.                                *)
Hold(port, nextPort, requests) ==
    nextPort \in [asked : IF port.asked.req THEN {port.asked} ELSE requests,
                  owed  : {StillOwed(port)},
                  shown : IF StillOwed(port) = {} THEN {FALSE} ELSE BOOLEAN]

Loads   == {NoRequest} \cup DataRequests
Fetches == {NoFetch} \cup [req : {TRUE}, addr : FetchAddresses]

ServeData ==
    /\ Serve(dport, dport', DataAnswers(dport.asked), Loads)
    /\ code' = IF DataTarget(dport.asked.addr) = "CODE_RAM"
               THEN Written(code, dport.asked) ELSE code
    /\ data' = IF DataTarget(dport.asked.addr) = "DATA_RAM"
               THEN Written(data, dport.asked) ELSE data

ServeFetch ==
    Serve(iport, iport',
          ReadOnlyAnswers(InstrTarget(iport.asked.addr), iport.asked.addr),
          Fetches)

HoldData  == Hold(dport, dport', Loads) /\ UNCHANGED <<code, data>>
HoldFetch == Hold(iport, iport', Fetches)

Shared == {"BOOT_ROM", "CODE_RAM"}

Next ==
    \/ ServeData /\ HoldFetch
    \/ HoldData /\ ServeFetch
    \/ HoldData /\ HoldFetch
    \/ /\ ServeData /\ ServeFetch
       /\ ~ /\ DataTarget(dport.asked.addr) \in Shared
            /\ DataTarget(dport.asked.addr) = InstrTarget(iport.asked.addr)
    \/ /\ dport' = [asked |-> NoRequest, owed |-> {}, shown |-> FALSE]
       /\ iport' = [asked |-> NoFetch,   owed |-> {}, shown |-> FALSE]
       /\ UNCHANGED <<code, data>>

Spec == Init /\ [][Next]_svars
=============================================================================
