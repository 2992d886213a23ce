-------------------------- MODULE MCLoopController --------------------------
(***************************************************************************)
(* Small instances of the loop controller.  The address of an instruction  *)
(* only enters as the start address of a loop, so three addresses tell the *)
(* loops of a LIFO of two entries apart.  Any stream of instructions may   *)
(* come; disciplined says whether it has been Disciplined since the reset. *)
(***************************************************************************)
EXTENDS LoopController

VARIABLE disciplined     \* history

mcvars == <<vars, disciplined>>

MCInit == Init /\ disciplined = TRUE

MCNext ==
    \/ \E i \in Instr :
          Execute(i) /\ disciplined' = (disciplined /\ Disciplined(i))
    \/ Reset /\ disciplined' = TRUE

MCSpec == MCInit /\ [][MCNext]_mcvars

(* As long as the stream is disciplined, the registers, the LIFO with its  *)
(* late output and the flags execute nested loops (LoopStack); a reset     *)
(* brings them back to that from any state.                                *)
LoopStackWhileDisciplined ==
    Stack!Init /\ [][disciplined' => [Stack!Next]_(Stack!lsvars)]_mcvars
=============================================================================
