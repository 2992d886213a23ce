----------------------------- MODULE CodeLoading -----------------------------
(***************************************************************************)
(* What the bootloader is for: the words of the chosen image come into the *)
(* code RAM one after the other, and the software there is started when    *)
(* all of them are in, or when loading is to be skipped.  A load over the  *)
(* UART may be given up, and then nothing is started.                      *)
(***************************************************************************)
EXTENDS Integers

CONSTANTS CodeWords,     \* the words of the code RAM
          Images         \* the words of each source, from 0 on

VARIABLES status, source, stored, ram,
          skip, chosen   \* the switches: skip the load, the source to load from

vars == <<status, source, stored, ram, skip, chosen>>

Unknown == <<>>          \* what no word of an image is

Init ==
    /\ status = "starting" /\ source = "none" /\ stored = 0
    /\ ram = [n \in 0 .. CodeWords - 1 |-> Unknown]
    /\ skip \in BOOLEAN /\ chosen \in DOMAIN Images

Load ==
    /\ status = "starting" /\ ~skip
    /\ status' = "loading" /\ source' = chosen
    /\ UNCHANGED <<stored, ram, skip, chosen>>

Store ==
    /\ status = "loading"
    /\ ram' = [ram EXCEPT ![stored] = Images[source][stored]]
    /\ stored' = stored + 1
    /\ status' = IF stored' = CodeWords THEN "loaded" ELSE "loading"
    /\ UNCHANGED <<source, skip, chosen>>

GiveUp ==
    /\ status = "loading" /\ source = "uart"
    /\ status' = "failed"
    /\ UNCHANGED <<source, stored, ram, skip, chosen>>

Run ==
    /\ status = "loaded" \/ (status = "starting" /\ skip)
    /\ status' = "running"
    /\ UNCHANGED <<source, stored, ram, skip, chosen>>

Next == Load \/ Store \/ GiveUp \/ Run

Spec == Init /\ [][Next]_vars
=============================================================================
