---------------------------- MODULE MCBootloader ----------------------------
(***************************************************************************)
(* Two words of code.  The flash holds another one after them.             *)
(***************************************************************************)
EXTENDS Bootloader

MCBytes(n) == [k \in 0 .. 7 |-> (n \div 2 ^ k) % 2]
MCWord(n)  == [j \in 0 .. 3 |-> MCBytes((n + 37 * j) % 256)]

MCFlashImage == [n \in 0 .. 2 |-> MCWord(129 + 16 * n)]
MCHostImage  == [n \in 0 .. 1 |-> MCWord(90 + 71 * n)]
=============================================================================
