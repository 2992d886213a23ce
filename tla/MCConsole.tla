----------------------------- MODULE MCConsole -----------------------------
(***************************************************************************)
(* A console of bytes with one bit, which is the name of the byte; texts   *)
(* are shortened in the proportion of the period: the handler takes nearly *)
(* all of the shortest one, as the real one does.                          *)
(***************************************************************************)
EXTENDS Console

CONSTANTS prompt, p, ing, heart, beat      \* bytes

Named(names) == [k \in 1 .. Len(names) |-> [b \in {0} |-> names[k]]]

MCText == [prompt |-> Named(<<prompt>>),
           ping   |-> Named(<<p, ing>>),
           beat   |-> Named(<<heart, beat>>)]

MCShortText == [MCText EXCEPT !.ping = Named(<<p>>)]
=============================================================================
