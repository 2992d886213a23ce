--------------------------- MODULE MCPmccProgram ---------------------------
(***************************************************************************)
(* All structured programs of depth two with up to two inner loops, and    *)
(* nests as deep as the LIFO allows.                                       *)
(***************************************************************************)
EXTENDS PmccProgram

CONSTANTS Counts, MaxStores

Blocks(loopSeqs)  == [stores : 0 .. MaxStores, loops : loopSeqs]
LoopsOver(bodies) == [count : Counts, body : bodies]

Plain  == Blocks({<<>>})
Nested == Blocks(SeqOf(LoopsOver(Plain), 2))
Twice  == Blocks(SeqOf(LoopsOver(Nested), 1))

(* Depth + 1 loops inside each other: one round each but the three         *)
(* innermost ones, which run two.                                          *)
RECURSIVE Nest(_)
Nest(d) ==
    [ stores |-> 0,
      loops  |-> IF d = 0 THEN <<>>
                 ELSE << [count |-> IF d <= 3 THEN 2 ELSE 1,
                          body  |-> Nest(d - 1)] >> ]

MCPrograms == Twice \cup {Nest(Depth + 1)}
=============================================================================
