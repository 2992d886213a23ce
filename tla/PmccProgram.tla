---------------------------- MODULE PmccProgram ----------------------------
(***************************************************************************)
(* Structured programs of the pixel matrix coprocessor, what they mean and *)
(* how they are assembled, and the coprocessor executing one of them.      *)
(*                                                                         *)
(* A block is a number of stores followed by counted loops, and ends with  *)
(* one more store.  Within a loop the last store of the block is the       *)
(* STOREB that closes the loop: this is the shape for which the loop       *)
(* controller counts right (after an inner loop comes the next loop or the *)
(* end of the outer one).  Every store writes the address of its own       *)
(* instruction, so that the order of the stores can be told from their     *)
(* values.                                                                 *)
(***************************************************************************)
EXTENDS Pmcc, SequencesExt

CONSTANT Programs        \* set of blocks: [stores, loops], each loop a
                         \* [count, body] record

VARIABLES code,          \* the bytes of the code RAM
          meaning,       \* what the program in it should store
          stored         \* history: what has been stored so far

vars == <<pmccvars, code, meaning, stored>>

-----------------------------------------------------------------------------
(* Size in bytes of a block, its loops included. *)
RECURSIVE BlockSize(_)
BlockSize(b) ==
    3 * b.stores + 3 + FoldSeq(LAMBDA l, sum : sum + 2 + BlockSize(l.body), 0, b.loops)

(* Address of the k-th loop of a block that starts at pc. *)
LoopAt(b, pc, k) ==
    pc + 3 * b.stores
       + FoldSeq(LAMBDA l, sum : sum + 2 + BlockSize(l.body), 0,
                 SubSeq(b.loops, 1, k - 1))

Store(op, pc) == <<op, pc % 256, pc \div 256>>
LOOP(n)       == <<64 + n \div 256, n % 256>>

(* The bytes of a block that starts at pc; last is the opcode of its last  *)
(* store.                                                                  *)
RECURSIVE Assemble(_, _, _)
Assemble(b, pc, last) ==
    FlattenSeq([k \in 1 .. b.stores |-> Store(192, pc + 3 * (k - 1))])
    \o FlattenSeq([k \in 1 .. Len(b.loops) |->
           LOOP(b.loops[k].count)
           \o Assemble(b.loops[k].body, LoopAt(b, pc, k) + 2, 128)])
    \o Store(last, pc + BlockSize(b) - 3)

Repeated(s, n) == FlattenSeq([k \in 1 .. n |-> s])

(* What a block stores: the meaning of its loops. *)
RECURSIVE Unroll(_, _)
Unroll(b, pc) ==
    [k \in 1 .. b.stores |-> pc + 3 * (k - 1)]
    \o FlattenSeq([k \in 1 .. Len(b.loops) |->
           Repeated(Unroll(b.loops[k].body, LoopAt(b, pc, k) + 2),
                    b.loops[k].count)])
    \o <<pc + BlockSize(b) - 3>>

(* The code RAM: the block, a WAITT, and zeros. *)
Code(b) ==
    LET bytes == Assemble(b, 0, 192) IN
    [a \in 0 .. PcSize - 1 |-> IF a < Len(bytes) THEN bytes[a + 1] ELSE 0]

-----------------------------------------------------------------------------
ProgramInit ==
    /\ \E program \in Programs :
           /\ code = Code(program)
           /\ meaning = Unroll(program, 0)
    /\ Init(code)
    /\ stored = <<>>

Cycle ==
    /\ Run(FALSE, code)
    /\ stored' = IF Stores THEN Append(stored, Stored) ELSE stored
    /\ UNCHANGED <<code, meaning>>

ProgramSpec == ProgramInit /\ [][Cycle]_vars /\ WF_vars(Cycle)

-----------------------------------------------------------------------------
(* The coprocessor stores what the loops of the program mean, in order and *)
(* nothing else, and it has stored all of it when it comes to the WAITT    *)
(* after the program: every body runs exactly its count of times, at every *)
(* depth of nesting that the LIFO holds.                                   *)
LoopsUnrolled ==
    /\ IsPrefix(stored, meaning)
    /\ Op = "WAITT" => stored = meaning

(* A structured program ends. *)
ProgramEnds == <>[](Op = "WAITT")
=============================================================================
