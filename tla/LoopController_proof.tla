------------------------ MODULE LoopController_proof ------------------------
(***************************************************************************)
(* Proofs about the loop controller, for every size of the code RAM, every *)
(* width of the iteration counter and every depth of the LIFO.             *)
(***************************************************************************)
EXTENDS MCLoopController, TLAPS

USE SizesAssumption

(* The registers hold what their widths allow, and the flags agree with    *)
(* each other.                                                             *)
IInv == TypeOK /\ LifoConsistent

(* Taking an iteration away leaves a loop, by wrapping.                    *)
LEMMA DecrementedLoop ==
    ASSUME NEW l \in Loop
    PROVE  Decremented(l) \in Loop
  BY DEF Decremented, Loop, Iter

(* The body of a LOOP instruction starts at an address.                    *)
LEMMA BodyAddress ==
    ASSUME NEW i \in Instr
    PROVE  BodyOf(i) \in Addr
  BY DEF BodyOf, Addr, Instr

(* The innermost loop is one, register or LIFO output.                     *)
LEMMA InnermostLoop ==
    ASSUME TypeOK
    PROVE  Innermost \in Loop
  BY DEF TypeOK, Innermost

(* The cleared register is well typed.                                     *)
LEMMA NoLoopIsLoop == NoLoop \in Loop
  BY DEF NoLoop, Loop, Addr, Iter

(* The first invariant holds after reset.                                  *)
LEMMA InitIInv == Init => IInv
<1> SUFFICES ASSUME Init PROVE IInv
  OBVIOUS
<1>1. active_loop \in Loop /\ lifo_rdata \in Loop
  BY NoLoopIsLoop DEF Init
<1>2. /\ loop_execution \in BOOLEAN /\ lifo_readout \in BOOLEAN
      /\ full \in BOOLEAN /\ empty \in BOOLEAN
  BY DEF Init
<1>3. elements_counter \in 0 .. Depth
  BY DEF Init
<1>4. taken \in SUBSET Addr /\ opened \in SUBSET Addr
  BY DEF Init
<1>5. TypeOK
  BY <1>1, <1>2, <1>3, <1>4 DEF Init, TypeOK
<1>6. LifoConsistent
  BY DEF Init, LifoConsistent
<1> QED
  BY <1>5, <1>6 DEF IInv

(* A push keeps the LIFO well-typed and its flags right. *)
LEMMA PushLifo ==
    ASSUME IInv, NEW l \in Loop, Push(l)
    PROVE  /\ mem' \in [0 .. Depth - 1 -> Loop]
           /\ elements_counter' \in 0 .. Depth
           /\ full' \in BOOLEAN /\ empty' \in BOOLEAN
           /\ lifo_rdata' \in Loop
           /\ full'  <=> elements_counter' = Depth
           /\ empty' <=> elements_counter' = 0
           /\ ~empty'
<1>1. CASE full
  <2>1. UNCHANGED lifo
    BY <1>1 DEF Push
  <2> QED
    BY <1>1, <2>1 DEF IInv, TypeOK, LifoConsistent, lifo
<1>2. CASE ~full
  <2>1. /\ mem' = [mem EXCEPT ![elements_counter] = l]
        /\ elements_counter' = elements_counter + 1
        /\ empty' = FALSE
        /\ lifo_rdata' = lifo_rdata
    BY <1>2 DEF Push
  <2>2. (full' <=> elements_counter = Depth - 1) /\ full' \in BOOLEAN
    BY <1>2, Zenon DEF Push
  <2>3. elements_counter \in 0 .. Depth - 1
    BY <1>2 DEF IInv, TypeOK, LifoConsistent
  <2>4. mem' \in [0 .. Depth - 1 -> Loop]
    BY <2>1, <2>3 DEF IInv, TypeOK
  <2>5. elements_counter' \in 0 .. Depth /\ elements_counter' # 0
    BY <2>1, <2>3
  <2>6. full' <=> elements_counter' = Depth
    BY <2>1, <2>2, <2>3
  <2> QED
    BY <2>1, <2>2, <2>4, <2>5, <2>6 DEF IInv, TypeOK
<1> QED
  BY <1>1, <1>2

(* So does the pop of a LIFO that is not empty. *)
LEMMA PopLifo ==
    ASSUME IInv, ~empty, Pop
    PROVE  /\ mem' \in [0 .. Depth - 1 -> Loop]
           /\ elements_counter' \in 0 .. Depth
           /\ full' \in BOOLEAN /\ empty' \in BOOLEAN
           /\ lifo_rdata' \in Loop
           /\ full'  <=> elements_counter' = Depth
           /\ empty' <=> elements_counter' = 0
<1>1. elements_counter \in 1 .. Depth
  BY DEF IInv, TypeOK, LifoConsistent
<1>2. /\ lifo_rdata' = mem[elements_counter - 1]
      /\ elements_counter' = elements_counter - 1
      /\ full' = FALSE
      /\ mem' = mem
  BY DEF Pop
<1>3. /\ empty' <=> elements_counter = 1
      /\ empty' \in BOOLEAN /\ full' \in BOOLEAN
  BY <1>2, Zenon DEF Pop
<1>4. elements_counter' \in 0 .. Depth - 1
  BY <1>1, <1>2
<1>5. lifo_rdata' \in Loop /\ mem' \in [0 .. Depth - 1 -> Loop]
  BY <1>1, <1>2 DEF IInv, TypeOK
<1>6. full' <=> elements_counter' = Depth
  BY <1>2, <1>4
<1>7. empty' <=> elements_counter' = 0
  BY <1>1, <1>2, <1>3
<1> QED
  BY <1>3, <1>4, <1>5, <1>6, <1>7

(* Every instruction and the reset keep the first invariant.               *)
LEMMA StepIInv == IInv /\ [Next]_vars => IInv'
<1> SUFFICES ASSUME IInv, [Next]_vars
             PROVE  IInv'
  OBVIOUS
<1> USE DEF IInv
<1>1. ASSUME NEW i \in Instr, Execute(i)
      PROVE  IInv'
  <2>1. instr' \in Instr /\ opened' \in SUBSET Addr
    BY <1>1, BodyAddress DEF Execute, TypeOK
  <2>2. CASE Open(i)
    <3>1. active_loop' \in Loop /\ taken' \in SUBSET Addr /\ lifo_readout' = FALSE
      BY <2>2, BodyAddress DEF Open, Instr, Loop, Iter
    <3>2. CASE InLoop
      <4>1. Push(Innermost) /\ loop_execution' = loop_execution
        BY <2>2, <3>2 DEF Open
      <4>2. loop_execution
        BY <3>2 DEF InLoop, LifoConsistent
      <4> QED
        BY <2>1, <3>1, <4>1, <4>2, InnermostLoop, PushLifo DEF TypeOK, LifoConsistent
    <3>3. CASE ~InLoop
      BY <2>1, <2>2, <3>1, <3>3 DEF Open, TypeOK, LifoConsistent, lifo
    <3> QED
      BY <3>2, <3>3
  <2>3. CASE Repeat(i)
    BY <2>1, <2>3, InnermostLoop, DecrementedLoop
       DEF Repeat, TypeOK, LifoConsistent, lifo, Loop
  <2>4. CASE CloseInner(i)
    <3>1. loop_execution
      BY <2>4 DEF CloseInner, InLoop, LifoConsistent
    <3> QED
      BY <2>1, <2>4, <3>1, PopLifo DEF CloseInner, TypeOK, LifoConsistent
  <2>5. CASE CloseOuter(i)
    BY <2>1, <2>5 DEF CloseOuter, TypeOK, LifoConsistent, lifo
  <2>6. CASE Idle(i)
    BY <2>1, <2>6, DecrementedLoop DEF Idle, TypeOK, LifoConsistent, lifo
  <2>7. CASE Ignore(i)
    BY <2>1, <2>7 DEF Ignore, TypeOK, LifoConsistent, lifo
  <2> QED
    BY <1>1, <2>2, <2>3, <2>4, <2>5, <2>6, <2>7 DEF Execute
<1>2. CASE Reset
  <2>1. active_loop' \in Loop /\ lifo_rdata' \in Loop
    BY <1>2, NoLoopIsLoop DEF Reset
  <2>2. /\ loop_execution' \in BOOLEAN /\ lifo_readout' \in BOOLEAN
        /\ full' \in BOOLEAN /\ empty' \in BOOLEAN
    BY <1>2 DEF Reset
  <2>3. elements_counter' \in 0 .. Depth
    BY <1>2 DEF Reset
  <2>4. taken' \in SUBSET Addr /\ opened' \in SUBSET Addr
    BY <1>2 DEF Reset
  <2>5. TypeOK'
    BY <1>2, <2>1, <2>2, <2>3, <2>4 DEF Reset, TypeOK
  <2>6. LifoConsistent'
    BY <1>2 DEF Reset, LifoConsistent
  <2> QED
    BY <2>5, <2>6
<1>3. CASE UNCHANGED vars
  BY <1>3 DEF vars, lifo, TypeOK, LifoConsistent
<1> QED
  BY <1>1, <1>2, <1>3 DEF Next

(* Every stream of instructions keeps the registers within their widths    *)
(* (pmcc_loop_controller.sv, pmcc_loop_lifo.sv).                           *)
THEOREM TypeCorrect == Spec => []TypeOK
<1>1. IInv /\ [Next]_vars => IInv'
  BY StepIInv
<1>2. IInv => TypeOK
  BY DEF IInv
<1> QED
  BY <1>1, <1>2, InitIInv, PTL DEF Spec

(* Every stream of instructions keeps full, empty, the element counter,    *)
(* lifo_readout and loop_execution consistent.                             *)
THEOREM FlagsAgree == Spec => []LifoConsistent
<1>1. IInv /\ [Next]_vars => IInv'
  BY StepIInv
<1>2. IInv => LifoConsistent
  BY DEF IInv
<1> QED
  BY <1>1, <1>2, InitIInv, PTL DEF Spec

(* The registers a branch can take its target from hold opened loops.      *)
OpenedLoops ==
    /\ loop_execution => active_loop.start_address \in opened
    /\ lifo_readout => lifo_rdata.start_address \in opened
    /\ \A k \in 0 .. elements_counter - 1 : mem[k].start_address \in opened

(* For stale branches the inductive invariant adds where the targets come  *)
(* from: every loop the controller can branch in was opened.               *)
TInv == IInv /\ OpenedLoops /\ NoStaleBranch

(* While a loop is executed, its start was opened by a LOOP.               *)
LEMMA InnermostOpened ==
    ASSUME IInv, OpenedLoops, InLoop
    PROVE  Innermost.start_address \in opened
  BY DEF IInv, OpenedLoops, InLoop, Innermost

(* The second invariant holds after reset.                                 *)
LEMMA InitTInv == Init => TInv
<1> SUFFICES ASSUME Init PROVE TInv
  OBVIOUS
<1>1. IInv
  BY InitIInv
<1>2. OpenedLoops /\ NoStaleBranch
  BY DEF Init, OpenedLoops, NoStaleBranch
<1> QED
  BY <1>1, <1>2 DEF TInv

(* A push adds an opened loop, or nothing when the LIFO is full. *)
LEMMA PushOpened ==
    ASSUME IInv, OpenedLoops, NEW l \in Loop, l.start_address \in opened, Push(l)
    PROVE  \A k \in 0 .. elements_counter' - 1 : mem'[k].start_address \in opened
<1>1. CASE full
  BY <1>1 DEF Push, lifo, OpenedLoops
<1>2. CASE ~full
  <2>1. /\ mem' = [mem EXCEPT ![elements_counter] = l]
        /\ elements_counter' = elements_counter + 1
    BY <1>2 DEF Push
  <2>2. elements_counter \in 0 .. Depth - 1 /\ mem \in [0 .. Depth - 1 -> Loop]
    BY <1>2 DEF IInv, TypeOK, LifoConsistent
  <2>3. TAKE k \in 0 .. elements_counter' - 1
  <2>4. CASE k = elements_counter
    BY <2>1, <2>2, <2>4
  <2>5. CASE k # elements_counter
    <3>1. k \in 0 .. elements_counter - 1
      BY <2>1, <2>2, <2>5
    <3>2. mem'[k] = mem[k]
      BY <2>1, <2>2, <2>5, <3>1
    <3> QED
      BY <3>1, <3>2 DEF OpenedLoops
  <2> QED
    BY <2>4, <2>5
<1> QED
  BY <1>1, <1>2

(* Every instruction and the reset keep the second invariant.              *)
LEMMA StepTInv == TInv /\ [Next]_vars => TInv'
<1> SUFFICES ASSUME TInv, [Next]_vars
             PROVE  TInv'
  OBVIOUS
<1> USE DEF TInv
<1>1. IInv'
  BY StepIInv
<1>2. ASSUME NEW i \in Instr, Execute(i)
      PROVE  OpenedLoops' /\ NoStaleBranch'
  <2>1. opened \subseteq opened'
    BY <1>2 DEF Execute
  <2>2. CASE Open(i)
    <3>1. /\ active_loop'.start_address \in opened'
          /\ taken' = {} /\ lifo_readout' = FALSE
      BY <1>2, <2>2 DEF Open, Execute
    <3>2. CASE InLoop
      <4>1. Push(Innermost) /\ loop_execution' = loop_execution
        BY <2>2, <3>2 DEF Open
      <4>2. \A k \in 0 .. elements_counter' - 1 : mem'[k].start_address \in opened
        BY <3>2, <4>1, InnermostLoop, InnermostOpened, PushOpened DEF IInv
      <4> QED
        BY <2>1, <3>1, <4>2 DEF OpenedLoops, NoStaleBranch
    <3>3. CASE ~InLoop
      <4>1. UNCHANGED lifo
        BY <2>2, <3>3 DEF Open
      <4> QED
        BY <2>1, <3>1, <4>1 DEF OpenedLoops, NoStaleBranch, lifo
    <3> QED
      BY <3>2, <3>3
  <2>3. CASE Repeat(i)
    <3>1. Innermost.start_address \in opened /\ Innermost \in Loop
      BY <2>3, InnermostOpened, InnermostLoop DEF Repeat, IInv
    <3>2. active_loop'.start_address = Innermost.start_address
      BY <2>3, <3>1 DEF Repeat, Decremented, Loop
    <3> QED
      BY <2>1, <2>3, <3>1, <3>2 DEF Repeat, OpenedLoops, NoStaleBranch, lifo
  <2>4. CASE CloseInner(i)
    <3>1. /\ elements_counter \in 1 .. Depth
          /\ lifo_rdata' = mem[elements_counter - 1]
          /\ elements_counter' = elements_counter - 1
          /\ mem' = mem
      BY <2>4 DEF CloseInner, Pop, IInv, TypeOK, LifoConsistent
    <3>2. lifo_rdata'.start_address \in opened
      BY <3>1 DEF OpenedLoops
    <3> QED
      BY <2>1, <2>4, <3>1, <3>2 DEF CloseInner, OpenedLoops, NoStaleBranch
  <2>5. CASE CloseOuter(i)
    BY <2>1, <2>5 DEF CloseOuter, OpenedLoops, NoStaleBranch, lifo
  <2>6. CASE Idle(i)
    <3>1. lifo_readout => active_loop'.start_address = lifo_rdata.start_address
      BY <2>6 DEF Idle, Decremented, IInv, TypeOK, Loop
    <3>2. ~lifo_readout => active_loop' = active_loop
      BY <2>6 DEF Idle
    <3> QED
      BY <2>1, <2>6, <3>1, <3>2 DEF Idle, OpenedLoops, NoStaleBranch, lifo
  <2>7. CASE Ignore(i)
    BY <2>1, <2>7 DEF Ignore, OpenedLoops, NoStaleBranch, lifo
  <2> QED
    BY <1>2, <2>2, <2>3, <2>4, <2>5, <2>6, <2>7 DEF Execute
<1>3. CASE Reset
  <2>1. /\ elements_counter' = 0 /\ ~loop_execution' /\ ~lifo_readout'
        /\ taken' = {} /\ opened' = {}
    BY <1>3 DEF Reset
  <2>2. \A k \in 0 .. elements_counter' - 1 : mem'[k].start_address \in opened'
    BY <2>1
  <2>3. OpenedLoops' /\ NoStaleBranch'
    BY <2>1, <2>2 DEF OpenedLoops, NoStaleBranch
  <2> QED
    BY <1>1, <2>3
<1>4. CASE UNCHANGED vars
  BY <1>1, <1>4 DEF vars, lifo, OpenedLoops, NoStaleBranch
<1> QED
  BY <1>1, <1>2, <1>3, <1>4 DEF Next

(* No program, however it nests, branches or overflows the LIFO, makes the *)
(* controller branch to an address that no LOOP has set up.                *)
THEOREM BranchesAreFresh == Spec => []NoStaleBranch
<1>1. TInv /\ [Next]_vars => TInv'
  BY StepTInv
<1>2. TInv => NoStaleBranch
  BY DEF TInv
<1> QED
  BY <1>1, <1>2, InitTInv, PTL DEF Spec
-----------------------------------------------------------------------------
(* The refinement of nested loops.  Appending to a stack and taking the    *)
(* last entry off are inverses.                                            *)
LEMMA AppendedLast ==
    ASSUME NEW S, NEW s \in Seq(S), NEW x \in S
    PROVE  /\ Append(s, x) # <<>>
           /\ Append(s, x)[Len(Append(s, x))] = x
           /\ SubSeq(Append(s, x), 1, Len(Append(s, x)) - 1) = s
<1>1. Append(s, x) \in Seq(S) /\ Len(Append(s, x)) = Len(s) + 1
  OBVIOUS
<1>2. Append(s, x)[Len(s) + 1] = x
  OBVIOUS
<1>3. \A k \in 1 .. Len(s) : Append(s, x)[k] = s[k]
  OBVIOUS
<1>4. SubSeq(Append(s, x), 1, Len(s)) = s
  BY <1>1, <1>3
<1> QED
  BY <1>1, <1>2, <1>4

(* A sequence with one entry more, as a function.                          *)
LEMMA AppendedFunction ==
    ASSUME NEW n \in Nat, NEW S, NEW s \in Seq(S), Len(s) = n, NEW x \in S
    PROVE  [k \in 1 .. n + 1 |-> IF k = n + 1 THEN x ELSE s[k]] = Append(s, x)
<1> DEFINE f == [k \in 1 .. n + 1 |-> IF k = n + 1 THEN x ELSE s[k]]
<1>1. f \in [1 .. n + 1 -> S]
  OBVIOUS
<1>2. Append(s, x) \in [1 .. n + 1 -> S]
  <2>1. Append(s, x) \in Seq(S) /\ Len(Append(s, x)) = n + 1
    OBVIOUS
  <2>2. \A t \in Seq(S) : t \in [1 .. Len(t) -> S]
    OBVIOUS
  <2>3. Append(s, x) \in [1 .. Len(Append(s, x)) -> S]
    BY <2>1, <2>2, Zenon
  <2> QED
    BY <2>1, <2>3, Zenon
<1>3. ASSUME NEW k \in 1 .. n + 1
      PROVE  Append(s, x)[k] = IF k = n + 1 THEN x ELSE s[k]
  OBVIOUS
<1>4. \A k \in 1 .. n + 1 : f[k] = Append(s, x)[k]
  BY <1>3
<1> HIDE DEF f
<1>5. f = Append(s, x)
  BY <1>1, <1>2, <1>4
<1> QED
  BY <1>5 DEF f

(* The entries of LoopStack, and those that are on the LIFO.               *)
Frame  == [start : Addr, owed : Iter]
Abs(l) == [start |-> l.start_address, owed |-> l.iterations]
Stored == [k \in 1 .. elements_counter |-> Abs(mem[k - 1])]

(* The LIFO holds a stack of loops.                                        *)
LEMMA StoredStack ==
    ASSUME IInv
    PROVE  /\ Stored \in Seq(Frame) /\ Len(Stored) = elements_counter
           /\ Abs(Innermost) \in Frame
           /\ Loops = IF loop_execution THEN Append(Stored, Abs(Innermost))
                                        ELSE <<>>
<1>1. \A l \in Loop : Abs(l) \in Frame
  BY DEF Loop, Abs, Frame
<1>2. elements_counter \in 0 .. Depth /\ mem \in [0 .. Depth - 1 -> Loop]
  BY DEF IInv, TypeOK
<1>3. \A k \in 1 .. elements_counter : Abs(mem[k - 1]) \in Frame
  <2> TAKE k \in 1 .. elements_counter
  <2>1. k - 1 \in 0 .. Depth - 1
    BY <1>2
  <2> QED
    BY <1>1, <1>2, <2>1
<1>4. Stored \in [1 .. elements_counter -> Frame]
  BY <1>3 DEF Stored
<1>5. Stored \in Seq(Frame) /\ Len(Stored) = elements_counter
  BY <1>2, <1>4
<1>6. Loops = IF loop_execution THEN Append(Stored, Abs(Innermost)) ELSE <<>>
  BY DEF Loops, Stored, Abs, IInv, TypeOK
<1> QED
  BY <1>1, <1>5, <1>6, InnermostLoop DEF IInv

(* What the abstract stack sees of the open loops.                         *)
LEMMA StackSeen ==
    ASSUME IInv
    PROVE  /\ loop_execution => /\ Loops # <<>>
                                /\ Stack!Innermost = Abs(Innermost)
                                /\ Stack!Outer = Stored
           /\ ~loop_execution => Loops = <<>>
  BY StoredStack, AppendedLast DEF Stack!Innermost, Stack!Outer

(* The next state's loops, by the same mapping.                            *)
LEMMA LoopsNext ==
    ASSUME IInv, [Next]_vars
    PROVE  Loops' = IF loop_execution' THEN Append(Stored', Abs(Innermost)')
                                       ELSE <<>>
<1>1. (IInv => Loops = IF loop_execution THEN Append(Stored, Abs(Innermost))
                                         ELSE <<>>)'
  BY StoredStack, PTL
<1> QED
  BY <1>1, StepIInv

(* A disciplined instruction does what LoopStack says of it.               *)
LEMMA ExecutesLoops ==
    ASSUME IInv, NEW i \in Instr, Execute(i), Disciplined(i)
    PROVE  Stack!Execute(i)
<1>1. Loops' = IF loop_execution' THEN Append(Stored', Abs(Innermost)') ELSE <<>>
  BY LoopsNext DEF Next
<1>2. /\ lifo_readout => loop_execution
      /\ ~loop_execution => elements_counter = 0
      /\ full <=> elements_counter = Depth
      /\ empty <=> elements_counter = 0
  BY DEF IInv, LifoConsistent
<1>3. elements_counter \in 0 .. Depth /\ mem \in [0 .. Depth - 1 -> Loop]
  BY DEF IInv, TypeOK
<1>4. InLoop <=> loop_execution
  BY <1>2 DEF InLoop
<1>5. Innermost \in Loop
  BY InnermostLoop DEF IInv
<1>6. UNCHANGED lifo => Stored' = Stored
  BY DEF lifo, Stored
<1>7. CASE Open(i)
  <2>1. /\ active_loop' = [start_address |-> BodyOf(i), iterations |-> i.count - 1]
        /\ ~lifo_readout' /\ i.op = "LOOP" /\ i.count > 0 /\ taken' = {}
    BY <1>7 DEF Open
  <2>2. Abs(Innermost)' = [start |-> (i.pc + 2) % PcSize, owed |-> i.count - 1]
    BY <2>1 DEF Abs, Innermost, BodyOf
  <2>3. loop_execution' /\ Loops' = Append(Loops, Abs(Innermost)')
    <3>1. CASE ~loop_execution
      <4>1. loop_execution' /\ UNCHANGED lifo
        BY <1>4, <1>7, <3>1 DEF Open
      <4>2. Stored' = <<>>
        BY <1>2, <1>6, <3>1, <4>1 DEF Stored
      <4> QED
        BY <1>1, <3>1, <4>1, <4>2, StackSeen
    <3>2. CASE loop_execution
      <4>1. ~full /\ Push(Innermost) /\ loop_execution'
        BY <1>4, <1>7, <2>1, <3>2 DEF Open, Disciplined
      <4>2. /\ mem' = [mem EXCEPT ![elements_counter] = Innermost]
            /\ elements_counter' = elements_counter + 1
        BY <4>1 DEF Push
      <4>3. elements_counter \in 0 .. Depth - 1
        BY <1>2, <1>3, <4>1
      <4>4. \A k \in 1 .. elements_counter + 1 :
                Abs(mem'[k - 1]) = IF k = elements_counter + 1
                                   THEN Abs(Innermost) ELSE Abs(mem[k - 1])
        BY <1>3, <4>2, <4>3
      <4>5. Stored' = [k \in 1 .. elements_counter + 1 |->
                          IF k = elements_counter + 1
                          THEN Abs(Innermost) ELSE Abs(mem[k - 1])]
        BY <4>2, <4>4 DEF Stored
      <4>6. Stored' = Append(Stored, Abs(Innermost))
        <5>1. Stored' = [k \in 1 .. elements_counter + 1 |->
                            IF k = elements_counter + 1
                            THEN Abs(Innermost) ELSE Stored[k]]
          <6>1. \A k \in 1 .. elements_counter : Abs(mem[k - 1]) = Stored[k]
            BY DEF Stored
          <6>2. \A k \in 1 .. elements_counter + 1 :
                    k = elements_counter + 1 \/ k \in 1 .. elements_counter
            BY <1>3
          <6> QED
            BY <4>5, <6>1, <6>2
        <5> QED
          BY <1>3, <5>1, StoredStack, AppendedFunction
      <4>7. Loops = Append(Stored, Abs(Innermost))
        BY <3>2, StoredStack
      <4> QED
        BY <1>1, <4>1, <4>6, <4>7
    <3> QED
      BY <3>1, <3>2
  <2>4. Stack!Open(i)
    BY <2>1, <2>2, <2>3 DEF Stack!Open
  <2> QED
    BY <2>4 DEF Execute, Stack!Execute
<1>8. CASE Repeat(i)
  <2>1. /\ i.op = "BRANCH" /\ loop_execution /\ Innermost.iterations > 0
        /\ active_loop' = Decremented(Innermost)
        /\ taken' = {Innermost.start_address}
        /\ ~lifo_readout' /\ loop_execution' /\ UNCHANGED lifo
    BY <1>4, <1>8 DEF Repeat
  <2>2. Decremented(Innermost) =
            [start_address |-> Innermost.start_address,
             iterations    |-> Innermost.iterations - 1]
    BY <1>5, <2>1 DEF Decremented, Loop, Iter
  <2>3. Abs(Innermost)' = [start |-> Innermost.start_address,
                           owed  |-> Innermost.iterations - 1]
    BY <2>1, <2>2 DEF Abs, Innermost
  <2>4. Loops' = Append(Stored, Abs(Innermost)')
    BY <1>1, <1>6, <2>1
  <2>5. Stack!Innermost = Abs(Innermost) /\ Stack!Outer = Stored /\ Loops # <<>>
    BY <2>1, StackSeen
  <2>6. Stack!Repeat(i)
    BY <2>1, <2>3, <2>4, <2>5 DEF Stack!Repeat, Abs
  <2> QED
    BY <2>6 DEF Execute, Stack!Execute
<1>9. CASE CloseInner(i)
  <2>1. /\ i.op = "BRANCH" /\ loop_execution /\ Innermost.iterations = 0
        /\ ~empty /\ Pop /\ lifo_readout' /\ loop_execution' /\ taken' = {}
    BY <1>4, <1>9 DEF CloseInner
  <2>2. /\ lifo_rdata' = mem[elements_counter - 1]
        /\ elements_counter' = elements_counter - 1
        /\ mem' = mem
    BY <2>1 DEF Pop
  <2>3. elements_counter \in 1 .. Depth
    BY <1>2, <1>3, <2>1
  <2>4. Abs(Innermost)' = Abs(mem[elements_counter - 1])
    BY <2>1, <2>2 DEF Abs, Innermost
  <2>5. Stored' = [k \in 1 .. elements_counter - 1 |-> Abs(mem[k - 1])]
    BY <2>2 DEF Stored
  <2>6. Append(Stored', Abs(mem[elements_counter - 1])) = Stored
    <3>1. \A k \in 1 .. elements_counter - 1 : Abs(mem[k - 1]) = Stored[k]
      BY <2>3 DEF Stored
    <3>2. Abs(mem[elements_counter - 1]) = Stored[elements_counter]
      BY <2>3 DEF Stored
    <3>3. Stored' = SubSeq(Stored, 1, elements_counter - 1)
      BY <2>3, <2>5, <3>1, StoredStack
    <3> QED
      BY <2>3, <3>2, <3>3, StoredStack
  <2>7. Loops' = Stored
    BY <1>1, <2>1, <2>4, <2>6
  <2>8. Stack!Innermost = Abs(Innermost) /\ Stack!Outer = Stored /\ Loops # <<>>
    BY <2>1, StackSeen
  <2>9. Stack!Close(i)
    BY <2>1, <2>7, <2>8 DEF Stack!Close, Abs
  <2> QED
    BY <2>9 DEF Execute, Stack!Execute
<1>10. CASE CloseOuter(i)
  <2>1. /\ i.op = "BRANCH" /\ loop_execution /\ Innermost.iterations = 0
        /\ empty /\ ~loop_execution' /\ taken' = {}
    BY <1>4, <1>10 DEF CloseOuter
  <2>2. Stored = <<>>
    BY <1>2, <2>1 DEF Stored
  <2>3. Stack!Innermost = Abs(Innermost) /\ Stack!Outer = Stored /\ Loops # <<>>
    BY <2>1, StackSeen
  <2>4. Stack!Close(i)
    BY <1>1, <2>1, <2>2, <2>3 DEF Stack!Close, Abs
  <2> QED
    BY <2>4 DEF Execute, Stack!Execute
<1>11. CASE Idle(i)
  <2>1. /\ ~lifo_readout /\ ~lifo_readout' /\ active_loop' = active_loop
        /\ loop_execution' = loop_execution /\ UNCHANGED lifo /\ taken' = {}
        /\ i.op = "OTHER" \/ (i.op = "LOOP" /\ i.count = 0)
    BY <1>11 DEF Idle, Disciplined, Instr, Iter
  <2>2. Abs(Innermost)' = Abs(Innermost)
    BY <2>1 DEF Abs, Innermost
  <2>3. Loops' = Loops
    BY <1>1, <1>6, <2>1, <2>2, StoredStack
  <2>4. Stack!Pass(i)
    BY <2>1, <2>3 DEF Stack!Pass
  <2> QED
    BY <2>4 DEF Execute, Stack!Execute
<1>12. CASE Ignore(i)
  <2>1. i.op = "BRANCH" /\ ~loop_execution /\ ~loop_execution' /\ taken' = {}
    BY <1>4, <1>12 DEF Ignore
  <2>2. Loops = <<>> /\ Loops' = <<>>
    BY <1>1, <2>1, StackSeen
  <2>3. Stack!Pass(i)
    BY <2>1, <2>2 DEF Stack!Pass
  <2> QED
    BY <2>3 DEF Execute, Stack!Execute
<1> QED
  BY <1>7, <1>8, <1>9, <1>10, <1>11, <1>12 DEF Execute

(* While the stream of instructions since the last reset is disciplined,   *)
(* registers, flags and the LIFO with its late output execute nested loops *)
(* (pmcc_loop_controller.sv, pmcc_loop_lifo.sv), for any nesting that the  *)
(* LIFO has room for.                                                      *)
THEOREM LoopsNest == MCSpec => LoopStackWhileDisciplined
<1>1. MCInit => IInv /\ Stack!Init
  <2> SUFFICES ASSUME MCInit PROVE IInv /\ Stack!Init
    OBVIOUS
  <2>1. IInv
    BY InitIInv DEF MCInit
  <2>2. Loops = <<>>
    BY <2>1, StackSeen DEF MCInit, Init
  <2> QED
    BY <2>1, <2>2 DEF MCInit, Init, Stack!Init
<1>2. [MCNext]_mcvars => [Next]_vars
  BY DEF MCNext, mcvars, Next
<1>3. IInv /\ [MCNext]_mcvars => IInv'
  BY <1>2, StepIInv
<1>4. IInv /\ [MCNext]_mcvars =>
          [disciplined' => [Stack!Next]_(Stack!lsvars)]_mcvars
  <2> SUFFICES ASSUME IInv, MCNext, disciplined'
               PROVE  Stack!Next
    BY DEF mcvars
  <2>1. ASSUME NEW i \in Instr, Execute(i),
               disciplined' = (disciplined /\ Disciplined(i))
        PROVE  Stack!Next
    <3>1. Disciplined(i)
      BY <2>1
    <3>2. Stack!Execute(i)
      BY <2>1, <3>1, ExecutesLoops
    <3> QED
      BY <3>2 DEF Stack!Next
  <2>2. ASSUME Reset PROVE Stack!Next
    <3>1. Loops' = <<>>
      BY <2>2, LoopsNext DEF Next, Reset
    <3> QED
      BY <2>2, <3>1 DEF Reset, Stack!Next, Stack!Reset
  <2> QED
    BY <2>1, <2>2 DEF MCNext
<1> QED
  BY <1>1, <1>3, <1>4, PTL DEF MCSpec, LoopStackWhileDisciplined
=============================================================================
