----------------------------- MODULE SerialHost -----------------------------
(***************************************************************************)
(* The speaking end of a serial line (external: the host).  It sends each  *)
(* byte of its line as a start bit, the data bits and a stop bit of        *)
(* bit_time cycles each, and may pause before a byte.                      *)
(***************************************************************************)
EXTENDS Integers, Sequences

CONSTANTS DataBits,      \* bits of a byte
          Pauses         \* cycles that the host may pause before a byte

VARIABLE host            \* the whole line, what is left of it, the bit of the
                         \* first byte (-1 between bytes), cycles left to the next

TypeOK == host.slot \in -1 .. DataBits + 1 /\ host.left \in Nat

Starts(line, bit_time, pause) ==
    host = [line |-> line, queue |-> line, bit_time |-> bit_time, slot |-> -1,
            left |-> pause]

Sending == host.slot >= 0

Level ==
    CASE host.slot = 0               -> 0
      [] host.slot \in 1 .. DataBits -> Head(host.queue)[host.slot - 1]
      [] OTHER                       -> 1

HoldBit ==
    /\ host.left > 1
    /\ host' = [host EXCEPT !.left = @ - 1]

NextHostBit ==
    /\ host.left = 1 /\ Sending /\ host.slot <= DataBits
    /\ host' = [host EXCEPT !.slot = @ + 1, !.left = host.bit_time]

StartByte ==
    /\ host.left = 1 /\ ~Sending
    /\ host' = [host EXCEPT !.slot = 0, !.left = host.bit_time]

EndByte ==
    /\ host.left = 1 /\ host.slot = DataBits + 1
    /\ LET rest == Tail(host.queue) IN
       \E pause \in Pauses :
           host' = [host EXCEPT
                       !.queue = rest,
                       !.slot = IF rest = <<>> \/ pause # 0 THEN -1 ELSE 0,
                       !.left = IF rest = <<>> THEN 0
                                ELSE IF pause # 0 THEN pause ELSE host.bit_time]

Silence == host.left = 0 /\ host' = host

Speak == HoldBit \/ NextHostBit \/ StartByte \/ EndByte \/ Silence

-----------------------------------------------------------------------------
(* The host keeps to its frames, whatever the bytes: while it counts down  *)
(* there is a byte to say.                                                 *)
Slots        == -1 .. DataBits + 1
Duration     == Nat \ {0}
Hosts(Bytes) == [line : Seq(Bytes), queue : Seq(Bytes), bit_time : Duration,
                 slot : Slots, left : Nat]

Framed(Bytes) ==
    /\ host \in Hosts(Bytes)
    /\ host.left > 0 => host.queue # <<>>
    /\ host.slot >= 0 => host.left > 0

(* The host stays between its frames or inside one: a slot is left only    *)
(* when its bit time is over.                                              *)
LEMMA SpeakKeepsFrames ==
    ASSUME Pauses \subseteq Nat, DataBits \in Nat \ {0},
           NEW Bytes, Framed(Bytes), Speak
    PROVE  Framed(Bytes)'
<1>1. /\ host.left \in Nat /\ host.slot \in Slots /\ host.bit_time \in Duration
      /\ host.queue \in Seq(Bytes)
  BY DEF Framed, Hosts
<1>2. host.bit_time \in Nat /\ host.bit_time > 0 /\ -1 \in Slots /\ 0 \in Slots
  BY <1>1 DEF Duration, Slots
<1>3. CASE HoldBit
  <2>1. host.left - 1 \in Nat /\ host.left - 1 > 0
    BY <1>1, <1>3 DEF HoldBit
  <2>2. host' \in Hosts(Bytes)
    BY <1>3, <2>1 DEF Framed, Hosts, HoldBit
  <2> QED
    BY <1>3, <2>1, <2>2 DEF Framed, Hosts, HoldBit
<1>4. CASE NextHostBit
  <2>1. host.slot + 1 \in Slots
    BY <1>1, <1>4 DEF NextHostBit, Slots
  <2>2. host' \in Hosts(Bytes)
    BY <1>4, <2>1, <1>2 DEF Framed, Hosts, NextHostBit
  <2> QED
    BY <1>2, <1>4, <2>2 DEF Framed, Hosts, NextHostBit
<1>5. CASE StartByte
  <2>1. host' \in Hosts(Bytes)
    BY <1>2, <1>5 DEF Framed, Hosts, StartByte
  <2> QED
    BY <1>2, <1>5, <2>1 DEF Framed, Hosts, StartByte
<1>6. CASE EndByte
  <2> DEFINE rest == Tail(host.queue)
  <2>1. PICK pause \in Pauses :
          host' = [host EXCEPT
                      !.queue = rest,
                      !.slot = IF rest = <<>> \/ pause # 0 THEN -1 ELSE 0,
                      !.left = IF rest = <<>> THEN 0
                               ELSE IF pause # 0 THEN pause ELSE host.bit_time]
    BY <1>6 DEF EndByte
  <2>2. rest \in Seq(Bytes)
    BY <1>1, <1>6 DEF Framed, EndByte
  <2>3. pause \in Nat
    OBVIOUS
  <2> HIDE DEF rest
  <2>4. host' \in Hosts(Bytes)
    BY <1>2, <2>1, <2>2, <2>3 DEF Framed, Hosts
  <2> QED
    BY <1>2, <2>1, <2>3, <2>4 DEF Framed, Hosts
<1>7. CASE Silence
  BY <1>7 DEF Framed, Silence
<1> QED
  BY <1>3, <1>4, <1>5, <1>6, <1>7 DEF Speak

(* The level of the line is a bit. *)
LEMMA LevelIsBit ==
    ASSUME NEW Bit, {0, 1} \subseteq Bit, DataBits \in Nat,
           Framed([0 .. DataBits - 1 -> Bit])
    PROVE  Level \in Bit
<1> DEFINE Bytes == [0 .. DataBits - 1 -> Bit]
<1>1. 0 \in Bit /\ 1 \in Bit
  OBVIOUS
<1>2. CASE host.slot \in 1 .. DataBits
  <2>1. host.queue \in Seq(Bytes) /\ host.queue # <<>>
    BY <1>2 DEF Framed, Hosts, Slots
  <2>2. Head(host.queue) \in Bytes
    BY <2>1
  <2>3. Head(host.queue)[host.slot - 1] \in Bit
    BY <1>2, <2>2
  <2> QED
    BY <1>2, <2>3 DEF Level
<1>3. CASE host.slot \notin 1 .. DataBits
  BY <1>1, <1>3 DEF Level
<1> QED
  BY <1>2, <1>3

(* What is left of the line is its end, and no bit is longer than the      *)
(* others.                                                                 *)
Ordered ==
    /\ host.slot >= 0 => host.left <= host.bit_time
    /\ Len(host.queue) <= Len(host.line)
    /\ \A k \in 1 .. Len(host.queue) :
          host.queue[k] = host.line[Len(host.line) - Len(host.queue) + k]

(* What a cycle does to the bit, to the time that it has left, and to the  *)
(* line.                                                                   *)
Turned ==
    /\ \/ host.left > 1 /\ host'.slot = host.slot /\ host'.left = host.left - 1
       \/ /\ host.left = 1 /\ host.slot \in 0 .. DataBits
          /\ host'.slot = host.slot + 1 /\ host'.left = host.bit_time
       \/ /\ host.left = 1 /\ host.slot = -1
          /\ host'.slot = 0 /\ host'.left = host.bit_time
       \/ host.left = 1 /\ host.slot = DataBits + 1 /\ host'.slot = -1
       \/ /\ host.left = 1 /\ host.slot = DataBits + 1
          /\ host'.slot = 0 /\ host'.left = host.bit_time
       \/ /\ host.left = 0 /\ host.slot = -1
          /\ host'.slot = -1 /\ host'.left = 0
    /\ host'.line = host.line /\ host'.bit_time = host.bit_time
    /\ host'.queue = IF host.slot = DataBits + 1 /\ host.left = 1
                     THEN Tail(host.queue) ELSE host.queue

(* A cycle of the host (main.cpp:54 reads what it sends) is one of those   *)
(* turns: it waits, it starts the next slot, or it ends a frame.           *)
LEMMA SpeakTurns ==
    ASSUME Pauses \subseteq Nat, DataBits \in Nat \ {0},
           NEW Bytes, Framed(Bytes), Speak
    PROVE  Turned
<1>1. /\ host.left \in Nat /\ host.slot \in Slots
      /\ host = [line |-> host.line, queue |-> host.queue,
                 bit_time |-> host.bit_time, slot |-> host.slot,
                 left |-> host.left]
      /\ host.slot >= 0 => host.left > 0
  BY DEF Framed, Hosts
<1>2. host.slot \in -1 .. DataBits + 1
  BY <1>1 DEF Slots
<1>3. CASE HoldBit
  BY <1>1, <1>3 DEF HoldBit, Turned
<1>4. CASE NextHostBit
  <2>1. host.slot \in 0 .. DataBits
    BY <1>2, <1>4 DEF NextHostBit, Sending
  <2> QED
    BY <1>1, <1>4, <2>1 DEF NextHostBit, Turned
<1>5. CASE StartByte
  <2>1. host.slot = -1
    BY <1>2, <1>5 DEF StartByte, Sending
  <2> QED
    BY <1>1, <1>5, <2>1 DEF StartByte, Turned
<1>6. CASE EndByte
  <2>1. PICK pause \in Pauses :
          host' = [host EXCEPT
                      !.queue = Tail(host.queue),
                      !.slot = IF Tail(host.queue) = <<>> \/ pause # 0 THEN -1 ELSE 0,
                      !.left = IF Tail(host.queue) = <<>> THEN 0
                               ELSE IF pause # 0 THEN pause ELSE host.bit_time]
    BY <1>6 DEF EndByte
  <2> DEFINE rest == Tail(host.queue)
  <2>2. /\ host'.queue = rest /\ host'.line = host.line
        /\ host'.bit_time = host.bit_time
        /\ host'.slot = IF rest = <<>> \/ pause # 0 THEN -1 ELSE 0
        /\ host'.left = IF rest = <<>> THEN 0
                        ELSE IF pause # 0 THEN pause ELSE host.bit_time
    <3> HIDE DEF rest
    <3> QED
      BY <1>1, <2>1 DEF rest
  <2> HIDE DEF rest
  <2>3. host'.slot = -1 \/ (host'.slot = 0 /\ host'.left = host.bit_time)
    BY <2>2
  <2> QED
    BY <1>6, <2>2, <2>3 DEF EndByte, Turned, rest
<1>7. CASE Silence
  <2>1. host.slot = -1
    BY <1>1, <1>2, <1>7 DEF Silence
  <2> QED
    BY <1>1, <1>7, <2>1 DEF Silence, Turned
<1> QED
  BY <1>3, <1>4, <1>5, <1>6, <1>7 DEF Speak

(* The line stays in order. *)
LEMMA SpeakKeepsOrder ==
    ASSUME Pauses \subseteq Nat, DataBits \in Nat \ {0},
           NEW Bytes, Framed(Bytes), Ordered, Speak
    PROVE  Ordered'
<1>1. Turned
  BY SpeakTurns
<1>2. /\ host.left \in Nat /\ host.slot \in -1 .. DataBits + 1
      /\ host.bit_time \in Nat
      /\ host.queue \in Seq(Bytes) /\ host.line \in Seq(Bytes)
      /\ host.slot >= 0 => host.queue # <<>>
      /\ host.slot >= 0 => host.left <= host.bit_time
  BY DEF Framed, Hosts, Slots, Duration, Ordered
<1>3. host'.slot >= 0 => host'.left <= host'.bit_time
  BY <1>1, <1>2 DEF Turned
<1> DEFINE queue == host.queue  line == host.line
<1>4. /\ Len(queue) \in Nat /\ Len(line) \in Nat /\ Len(queue) <= Len(line)
      /\ \A k \in 1 .. Len(queue) : queue[k] = line[Len(line) - Len(queue) + k]
  <2>1. Len(queue) \in Nat /\ Len(line) \in Nat
    BY <1>2
  <2>2. /\ Len(queue) <= Len(line)
        /\ \A k \in 1 .. Len(queue) :
              queue[k] = line[Len(line) - Len(queue) + k]
    BY DEF Ordered
  <2> QED
    BY <2>1, <2>2
<1>5. CASE host'.queue = host.queue
  <2>1. Len(host'.queue) <= Len(host'.line)
    BY <1>1, <1>4, <1>5 DEF Turned
  <2>2. \A k \in 1 .. Len(host'.queue) :
          host'.queue[k] = host'.line[Len(host'.line) - Len(host'.queue) + k]
    BY <1>1, <1>4, <1>5 DEF Turned
  <2> QED
    BY <1>3, <2>1, <2>2 DEF Ordered
<1>6. CASE host.slot = DataBits + 1 /\ host'.queue = Tail(host.queue)
  <2>1. queue # <<>>
    BY <1>2, <1>6
  <2> DEFINE rest == Tail(queue)
  <2>2. /\ Len(rest) = Len(queue) - 1 /\ Len(rest) \in Nat
        /\ \A k \in 1 .. Len(rest) : rest[k] = queue[k + 1]
    BY <1>2, <2>1
  <2> HIDE DEF rest, queue, line
  <2>3. Len(rest) <= Len(line)
    BY <1>4, <2>2
  <2>4. ASSUME NEW k \in 1 .. Len(rest)
        PROVE  rest[k] = line[Len(line) - Len(rest) + k]
    <3>1. k + 1 \in 1 .. Len(queue)
      BY <1>4, <2>2
    <3>2. Len(line) - Len(queue) + (k + 1) = Len(line) - Len(rest) + k
      BY <1>4, <2>2
    <3> QED
      BY <1>4, <2>2, <3>1, <3>2
  <2>5. host'.queue = rest /\ host'.line = line
    BY <1>1, <1>6 DEF Turned, rest, queue, line
  <2> QED
    BY <1>3, <2>3, <2>4, <2>5 DEF Ordered
<1> QED
  BY <1>1, <1>5, <1>6 DEF Turned
=============================================================================
