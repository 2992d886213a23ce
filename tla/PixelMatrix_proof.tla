------------------------- MODULE PixelMatrix_proof -------------------------
(***************************************************************************)
(* Proofs about the software of the pixel matrix on its controller, for    *)
(* any number of rows, any calls with any data, and wherever the software  *)
(* is held up between two accesses: first where the hardware is while the  *)
(* software makes its accesses, then what the calls do to the matrix.      *)
(***************************************************************************)
EXTENDS PixelMatrix, SequenceTheorems, TLAPS

-----------------------------------------------------------------------------
(* The order of the driver functions.  Only the row by row part of a call  *)
(* polls; the pulses of a hits generator or a latcher are not waited for,  *)
(* and only a load, which resets the coprocessor, comes after them.        *)
Shifters == {"a", "b"}
Pulsers  == {"latcher", "hits"}
Apps     == Shifters \cup Pulsers

DriverCalls ==
    [fn : {"load_application"}, app : Apps]
    \cup {Trigger, Poll}
    \cup [fn : {"set_dout"}, word : Word]
    \cup [fn : {"get_din"}, row : Row]

PulserLoads == {Load(app) : app \in Pulsers}

Follows(a, b) ==
    /\ a.fn = "load_application" => b.fn = "trigger"
    /\ a.fn = "trigger" => b.fn \in {"poll", "load_application"}
    /\ a.fn = "set_dout" => b.fn \in {"trigger", "load_application"}
    /\ b.fn = "poll" => a.fn = "trigger"

Orderly(s) ==
    /\ \A i \in 1 .. Len(s) - 1 : Follows(s[i], s[i + 1])
    /\ \A i \in 1 .. Len(s) :
           s[i].fn \in {"load_application", "set_dout"} => i < Len(s)
    /\ \A i \in 2 .. Len(s) : s[i].fn = "trigger" =>
           IF s[i - 1] \in PulserLoads
           THEN i < Len(s) => s[i + 1].fn = "load_application"
           ELSE i < Len(s) /\ s[i + 1].fn = "poll"

Next2(fn) == Len(ops) > 1 /\ ops[2].fn = fn

(* The next function resets the coprocessor before it needs it. *)
Fresh == Doing("load_application") \/ (Doing("set_dout") /\ Next2("load_application"))

(* A trigger nobody waits for. *)
LastTrigger == Doing("trigger") /\ (Len(ops) = 1 \/ Next2("load_application"))

-----------------------------------------------------------------------------
(* Programs and where the coprocessor is in them.                          *)
Loaded(app, bytes) ==
    \A k \in 1 .. Len(Application[app]) : k <= bytes => code[k - 1] = Application[app][k]

(* The application is in the code RAM as a whole. *)
Holds(app) == Loaded(app, Len(Application[app]))

LoopsRest ==
    /\ active_loop = LC!NoLoop /\ lifo_rdata = LC!NoLoop
    /\ loop_execution = FALSE /\ lifo_readout = FALSE
    /\ mem = [k \in 0 .. Depth - 1 |-> LC!NoLoop]
    /\ elements_counter = 0 /\ full = FALSE /\ empty = TRUE
    /\ executed \in LC!Instr
    /\ taken = {} /\ opened = {}

Fetched == \A k \in 0 .. 3 : pc_id + k < PcSize => instr[k] = code[pc_id + k]

Shifter(state, count) == [state |-> state, bits_counter |-> count]
Resting == tx \in {Shifter("IDLE", 0), Shifter("WAITING", 0)}

Low(app)  == IF app = "a" THEN 2 ELSE 4
High(app) == IF app = "a" THEN 3 ELSE 5
Line1(app) == IF app = "latcher" THEN 32 ELSE 8

(* The bits that a row has been shifted by, as the program counter says.   *)
Shifting(j) == Shifter(IF j = 0 THEN "WAITING" ELSE "ACTIVE", j)

AtStart == pc_id \in {0, 1} /\ matrix_ctrl = 0 /\ Resting
AtWaitt(app) == pc_id = 4 /\ matrix_ctrl \in {2, Low(app)} /\ Resting
AtHigh(app, j) ==     \* about to raise the clock
    /\ pc_id = 5 + 6 * j /\ tx = Shifting(j)
    /\ matrix_ctrl = Low(app) \/ (j = 0 /\ matrix_ctrl = 2)
AtLow(app, j) ==      \* about to lower the clock
    pc_id = 8 + 6 * j /\ tx = Shifting(j) /\ matrix_ctrl = High(app)
AtJump(app) == pc_id = 101 /\ matrix_ctrl = Low(app) /\ tx = Shifter("WAITING", 0)

ShifterPlace(app) ==
    \/ AtStart \/ AtWaitt(app) \/ AtJump(app)
    \/ \E j \in 0 .. 15 : AtHigh(app, j) \/ AtLow(app, j)

Settled == config = due.config /\ gates = due.gates

ShifterInv(app) ==
    /\ ShifterPlace(app)
    /\ Settled
    /\ cr.pmcc_trg => pc_id \in {0, 4}
    /\ ~Doing("poll") => pc_id \in {0, 4} /\ ~cr.pmcc_trg
    /\ Doing("trigger") => Next2("poll")
    /\ gap >= 3 /\ pmcc_wtt => pc_id \in {0, 4}
    /\ pc_id = 4 /\ (cr.pmcc_trg \/ ~Doing("poll") \/ (gap >= 3 /\ pmcc_wtt)) =>
           tx.state = "WAITING"

Pending == Doing("trigger") \/ cr.pmcc_trg \/ pc_id \in {1, 4}

PulserPlace(app) ==
    /\ pc_id \in {0, 1, 4, 7}
    /\ matrix_ctrl = IF pc_id = 4 THEN Line1(app) ELSE 0
    /\ Resting

PulserInv(app) ==
    /\ PulserPlace(app)
    /\ ops = <<>> \/ Fresh \/ LastTrigger
    /\ Doing("trigger") => pc_id = 0 /\ ~cr.pmcc_trg
    /\ cr.pmcc_trg => pc_id = 0
    /\ pc_id = 1 => gap = 2
    /\ pc_id = 4 => gap = 3
    /\ cr.pmcc_trg \/ pc_id \in {1, 4} => phase = 0
    /\ ~Pending => Settled
    /\ Pending /\ app = "latcher" => due.config = counters /\ due.gates = gates
    /\ Pending /\ app = "hits" => due.config = config /\ due.gates = gates + 1

-----------------------------------------------------------------------------
(* The inductive invariant.                                                *)
SwInv ==
    /\ ops \in Seq(DriverCalls) /\ Orderly(ops)
    /\ phase \in Nat /\ gap \in 1 .. CallGap
    /\ phase > 0 => \/ Doing("load_application") /\ phase <= Words(Head(ops).app) + 3
                    \/ Doing("trigger") /\ phase = 1
    /\ staged \in Cr /\ ~staged.pmcc_trg /\ ~staged.direct_ctrl
    /\ Doing("trigger") /\ phase = 1 => staged.pmcc_rst_n
    /\ readout \in Matrix /\ calls \in 0 .. MaxCalls
    /\ due = [counters |-> due.counters, readout |-> due.readout,
              config |-> due.config, gates |-> due.gates]

RegsOK ==
    /\ cr \in Cr /\ ~cr.direct_ctrl
    /\ pmcc_wtt \in BOOLEAN /\ ctrls = 0
    /\ dout \in Word /\ din \in Word /\ din_reg \in Word /\ pm_din \in Data
    /\ rx = tx /\ tx \in ShifterState
    /\ code \in [Addr -> Byte]
CopOK == pc_id \in Addr /\ instr \in [0 .. 3 -> Byte] /\ LoopsRest
MatrixOK ==
    counters \in [Counter -> Matrix] /\ config \in [Counter -> Matrix] /\ gates \in Nat
HwInv == RegsOK /\ CopOK /\ MatrixOK

ResetInv ==
    /\ pc_id = 0 /\ matrix_ctrl = 0 /\ Resting /\ ~cr.pmcc_trg
    /\ Settled
    /\ ops = <<>> \/ Fresh
    /\ Doing("load_application") => Loaded(Head(ops).app, 4 * (phase - 2))

RunInv ==
    /\ Fetched
    /\ Doing("load_application") => phase <= 1
    /\ \E app \in Apps :
          /\ Holds(app)
          /\ IF app \in Shifters THEN ShifterInv(app) ELSE PulserInv(app)

IInv ==
    /\ SwInv /\ HwInv /\ (cr.pmcc_trg => gap = 1)
    /\ IF cr.pmcc_rst_n THEN RunInv ELSE ResetInv
-----------------------------------------------------------------------------
(* The programs, byte by byte.                                             *)
ShifterCode(bytes, app) ==
    /\ bytes[0] = 0
    /\ bytes[1] = 192 /\ bytes[2] = 2 /\ bytes[3] = 0
    /\ bytes[4] = 0
    /\ \A j \in 0 .. 15 :
          /\ bytes[5 + 6 * j] = 192
          /\ bytes[6 + 6 * j] = High(app)
          /\ bytes[7 + 6 * j] = 0
          /\ bytes[8 + 6 * j] = 192
          /\ bytes[9 + 6 * j] = Low(app)
          /\ bytes[10 + 6 * j] = 0
    /\ bytes[101] = 32 /\ bytes[102] = 4

PulserCode(bytes, app) ==
    /\ bytes[0] = 0
    /\ bytes[1] = 192 /\ bytes[2] = Line1(app) /\ bytes[3] = 0
    /\ bytes[4] = 192 /\ bytes[5] = 0 /\ bytes[6] = 0
    /\ bytes[7] = 32 /\ bytes[8] = 0

(* What a concatenation is, and what 16 pulses are, as predicates.         *)
Concat(s, t, q) ==
    /\ q \in Seq(Byte) /\ Len(q) = Len(s) + Len(t)
    /\ \A i \in 1 .. Len(s) : q[i] = s[i]
    /\ \A i \in 1 .. Len(t) : q[Len(s) + i] = t[i]

IsPulses(p, low, high) ==
    /\ p \in Seq(Byte) /\ Len(p) = 96
    /\ \A j \in 0 .. 15 :
          /\ p[6 * j + 1] = 192
          /\ p[6 * j + 2] = high
          /\ p[6 * j + 3] = 0
          /\ p[6 * j + 4] = 192
          /\ p[6 * j + 5] = low
          /\ p[6 * j + 6] = 0

(* The bytes of two programs, one after the other.                         *)
LEMMA ConcatBytes ==
    ASSUME NEW s \in Seq(Byte), NEW t \in Seq(Byte)
    PROVE  Concat(s, t, s \o t)
  BY DEF Concat

(* The bytes of Pulses: sixteen times a store of low and one of high.      *)
LEMMA PulsesBytes ==
    ASSUME NEW low \in Byte, NEW high \in Byte
    PROVE  IsPulses(Pulses(low, high), low, high)
<1> DEFINE byte(k) == STORE(IF (k - 1) % 6 < 3 THEN high ELSE low)[((k - 1) % 3) + 1]
<1>1. Pulses(low, high) = [k \in 1 .. 96 |-> byte(k)]
  BY DEF Pulses
<1>2. ASSUME NEW k \in 1 .. 96 PROVE byte(k) \in Byte
  <2>1. (k - 1) % 3 \in 0 .. 2
    OBVIOUS
  <2> QED
    BY <2>1 DEF STORE, Byte
<1>3. ASSUME NEW j \in 0 .. 15
      PROVE  /\ byte(6 * j + 1) = 192 /\ byte(6 * j + 2) = high /\ byte(6 * j + 3) = 0
             /\ byte(6 * j + 4) = 192 /\ byte(6 * j + 5) = low /\ byte(6 * j + 6) = 0
  <2>1. /\ (6 * j + 1 - 1) % 6 = 0 /\ (6 * j + 2 - 1) % 6 = 1 /\ (6 * j + 3 - 1) % 6 = 2
        /\ (6 * j + 4 - 1) % 6 = 3 /\ (6 * j + 5 - 1) % 6 = 4 /\ (6 * j + 6 - 1) % 6 = 5
    OBVIOUS
  <2>2. /\ (6 * j + 1 - 1) % 3 = 0 /\ (6 * j + 2 - 1) % 3 = 1 /\ (6 * j + 3 - 1) % 3 = 2
        /\ (6 * j + 4 - 1) % 3 = 0 /\ (6 * j + 5 - 1) % 3 = 1 /\ (6 * j + 6 - 1) % 3 = 2
    OBVIOUS
  <2> QED
    BY <2>1, <2>2 DEF STORE
<1> HIDE DEF byte
<1>4. Pulses(low, high) \in Seq(Byte) /\ Len(Pulses(low, high)) = 96
  BY <1>1, <1>2
<1> QED
  BY <1>1, <1>3, <1>4 DEF IsPulses

(* The bytes of the three instructions.                                    *)
LEMMA InstructionBytes ==
    /\ WAITT \in Seq(Byte) /\ Len(WAITT) = 1 /\ WAITT[1] = 0
    /\ \A n \in Byte : /\ STORE(n) \in Seq(Byte) /\ Len(STORE(n)) = 3
                      /\ STORE(n)[1] = 192 /\ STORE(n)[2] = n /\ STORE(n)[3] = 0
                      /\ JUMP(n) \in Seq(Byte) /\ Len(JUMP(n)) = 2
                      /\ JUMP(n)[1] = 32 /\ JUMP(n)[2] = n
  BY DEF WAITT, STORE, JUMP, Byte

(* The two kinds of programs, which differ in the lines they set.          *)
LEMMA ApplicationPrograms ==
    /\ \A app \in Shifters : Application[app] = DataShifter(2, Low(app), High(app))
    /\ \A app \in Pulsers : Application[app] = Pulse(Line1(app))
  BY DEF Application, Shifters, Pulsers, Low, High, Line1

(* Where the bytes of a shifter program are.                               *)
LEMMA ShifterBytes ==
    ASSUME NEW app \in Shifters
    PROVE  /\ Application[app] \in Seq(Byte) /\ Len(Application[app]) = 103
           /\ Application[app][1] = 0
           /\ \A f : (\A k \in 1 .. 103 : f[k - 1] = Application[app][k])
                         => ShifterCode(f, app)
<1> DEFINE w == WAITT
           s == STORE(2)
           p == Pulses(Low(app), High(app))
           j4 == JUMP(4)
           s1 == w \o s
           s2 == s1 \o w
           s3 == s2 \o p
           s4 == s3 \o j4
<1>1. Low(app) \in Byte /\ High(app) \in Byte
  BY DEF Low, High, Byte
<1>2. IsPulses(p, Low(app), High(app))
  BY <1>1, PulsesBytes
<1>3. Application[app] = s4
  BY ApplicationPrograms DEF DataShifter
<1>4. /\ w \in Seq(Byte) /\ Len(w) = 1 /\ w[1] = 0
      /\ s \in Seq(Byte) /\ Len(s) = 3 /\ s[1] = 192 /\ s[2] = 2 /\ s[3] = 0
      /\ j4 \in Seq(Byte) /\ Len(j4) = 2 /\ j4[1] = 32 /\ j4[2] = 4
  <2>1. 2 \in Byte /\ 4 \in Byte
    BY DEF Byte
  <2> QED
    BY <2>1, InstructionBytes
<1>5. p \in Seq(Byte) /\ Len(p) = 96
  BY <1>2 DEF IsPulses
<1> HIDE DEF w, s, p, j4
<1>6. Concat(w, s, s1)
  BY <1>4, ConcatBytes, Zenon
<1> HIDE DEF s1
<1>7. s1 \in Seq(Byte) /\ Len(s1) = 4 /\ s1[1] = 0 /\ s1[2] = 192 /\ s1[3] = 2 /\ s1[4] = 0
  BY <1>4, <1>6 DEF Concat
<1>8. Concat(s1, w, s2)
  BY <1>4, <1>7, ConcatBytes, Zenon
<1> HIDE DEF s2
<1>9. /\ s2 \in Seq(Byte) /\ Len(s2) = 5
      /\ s2[1] = 0 /\ s2[2] = 192 /\ s2[3] = 2 /\ s2[4] = 0 /\ s2[5] = 0
  BY <1>4, <1>7, <1>8 DEF Concat
<1>10. Concat(s2, p, s3)
  BY <1>5, <1>9, ConcatBytes, Zenon
<1> HIDE DEF s3
<1>11. s3 \in Seq(Byte) /\ Len(s3) = 101
  BY <1>5, <1>9, <1>10 DEF Concat
<1>12. Concat(s3, j4, s4)
  BY <1>4, <1>11, ConcatBytes, Zenon
<1> HIDE DEF s4
<1>13. s4 \in Seq(Byte) /\ Len(s4) = 103
  BY <1>4, <1>11, <1>12 DEF Concat
<1>14. /\ s4[1] = 0 /\ s4[2] = 192 /\ s4[3] = 2 /\ s4[4] = 0 /\ s4[5] = 0
       /\ s4[102] = 32 /\ s4[103] = 4
  BY <1>4, <1>9, <1>10, <1>11, <1>12, <1>5 DEF Concat
<1>15. ASSUME NEW i \in 1 .. 96 PROVE s4[i + 5] = p[i]
  <2>1. s3[Len(s2) + i] = p[i]
    BY <1>5, <1>10 DEF Concat
  <2>2. Len(s2) + i = i + 5 /\ i + 5 \in 1 .. Len(s3)
    BY <1>9, <1>11
  <2>3. s4[i + 5] = s3[i + 5]
    BY <1>12, <2>2 DEF Concat
  <2> QED
    BY <2>1, <2>2, <2>3
<1>16. ASSUME NEW f, \A k \in 1 .. 103 : f[k - 1] = s4[k]
       PROVE  ShifterCode(f, app)
  <2>1. ASSUME NEW i \in 0 .. 102 PROVE f[i] = s4[i + 1]
    <3>1. i + 1 \in 1 .. 103 /\ (i + 1) - 1 = i
      OBVIOUS
    <3>2. f[(i + 1) - 1] = s4[i + 1]
      BY <1>16, <3>1, Zenon
    <3> QED
      BY <3>1, <3>2
  <2>2. /\ f[0] = 0 /\ f[1] = 192 /\ f[2] = 2 /\ f[3] = 0 /\ f[4] = 0
        /\ f[101] = 32 /\ f[102] = 4
    <3>1. /\ f[0] = s4[0 + 1] /\ f[1] = s4[1 + 1] /\ f[2] = s4[2 + 1]
          /\ f[3] = s4[3 + 1] /\ f[4] = s4[4 + 1]
          /\ f[101] = s4[101 + 1] /\ f[102] = s4[102 + 1]
      BY <2>1
    <3> QED
      BY <1>14, <3>1
  <2>3. ASSUME NEW i \in 1 .. 96 PROVE f[i + 4] = p[i]
    <3>1. f[i + 4] = s4[i + 5]
      BY <2>1
    <3> QED
      BY <3>1, <1>15
  <2>4. ASSUME NEW j \in 0 .. 15
        PROVE  /\ f[5 + 6 * j] = 192 /\ f[6 + 6 * j] = High(app) /\ f[7 + 6 * j] = 0
               /\ f[8 + 6 * j] = 192 /\ f[9 + 6 * j] = Low(app) /\ f[10 + 6 * j] = 0
    <3>1. /\ f[6 * j + 1 + 4] = p[6 * j + 1] /\ f[6 * j + 2 + 4] = p[6 * j + 2]
          /\ f[6 * j + 3 + 4] = p[6 * j + 3] /\ f[6 * j + 4 + 4] = p[6 * j + 4]
          /\ f[6 * j + 5 + 4] = p[6 * j + 5] /\ f[6 * j + 6 + 4] = p[6 * j + 6]
      BY <2>3
    <3>2. /\ 6 * j + 1 + 4 = 5 + 6 * j /\ 6 * j + 2 + 4 = 6 + 6 * j
          /\ 6 * j + 3 + 4 = 7 + 6 * j /\ 6 * j + 4 + 4 = 8 + 6 * j
          /\ 6 * j + 5 + 4 = 9 + 6 * j /\ 6 * j + 6 + 4 = 10 + 6 * j
      OBVIOUS
    <3> QED
      BY <1>2, <3>1, <3>2 DEF IsPulses
  <2> QED
    BY <2>2, <2>4 DEF ShifterCode
<1> QED
  BY <1>3, <1>13, <1>14, <1>16

(* Where the bytes of a pulse program are.                                 *)
LEMMA PulserBytes ==
    ASSUME NEW app \in Pulsers
    PROVE  /\ Application[app] \in Seq(Byte) /\ Len(Application[app]) = 9
           /\ Application[app][1] = 0
           /\ \A f : (\A k \in 1 .. 9 : f[k - 1] = Application[app][k])
                         => PulserCode(f, app)
<1> DEFINE w == WAITT
           s == STORE(Line1(app))
           s0 == STORE(0)
           j0 == JUMP(0)
           s1 == w \o s
           s2 == s1 \o s0
           s3 == s2 \o j0
<1>1. Application[app] = s3
  BY ApplicationPrograms DEF Pulse
<1>2. /\ w \in Seq(Byte) /\ Len(w) = 1 /\ w[1] = 0
      /\ s \in Seq(Byte) /\ Len(s) = 3 /\ s[1] = 192 /\ s[2] = Line1(app) /\ s[3] = 0
      /\ s0 \in Seq(Byte) /\ Len(s0) = 3 /\ s0[1] = 192 /\ s0[2] = 0 /\ s0[3] = 0
      /\ j0 \in Seq(Byte) /\ Len(j0) = 2 /\ j0[1] = 32 /\ j0[2] = 0
  <2>1. Line1(app) \in Byte /\ 0 \in Byte
    BY DEF Line1, Byte
  <2> QED
    BY <2>1, InstructionBytes
<1> HIDE DEF w, s, s0, j0
<1>3. Concat(w, s, s1)
  BY <1>2, ConcatBytes, Zenon
<1> HIDE DEF s1
<1>4. /\ s1 \in Seq(Byte) /\ Len(s1) = 4
      /\ s1[1] = 0 /\ s1[2] = 192 /\ s1[3] = Line1(app) /\ s1[4] = 0
  BY <1>2, <1>3 DEF Concat
<1>5. Concat(s1, s0, s2)
  BY <1>2, <1>4, ConcatBytes, Zenon
<1> HIDE DEF s2
<1>6. /\ s2 \in Seq(Byte) /\ Len(s2) = 7
      /\ s2[1] = 0 /\ s2[2] = 192 /\ s2[3] = Line1(app) /\ s2[4] = 0
      /\ s2[5] = 192 /\ s2[6] = 0 /\ s2[7] = 0
  BY <1>2, <1>4, <1>5 DEF Concat
<1>7. Concat(s2, j0, s3)
  BY <1>2, <1>6, ConcatBytes, Zenon
<1> HIDE DEF s3
<1>8. /\ s3 \in Seq(Byte) /\ Len(s3) = 9
      /\ s3[1] = 0 /\ s3[2] = 192 /\ s3[3] = Line1(app) /\ s3[4] = 0
      /\ s3[5] = 192 /\ s3[6] = 0 /\ s3[7] = 0 /\ s3[8] = 32 /\ s3[9] = 0
  BY <1>2, <1>6, <1>7 DEF Concat
<1>9. ASSUME NEW f, \A k \in 1 .. 9 : f[k - 1] = s3[k]
      PROVE  PulserCode(f, app)
  <2>1. ASSUME NEW k \in 1 .. 9, NEW i, i = k - 1 PROVE f[i] = s3[k]
    BY <1>9, <2>1
  <2> QED
    BY <1>8, <2>1 DEF PulserCode
<1> QED
  BY <1>1, <1>8, <1>9

-----------------------------------------------------------------------------
(* One cycle of the coprocessor.                                           *)
LEMMA Sizes ==
    /\ PcSize \in Nat /\ PcSize >= 128
    /\ 8192 % PcSize = 0 /\ 8196 % PcSize = 4
    /\ IterSize \in Nat \ {0} /\ Depth \in Nat \ {0}
  BY MatrixAssumption

(* The three instructions the programs are made of, as they are decoded.   *)
LEMMA Decode ==
    ASSUME instr \in [0 .. 3 -> Byte]
    PROVE  /\ Immediate \in Nat
           /\ instr[0] = 0   => Op = "WAITT" /\ Length = 1
           /\ instr[0] = 192 => Op = "STORE" /\ Length = 3
           /\ instr[0] = 32  => Op = "JUMP" /\ Immediate = 8192 + instr[1]
<1>1. \A k \in 0 .. 3 : instr[k] \in 0 .. 255
  BY DEF Byte
<1>2. Immediate \in Nat
  <2>1. instr[0] \in Nat /\ instr[1] \in Nat
    BY <1>1
  <2>2. \A x, y \in Nat : (x % 64) * 256 + y \in Nat
    OBVIOUS
  <2> QED
    BY <2>1, <2>2 DEF Immediate
<1>3. /\ instr[0] = 0   => Op = "WAITT"
      /\ instr[0] = 192 => Op = "STORE"
      /\ instr[0] = 32  => Op = "JUMP"
  BY DEF Op
<1>4. instr[0] = 32 => Immediate = 8192 + instr[1]
  BY <1>1 DEF Immediate
<1> QED
  BY <1>2, <1>3, <1>4 DEF Length

(* Programs without LOOP and STOREB leave the loop controller at rest, and *)
(* so does the reset.                                                      *)
LEMMA LoopsIdle ==
    ASSUME LoopsRest, pc_id \in Addr, instr \in [0 .. 3 -> Byte],
           Op \in {"WAITT", "STORE", "JUMP"},
           LC!Execute(Seen)
    PROVE  LoopsRest'
<1>1. Seen.op = "OTHER"
  BY DEF Seen
<1>2. Seen \in LC!Instr
  <2>1. Immediate % IterSize \in 0 .. IterSize - 1
    BY Decode, Sizes
  <2> QED
    BY <1>1, <2>1 DEF Seen, LC!Instr, LC!Iter, LC!Addr, Addr
<1>3. executed' = Seen /\ opened' = opened /\ LC!Idle(Seen)
  BY <1>1 DEF LC!Execute, LC!Open, LC!Repeat, LC!CloseInner, LC!CloseOuter, LC!Ignore
<1> QED
  BY <1>2, <1>3 DEF LC!Idle, LC!lifo, LoopsRest

(* The reset leaves the loop controller at rest.                           *)
LEMMA LoopsReset ==
    ASSUME LoopsRest, LC!Reset
    PROVE  LoopsRest'
  BY DEF LC!Reset, LoopsRest

(* A loop controller at rest is well typed.                                *)
LEMMA LoopsTyped ==
    ASSUME LoopsRest
    PROVE  LC!TypeOK
<1>1. LC!NoLoop \in LC!Loop
  BY Sizes DEF LC!NoLoop, LC!Loop, LC!Addr, LC!Iter
<1>2. mem \in [0 .. Depth - 1 -> LC!Loop]
  BY <1>1 DEF LoopsRest
<1>3. elements_counter \in 0 .. Depth
  BY Sizes DEF LoopsRest
<1>4. active_loop \in LC!Loop /\ lifo_rdata \in LC!Loop /\ executed \in LC!Instr
  BY <1>1 DEF LoopsRest
<1>5. /\ loop_execution \in BOOLEAN /\ lifo_readout \in BOOLEAN
      /\ full \in BOOLEAN /\ empty \in BOOLEAN
      /\ taken \in SUBSET LC!Addr /\ opened \in SUBSET LC!Addr
  BY Zenon DEF LoopsRest
<1> QED
  BY <1>2, <1>3, <1>4, <1>5 DEF LC!TypeOK

(* What a fetch reads.                                                     *)
LEMMA FetchBytes ==
    ASSUME NEW f \in [Addr -> Byte], NEW addr \in Addr, Fetch(f, addr)
    PROVE  /\ instr' \in [0 .. 3 -> Byte]
           /\ \A k \in 0 .. 3 : addr + k < PcSize => instr'[k] = f[addr + k]
<1>1. CASE addr + 3 < PcSize
  <2>1. instr' = [k \in 0 .. 3 |-> f[addr + k]]
    BY <1>1 DEF Fetch
  <2>2. \A k \in 0 .. 3 : addr + k \in Addr
    BY <1>1, Sizes DEF Addr
  <2> QED
    BY <2>1, <2>2
<1>2. CASE ~(addr + 3 < PcSize)
  <2>1. PICK junk \in Byte :
            instr' = [k \in 0 .. 3 |-> IF addr + k < PcSize THEN f[addr + k] ELSE junk]
    BY <1>2 DEF Fetch
  <2>2. \A k \in 0 .. 3 : addr + k < PcSize => addr + k \in Addr
    BY Sizes DEF Addr
  <2> QED
    BY <2>1, <2>2
<1> QED
  BY <1>1, <1>2

(* Where each instruction leads, and what it does to the lines.            *)
LEMMA RunInstruction ==
    ASSUME NEW trigger \in BOOLEAN, instr \in [0 .. 3 -> Byte],
           pc_id \in 0 .. 103, Run(trigger, code)
    PROVE  /\ Fetch(code, pc_id') /\ LC!Execute(Seen)
           /\ instr[0] = 0 =>
                  /\ Op = "WAITT"
                  /\ pc_id' = IF trigger THEN pc_id + 1 ELSE pc_id
                  /\ matrix_ctrl' = matrix_ctrl
           /\ instr[0] = 192 =>
                  /\ Op = "STORE"
                  /\ pc_id' = pc_id + 3
                  /\ matrix_ctrl' = instr[2] * 256 + instr[1]
           /\ instr[0] = 32 /\ instr[1] \in {0, 4} =>
                  /\ Op = "JUMP"
                  /\ pc_id' = instr[1]
                  /\ matrix_ctrl' = matrix_ctrl
<1>1. /\ pc_id' = PcIf(TRUE, trigger) /\ Fetch(code, pc_id')
      /\ matrix_ctrl' = IF Stores THEN Stored ELSE matrix_ctrl
      /\ LC!Execute(Seen)
  BY DEF Run
<1>2. /\ (pc_id + 1) % PcSize = pc_id + 1
      /\ (pc_id + 3) % PcSize = pc_id + 3
  BY Sizes
<1>3. ASSUME instr[0] = 0
      PROVE  /\ Op = "WAITT"
             /\ pc_id' = IF trigger THEN pc_id + 1 ELSE pc_id
             /\ matrix_ctrl' = matrix_ctrl
  <2>1. Op = "WAITT" /\ Length = 1
    BY <1>3, Decode
  <2>2. Waitt /\ ~Branches /\ ~Stores
    BY <2>1 DEF Waitt, Branches, Stores
  <2> QED
    BY <1>1, <1>2, <2>1, <2>2 DEF PcIf
<1>4. ASSUME instr[0] = 192
      PROVE  /\ Op = "STORE"
             /\ pc_id' = pc_id + 3
             /\ matrix_ctrl' = instr[2] * 256 + instr[1]
  <2>1. Op = "STORE" /\ Length = 3
    BY <1>4, Decode
  <2>2. ~Waitt /\ ~Branches /\ Stores
    BY <2>1 DEF Waitt, Branches, Stores
  <2> QED
    BY <1>1, <1>2, <2>1, <2>2 DEF PcIf, Stored
<1>5. ASSUME instr[0] = 32, instr[1] \in {0, 4}
      PROVE  /\ Op = "JUMP"
             /\ pc_id' = instr[1]
             /\ matrix_ctrl' = matrix_ctrl
  <2>1. Op = "JUMP" /\ Immediate = 8192 + instr[1]
    BY <1>5, Decode
  <2>2. ~Waitt /\ ~Branches /\ ~Stores
    BY <2>1 DEF Waitt, Branches, Stores
  <2>3. Immediate % PcSize = instr[1]
    BY <1>5, <2>1, Sizes
  <2> QED
    BY <1>1, <2>1, <2>2, <2>3 DEF PcIf
<1> QED
  BY <1>1, <1>3, <1>4, <1>5

-----------------------------------------------------------------------------
(* The lines that the values the programs store mean.                      *)
SelectValues == {2, 4}
ShiftValues  == {3, 5}

(* Which lines of the matrix each value that the programs store raises.    *)
LEMMA Lines ==
    ASSUME ~cr.direct_ctrl
    PROVE  /\ matrix_ctrl = 0 => ~ClkSh /\ ~(ShA \/ ShB) /\ ~Gate /\ ~Store
           /\ matrix_ctrl \in SelectValues =>
                  ~ClkSh /\ (ShA \/ ShB) /\ ~Gate /\ ~Store
           /\ matrix_ctrl \in ShiftValues =>
                  ClkSh /\ (ShA \/ ShB) /\ ~Gate /\ ~Store
           /\ matrix_ctrl = 8 => ~ClkSh /\ ~(ShA \/ ShB) /\ Gate /\ ~Store
           /\ matrix_ctrl = 32 => ~ClkSh /\ ~(ShA \/ ShB) /\ ~Gate /\ Store
  BY DEF ClkSh, ShA, ShB, Gate, Store, Line, SelectValues, ShiftValues

(* The same for gate and store after a step.                               *)
LEMMA LinesAfter ==
    ASSUME ~cr'.direct_ctrl
    PROVE  /\ matrix_ctrl' = 0 => ~Gate' /\ ~Store'
           /\ matrix_ctrl' \in SelectValues => ~Gate' /\ ~Store'
           /\ matrix_ctrl' \in ShiftValues => ~Gate' /\ ~Store'
           /\ matrix_ctrl' = 8 => Gate' /\ ~Store'
           /\ matrix_ctrl' = 32 => ~Gate' /\ Store'
  BY DEF Gate, Store, Line, SelectValues, ShiftValues

(* The transmitter and the receiver, under the values stored.              *)
LEMMA ShifterSteps ==
    ASSUME ~cr.direct_ctrl
    PROVE  /\ matrix_ctrl \in {0, 8, 32} /\ Resting =>
                  Shifted(tx) = Shifter("IDLE", 0)
           /\ matrix_ctrl \in SelectValues =>
                  /\ Resting => Shifted(tx) = Shifter("WAITING", 0)
                  /\ \A j \in 0 .. 15 : tx = Shifting(j) => Shifted(tx) = Shifting(j)
           /\ matrix_ctrl \in ShiftValues =>
                  \A j \in 0 .. 15 : tx = Shifting(j) =>
                      Shifted(tx) = IF j = 15 THEN Shifter("WAITING", 0)
                                              ELSE Shifting(j + 1)
<1>1. ASSUME matrix_ctrl \in {0, 8, 32}, Resting
      PROVE  Shifted(tx) = Shifter("IDLE", 0)
  <2>1. ~ClkSh /\ ~(ShA \/ ShB)
    BY <1>1, Lines
  <2> QED
    BY <1>1, <2>1 DEF Resting, Shifted, Shifter
<1>2. ASSUME matrix_ctrl \in SelectValues
      PROVE  /\ Resting => Shifted(tx) = Shifter("WAITING", 0)
             /\ \A j \in 0 .. 15 : tx = Shifting(j) => Shifted(tx) = Shifting(j)
  <2>1. ~ClkSh /\ (ShA \/ ShB)
    BY <1>2, Lines
  <2> QED
    BY <2>1 DEF Resting, Shifted, Shifter, Shifting
<1>3. ASSUME matrix_ctrl \in ShiftValues, NEW j \in 0 .. 15, tx = Shifting(j)
      PROVE  Shifted(tx) = IF j = 15 THEN Shifter("WAITING", 0) ELSE Shifting(j + 1)
  <2>1. ClkSh
    BY <1>3, Lines
  <2>2. CASE j = 0
    <3>1. tx = [state |-> "WAITING", bits_counter |-> 0]
      BY <1>3, <2>2 DEF Shifting, Shifter
    <3>2. Shifted(tx) = [state |-> "ACTIVE", bits_counter |-> 1]
      BY <2>1, <3>1 DEF Shifted
    <3> QED
      BY <2>2, <3>2 DEF Shifting, Shifter
  <2>3. CASE j # 0
    <3>1. tx = [state |-> "ACTIVE", bits_counter |-> j]
      BY <1>3, <2>3 DEF Shifting, Shifter
    <3>2. CASE j = 15
      BY <2>1, <3>1, <3>2 DEF Shifted, Shifter
    <3>3. CASE j # 15
      <4>1. Shifted(tx) = [state |-> "ACTIVE", bits_counter |-> j + 1]
        BY <2>1, <3>1, <3>3 DEF Shifted
      <4> QED
        BY <2>3, <3>3, <4>1 DEF Shifting, Shifter
    <3> QED
      BY <3>2, <3>3
  <2> QED
    BY <2>2, <2>3
<1> QED
  BY <1>1, <1>2, <1>3

-----------------------------------------------------------------------------
(* The first bytes of the instruction, out of the code.                    *)
LEMMA FetchedBytes ==
    ASSUME Fetched, pc_id \in 0 .. 101
    PROVE  instr[0] = code[pc_id] /\ instr[1] = code[pc_id + 1] /\ instr[2] = code[pc_id + 2]
<1>1. pc_id + 0 < PcSize /\ pc_id + 1 < PcSize /\ pc_id + 2 < PcSize
  BY Sizes
<1>2. /\ instr[0] = code[pc_id + 0] /\ instr[1] = code[pc_id + 1]
      /\ instr[2] = code[pc_id + 2]
  BY <1>1 DEF Fetched
<1> QED
  BY <1>2

(* A cycle of a program that goes on fetching.                             *)
LEMMA RunFetches ==
    ASSUME instr \in [0 .. 3 -> Byte], code \in [Addr -> Byte], LoopsRest,
           pc_id \in 0 .. 101, pc_id' \in 0 .. 101, code' = code,
           Fetch(code, pc_id'), LC!Execute(Seen), Op \in {"WAITT", "STORE", "JUMP"}
    PROVE  /\ Fetched' /\ instr' \in [0 .. 3 -> Byte] /\ pc_id' \in Addr
           /\ LoopsRest'
<1>1. pc_id \in Addr /\ pc_id' \in Addr
  BY Sizes DEF Addr
<1>2. /\ instr' \in [0 .. 3 -> Byte]
      /\ \A k \in 0 .. 3 : pc_id' + k < PcSize => instr'[k] = code[pc_id' + k]
  BY <1>1, FetchBytes
<1>3. LoopsRest'
  BY <1>1, LoopsIdle
<1> QED
  BY <1>1, <1>2, <1>3 DEF Fetched

ShifterLines == {0} \cup SelectValues \cup ShiftValues

(* One cycle of a shifter, from each of its places.                        *)
LEMMA ShifterCycle ==
    ASSUME NEW app \in Shifters, ShifterCode(code, app), ShifterPlace(app), Fetched,
           instr \in [0 .. 3 -> Byte], code \in [Addr -> Byte], LoopsRest,
           cr.pmcc_trg \in BOOLEAN, ~cr.direct_ctrl,
           Run(cr.pmcc_trg, code), tx' = Shifted(tx), code' = code
    PROVE  /\ ShifterPlace(app)'
           /\ Fetched' /\ instr' \in [0 .. 3 -> Byte] /\ pc_id' \in Addr /\ LoopsRest'
           /\ matrix_ctrl \in ShifterLines /\ matrix_ctrl' \in ShifterLines
           /\ Waitt <=> pc_id \in {0, 4}
           /\ pc_id \in {0, 4} /\ ~cr.pmcc_trg => pc_id' = pc_id
           /\ pc_id' = 4 => pc_id \in {1, 4, 101}
           /\ pc_id' = 4 /\ pc_id # 1 => tx'.state = "WAITING"
<1> DEFINE Goal ==
        /\ ShifterPlace(app)' /\ pc_id' \in 0 .. 101
        /\ matrix_ctrl \in ShifterLines /\ matrix_ctrl' \in ShifterLines
        /\ Op \in {"WAITT", "STORE", "JUMP"}
        /\ Waitt <=> pc_id \in {0, 4}
        /\ pc_id \in {0, 4} /\ ~cr.pmcc_trg => pc_id' = pc_id
        /\ pc_id' = 4 => pc_id \in {1, 4, 101}
        /\ pc_id' = 4 /\ pc_id # 1 => tx'.state = "WAITING"
<1>1. Low(app) \in SelectValues /\ High(app) \in ShiftValues
  BY DEF Low, High, SelectValues, ShiftValues
<1>2. pc_id \in 0 .. 101
  BY DEF ShifterPlace, AtStart, AtWaitt, AtHigh, AtLow, AtJump
<1>3. /\ instr[0] = code[pc_id] /\ instr[1] = code[pc_id + 1]
      /\ instr[2] = code[pc_id + 2]
  BY <1>2, FetchedBytes
<1>4. /\ Fetch(code, pc_id') /\ LC!Execute(Seen)
      /\ instr[0] = 0 =>
             /\ Op = "WAITT"
             /\ pc_id' = IF cr.pmcc_trg THEN pc_id + 1 ELSE pc_id
             /\ matrix_ctrl' = matrix_ctrl
      /\ instr[0] = 192 =>
             /\ Op = "STORE"
             /\ pc_id' = pc_id + 3
             /\ matrix_ctrl' = instr[2] * 256 + instr[1]
      /\ instr[0] = 32 /\ instr[1] \in {0, 4} =>
             /\ Op = "JUMP"
             /\ pc_id' = instr[1]
             /\ matrix_ctrl' = matrix_ctrl
  BY <1>2, RunInstruction
<1>5. ASSUME pc_id = 0 /\ matrix_ctrl = 0 /\ Resting PROVE Goal
  <2>1. instr[0] = 0
    BY <1>3, <1>5 DEF ShifterCode
  <2>2. tx' = Shifter("IDLE", 0)
    BY <1>5, ShifterSteps
  <2>3. Resting'
    BY <2>2 DEF Resting
  <2>4. pc_id' \in {0, 1} /\ matrix_ctrl' = 0 /\ Op = "WAITT" /\ (~cr.pmcc_trg => pc_id' = 0)
    BY <1>4, <1>5, <2>1
  <2>5. AtStart'
    BY <2>3, <2>4 DEF AtStart
  <2>6. ShifterPlace(app)'
    BY <2>5 DEF ShifterPlace
  <2> QED
    BY <1>5, <2>4, <2>6 DEF ShifterLines, Waitt
<1>6. ASSUME pc_id = 1 /\ matrix_ctrl = 0 /\ Resting PROVE Goal
  <2>1. instr[0] = 192 /\ instr[1] = 2 /\ instr[2] = 0
    BY <1>3, <1>6 DEF ShifterCode
  <2>2. Resting'
    BY <1>6, ShifterSteps DEF Resting
  <2>3. pc_id' = 4 /\ matrix_ctrl' = 2 /\ Op = "STORE"
    BY <1>4, <1>6, <2>1
  <2>4. AtWaitt(app)'
    BY <2>2, <2>3 DEF AtWaitt
  <2>5. ShifterPlace(app)'
    BY <2>4 DEF ShifterPlace
  <2> QED
    BY <1>6, <2>3, <2>5 DEF ShifterLines, SelectValues, Waitt
<1>7. ASSUME AtWaitt(app) PROVE Goal
  <2> USE <1>7 DEF AtWaitt
  <2>1. instr[0] = 0
    BY <1>3, <1>7 DEF ShifterCode
  <2>2. matrix_ctrl \in SelectValues
    BY <1>1, <1>7 DEF SelectValues
  <2>3. tx' = Shifter("WAITING", 0)
    BY <1>7, <2>2, ShifterSteps
  <2>4. Resting' /\ tx'.state = "WAITING" /\ tx' = Shifting(0)
    BY <2>3 DEF Resting, Shifter, Shifting
  <2>5. pc_id' \in {4, 5} /\ matrix_ctrl' = matrix_ctrl /\ Op = "WAITT"
        /\ (~cr.pmcc_trg => pc_id' = 4)
    BY <1>4, <1>7, <2>1
  <2>6. CASE pc_id' = 4
    <3>1. AtWaitt(app)'
      BY <1>7, <2>4, <2>5, <2>6 DEF AtWaitt
    <3>2. ShifterPlace(app)'
      BY <3>1 DEF ShifterPlace
    <3> QED
      BY <1>7, <2>2, <2>4, <2>5, <2>6, <3>2 DEF ShifterLines, Waitt
  <2>7. CASE pc_id' = 5
    <3>1. AtHigh(app, 0)'
      BY <1>7, <2>4, <2>5, <2>7 DEF AtHigh
    <3>2. ShifterPlace(app)'
      BY <3>1 DEF ShifterPlace
    <3> QED
      BY <1>7, <2>2, <2>4, <2>5, <2>7, <3>2 DEF ShifterLines, Waitt
  <2> QED
    BY <2>5, <2>6, <2>7
<1>8. ASSUME NEW j \in 0 .. 15, AtHigh(app, j)
      PROVE  Goal
  <2> USE <1>8 DEF AtHigh
  <2>1. instr[0] = 192 /\ instr[1] = High(app) /\ instr[2] = 0
    <3>1. pc_id + 1 = 6 + 6 * j /\ pc_id + 2 = 7 + 6 * j
      BY <1>8
    <3> QED
      BY <1>3, <1>8, <3>1 DEF ShifterCode
  <2>2. matrix_ctrl \in SelectValues
    BY <1>1, <1>8 DEF SelectValues
  <2>3. tx' = Shifting(j)
    BY <1>8, <2>2, ShifterSteps
  <2>4. pc_id' = 8 + 6 * j /\ matrix_ctrl' = High(app) /\ Op = "STORE"
    BY <1>1, <1>4, <1>8, <2>1 DEF ShiftValues
  <2>5. ShifterPlace(app)'
    <3>1. AtLow(app, j)'
      BY <2>3, <2>4 DEF AtLow, Shifting
    <3> QED
      BY <3>1 DEF ShifterPlace
  <2>6. pc_id \notin {0, 4} /\ pc_id' # 4 /\ pc_id' \in 0 .. 101
    BY <1>8, <2>4
  <2>7. ~Waitt /\ matrix_ctrl \in ShifterLines /\ matrix_ctrl' \in ShifterLines
    BY <1>1, <2>2, <2>4 DEF Waitt, ShifterLines
  <2> QED
    BY <2>4, <2>5, <2>6, <2>7
<1>9. ASSUME NEW j \in 0 .. 15, AtLow(app, j)
      PROVE  Goal
  <2> USE <1>9 DEF AtLow
  <2>1. instr[0] = 192 /\ instr[1] = Low(app) /\ instr[2] = 0
    <3>1. pc_id + 1 = 9 + 6 * j /\ pc_id + 2 = 10 + 6 * j
      BY <1>9
    <3> QED
      BY <1>3, <1>9, <3>1 DEF ShifterCode
  <2>2. tx' = IF j = 15 THEN Shifter("WAITING", 0) ELSE Shifting(j + 1)
    BY <1>1, <1>9, ShifterSteps
  <2>3. pc_id' = 11 + 6 * j /\ matrix_ctrl' = Low(app) /\ Op = "STORE"
    BY <1>1, <1>4, <1>9, <2>1 DEF SelectValues
  <2>4. pc_id \notin {0, 4} /\ pc_id' # 4 /\ pc_id' \in 0 .. 101
    BY <1>9, <2>3
  <2>5. ~Waitt /\ matrix_ctrl \in ShifterLines /\ matrix_ctrl' \in ShifterLines
    BY <1>1, <1>9, <2>3 DEF Waitt, ShifterLines
  <2>6. CASE j = 15
    <3>1. pc_id' = 101 /\ tx' = Shifter("WAITING", 0)
      BY <2>2, <2>3, <2>6
    <3>2. AtJump(app)'
      BY <2>3, <3>1 DEF AtJump, Shifter
    <3>3. ShifterPlace(app)'
      BY <3>2 DEF ShifterPlace
    <3> QED
      BY <2>3, <2>4, <2>5, <3>3
  <2>7. CASE j # 15
    <3>1. /\ j + 1 \in 0 .. 15 /\ pc_id' = 5 + 6 * (j + 1) /\ tx' = Shifting(j + 1)
          /\ matrix_ctrl' = Low(app)
      BY <2>2, <2>3, <2>7
    <3>2. AtHigh(app, j + 1)'
      BY <3>1 DEF AtHigh, Shifting
    <3>3. ShifterPlace(app)'
      BY <3>1, <3>2 DEF ShifterPlace
    <3> QED
      BY <2>3, <2>4, <2>5, <3>3
  <2> QED
    BY <2>6, <2>7
<1>10. ASSUME AtJump(app) PROVE Goal
  <2> USE <1>10 DEF AtJump
  <2>1. instr[0] = 32 /\ instr[1] = 4
    BY <1>3, <1>10 DEF ShifterCode
  <2>2. tx' = Shifter("WAITING", 0)
    BY <1>1, <1>10, ShifterSteps DEF Resting
  <2>3. Resting' /\ tx'.state = "WAITING"
    BY <2>2 DEF Resting, Shifter
  <2>4. pc_id' = 4 /\ matrix_ctrl' = Low(app) /\ Op = "JUMP"
    BY <1>4, <1>10, <2>1
  <2>5. AtWaitt(app)'
    BY <2>3, <2>4 DEF AtWaitt
  <2>6. ShifterPlace(app)'
    BY <2>5 DEF ShifterPlace
  <2> QED
    BY <1>1, <1>10, <2>3, <2>4, <2>6 DEF ShifterLines, Waitt
<1>11. Goal
  BY <1>5, <1>6, <1>7, <1>8, <1>9, <1>10 DEF ShifterPlace, AtStart
<1>12. Fetched' /\ instr' \in [0 .. 3 -> Byte] /\ pc_id' \in Addr /\ LoopsRest'
  BY <1>2, <1>4, <1>11, RunFetches
<1> QED
  BY <1>11, <1>12

(* One cycle of a latcher or of a hits generator.                          *)
LEMMA PulserCycle ==
    ASSUME NEW app \in Pulsers, PulserCode(code, app), PulserPlace(app), Fetched,
           instr \in [0 .. 3 -> Byte], code \in [Addr -> Byte], LoopsRest,
           cr.pmcc_trg \in BOOLEAN, ~cr.direct_ctrl,
           Run(cr.pmcc_trg, code), tx' = Shifted(tx), code' = code
    PROVE  /\ PulserPlace(app)'
           /\ Fetched' /\ instr' \in [0 .. 3 -> Byte] /\ pc_id' \in Addr /\ LoopsRest'
           /\ Waitt <=> pc_id = 0
           /\ pc_id' = CASE pc_id = 0 -> IF cr.pmcc_trg THEN 1 ELSE 0
                         [] pc_id = 1 -> 4
                         [] pc_id = 4 -> 7
                         [] OTHER     -> 0
<1>1. /\ pc_id \in {0, 1, 4, 7} /\ pc_id \in 0 .. 101 /\ pc_id \in 0 .. 103
      /\ matrix_ctrl = IF pc_id = 4 THEN Line1(app) ELSE 0
      /\ Resting
  BY DEF PulserPlace
<1>2. /\ instr[0] = code[pc_id] /\ instr[1] = code[pc_id + 1]
      /\ instr[2] = code[pc_id + 2]
  BY <1>1, FetchedBytes
<1>3. /\ Fetch(code, pc_id') /\ LC!Execute(Seen)
      /\ instr[0] = 0 =>
             /\ Op = "WAITT"
             /\ pc_id' = IF cr.pmcc_trg THEN pc_id + 1 ELSE pc_id
             /\ matrix_ctrl' = matrix_ctrl
      /\ instr[0] = 192 =>
             /\ Op = "STORE"
             /\ pc_id' = pc_id + 3
             /\ matrix_ctrl' = instr[2] * 256 + instr[1]
      /\ instr[0] = 32 /\ instr[1] \in {0, 4} =>
             /\ Op = "JUMP"
             /\ pc_id' = instr[1]
             /\ matrix_ctrl' = matrix_ctrl
  BY <1>1, RunInstruction
<1>4. Line1(app) \in {8, 32}
  BY DEF Line1
<1>5. Resting'
  <2>1. matrix_ctrl \in {0, 8, 32}
    BY <1>1, <1>4
  <2> QED
    BY <1>1, <2>1, ShifterSteps DEF Resting
<1>6. CASE pc_id = 0
  <2>1. instr[0] = 0
    BY <1>2, <1>6 DEF PulserCode
  <2>2. /\ Op = "WAITT" /\ pc_id' = (IF cr.pmcc_trg THEN 1 ELSE 0) /\ matrix_ctrl' = 0
    BY <1>1, <1>3, <1>6, <2>1
  <2>3. pc_id' \in 0 .. 101
    BY <2>2
  <2>4. Fetched' /\ instr' \in [0 .. 3 -> Byte] /\ pc_id' \in Addr /\ LoopsRest'
    BY <1>1, <1>3, <2>2, <2>3, RunFetches
  <2> QED
    BY <1>5, <1>6, <2>2, <2>4 DEF PulserPlace, Waitt
<1>7. CASE pc_id = 1
  <2>1. instr[0] = 192 /\ instr[1] = Line1(app) /\ instr[2] = 0
    BY <1>2, <1>7 DEF PulserCode
  <2>2. Op = "STORE" /\ pc_id' = 4 /\ matrix_ctrl' = Line1(app)
    BY <1>3, <1>4, <1>7, <2>1
  <2>3. Fetched' /\ instr' \in [0 .. 3 -> Byte] /\ pc_id' \in Addr /\ LoopsRest'
    BY <1>1, <1>3, <2>2, RunFetches
  <2> QED
    BY <1>5, <1>7, <2>2, <2>3 DEF PulserPlace, Waitt
<1>8. CASE pc_id = 4
  <2>1. instr[0] = 192 /\ instr[1] = 0 /\ instr[2] = 0
    BY <1>2, <1>8 DEF PulserCode
  <2>2. Op = "STORE" /\ pc_id' = 7 /\ matrix_ctrl' = 0
    BY <1>3, <1>8, <2>1
  <2>3. Fetched' /\ instr' \in [0 .. 3 -> Byte] /\ pc_id' \in Addr /\ LoopsRest'
    BY <1>1, <1>3, <2>2, RunFetches
  <2> QED
    BY <1>5, <1>8, <2>2, <2>3 DEF PulserPlace, Waitt
<1>9. CASE pc_id = 7
  <2>1. instr[0] = 32 /\ instr[1] = 0
    BY <1>2, <1>9 DEF PulserCode
  <2>2. Op = "JUMP" /\ pc_id' = 0 /\ matrix_ctrl' = 0
    BY <1>1, <1>3, <1>9, <2>1
  <2>3. Fetched' /\ instr' \in [0 .. 3 -> Byte] /\ pc_id' \in Addr /\ LoopsRest'
    BY <1>1, <1>3, <2>2, RunFetches
  <2> QED
    BY <1>5, <1>9, <2>2, <2>3 DEF PulserPlace, Waitt
<1> QED
  BY <1>1, <1>6, <1>7, <1>8, <1>9

(* Whatever the instruction, the code RAM gets an address it has.          *)
LEMMA FetchAddress ==
    ASSUME NEW rst_n \in BOOLEAN, NEW trigger \in BOOLEAN,
           instr \in [0 .. 3 -> Byte], pc_id \in Addr, LoopsRest
    PROVE  /\ PcIf(rst_n, trigger) \in Addr
           /\ ~rst_n => PcIf(rst_n, trigger) = 0
<1>1. Op \in {"STORE", "STOREB", "LOOP", "JUMP", "WAITT"}
  <2>1. instr[0] \in 0 .. 255
    BY DEF Byte
  <2>2. instr[0] \div 32 \in 0 .. 7
    BY <2>1
  <2> QED
    BY <2>2 DEF Op
<1>2. Length \in {1, 2, 3}
  BY <1>1 DEF Length
<1>3. ~Branches
  BY DEF Branches, LC!InLoop, LoopsRest
<1>4. /\ 0 \in Addr /\ (pc_id + Length) % PcSize \in Addr
      /\ Immediate % PcSize \in Addr
  BY <1>2, Decode, Sizes DEF Addr
<1> QED
  BY <1>3, <1>4 DEF PcIf

(* A cycle of the coprocessor that begins or ends in reset.                *)
LEMMA HeldCycle ==
    ASSUME NEW rst_n \in BOOLEAN, NEW trigger \in BOOLEAN,
           instr \in [0 .. 3 -> Byte], code \in [Addr -> Byte], LoopsRest,
           pc_id \in Addr, Held(rst_n, trigger, code)
    PROVE  /\ pc_id' = 0 /\ matrix_ctrl' = 0 /\ LoopsRest'
           /\ instr' \in [0 .. 3 -> Byte]
           /\ ~rst_n => \A k \in 0 .. 3 : instr'[k] = code[k]
<1>1. /\ pc_id' = 0 /\ matrix_ctrl' = 0 /\ LoopsRest'
      /\ Fetch(code, PcIf(rst_n, trigger))
  BY LoopsReset DEF Held
<1>2. /\ PcIf(rst_n, trigger) \in Addr
      /\ ~rst_n => PcIf(rst_n, trigger) = 0
  BY FetchAddress
<1>3. /\ instr' \in [0 .. 3 -> Byte]
      /\ \A k \in 0 .. 3 : PcIf(rst_n, trigger) + k < PcSize =>
             instr'[k] = code[PcIf(rst_n, trigger) + k]
  BY <1>1, <1>2, FetchBytes
<1>4. ASSUME ~rst_n, NEW k \in 0 .. 3 PROVE instr'[k] = code[k]
  <2>1. PcIf(rst_n, trigger) = 0 /\ 0 + k < PcSize /\ 0 + k = k
    BY <1>2, <1>4, Sizes
  <2> QED
    BY <1>3, <2>1
<1> QED
  BY <1>1, <1>3, <1>4

-----------------------------------------------------------------------------
(* The accesses the drivers make, and the registers after them.            *)
Accesses ==
    {None} \cup {WriteCr(val) : val \in {v \in Cr : ~v.direct_ctrl}}
    \cup {WriteDout(wd) : wd \in Word}
    \cup {WriteCode(4 * w, bytes) : w \in Nat, bytes \in [0 .. 3 -> Byte]}

(* What the accesses of the software may carry.                            *)
LEMMA AccessKinds ==
    ASSUME NEW access \in Accesses
    PROVE  /\ access = None \/ access.reg \in {"cr", "dout", "code"}
           /\ access.reg \in {"none", "cr", "dout", "code"}
           /\ access.reg = "cr" => access.val \in Cr /\ ~access.val.direct_ctrl
           /\ access.reg = "dout" => access.val \in Word
           /\ access.reg = "code" =>
                  /\ access.at \in Nat /\ access.val \in [0 .. 3 -> Byte]
  BY DEF Accesses, None, WriteCr, WriteDout, WriteCode

(* The bits that the matrix shifts out are bits.                           *)
LEMMA MatrixShows ==
    ASSUME MatrixOK, NEW c \in Counter
    PROVE  OutOf(c) \in Data
<1>1. Rows - 1 \in Row /\ 15 \in Bits
  BY MatrixAssumption DEF Row, Bits
<1> QED
  BY <1>1 DEF MatrixOK, OutOf, Matrix, Word

(* What a cycle leaves in the registers.                                   *)
LEMMA CycleRegs ==
    ASSUME RegsOK, MatrixOK, NEW access \in Accesses,
           PmcCycle(access, OutOf("a"), OutOf("b"))
    PROVE  /\ RegsOK'
           /\ cr' = CrAfter(access)
           /\ pmcc_wtt' = Waitt
           /\ tx' = Shifted(tx)
           /\ code' = CodeAfter(access)
           /\ Step(cr.pmcc_rst_n, cr'.pmcc_rst_n, cr.pmcc_trg, code)
<1>1. /\ cr' = CrAfter(access)
      /\ Step(cr.pmcc_rst_n, cr'.pmcc_rst_n, cr.pmcc_trg, code)
      /\ pmcc_wtt' = Waitt
      /\ ctrls' = Written(access, "ctrls", ctrls)
      /\ dout' = Written(access, "dout", dout)
      /\ din' = Received(OutOf("a"), OutOf("b")) /\ din_reg' = din
      /\ tx' = Shifted(tx) /\ rx' = Shifted(rx)
      /\ pm_din' = Shown
      /\ code' = CodeAfter(access)
  BY DEF PmcCycle
<1>2. cr' \in Cr /\ ~cr'.direct_ctrl
  <2>1. Written(access, "cr", cr) \in Cr /\ ~Written(access, "cr", cr).direct_ctrl
    BY AccessKinds DEF Written, RegsOK
  <2> QED
    BY <1>1, <2>1 DEF CrAfter, Cr
<1>3. ctrls' = 0
  BY <1>1, AccessKinds DEF Written, RegsOK
<1>4. dout' \in Word
  BY <1>1, AccessKinds DEF Written, RegsOK
<1>5. 15 \in Bits /\ (tx.state = "ACTIVE" => 15 - tx.bits_counter \in Bits)
  BY DEF RegsOK, ShifterState, Bits
<1>6. pm_din' \in Data
  BY <1>1, <1>5 DEF Shown, RegsOK, Word
<1>7. din' \in Word /\ din_reg' \in Word
  <2>1. (IF ShA THEN OutOf("a") ELSE OutOf("b")) \in Data
    BY MatrixShows DEF Counter
  <2> QED
    BY <1>1, <2>1 DEF Received, RegsOK, Word
<1>8. code' \in [Addr -> Byte]
  <2>1. CASE access.reg = "code"
    <3>1. /\ access.at \in Nat /\ access.val \in [0 .. 3 -> Byte]
          /\ code' = [a \in Addr |-> IF a \in access.at .. access.at + 3
                                     THEN access.val[a - access.at] ELSE code[a]]
      BY <1>1, <2>1, AccessKinds DEF CodeAfter
    <3>2. \A a \in Addr : a \in access.at .. access.at + 3 => a - access.at \in 0 .. 3
      BY <3>1, Sizes, SMTT(60) DEF Addr
    <3> QED
      BY <3>1, <3>2 DEF RegsOK
  <2>2. CASE access.reg # "code"
    BY <1>1, <2>2 DEF CodeAfter, RegsOK
  <2> QED
    BY <2>1, <2>2
<1>9. rx' = tx' /\ tx' \in ShifterState
  <2>1. Shifted(tx) \in ShifterState
    BY DEF RegsOK, Shifted, ShifterState, Bits
  <2> QED
    BY <1>1, <2>1 DEF RegsOK
<1>10. pmcc_wtt' \in BOOLEAN
  BY <1>1, Zenon DEF Waitt
<1> QED
  BY <1>1, <1>2, <1>3, <1>4, <1>6, <1>7, <1>8, <1>9, <1>10 DEF RegsOK

(* A cycle of the matrix, whatever the lines do.                           *)
LEMMA MatrixTyped ==
    ASSUME RegsOK, MatrixOK, MatrixCycle
    PROVE  MatrixOK'
<1>1. ASSUME NEW c \in Counter PROVE Shift(c, pm_din) \in Matrix
  <2>1. ASSUME NEW r \in Row, NEW k \in Bits
        PROVE  (CASE k > 0            -> counters[c][r][k - 1]
                  [] k = 0 /\ r > 0   -> counters[c][r - 1][15]
                  [] k = 0 /\ r = 0   -> pm_din) \in Data
    <3>1. k > 0 => k - 1 \in Bits
      BY DEF Bits
    <3>2. r > 0 => r - 1 \in Row
      BY MatrixAssumption DEF Row
    <3>3. 15 \in Bits /\ (k > 0 \/ k = 0) /\ (r > 0 \/ r = 0) /\ ~(k > 0 /\ k = 0)
          /\ ~(r > 0 /\ r = 0)
      BY MatrixAssumption DEF Bits, Row
    <3>4. \A q \in Row, i \in Bits : counters[c][q][i] \in Data
      BY DEF MatrixOK, Matrix, Word
    <3> QED
      BY <3>1, <3>2, <3>3, <3>4 DEF RegsOK
  <2> QED
    BY <2>1 DEF Shift, Matrix, Word
<1>2. counters' \in [Counter -> Matrix]
  BY <1>1, MatrixAssumption DEF MatrixCycle, MatrixOK
<1>3. config' \in [Counter -> Matrix] /\ gates' \in Nat
  BY DEF MatrixCycle, MatrixOK
<1> QED
  BY <1>2, <1>3 DEF MatrixOK

(* Where nothing falls, nothing is counted or latched.                     *)
LEMMA MatrixQuiet ==
    ASSUME MatrixCycle, ~Gate, ~Store
    PROVE  /\ config' = config /\ gates' = gates
           /\ ~ClkSh => counters' = counters
  BY DEF MatrixCycle

-----------------------------------------------------------------------------
(* The calls, as the driver functions follow each other in them.           *)

(* A piece of a call: it starts with a function that may come after any    *)
(* that finishes what it does, and finishes what it does itself, but for   *)
(* the pulse it triggers last.                                             *)
Piece(s, first, last) ==
    /\ s \in Seq(DriverCalls) /\ Len(s) >= 2 /\ Orderly(s)
    /\ s[1].fn = first /\ s[Len(s)].fn = last
    /\ first \in {"load_application", "set_dout", "trigger"}
    /\ first = "trigger" => s[2].fn = "poll"
    /\ last \in {"trigger", "poll", "get_din"}
    /\ last = "trigger" => s[Len(s) - 1] \in PulserLoads

(* A piece does not end in the load of a pulse program.                    *)
LEMMA LastDone ==
    ASSUME NEW s, NEW first, NEW last, Piece(s, first, last)
    PROVE  s[Len(s)] \notin PulserLoads
  BY DEF Piece, PulserLoads, Load

JoinedOrderly(s, t, q) ==
    /\ q \in Seq(DriverCalls) /\ Len(q) = Len(s) + Len(t)
    /\ \A i \in 1 .. Len(s) : q[i] = s[i]
    /\ \A i \in Len(s) + 1 .. Len(q) : q[i] = t[i - Len(s)]

(* Two sequences of driver functions in orderly succession make one.       *)
LEMMA JoinCalls ==
    ASSUME NEW s \in Seq(DriverCalls), NEW t \in Seq(DriverCalls)
    PROVE  JoinedOrderly(s, t, s \o t)
  BY DEF JoinedOrderly

SameSecond(q, s) == q[2] = s[2]

(* Two pieces that fit together make a piece.                              *)
LEMMA JoinPieces ==
    ASSUME NEW s, NEW t, NEW f, NEW l, NEW g, NEW m, Piece(s, f, l), Piece(t, g, m),
           l = "trigger" => g = "load_application"
    PROVE  Piece(s \o t, f, m) /\ SameSecond(s \o t, s)
<1> DEFINE q == s \o t
<1>1. s \in Seq(DriverCalls) /\ t \in Seq(DriverCalls)
  BY DEF Piece
<1>2. JoinedOrderly(s, t, q)
  BY <1>1, JoinCalls
<1> HIDE DEF q
<1>3. /\ q \in Seq(DriverCalls) /\ Len(q) = Len(s) + Len(t)
      /\ \A i \in 1 .. Len(s) : q[i] = s[i]
      /\ \A i \in Len(s) + 1 .. Len(q) : q[i] = t[i - Len(s)]
  BY <1>2 DEF JoinedOrderly
<1>4. /\ Len(s) \in Nat /\ Len(s) >= 2 /\ Len(t) \in Nat /\ Len(t) >= 2
      /\ Len(q) \in Nat
  BY <1>1, <1>3 DEF Piece
<1>5. /\ q[Len(s)] = s[Len(s)] /\ q[Len(s) + 1] = t[1] /\ q[Len(s) + 2] = t[2]
      /\ q[1] = s[1] /\ q[2] = s[2] /\ q[Len(q)] = t[Len(t)]
      /\ q[Len(q) - 1] = t[Len(t) - 1] /\ q[Len(s) - 1] = s[Len(s) - 1]
  <2>1. /\ Len(s) + 1 \in Len(s) + 1 .. Len(q) /\ Len(s) + 1 - Len(s) = 1
        /\ Len(s) + 2 \in Len(s) + 1 .. Len(q) /\ Len(s) + 2 - Len(s) = 2
        /\ Len(q) \in Len(s) + 1 .. Len(q) /\ Len(q) - Len(s) = Len(t)
        /\ Len(q) - 1 \in Len(s) + 1 .. Len(q) /\ Len(q) - 1 - Len(s) = Len(t) - 1
        /\ Len(s) \in 1 .. Len(s) /\ 1 \in 1 .. Len(s) /\ 2 \in 1 .. Len(s)
        /\ Len(s) - 1 \in 1 .. Len(s)
    BY <1>3, <1>4
  <2>2. /\ q[Len(s)] = s[Len(s)] /\ q[1] = s[1] /\ q[2] = s[2]
        /\ q[Len(s) - 1] = s[Len(s) - 1]
    BY <1>3, <2>1
  <2>3. q[Len(s) + 1] = t[1] /\ q[Len(s) + 2] = t[2]
    BY <1>3, <2>1
  <2>4. q[Len(q)] = t[Len(t)]
    BY <1>3, <2>1
  <2>5. q[Len(q) - 1] = t[Len(q) - 1 - Len(s)]
    BY <1>3, <2>1
  <2> QED
    BY <2>1, <2>2, <2>3, <2>4, <2>5
<1>6. ASSUME NEW i \in 1 .. Len(q) - 1 PROVE Follows(q[i], q[i + 1])
  <2>1. CASE i < Len(s)
    <3>1. i \in 1 .. Len(s) - 1 /\ i \in 1 .. Len(s) /\ i + 1 \in 1 .. Len(s)
      BY <1>4, <2>1
    <3>2. Follows(s[i], s[i + 1])
      BY <3>1 DEF Piece, Orderly
    <3> QED
      BY <1>3, <3>1, <3>2
  <2>2. CASE i = Len(s)
    BY <1>5, <2>2 DEF Piece, Follows
  <2>3. CASE i > Len(s)
    <3>1. /\ i \in Len(s) + 1 .. Len(q) /\ i + 1 \in Len(s) + 1 .. Len(q)
          /\ i - Len(s) \in 1 .. Len(t) - 1 /\ i + 1 - Len(s) = (i - Len(s)) + 1
      BY <1>3, <1>4, <2>3
    <3>2. Follows(t[i - Len(s)], t[(i - Len(s)) + 1])
      BY <3>1 DEF Piece, Orderly
    <3>3. q[i] = t[i - Len(s)] /\ q[i + 1] = t[(i - Len(s)) + 1]
      BY <1>3, <3>1
    <3> QED
      BY <3>2, <3>3
  <2> QED
    BY <1>4, <2>1, <2>2, <2>3
<1>7. ASSUME NEW i \in 1 .. Len(q), q[i].fn \in {"load_application", "set_dout"}
      PROVE  i < Len(q)
  <2>1. q[Len(q)].fn = m /\ m \notin {"load_application", "set_dout"}
    BY <1>5 DEF Piece
  <2> QED
    BY <1>4, <1>7, <2>1
<1>8. ASSUME NEW i \in 2 .. Len(q), q[i].fn = "trigger"
      PROVE  IF q[i - 1] \in PulserLoads
             THEN i < Len(q) => q[i + 1].fn = "load_application"
             ELSE i < Len(q) /\ q[i + 1].fn = "poll"
  <2>1. CASE i < Len(s)
    <3>1. /\ i \in 2 .. Len(s) /\ i \in 1 .. Len(s) /\ i - 1 \in 1 .. Len(s)
          /\ i + 1 \in 1 .. Len(s) /\ i < Len(q)
      BY <1>3, <1>4, <2>1
    <3>2. q[i - 1] = s[i - 1] /\ q[i] = s[i] /\ q[i + 1] = s[i + 1]
      BY <1>3, <3>1
    <3> QED
      BY <1>8, <2>1, <3>1, <3>2 DEF Piece, Orderly
  <2>2. CASE i = Len(s)
    <3>1. l = "trigger" /\ q[i - 1] \in PulserLoads
      BY <1>5, <1>8, <2>2 DEF Piece
    <3>2. q[i + 1].fn = "load_application"
      BY <1>5, <2>2, <3>1 DEF Piece
    <3> QED
      BY <3>1, <3>2
  <2>3. CASE i = Len(s) + 1
    <3>1. /\ q[i - 1] = s[Len(s)] /\ q[i] = t[1] /\ q[i + 1] = t[2] /\ i < Len(q)
      <4>1. i - 1 = Len(s) /\ i + 1 = Len(s) + 2 /\ i < Len(q)
        BY <1>3, <1>4, <2>3
      <4> QED
        BY <1>5, <2>3, <4>1
    <3>2. s[Len(s)] \notin PulserLoads
      BY LastDone
    <3>3. t[2].fn = "poll"
      BY <1>8, <3>1 DEF Piece
    <3> QED
      BY <3>1, <3>2, <3>3
  <2>4. CASE i > Len(s) + 1
    <3> DEFINE j == i - Len(s)
    <3>1. /\ j \in 2 .. Len(t) /\ i \in Len(s) + 1 .. Len(q)
          /\ i - 1 \in Len(s) + 1 .. Len(q) /\ i - 1 - Len(s) = j - 1
          /\ i < Len(q) <=> j < Len(t)
          /\ i < Len(q) => i + 1 \in Len(s) + 1 .. Len(q) /\ i + 1 - Len(s) = j + 1
      BY <1>3, <1>4, <2>4
    <3>2. /\ q[i] = t[j] /\ q[i - 1] = t[j - 1]
          /\ i < Len(q) => q[i + 1] = t[j + 1]
      <4>1. q[i] = t[i - Len(s)] /\ q[i - 1] = t[i - 1 - Len(s)]
        BY <1>3, <3>1
      <4>2. i < Len(q) => q[i + 1] = t[i + 1 - Len(s)]
        BY <1>3, <3>1
      <4> HIDE DEF j
      <4>3. i - Len(s) = j
        BY DEF j
      <4> QED
        BY <3>1, <4>1, <4>2, <4>3
    <3> HIDE DEF j
    <3>3. IF t[j - 1] \in PulserLoads
          THEN j < Len(t) => t[j + 1].fn = "load_application"
          ELSE j < Len(t) /\ t[j + 1].fn = "poll"
      BY <1>8, <3>1, <3>2 DEF Piece, Orderly
    <3> QED
      BY <3>1, <3>2, <3>3
  <2> QED
    BY <1>4, <2>1, <2>2, <2>3, <2>4
<1>9. Orderly(q)
  BY <1>6, <1>7, <1>8 DEF Orderly
<1>10. Piece(q, f, m) /\ SameSecond(q, s)
  BY <1>3, <1>4, <1>5, <1>9 DEF Piece, SameSecond
<1> QED
  BY <1>10 DEF q

(* The driver functions, told apart by their names.                        *)
LEMMA DriverFns ==
    /\ \A app \in Apps : /\ Load(app) \in DriverCalls
                         /\ Load(app).fn = "load_application" /\ Load(app).app = app
                         /\ Load(app) \in PulserLoads <=> app \in Pulsers
    /\ Trigger \in DriverCalls /\ Trigger.fn = "trigger" /\ Trigger \notin PulserLoads
    /\ Poll \in DriverCalls /\ Poll.fn = "poll" /\ Poll \notin PulserLoads
    /\ \A wd \in Word : /\ SetDout(wd) \in DriverCalls /\ SetDout(wd).fn = "set_dout"
                        /\ SetDout(wd) \notin PulserLoads
    /\ \A r \in Row : /\ GetDin(r) \in DriverCalls /\ GetDin(r).fn = "get_din"
                      /\ GetDin(r) \notin PulserLoads
<1>1. ASSUME NEW app \in Apps
      PROVE  /\ Load(app) \in DriverCalls
             /\ Load(app).fn = "load_application" /\ Load(app).app = app
             /\ Load(app) \in PulserLoads <=> app \in Pulsers
  BY <1>1 DEF Load, DriverCalls, PulserLoads
<1>2. /\ Trigger \in DriverCalls /\ Trigger.fn = "trigger"
      /\ Poll \in DriverCalls /\ Poll.fn = "poll"
  BY DEF Trigger, Poll, DriverCalls
<1>3. ASSUME NEW x \in PulserLoads PROVE x.fn = "load_application"
  BY DEF PulserLoads, Load
<1>4. ASSUME NEW wd \in Word
      PROVE  SetDout(wd) \in DriverCalls /\ SetDout(wd).fn = "set_dout"
  BY DEF SetDout, DriverCalls
<1>5. ASSUME NEW r \in Row
      PROVE  GetDin(r) \in DriverCalls /\ GetDin(r).fn = "get_din"
  BY DEF GetDin, DriverCalls
<1> QED
  BY <1>1, <1>2, <1>3, <1>4, <1>5

(* The beginning of a read: a load, a trigger and a poll.                  *)
LEMMA ReadStart ==
    ASSUME NEW c \in Shifters
    PROVE  Piece(<<Load(c), Trigger, Poll>>, "load_application", "poll")
<1> DEFINE s == <<Load(c), Trigger, Poll>>
<1>1. c \in Apps /\ c \notin Pulsers
  BY DEF Apps, Shifters, Pulsers
<1>2. /\ s \in Seq(DriverCalls) /\ Len(s) = 3
      /\ s[1].fn = "load_application" /\ s[2].fn = "trigger" /\ s[3].fn = "poll"
      /\ s[1] \notin PulserLoads
  BY <1>1, DriverFns
<1> HIDE DEF s
<1>3. Orderly(s)
  BY <1>2 DEF Orderly, Follows
<1>4. Piece(s, "load_application", "poll")
  BY <1>2, <1>3 DEF Piece
<1> QED
  BY <1>4 DEF s

(* A pulse: a load and a trigger that is not waited for.                   *)
LEMMA PulseCalls ==
    ASSUME NEW app \in Pulsers
    PROVE  Piece(<<Load(app), Trigger>>, "load_application", "trigger")
<1> DEFINE s == <<Load(app), Trigger>>
<1>1. app \in Apps
  BY DEF Apps
<1>2. /\ s \in Seq(DriverCalls) /\ Len(s) = 2
      /\ s[1].fn = "load_application" /\ s[2].fn = "trigger" /\ s[1] \in PulserLoads
  BY <1>1, DriverFns
<1> HIDE DEF s
<1>3. Orderly(s)
  BY <1>2 DEF Orderly, Follows
<1>4. Piece(s, "load_application", "trigger")
  BY <1>2, <1>3 DEF Piece
<1> QED
  BY <1>4 DEF s

(* The beginning of load_value, which first sets dout.                     *)
LEMMA ValueStart ==
    ASSUME NEW c \in Shifters, NEW wd \in Word
    PROVE  /\ Piece(<<SetDout(wd), Load(c), Trigger, Poll>>, "set_dout", "poll")
           /\ <<SetDout(wd), Load(c), Trigger, Poll>>[2].fn = "load_application"
<1> DEFINE s == <<SetDout(wd), Load(c), Trigger, Poll>>
<1>1. c \in Apps /\ c \notin Pulsers
  BY DEF Apps, Shifters, Pulsers
<1>2. /\ s \in Seq(DriverCalls) /\ Len(s) = 4
      /\ s[1].fn = "set_dout" /\ s[2].fn = "load_application" /\ s[3].fn = "trigger"
      /\ s[4].fn = "poll" /\ s[2] \notin PulserLoads
  BY <1>1, DriverFns
<1> HIDE DEF s
<1>3. Orderly(s)
  BY <1>2 DEF Orderly, Follows
<1>4. Piece(s, "set_dout", "poll") /\ s[2].fn = "load_application"
  BY <1>2, <1>3 DEF Piece
<1> QED
  BY <1>4 DEF s

(* The row by row parts.                                                   *)
LEMMA FunctionIsSeq ==
    ASSUME NEW S, NEW n \in Nat, NEW f \in [1 .. n -> S]
    PROVE  f \in Seq(S) /\ Len(f) = n
  OBVIOUS

(* The load of a pulse program is a load_application.                      *)
LEMMA PulserLoadFn == \A x \in PulserLoads : x.fn = "load_application"
  BY DEF PulserLoads, Load

Rounds(s, x, y, z) ==
    \A k \in 1 .. 3 * Rows : /\ (k - 1) % 3 = 0 => s[k].fn = x
                             /\ (k - 1) % 3 = 1 => s[k].fn = y
                             /\ (k - 1) % 3 = 2 => s[k].fn = z

(* Rounds of three driver functions, one for each row, make a piece.       *)
LEMMA RowsPiece ==
    ASSUME NEW s \in Seq(DriverCalls), Len(s) = 3 * Rows, NEW x, NEW y, NEW z,
           \/ x = "trigger" /\ y = "poll" /\ z = "get_din"
           \/ x = "set_dout" /\ y = "trigger" /\ z = "poll",
           Rounds(s, x, y, z)
    PROVE  Piece(s, x, z)
<1> USE DEF Rounds
<1>1. Rows \in Nat /\ Rows > 0
  BY MatrixAssumption
<1>2. ASSUME NEW i \in 1 .. Len(s) - 1
      PROVE  \/ s[i].fn = x /\ s[i + 1].fn = y
             \/ s[i].fn = y /\ s[i + 1].fn = z
             \/ s[i].fn = z /\ s[i + 1].fn = x
  <2>1. i \in 1 .. 3 * Rows /\ i + 1 \in 1 .. 3 * Rows
    BY <1>1
  <2>2. \/ (i - 1) % 3 = 0 /\ (i + 1 - 1) % 3 = 1
        \/ (i - 1) % 3 = 1 /\ (i + 1 - 1) % 3 = 2
        \/ (i - 1) % 3 = 2 /\ (i + 1 - 1) % 3 = 0
    BY <2>1
  <2> QED
    BY <2>1, <2>2
<1>3. s[1].fn = x /\ s[2].fn = y /\ s[Len(s)].fn = z
  <2>1. /\ 1 \in 1 .. 3 * Rows /\ (1 - 1) % 3 = 0
        /\ 2 \in 1 .. 3 * Rows /\ (2 - 1) % 3 = 1
        /\ 3 * Rows \in 1 .. 3 * Rows /\ (3 * Rows - 1) % 3 = 2
    BY <1>1
  <2> QED
    BY <2>1
<1>4. ASSUME NEW i \in 1 .. Len(s) - 1 PROVE Follows(s[i], s[i + 1])
  BY <1>2 DEF Follows
<1>5. ASSUME NEW i \in 1 .. Len(s), i = Len(s) \/ i \in 1 .. Len(s) - 1
      PROVE  /\ s[i].fn # "load_application"
             /\ s[i].fn = "set_dout" => i < Len(s)
             /\ s[i].fn = "trigger" => i < Len(s) /\ s[i + 1].fn = "poll"
  BY <1>1, <1>2, <1>3, <1>5
<1>6. ASSUME NEW i \in 1 .. Len(s)
      PROVE  /\ s[i].fn # "load_application"
             /\ s[i].fn = "set_dout" => i < Len(s)
             /\ s[i].fn = "trigger" => i < Len(s) /\ s[i + 1].fn = "poll"
  <2>1. i = Len(s) \/ i \in 1 .. Len(s) - 1
    BY <1>1
  <2> QED
    BY <1>5, <2>1
<1>7. \A i \in 2 .. Len(s) : s[i - 1] \notin PulserLoads
  <2> TAKE i \in 2 .. Len(s)
  <2>1. i - 1 \in 1 .. Len(s)
    BY <1>1
  <2> QED
    BY <1>6, <2>1, PulserLoadFn
<1>8. \A i \in 2 .. Len(s) : i \in 1 .. Len(s)
  BY <1>1
<1>9. Orderly(s)
  BY <1>4, <1>6, <1>7, <1>8 DEF Orderly
<1> QED
  BY <1>1, <1>3, <1>9 DEF Piece

(* The rows of read_counters are such rounds.                              *)
LEMMA ReadRows ==
    Piece(Downwards(3, LAMBDA r : <<Trigger, Poll, GetDin(r)>>), "trigger", "get_din")
<1> DEFINE s == Downwards(3, LAMBDA r : <<Trigger, Poll, GetDin(r)>>)
           op(k) == <<Trigger, Poll, GetDin(Rows - 1 - (k - 1) \div 3)>>[((k - 1) % 3) + 1]
<1>1. s = [k \in 1 .. 3 * Rows |-> op(k)]
  BY DEF Downwards
<1>2. Rows \in Nat /\ Rows > 0 /\ 3 * Rows \in Nat
  BY MatrixAssumption
<1>3. ASSUME NEW k \in 1 .. 3 * Rows
      PROVE  /\ op(k) \in DriverCalls
             /\ (k - 1) % 3 = 0 => op(k).fn = "trigger"
             /\ (k - 1) % 3 = 1 => op(k).fn = "poll"
             /\ (k - 1) % 3 = 2 => op(k).fn = "get_din"
  <2>1. Rows - 1 - (k - 1) \div 3 \in Row
    BY <1>2 DEF Row
  <2>2. (k - 1) % 3 \in {0, 1, 2}
    OBVIOUS
  <2> QED
    BY <2>1, <2>2, DriverFns
<1> HIDE DEF s, op
<1>4. s \in [1 .. 3 * Rows -> DriverCalls] /\ \A k \in 1 .. 3 * Rows : s[k] = op(k)
  BY <1>1, <1>3
<1>5. s \in Seq(DriverCalls) /\ Len(s) = 3 * Rows
  BY <1>2, <1>4, FunctionIsSeq
<1>6. Rounds(s, "trigger", "poll", "get_din")
  BY <1>3, <1>4 DEF Rounds
<1>7. Piece(s, "trigger", "get_din")
  BY <1>5, <1>6, RowsPiece, Zenon
<1> QED
  BY <1>7 DEF s

(* So are the rows of write_rows.                                          *)
LEMMA ConfigRows ==
    ASSUME NEW data \in Matrix
    PROVE  Piece(Downwards(3, LAMBDA r : <<SetDout(data[r]), Trigger, Poll>>),
                 "set_dout", "poll")
<1> DEFINE s == Downwards(3, LAMBDA r : <<SetDout(data[r]), Trigger, Poll>>)
           op(k) == <<SetDout(data[Rows - 1 - (k - 1) \div 3]), Trigger, Poll>>[((k - 1) % 3) + 1]
<1>1. s = [k \in 1 .. 3 * Rows |-> op(k)]
  BY DEF Downwards
<1>2. Rows \in Nat /\ Rows > 0 /\ 3 * Rows \in Nat
  BY MatrixAssumption
<1>3. ASSUME NEW k \in 1 .. 3 * Rows
      PROVE  /\ op(k) \in DriverCalls
             /\ (k - 1) % 3 = 0 => op(k).fn = "set_dout"
             /\ (k - 1) % 3 = 1 => op(k).fn = "trigger"
             /\ (k - 1) % 3 = 2 => op(k).fn = "poll"
  <2>1. Rows - 1 - (k - 1) \div 3 \in Row
    BY <1>2 DEF Row
  <2>2. data[Rows - 1 - (k - 1) \div 3] \in Word
    BY <2>1 DEF Matrix
  <2>3. (k - 1) % 3 \in {0, 1, 2}
    OBVIOUS
  <2> QED
    BY <2>2, <2>3, DriverFns
<1> HIDE DEF s, op
<1>4. s \in [1 .. 3 * Rows -> DriverCalls] /\ \A k \in 1 .. 3 * Rows : s[k] = op(k)
  BY <1>1, <1>3
<1>5. s \in Seq(DriverCalls) /\ Len(s) = 3 * Rows
  BY <1>2, <1>4, FunctionIsSeq
<1>6. Rounds(s, "set_dout", "trigger", "poll")
  BY <1>3, <1>4 DEF Rounds
<1>7. Piece(s, "set_dout", "poll")
  BY <1>5, <1>6, RowsPiece, Zenon
<1> QED
  BY <1>7 DEF s

(* The rows of write_value are rounds of two.                              *)
LEMMA ValueRows ==
    Piece(Downwards(2, LAMBDA r : <<Trigger, Poll>>), "trigger", "poll")
<1> DEFINE s == Downwards(2, LAMBDA r : <<Trigger, Poll>>)
           op(k) == <<Trigger, Poll>>[((k - 1) % 2) + 1]
<1>1. s = [k \in 1 .. 2 * Rows |-> op(k)]
  BY DEF Downwards
<1>2. Rows \in Nat /\ Rows > 0 /\ 2 * Rows \in Nat
  BY MatrixAssumption
<1>3. ASSUME NEW k \in 1 .. 2 * Rows
      PROVE  /\ op(k) \in DriverCalls
             /\ (k - 1) % 2 = 0 => op(k).fn = "trigger"
             /\ (k - 1) % 2 = 1 => op(k).fn = "poll"
  <2>1. (k - 1) % 2 \in {0, 1}
    OBVIOUS
  <2> QED
    BY <2>1, DriverFns
<1> HIDE DEF s, op
<1>4. s \in [1 .. 2 * Rows -> DriverCalls] /\ \A k \in 1 .. 2 * Rows : s[k] = op(k)
  BY <1>1, <1>3
<1>5. s \in Seq(DriverCalls) /\ Len(s) = 2 * Rows
  BY <1>2, <1>4, FunctionIsSeq
<1>6. \A k \in 1 .. 2 * Rows : /\ (k - 1) % 2 = 0 => s[k].fn = "trigger"
                               /\ (k - 1) % 2 = 1 => s[k].fn = "poll"
  BY <1>3, <1>4
<1>7. ASSUME NEW i \in 1 .. Len(s) - 1
      PROVE  \/ s[i].fn = "trigger" /\ s[i + 1].fn = "poll"
             \/ s[i].fn = "poll" /\ s[i + 1].fn = "trigger"
  <2>1. i \in 1 .. 2 * Rows /\ i + 1 \in 1 .. 2 * Rows
    BY <1>2, <1>5
  <2>2. \/ (i - 1) % 2 = 0 /\ (i + 1 - 1) % 2 = 1
        \/ (i - 1) % 2 = 1 /\ (i + 1 - 1) % 2 = 0
    BY <2>1
  <2> QED
    BY <1>6, <2>1, <2>2
<1>8. s[1].fn = "trigger" /\ s[2].fn = "poll" /\ s[Len(s)].fn = "poll"
  <2>1. /\ 1 \in 1 .. 2 * Rows /\ (1 - 1) % 2 = 0
        /\ 2 \in 1 .. 2 * Rows /\ (2 - 1) % 2 = 1
        /\ 2 * Rows \in 1 .. 2 * Rows /\ (2 * Rows - 1) % 2 = 1
    BY <1>2
  <2> QED
    BY <1>5, <1>6, <2>1
<1>9. ASSUME NEW i \in 1 .. Len(s)
      PROVE  /\ s[i].fn \notin {"load_application", "set_dout"}
             /\ s[i].fn = "trigger" => i < Len(s) /\ s[i + 1].fn = "poll"
  <2>1. i = Len(s) \/ i \in 1 .. Len(s) - 1
    BY <1>2, <1>5
  <2> QED
    BY <1>2, <1>5, <1>7, <1>8, <2>1
<1>10. \A i \in 2 .. Len(s) : s[i - 1] \notin PulserLoads /\ i \in 1 .. Len(s)
  <2> TAKE i \in 2 .. Len(s)
  <2>1. i - 1 \in 1 .. Len(s) /\ i \in 1 .. Len(s)
    BY <1>2, <1>5
  <2> QED
    BY <1>9, <2>1, PulserLoadFn
<1>11. Orderly(s)
  BY <1>7, <1>9, <1>10 DEF Orderly, Follows
<1>12. Piece(s, "trigger", "poll")
  BY <1>2, <1>5, <1>8, <1>11 DEF Piece
<1> QED
  BY <1>12 DEF s

(* A call begins with the load of an application, or with the word to load *)
(* and that.                                                               *)
IsCall(s, first, last) ==
    /\ Piece(s, first, last)
    /\ \/ first = "load_application"
       \/ first = "set_dout" /\ s[2].fn = "load_application"

(* A call followed by a piece that fits is a call.                         *)
LEMMA JoinCall ==
    ASSUME NEW s, NEW t, NEW f, NEW l, NEW g, NEW m, IsCall(s, f, l), Piece(t, g, m),
           l = "trigger" => g = "load_application"
    PROVE  IsCall(s \o t, f, m)
<1>1. Piece(s, f, l)
  BY DEF IsCall
<1>2. Piece(s \o t, f, m) /\ SameSecond(s \o t, s)
  BY <1>1, JoinPieces, Zenon
<1> QED
  BY <1>2 DEF IsCall, SameSecond

(* read_counters is an orderly call.                                       *)
LEMMA CountersCall ==
    ASSUME NEW c \in Shifters
    PROVE  IsCall(read_counters(c), "load_application", "get_din")
<1> DEFINE s == <<Load(c), Trigger, Poll>>
           t == Downwards(3, LAMBDA r : <<Trigger, Poll, GetDin(r)>>)
<1>1. IsCall(s, "load_application", "poll")
  BY ReadStart DEF IsCall
<1>2. Piece(t, "trigger", "get_din")
  BY ReadRows
<1> HIDE DEF s, t
<1>3. IsCall(s \o t, "load_application", "get_din")
  BY <1>1, <1>2, JoinCall
<1> QED
  BY <1>3 DEF s, t, read_counters

(* So is read, which opens the gate first.                                 *)
LEMMA ReadCall ==
    ASSUME NEW c \in Shifters
    PROVE  IsCall(read(c), "load_application", "get_din")
<1> DEFINE s == <<Load("hits"), Trigger>>
<1>1. IsCall(s, "load_application", "trigger")
  BY PulseCalls DEF IsCall, Pulsers
<1>2. Piece(read_counters(c), "load_application", "get_din")
  BY CountersCall DEF IsCall
<1> HIDE DEF s
<1>3. IsCall(s \o read_counters(c), "load_application", "get_din")
  BY <1>1, <1>2, JoinCall
<1> QED
  BY <1>3 DEF s, read

(* So is the part of load_value before the latching.                       *)
LEMMA ValueCall ==
    ASSUME NEW c \in Shifters, NEW wd \in Word
    PROVE  IsCall(write_value(c, wd), "set_dout", "poll")
<1> DEFINE s == <<SetDout(wd), Load(c), Trigger, Poll>>
           t == Downwards(2, LAMBDA r : <<Trigger, Poll>>)
<1>1. IsCall(s, "set_dout", "poll")
  BY ValueStart DEF IsCall
<1>2. Piece(t, "trigger", "poll")
  BY ValueRows
<1> HIDE DEF s, t
<1>3. IsCall(s \o t, "set_dout", "poll")
  BY <1>1, <1>2, JoinCall
<1> QED
  BY <1>3 DEF s, t, write_value

(* So is the part of load_configs before the latching.                     *)
LEMMA RowsCall ==
    ASSUME NEW c \in Shifters, NEW data \in Matrix
    PROVE  IsCall(write_rows(c, data), "load_application", "poll")
<1> DEFINE s == <<Load(c), Trigger, Poll>>
           t == Downwards(3, LAMBDA r : <<SetDout(data[r]), Trigger, Poll>>)
<1>1. IsCall(s, "load_application", "poll")
  BY ReadStart DEF IsCall
<1>2. Piece(t, "set_dout", "poll")
  BY ConfigRows
<1> HIDE DEF s, t
<1>3. IsCall(s \o t, "load_application", "poll")
  BY <1>1, <1>2, JoinCall
<1> QED
  BY <1>3 DEF s, t, write_rows

(* latch_configs is a piece that ends in a trigger.                        *)
LEMMA LatchPiece == Piece(latch_configs, "load_application", "trigger")
  BY PulseCalls DEF latch_configs, Pulsers

(* A round of calibrate is an orderly call.                                *)
LEMMA CalibrateCall ==
    ASSUME NEW a \in Word, NEW b \in Word
    PROVE  IsCall(calibrate(a, b), "set_dout", "get_din")
<1> DEFINE s1 == write_value("a", a)
           s2 == s1 \o write_value("b", b)
           s3 == s2 \o latch_configs
           s4 == s3 \o read("a")
<1>1. "a" \in Shifters /\ "b" \in Shifters
  BY DEF Shifters
<1>2. IsCall(s1, "set_dout", "poll")
  BY <1>1, ValueCall
<1>3. Piece(write_value("b", b), "set_dout", "poll")
  BY <1>1, ValueCall DEF IsCall
<1>4. Piece(read("a"), "load_application", "get_din")
  BY <1>1, ReadCall DEF IsCall
<1> HIDE DEF s1
<1>5. IsCall(s2, "set_dout", "poll")
  BY <1>2, <1>3, JoinCall
<1> HIDE DEF s2
<1>6. IsCall(s3, "set_dout", "trigger")
  BY <1>5, LatchPiece, JoinCall
<1> HIDE DEF s3
<1>7. IsCall(s4, "set_dout", "get_din")
  BY <1>4, <1>6, JoinCall
<1> QED
  BY <1>7 DEF s4, s3, s2, s1, calibrate

(* Every call is a sequence of driver functions in an order that works.    *)
LEMMA CallsOrderly ==
    ASSUME NEW call \in Calls
    PROVE  /\ Ops(call) \in Seq(DriverCalls) /\ Orderly(Ops(call))
           /\ Len(Ops(call)) >= 2
           /\ \/ Ops(call)[1].fn = "load_application"
              \/ /\ Ops(call)[1].fn = "set_dout"
                 /\ Ops(call)[2].fn = "load_application"
<1>1. \E first, last : IsCall(Ops(call), first, last)
  <2>1. call \in Call /\ Shifters = Counter
    BY MatrixAssumption DEF Shifters, Counter
  <2>2. CASE call \in [fn : {"read_counters"}, counter : Counter]
    <3>1. Ops(call) = read_counters(call.counter) /\ call.counter \in Shifters
      BY <2>1, <2>2 DEF Ops
    <3> QED
      BY <3>1, CountersCall
  <2>3. CASE call \in [fn : {"read"}, counter : Counter]
    <3>1. Ops(call) = read(call.counter) /\ call.counter \in Shifters
      BY <2>1, <2>3 DEF Ops
    <3> QED
      BY <3>1, ReadCall
  <2>4. CASE call \in [fn : {"load_value"}, counter : Counter, word : Word]
    <3>1. /\ Ops(call) = write_value(call.counter, call.word) \o latch_configs
          /\ call.counter \in Shifters /\ call.word \in Word
      BY <2>1, <2>4 DEF Ops
    <3>2. IsCall(write_value(call.counter, call.word), "set_dout", "poll")
      BY <3>1, ValueCall
    <3>3. IsCall(Ops(call), "set_dout", "trigger")
      BY <3>1, <3>2, LatchPiece, JoinCall
    <3> QED
      BY <3>3
  <2>5. CASE call \in [fn : {"load_configs"}, counter : Counter, data : Matrix]
    <3>1. /\ Ops(call) = write_rows(call.counter, call.data) \o latch_configs
          /\ call.counter \in Shifters /\ call.data \in Matrix
      BY <2>1, <2>5 DEF Ops
    <3>2. IsCall(write_rows(call.counter, call.data), "load_application", "poll")
      BY <3>1, RowsCall
    <3>3. IsCall(Ops(call), "load_application", "trigger")
      BY <3>1, <3>2, LatchPiece, JoinCall
    <3> QED
      BY <3>3
  <2>6. CASE call \in [fn : {"calibrate"}, a : Word, b : Word]
    <3>1. Ops(call) = calibrate(call.a, call.b) /\ call.a \in Word /\ call.b \in Word
      BY <2>6 DEF Ops
    <3> QED
      BY <3>1, CalibrateCall
  <2> QED
    BY <2>1, <2>2, <2>3, <2>4, <2>5, <2>6 DEF Call
<1> QED
  BY <1>1 DEF IsCall, Piece

-----------------------------------------------------------------------------
(* What comes after the driver function that returns.                      *)
IsTail(t, s) ==
    /\ t \in Seq(DriverCalls) /\ Len(t) = Len(s) - 1 /\ Len(s) \in Nat
    /\ Head(s) = s[1] /\ Len(s) >= 1
    /\ \A i \in 1 .. Len(s) - 1 : t[i] = s[i + 1]

(* A sequence is empty if its length is zero.                              *)
LEMMA EmptyCalls ==
    ASSUME NEW s \in Seq(DriverCalls)
    PROVE  (s = <<>> <=> Len(s) = 0) /\ Len(s) \in Nat
  BY EmptySeq

(* What is left after the first function of a sequence.                    *)
LEMMA TailOfCalls ==
    ASSUME NEW s \in Seq(DriverCalls), s # <<>>
    PROVE  IsTail(Tail(s), s)
  BY DEF IsTail

(* When a driver function returns, which may come next.                    *)
LEMMA AfterReturn ==
    ASSUME ops \in Seq(DriverCalls), Orderly(ops), ops # <<>>, ops' = Tail(ops)
    PROVE  /\ ops' \in Seq(DriverCalls) /\ Orderly(ops')
           /\ Doing("load_application") => Doing("trigger")'
           /\ Doing("trigger") /\ Next2("poll") => Doing("poll")'
           /\ Doing("trigger") /\ Next2("load_application") => Doing("load_application")'
           /\ Doing("trigger") /\ Len(ops) = 1 => ops' = <<>>
           /\ Doing("set_dout") /\ Next2("load_application") => Doing("load_application")'
           /\ ~Doing("trigger") => ~Doing("poll")'
           /\ Doing("trigger")' =>
                  IF Head(ops) \in PulserLoads
                  THEN Len(ops') = 1 \/ Next2("load_application")'
                  ELSE Next2("poll")'
<1>1. /\ ops' \in Seq(DriverCalls) /\ Len(ops') = Len(ops) - 1 /\ Len(ops) \in Nat
      /\ Head(ops) = ops[1] /\ Len(ops) >= 1
      /\ \A i \in 1 .. Len(ops) - 1 : ops'[i] = ops[i + 1]
  <2>1. IsTail(ops', ops)
    BY TailOfCalls
  <2> QED
    BY <2>1 DEF IsTail
<1>2. ops' = <<>> <=> Len(ops') = 0
  BY <1>1, EmptyCalls
<1>3. Len(ops) > 1 => Head(ops') = ops[2] /\ ops'[1] = ops[2]
  <2>1. Len(ops) > 1 => ops' # <<>> /\ ops'[1] = ops[1 + 1]
    BY <1>1, <1>2
  <2> QED
    BY <1>1, <2>1
<1>4. Len(ops) > 2 => ops'[2] = ops[3]
  <2>1. Len(ops) > 2 => ops'[2] = ops[2 + 1]
    BY <1>1
  <2> QED
    BY <2>1
<1>5. Orderly(ops')
  <2>1. ASSUME NEW i \in 1 .. Len(ops') - 1 PROVE Follows(ops'[i], ops'[i + 1])
    <3>1. /\ i \in 1 .. Len(ops) - 1 /\ i + 1 \in 1 .. Len(ops) - 1
      BY <1>1
    <3>2. Follows(ops[i + 1], ops[i + 1 + 1])
      BY <3>1 DEF Orderly
    <3> QED
      BY <1>1, <3>1, <3>2
  <2>2. ASSUME NEW i \in 1 .. Len(ops'), ops'[i].fn \in {"load_application", "set_dout"}
        PROVE  i < Len(ops')
    <3>1. i \in 1 .. Len(ops) - 1 /\ i + 1 \in 1 .. Len(ops)
      BY <1>1
    <3>2. ops'[i] = ops[i + 1]
      BY <1>1, <3>1
    <3>3. i + 1 < Len(ops)
      BY <2>2, <3>1, <3>2 DEF Orderly
    <3> QED
      BY <1>1, <3>3
  <2>3. ASSUME NEW i \in 2 .. Len(ops'), ops'[i].fn = "trigger"
        PROVE  IF ops'[i - 1] \in PulserLoads
               THEN i < Len(ops') => ops'[i + 1].fn = "load_application"
               ELSE i < Len(ops') /\ ops'[i + 1].fn = "poll"
    <3> DEFINE j == i + 1
    <3>1. /\ i \in 1 .. Len(ops) - 1 /\ i - 1 \in 1 .. Len(ops) - 1
          /\ j \in 2 .. Len(ops) /\ i - 1 + 1 = j - 1
          /\ i < Len(ops') <=> j < Len(ops)
          /\ i < Len(ops') => i + 1 \in 1 .. Len(ops) - 1
      BY <1>1
    <3>2. ops'[i] = ops[j] /\ ops'[i - 1] = ops[i - 1 + 1]
      BY <1>1, <3>1
    <3>3. i < Len(ops') => ops'[i + 1] = ops[j + 1]
      BY <1>1, <3>1
    <3>4. IF ops[j - 1] \in PulserLoads
          THEN j < Len(ops) => ops[j + 1].fn = "load_application"
          ELSE j < Len(ops) /\ ops[j + 1].fn = "poll"
      BY <2>3, <3>1, <3>2 DEF Orderly
    <3> HIDE DEF j
    <3> QED
      BY <3>1, <3>2, <3>3, <3>4
  <2> QED
    BY <2>1, <2>2, <2>3 DEF Orderly
<1>6. Doing("load_application") \/ Doing("set_dout") => Len(ops) > 1
  BY <1>1 DEF Orderly, Doing
<1>7. Len(ops) > 1 => Follows(ops[1], ops[2])
  <2>1. Len(ops) > 1 => 1 \in 1 .. Len(ops) - 1 /\ 1 + 1 = 2
    BY <1>1
  <2>2. Len(ops) > 1 => Follows(ops[1], ops[1 + 1])
    BY <2>1 DEF Orderly
  <2> QED
    BY <2>2
<1>8. Len(ops) > 1 => ops' # <<>>
  BY <1>1, <1>2
<1>9. Doing("trigger")' =>
          IF Head(ops) \in PulserLoads
          THEN Len(ops') = 1 \/ Next2("load_application")'
          ELSE Next2("poll")'
  <2> SUFFICES ASSUME Doing("trigger")'
               PROVE  IF Head(ops) \in PulserLoads
                      THEN Len(ops') = 1 \/ Next2("load_application")'
                      ELSE Next2("poll")'
    OBVIOUS
  <2>1. Len(ops') >= 1 /\ Len(ops) > 1 /\ 2 \in 2 .. Len(ops) /\ 2 - 1 = 1 /\ 2 + 1 = 3
    BY <1>1, <1>2 DEF Doing
  <2>2. ops[2].fn = "trigger"
    BY <1>3, <2>1 DEF Doing
  <2>3. IF ops[2 - 1] \in PulserLoads
        THEN 2 < Len(ops) => ops[2 + 1].fn = "load_application"
        ELSE 2 < Len(ops) /\ ops[2 + 1].fn = "poll"
    BY <2>1, <2>2 DEF Orderly
  <2>4. Len(ops') = 1 \/ (Len(ops') > 1 /\ Len(ops) > 2)
    BY <1>1, <2>1
  <2> QED
    BY <1>1, <1>4, <2>1, <2>3, <2>4 DEF Next2
<1>10. /\ Doing("load_application") => Doing("trigger")'
       /\ ~Doing("trigger") => ~Doing("poll")'
  BY <1>1, <1>2, <1>3, <1>6, <1>7, <1>8 DEF Doing, Follows
<1>11. /\ Next2("poll") => Doing("poll")'
       /\ Next2("load_application") => Doing("load_application")'
  BY <1>3, <1>8 DEF Doing, Next2
<1>12. Len(ops) = 1 => ops' = <<>>
  BY <1>1, <1>2
<1> QED
  BY <1>1, <1>5, <1>9, <1>10, <1>11, <1>12

-----------------------------------------------------------------------------
(* A cycle of the hardware, in each of the places it can be in.            *)
Cycle(access) == PmcCycle(access, OutOf("a"), OutOf("b")) /\ MatrixCycle

(* A code RAM that holds a program holds its instructions where they       *)
(* belong.                                                                 *)
LEMMA CodeOf ==
    /\ \A app \in Shifters : Holds(app) => ShifterCode(code, app)
    /\ \A app \in Pulsers : Holds(app) => PulserCode(code, app)
<1>1. ASSUME NEW app \in Shifters, Holds(app) PROVE ShifterCode(code, app)
  <2>1. Len(Application[app]) = 103
    BY ShifterBytes
  <2>2. \A k \in 1 .. 103 : code[k - 1] = Application[app][k]
    BY <1>1, <2>1 DEF Holds, Loaded
  <2> QED
    BY <2>2, ShifterBytes
<1>2. ASSUME NEW app \in Pulsers, Holds(app) PROVE PulserCode(code, app)
  <2>1. Len(Application[app]) = 9
    BY PulserBytes
  <2>2. \A k \in 1 .. 9 : code[k - 1] = Application[app][k]
    BY <1>2, <2>1 DEF Holds, Loaded
  <2> QED
    BY <2>2, PulserBytes
<1> QED
  BY <1>1, <1>2

(* It holds the program as long as it is not written.                      *)
LEMMA HoldsOn ==
    ASSUME NEW app, Holds(app), code' = code
    PROVE  Holds(app)'
  BY DEF Holds, Loaded

(* A cycle in which the program runs on.                                   *)
RunsOn(access) ==
    /\ Cycle(access) /\ access \in Accesses /\ access.reg # "code"
    /\ cr.pmcc_rst_n /\ cr'.pmcc_rst_n

(* A cycle in which the coprocessor runs and its code is left alone.       *)
LEMMA RunCycle ==
    ASSUME HwInv, NEW access, RunsOn(access)
    PROVE  /\ RegsOK' /\ MatrixOK'
           /\ cr' = CrAfter(access) /\ pmcc_wtt' = Waitt
           /\ tx' = Shifted(tx) /\ code' = code
           /\ Run(cr.pmcc_trg, code) /\ MatrixCycle
           /\ cr.pmcc_trg \in BOOLEAN /\ ~cr.direct_ctrl /\ ~cr'.direct_ctrl
<1>1. /\ RegsOK' /\ cr' = CrAfter(access) /\ pmcc_wtt' = Waitt
      /\ tx' = Shifted(tx) /\ code' = CodeAfter(access)
      /\ Step(cr.pmcc_rst_n, cr'.pmcc_rst_n, cr.pmcc_trg, code)
  BY CycleRegs DEF RunsOn, Cycle, HwInv
<1>2. MatrixOK' /\ MatrixCycle
  BY MatrixTyped DEF RunsOn, Cycle, HwInv
<1>3. code' = code
  BY <1>1 DEF CodeAfter, RunsOn
<1>4. Run(cr.pmcc_trg, code)
  BY <1>1 DEF Step, RunsOn
<1>5. cr.pmcc_trg \in BOOLEAN /\ ~cr.direct_ctrl /\ ~cr'.direct_ctrl
  BY <1>1 DEF HwInv, RegsOK, Cr
<1> QED
  BY <1>1, <1>2, <1>3, <1>4, <1>5

(* A shifter program goes from one of its places to the next in such a     *)
(* cycle, and waits only in its two WAITTs.                                *)
LEMMA ShifterRuns ==
    ASSUME HwInv, NEW app \in Shifters, Holds(app), Fetched, ShifterPlace(app),
           NEW access, RunsOn(access)
    PROVE  /\ HwInv' /\ Fetched' /\ Holds(app)' /\ ShifterPlace(app)'
           /\ config' = config /\ gates' = gates
           /\ pmcc_wtt' <=> pc_id \in {0, 4}
           /\ pc_id \in {0, 4} /\ ~cr.pmcc_trg => pc_id' = pc_id
           /\ pc_id' = 4 => pc_id \in {1, 4, 101}
           /\ pc_id' = 4 /\ pc_id # 1 => tx'.state = "WAITING"
<1>1. /\ RegsOK' /\ MatrixOK' /\ pmcc_wtt' = Waitt
      /\ tx' = Shifted(tx) /\ code' = code
      /\ Run(cr.pmcc_trg, code) /\ MatrixCycle
      /\ cr.pmcc_trg \in BOOLEAN /\ ~cr.direct_ctrl
  BY RunCycle
<1>2. /\ instr \in [0 .. 3 -> Byte] /\ code \in [Addr -> Byte] /\ LoopsRest
      /\ ShifterCode(code, app)
  BY CodeOf DEF HwInv, CopOK, RegsOK
<1>3. /\ ShifterPlace(app)'
      /\ Fetched' /\ instr' \in [0 .. 3 -> Byte] /\ pc_id' \in Addr /\ LoopsRest'
      /\ matrix_ctrl \in ShifterLines
      /\ Waitt <=> pc_id \in {0, 4}
      /\ pc_id \in {0, 4} /\ ~cr.pmcc_trg => pc_id' = pc_id
      /\ pc_id' = 4 => pc_id \in {1, 4, 101}
      /\ pc_id' = 4 /\ pc_id # 1 => tx'.state = "WAITING"
  BY <1>1, <1>2, ShifterCycle
<1>4. ~Gate /\ ~Store
  BY <1>1, <1>3, Lines DEF ShifterLines
<1>5. config' = config /\ gates' = gates
  BY <1>1, <1>4, MatrixQuiet
<1>6. Holds(app)'
  BY <1>1, HoldsOn
<1>7. HwInv'
  BY <1>1, <1>3 DEF HwInv, CopOK
<1>8. pmcc_wtt' <=> pc_id \in {0, 4}
  BY <1>1, <1>3
<1> QED
  BY <1>3, <1>5, <1>6, <1>7, <1>8

(* A pulse program does too, and makes its pulse once for each trigger.    *)
LEMMA PulserRuns ==
    ASSUME HwInv, NEW app \in Pulsers, Holds(app), Fetched, PulserPlace(app),
           NEW access, RunsOn(access)
    PROVE  /\ HwInv' /\ Fetched' /\ Holds(app)' /\ PulserPlace(app)'
           /\ pc_id' = CASE pc_id = 0 -> IF cr.pmcc_trg THEN 1 ELSE 0
                         [] pc_id = 1 -> 4
                         [] pc_id = 4 -> 7
                         [] OTHER     -> 0
           /\ pc_id # 4 => config' = config /\ gates' = gates /\ counters' = counters
           /\ pc_id = 4 /\ app = "latcher" => config' = counters /\ gates' = gates
           /\ pc_id = 4 /\ app = "hits" => config' = config /\ gates' = gates + 1
<1>1. /\ RegsOK' /\ MatrixOK'
      /\ tx' = Shifted(tx) /\ code' = code
      /\ Run(cr.pmcc_trg, code) /\ MatrixCycle
      /\ cr.pmcc_trg \in BOOLEAN /\ ~cr.direct_ctrl /\ ~cr'.direct_ctrl
  BY RunCycle
<1>2. /\ instr \in [0 .. 3 -> Byte] /\ code \in [Addr -> Byte] /\ LoopsRest
      /\ PulserCode(code, app)
  BY CodeOf DEF HwInv, CopOK, RegsOK
<1>3. /\ PulserPlace(app)'
      /\ Fetched' /\ instr' \in [0 .. 3 -> Byte] /\ pc_id' \in Addr /\ LoopsRest'
      /\ pc_id' = CASE pc_id = 0 -> IF cr.pmcc_trg THEN 1 ELSE 0
                    [] pc_id = 1 -> 4
                    [] pc_id = 4 -> 7
                    [] OTHER     -> 0
  BY <1>1, <1>2, PulserCycle
<1>4. HwInv' /\ Holds(app)'
  BY <1>1, <1>3, HoldsOn DEF HwInv, CopOK
<1>5. ASSUME pc_id # 4
      PROVE  config' = config /\ gates' = gates /\ counters' = counters
  <2>1. matrix_ctrl = 0
    BY <1>5 DEF PulserPlace
  <2>2. ~ClkSh /\ ~Gate /\ ~Store
    BY <1>1, <2>1, Lines
  <2> QED
    BY <1>1, <2>2, MatrixQuiet
<1>6. ASSUME pc_id = 4
      PROVE  /\ app = "latcher" => config' = counters /\ gates' = gates
             /\ app = "hits" => config' = config /\ gates' = gates + 1
  <2>1. matrix_ctrl = Line1(app)
    BY <1>6 DEF PulserPlace
  <2>2. matrix_ctrl' = 0
    BY <1>3, <1>6 DEF PulserPlace
  <2>3. ~Gate' /\ ~Store'
    BY <1>1, <2>2, LinesAfter
  <2>4. /\ app = "latcher" => ~Gate /\ Store
        /\ app = "hits" => Gate /\ ~Store
    BY <1>1, <2>1, Lines DEF Line1
  <2> QED
    BY <1>1, <2>3, <2>4 DEF MatrixCycle
<1> QED
  BY <1>3, <1>4, <1>5, <1>6

(* A cycle that begins or ends in reset, with the lines at rest before.    *)
Restful == Resting /\ matrix_ctrl \in {0} \cup SelectValues

(* A cycle in which the coprocessor is in reset, or comes into it or out   *)
(* of it.                                                                  *)
LEMMA ResetCycle ==
    ASSUME HwInv, Restful, NEW access \in Accesses, Cycle(access),
           ~(cr.pmcc_rst_n /\ cr'.pmcc_rst_n)
    PROVE  /\ HwInv' /\ pc_id' = 0 /\ matrix_ctrl' = 0 /\ Resting'
           /\ cr' = CrAfter(access) /\ code' = CodeAfter(access)
           /\ config' = config /\ gates' = gates /\ counters' = counters
           /\ ~cr.pmcc_rst_n /\ code' = code => Fetched'
<1>1. /\ RegsOK' /\ cr' = CrAfter(access)
      /\ tx' = Shifted(tx) /\ code' = CodeAfter(access)
      /\ Step(cr.pmcc_rst_n, cr'.pmcc_rst_n, cr.pmcc_trg, code)
  BY CycleRegs DEF Cycle, HwInv
<1>2. MatrixOK' /\ MatrixCycle
  BY MatrixTyped DEF Cycle, HwInv
<1>3. cr.pmcc_rst_n \in BOOLEAN /\ cr.pmcc_trg \in BOOLEAN /\ ~cr.direct_ctrl
  BY DEF HwInv, RegsOK, Cr
<1>4. Held(cr.pmcc_rst_n, cr.pmcc_trg, code)
  BY <1>1 DEF Step
<1>5. /\ instr \in [0 .. 3 -> Byte] /\ code \in [Addr -> Byte] /\ LoopsRest
      /\ pc_id \in Addr
  BY DEF HwInv, CopOK, RegsOK
<1>6. /\ pc_id' = 0 /\ matrix_ctrl' = 0 /\ LoopsRest'
      /\ instr' \in [0 .. 3 -> Byte]
      /\ ~cr.pmcc_rst_n => \A k \in 0 .. 3 : instr'[k] = code[k]
  BY <1>3, <1>4, <1>5, HeldCycle
<1>7. HwInv'
  <2>1. pc_id' \in Addr
    BY <1>6, Sizes DEF Addr
  <2> QED
    BY <1>1, <1>2, <1>6, <2>1 DEF HwInv, CopOK
<1>8. Resting'
  BY <1>1, <1>3, ShifterSteps DEF Restful, Resting
<1>9. ~ClkSh /\ ~Gate /\ ~Store
  BY <1>3, Lines DEF Restful
<1>10. config' = config /\ gates' = gates /\ counters' = counters
  BY <1>2, <1>9, MatrixQuiet
<1>11. ASSUME ~cr.pmcc_rst_n, code' = code PROVE Fetched'
  <2>1. \A k \in 0 .. 3 : instr'[k] = code'[pc_id' + k]
    BY <1>6, <1>11
  <2> QED
    BY <2>1 DEF Fetched
<1> QED
  BY <1>1, <1>6, <1>7, <1>8, <1>10, <1>11

-----------------------------------------------------------------------------
(* What the software must not do for the programs to go on as they should. *)
KeepsDue == due'.config = due.config /\ due'.gates = due.gates

(* A shifter program runs while the software keeps to its rules: a trigger *)
(* only when the program waits, anything but a poll only between two rows. *)
LEMMA ShifterKeeps ==
    ASSUME HwInv, NEW app \in Shifters, Holds(app), Fetched, ShifterInv(app),
           NEW access, RunsOn(access), KeepsDue,
           ~Doing("poll")' => ~cr'.pmcc_trg /\ pc_id \in {0, 4} /\ ~cr.pmcc_trg,
           Doing("trigger")' => Next2("poll")',
           cr'.pmcc_trg => pc_id \in {0, 4} /\ ~cr.pmcc_trg,
           gap' >= 3 => ~cr.pmcc_trg
    PROVE  HwInv' /\ Fetched' /\ Holds(app)' /\ ShifterInv(app)'
<1>1. /\ HwInv' /\ Fetched' /\ Holds(app)' /\ ShifterPlace(app)'
      /\ config' = config /\ gates' = gates
      /\ pmcc_wtt' <=> pc_id \in {0, 4}
      /\ pc_id \in {0, 4} /\ ~cr.pmcc_trg => pc_id' = pc_id
      /\ pc_id' = 4 => pc_id \in {1, 4, 101}
      /\ pc_id' = 4 /\ pc_id # 1 => tx'.state = "WAITING"
  BY ShifterRuns DEF ShifterInv
<1>2. Settled'
  BY <1>1 DEF Settled, ShifterInv, KeepsDue
<1>3. cr'.pmcc_trg => pc_id' \in {0, 4}
  BY <1>1
<1>4. ~Doing("poll")' => pc_id' \in {0, 4} /\ ~cr'.pmcc_trg
  BY <1>1
<1>5. gap' >= 3 /\ pmcc_wtt' => pc_id' \in {0, 4}
  BY <1>1
<1>6. pc_id' = 4 /\ (cr'.pmcc_trg \/ ~Doing("poll")' \/ (gap' >= 3 /\ pmcc_wtt')) =>
          tx'.state = "WAITING"
  BY <1>1
<1> QED
  BY <1>1, <1>2, <1>3, <1>4, <1>5, <1>6 DEF ShifterInv

(* A pulse program runs while the software only triggers it once and goes  *)
(* on.                                                                     *)
LEMMA PulserKeeps ==
    ASSUME HwInv, NEW app \in Pulsers, Holds(app), Fetched, PulserInv(app),
           NEW access, RunsOn(access), KeepsDue,
           ops' = <<>> \/ Fresh' \/ LastTrigger',
           Doing("trigger")' => Doing("trigger") /\ ~cr'.pmcc_trg,
           cr'.pmcc_trg => Doing("trigger") /\ phase' = 0,
           Doing("trigger") => Doing("trigger")' \/ cr'.pmcc_trg,
           cr.pmcc_trg \/ pc_id = 1 => gap' = gap + 1 /\ phase' = 0,
           cr.pmcc_trg => gap = 1
    PROVE  HwInv' /\ Fetched' /\ Holds(app)' /\ PulserInv(app)'
<1>1. /\ HwInv' /\ Fetched' /\ Holds(app)' /\ PulserPlace(app)'
      /\ pc_id' = CASE pc_id = 0 -> IF cr.pmcc_trg THEN 1 ELSE 0
                    [] pc_id = 1 -> 4
                    [] pc_id = 4 -> 7
                    [] OTHER     -> 0
      /\ pc_id # 4 => config' = config /\ gates' = gates /\ counters' = counters
      /\ pc_id = 4 /\ app = "latcher" => config' = counters /\ gates' = gates
      /\ pc_id = 4 /\ app = "hits" => config' = config /\ gates' = gates + 1
  BY PulserRuns DEF PulserInv
<1>2. /\ pc_id' = 1 <=> pc_id = 0 /\ cr.pmcc_trg
      /\ pc_id' = 4 <=> pc_id = 1
      /\ pc_id = 0 /\ ~cr.pmcc_trg => pc_id' = 0
      /\ pc_id \in {0, 1, 4, 7}
  BY <1>1 DEF PulserInv, PulserPlace
<1>3. Doing("trigger") => pc_id = 0 /\ ~cr.pmcc_trg
  BY DEF PulserInv
<1>4. /\ Doing("trigger")' => pc_id' = 0 /\ ~cr'.pmcc_trg
      /\ cr'.pmcc_trg => pc_id' = 0
  BY <1>2, <1>3
<1>5. /\ pc_id' = 1 => gap' = 2
      /\ pc_id' = 4 => gap' = 3
      /\ cr'.pmcc_trg \/ pc_id' \in {1, 4} => phase' = 0
  BY <1>2 DEF PulserInv
<1>6. CASE pc_id = 4
  <2>1. ~Doing("trigger") /\ ~Doing("trigger")' /\ ~cr'.pmcc_trg /\ pc_id' = 7
    BY <1>1, <1>3, <1>6
  <2>2. ~Pending'
    BY <2>1 DEF Pending
  <2>3. Pending
    BY <1>6 DEF Pending
  <2>4. Settled'
    BY <1>1, <1>6, <2>3 DEF Settled, PulserInv, KeepsDue, Pulsers
  <2> QED
    BY <1>1, <1>4, <1>5, <2>2, <2>4 DEF PulserInv
<1>7. CASE pc_id # 4
  <2>1. config' = config /\ gates' = gates /\ counters' = counters
    BY <1>1, <1>7
  <2>2. Pending' <=> Pending
    <3>1. Pending => Pending'
      BY <1>2, <1>7 DEF Pending, PulserInv
    <3>2. Pending' => Pending
      BY <1>2, <1>7 DEF Pending
    <3> QED
      BY <3>1, <3>2
  <2>3. /\ ~Pending' => Settled'
        /\ Pending' /\ app = "latcher" => due'.config = counters' /\ due'.gates = gates'
        /\ Pending' /\ app = "hits" => due'.config = config' /\ due'.gates = gates' + 1
    BY <2>1, <2>2 DEF PulserInv, Settled, KeepsDue
  <2> QED
    BY <1>1, <1>4, <1>5, <2>3 DEF PulserInv
<1> QED
  BY <1>6, <1>7

(* In reset, and on the way into it.                                       *)
LEMMA ResetKeeps ==
    ASSUME HwInv, Restful, Settled, KeepsDue,
           NEW access \in Accesses, Cycle(access), ~cr'.pmcc_rst_n, ~cr'.pmcc_trg,
           ops' = <<>> \/ Fresh',
           Doing("load_application")' => Loaded(Head(ops).app, 4 * (phase - 2))'
    PROVE  HwInv' /\ ResetInv'
<1>1. /\ HwInv' /\ pc_id' = 0 /\ matrix_ctrl' = 0 /\ Resting'
      /\ config' = config /\ gates' = gates
  BY ResetCycle
<1>2. Settled'
  BY <1>1 DEF Settled, KeepsDue
<1> QED
  BY <1>1, <1>2 DEF ResetInv

(* A program that waits, or has not been started, leaves the lines alone.  *)
LEMMA AtRest ==
    ASSUME HwInv, NEW app \in Apps,
           IF app \in Shifters THEN ShifterInv(app) ELSE PulserInv(app),
           Doing("load_application"), phase > 0
    PROVE  Restful /\ Settled
<1>1. ~Doing("poll") /\ ~Doing("trigger")
  BY DEF Doing
<1>2. CASE app \in Shifters
  <2>1. ShifterPlace(app) /\ Settled /\ pc_id \in {0, 4}
    BY <1>1, <1>2 DEF ShifterInv
  <2>2. AtStart \/ AtWaitt(app)
    BY <2>1 DEF ShifterPlace, AtHigh, AtLow, AtJump
  <2> QED
    BY <2>1, <2>2 DEF AtStart, AtWaitt, Restful, Low, SelectValues
<1>3. CASE app \notin Shifters
  <2>1. PulserInv(app) /\ phase # 0
    BY <1>3
  <2>2. ~Pending /\ pc_id # 4
    BY <1>1, <2>1 DEF PulserInv, Pending
  <2> QED
    BY <2>1, <2>2 DEF PulserInv, PulserPlace, Restful
<1> QED
  BY <1>2, <1>3

-----------------------------------------------------------------------------
(* The actions.                                                            *)
LEMMA CrKept ==
    ASSUME cr \in Cr, NEW access, access.reg # "cr", cr' = CrAfter(access)
    PROVE  cr'.pmcc_rst_n = cr.pmcc_rst_n /\ ~cr'.pmcc_trg
  BY DEF CrAfter, Written, Cr

(* A write of cr, after which the trigger is cleared by the hardware.      *)
LEMMA CrWritten ==
    ASSUME cr \in Cr, NEW v \in Cr, cr' = CrAfter(WriteCr(v))
    PROVE  /\ cr'.pmcc_rst_n = v.pmcc_rst_n
           /\ cr'.pmcc_trg => v.pmcc_trg
           /\ v.pmcc_trg /\ ~cr.pmcc_trg => cr'.pmcc_trg
  BY DEF CrAfter, Written, WriteCr, Cr

(* An access that leaves cr and the code alone.                            *)
LEMMA QuietAccess ==
    ASSUME HwInv, NEW access \in Accesses, access.reg \in {"none", "dout"}, Cycle(access)
    PROVE  /\ cr'.pmcc_rst_n = cr.pmcc_rst_n /\ ~cr'.pmcc_trg /\ code' = code
           /\ cr.pmcc_rst_n => RunsOn(access)
<1>1. cr' = CrAfter(access) /\ code' = CodeAfter(access)
  BY CycleRegs DEF Cycle, HwInv
<1>2. code' = code
  BY <1>1 DEF CodeAfter
<1>3. cr'.pmcc_rst_n = cr.pmcc_rst_n /\ ~cr'.pmcc_trg
  BY <1>1, CrKept DEF HwInv, RegsOK
<1> QED
  BY <1>2, <1>3 DEF RunsOn

(* A function is only one. *)
LEMMA OneFn ==
    ASSUME NEW f, NEW g, Doing(f), f # g
    PROVE  ~Doing(g)
  BY DEF Doing

(* What is left to do says the same when it stays the same.                *)
LEMMA SameOps ==
    ASSUME ops' = ops
    PROVE  /\ \A fn : (Doing(fn)' <=> Doing(fn)) /\ (Next2(fn)' <=> Next2(fn))
           /\ Fresh' <=> Fresh
           /\ LastTrigger' <=> LastTrigger
  BY DEF Doing, Next2, Fresh, LastTrigger

(* How many words the programs take.                                       *)
LEMMA Words103 ==
    ASSUME NEW app \in Apps
    PROVE  /\ Words(app) \in {3, 26} /\ Len(Application[app]) \in Nat
           /\ Len(Application[app]) <= 4 * Words(app)
           /\ Len(Application[app]) <= 103
<1>1. CASE app \in Shifters
  <2>1. Len(Application[app]) = 103
    BY <1>1, ShifterBytes
  <2> QED
    BY <2>1 DEF Words
<1>2. CASE app \in Pulsers
  <2>1. Len(Application[app]) = 9
    BY <1>2, PulserBytes
  <2> QED
    BY <2>1 DEF Words
<1> QED
  BY <1>1, <1>2 DEF Apps

(* The application that is loaded is one. *)
LEMMA LoadedApp ==
    ASSUME ops \in Seq(DriverCalls), Doing("load_application")
    PROVE  Head(ops).app \in Apps
<1>1. Head(ops) \in DriverCalls
  BY HeadTailProperties DEF Doing
<1>2. Head(ops).fn = "load_application"
  BY DEF Doing
<1>3. ASSUME NEW x \in DriverCalls, x.fn = "load_application" PROVE x.app \in Apps
  BY <1>3 DEF DriverCalls, Trigger, Poll
<1> QED
  BY <1>1, <1>2, <1>3

(* Accesses to the running controller that are not of its control          *)
(* register, nor of the code.                                              *)
LEMMA RunQuiet ==
    ASSUME SwInv, HwInv, cr.pmcc_trg => gap = 1, cr.pmcc_rst_n, RunInv,
           NEW access \in Accesses, access.reg \in {"none", "dout"}, Cycle(access),
           gap >= 4, gap' = 1, KeepsDue,
           \/ ops' = ops /\ (Doing("load_application") => phase' <= 1)
           \/ /\ ops # <<>> /\ ops' = Tail(ops) /\ phase' = 0
              /\ ~Doing("trigger") /\ ~Doing("load_application")
              /\ Doing("poll") => pmcc_wtt
    PROVE  HwInv' /\ cr'.pmcc_rst_n /\ ~cr'.pmcc_trg /\ RunInv'
<1>1. cr'.pmcc_rst_n /\ ~cr'.pmcc_trg /\ RunsOn(access) /\ ~cr.pmcc_trg
  <2>1. cr'.pmcc_rst_n /\ ~cr'.pmcc_trg /\ RunsOn(access)
    BY QuietAccess
  <2>2. gap # 1
    OBVIOUS
  <2> QED
    BY <2>1, <2>2
<1>2. /\ ops \in Seq(DriverCalls) /\ Orderly(ops)
  BY DEF SwInv
<1>3. PICK app \in Apps :
          /\ Holds(app)
          /\ IF app \in Shifters THEN ShifterInv(app) ELSE PulserInv(app)
  BY DEF RunInv
<1>4. Fetched
  BY DEF RunInv
<1>5. CASE ops' = ops /\ (Doing("load_application") => phase' <= 1)
  <2>1. /\ \A fn : (Doing(fn)' <=> Doing(fn)) /\ (Next2(fn)' <=> Next2(fn))
        /\ Fresh' <=> Fresh
        /\ LastTrigger' <=> LastTrigger
    BY <1>5, SameOps
  <2>2. CASE app \in Shifters
    <3>1. ShifterInv(app)
      BY <1>3, <2>2
    <3>2. /\ ~Doing("poll")' => ~cr'.pmcc_trg /\ pc_id \in {0, 4} /\ ~cr.pmcc_trg
          /\ Doing("trigger")' => Next2("poll")'
      BY <1>1, <2>1, <3>1 DEF ShifterInv
    <3>3. HwInv' /\ Fetched' /\ Holds(app)' /\ ShifterInv(app)'
      BY <1>1, <1>3, <1>4, <2>2, <3>1, <3>2, ShifterKeeps
    <3> QED
      BY <1>1, <1>5, <2>1, <2>2, <3>3 DEF RunInv
  <2>3. CASE app \notin Shifters
    <3>1. app \in Pulsers /\ PulserInv(app)
      BY <1>3, <2>3 DEF Apps
    <3>2. pc_id # 1
      BY <3>1 DEF PulserInv
    <3>3. /\ ops' = <<>> \/ Fresh' \/ LastTrigger'
          /\ Doing("trigger")' <=> Doing("trigger")
      BY <1>5, <2>1, <3>1 DEF PulserInv
    <3>4. HwInv' /\ Fetched' /\ Holds(app)' /\ PulserInv(app)'
      BY <1>1, <1>3, <1>4, <3>1, <3>2, <3>3, PulserKeeps
    <3> QED
      BY <1>1, <1>5, <2>1, <2>3, <3>4 DEF RunInv
  <2> QED
    BY <2>2, <2>3
<1>6. CASE /\ ops # <<>> /\ ops' = Tail(ops) /\ phase' = 0
           /\ ~Doing("trigger") /\ ~Doing("load_application")
           /\ Doing("poll") => pmcc_wtt
  <2>1. /\ Doing("set_dout") /\ Next2("load_application") => Doing("load_application")'
        /\ ~Doing("poll")'
        /\ Head(ops) \notin PulserLoads
        /\ Doing("trigger")' => Next2("poll")'
    <3>1. Head(ops) \notin PulserLoads
      BY <1>6, PulserLoadFn DEF Doing
    <3> QED
      BY <1>2, <1>6, <3>1, AfterReturn
  <2>2. CASE app \in Shifters
    <3>1. ShifterInv(app)
      BY <1>3, <2>2
    <3>2. pc_id \in {0, 4}
      <4>1. gap >= 3
        <5>1. gap \in 1 .. 4
          BY DEF SwInv, CallGap
        <5> QED
          BY <5>1
      <4>2. Doing("poll") => pmcc_wtt
        BY <1>6
      <4>3. /\ ~Doing("poll") => pc_id \in {0, 4}
            /\ gap >= 3 /\ pmcc_wtt => pc_id \in {0, 4}
        BY <3>1 DEF ShifterInv
      <4> QED
        BY <4>1, <4>2, <4>3
    <3>3. HwInv' /\ Fetched' /\ Holds(app)' /\ ShifterInv(app)'
      BY <1>1, <1>3, <1>4, <2>1, <2>2, <3>1, <3>2, ShifterKeeps
    <3> QED
      BY <1>1, <1>6, <2>2, <3>3 DEF RunInv
  <2>3. CASE app \notin Shifters
    <3>1. app \in Pulsers /\ PulserInv(app)
      BY <1>3, <2>3 DEF Apps
    <3>2. Doing("set_dout") /\ Next2("load_application") /\ pc_id # 1
      BY <1>6, <3>1 DEF PulserInv, Fresh, LastTrigger
    <3>3. Doing("load_application")' /\ Fresh' /\ ~Doing("trigger")'
      BY <2>1, <3>2 DEF Fresh, Doing
    <3>4. HwInv' /\ Fetched' /\ Holds(app)' /\ PulserInv(app)'
      BY <1>1, <1>3, <1>4, <1>6, <3>1, <3>2, <3>3, PulserKeeps
    <3> QED
      BY <1>1, <1>6, <2>3, <3>4 DEF RunInv
  <2> QED
    BY <2>2, <2>3
<1> QED
  BY <1>1, <1>5, <1>6

(* The software's own state.                                               *)
LEMMA GapType == SwInv => gap \in 1 .. 4 /\ phase \in Nat
  BY DEF SwInv, CallGap

(* A step within a driver function keeps what is known of the software.    *)
LEMMA SwStay ==
    ASSUME SwInv, ops' = ops, phase' \in Nat, gap' \in 1 .. CallGap,
           phase' > 0 => \/ Doing("load_application") /\ phase' <= Words(Head(ops).app) + 3
                         \/ Doing("trigger") /\ phase' = 1,
           staged' \in Cr, ~staged'.pmcc_trg, ~staged'.direct_ctrl,
           Doing("trigger") /\ phase' = 1 => staged'.pmcc_rst_n,
           readout' = readout, calls' = calls, due' = due
    PROVE  SwInv'
<1>1. ops' \in Seq(DriverCalls) /\ Orderly(ops')
  BY DEF SwInv
<1>2. /\ Doing("trigger")' <=> Doing("trigger")
      /\ Doing("load_application")' <=> Doing("load_application")
  BY DEF Doing
<1>3. phase' > 0 =>
          \/ Doing("load_application")' /\ phase' <= Words(Head(ops').app) + 3
          \/ Doing("trigger")' /\ phase' = 1
  BY <1>2
<1>4. Doing("trigger")' /\ phase' = 1 => staged'.pmcc_rst_n
  BY <1>2
<1>5. readout' \in Matrix /\ calls' \in 0 .. MaxCalls
  BY DEF SwInv
<1>6. due' = [counters |-> due'.counters, readout |-> due'.readout,
              config |-> due'.config, gates |-> due'.gates]
  BY DEF SwInv
<1> QED
  BY <1>1, <1>3, <1>4, <1>5, <1>6 DEF SwInv

(* So does the return from one.                                            *)
LEMMA SwReturn ==
    ASSUME SwInv, ops # <<>>, ops' = Tail(ops), phase' = 0, gap' \in 1 .. CallGap,
           staged' = staged, readout' \in Matrix, calls' = calls,
           due' = [counters |-> due'.counters, readout |-> due'.readout,
                   config |-> due'.config, gates |-> due'.gates]
    PROVE  SwInv'
<1>1. ops' \in Seq(DriverCalls) /\ Orderly(ops')
  BY AfterReturn DEF SwInv
<1>2. staged' \in Cr /\ ~staged'.pmcc_trg /\ ~staged'.direct_ctrl /\ calls' \in 0 .. MaxCalls
  BY DEF SwInv
<1>3. phase' \in Nat /\ ~(phase' > 0) /\ phase' # 1
  OBVIOUS
<1> QED
  BY <1>1, <1>2, <1>3 DEF SwInv

(* No access is one of the accesses.                                       *)
LEMMA NoneAccess == None \in Accesses /\ None.reg = "none"
  BY DEF None, Accesses

(* One lemma for each action: here a cycle without an access.              *)
LEMMA WaitKeeps ==
    ASSUME IInv, Wait
    PROVE  IInv'
<1>1. /\ SwInv /\ HwInv /\ (cr.pmcc_trg => gap = 1)
      /\ IF cr.pmcc_rst_n THEN RunInv ELSE ResetInv
  BY DEF IInv
<1>2. /\ Cycle(None)
      /\ gap' = IF gap < CallGap THEN gap + 1 ELSE gap
      /\ ops' = ops /\ phase' = phase /\ staged' = staged /\ readout' = readout
      /\ calls' = calls /\ due' = due
  BY DEF Wait, Cycle
<1>3. gap \in 1 .. 4 /\ gap' \in 1 .. 4 /\ (gap < 4 => gap' = gap + 1)
  BY <1>1, <1>2, GapType DEF CallGap
<1>4. SwInv'
  <2>1. gap' \in 1 .. CallGap
    BY <1>3 DEF CallGap
  <2> QED
    BY <1>1, <1>2, <2>1, SwStay DEF SwInv
<1>5. /\ cr'.pmcc_rst_n = cr.pmcc_rst_n /\ ~cr'.pmcc_trg /\ code' = code
      /\ cr.pmcc_rst_n => RunsOn(None)
  BY <1>1, <1>2, NoneAccess, QuietAccess
<1>6. KeepsDue
  BY <1>2 DEF KeepsDue
<1>7. /\ \A fn : (Doing(fn)' <=> Doing(fn)) /\ (Next2(fn)' <=> Next2(fn))
      /\ Fresh' <=> Fresh
      /\ LastTrigger' <=> LastTrigger
  BY <1>2, SameOps
<1>8. CASE ~cr.pmcc_rst_n
  <2>1. ResetInv
    BY <1>1, <1>8
  <2>2. Restful /\ Settled
    BY <2>1 DEF ResetInv, Restful
  <2>3. ops' = <<>> \/ Fresh'
    BY <1>2, <1>7, <2>1 DEF ResetInv
  <2>4. Doing("load_application")' => Loaded(Head(ops).app, 4 * (phase - 2))'
    BY <1>2, <1>5, <1>7, <2>1 DEF ResetInv, Loaded
  <2>5. HwInv' /\ ResetInv'
    BY <1>1, <1>2, <1>5, <1>6, <1>8, <2>2, <2>3, <2>4, NoneAccess, ResetKeeps
  <2> QED
    BY <1>4, <1>5, <1>8, <2>5 DEF IInv
<1>9. CASE cr.pmcc_rst_n
  <2>1. RunInv /\ RunsOn(None)
    BY <1>1, <1>5, <1>9
  <2>2. PICK app \in Apps :
            /\ Holds(app)
            /\ IF app \in Shifters THEN ShifterInv(app) ELSE PulserInv(app)
    BY <2>1 DEF RunInv
  <2>3. Fetched /\ (Doing("load_application") => phase <= 1)
    BY <2>1 DEF RunInv
  <2>4. ASSUME app \in Shifters PROVE HwInv' /\ RunInv'
    <3>1. ShifterInv(app)
      BY <2>2, <2>4
    <3>2. /\ ~Doing("poll")' => ~cr'.pmcc_trg /\ pc_id \in {0, 4} /\ ~cr.pmcc_trg
          /\ Doing("trigger")' => Next2("poll")'
      BY <1>5, <1>7, <3>1 DEF ShifterInv
    <3>3. gap' >= 3 => ~cr.pmcc_trg
      <4>1. gap = 1 => ~(gap' >= 3)
        BY <1>3
      <4> QED
        BY <1>1, <4>1
    <3>4. HwInv' /\ Fetched' /\ Holds(app)' /\ ShifterInv(app)'
      BY <1>1, <1>5, <1>6, <2>1, <2>2, <2>3, <2>4, <3>1, <3>2, <3>3, ShifterKeeps
    <3> QED
      BY <1>2, <1>7, <2>3, <2>4, <3>4 DEF RunInv
  <2>5. ASSUME app \notin Shifters PROVE HwInv' /\ RunInv'
    <3>1. app \in Pulsers /\ PulserInv(app)
      BY <2>2, <2>5 DEF Apps
    <3>2. cr.pmcc_trg \/ pc_id = 1 => gap' = gap + 1 /\ phase' = 0
      <4>1. cr.pmcc_trg \/ pc_id = 1 => gap \in {1, 2} /\ phase = 0
        BY <1>1, <3>1 DEF PulserInv
      <4>2. gap \in {1, 2} => gap' = gap + 1
        BY <1>3
      <4> QED
        BY <1>2, <4>1, <4>2
    <3>3. /\ ops' = <<>> \/ Fresh' \/ LastTrigger'
          /\ Doing("trigger")' <=> Doing("trigger")
      BY <1>2, <1>7, <3>1 DEF PulserInv
    <3>4. HwInv' /\ Fetched' /\ Holds(app)' /\ PulserInv(app)'
      BY <1>1, <1>5, <1>6, <2>1, <2>2, <2>3, <3>1, <3>2, <3>3, PulserKeeps
    <3> QED
      BY <1>2, <1>7, <2>3, <2>5, <3>4 DEF RunInv
  <2>6. HwInv' /\ RunInv'
    BY <2>4, <2>5
  <2> QED
    BY <1>4, <1>5, <1>9, <2>6 DEF IInv
<1> QED
  BY <1>8, <1>9

(* Two cases of the hardware: in reset, with an access that leaves it in   *)
(* reset.                                                                  *)
LEMMA ResetQuiet ==
    ASSUME HwInv, ~cr.pmcc_rst_n, ResetInv, KeepsDue,
           NEW access \in Accesses, access.reg \in {"none", "dout"}, Cycle(access),
           ops' = <<>> \/ Fresh',
           Doing("load_application")' => Loaded(Head(ops).app, 4 * (phase - 2))'
    PROVE  HwInv' /\ ~cr'.pmcc_rst_n /\ ~cr'.pmcc_trg /\ ResetInv' /\ code' = code
<1>1. ~cr'.pmcc_rst_n /\ ~cr'.pmcc_trg /\ code' = code
  BY QuietAccess
<1>2. Restful /\ Settled
  BY DEF ResetInv, Restful
<1>3. HwInv' /\ ResetInv'
  BY <1>1, <1>2, ResetKeeps
<1> QED
  BY <1>1, <1>3

(* A step that changes neither hardware nor matrix.                        *)
LEMMA HwSame ==
    ASSUME UNCHANGED <<pmcvars, matrixvars>>
    PROVE  /\ pc_id' = pc_id /\ instr' = instr /\ matrix_ctrl' = matrix_ctrl
           /\ cr' = cr /\ pmcc_wtt' = pmcc_wtt /\ tx' = tx /\ code' = code
           /\ counters' = counters /\ config' = config /\ gates' = gates
           /\ HwInv => HwInv'
<1>1. UNCHANGED <<pc_id, instr, matrix_ctrl, active_loop, loop_execution,
                  lifo_readout, mem, elements_counter, full, empty, lifo_rdata,
                  executed, taken, opened>>
  BY DEF pmcvars, pmccvars, loopvars
<1>2. UNCHANGED <<cr, pmcc_wtt, ctrls, dout, din, din_reg, tx, rx, pm_din, code>>
  BY DEF pmcvars
<1>3. UNCHANGED <<counters, config, gates>>
  BY DEF matrixvars
<1>4. RegsOK => RegsOK'
  BY <1>2 DEF RegsOK
<1>5. CopOK => CopOK'
  BY <1>1 DEF CopOK, LoopsRest
<1>6. MatrixOK => MatrixOK'
  BY <1>3 DEF MatrixOK
<1> QED
  BY <1>1, <1>2, <1>3, <1>4, <1>5, <1>6 DEF HwInv

(* A member function of Pixel_matrix is called.                            *)
LEMMA StartKeeps ==
    ASSUME IInv, NEW call \in Calls, Start(call)
    PROVE  IInv'
<1>1. /\ SwInv /\ HwInv /\ (cr.pmcc_trg => gap = 1)
      /\ IF cr.pmcc_rst_n THEN RunInv ELSE ResetInv
  BY DEF IInv
<1>2. /\ ops = <<>> /\ ops' = Ops(call)
      /\ phase' = phase /\ gap' = gap /\ staged' = staged
      /\ UNCHANGED <<pmcvars, matrixvars>>
      /\ calls < MaxCalls /\ calls' = calls + 1
      /\ readout' = NoRows
  BY DEF Start
<1>3. due' = [due EXCEPT !.counters = Meaning(call, counters, dout).counters,
                         !.readout = Meaning(call, counters, dout).readout]
  BY DEF Start
<1>4. /\ pc_id' = pc_id /\ instr' = instr /\ matrix_ctrl' = matrix_ctrl
      /\ cr' = cr /\ pmcc_wtt' = pmcc_wtt /\ tx' = tx /\ code' = code
      /\ counters' = counters /\ config' = config /\ gates' = gates
      /\ HwInv'
  BY <1>1, <1>2, HwSame
<1>5. /\ KeepsDue
      /\ due' = [counters |-> due'.counters, readout |-> due'.readout,
                 config |-> due'.config, gates |-> due'.gates]
  <2>1. due = [counters |-> due.counters, readout |-> due.readout,
               config |-> due.config, gates |-> due.gates]
    BY <1>1 DEF SwInv
  <2> QED
    BY <1>3, <2>1 DEF KeepsDue
<1>6. /\ ops' \in Seq(DriverCalls) /\ Orderly(ops') /\ Fresh'
      /\ ~Doing("trigger")' /\ ~Doing("poll")'
  <2>1. /\ Ops(call) \in Seq(DriverCalls) /\ Orderly(Ops(call)) /\ Len(Ops(call)) >= 2
        /\ \/ Ops(call)[1].fn = "load_application"
           \/ Ops(call)[1].fn = "set_dout" /\ Ops(call)[2].fn = "load_application"
    BY CallsOrderly
  <2>2. ops' # <<>> /\ Head(ops') = ops'[1] /\ Len(ops') > 1
    BY <1>2, <2>1
  <2> QED
    BY <1>2, <2>1, <2>2 DEF Fresh, Doing, Next2
<1>7. phase = 0 /\ gap \in 1 .. CallGap
  <2>1. ~(phase > 0)
    BY <1>1, <1>2 DEF SwInv, Doing
  <2> QED
    BY <1>1, <2>1 DEF SwInv
<1>8. SwInv'
  <2>1. readout' \in Matrix
    BY <1>2, MatrixAssumption DEF NoRows, Filled, Matrix, Word
  <2>2. calls' \in 0 .. MaxCalls
    BY <1>1, <1>2, MatrixAssumption DEF SwInv
  <2>3. staged' \in Cr /\ ~staged'.pmcc_trg /\ ~staged'.direct_ctrl
    BY <1>1, <1>2 DEF SwInv
  <2>4. phase' \in Nat /\ ~(phase' > 0) /\ phase' # 1
    BY <1>2, <1>7
  <2>5. gap' \in 1 .. CallGap
    BY <1>2, <1>7
  <2> QED
    BY <1>5, <1>6, <2>1, <2>2, <2>3, <2>4, <2>5 DEF SwInv
<1>9. ~Doing("poll") /\ ~Doing("trigger") /\ ~Doing("load_application")
  BY <1>2 DEF Doing
<1>10. CASE ~cr.pmcc_rst_n
  <2>1. ResetInv
    BY <1>1, <1>10
  <2>3. \A k : k \in 1 .. Len(Application[Head(ops').app]) => ~(k <= 4 * (phase' - 2))
    BY <1>2, <1>7
  <2>4. Loaded(Head(ops).app, 4 * (phase - 2))'
    BY <2>3 DEF Loaded
  <2>5. Settled'
    BY <1>4, <1>5, <2>1 DEF ResetInv, Settled, KeepsDue
  <2>6. ResetInv'
    BY <1>4, <1>6, <2>1, <2>4, <2>5 DEF ResetInv, Resting
  <2> QED
    BY <1>1, <1>2, <1>4, <1>8, <1>10, <2>6 DEF IInv
<1>11. CASE cr.pmcc_rst_n
  <2>1. RunInv
    BY <1>1, <1>11
  <2>2. PICK app \in Apps :
            /\ Holds(app)
            /\ IF app \in Shifters THEN ShifterInv(app) ELSE PulserInv(app)
    BY <2>1 DEF RunInv
  <2>3. Fetched'
    BY <1>4, <2>1 DEF RunInv, Fetched
  <2>4. Holds(app)'
    BY <1>4, <2>2, HoldsOn
  <2>5. Settled' <=> Settled
    BY <1>4, <1>5 DEF Settled, KeepsDue
  <2>6. Resting' <=> Resting
    BY <1>4 DEF Resting
  <2>7. ASSUME app \in Shifters PROVE ShifterInv(app)'
    <3>1. ShifterInv(app)
      BY <2>2, <2>7
    <3>2. ShifterPlace(app)'
      BY <1>4, <2>6, <3>1 DEF ShifterInv, ShifterPlace, AtStart, AtWaitt, AtHigh, AtLow, AtJump
    <3>3. pc_id \in {0, 4} /\ ~cr.pmcc_trg
      BY <1>9, <3>1 DEF ShifterInv
    <3>4. pc_id = 4 => tx.state = "WAITING"
      BY <1>9, <3>1 DEF ShifterInv
    <3> QED
      BY <1>4, <1>6, <2>5, <3>1, <3>2, <3>3, <3>4 DEF ShifterInv
  <2>8. ASSUME app \notin Shifters PROVE PulserInv(app)'
    <3>1. PulserInv(app)
      BY <2>2, <2>8
    <3>2. PulserPlace(app)'
      BY <1>4, <2>6, <3>1 DEF PulserInv, PulserPlace
    <3>3. Pending' <=> Pending
      BY <1>4, <1>6, <1>9 DEF Pending
    <3>4. due'.config = due.config /\ due'.gates = due.gates
      BY <1>5 DEF KeepsDue
    <3> QED
      BY <1>2, <1>4, <1>6, <2>5, <3>1, <3>2, <3>3, <3>4 DEF PulserInv
  <2>9. RunInv'
    <3>1. phase' <= 1
      BY <1>2, <1>7
    <3> QED
      BY <2>2, <2>3, <2>4, <2>7, <2>8, <3>1 DEF RunInv
  <2> QED
    BY <1>1, <1>2, <1>4, <1>8, <1>11, <2>9 DEF IInv
<1> QED
  BY <1>10, <1>11

(* In reset, the program is loaded as far as the phase says.               *)
LEMMA LoadedAll ==
    ASSUME NEW app \in Apps, Loaded(app, 4 * Words(app))
    PROVE  Holds(app)
<1>1. /\ Len(Application[app]) \in Nat /\ Len(Application[app]) <= 4 * Words(app)
      /\ Words(app) \in Nat
  BY Words103
<1>2. \A k \in 1 .. Len(Application[app]) : k <= 4 * Words(app)
  BY <1>1
<1>3. \A k \in 1 .. Len(Application[app]) : code[k - 1] = Application[app][k]
  BY <1>2 DEF Loaded
<1> QED
  BY <1>3 DEF Holds, Loaded

(* Before the first word no byte is loaded.                                *)
LEMMA NoBytes ==
    ASSUME NEW p \in Nat, p <= 2
    PROVE  \A n, k : k \in 1 .. n => ~(k <= 4 * (p - 2))
<1> DEFINE bytes == 4 * (p - 2)
<1>1. bytes \in Int /\ bytes <= 0
  OBVIOUS
<1> HIDE DEF bytes
<1>2. \A n, k : k \in 1 .. n => ~(k <= bytes)
  BY <1>1
<1> QED
  BY <1>2 DEF bytes

(* So nothing is asked of the code then.                                   *)
LEMMA NoneLoaded ==
    ASSUME phase' \in Nat, phase' <= 2
    PROVE  Loaded(Head(ops).app, 4 * (phase - 2))'
<1>1. \A k : k \in 1 .. Len(Application[Head(ops').app]) => ~(k <= 4 * (phase' - 2))
  BY NoBytes
<1> QED
  BY <1>1 DEF Loaded

(* The read half of a read-modify-write of cr: the trigger is not in what  *)
(* is read.                                                                *)
LEMMA ReadCrKeeps ==
    ASSUME IInv, ReadCr
    PROVE  IInv'
<1>1. /\ SwInv /\ HwInv /\ (cr.pmcc_trg => gap = 1)
      /\ IF cr.pmcc_rst_n THEN RunInv ELSE ResetInv
  BY DEF IInv
<1>2. /\ gap >= 4 /\ Cycle(None) /\ gap' = 1
      /\ ops' = ops /\ phase' = phase + 1 /\ staged' = cr /\ readout' = readout
      /\ calls' = calls /\ due' = due
  BY DEF ReadCr, Ready, Bus, More, Cycle, CallGap
<1>3. \/ Doing("load_application") /\ phase \in {0, Words(Head(ops).app) + 2}
      \/ Doing("trigger") /\ phase = 0
  BY DEF ReadCr
<1>4. ~cr.pmcc_trg
  <2>1. gap # 1
    BY <1>2
  <2> QED
    BY <1>1, <2>1
<1>5. /\ Doing("load_application") => Head(ops).app \in Apps
      /\ Doing("load_application") => Words(Head(ops).app) \in {3, 26}
  BY <1>1, LoadedApp, Words103 DEF SwInv
<1>6. /\ cr'.pmcc_rst_n = cr.pmcc_rst_n /\ ~cr'.pmcc_trg /\ code' = code
      /\ cr.pmcc_rst_n => RunsOn(None)
  BY <1>1, <1>2, NoneAccess, QuietAccess
<1>7. KeepsDue
  BY <1>2 DEF KeepsDue
<1>8. /\ Doing("trigger") => cr.pmcc_rst_n /\ ~Doing("load_application")
  <2>1. Doing("trigger") => ops # <<>> /\ ~Fresh
    BY DEF Doing, Fresh
  <2> QED
    BY <1>1, <2>1 DEF ResetInv, Fresh
<1>9. SwInv'
  <2>1. phase' \in Nat /\ phase \in Nat
    BY <1>1, <1>2, GapType
  <2>2. \/ Doing("load_application") /\ phase' <= Words(Head(ops).app) + 3
        \/ Doing("trigger") /\ phase' = 1
    BY <1>2, <1>3, <1>5
  <2>3. staged' \in Cr /\ ~staged'.pmcc_trg /\ ~staged'.direct_ctrl
    BY <1>1, <1>2, <1>4 DEF HwInv, RegsOK
  <2>4. Doing("trigger") /\ phase' = 1 => staged'.pmcc_rst_n
    BY <1>2, <1>8
  <2>5. gap' \in 1 .. CallGap
    BY <1>2 DEF CallGap
  <2> QED
    BY <1>1, <1>2, <2>1, <2>2, <2>3, <2>4, <2>5, SwStay
<1>10. CASE ~cr.pmcc_rst_n
  <2>1. ResetInv /\ Doing("load_application")
    BY <1>1, <1>3, <1>8, <1>10
  <2>2. ops' = <<>> \/ Fresh'
    BY <1>2, <2>1, SameOps DEF Fresh
  <2>3. Loaded(Head(ops).app, 4 * (phase - 2))'
    <3>1. CASE phase = 0
      BY <1>2, <3>1, NoneLoaded
    <3>2. CASE phase = Words(Head(ops).app) + 2
      <4>1. 4 * (phase - 2) = 4 * Words(Head(ops).app)
        BY <1>5, <2>1, <3>2
      <4>2. Holds(Head(ops).app)
        BY <1>5, <2>1, <4>1, LoadedAll DEF ResetInv
      <4> QED
        BY <1>2, <1>6, <4>2 DEF Holds, Loaded
    <3> QED
      BY <1>3, <1>8, <1>10, <3>1, <3>2
  <2>4. HwInv' /\ ResetInv'
    BY <1>1, <1>2, <1>7, <1>10, <2>1, <2>2, <2>3, NoneAccess, ResetQuiet
  <2> QED
    BY <1>6, <1>9, <1>10, <2>4 DEF IInv
<1>11. CASE cr.pmcc_rst_n
  <2>1. RunInv
    BY <1>1, <1>11
  <2>2. Doing("load_application") => phase' <= 1
    BY <1>2, <1>3, <1>5, <2>1 DEF RunInv, Doing
  <2>3. HwInv' /\ RunInv'
    BY <1>1, <1>2, <1>7, <1>11, <2>1, <2>2, NoneAccess, RunQuiet
  <2> QED
    BY <1>6, <1>9, <1>11, <2>3 DEF IInv
<1> QED
  BY <1>10, <1>11

(* In reset the software is at the start of a call, or loads a program.    *)
LEMMA ResetOps ==
    ASSUME ResetInv, NEW fn, Doing(fn)
    PROVE  /\ fn \in {"load_application", "set_dout"}
           /\ fn = "set_dout" => Next2("load_application")
  BY DEF ResetInv, Fresh, Doing

(* The poll of the status, which returns when the coprocessor waits.       *)
LEMMA PollStatusKeeps ==
    ASSUME IInv, PollStatus
    PROVE  IInv'
<1>1. /\ SwInv /\ HwInv /\ (cr.pmcc_trg => gap = 1)
      /\ IF cr.pmcc_rst_n THEN RunInv ELSE ResetInv
  BY DEF IInv
<1>2. /\ gap >= 4 /\ Cycle(None) /\ gap' = 1 /\ Doing("poll")
      /\ IF pmcc_wtt THEN phase' = 0 /\ ops' = Tail(ops) ELSE UNCHANGED <<ops, phase>>
      /\ staged' = staged /\ readout' = readout
      /\ calls' = calls /\ due' = due
  BY DEF PollStatus, Ready, Bus, Return, Cycle, CallGap
<1>3. cr.pmcc_rst_n /\ RunInv
  BY <1>1, <1>2, ResetOps
<1>4. cr'.pmcc_rst_n /\ ~cr'.pmcc_trg
  BY <1>1, <1>2, <1>3, NoneAccess, QuietAccess
<1>5. KeepsDue /\ gap' \in 1 .. CallGap /\ ops # <<>>
  BY <1>2 DEF KeepsDue, CallGap, Doing
<1>6. ~Doing("trigger") /\ ~Doing("load_application")
  BY <1>2, OneFn
<1>7. CASE pmcc_wtt
  <2>1. phase' = 0 /\ ops' = Tail(ops)
    BY <1>2, <1>7
  <2>2. SwInv'
    <3>1. readout' \in Matrix
      BY <1>1, <1>2 DEF SwInv
    <3>2. due' = [counters |-> due'.counters, readout |-> due'.readout,
                  config |-> due'.config, gates |-> due'.gates]
      BY <1>1, <1>2 DEF SwInv
    <3> QED
      BY <1>1, <1>2, <1>5, <2>1, <3>1, <3>2, SwReturn
  <2>3. HwInv' /\ RunInv'
    BY <1>1, <1>2, <1>3, <1>5, <1>6, <1>7, <2>1, NoneAccess, RunQuiet
  <2> QED
    BY <1>4, <2>2, <2>3 DEF IInv
<1>8. CASE ~pmcc_wtt
  <2>1. ops' = ops /\ phase' = phase
    BY <1>2, <1>8
  <2>2. SwInv'
    BY <1>1, <1>2, <1>5, <2>1, SwStay DEF SwInv
  <2>3. HwInv' /\ RunInv'
    BY <1>1, <1>2, <1>3, <1>5, <1>6, <2>1, NoneAccess, RunQuiet
  <2> QED
    BY <1>4, <2>2, <2>3 DEF IInv
<1> QED
  BY <1>7, <1>8

(* What set_dout writes is a word.                                         *)
LEMMA SetDoutWord ==
    ASSUME ops \in Seq(DriverCalls), Doing("set_dout")
    PROVE  Head(ops).word \in Word
<1>1. Head(ops) \in DriverCalls
  BY HeadTailProperties DEF Doing
<1>2. Head(ops).fn = "set_dout"
  BY DEF Doing
<1>3. ASSUME NEW x \in DriverCalls, x.fn = "set_dout" PROVE x.word \in Word
  BY <1>3 DEF DriverCalls, Trigger, Poll
<1> QED
  BY <1>1, <1>2, <1>3

(* The write of dout, between two rows.                                    *)
LEMMA WriteDoutKeeps ==
    ASSUME IInv, WriteDoutWord
    PROVE  IInv'
<1>1. /\ SwInv /\ HwInv /\ (cr.pmcc_trg => gap = 1)
      /\ IF cr.pmcc_rst_n THEN RunInv ELSE ResetInv
  BY DEF IInv
<1> DEFINE access == WriteDout(Head(ops).word)
<1>2. /\ gap >= 4 /\ Cycle(access) /\ gap' = 1 /\ Doing("set_dout")
      /\ phase' = 0 /\ ops' = Tail(ops)
      /\ staged' = staged /\ readout' = readout
      /\ calls' = calls /\ due' = due
  BY DEF WriteDoutWord, Ready, Bus, Return, Cycle, CallGap
<1>3. access \in Accesses /\ access.reg = "dout"
  BY <1>1, <1>2, SetDoutWord DEF SwInv, Accesses, WriteDout
<1> HIDE DEF access
<1>4. /\ cr'.pmcc_rst_n = cr.pmcc_rst_n /\ ~cr'.pmcc_trg
  BY <1>1, <1>2, <1>3, QuietAccess
<1>5. KeepsDue /\ gap' \in 1 .. CallGap /\ ops # <<>>
  BY <1>2 DEF KeepsDue, CallGap, Doing
<1>6. ~Doing("trigger") /\ ~Doing("load_application") /\ ~Doing("poll")
  BY <1>2, OneFn
<1>7. SwInv'
  <2>1. readout' \in Matrix
    BY <1>1, <1>2 DEF SwInv
  <2>2. due' = [counters |-> due'.counters, readout |-> due'.readout,
                config |-> due'.config, gates |-> due'.gates]
    BY <1>1, <1>2 DEF SwInv
  <2> QED
    BY <1>1, <1>2, <1>5, <2>1, <2>2, SwReturn
<1>8. CASE ~cr.pmcc_rst_n
  <2>1. ResetInv /\ Next2("load_application")
    BY <1>1, <1>2, <1>8, ResetOps
  <2>2. Doing("load_application")'
    BY <1>1, <1>2, <1>5, <2>1, AfterReturn DEF SwInv
  <2>3. Fresh'
    BY <2>2 DEF Fresh
  <2>4. Loaded(Head(ops).app, 4 * (phase - 2))'
    <3>1. phase' \in Nat /\ phase' <= 2
      BY <1>2
    <3> QED
      BY <3>1, NoneLoaded
  <2>5. HwInv' /\ ResetInv'
    BY <1>1, <1>2, <1>3, <1>5, <1>8, <2>1, <2>3, <2>4, ResetQuiet
  <2> QED
    BY <1>4, <1>7, <1>8, <2>5 DEF IInv
<1>9. CASE cr.pmcc_rst_n
  <2>1. RunInv
    BY <1>1, <1>9
  <2>2. HwInv' /\ RunInv'
    BY <1>1, <1>2, <1>3, <1>5, <1>6, <1>9, <2>1, RunQuiet
  <2> QED
    BY <1>4, <1>7, <1>9, <2>2 DEF IInv
<1> QED
  BY <1>8, <1>9

(* The read of din, between two rows.                                      *)
LEMMA ReadDinKeeps ==
    ASSUME IInv, ReadDinWord
    PROVE  IInv'
<1>1. /\ SwInv /\ HwInv /\ (cr.pmcc_trg => gap = 1)
      /\ IF cr.pmcc_rst_n THEN RunInv ELSE ResetInv
  BY DEF IInv
<1>2. /\ gap >= 4 /\ Cycle(None) /\ gap' = 1 /\ Doing("get_din")
      /\ phase' = 0 /\ ops' = Tail(ops)
      /\ staged' = staged /\ readout' = [readout EXCEPT ![Head(ops).row] = din_reg]
      /\ calls' = calls /\ due' = due
  BY DEF ReadDinWord, Ready, Bus, Return, Cycle, CallGap
<1>3. cr.pmcc_rst_n /\ RunInv
  BY <1>1, <1>2, ResetOps
<1>4. cr'.pmcc_rst_n /\ ~cr'.pmcc_trg
  BY <1>1, <1>2, <1>3, NoneAccess, QuietAccess
<1>5. KeepsDue /\ gap' \in 1 .. CallGap /\ ops # <<>>
  BY <1>2 DEF KeepsDue, CallGap, Doing
<1>6. ~Doing("trigger") /\ ~Doing("load_application") /\ ~Doing("poll")
  BY <1>2, OneFn
<1>7. SwInv'
  <2>1. readout' \in Matrix
    BY <1>1, <1>2 DEF SwInv, HwInv, RegsOK, Matrix
  <2>2. due' = [counters |-> due'.counters, readout |-> due'.readout,
                config |-> due'.config, gates |-> due'.gates]
    BY <1>1, <1>2 DEF SwInv
  <2> QED
    BY <1>1, <1>2, <1>5, <2>1, <2>2, SwReturn
<1>8. HwInv' /\ RunInv'
  BY <1>1, <1>2, <1>3, <1>5, <1>6, NoneAccess, RunQuiet
<1> QED
  BY <1>4, <1>7, <1>8 DEF IInv

(* Writes of the control register, from what was read of it before.        *)
LEMMA CrAccess ==
    ASSUME NEW v \in Cr, ~v.direct_ctrl
    PROVE  WriteCr(v) \in Accesses /\ WriteCr(v).reg = "cr"
  BY DEF Accesses, WriteCr

(* The write that resets the coprocessor: the last pulse is over.          *)
LEMMA AssertResetKeeps ==
    ASSUME IInv, AssertReset
    PROVE  IInv'
<1>1. /\ SwInv /\ HwInv /\ (cr.pmcc_trg => gap = 1)
      /\ IF cr.pmcc_rst_n THEN RunInv ELSE ResetInv
  BY DEF IInv
<1> DEFINE v == [staged EXCEPT !.pmcc_rst_n = FALSE]
<1>2. /\ Doing("load_application") /\ phase = 1 /\ Cycle(WriteCr(v)) /\ gap' = 1
      /\ ops' = ops /\ phase' = phase + 1 /\ staged' = staged /\ readout' = readout
      /\ calls' = calls /\ due' = due
  BY DEF AssertReset, Bus, More, Cycle
<1>3. v \in Cr /\ ~v.direct_ctrl /\ ~v.pmcc_rst_n /\ ~v.pmcc_trg
  BY <1>1 DEF SwInv, Cr
<1> HIDE DEF v
<1>4. WriteCr(v) \in Accesses /\ WriteCr(v).reg = "cr"
  BY <1>3, CrAccess
<1>5. ~cr'.pmcc_rst_n /\ ~cr'.pmcc_trg
  <2>1. cr' = CrAfter(WriteCr(v))
    BY <1>1, <1>2, <1>4, CycleRegs DEF Cycle, HwInv
  <2> QED
    BY <1>1, <1>3, <2>1, CrWritten DEF HwInv, RegsOK
<1>6. phase' = 2 /\ KeepsDue /\ gap' \in 1 .. CallGap
  BY <1>2 DEF KeepsDue, CallGap
<1>7. ~Doing("trigger")
  BY <1>2, OneFn
<1>8. SwInv'
  <2>1. phase' \in Nat /\ phase' <= Words(Head(ops).app) + 3
    <3>1. Words(Head(ops).app) \in {3, 26}
      BY <1>1, <1>2, LoadedApp, Words103 DEF SwInv
    <3> QED
      BY <1>6, <3>1
  <2> QED
    BY <1>1, <1>2, <1>6, <1>7, <2>1, SwStay DEF SwInv
<1>9. Restful /\ Settled
  <2>1. CASE ~cr.pmcc_rst_n
    BY <1>1, <2>1 DEF ResetInv, Restful
  <2>2. CASE cr.pmcc_rst_n
    <3>1. PICK app \in Apps :
              IF app \in Shifters THEN ShifterInv(app) ELSE PulserInv(app)
      BY <1>1, <2>2 DEF RunInv
    <3>2. phase > 0
      BY <1>2
    <3> QED
      BY <1>1, <1>2, <3>1, <3>2, AtRest
  <2> QED
    BY <2>1, <2>2
<1>10. Fresh'
  BY <1>2 DEF Fresh, Doing
<1>11. Loaded(Head(ops).app, 4 * (phase - 2))'
  <2>1. phase' \in Nat /\ phase' <= 2
    BY <1>6
  <2> QED
    BY <2>1, NoneLoaded
<1>12. HwInv' /\ ResetInv'
  BY <1>1, <1>2, <1>4, <1>5, <1>6, <1>9, <1>10, <1>11, ResetKeeps
<1> QED
  BY <1>5, <1>8, <1>12 DEF IInv

(* Once it runs, no more than the first access of a load has been made.    *)
LEMMA LoadsInReset ==
    ASSUME IInv, Doing("load_application"), phase >= 2
    PROVE  ~cr.pmcc_rst_n /\ ResetInv
<1>1. RunInv => phase <= 1
  BY DEF RunInv
<1>2. phase \in Nat
  BY GapType DEF IInv
<1>3. ~RunInv
  BY <1>1, <1>2
<1> QED
  BY <1>3 DEF IInv

(* The words of a program are words.                                       *)
LEMMA WordOfCode ==
    ASSUME NEW app \in Apps, NEW w \in Nat
    PROVE  CodeWord(app, w) \in [0 .. 3 -> Byte]
<1>1. Application[app] \in Seq(Byte) /\ 0 \in Byte
  BY ShifterBytes, PulserBytes DEF Apps, Byte
<1>2. ASSUME NEW k \in 0 .. 3
      PROVE  LET at == 4 * w + k + 1 IN
             (IF at <= Len(Application[app]) THEN Application[app][at] ELSE 0) \in Byte
  <2>1. 4 * w + k + 1 \in Nat /\ 4 * w + k + 1 >= 1
    OBVIOUS
  <2> QED
    BY <1>1, <2>1
<1> QED
  BY <1>2 DEF CodeWord

(* When a word more is written, four bytes more are loaded.                *)
LEMMA WordWritten ==
    ASSUME NEW app \in Apps, NEW w \in Nat, Loaded(app, 4 * w),
           code' = CodeAfter(WriteCode(4 * w, CodeWord(app, w)))
    PROVE  \A k \in 1 .. Len(Application[app]) :
               k <= 4 * (w + 1) => code'[k - 1] = Application[app][k]
<1> SUFFICES ASSUME NEW k \in 1 .. Len(Application[app]), k <= 4 * (w + 1)
             PROVE  code'[k - 1] = Application[app][k]
  OBVIOUS
<1>1. Len(Application[app]) \in Nat /\ Len(Application[app]) <= 103
  BY Words103
<1> DEFINE at == 4 * w
           word == CodeWord(app, w)
<1>2. /\ k \in Nat /\ at \in Nat /\ k <= at + 4 /\ k <= Len(Application[app])
  BY <1>1
<1>3. k - 1 \in Addr
  BY <1>1, Sizes DEF Addr
<1>4. code' = [a \in Addr |-> IF a \in at .. at + 3 THEN word[a - at] ELSE code[a]]
  BY DEF CodeAfter, WriteCode
<1>5. word = [i \in 0 .. 3 |-> LET n == at + i + 1 IN
                  IF n <= Len(Application[app]) THEN Application[app][n] ELSE 0]
  BY DEF CodeWord
<1>6. k <= at => code[k - 1] = Application[app][k]
  BY DEF Loaded
<1> HIDE DEF at, word
<1>7. CASE k <= at
  <2>1. k - 1 \notin at .. at + 3
    BY <1>2, <1>7
  <2> QED
    BY <1>3, <1>4, <1>6, <1>7, <2>1
<1>8. CASE k > at
  <2>1. k - 1 \in at .. at + 3 /\ k - 1 - at \in 0 .. 3 /\ at + (k - 1 - at) + 1 = k
    BY <1>2, <1>8
  <2>2. code'[k - 1] = word[k - 1 - at]
    BY <1>3, <1>4, <2>1
  <2>3. word[k - 1 - at] = Application[app][k]
    BY <1>2, <1>5, <2>1
  <2> QED
    BY <2>2, <2>3
<1> QED
  BY <1>2, <1>7, <1>8

(* The write of a word of the code, in reset.                              *)
LEMMA WriteWordKeeps ==
    ASSUME IInv, WriteWord
    PROVE  IInv'
<1>1. SwInv /\ HwInv
  BY DEF IInv
<1> DEFINE app == Head(ops).app
           w == phase - 2
           access == WriteCode(4 * w, CodeWord(app, w))
<1>2. /\ Doing("load_application") /\ w \in 0 .. Words(app) - 1
      /\ Cycle(access) /\ gap' = 1
      /\ ops' = ops /\ phase' = phase + 1 /\ staged' = staged /\ readout' = readout
      /\ calls' = calls /\ due' = due
  BY DEF WriteWord, Bus, More, Cycle
<1>3. /\ app \in Apps /\ Words(app) \in {3, 26}
  BY <1>1, <1>2, LoadedApp, Words103 DEF SwInv
<1>4. /\ w \in Nat /\ phase >= 2 /\ phase \in Nat /\ w + 1 = phase' - 2
      /\ phase' \in Nat /\ phase' <= Words(app) + 3
  <2>1. phase \in Nat
    BY <1>1, GapType
  <2>2. w \in 0 .. 25 /\ w <= Words(app) - 1
    <3>1. w \in 0 .. Words(app) - 1 /\ Words(app) \in {3, 26}
      BY <1>2, <1>3
    <3> HIDE DEF w, app
    <3> QED
      BY <3>1
  <2>3. w + 1 = phase' - 2 /\ phase' = phase + 1
    BY <1>2, <2>1
  <2>4. phase \in 2 .. 27 /\ phase <= Words(app) + 1
    BY <1>3, <2>1, <2>2
  <2> HIDE DEF w, app
  <2> QED
    BY <1>3, <2>1, <2>2, <2>3, <2>4
<1>5. ~cr.pmcc_rst_n /\ ResetInv
  BY <1>2, <1>4, LoadsInReset
<1>6. access \in Accesses /\ access.reg = "code"
  <2>1. CodeWord(app, w) \in [0 .. 3 -> Byte]
    BY <1>3, <1>4, WordOfCode
  <2>2. w \in Nat
    BY <1>4
  <2> HIDE DEF app, w
  <2> QED
    BY <2>1, <2>2 DEF Accesses, WriteCode
<1>7. /\ cr' = CrAfter(access) /\ code' = CodeAfter(access)
  BY <1>1, <1>2, <1>6, CycleRegs DEF Cycle, HwInv
<1>8. ~cr'.pmcc_rst_n /\ ~cr'.pmcc_trg
  BY <1>1, <1>5, <1>6, <1>7, CrKept DEF HwInv, RegsOK
<1>9. Loaded(Head(ops).app, 4 * (phase - 2))'
  <2>1. Loaded(app, 4 * w)
    BY <1>2, <1>5 DEF ResetInv
  <2>2. \A k \in 1 .. Len(Application[app]) :
            k <= 4 * (w + 1) => code'[k - 1] = Application[app][k]
    BY <1>3, <1>4, <1>7, <2>1, WordWritten
  <2>3. \A k \in 1 .. Len(Application[Head(ops').app]) :
            k <= 4 * (phase' - 2) => code'[k - 1] = Application[Head(ops').app][k]
    BY <1>2, <1>4, <2>2
  <2> QED
    BY <2>3 DEF Loaded
<1> HIDE DEF access, w, app
<1>10. SwInv'
  <2>1. ~Doing("trigger") /\ gap' \in 1 .. CallGap
    BY <1>2, OneFn DEF CallGap
  <2> QED
    BY <1>1, <1>2, <1>4, <2>1, SwStay DEF SwInv, app
<1>11. HwInv' /\ ResetInv'
  <2>1. Restful /\ Settled
    BY <1>5 DEF ResetInv, Restful
  <2>2. Fresh' /\ KeepsDue
    BY <1>2 DEF Fresh, Doing, KeepsDue
  <2> QED
    BY <1>1, <1>2, <1>6, <1>8, <1>9, <2>1, <2>2, ResetKeeps
<1> QED
  BY <1>8, <1>10, <1>11 DEF IInv

(* The load of a pulse program is known by its program.                    *)
LEMMA PulserLoaded ==
    ASSUME ops \in Seq(DriverCalls), Doing("load_application")
    PROVE  Head(ops) \in PulserLoads <=> Head(ops).app \in Pulsers
<1>1. Head(ops) \in DriverCalls
  BY HeadTailProperties DEF Doing
<1>2. Head(ops).fn = "load_application"
  BY DEF Doing
<1>3. ASSUME NEW x \in DriverCalls, x.fn = "load_application"
      PROVE  x \in PulserLoads <=> x.app \in Pulsers
  BY <1>3 DEF DriverCalls, Trigger, Poll, PulserLoads, Load
<1> QED
  BY <1>1, <1>2, <1>3

(* The write that releases the coprocessor: the whole program is there,    *)
(* and it runs from its first WAITT.                                       *)
LEMMA ReleaseResetKeeps ==
    ASSUME IInv, ReleaseReset
    PROVE  IInv'
<1>1. SwInv /\ HwInv
  BY DEF IInv
<1> DEFINE v == [staged EXCEPT !.pmcc_rst_n = TRUE]
<1>a. Doing("load_application")
  BY DEF ReleaseReset
<1>b. PICK app \in Apps : app = Head(ops).app
  BY <1>1, <1>a, LoadedApp DEF SwInv
<1>2. /\ Doing("load_application") /\ phase = Words(app) + 3
      /\ Cycle(WriteCr(v)) /\ gap' = 1
      /\ ops' = Tail(ops) /\ phase' = 0 /\ staged' = staged /\ readout' = readout
      /\ calls' = calls
      /\ due' = CASE app = "latcher" -> [due EXCEPT !.config = counters]
                  [] app = "hits"    -> [due EXCEPT !.gates = @ + 1]
                  [] OTHER           -> due
  BY <1>b DEF ReleaseReset, Bus, Return, Cycle
<1>3. /\ app \in Apps /\ Words(app) \in {3, 26}
      /\ Head(ops) \in PulserLoads <=> app \in Pulsers
  BY <1>1, <1>2, <1>b, Words103, PulserLoaded DEF SwInv
<1>4. phase >= 2 /\ phase - 2 = Words(app) + 1
  <2>1. phase = Words(app) + 3
    BY <1>2
  <2> QED
    BY <1>3, <2>1
<1>5. ~cr.pmcc_rst_n /\ ResetInv
  BY <1>2, <1>4, LoadsInReset
<1>6. v \in Cr /\ ~v.direct_ctrl /\ v.pmcc_rst_n /\ ~v.pmcc_trg
  BY <1>1 DEF SwInv, Cr
<1> HIDE DEF v
<1>7. WriteCr(v) \in Accesses /\ WriteCr(v).reg = "cr" /\ WriteCr(v).reg # "code"
  BY <1>6, CrAccess
<1>8. cr'.pmcc_rst_n /\ ~cr'.pmcc_trg
  <2>1. cr' = CrAfter(WriteCr(v))
    BY <1>1, <1>2, <1>7, CycleRegs DEF Cycle, HwInv
  <2> QED
    BY <1>1, <1>6, <2>1, CrWritten DEF HwInv, RegsOK
<1>9. /\ HwInv' /\ pc_id' = 0 /\ matrix_ctrl' = 0 /\ Resting'
      /\ config' = config /\ gates' = gates /\ counters' = counters
      /\ code' = code /\ Fetched'
  <2>1. Restful
    BY <1>5 DEF ResetInv, Restful
  <2>2. /\ HwInv' /\ pc_id' = 0 /\ matrix_ctrl' = 0 /\ Resting'
        /\ config' = config /\ gates' = gates /\ counters' = counters
        /\ code' = CodeAfter(WriteCr(v))
        /\ code' = code => Fetched'
    BY <1>1, <1>2, <1>5, <1>7, <2>1, ResetCycle
  <2>3. code' = code
    BY <1>7, <2>2 DEF CodeAfter
  <2> QED
    BY <2>2, <2>3
<1>10. Holds(app) /\ Holds(app)'
  <2>1. Loaded(app, 4 * (phase - 2))
    BY <1>2, <1>5, <1>b DEF ResetInv
  <2>2. Holds(app)
    <3>1. /\ Len(Application[app]) \in Nat /\ Len(Application[app]) <= 4 * Words(app)
      BY <1>3, Words103
    <3>2. Len(Application[app]) <= 4 * (phase - 2)
      <4> QED
        BY <1>3, <1>4, <3>1
    <3>3. 4 * (phase - 2) \in Int
      <4> QED
        BY <1>3, <1>4
    <3>4. \A k \in 1 .. Len(Application[app]) : k <= 4 * (phase - 2)
      BY <3>1, <3>2, <3>3
    <3> QED
      BY <2>1, <3>4 DEF Loaded, Holds
  <2> QED
    BY <1>9, <2>2 DEF Holds, Loaded
<1>11. /\ Doing("trigger")'
       /\ IF app \in Pulsers THEN Len(ops') = 1 \/ Next2("load_application")'
                             ELSE Next2("poll")'
  <2>1. ops # <<>>
    BY <1>2 DEF Doing
  <2> QED
    BY <1>1, <1>2, <1>3, <2>1, AfterReturn DEF SwInv
<1>12. /\ due = [counters |-> due.counters, readout |-> due.readout,
                 config |-> due.config, gates |-> due.gates]
       /\ config = due.config /\ gates = due.gates
  BY <1>1, <1>5 DEF SwInv, ResetInv, Settled
<1>13. /\ app \in Shifters => due' = due
       /\ app = "latcher" => due' = [due EXCEPT !.config = counters]
       /\ app = "hits" => due' = [due EXCEPT !.gates = @ + 1]
  BY <1>2 DEF Shifters
<1>14. /\ app \in Shifters => due'.config = config /\ due'.gates = gates
       /\ app = "latcher" => due'.config = counters /\ due'.gates = gates
       /\ app = "hits" => due'.config = config /\ due'.gates = gates + 1
       /\ due' = [counters |-> due'.counters, readout |-> due'.readout,
                  config |-> due'.config, gates |-> due'.gates]
  <2>1. app \in Shifters \/ app = "latcher" \/ app = "hits"
    BY <1>3 DEF Apps, Pulsers
  <2> QED
    BY <1>12, <1>13, <2>1
<1>15. SwInv'
  <2>1. gap' \in 1 .. CallGap /\ ops # <<>>
    BY <1>2 DEF CallGap, Doing
  <2>2. readout' \in Matrix
    BY <1>1, <1>2 DEF SwInv
  <2> QED
    BY <1>1, <1>2, <1>14, <2>1, <2>2, SwReturn
<1>16. /\ ~Doing("poll")' /\ ~Doing("load_application")'
  BY <1>11 DEF Doing
<1>17. ASSUME app \in Shifters PROVE ShifterInv(app)'
  <2>1. Next2("poll")'
    BY <1>11, <1>17 DEF Shifters, Pulsers
  <2>2. ShifterPlace(app)'
    BY <1>9 DEF ShifterPlace, AtStart
  <2>3. Settled'
    BY <1>9, <1>14, <1>17 DEF Settled
  <2>4. pc_id' # 4 /\ pc_id' \in {0, 4}
    BY <1>9
  <2> QED
    BY <1>8, <2>1, <2>2, <2>3, <2>4 DEF ShifterInv
<1>18. ASSUME app \notin Shifters PROVE PulserInv(app)'
  <2>1. app \in Pulsers
    BY <1>3, <1>18 DEF Apps
  <2>2. LastTrigger'
    BY <1>11, <2>1 DEF LastTrigger
  <2>3. PulserPlace(app)'
    BY <1>9 DEF PulserPlace
  <2>4. Pending'
    BY <1>11 DEF Pending
  <2>5. pc_id' = 0 /\ pc_id' # 1 /\ pc_id' # 4
    BY <1>9
  <2> QED
    BY <1>8, <1>9, <1>11, <1>14, <2>1, <2>2, <2>3, <2>4, <2>5 DEF PulserInv
<1>19. RunInv'
  BY <1>9, <1>10, <1>16, <1>17, <1>18 DEF RunInv
<1> QED
  BY <1>8, <1>9, <1>15, <1>19 DEF IInv

(* The write of the trigger, for a program that waits for it.              *)
LEMMA WriteTriggerKeeps ==
    ASSUME IInv, WriteTrigger
    PROVE  IInv'
<1>1. /\ SwInv /\ HwInv /\ (cr.pmcc_trg => gap = 1)
      /\ IF cr.pmcc_rst_n THEN RunInv ELSE ResetInv
  BY DEF IInv
<1> DEFINE v == [staged EXCEPT !.pmcc_trg = TRUE]
           access == WriteCr(v)
<1>2. /\ gap >= 2 /\ Doing("trigger") /\ phase = 1
      /\ Cycle(access) /\ gap' = 1
      /\ ops' = Tail(ops) /\ phase' = 0 /\ staged' = staged /\ readout' = readout
      /\ calls' = calls /\ due' = due
  BY DEF WriteTrigger, Ready, RmwGap, Bus, Return, Cycle
<1>3. cr.pmcc_rst_n /\ RunInv
  BY <1>1, <1>2, ResetOps
<1>4. ~cr.pmcc_trg
  <2>1. gap # 1
    BY <1>2
  <2> QED
    BY <1>1, <2>1
<1>5. v \in Cr /\ ~v.direct_ctrl /\ v.pmcc_rst_n /\ v.pmcc_trg
  BY <1>1, <1>2 DEF SwInv, Cr
<1>6. access \in Accesses /\ access.reg = "cr" /\ access.reg # "code"
  <2> HIDE DEF v
  <2> QED
    BY <1>5, CrAccess
<1>7. cr'.pmcc_rst_n /\ cr'.pmcc_trg
  <2>1. cr' = CrAfter(access)
    BY <1>1, <1>2, <1>6, CycleRegs DEF Cycle, HwInv
  <2>2. cr \in Cr
    BY <1>1 DEF HwInv, RegsOK
  <2> HIDE DEF v
  <2> QED
    BY <1>4, <1>5, <2>1, <2>2, CrWritten
<1> HIDE DEF access, v
<1>8. RunsOn(access)
  BY <1>2, <1>3, <1>6, <1>7 DEF RunsOn
<1>9. KeepsDue /\ gap' \in 1 .. CallGap /\ ops # <<>> /\ ~(gap' >= 3)
  BY <1>2 DEF KeepsDue, CallGap, Doing
<1>10. SwInv'
  <2>1. readout' \in Matrix
    BY <1>1, <1>2 DEF SwInv
  <2>2. due' = [counters |-> due'.counters, readout |-> due'.readout,
                config |-> due'.config, gates |-> due'.gates]
    BY <1>1, <1>2 DEF SwInv
  <2> QED
    BY <1>1, <1>2, <1>9, <2>1, <2>2, SwReturn
<1>11. PICK app \in Apps :
           /\ Holds(app)
           /\ IF app \in Shifters THEN ShifterInv(app) ELSE PulserInv(app)
  BY <1>3 DEF RunInv
<1>12. Fetched
  BY <1>3 DEF RunInv
<1>13. ~Doing("poll")
  BY <1>2, OneFn
<1>14. Doing("load_application")' => phase' <= 1
  BY <1>2
<1>15. ASSUME app \in Shifters PROVE HwInv' /\ RunInv'
  <2>1. ShifterInv(app)
    BY <1>11, <1>15
  <2>2. Next2("poll") /\ pc_id \in {0, 4}
    BY <1>2, <1>13, <2>1 DEF ShifterInv
  <2>3. Doing("poll")'
    BY <1>1, <1>2, <1>9, <2>2, AfterReturn DEF SwInv
  <2>4. ~Doing("trigger")'
    BY <2>3 DEF Doing
  <2>5. HwInv' /\ Fetched' /\ Holds(app)' /\ ShifterInv(app)'
    BY <1>1, <1>4, <1>8, <1>9, <1>11, <1>12, <1>15, <2>1, <2>2, <2>3, <2>4, ShifterKeeps
  <2> QED
    BY <1>14, <1>15, <2>5 DEF RunInv
<1>16. ASSUME app \notin Shifters PROVE HwInv' /\ RunInv'
  <2>1. app \in Pulsers /\ PulserInv(app)
    BY <1>11, <1>16 DEF Apps
  <2>2. LastTrigger /\ pc_id = 0 /\ pc_id # 1
    BY <1>2, <1>9, <2>1 DEF PulserInv, Fresh, Doing
  <2>3. ops' = <<>> \/ Doing("load_application")'
    BY <1>1, <1>2, <1>9, <2>2, AfterReturn DEF SwInv, LastTrigger
  <2>4. (ops' = <<>> \/ Fresh') /\ ~Doing("trigger")'
    BY <2>3 DEF Fresh, Doing
  <2>5. HwInv' /\ Fetched' /\ Holds(app)' /\ PulserInv(app)'
    BY <1>1, <1>2, <1>4, <1>7, <1>8, <1>9, <1>11, <1>12, <2>1, <2>2, <2>4, PulserKeeps
  <2> QED
    BY <1>14, <1>16, <2>5 DEF RunInv
<1>17. HwInv' /\ RunInv'
  BY <1>15, <1>16
<1> QED
  BY <1>2, <1>7, <1>10, <1>17 DEF IInv

-----------------------------------------------------------------------------
(* The invariant holds at first and is kept by every step.                 *)
LEMMA EmptyOrderly == <<>> \in Seq(DriverCalls) /\ Orderly(<<>>)
<1>1. <<>> \in Seq(DriverCalls) /\ Len(<<>>) = 0
  BY EmptySeq
<1>2. (1 .. 0 - 1) = {} /\ (1 .. 0) = {} /\ (2 .. 0) = {}
  OBVIOUS
<1> QED
  BY <1>1, <1>2 DEF Orderly

(* The invariant holds after reset.                                        *)
LEMMA PixInitInv == PixInit => IInv
<1> SUFFICES ASSUME PixInit PROVE IInv
  OBVIOUS
<1>1. /\ cr = [pmcc_rst_n |-> FALSE, pmcc_trg |-> FALSE, direct_ctrl |-> FALSE]
      /\ pmcc_wtt = FALSE /\ ctrls = 0
      /\ dout = [k \in Bits |-> 0] /\ din = [k \in Bits |-> 0] /\ din_reg = din
      /\ tx = [state |-> "IDLE", bits_counter |-> 0] /\ rx = tx
      /\ pm_din = 0 /\ code = [a \in Addr |-> 0]
      /\ Init(code)
  BY DEF PixInit, PmcInit
<1>2. /\ counters = [c \in Counter |-> NoRows] /\ config = counters /\ gates = 0
      /\ ops = <<>> /\ phase = 0 /\ gap = CallGap
      /\ staged = cr /\ readout = NoRows /\ calls = 0
      /\ due = [counters |-> counters, readout |-> readout, config |-> config,
                gates |-> 0]
  BY DEF PixInit
<1>3. NoRows \in Matrix
  BY MatrixAssumption DEF NoRows, Filled, Matrix, Word
<1>4. 0 \in Addr /\ 0 \in Byte
  BY Sizes DEF Addr, Byte
<1>5. RegsOK
  <2>1. cr \in Cr /\ ~cr.direct_ctrl
    BY <1>1 DEF Cr
  <2>2. dout \in Word /\ din \in Word /\ din_reg \in Word /\ pm_din \in Data
    BY <1>1, MatrixAssumption DEF Word
  <2>3. tx \in ShifterState
    BY <1>1 DEF ShifterState, Bits
  <2>4. code \in [Addr -> Byte]
    BY <1>1, <1>4
  <2> QED
    BY <1>1, <2>1, <2>2, <2>3, <2>4 DEF RegsOK
<1>6. CopOK
  <2>1. pc_id = 0 /\ pc_id \in Addr
    BY <1>1, <1>4 DEF Init
  <2>2. instr \in [0 .. 3 -> Byte]
    <3>1. instr = [k \in 0 .. 3 |-> code[k]]
      BY <1>1 DEF Init
    <3>2. \A k \in 0 .. 3 : k \in Addr
      BY Sizes DEF Addr
    <3> QED
      BY <1>5, <3>1, <3>2 DEF RegsOK
  <2>3. executed \in LC!Instr
    <3>1. executed = [op |-> "OTHER", count |-> 0, pc |-> 0]
      BY <1>1 DEF Init
    <3>2. 0 \in LC!Iter /\ 0 \in LC!Addr
      BY Sizes DEF LC!Iter, LC!Addr
    <3> QED
      BY <3>1, <3>2 DEF LC!Instr
  <2>4. LoopsRest
    BY <1>1, <2>3 DEF Init, LoopsRest
  <2> QED
    BY <2>1, <2>2, <2>4 DEF CopOK
<1>7. MatrixOK
  BY <1>2, <1>3 DEF MatrixOK
<1>8. SwInv
  <2>1. ops \in Seq(DriverCalls) /\ Orderly(ops)
    BY <1>2, EmptyOrderly
  <2>2. phase \in Nat /\ gap \in 1 .. CallGap /\ ~(phase > 0) /\ phase # 1
    BY <1>2 DEF CallGap
  <2>3. staged \in Cr /\ ~staged.pmcc_trg /\ ~staged.direct_ctrl
    BY <1>1, <1>2, <1>5 DEF RegsOK
  <2>4. readout \in Matrix /\ calls \in 0 .. MaxCalls
    BY <1>2, <1>3, MatrixAssumption
  <2>5. due = [counters |-> due.counters, readout |-> due.readout,
               config |-> due.config, gates |-> due.gates]
    BY <1>2
  <2> QED
    BY <2>1, <2>2, <2>3, <2>4, <2>5 DEF SwInv
<1>9. ResetInv
  <2>1. pc_id = 0 /\ matrix_ctrl = 0
    BY <1>1 DEF Init
  <2>2. Resting /\ ~cr.pmcc_trg
    BY <1>1 DEF Resting, Shifter
  <2>3. Settled
    BY <1>2 DEF Settled
  <2>4. ~Doing("load_application")
    BY <1>2 DEF Doing
  <2> QED
    BY <1>2, <2>1, <2>2, <2>3, <2>4 DEF ResetInv
<1>10. ~cr.pmcc_rst_n /\ ~cr.pmcc_trg
  BY <1>1
<1> QED
  BY <1>5, <1>6, <1>7, <1>8, <1>9, <1>10 DEF IInv, HwInv

(* It survives a step that changes nothing.                                *)
LEMMA StutterKeeps ==
    ASSUME IInv, UNCHANGED pixvars
    PROVE  IInv'
<1>1. UNCHANGED <<pmcvars, matrixvars>>
  BY DEF pixvars
<1>2. UNCHANGED <<ops, phase, gap, staged, readout, calls, due>>
  BY DEF pixvars, swvars
<1>3. /\ pc_id' = pc_id /\ instr' = instr /\ matrix_ctrl' = matrix_ctrl
      /\ cr' = cr /\ pmcc_wtt' = pmcc_wtt /\ tx' = tx /\ code' = code
      /\ counters' = counters /\ config' = config /\ gates' = gates
      /\ HwInv'
  BY <1>1, HwSame DEF IInv
<1>4. SwInv'
  BY <1>2, SwStay DEF IInv, SwInv
<1>5. /\ \A fn : (Doing(fn)' <=> Doing(fn)) /\ (Next2(fn)' <=> Next2(fn))
      /\ Fresh' <=> Fresh
      /\ LastTrigger' <=> LastTrigger
  BY <1>2, SameOps
<1>6. (Settled' <=> Settled) /\ (Resting' <=> Resting)
  BY <1>2, <1>3 DEF Settled, Resting
<1>7. ResetInv => ResetInv'
  BY <1>2, <1>3, <1>5, <1>6 DEF ResetInv, Loaded
<1>8. ASSUME RunInv PROVE RunInv'
  <2>1. PICK app \in Apps :
            /\ Holds(app)
            /\ IF app \in Shifters THEN ShifterInv(app) ELSE PulserInv(app)
    BY <1>8 DEF RunInv
  <2>2. Holds(app)'
    BY <1>3, <2>1, HoldsOn
  <2>3. Fetched'
    BY <1>3, <1>8 DEF RunInv, Fetched
  <2>4. ShifterPlace(app) => ShifterPlace(app)'
    BY <1>3, <1>6 DEF ShifterPlace, AtStart, AtWaitt, AtHigh, AtLow, AtJump
  <2>5. ShifterInv(app) => ShifterInv(app)'
    BY <1>2, <1>3, <1>5, <1>6, <2>4 DEF ShifterInv
  <2>6. (Pending' <=> Pending) /\ (PulserPlace(app) => PulserPlace(app)')
    BY <1>3, <1>5, <1>6 DEF Pending, PulserPlace
  <2>7. PulserInv(app) => PulserInv(app)'
    BY <1>2, <1>3, <1>5, <1>6, <2>6 DEF PulserInv
  <2> QED
    BY <1>2, <1>5, <1>8, <2>1, <2>2, <2>3, <2>5, <2>7 DEF RunInv
<1> QED
  BY <1>2, <1>3, <1>4, <1>7, <1>8 DEF IInv

(* The invariant is inductive.                                             *)
LEMMA PixNextInv == IInv /\ [PixNext]_pixvars => IInv'
<1> SUFFICES ASSUME IInv, [PixNext]_pixvars PROVE IInv'
  OBVIOUS
<1>1. CASE Wait
  BY <1>1, WaitKeeps
<1>2. CASE ReadCr
  BY <1>2, ReadCrKeeps
<1>3. CASE AssertReset
  BY <1>3, AssertResetKeeps
<1>4. CASE WriteWord
  BY <1>4, WriteWordKeeps
<1>5. CASE ReleaseReset
  BY <1>5, ReleaseResetKeeps
<1>6. CASE WriteTrigger
  BY <1>6, WriteTriggerKeeps
<1>7. CASE PollStatus
  BY <1>7, PollStatusKeeps
<1>8. CASE WriteDoutWord
  BY <1>8, WriteDoutKeeps
<1>9. CASE ReadDinWord
  BY <1>9, ReadDinKeeps
<1>10. ASSUME NEW call \in Calls, Start(call) PROVE IInv'
  BY <1>10, StartKeeps
<1>11. CASE UNCHANGED pixvars
  BY <1>11, StutterKeeps
<1> QED
  BY <1>1, <1>2, <1>3, <1>4, <1>5, <1>6, <1>7, <1>8, <1>9, <1>10, <1>11
  DEF PixNext, Access

(* It holds in every state of the software and the hardware.               *)
LEMMA InvariantPix == PixSpec => []IInv
  BY PixInitInv, PixNextInv, PTL DEF PixSpec

-----------------------------------------------------------------------------
(* What the invariant says of the properties the runs check.               *)
LEMMA RunningApp ==
    ASSUME IInv, cr.pmcc_rst_n
    PROVE  \E app \in Apps :
              /\ Holds(app) /\ Fetched
              /\ IF app \in Shifters THEN ShifterInv(app) ELSE PulserInv(app)
  BY DEF IInv, RunInv

(* The values that the programs put on the lines of the matrix.            *)
LEMMA LinesInRange == IInv => matrix_ctrl \in {0, 2, 3, 4, 5, 8, 32}
<1> SUFFICES ASSUME IInv PROVE matrix_ctrl \in {0, 2, 3, 4, 5, 8, 32}
  OBVIOUS
<1>1. CASE ~cr.pmcc_rst_n
  BY <1>1 DEF IInv, ResetInv
<1>2. CASE cr.pmcc_rst_n
  <2>1. PICK app \in Apps :
            IF app \in Shifters THEN ShifterInv(app) ELSE PulserInv(app)
    BY <1>2, RunningApp
  <2>2. ASSUME ShifterPlace(app) PROVE matrix_ctrl \in {0, 2, 3, 4, 5, 8, 32}
    BY <2>2 DEF ShifterPlace, AtStart, AtWaitt, AtHigh, AtLow, AtJump, Low, High
  <2>3. ASSUME PulserPlace(app) PROVE matrix_ctrl \in {0, 2, 3, 4, 5, 8, 32}
    BY <2>3 DEF PulserPlace, Line1
  <2> QED
    BY <2>1, <2>2, <2>3 DEF ShifterInv, PulserInv
<1> QED
  BY <1>1, <1>2

(* The invariant implies that everything is well typed,                    *)
LEMMA InvTypes == IInv => PixTypeOK
<1> SUFFICES ASSUME IInv PROVE PixTypeOK
  OBVIOUS
<1>1. SwInv /\ RegsOK /\ CopOK /\ MatrixOK
  BY DEF IInv, HwInv
<1>2. matrix_ctrl \in Output
  <2>1. matrix_ctrl \in {0, 2, 3, 4, 5, 8, 32}
    BY LinesInRange, ZenonT(60)
  <2> QED
    BY <2>1 DEF Output
<1>3. LC!TypeOK
  BY <1>1, LoopsTyped DEF CopOK
<1>4. TypeOK
  <2>1. pc_id \in Addr /\ instr \in [0 .. 3 -> Byte]
    BY <1>1 DEF CopOK
  <2> QED
    BY <1>2, <1>3, <2>1 DEF TypeOK
<1>5. ctrls \in 0 .. 63
  BY <1>1 DEF RegsOK
<1>6. PmcTypeOK
  <2>1. /\ cr \in Cr /\ pmcc_wtt \in BOOLEAN /\ dout \in Word /\ din \in Word
        /\ din_reg \in Word
        /\ tx \in ShifterState /\ rx \in ShifterState /\ pm_din \in Data
        /\ code \in [Addr -> Byte]
    BY <1>1 DEF RegsOK
  <2> QED
    BY <1>4, <1>5, <2>1, Zenon DEF PmcTypeOK
<1>7. /\ phase \in Nat /\ gap \in 1 .. CallGap /\ staged \in Cr
      /\ readout \in Matrix /\ calls \in 0 .. MaxCalls
  BY <1>1 DEF SwInv
<1> QED
  BY <1>1, <1>6, <1>7 DEF PixTypeOK, MatrixOK

(* that a trigger finds the coprocessor waiting,                           *)
LEMMA InvTriggers == IInv => NoTriggerLost
<1> SUFFICES ASSUME IInv, cr.pmcc_trg PROVE cr.pmcc_rst_n /\ Waitt
  BY DEF NoTriggerLost
<1>1. cr.pmcc_rst_n
  BY DEF IInv, ResetInv
<1>2. PICK app \in Apps :
          /\ Holds(app) /\ Fetched
          /\ IF app \in Shifters THEN ShifterInv(app) ELSE PulserInv(app)
  BY <1>1, RunningApp
<1>3. pc_id \in {0, 4} /\ code[pc_id] = 0
  <2>1. CASE app \in Shifters
    <3>1. pc_id \in {0, 4}
      BY <1>2, <2>1 DEF ShifterInv
    <3>2. code[0] = 0 /\ code[4] = 0
      BY <1>2, <2>1, CodeOf DEF ShifterCode
    <3> QED
      BY <3>1, <3>2
  <2>2. CASE app \notin Shifters
    <3>1. pc_id = 0 /\ app \in Pulsers
      BY <1>2, <2>2 DEF PulserInv, Apps
    <3>2. code[0] = 0
      BY <1>2, <3>1, CodeOf DEF PulserCode
    <3> QED
      BY <3>1, <3>2
  <2> QED
    BY <2>1, <2>2
<1>4. instr[0] = 0
  <2>1. pc_id \in 0 .. 101
    BY <1>3
  <2> QED
    BY <1>2, <1>3, <2>1, FetchedBytes
<1>5. instr \in [0 .. 3 -> Byte]
  BY DEF IInv, HwInv, CopOK
<1> QED
  BY <1>1, <1>4, <1>5, Decode DEF Waitt

(* and that the software only polls while a row is shifted.                *)
LEMMA InvRows == IInv => RowsUndisturbed
<1> SUFFICES ASSUME IInv PROVE RowsUndisturbed
  OBVIOUS
<1>1. rx = tx
  BY DEF IInv, HwInv, RegsOK
<1>2. ASSUME Resting PROVE tx.state # "ACTIVE" /\ tx.bits_counter = 0
  BY <1>2 DEF Resting, Shifter
<1>3. CASE Resting
  BY <1>1, <1>2, <1>3 DEF RowsUndisturbed
<1>4. CASE ~Resting
  <2>1. cr.pmcc_rst_n
    BY <1>4 DEF IInv, ResetInv
  <2>2. PICK app \in Apps :
            IF app \in Shifters THEN ShifterInv(app) ELSE PulserInv(app)
    BY <2>1, RunningApp
  <2>3. ShifterInv(app)
    BY <1>4, <2>2 DEF PulserInv, PulserPlace
  <2>4. PICK j \in 0 .. 15 : AtHigh(app, j) \/ AtLow(app, j) \/ AtJump(app)
    <3>1. AtJump(app) \/ \E j \in 0 .. 15 : AtHigh(app, j) \/ AtLow(app, j)
      BY <1>4, <2>3 DEF ShifterInv, ShifterPlace, AtStart, AtWaitt
    <3>2. 0 \in 0 .. 15
      OBVIOUS
    <3> QED
      BY <3>1, <3>2
  <2>5. tx.bits_counter # 0 => tx.state = "ACTIVE"
    BY <2>4 DEF AtHigh, AtLow, AtJump, Shifting, Shifter
  <2>6. pc_id # 0 /\ pc_id # 4
    BY <2>4 DEF AtHigh, AtLow, AtJump
  <2>7. Doing("poll")
    BY <2>3, <2>6 DEF ShifterInv
  <2> QED
    BY <1>1, <2>1, <2>5, <2>7 DEF RowsUndisturbed
<1> QED
  BY <1>3, <1>4

-----------------------------------------------------------------------------
(* The registers of the controller, the place of the coprocessor in its    *)
(* program and of the software in its call, and the matrix keep their      *)
(* types.                                                                  *)
THEOREM PixTyped == PixSpec => []PixTypeOK
  BY InvariantPix, InvTypes, PTL

(* No trigger that Pmc_coprocessor::trigger writes falls into a program    *)
(* that runs, or into the reset: the coprocessor waits for it.             *)
THEOREM TriggersArrive == PixSpec => []NoTriggerLost
  BY InvariantPix, InvTriggers, PTL

(* The read-modify-writes of cr never write back a trigger that they read. *)
THEOREM TriggersOnce == PixSpec => []NoTriggerRepeated
<1>1. IInv => NoTriggerRepeated
  BY DEF IInv, SwInv, NoTriggerRepeated
<1> QED
  BY <1>1, InvariantPix, PTL

(* While transmitter and receiver are in a row, the software polls and     *)
(* does nothing else, and the coprocessor is not reset under them.         *)
THEOREM RowsFinish == PixSpec => []RowsUndisturbed
  BY InvariantPix, InvRows, PTL

(* The gate and store pulses that read and latch_configs leave behind are  *)
(* over, each once, before the coprocessor is reset for the next program.  *)
THEOREM PulsesFinish == PixSpec => []PulsesBeforeReset
<1>1. IInv => PulsesBeforeReset
  BY DEF IInv, ResetInv, Settled, PulsesBeforeReset
<1> QED
  BY <1>1, InvariantPix, PTL

-----------------------------------------------------------------------------
(* A call, as its driver functions would have it if each took effect at    *)
(* once: the program that was loaded last, whether it has been started,    *)
(* the counters of the matrix, the words to shift in and shifted out, and  *)
(* the rows read.                                                          *)
Machine ==
    [app : Apps, started : BOOLEAN, rows : [Counter -> Matrix],
     dout : Word, din : Word, readout : Matrix]

(* The counter with a word shifted into its first row. *)
OneDown(old, wd) == [r \in Row |-> IF r = 0 THEN wd ELSE old[r - 1]]

(* What one driver function does. *)
Done(op, m) ==
    CASE op.fn = "load_application" -> [m EXCEPT !.app = op.app, !.started = FALSE]
      [] op.fn = "trigger" /\ m.app = "hits"    -> [m EXCEPT !.rows = Hits]
      [] op.fn = "trigger" /\ m.app = "latcher" -> m
      [] op.fn = "trigger" /\ m.app \in Shifters /\ ~m.started ->
             [m EXCEPT !.started = TRUE]
      [] op.fn = "trigger" /\ m.app \in Shifters /\ m.started ->
             [m EXCEPT !.rows = [m.rows EXCEPT ![m.app] = OneDown(m.rows[m.app], m.dout)],
                       !.din = m.rows[m.app][Rows - 1]]
      [] op.fn = "poll"     -> m
      [] op.fn = "set_dout" -> [m EXCEPT !.dout = op.word]
      [] op.fn = "get_din"  -> [m EXCEPT !.readout = [m.readout EXCEPT ![op.row] = m.din]]

-----------------------------------------------------------------------------
(* What is left of a call, and what it will still do.  The rounds of the   *)
(* loops over the rows, when n of them are done:                           *)
ReadFrom(n) ==
    [k \in 1 .. 3 * (Rows - n) |->
        <<Trigger, Poll, GetDin(Rows - 1 - n - (k - 1) \div 3)>>[((k - 1) % 3) + 1]]
ValueFrom(n) ==
    [k \in 1 .. 2 * (Rows - n) |-> <<Trigger, Poll>>[((k - 1) % 2) + 1]]
ConfigFrom(n, data) ==
    [k \in 1 .. 3 * (Rows - n) |->
        <<SetDout(data[Rows - 1 - n - (k - 1) \div 3]), Trigger, Poll>>[((k - 1) % 3) + 1]]

(* A function before the rest t. *)
Then(op, t) == <<op>> \o t

(* The load of a shifter and its first trigger, before the rest t. *)
Opening(c, t) == Then(Load(c), Then(Trigger, Then(Poll, t)))
Opens(s, m, c, t) ==
    \/ s = Opening(c, t)
    \/ s = Then(Trigger, Then(Poll, t)) /\ m.app = c /\ ~m.started
    \/ s = Then(Poll, t) /\ m.app = c /\ m.started
Running(m, c) == m.app = c /\ m.started

(* A pulse, before the rest t. *)
PulseOf(app, t) == Then(Load(app), Then(Trigger, t))
Pulsing(s, m, app, t) == s = PulseOf(app, t) \/ (s = Then(Trigger, t) /\ m.app = app)

(* n rows of counter c have been written, and the other one is as it       *)
(* should be; the other rows of c are those to be read; n have been read.  *)
RowsIn(m, c, n, d) ==
    /\ \A r \in Row : r < n => m.rows[c][r] = d.counters[c][r + Rows - n]
    /\ \A o \in Counter : o # c => m.rows[o] = d.counters[o]
RowsOut(m, c, n, d) ==
    /\ d.counters[c] = Filled(m.dout)
    /\ \A r \in Row : r >= n => m.rows[c][r] = d.readout[r - n]
RowsRead(m, n, d) ==
    m.readout = [r \in Row |-> IF r >= Rows - n THEN d.readout[r] ELSE NoRows[r]]

(* The counters do not matter yet: the hits will overwrite them. *)
Later(m, c, wd, d) ==
    /\ d.counters = [Hits EXCEPT ![c] = Filled(wd)] /\ d.readout = Hits[c]
    /\ m.readout = NoRows

Over(m, d) == m.rows = d.counters /\ m.readout = d.readout

Finishing(s, m, d) ==
    /\ Over(m, d)
    /\ \/ s = <<>> /\ m.app # "hits"
       \/ Pulsing(s, m, "latcher", <<>>)

Reading(s, m, d, c) ==
    \/ /\ Opens(s, m, c, ReadFrom(0))
       /\ RowsIn(m, c, 0, d) /\ RowsOut(m, c, 0, d) /\ RowsRead(m, 0, d)
    \/ \E n \in 0 .. Rows - 1 :
          /\ s = ReadFrom(n) /\ Running(m, c)
          /\ RowsIn(m, c, n, d) /\ RowsOut(m, c, n, d) /\ RowsRead(m, n, d)
    \/ \E n \in 0 .. Rows - 1 :
          /\ \/ s = Then(Poll, Then(GetDin(Rows - 1 - n), ReadFrom(n + 1)))
             \/ s = Then(GetDin(Rows - 1 - n), ReadFrom(n + 1))
          /\ Running(m, c) /\ m.din = d.readout[Rows - 1 - n]
          /\ RowsIn(m, c, n + 1, d) /\ RowsOut(m, c, n + 1, d) /\ RowsRead(m, n, d)

Measuring(s, m, d) ==
    \/ \E c \in Shifters : Pulsing(s, m, "hits", read_counters(c)) /\ Later(m, c, m.dout, d)
    \/ Pulsing(s, m, "latcher", read("a")) /\ Later(m, "a", m.dout, d)

ValueRest(n, t) == ValueFrom(n) \o t

(* The value wd goes into counter c before t, n rows being written. *)
Fills(m, c, wd, t, n, d) ==
    \/ /\ t = latch_configs /\ d.counters[c] = Filled(wd)
       /\ RowsIn(m, c, n, d) /\ m.readout = d.readout
    \/ /\ t = latch_configs \o read("a") /\ c = "b" /\ Later(m, "a", wd, d)
    \/ /\ c = "a"
       /\ \E b \in Word : /\ t = write_value("b", b) \o (latch_configs \o read("a"))
                          /\ Later(m, "a", b, d)
Filling(s, m, d, c, t) ==
    \/ \E wd \in Word : /\ s = Then(SetDout(wd), Opening(c, ValueRest(0, t)))
                        /\ Fills(m, c, wd, t, 0, d)
    \/ Opens(s, m, c, ValueRest(0, t)) /\ Fills(m, c, m.dout, t, 0, d)
    \/ \E n \in 0 .. Rows - 1 :
          s = ValueRest(n, t) /\ Running(m, c) /\ Fills(m, c, m.dout, t, n, d)
    \/ \E n \in 0 .. Rows - 1 :
          /\ s = Then(Poll, ValueRest(n + 1, t)) /\ Running(m, c)
          /\ Fills(m, c, m.dout, t, n + 1, d)

ConfigRest(n, data) == ConfigFrom(n, data) \o latch_configs
Configuring(s, m, d, c) ==
    /\ m.readout = d.readout
    /\ \/ Opens(s, m, c, ConfigRest(0, d.counters[c])) /\ RowsIn(m, c, 0, d)
       \/ \E n \in 0 .. Rows - 1 :
             /\ s = ConfigRest(n, d.counters[c]) /\ Running(m, c)
             /\ RowsIn(m, c, n, d)
       \/ \E n \in 0 .. Rows - 1 :
             /\ s = Then(Trigger, Then(Poll, ConfigRest(n + 1, d.counters[c])))
             /\ Running(m, c) /\ m.dout = d.counters[c][Rows - 1 - n]
             /\ RowsIn(m, c, n, d)
       \/ \E n \in 0 .. Rows - 1 :
             /\ s = Then(Poll, ConfigRest(n + 1, d.counters[c])) /\ Running(m, c)
             /\ RowsIn(m, c, n + 1, d)

Plan(s, m, d) ==
    \/ Finishing(s, m, d) \/ Measuring(s, m, d)
    \/ \E c \in Shifters : \/ Reading(s, m, d, c) \/ Configuring(s, m, d, c)
                           \/ \E t \in Seq(DriverCalls) : Filling(s, m, d, c, t)

-----------------------------------------------------------------------------
(* The hardware carries out what the driver functions that have returned   *)
(* have asked for, and may be behind them by a row or a pulse.             *)
Same(m) == counters = m.rows /\ din = m.din

(* The counter before its last row, of which the first j bits are in. *)
Before(m) == [r \in Row |-> IF r = Rows - 1 THEN m.din ELSE m.rows[m.app][r + 1]]
Partly(m, j) ==
    /\ dout = m.rows[m.app][0]
    /\ \A r \in Row, k \in Bits :
           counters[m.app][r][k] = IF k >= j THEN Before(m)[r][k - j]
                                             ELSE m.rows[m.app][r][k - j + 16]
    /\ \A k \in Bits : k >= 16 - j => din[k] = m.din[k]

InRow == pc_id \in 5 .. 100 \/ (pc_id = 4 /\ cr.pmcc_trg)

ShifterDoes(m) ==
    /\ m.started <=> (pc_id # 0 \/ cr.pmcc_trg)
    /\ \A c \in Counter : c # m.app => counters[c] = m.rows[c]
    /\ ~InRow => Same(m)
    /\ pc_id = 4 /\ cr.pmcc_trg => Partly(m, 0)
    /\ \A j \in 0 .. 15 :
          /\ pc_id = 5 + 6 * j => Partly(m, j)
          /\ pc_id = 8 + 6 * j => Partly(m, j) /\ pm_din = dout[15 - j]

PulserDoes(m) ==
    /\ din = m.din
    /\ IF m.app = "hits" /\ (cr.pmcc_trg \/ pc_id \in {1, 4})
       THEN m.rows = Hits ELSE counters = m.rows

Does(m) ==
    /\ m \in Machine /\ m.dout = dout /\ m.readout = readout
    /\ IF cr.pmcc_rst_n
       THEN Holds(m.app) /\ (IF m.app \in Shifters THEN ShifterDoes(m) ELSE PulserDoes(m))
       ELSE Same(m)

-----------------------------------------------------------------------------
(* A sequence that starts with x.                                          *)
LEMMA OneMore ==
    ASSUME NEW x \in DriverCalls, NEW t \in Seq(DriverCalls)
    PROVE  /\ Then(x, t) \in Seq(DriverCalls) /\ Len(Then(x, t)) = Len(t) + 1
           /\ Len(t) \in Nat
           /\ Then(x, t)[1] = x
           /\ \A i \in 1 .. Len(t) : Then(x, t)[i + 1] = t[i]
<1> DEFINE s == <<x>>
           q == s \o t
<1>1. s \in Seq(DriverCalls) /\ Len(s) = 1 /\ s[1] = x
  OBVIOUS
<1> HIDE DEF s
<1>a. /\ q \in Seq(DriverCalls) /\ Len(q) = Len(s) + Len(t)
      /\ \A i \in 1 .. Len(s) + Len(t) :
             q[i] = IF i <= Len(s) THEN s[i] ELSE t[i - Len(s)]
  BY <1>1, ConcatProperties
<1> HIDE DEF q
<1>2. /\ q \in Seq(DriverCalls) /\ Len(q) = 1 + Len(t)
      /\ \A i \in 1 .. 1 + Len(t) : q[i] = IF i <= 1 THEN s[i] ELSE t[i - 1]
  BY <1>1, <1>a
<1>3. Len(t) \in Nat
  BY LenProperties
<1>4. 1 \in 1 .. 1 + Len(t)
  BY <1>3
<1>5. q[1] = x
  BY <1>1, <1>2, <1>4
<1>6. ASSUME NEW i \in 1 .. Len(t) PROVE q[i + 1] = t[i]
  <2>1. i + 1 \in 1 .. 1 + Len(t) /\ ~(i + 1 <= 1) /\ (i + 1) - 1 = i
    BY <1>3
  <2>2. q[i + 1] = t[(i + 1) - 1]
    BY <1>2, <2>1
  <2> QED
    BY <2>1, <2>2
<1> QED
  BY <1>2, <1>3, <1>5, <1>6 DEF q, s, Then

(* What its first function is, and what is left without it.                *)
LEMMA StartsWith ==
    ASSUME NEW x \in DriverCalls, NEW t \in Seq(DriverCalls)
    PROVE  /\ Then(x, t) \in Seq(DriverCalls) /\ Then(x, t) # <<>>
           /\ Head(Then(x, t)) = x /\ Tail(Then(x, t)) = t
<1> DEFINE q == Then(x, t)
<1>1. /\ q \in Seq(DriverCalls) /\ Len(q) = Len(t) + 1 /\ Len(t) \in Nat
      /\ q[1] = x /\ \A i \in 1 .. Len(t) : q[i + 1] = t[i]
  BY OneMore
<1> HIDE DEF q
<1>2. q # <<>> /\ Head(q) = x
  <2>1. q # <<>>
    BY <1>1, EmptySeq
  <2> QED
    BY <1>1, <2>1
<1>3. /\ Tail(q) \in Seq(DriverCalls) /\ Len(Tail(q)) = Len(t)
      /\ \A i \in 1 .. Len(Tail(q)) : Tail(q)[i] = q[i + 1]
  BY <1>1, <1>2, HeadTailProperties
<1>4. \A i \in 1 .. Len(Tail(q)) : Tail(q)[i] = t[i]
  BY <1>1, <1>3
<1>5. Tail(q) = t
  BY <1>3, <1>4, SeqEqual
<1> QED
  BY <1>1, <1>2, <1>5 DEF q

(* What q must be to start with two functions, or three, before t.         *)
TwoAhead(q, x, y, t) ==
    /\ Len(q) = Len(t) + 2 /\ q[1] = x /\ q[2] = y
    /\ \A i \in 1 .. Len(t) : q[i + 2] = t[i]
ThreeAhead(q, x, y, z, t) ==
    /\ Len(q) = Len(t) + 3 /\ q[1] = x /\ q[2] = y /\ q[3] = z
    /\ \A i \in 1 .. Len(t) : q[i + 3] = t[i]

(* Two functions and a sequence, put together.                             *)
LEMMA TwoThenRest ==
    ASSUME NEW x \in DriverCalls, NEW y \in DriverCalls,
           NEW q \in Seq(DriverCalls), NEW t \in Seq(DriverCalls),
           TwoAhead(q, x, y, t)
    PROVE  q = Then(x, Then(y, t))
<1>a. /\ Len(q) = Len(t) + 2 /\ q[1] = x /\ q[2] = y
      /\ \A i \in 1 .. Len(t) : q[i + 2] = t[i]
  BY DEF TwoAhead
<1> DEFINE v == Then(y, t)
           w == Then(x, v)
<1>1. /\ v \in Seq(DriverCalls) /\ Len(v) = Len(t) + 1 /\ v[1] = y /\ Len(t) \in Nat
      /\ \A i \in 1 .. Len(t) : v[i + 1] = t[i]
  BY OneMore
<1> HIDE DEF v
<1>2. /\ w \in Seq(DriverCalls) /\ Len(w) = Len(v) + 1 /\ w[1] = x
      /\ \A i \in 1 .. Len(v) : w[i + 1] = v[i]
  BY <1>1, OneMore
<1> HIDE DEF w
<1>3. ASSUME NEW i \in 1 .. Len(q) PROVE q[i] = w[i]
  <2>1. CASE i \in {1, 2}
    <3>1. 1 \in 1 .. Len(v) /\ w[1 + 1] = v[1]
      BY <1>1, <1>2
    <3> QED
      BY <1>a, <1>1, <1>2, <2>1, <3>1
  <2>2. CASE i \notin {1, 2}
    <3>1. PICK k \in 1 .. Len(t) : i = k + 2
      <4>1. i - 2 \in 1 .. Len(t) /\ i = (i - 2) + 2
        BY <1>a, <1>1, <2>2
      <4> QED
        BY <4>1
    <3>2. q[k + 2] = t[k] /\ v[k + 1] = t[k]
      BY <1>a, <1>1, <3>1
    <3>3. k + 1 \in 1 .. Len(v) /\ (k + 1) + 1 = k + 2
      BY <1>1, <3>1
    <3>4. w[(k + 1) + 1] = v[k + 1]
      BY <1>2, <3>3
    <3> QED
      BY <3>1, <3>2, <3>3, <3>4
  <2> QED
    BY <2>1, <2>2
<1>4. q = w
  <2>1. Len(q) = Len(w)
    BY <1>a, <1>1, <1>2
  <2> QED
    BY <1>2, <1>3, <2>1, SeqEqual
<1> QED
  BY <1>4 DEF w, v

(* Three functions and a sequence, put together.                           *)
LEMMA ThreeThenRest ==
    ASSUME NEW x \in DriverCalls, NEW y \in DriverCalls, NEW z \in DriverCalls,
           NEW q \in Seq(DriverCalls), NEW t \in Seq(DriverCalls),
           ThreeAhead(q, x, y, z, t)
    PROVE  q = Then(x, Then(y, Then(z, t)))
<1>a. /\ Len(q) = Len(t) + 3 /\ q[1] = x /\ q[2] = y /\ q[3] = z
      /\ \A i \in 1 .. Len(t) : q[i + 3] = t[i]
  BY DEF ThreeAhead
<1> DEFINE v == Then(z, t)
<1>1. /\ v \in Seq(DriverCalls) /\ Len(v) = Len(t) + 1 /\ v[1] = z /\ Len(t) \in Nat
      /\ \A i \in 1 .. Len(t) : v[i + 1] = t[i]
  BY OneMore
<1> HIDE DEF v
<1>2. ASSUME NEW i \in 1 .. Len(v) PROVE q[i + 2] = v[i]
  <2>1. CASE i = 1
    BY <1>a, <1>1, <2>1
  <2>2. CASE i # 1
    <3>1. PICK k \in 1 .. Len(t) : i = k + 1
      <4>1. i - 1 \in 1 .. Len(t) /\ i = (i - 1) + 1
        BY <1>1, <2>2
      <4> QED
        BY <4>1
    <3>2. q[k + 3] = t[k] /\ v[k + 1] = t[k] /\ i + 2 = k + 3
      BY <1>a, <1>1, <3>1
    <3> QED
      BY <3>1, <3>2
  <2> QED
    BY <2>1, <2>2
<1>3. Len(q) = Len(v) + 2
  BY <1>a, <1>1
<1>b. TwoAhead(q, x, y, v)
  BY <1>a, <1>2, <1>3 DEF TwoAhead
<1>4. q = Then(x, Then(y, v))
  BY <1>1, <1>b, TwoThenRest
<1> QED
  BY <1>4 DEF v

(* The arithmetic of the rounds.                                           *)
LEMMA RoundNumbers ==
    ASSUME NEW n \in 0 .. Rows - 1
    PROVE  /\ Rows \in Nat /\ Rows - n \in Nat /\ Rows - n >= 1 /\ n + 1 \in 0 .. Rows
           /\ Rows - (n + 1) \in Nat /\ Rows - 1 - n \in Row
           /\ 3 * (Rows - n) \in Nat /\ 3 * (Rows - (n + 1)) \in Nat
           /\ 3 * (Rows - n) = 3 * (Rows - (n + 1)) + 3
           /\ 2 * (Rows - n) \in Nat /\ 2 * (Rows - (n + 1)) \in Nat
           /\ 2 * (Rows - n) = 2 * (Rows - (n + 1)) + 2
<1>1. Rows \in Nat /\ Rows > 0
  BY MatrixAssumption
<1> QED
  BY <1>1 DEF Row

(* What the k-th function of a loop is.                                    *)
LEMMA RoundParts ==
    /\ \A k \in Nat : (k + 3 - 1) \div 3 = (k - 1) \div 3 + 1 /\ (k + 3 - 1) % 3 = (k - 1) % 3
    /\ \A k \in Nat : (k + 2 - 1) % 2 = (k - 1) % 2
    /\ (1 - 1) % 3 = 0 /\ (2 - 1) % 3 = 1 /\ (3 - 1) % 3 = 2
    /\ (1 - 1) \div 3 = 0 /\ (2 - 1) \div 3 = 0 /\ (3 - 1) \div 3 = 0
    /\ (1 - 1) % 2 = 0 /\ (2 - 1) % 2 = 1
    /\ \A k \in Nat \ {0} : (k - 1) % 3 \in {0, 1, 2} /\ (k - 1) \div 3 \in Nat /\ (k - 1) % 2 \in {0, 1}
    /\ \A k \in Nat \ {0} : 3 * ((k - 1) \div 3) <= k - 1
  OBVIOUS

(* The functions left of reading the rows are driver functions.            *)
LEMMA ReadFromSeq ==
    ASSUME NEW n \in 0 .. Rows
    PROVE  ReadFrom(n) \in Seq(DriverCalls) /\ Len(ReadFrom(n)) = 3 * (Rows - n)
<1> DEFINE op(k) == <<Trigger, Poll, GetDin(Rows - 1 - n - (k - 1) \div 3)>>[((k - 1) % 3) + 1]
           len == 3 * (Rows - n)
<1>1. Rows \in Nat /\ len \in Nat
  BY MatrixAssumption
<1>2. ASSUME NEW k \in 1 .. len PROVE op(k) \in DriverCalls
  <2>1. k \in Nat \ {0} /\ k <= 3 * (Rows - n)
    BY <1>1
  <2>2. (k - 1) % 3 \in {0, 1, 2} /\ (k - 1) \div 3 \in Nat /\ 3 * ((k - 1) \div 3) <= k - 1
    BY <2>1, RoundParts
  <2> DEFINE d == (k - 1) \div 3
             r == (k - 1) % 3
  <2>3. Rows - 1 - n - d \in Row
    <3>1. d \in Nat /\ 3 * d <= k - 1
      BY <2>2
    <3> HIDE DEF d
    <3> QED
      BY <1>1, <2>1, <3>1 DEF Row
  <2>4. Trigger \in DriverCalls /\ Poll \in DriverCalls /\ GetDin(Rows - 1 - n - d) \in DriverCalls
    BY <2>3, DriverFns
  <2>5. r \in {0, 1, 2}
    BY <2>2
  <2> HIDE DEF d, r
  <2>6. <<Trigger, Poll, GetDin(Rows - 1 - n - d)>>[r + 1] \in DriverCalls
    BY <2>4, <2>5
  <2> QED
    BY <2>6 DEF d, r
<1>3. ReadFrom(n) = [k \in 1 .. len |-> op(k)]
  BY DEF ReadFrom
<1> HIDE DEF op, len
<1>4. ReadFrom(n) \in [1 .. len -> DriverCalls]
  BY <1>2, <1>3
<1>5. ReadFrom(n) \in Seq(DriverCalls) /\ Len(ReadFrom(n)) = len
  BY <1>1, <1>4, FunctionIsSeq
<1> QED
  BY <1>5 DEF len

(* One more row to read.                                                   *)
LEMMA ReadFromNext ==
    ASSUME NEW n \in 0 .. Rows - 1
    PROVE  ReadFrom(n) =
               Then(Trigger, Then(Poll, Then(GetDin(Rows - 1 - n), ReadFrom(n + 1))))
<1> DEFINE op(i, k) == <<Trigger, Poll, GetDin(Rows - 1 - i - (k - 1) \div 3)>>[((k - 1) % 3) + 1]
<1>1. /\ n \in 0 .. Rows /\ n + 1 \in 0 .. Rows
      /\ 3 * (Rows - n) \in Nat /\ 3 * (Rows - (n + 1)) \in Nat
      /\ 3 * (Rows - n) = 3 * (Rows - (n + 1)) + 3 /\ Rows - 1 - n \in Row
  BY RoundNumbers
<1> DEFINE f == ReadFrom(n)
           g == ReadFrom(n + 1)
<1>2. /\ f \in Seq(DriverCalls) /\ Len(f) = 3 * (Rows - n)
      /\ g \in Seq(DriverCalls) /\ Len(g) = 3 * (Rows - (n + 1))
  BY <1>1, ReadFromSeq
<1>3. /\ \A k \in 1 .. 3 * (Rows - n) : f[k] = op(n, k)
      /\ \A k \in 1 .. 3 * (Rows - (n + 1)) : g[k] = op(n + 1, k)
  BY DEF ReadFrom
<1>4. /\ op(n, 1) = Trigger /\ op(n, 2) = Poll /\ op(n, 3) = GetDin(Rows - 1 - n - 0)
  BY RoundParts
<1>5. ASSUME NEW k \in 1 .. 3 * (Rows - (n + 1)) PROVE op(n, k + 3) = op(n + 1, k)
  <2>1. k \in Nat \ {0}
    BY <1>1
  <2>2. (k + 3 - 1) \div 3 = (k - 1) \div 3 + 1 /\ (k + 3 - 1) % 3 = (k - 1) % 3
        /\ (k - 1) \div 3 \in Nat
    BY <2>1, RoundParts
  <2>3. Rows - 1 - n - ((k - 1) \div 3 + 1) = Rows - 1 - (n + 1) - (k - 1) \div 3
    <3> DEFINE d == (k - 1) \div 3
    <3>1. d \in Nat /\ Rows \in Nat /\ n \in Nat
      BY <2>2, MatrixAssumption
    <3> HIDE DEF d
    <3>2. Rows - 1 - n - (d + 1) = Rows - 1 - (n + 1) - d
      BY <3>1
    <3> QED
      BY <3>2 DEF d
  <2> QED
    BY <2>2, <2>3
<1> HIDE DEF op, f, g
<1>6. f[1] = Trigger /\ f[2] = Poll /\ f[3] = GetDin(Rows - 1 - n)
  <2>1. 1 \in 1 .. 3 * (Rows - n) /\ 2 \in 1 .. 3 * (Rows - n) /\ 3 \in 1 .. 3 * (Rows - n)
    BY <1>1
  <2>2. Rows - 1 - n - 0 = Rows - 1 - n
    BY MatrixAssumption
  <2> QED
    BY <1>3, <1>4, <2>1, <2>2
<1>7. ASSUME NEW k \in 1 .. Len(g) PROVE f[k + 3] = g[k]
  <2>1. k + 3 \in 1 .. 3 * (Rows - n) /\ k \in 1 .. 3 * (Rows - (n + 1))
    BY <1>1, <1>2
  <2> QED
    BY <1>3, <1>5, <2>1
<1>8. Trigger \in DriverCalls /\ Poll \in DriverCalls /\ GetDin(Rows - 1 - n) \in DriverCalls
  BY <1>1, DriverFns
<1>9. Len(f) = Len(g) + 3
  BY <1>1, <1>2
<1>10. \A i \in 1 .. Len(g) : f[i + 3] = g[i]
  BY <1>7
<1> DEFINE z == GetDin(Rows - 1 - n)
<1>11. z \in DriverCalls /\ f[3] = z
  BY <1>6, <1>8
<1> HIDE DEF z
<1>12. /\ f \in Seq(DriverCalls) /\ g \in Seq(DriverCalls)
       /\ f[1] = Trigger /\ f[2] = Poll
       /\ Trigger \in DriverCalls /\ Poll \in DriverCalls
  BY <1>2, <1>6, <1>8
<1>13. ThreeAhead(f, Trigger, Poll, z, g)
  BY <1>9, <1>10, <1>11, <1>12 DEF ThreeAhead
<1>14. f = Then(Trigger, Then(Poll, Then(z, g)))
  BY <1>11, <1>12, <1>13, ThreeThenRest
<1> QED
  BY <1>14 DEF f, g, z

(* The functions left of writing the rows are driver functions.            *)
LEMMA ConfigFromSeq ==
    ASSUME NEW n \in 0 .. Rows, NEW data \in Matrix
    PROVE  ConfigFrom(n, data) \in Seq(DriverCalls) /\ Len(ConfigFrom(n, data)) = 3 * (Rows - n)
<1> DEFINE op(k) == <<SetDout(data[Rows - 1 - n - (k - 1) \div 3]), Trigger, Poll>>[((k - 1) % 3) + 1]
           len == 3 * (Rows - n)
<1>1. Rows \in Nat /\ len \in Nat
  BY MatrixAssumption
<1>2. ASSUME NEW k \in 1 .. len PROVE op(k) \in DriverCalls
  <2>1. k \in Nat \ {0} /\ k <= 3 * (Rows - n)
    BY <1>1
  <2>2. (k - 1) % 3 \in {0, 1, 2} /\ (k - 1) \div 3 \in Nat /\ 3 * ((k - 1) \div 3) <= k - 1
    BY <2>1, RoundParts
  <2> DEFINE d == (k - 1) \div 3
             r == (k - 1) % 3
  <2>3. Rows - 1 - n - d \in Row
    <3>1. d \in Nat /\ 3 * d <= k - 1
      BY <2>2
    <3> HIDE DEF d
    <3> QED
      BY <1>1, <2>1, <3>1 DEF Row
  <2>4. Trigger \in DriverCalls /\ Poll \in DriverCalls /\ SetDout(data[Rows - 1 - n - d]) \in DriverCalls
    BY <2>3, DriverFns DEF Matrix
  <2>5. r \in {0, 1, 2}
    BY <2>2
  <2> HIDE DEF d, r
  <2>6. <<SetDout(data[Rows - 1 - n - d]), Trigger, Poll>>[r + 1] \in DriverCalls
    BY <2>4, <2>5
  <2> QED
    BY <2>6 DEF d, r
<1>3. ConfigFrom(n, data) = [k \in 1 .. len |-> op(k)]
  BY DEF ConfigFrom
<1> HIDE DEF op, len
<1>4. ConfigFrom(n, data) \in [1 .. len -> DriverCalls]
  BY <1>2, <1>3
<1>5. ConfigFrom(n, data) \in Seq(DriverCalls) /\ Len(ConfigFrom(n, data)) = len
  BY <1>1, <1>4, FunctionIsSeq
<1> QED
  BY <1>5 DEF len

(* One more row to write.                                                  *)
LEMMA ConfigFromNext ==
    ASSUME NEW n \in 0 .. Rows - 1, NEW data \in Matrix
    PROVE  ConfigFrom(n, data) =
               Then(SetDout(data[Rows - 1 - n]), Then(Trigger, Then(Poll, ConfigFrom(n + 1, data))))
<1> DEFINE op(i, k) == <<SetDout(data[Rows - 1 - i - (k - 1) \div 3]), Trigger, Poll>>[((k - 1) % 3) + 1]
<1>1. /\ n \in 0 .. Rows /\ n + 1 \in 0 .. Rows
      /\ 3 * (Rows - n) \in Nat /\ 3 * (Rows - (n + 1)) \in Nat
      /\ 3 * (Rows - n) = 3 * (Rows - (n + 1)) + 3 /\ Rows - 1 - n \in Row
  BY RoundNumbers
<1> DEFINE f == ConfigFrom(n, data)
           g == ConfigFrom(n + 1, data)
<1>2. /\ f \in Seq(DriverCalls) /\ Len(f) = 3 * (Rows - n)
      /\ g \in Seq(DriverCalls) /\ Len(g) = 3 * (Rows - (n + 1))
  BY <1>1, ConfigFromSeq
<1>3. /\ \A k \in 1 .. 3 * (Rows - n) : f[k] = op(n, k)
      /\ \A k \in 1 .. 3 * (Rows - (n + 1)) : g[k] = op(n + 1, k)
  BY DEF ConfigFrom
<1>4. /\ op(n, 1) = SetDout(data[Rows - 1 - n - 0]) /\ op(n, 2) = Trigger /\ op(n, 3) = Poll
  BY RoundParts
<1>5. ASSUME NEW k \in 1 .. 3 * (Rows - (n + 1)) PROVE op(n, k + 3) = op(n + 1, k)
  <2>1. k \in Nat \ {0}
    BY <1>1
  <2>2. (k + 3 - 1) \div 3 = (k - 1) \div 3 + 1 /\ (k + 3 - 1) % 3 = (k - 1) % 3
        /\ (k - 1) \div 3 \in Nat
    BY <2>1, RoundParts
  <2>3. Rows - 1 - n - ((k - 1) \div 3 + 1) = Rows - 1 - (n + 1) - (k - 1) \div 3
    <3> DEFINE d == (k - 1) \div 3
    <3>1. d \in Nat /\ Rows \in Nat /\ n \in Nat
      BY <2>2, MatrixAssumption
    <3> HIDE DEF d
    <3>2. Rows - 1 - n - (d + 1) = Rows - 1 - (n + 1) - d
      BY <3>1
    <3> QED
      BY <3>2 DEF d
  <2> QED
    BY <2>2, <2>3
<1> HIDE DEF op, f, g
<1>6. f[1] = SetDout(data[Rows - 1 - n]) /\ f[2] = Trigger /\ f[3] = Poll
  <2>1. 1 \in 1 .. 3 * (Rows - n) /\ 2 \in 1 .. 3 * (Rows - n) /\ 3 \in 1 .. 3 * (Rows - n)
    BY <1>1
  <2>2. Rows - 1 - n - 0 = Rows - 1 - n
    BY MatrixAssumption
  <2> QED
    BY <1>3, <1>4, <2>1, <2>2
<1>7. ASSUME NEW k \in 1 .. Len(g) PROVE f[k + 3] = g[k]
  <2>1. k + 3 \in 1 .. 3 * (Rows - n) /\ k \in 1 .. 3 * (Rows - (n + 1))
    BY <1>1, <1>2
  <2> QED
    BY <1>3, <1>5, <2>1
<1>8. Trigger \in DriverCalls /\ Poll \in DriverCalls /\ SetDout(data[Rows - 1 - n]) \in DriverCalls
  BY <1>1, DriverFns DEF Matrix
<1>9. Len(f) = Len(g) + 3
  BY <1>1, <1>2
<1>10. \A i \in 1 .. Len(g) : f[i + 3] = g[i]
  BY <1>7
<1> DEFINE z == SetDout(data[Rows - 1 - n])
<1>11. z \in DriverCalls /\ f[1] = z
  BY <1>6, <1>8
<1> HIDE DEF z
<1>12. /\ f \in Seq(DriverCalls) /\ g \in Seq(DriverCalls)
       /\ f[2] = Trigger /\ f[3] = Poll
       /\ Trigger \in DriverCalls /\ Poll \in DriverCalls
  BY <1>2, <1>6, <1>8
<1>13. ThreeAhead(f, z, Trigger, Poll, g)
  BY <1>9, <1>10, <1>11, <1>12 DEF ThreeAhead
<1>14. f = Then(z, Then(Trigger, Then(Poll, g)))
  BY <1>11, <1>12, <1>13, ThreeThenRest
<1> QED
  BY <1>14 DEF f, g, z

(* The functions left of writing a value are driver functions.             *)
LEMMA ValueFromSeq ==
    ASSUME NEW n \in 0 .. Rows
    PROVE  ValueFrom(n) \in Seq(DriverCalls) /\ Len(ValueFrom(n)) = 2 * (Rows - n)
<1> DEFINE op(k) == <<Trigger, Poll>>[((k - 1) % 2) + 1]
           len == 2 * (Rows - n)
<1>1. Rows \in Nat /\ len \in Nat
  BY MatrixAssumption
<1>2. ASSUME NEW k \in 1 .. len PROVE op(k) \in DriverCalls
  <2> DEFINE r == (k - 1) % 2
  <2>1. r \in {0, 1}
    BY <1>1, RoundParts
  <2>2. Trigger \in DriverCalls /\ Poll \in DriverCalls
    BY DriverFns
  <2> HIDE DEF r
  <2>3. <<Trigger, Poll>>[r + 1] \in DriverCalls
    BY <2>1, <2>2
  <2> QED
    BY <2>3 DEF r
<1>3. ValueFrom(n) = [k \in 1 .. len |-> op(k)]
  BY DEF ValueFrom
<1> HIDE DEF op, len
<1>4. ValueFrom(n) \in [1 .. len -> DriverCalls]
  BY <1>2, <1>3
<1>5. ValueFrom(n) \in Seq(DriverCalls) /\ Len(ValueFrom(n)) = len
  BY <1>1, <1>4, FunctionIsSeq
<1> QED
  BY <1>5 DEF len

(* One more row to fill.                                                   *)
LEMMA ValueFromNext ==
    ASSUME NEW n \in 0 .. Rows - 1
    PROVE  ValueFrom(n) = Then(Trigger, Then(Poll, ValueFrom(n + 1)))
<1> DEFINE op(k) == <<Trigger, Poll>>[((k - 1) % 2) + 1]
           f == ValueFrom(n)
           g == ValueFrom(n + 1)
<1>1. /\ n \in 0 .. Rows /\ n + 1 \in 0 .. Rows
      /\ 2 * (Rows - n) \in Nat /\ 2 * (Rows - (n + 1)) \in Nat
      /\ 2 * (Rows - n) = 2 * (Rows - (n + 1)) + 2
  BY RoundNumbers
<1>2. /\ f \in Seq(DriverCalls) /\ Len(f) = 2 * (Rows - n)
      /\ g \in Seq(DriverCalls) /\ Len(g) = 2 * (Rows - (n + 1))
  BY <1>1, ValueFromSeq
<1>3. /\ \A k \in 1 .. 2 * (Rows - n) : f[k] = op(k)
      /\ \A k \in 1 .. 2 * (Rows - (n + 1)) : g[k] = op(k)
  BY DEF ValueFrom
<1>4. op(1) = Trigger /\ op(2) = Poll
  BY RoundParts
<1>5. ASSUME NEW k \in 1 .. 2 * (Rows - (n + 1)) PROVE op(k + 2) = op(k)
  <2>1. (k + 2 - 1) % 2 = (k - 1) % 2
    BY <1>1, RoundParts
  <2> QED
    BY <2>1
<1> HIDE DEF op, f, g
<1>6. f[1] = Trigger /\ f[2] = Poll
  <2>1. 1 \in 1 .. 2 * (Rows - n) /\ 2 \in 1 .. 2 * (Rows - n)
    BY <1>1
  <2> QED
    BY <1>3, <1>4, <2>1
<1>7. ASSUME NEW k \in 1 .. Len(g) PROVE f[k + 2] = g[k]
  <2>1. k + 2 \in 1 .. 2 * (Rows - n) /\ k \in 1 .. 2 * (Rows - (n + 1))
    BY <1>1, <1>2
  <2> QED
    BY <1>3, <1>5, <2>1
<1>8. Len(f) = Len(g) + 2
  BY <1>1, <1>2
<1>9. \A i \in 1 .. Len(g) : f[i + 2] = g[i]
  BY <1>7
<1>10. TwoAhead(f, Trigger, Poll, g)
  BY <1>6, <1>8, <1>9 DEF TwoAhead
<1>11. /\ f \in Seq(DriverCalls) /\ g \in Seq(DriverCalls)
       /\ Trigger \in DriverCalls /\ Poll \in DriverCalls
  BY <1>2, DriverFns
<1>12. f = Then(Trigger, Then(Poll, g))
  BY <1>10, <1>11, TwoThenRest
<1> QED
  BY <1>12 DEF f, g

(* After the last row nothing is left.                                     *)
LEMMA RowsDone ==
    /\ ReadFrom(Rows) = <<>> /\ ValueFrom(Rows) = <<>>
    /\ \A data \in Matrix : ConfigFrom(Rows, data) = <<>>
<1>1. Rows \in Nat /\ Rows \in 0 .. Rows /\ 3 * (Rows - Rows) = 0 /\ 2 * (Rows - Rows) = 0
  BY MatrixAssumption
<1>2. \A s \in Seq(DriverCalls) : Len(s) = 0 => s = <<>>
  BY EmptyCalls
<1>3. ReadFrom(Rows) \in Seq(DriverCalls) /\ Len(ReadFrom(Rows)) = 0
  BY <1>1, ReadFromSeq
<1>4. ValueFrom(Rows) \in Seq(DriverCalls) /\ Len(ValueFrom(Rows)) = 0
  BY <1>1, ValueFromSeq
<1>5. ASSUME NEW data \in Matrix
      PROVE  ConfigFrom(Rows, data) \in Seq(DriverCalls) /\ Len(ConfigFrom(Rows, data)) = 0
  BY <1>1, ConfigFromSeq
<1> QED
  BY <1>2, <1>3, <1>4, <1>5

(* Concatenation of pieces of calls is associative.                         *)
LEMMA ConcatCalls ==
    \A f, g, h \in Seq(DriverCalls) : (f \o g) \o h = f \o (g \o h)
  BY ConcatAssociative

(* One sequence before another.                                            *)
Joined(s, t) == s \o t

(* Concatenation after a first function,                                   *)
LEMMA ThenConcat ==
    ASSUME NEW x \in DriverCalls, NEW s \in Seq(DriverCalls), NEW t \in Seq(DriverCalls)
    PROVE  Joined(Then(x, s), t) = Then(x, Joined(s, t))
<1> DEFINE a == <<x>>
<1>1. a \in Seq(DriverCalls)
  OBVIOUS
<1> HIDE DEF a
<1>2. (a \o s) \o t = a \o (s \o t)
  BY <1>1, ConcatCalls, Zenon
<1> QED
  BY <1>2 DEF Then, Joined, a

(* after two,                                                              *)
LEMMA ThenConcat2 ==
    ASSUME NEW x \in DriverCalls, NEW y \in DriverCalls,
           NEW s \in Seq(DriverCalls), NEW t \in Seq(DriverCalls)
    PROVE  Joined(Then(x, Then(y, s)), t) = Then(x, Then(y, Joined(s, t)))
<1>1. Then(y, s) \in Seq(DriverCalls)
  BY StartsWith
<1>2. Joined(Then(y, s), t) = Then(y, Joined(s, t))
  BY ThenConcat
<1>3. Joined(Then(x, Then(y, s)), t) = Then(x, Joined(Then(y, s), t))
  BY <1>1, ThenConcat
<1> QED
  BY <1>2, <1>3

(* and after three.                                                        *)
LEMMA ThenConcat3 ==
    ASSUME NEW x \in DriverCalls, NEW y \in DriverCalls, NEW z \in DriverCalls,
           NEW s \in Seq(DriverCalls), NEW t \in Seq(DriverCalls)
    PROVE  Joined(Then(x, Then(y, Then(z, s))), t) = Then(x, Then(y, Then(z, Joined(s, t))))
<1>1. Then(z, s) \in Seq(DriverCalls)
  BY StartsWith
<1>2. Joined(Then(z, s), t) = Then(z, Joined(s, t))
  BY ThenConcat
<1>3. Joined(Then(x, Then(y, Then(z, s))), t) = Then(x, Then(y, Joined(Then(z, s), t)))
  BY <1>1, ThenConcat2
<1> QED
  BY <1>2, <1>3

(* A tuple of functions before t.                                          *)
LEMMA TuplesThen ==
    ASSUME NEW x \in DriverCalls, NEW y \in DriverCalls, NEW z \in DriverCalls,
           NEW t \in Seq(DriverCalls)
    PROVE  /\ <<x, y>> \o t = Then(x, Then(y, t))
           /\ <<x, y, z>> \o t = Then(x, Then(y, Then(z, t)))
<1>1. Len(t) \in Nat
  BY LenProperties
<1>2. <<x, y>> \o t = Then(x, Then(y, t))
  <2> DEFINE s == <<x, y>>
             q == s \o t
  <2>1. s \in Seq(DriverCalls) /\ Len(s) = 2 /\ s[1] = x /\ s[2] = y
    OBVIOUS
  <2> HIDE DEF s
  <2>2. JoinedOrderly(s, t, q)
    BY <2>1, JoinCalls
  <2>3. q \in Seq(DriverCalls) /\ Len(q) = Len(t) + 2
    BY <1>1, <2>1, <2>2 DEF JoinedOrderly
  <2>4. q[1] = x /\ q[2] = y
    BY <2>1, <2>2 DEF JoinedOrderly
  <2>5. ASSUME NEW i \in 1 .. Len(t) PROVE q[i + 2] = t[i]
    <3>1. i + 2 \in Len(s) + 1 .. Len(q) /\ (i + 2) - Len(s) = i
      BY <1>1, <2>1, <2>3
    <3>2. q[i + 2] = t[(i + 2) - Len(s)]
      BY <2>2, <3>1 DEF JoinedOrderly
    <3> QED
      BY <3>1, <3>2
  <2> HIDE DEF q
  <2>6. TwoAhead(q, x, y, t)
    BY <2>3, <2>4, <2>5 DEF TwoAhead
  <2>7. q = Then(x, Then(y, t))
    BY <2>3, <2>6, TwoThenRest
  <2> QED
    BY <2>7 DEF q, s
<1>3. <<x, y, z>> \o t = Then(x, Then(y, Then(z, t)))
  <2> DEFINE s == <<x, y, z>>
             q == s \o t
  <2>1. s \in Seq(DriverCalls) /\ Len(s) = 3 /\ s[1] = x /\ s[2] = y /\ s[3] = z
    OBVIOUS
  <2> HIDE DEF s
  <2>2. JoinedOrderly(s, t, q)
    BY <2>1, JoinCalls
  <2>3. q \in Seq(DriverCalls) /\ Len(q) = Len(t) + 3
    BY <1>1, <2>1, <2>2 DEF JoinedOrderly
  <2>4. q[1] = x /\ q[2] = y /\ q[3] = z
    BY <2>1, <2>2 DEF JoinedOrderly
  <2>5. ASSUME NEW i \in 1 .. Len(t) PROVE q[i + 3] = t[i]
    <3>1. i + 3 \in Len(s) + 1 .. Len(q) /\ (i + 3) - Len(s) = i
      BY <1>1, <2>1, <2>3
    <3>2. q[i + 3] = t[(i + 3) - Len(s)]
      BY <2>2, <3>1 DEF JoinedOrderly
    <3> QED
      BY <3>1, <3>2
  <2> HIDE DEF q
  <2>6. ThreeAhead(q, x, y, z, t)
    BY <2>3, <2>4, <2>5 DEF ThreeAhead
  <2>7. q = Then(x, Then(y, Then(z, t)))
    BY <2>3, <2>6, ThreeThenRest
  <2> QED
    BY <2>7 DEF q, s
<1> QED
  BY <1>2, <1>3

(* Two functions on 1 .. n that agree are the same.                        *)
LEMMA SameFunction ==
    ASSUME NEW n, NEW f, NEW g, f = [k \in 1 .. n |-> f[k]], g = [k \in 1 .. n |-> g[k]],
           \A k \in 1 .. n : f[k] = g[k]
    PROVE  f = g
  OBVIOUS

(* The loops of the code, from their beginning.                            *)
LEMMA LoopsFromStart ==
    /\ Downwards(3, LAMBDA r : <<Trigger, Poll, GetDin(r)>>) = ReadFrom(0)
    /\ Downwards(2, LAMBDA r : <<Trigger, Poll>>) = ValueFrom(0)
    /\ \A data \in Matrix :
           Downwards(3, LAMBDA r : <<SetDout(data[r]), Trigger, Poll>>) = ConfigFrom(0, data)
<1>1. Rows \in Nat /\ 3 * (Rows - 0) = 3 * Rows /\ 2 * (Rows - 0) = 2 * Rows
  BY MatrixAssumption
<1>2. ASSUME NEW k \in 1 .. 3 * Rows
      PROVE  Rows - 1 - (k - 1) \div 3 = Rows - 1 - 0 - (k - 1) \div 3
  <2>1. k \in Nat \ {0}
    BY <1>1
  <2> DEFINE d == (k - 1) \div 3
  <2>2. d \in Nat
    BY <2>1, RoundParts
  <2> HIDE DEF d
  <2>3. Rows - 1 - d = Rows - 1 - 0 - d
    BY <1>1, <2>2
  <2> QED
    BY <2>3 DEF d
<1>3. Downwards(3, LAMBDA r : <<Trigger, Poll, GetDin(r)>>) = ReadFrom(0)
  <2> DEFINE f(k) == <<Trigger, Poll, GetDin(Rows - 1 - (k - 1) \div 3)>>[((k - 1) % 3) + 1]
             g(k) == <<Trigger, Poll, GetDin(Rows - 1 - 0 - (k - 1) \div 3)>>[((k - 1) % 3) + 1]
  <2>1. Downwards(3, LAMBDA r : <<Trigger, Poll, GetDin(r)>>) = [k \in 1 .. 3 * Rows |-> f(k)]
    BY DEF Downwards
  <2>2. ReadFrom(0) = [k \in 1 .. 3 * Rows |-> g(k)]
    BY <1>1 DEF ReadFrom
  <2>3. \A k \in 1 .. 3 * Rows : f(k) = g(k)
    BY <1>2
  <2> HIDE DEF f, g
  <2> QED
    BY <2>1, <2>2, <2>3
<1>4. Downwards(2, LAMBDA r : <<Trigger, Poll>>) = ValueFrom(0)
  <2> DEFINE f(k) == <<Trigger, Poll>>[((k - 1) % 2) + 1]
  <2>1. Downwards(2, LAMBDA r : <<Trigger, Poll>>) = [k \in 1 .. 2 * Rows |-> f(k)]
    BY DEF Downwards
  <2>2. ValueFrom(0) = [k \in 1 .. 2 * Rows |-> f(k)]
    BY <1>1 DEF ValueFrom
  <2> HIDE DEF f
  <2> QED
    BY <2>1, <2>2
<1>5. ASSUME NEW data \in Matrix
      PROVE  Downwards(3, LAMBDA r : <<SetDout(data[r]), Trigger, Poll>>) = ConfigFrom(0, data)
  <2> DEFINE f(k) == <<SetDout(data[Rows - 1 - (k - 1) \div 3]), Trigger, Poll>>[((k - 1) % 3) + 1]
             g(k) == <<SetDout(data[Rows - 1 - 0 - (k - 1) \div 3]), Trigger, Poll>>[((k - 1) % 3) + 1]
  <2>1. Downwards(3, LAMBDA r : <<SetDout(data[r]), Trigger, Poll>>)
            = [k \in 1 .. 3 * Rows |-> f(k)]
    BY DEF Downwards
  <2>2. ConfigFrom(0, data) = [k \in 1 .. 3 * Rows |-> g(k)]
    BY <1>1 DEF ConfigFrom
  <2>3. \A k \in 1 .. 3 * Rows : f(k) = g(k)
    BY <1>2
  <2> HIDE DEF f, g
  <2> QED
    BY <2>1, <2>2, <2>3
<1> QED
  BY <1>3, <1>4, <1>5

(* Sequences of driver functions, before t.                                *)
LEMMA PiecesAreCalls ==
    ASSUME NEW c \in Shifters, NEW t \in Seq(DriverCalls)
    PROVE  /\ Then(Poll, t) \in Seq(DriverCalls)
           /\ Then(Trigger, t) \in Seq(DriverCalls)
           /\ Then(Trigger, Then(Poll, t)) \in Seq(DriverCalls)
           /\ Opening(c, t) \in Seq(DriverCalls)
           /\ \A app \in Apps : PulseOf(app, t) \in Seq(DriverCalls)
<1>1. Trigger \in DriverCalls /\ Poll \in DriverCalls /\ \A app \in Apps : Load(app) \in DriverCalls
  BY DriverFns
<1>2. \A x \in DriverCalls, s \in Seq(DriverCalls) : Then(x, s) \in Seq(DriverCalls)
  BY StartsWith
<1>3. c \in Apps
  BY DEF Apps
<1>4. /\ Then(Poll, t) \in Seq(DriverCalls) /\ Then(Trigger, t) \in Seq(DriverCalls)
      /\ Then(Trigger, Then(Poll, t)) \in Seq(DriverCalls)
  BY <1>1, <1>2
<1>5. Opening(c, t) \in Seq(DriverCalls)
  BY <1>1, <1>2, <1>3, <1>4 DEF Opening
<1> QED
  BY <1>1, <1>2, <1>4, <1>5 DEF PulseOf

(* The member functions, as they are followed here.                        *)
LEMMA LatchShape ==
    /\ latch_configs = PulseOf("latcher", <<>>) /\ latch_configs \in Seq(DriverCalls)
    /\ \A t \in Seq(DriverCalls) : latch_configs \o t = PulseOf("latcher", t)
<1>1. Load("latcher") \in DriverCalls /\ Trigger \in DriverCalls
  BY DriverFns DEF Apps, Pulsers
<1>2. ASSUME NEW t \in Seq(DriverCalls) PROVE latch_configs \o t = PulseOf("latcher", t)
  <2> DEFINE x == Load("latcher")
  <2>1. latch_configs = <<x, Trigger>>
    BY DEF latch_configs
  <2>2. x \in DriverCalls
    BY <1>1
  <2> HIDE DEF x
  <2>3. <<x, Trigger>> \o t = Then(x, Then(Trigger, t))
    BY <1>1, <2>2, TuplesThen
  <2> QED
    BY <2>1, <2>3 DEF PulseOf, x
<1>3. latch_configs \in Seq(DriverCalls)
  BY LatchPiece DEF Piece
<1>4. <<>> \in Seq(DriverCalls) /\ latch_configs \o <<>> = latch_configs
  BY <1>3, EmptySeq, ConcatEmptySeq
<1> QED
  BY <1>2, <1>3, <1>4

(* read_counters and read.                                                 *)
LEMMA ReadShape ==
    ASSUME NEW c \in Shifters
    PROVE  /\ read_counters(c) = Opening(c, ReadFrom(0))
           /\ read(c) = PulseOf("hits", read_counters(c))
           /\ read_counters(c) \in Seq(DriverCalls) /\ read(c) \in Seq(DriverCalls)
           /\ ReadFrom(0) \in Seq(DriverCalls)
<1> DEFINE x == Load(c)
           h == Load("hits")
           t == ReadFrom(0)
<1>1. x \in DriverCalls /\ h \in DriverCalls /\ Trigger \in DriverCalls /\ Poll \in DriverCalls
  BY DriverFns DEF Apps, Pulsers
<1>2. t \in Seq(DriverCalls)
  BY MatrixAssumption, ReadFromSeq
<1>3. read_counters(c) = <<x, Trigger, Poll>> \o t
  BY LoopsFromStart DEF read_counters
<1> HIDE DEF x, h, t
<1>4. <<x, Trigger, Poll>> \o t = Then(x, Then(Trigger, Then(Poll, t)))
  BY <1>1, <1>2, TuplesThen, ZenonT(60)
<1>5. read_counters(c) = Opening(c, t)
  BY <1>3, <1>4 DEF Opening, x
<1>6. read_counters(c) \in Seq(DriverCalls)
  BY <1>2, <1>5, PiecesAreCalls
<1>7. read(c) = <<h, Trigger>> \o read_counters(c)
  BY DEF read, h
<1> DEFINE u == read_counters(c)
<1>8. u \in Seq(DriverCalls)
  BY <1>6
<1> HIDE DEF u
<1>9. <<h, Trigger>> \o u = Then(h, Then(Trigger, u))
  BY <1>1, <1>8, TuplesThen
<1>10. read(c) = PulseOf("hits", read_counters(c))
  BY <1>7, <1>9 DEF PulseOf, h, u
<1>11. read(c) \in Seq(DriverCalls)
  BY <1>6, <1>10, PiecesAreCalls DEF Apps, Pulsers
<1> QED
  BY <1>2, <1>5, <1>6, <1>10, <1>11 DEF t

(* What is left of filling a counter with a value, and of configuring it.  *)
LEMMA RestShapes ==
    ASSUME NEW t \in Seq(DriverCalls), NEW data \in Matrix
    PROVE  /\ \A n \in 0 .. Rows : /\ ValueRest(n, t) \in Seq(DriverCalls)
                                   /\ ConfigRest(n, data) \in Seq(DriverCalls)
           /\ \A n \in 0 .. Rows - 1 :
                  /\ ValueRest(n, t) = Then(Trigger, Then(Poll, ValueRest(n + 1, t)))
                  /\ ConfigRest(n, data) =
                         Then(SetDout(data[Rows - 1 - n]),
                              Then(Trigger, Then(Poll, ConfigRest(n + 1, data))))
           /\ ValueRest(Rows, t) = t
           /\ ConfigRest(Rows, data) = latch_configs
<1>1. latch_configs \in Seq(DriverCalls)
  BY LatchShape
<1>2. \A n \in 0 .. Rows : /\ ValueFrom(n) \in Seq(DriverCalls)
                           /\ ConfigFrom(n, data) \in Seq(DriverCalls)
  BY ValueFromSeq, ConfigFromSeq
<1>3. /\ Trigger \in DriverCalls /\ Poll \in DriverCalls
      /\ \A r \in Row : SetDout(data[r]) \in DriverCalls
  BY DriverFns DEF Matrix
<1>4. ASSUME NEW n \in 0 .. Rows - 1
      PROVE  /\ ValueRest(n, t) = Then(Trigger, Then(Poll, ValueRest(n + 1, t)))
             /\ ConfigRest(n, data) =
                         Then(SetDout(data[Rows - 1 - n]),
                              Then(Trigger, Then(Poll, ConfigRest(n + 1, data))))
  <2>1. n \in 0 .. Rows /\ n + 1 \in 0 .. Rows /\ Rows - 1 - n \in Row
    BY RoundNumbers
  <2> DEFINE v == ValueFrom(n + 1)
             w == ConfigFrom(n + 1, data)
             z == SetDout(data[Rows - 1 - n])
             lc == latch_configs
  <2>2. /\ ValueFrom(n) = Then(Trigger, Then(Poll, v))
        /\ ConfigFrom(n, data) = Then(z, Then(Trigger, Then(Poll, w)))
    BY ValueFromNext, ConfigFromNext
  <2>3. v \in Seq(DriverCalls) /\ w \in Seq(DriverCalls) /\ z \in DriverCalls
        /\ lc \in Seq(DriverCalls)
    BY <1>1, <1>2, <1>3, <2>1
  <2> HIDE DEF v, w, z, lc
  <2>5. Trigger \in DriverCalls /\ Poll \in DriverCalls /\ v \in Seq(DriverCalls)
    BY <1>3, <2>3
  <2>6. Joined(Then(Trigger, Then(Poll, v)), t) = Then(Trigger, Then(Poll, Joined(v, t)))
    BY <2>5, ThenConcat2
  <2>7. Joined(Then(z, Then(Trigger, Then(Poll, w))), lc) = Then(z, Then(Trigger, Then(Poll, Joined(w, lc))))
    <3>1. /\ z \in DriverCalls /\ Trigger \in DriverCalls /\ Poll \in DriverCalls
          /\ w \in Seq(DriverCalls) /\ lc \in Seq(DriverCalls)
      BY <2>3, <2>5
    <3> QED
      BY <3>1, ThenConcat3
  <2>8. ValueRest(n, t) = Then(Trigger, Then(Poll, Joined(v, t)))
    BY <2>2, <2>6 DEF ValueRest, Joined
  <2>9. ConfigRest(n, data) = Then(z, Then(Trigger, Then(Poll, Joined(w, lc))))
    BY <2>2, <2>7 DEF ConfigRest, Joined, lc
  <2> QED
    BY <2>8, <2>9 DEF ValueRest, ConfigRest, Joined, v, w, z, lc
<1>5. \A n \in 0 .. Rows : /\ ValueRest(n, t) \in Seq(DriverCalls)
                           /\ ConfigRest(n, data) \in Seq(DriverCalls)
  BY <1>1, <1>2, ConcatProperties DEF ValueRest, ConfigRest
<1>6. ValueRest(Rows, t) = t /\ ConfigRest(Rows, data) = latch_configs
  BY <1>1, RowsDone, ConcatEmptySeq DEF ValueRest, ConfigRest
<1> QED
  BY <1>4, <1>5, <1>6

(* write_value and write_rows, with what comes after them.                 *)
LEMMA WriteShape ==
    ASSUME NEW c \in Shifters, NEW wd \in Word, NEW data \in Matrix,
           NEW t \in Seq(DriverCalls)
    PROVE  /\ write_value(c, wd) \o t = Then(SetDout(wd), Opening(c, ValueRest(0, t)))
           /\ write_rows(c, data) \o latch_configs = Opening(c, ConfigRest(0, data))
           /\ write_value(c, wd) \in Seq(DriverCalls)
<1> DEFINE x == Load(c)
           z == SetDout(wd)
           v == ValueFrom(0)
           w == ConfigFrom(0, data)
           lc == latch_configs
<1>1. /\ x \in DriverCalls /\ z \in DriverCalls
      /\ Trigger \in DriverCalls /\ Poll \in DriverCalls
  BY DriverFns DEF Apps
<1>2. /\ v \in Seq(DriverCalls) /\ w \in Seq(DriverCalls) /\ lc \in Seq(DriverCalls)
  BY MatrixAssumption, ValueFromSeq, ConfigFromSeq, LatchShape
<1>3. /\ write_value(c, wd) = <<z, x, Trigger, Poll>> \o v
      /\ write_rows(c, data) = <<x, Trigger, Poll>> \o w
  BY LoopsFromStart DEF write_value, write_rows
<1> HIDE DEF x, z, v, w, lc
<1>4. <<x, Trigger, Poll>> \in Seq(DriverCalls) /\ <<z>> \in Seq(DriverCalls)
  BY <1>1
<1> DEFINE s == <<x, Trigger, Poll>>
           q == <<z>>
<1>5. <<z, x, Trigger, Poll>> = q \o s
  BY <1>1
<1>b. /\ x \in DriverCalls /\ Trigger \in DriverCalls /\ Poll \in DriverCalls
      /\ v \in Seq(DriverCalls) /\ w \in Seq(DriverCalls) /\ lc \in Seq(DriverCalls)
  BY <1>1, <1>2
<1>6. s \o v = Then(x, Then(Trigger, Then(Poll, v)))
  BY <1>b, TuplesThen, ZenonT(60)
<1>a. s \o w = Then(x, Then(Trigger, Then(Poll, w)))
  BY <1>b, TuplesThen, ZenonT(60)
<1>7. s \in Seq(DriverCalls) /\ q \in Seq(DriverCalls)
  BY <1>4
<1> HIDE DEF s
<1>8. (q \o s) \o v = q \o (s \o v)
  <2> HIDE DEF q
  <2>1. q \in Seq(DriverCalls) /\ s \in Seq(DriverCalls) /\ v \in Seq(DriverCalls)
    BY <1>2, <1>7
  <2> QED
    BY <2>1, ConcatCalls, ZenonT(60)
<1>9. write_value(c, wd) = Then(z, Then(x, Then(Trigger, Then(Poll, v))))
  <2>1. write_value(c, wd) = q \o (s \o v)
    <3> HIDE DEF q
    <3> QED
      BY <1>3, <1>5, <1>8
  <2>2. Then(z, s \o v) = q \o (s \o v)
    BY DEF Then
  <2> HIDE DEF q
  <2> QED
    BY <1>6, <2>1, <2>2
<1> DEFINE tv == Then(x, Then(Trigger, Then(Poll, v)))
<1>10. tv \in Seq(DriverCalls)
  <2>1. Then(Poll, v) \in Seq(DriverCalls)
    BY <1>1, <1>2, StartsWith
  <2>2. Then(Trigger, Then(Poll, v)) \in Seq(DriverCalls)
    BY <1>1, <2>1, StartsWith
  <2> QED
    BY <1>1, <2>2, StartsWith
<1>11. Joined(tv, t) = Then(x, Then(Trigger, Then(Poll, Joined(v, t))))
  BY <1>b, ThenConcat3
<1>12. Joined(write_value(c, wd), t) = Then(z, Then(x, Then(Trigger, Then(Poll, Joined(v, t)))))
  <2> HIDE DEF tv
  <2>1. Joined(Then(z, tv), t) = Then(z, Joined(tv, t))
    BY <1>1, <1>10, ThenConcat
  <2>2. write_value(c, wd) = Then(z, tv)
    BY <1>9 DEF tv
  <2> QED
    BY <1>11, <2>1, <2>2
<1>13. Joined(write_rows(c, data), lc) = Then(x, Then(Trigger, Then(Poll, Joined(w, lc))))
  <2>1. write_rows(c, data) = Then(x, Then(Trigger, Then(Poll, w)))
    BY <1>3, <1>a DEF s
  <2>2. Joined(Then(x, Then(Trigger, Then(Poll, w))), lc) = Then(x, Then(Trigger, Then(Poll, Joined(w, lc))))
    BY <1>b, ThenConcat3
  <2> QED
    BY <2>1, <2>2
<1>14. write_value(c, wd) \in Seq(DriverCalls)
  <2>1. write_value(c, wd) = Then(z, tv)
    BY <1>9
  <2> HIDE DEF tv
  <2> QED
    BY <1>1, <1>10, <2>1, StartsWith
<1> HIDE DEF tv
<1> QED
  BY <1>12, <1>13, <1>14 DEF Opening, ValueRest, ConfigRest, Joined, x, z, v, w, lc

-----------------------------------------------------------------------------
(* What each driver function does, in the fields it changes.               *)
LoadDone(m, app, q) ==
    /\ q.app = app /\ q.started = FALSE
    /\ q.rows = m.rows /\ q.dout = m.dout /\ q.din = m.din /\ q.readout = m.readout
StartDone(m, q) ==
    /\ q.app = m.app /\ q.started = TRUE
    /\ q.rows = m.rows /\ q.dout = m.dout /\ q.din = m.din /\ q.readout = m.readout
RowDone(m, q) ==
    /\ q.app = m.app /\ q.started = TRUE /\ q.dout = m.dout /\ q.readout = m.readout
    /\ q.rows = [m.rows EXCEPT ![m.app] = OneDown(m.rows[m.app], m.dout)]
    /\ q.din = m.rows[m.app][Rows - 1]
HitsDone(m, q) ==
    /\ q.app = m.app /\ q.started = m.started
    /\ q.rows = Hits /\ q.dout = m.dout /\ q.din = m.din /\ q.readout = m.readout
DoutDone(m, wd, q) ==
    /\ q.app = m.app /\ q.started = m.started
    /\ q.rows = m.rows /\ q.dout = wd /\ q.din = m.din /\ q.readout = m.readout
DinDone(m, r, q) ==
    /\ q.app = m.app /\ q.started = m.started
    /\ q.rows = m.rows /\ q.dout = m.dout /\ q.din = m.din
    /\ q.readout = [m.readout EXCEPT ![r] = m.din]

(* The parts of a machine.                                                 *)
LEMMA MachineParts ==
    ASSUME NEW m \in Machine
    PROVE  /\ m.app \in Apps /\ m.started \in BOOLEAN
           /\ m.rows \in [Counter -> Matrix]
           /\ m.dout \in Word /\ m.din \in Word /\ m.readout \in Matrix
           /\ m = [app |-> m.app, started |-> m.started, rows |-> m.rows,
                   dout |-> m.dout, din |-> m.din, readout |-> m.readout]
  BY DEF Machine

(* A word shifted into a counter.                                          *)
LEMMA OneDownMatrix ==
    ASSUME NEW old \in Matrix, NEW wd \in Word
    PROVE  OneDown(old, wd) \in Matrix /\ old[Rows - 1] \in Word
<1>1. Rows \in Nat /\ Rows > 0
  BY MatrixAssumption
<1>2. ASSUME NEW r \in Row PROVE (IF r = 0 THEN wd ELSE old[r - 1]) \in Word
  <2>1. r # 0 => r - 1 \in Row
    BY <1>1 DEF Row
  <2> QED
    BY <2>1 DEF Matrix
<1>3. Rows - 1 \in Row
  BY <1>1 DEF Row
<1> QED
  BY <1>2, <1>3 DEF OneDown, Matrix

(* Which functions there are.                                              *)
LEMMA FnKinds ==
    ASSUME NEW op \in DriverCalls
    PROVE  \/ op.fn = "load_application" /\ op.app \in Apps
           \/ op.fn = "trigger" \/ op.fn = "poll"
           \/ op.fn = "set_dout" /\ op.word \in Word
           \/ op.fn = "get_din" /\ op.row \in Row
  BY DEF DriverCalls, Trigger, Poll

(* Each of them does what is said above.                                   *)
LEMMA DoneIs ==
    ASSUME NEW m \in Machine, NEW op \in DriverCalls, NEW q, q = Done(op, m)
    PROVE  /\ op.fn = "load_application" => LoadDone(m, op.app, q)
           /\ op.fn = "trigger" /\ m.app = "hits" => HitsDone(m, q)
           /\ op.fn = "trigger" /\ m.app = "latcher" => q = m
           /\ op.fn = "trigger" /\ m.app \in Shifters /\ ~m.started => StartDone(m, q)
           /\ op.fn = "trigger" /\ m.app \in Shifters /\ m.started => RowDone(m, q)
           /\ op.fn = "poll" => q = m
           /\ op.fn = "set_dout" => DoutDone(m, op.word, q)
           /\ op.fn = "get_din" => DinDone(m, op.row, q)
           /\ q \in Machine
<1>1. /\ m.app \in Apps /\ m.started \in BOOLEAN
      /\ m.rows \in [Counter -> Matrix]
      /\ m.dout \in Word /\ m.din \in Word /\ m.readout \in Matrix
      /\ m = [app |-> m.app, started |-> m.started, rows |-> m.rows,
              dout |-> m.dout, din |-> m.din, readout |-> m.readout]
  BY MachineParts
<1>2. CASE op.fn = "load_application"
  <2>1. q = [m EXCEPT !.app = op.app, !.started = FALSE] /\ op.app \in Apps
    BY <1>2, FnKinds DEF Done
  <2>2. LoadDone(m, op.app, q) /\ q \in Machine
    BY <1>1, <2>1 DEF LoadDone, Machine
  <2> QED
    BY <1>2, <2>2
<1>3. CASE op.fn = "trigger" /\ m.app = "hits"
  <2>1. q = [m EXCEPT !.rows = Hits]
    BY <1>3 DEF Done, Shifters
  <2>2. HitsDone(m, q) /\ q \in Machine
    BY <1>1, <2>1, MatrixAssumption DEF HitsDone, Machine
  <2> QED
    BY <1>3, <2>2 DEF Shifters
<1>4. CASE op.fn = "trigger" /\ m.app = "latcher"
  <2>1. q = m
    BY <1>4 DEF Done, Shifters
  <2> QED
    BY <1>4, <2>1 DEF Shifters
<1>5. CASE op.fn = "trigger" /\ m.app \in Shifters /\ ~m.started
  <2>a. m.app # "hits" /\ m.app # "latcher" /\ op.fn # "load_application"
    BY <1>5 DEF Shifters
  <2>1. q = [m EXCEPT !.started = TRUE]
    BY <1>5, <2>a DEF Done
  <2>2. StartDone(m, q) /\ q \in Machine
    BY <1>1, <2>1 DEF StartDone, Machine
  <2> QED
    BY <1>5, <2>2 DEF Shifters
<1>6. CASE op.fn = "trigger" /\ m.app \in Shifters /\ m.started
  <2> DEFINE down == OneDown(m.rows[m.app], m.dout)
             out == m.rows[m.app][Rows - 1]
  <2>a. m.app # "hits" /\ m.app # "latcher" /\ op.fn # "load_application"
    BY <1>6 DEF Shifters
  <2>1. q = [m EXCEPT !.rows = [m.rows EXCEPT ![m.app] = down], !.din = out]
    BY <1>6, <2>a DEF Done
  <2>2. down \in Matrix /\ out \in Word
    <3>1. m.rows[m.app] \in Matrix
      BY <1>1, <1>6 DEF Shifters, Counter
    <3> QED
      BY <1>1, <3>1, OneDownMatrix
  <2>3. RowDone(m, q)
    <3>1. /\ q.app = m.app /\ q.started = TRUE /\ q.dout = m.dout /\ q.readout = m.readout
          /\ q.rows = [m.rows EXCEPT ![m.app] = down] /\ q.din = out
      <4> HIDE DEF down, out
      <4> QED
        BY <1>1, <1>6, <2>1
    <3> QED
      BY <3>1 DEF RowDone
  <2>4. q \in Machine
    <3> HIDE DEF down, out
    <3>1. [m.rows EXCEPT ![m.app] = down] \in [Counter -> Matrix]
      BY <1>1, <2>2
    <3> DEFINE rows2 == [m.rows EXCEPT ![m.app] = down]
    <3>2. q = [m EXCEPT !.rows = rows2, !.din = out] /\ rows2 \in [Counter -> Matrix]
      BY <2>1, <3>1
    <3> HIDE DEF rows2
    <3> QED
      BY <1>1, <2>2, <3>2 DEF Machine
  <2> QED
    BY <1>6, <2>3, <2>4 DEF Shifters
<1>7. CASE op.fn = "poll"
  <2>1. q = m
    BY <1>7 DEF Done
  <2> QED
    BY <1>7, <2>1
<1>8. CASE op.fn = "set_dout"
  <2>1. q = [m EXCEPT !.dout = op.word] /\ op.word \in Word
    BY <1>8, FnKinds DEF Done
  <2>2. DoutDone(m, op.word, q) /\ q \in Machine
    BY <1>1, <2>1 DEF DoutDone, Machine
  <2> QED
    BY <1>8, <2>2
<1>9. CASE op.fn = "get_din"
  <2> DEFINE out == [m.readout EXCEPT ![op.row] = m.din]
  <2>1. q = [m EXCEPT !.readout = out] /\ op.row \in Row
    BY <1>9, FnKinds DEF Done
  <2>2. out \in Matrix
    BY <1>1 DEF Matrix
  <2>3. DinDone(m, op.row, q) /\ q \in Machine
    <3>1. /\ q.app = m.app /\ q.started = m.started /\ q.rows = m.rows /\ q.dout = m.dout
          /\ q.din = m.din /\ q.readout = out /\ q \in Machine
      <4> HIDE DEF out
      <4> QED
        BY <1>1, <2>1, <2>2 DEF Machine
    <3> QED
      BY <3>1 DEF DinDone
  <2> QED
    BY <1>9, <2>3
<1> QED
  BY <1>1, <1>2, <1>3, <1>4, <1>5, <1>6, <1>7, <1>8, <1>9, FnKinds DEF Apps, Shifters, Pulsers

-----------------------------------------------------------------------------
(* What the calls made should lead to, as due says.                        *)
Goal(d) == d.counters \in [Counter -> Matrix] /\ d.readout \in Matrix

(* A row more in the counter, and a row less of what it held before.       *)
LEMMA RowsStep ==
    ASSUME NEW m \in Machine, NEW q \in Machine, NEW d, Goal(d), NEW c \in Shifters,
           NEW n \in 0 .. Rows - 1, RowDone(m, q), m.app = c
    PROVE  /\ RowsIn(m, c, n, d) /\ m.dout = d.counters[c][Rows - 1 - n] =>
                  RowsIn(q, c, n + 1, d)
           /\ RowsOut(m, c, n, d) =>
                  RowsOut(q, c, n + 1, d) /\ q.din = d.readout[Rows - 1 - n]
<1>1. Rows \in Nat /\ Rows > 0 /\ n \in Nat /\ n <= Rows - 1
  BY MatrixAssumption
<1>2. m.rows \in [Counter -> Matrix] /\ c \in Counter /\ m.dout \in Word
  BY MachineParts DEF Shifters, Counter
<1>3. /\ q.dout = m.dout /\ q.din = m.rows[c][Rows - 1]
      /\ q.rows = [m.rows EXCEPT ![c] = OneDown(m.rows[c], m.dout)]
  BY DEF RowDone
<1>4. /\ q.rows[c] = OneDown(m.rows[c], m.dout)
      /\ \A o \in Counter : o # c => q.rows[o] = m.rows[o]
  BY <1>2, <1>3
<1>5. \A r \in Row : q.rows[c][r] = IF r = 0 THEN m.dout ELSE m.rows[c][r - 1]
  BY <1>4 DEF OneDown
<1>6. ASSUME RowsIn(m, c, n, d), m.dout = d.counters[c][Rows - 1 - n]
      PROVE  RowsIn(q, c, n + 1, d)
  <2>1. ASSUME NEW r \in Row, r < n + 1
        PROVE  q.rows[c][r] = d.counters[c][r + Rows - (n + 1)]
    <3>1. CASE r = 0
      <4>1. r + Rows - (n + 1) = Rows - 1 - n
        BY <1>1, <3>1
      <4> QED
        BY <1>5, <1>6, <3>1, <4>1
    <3>2. CASE r # 0
      <4>1. r - 1 \in Row /\ r - 1 < n /\ (r - 1) + Rows - n = r + Rows - (n + 1)
        BY <1>1, <2>1, <3>2 DEF Row
      <4>2. m.rows[c][r - 1] = d.counters[c][(r - 1) + Rows - n]
        BY <1>6, <4>1 DEF RowsIn
      <4> QED
        BY <1>5, <3>2, <4>1, <4>2
    <3> QED
      BY <3>1, <3>2
  <2>2. \A o \in Counter : o # c => q.rows[o] = d.counters[o]
    BY <1>4, <1>6 DEF RowsIn
  <2> QED
    BY <2>1, <2>2 DEF RowsIn
<1>7. ASSUME RowsOut(m, c, n, d)
      PROVE  RowsOut(q, c, n + 1, d) /\ q.din = d.readout[Rows - 1 - n]
  <2>1. d.counters[c] = Filled(q.dout)
    BY <1>3, <1>7 DEF RowsOut
  <2>2. ASSUME NEW r \in Row, r >= n + 1 PROVE q.rows[c][r] = d.readout[r - (n + 1)]
    <3>1. r # 0 /\ r - 1 \in Row /\ r - 1 >= n /\ (r - 1) - n = r - (n + 1)
      BY <1>1, <2>2 DEF Row
    <3>2. m.rows[c][r - 1] = d.readout[(r - 1) - n]
      BY <1>7, <3>1 DEF RowsOut
    <3> QED
      BY <1>5, <3>1, <3>2
  <2>3. q.din = d.readout[Rows - 1 - n]
    <3>1. Rows - 1 \in Row /\ Rows - 1 >= n
      BY <1>1 DEF Row
    <3>2. m.rows[c][Rows - 1] = d.readout[(Rows - 1) - n]
      BY <1>7, <3>1 DEF RowsOut
    <3> QED
      BY <1>3, <3>2
  <2> QED
    BY <2>1, <2>2, <2>3 DEF RowsOut
<1> QED
  BY <1>6, <1>7

(* A row more that has been read.                                          *)
LEMMA ReadStep ==
    ASSUME NEW m \in Machine, NEW q \in Machine, NEW d, Goal(d),
           NEW n \in 0 .. Rows - 1, RowsRead(m, n, d), m.din = d.readout[Rows - 1 - n],
           DinDone(m, Rows - 1 - n, q)
    PROVE  RowsRead(q, n + 1, d)
<1>1. Rows \in Nat /\ Rows > 0 /\ n \in Nat /\ n <= Rows - 1 /\ Rows - 1 - n \in Row
  BY MatrixAssumption DEF Row
<1>2. /\ m.readout = [r \in Row |-> IF r >= Rows - n THEN d.readout[r] ELSE NoRows[r]]
      /\ q.readout = [m.readout EXCEPT ![Rows - 1 - n] = m.din]
  BY DEF RowsRead, DinDone
<1>3. ASSUME NEW r \in Row
      PROVE  q.readout[r] = IF r >= Rows - (n + 1) THEN d.readout[r] ELSE NoRows[r]
  <2>1. r \in Nat
    BY DEF Row
  <2>2. CASE r = Rows - 1 - n
    <3>1. q.readout[r] = m.din
      BY <1>2, <2>2
    <3>2. r >= Rows - (n + 1)
      BY <1>1, <2>2
    <3> QED
      BY <2>2, <3>1, <3>2
  <2>3. CASE r # Rows - 1 - n
    <3>1. q.readout[r] = m.readout[r]
      BY <1>2, <2>3
    <3>2. r >= Rows - (n + 1) <=> r >= Rows - n
      BY <1>1, <2>1, <2>3
    <3> QED
      BY <1>2, <3>1, <3>2
  <2> QED
    BY <2>2, <2>3
<1>4. q.readout = [r \in Row |-> q.readout[r]]
  BY <1>2
<1> QED
  BY <1>3, <1>4 DEF RowsRead

(* All rows, and none.                                                     *)
LEMMA RowsAll ==
    ASSUME NEW m \in Machine, NEW d, Goal(d), NEW c \in Shifters
    PROVE  /\ RowsIn(m, c, Rows, d) => m.rows = d.counters
           /\ RowsRead(m, Rows, d) => m.readout = d.readout
           /\ m.readout = NoRows => RowsRead(m, 0, d)
<1>1. Rows \in Nat
  BY MatrixAssumption
<1>2. m.rows \in [Counter -> Matrix] /\ m.readout \in Matrix
  BY MachineParts
<1>3. ASSUME RowsIn(m, c, Rows, d) PROVE m.rows = d.counters
  <2>1. ASSUME NEW r \in Row PROVE m.rows[c][r] = d.counters[c][r]
    <3>1. r < Rows /\ r + Rows - Rows = r
      BY <1>1 DEF Row
    <3> QED
      BY <1>3, <3>1 DEF RowsIn
  <2>2. m.rows[c] \in Matrix /\ d.counters[c] \in Matrix
    BY <1>2 DEF Goal, Shifters, Counter
  <2>3. m.rows[c] = d.counters[c]
    BY <2>1, <2>2 DEF Matrix
  <2>4. \A o \in Counter : m.rows[o] = d.counters[o]
    BY <1>3, <2>3 DEF RowsIn
  <2> QED
    BY <1>2, <2>4 DEF Goal
<1>4. ASSUME RowsRead(m, Rows, d) PROVE m.readout = d.readout
  <2>1. \A r \in Row : r >= Rows - Rows
    BY <1>1 DEF Row
  <2>2. m.readout = [r \in Row |-> d.readout[r]]
    BY <1>4, <2>1 DEF RowsRead
  <2> QED
    BY <2>2 DEF Goal, Matrix
<1>5. ASSUME m.readout = NoRows PROVE RowsRead(m, 0, d)
  <2>1. \A r \in Row : ~(r >= Rows - 0)
    BY <1>1 DEF Row
  <2>2. NoRows = [r \in Row |-> NoRows[r]]
    BY DEF NoRows, Filled
  <2> QED
    BY <1>5, <2>1, <2>2 DEF RowsRead
<1> QED
  BY <1>3, <1>4, <1>5

(* They depend on a few fields only.                                       *)
LEMMA RowsSame ==
    ASSUME NEW m, NEW q, NEW d, NEW c, NEW n, q.rows = m.rows, q.readout = m.readout
    PROVE  /\ RowsIn(m, c, n, d) => RowsIn(q, c, n, d)
           /\ q.dout = m.dout /\ RowsOut(m, c, n, d) => RowsOut(q, c, n, d)
           /\ RowsRead(m, n, d) => RowsRead(q, n, d)
           /\ Over(m, d) => Over(q, d)
  BY DEF RowsIn, RowsOut, RowsRead, Over

(* What comes later does not depend on the rows either.                    *)
LEMMA LaterSame ==
    ASSUME NEW m, NEW q, NEW d, NEW c, NEW wd, q.readout = m.readout, Later(m, c, wd, d)
    PROVE  Later(q, c, wd, d)
  BY DEF Later

-----------------------------------------------------------------------------
(* How what is left of a call goes on, one driver function at a time.      *)
Untouched(m, q) ==
    q.rows = m.rows /\ q.dout = m.dout /\ q.din = m.din /\ q.readout = m.readout

(* The first function of s is done, and m has become q.                    *)
Steps(s, m, q) ==
    /\ s \in Seq(DriverCalls) /\ s # <<>> /\ m \in Machine
    /\ q = Done(Head(s), m)

(* What the first function has done.                                       *)
Did(x, m, q) ==
    /\ x.fn = "load_application" => LoadDone(m, x.app, q)
    /\ x.fn = "trigger" /\ m.app = "hits" => HitsDone(m, q)
    /\ x.fn = "trigger" /\ m.app = "latcher" => q = m
    /\ x.fn = "trigger" /\ m.app \in Shifters /\ ~m.started => StartDone(m, q)
    /\ x.fn = "trigger" /\ m.app \in Shifters /\ m.started => RowDone(m, q)
    /\ x.fn = "poll" => q = m
    /\ x.fn = "set_dout" => DoutDone(m, x.word, q)
    /\ x.fn = "get_din" => DinDone(m, x.row, q)
    /\ q \in Machine

(* A step of x, before t.                                                  *)
LEMMA StepOf ==
    ASSUME NEW s, NEW m \in Machine, NEW q, NEW x \in DriverCalls,
           NEW t \in Seq(DriverCalls), Steps(s, m, q), s = Then(x, t)
    PROVE  Tail(s) = t /\ Did(x, m, q)
<1>1. Head(s) = x /\ Tail(s) = t
  BY StartsWith
<1>2. q = Done(x, m)
  BY <1>1 DEF Steps
<1>3. Did(x, m, q)
  BY <1>2, DoneIs DEF Did
<1> QED
  BY <1>1, <1>3

(* The load of a shifter, its first trigger and the poll for it.           *)
LEMMA OpensStep ==
    ASSUME NEW m \in Machine, NEW q, NEW s, Steps(s, m, q), NEW c \in Shifters,
           NEW t \in Seq(DriverCalls), Opens(s, m, c, t)
    PROVE  /\ Untouched(m, q)
           /\ Opens(Tail(s), q, c, t) \/ (Tail(s) = t /\ Running(q, c))
<1>1. /\ Load(c) \in DriverCalls /\ Load(c).fn = "load_application" /\ Load(c).app = c
      /\ Trigger \in DriverCalls /\ Trigger.fn = "trigger"
      /\ Poll \in DriverCalls /\ Poll.fn = "poll"
  BY DriverFns DEF Apps
<1> DEFINE u == Then(Trigger, Then(Poll, t))
           v == Then(Poll, t)
           x == Load(c)
<1>2. u \in Seq(DriverCalls) /\ v \in Seq(DriverCalls)
  BY PiecesAreCalls
<1>3. CASE s = Then(x, u)
  <2>1. Tail(s) = u /\ LoadDone(m, c, q)
    <3> HIDE DEF x, u
    <3>1. x \in DriverCalls /\ x.fn = "load_application" /\ x.app = c
      BY <1>1 DEF x
    <3> QED
      BY <1>2, <1>3, <3>1, StepOf DEF Did
  <2> QED
    BY <2>1 DEF LoadDone, Untouched, Opens
<1>4. CASE s = u /\ m.app = c /\ ~m.started
  <2>1. Tail(s) = v /\ StartDone(m, q)
    <3>1. s = Then(Trigger, v)
      BY <1>4
    <3> HIDE DEF v
    <3>2. Tail(s) = v /\ Did(Trigger, m, q)
      BY <1>1, <1>2, <3>1, StepOf
    <3> QED
      BY <1>1, <1>4, <3>2 DEF Did
  <2> QED
    BY <1>4, <2>1 DEF StartDone, Untouched, Opens
<1>5. CASE s = v /\ m.app = c /\ m.started
  <2>1. Tail(s) = t /\ q = m
    BY <1>1, <1>5, StepOf DEF Did
  <2> QED
    BY <1>5, <2>1 DEF Untouched, Running
<1> QED
  BY <1>3, <1>4, <1>5 DEF Opens, Opening

(* The load of a pulse program and its trigger.                            *)
LEMMA PulsingStep ==
    ASSUME NEW m \in Machine, NEW q, NEW s, Steps(s, m, q), NEW app \in Pulsers,
           NEW t \in Seq(DriverCalls), Pulsing(s, m, app, t)
    PROVE  \/ Untouched(m, q) /\ Pulsing(Tail(s), q, app, t)
           \/ Tail(s) = t /\ m.app = app /\ app = "latcher" /\ q = m
           \/ Tail(s) = t /\ app = "hits" /\ HitsDone(m, q)
<1>1. /\ Load(app) \in DriverCalls /\ Load(app).fn = "load_application"
      /\ Load(app).app = app
      /\ Trigger \in DriverCalls /\ Trigger.fn = "trigger"
  BY DriverFns DEF Apps
<1> DEFINE u == Then(Trigger, t)
           x == Load(app)
<1>2. u \in Seq(DriverCalls)
  BY <1>1, StartsWith
<1>3. CASE s = Then(x, u)
  <2>1. Tail(s) = u /\ LoadDone(m, app, q)
    <3> HIDE DEF x, u
    <3>1. x \in DriverCalls /\ x.fn = "load_application" /\ x.app = app
      BY <1>1 DEF x
    <3> QED
      BY <1>2, <1>3, <3>1, StepOf DEF Did
  <2> QED
    BY <2>1 DEF LoadDone, Untouched, Pulsing
<1>4. CASE s = u /\ m.app = app
  <2>1. /\ Tail(s) = t
        /\ app = "hits" => HitsDone(m, q)
        /\ app = "latcher" => q = m
    <3>1. Tail(s) = t /\ Did(Trigger, m, q)
      BY <1>1, <1>4, StepOf
    <3> QED
      BY <1>1, <1>4, <3>1 DEF Did
  <2> QED
    BY <1>4, <2>1 DEF Pulsers
<1> QED
  BY <1>3, <1>4 DEF Pulsing, PulseOf

(* The last pulse of a call.                                               *)
LEMMA FinishingStep ==
    ASSUME NEW m \in Machine, NEW q, NEW s, Steps(s, m, q), NEW d, Goal(d),
           Finishing(s, m, d)
    PROVE  Finishing(Tail(s), q, d)
<1>1. Over(m, d) /\ Pulsing(s, m, "latcher", <<>>)
  BY DEF Finishing, Steps
<1>2. <<>> \in Seq(DriverCalls) /\ "latcher" \in Pulsers /\ "latcher" # "hits"
  BY EmptySeq DEF Pulsers
<1>3. CASE Untouched(m, q) /\ Pulsing(Tail(s), q, "latcher", <<>>)
  BY <1>1, <1>3 DEF Untouched, Over, Finishing
<1>4. CASE Tail(s) = <<>> /\ m.app = "latcher" /\ q = m
  BY <1>1, <1>4 DEF Finishing
<1> DEFINE none == <<>>
<1> HIDE DEF none
<1>5. none \in Seq(DriverCalls) /\ Pulsing(s, m, "latcher", none)
  BY <1>1, <1>2 DEF none
<1>6. \/ Untouched(m, q) /\ Pulsing(Tail(s), q, "latcher", none)
      \/ Tail(s) = none /\ m.app = "latcher" /\ "latcher" = "latcher" /\ q = m
      \/ Tail(s) = none /\ "latcher" = "hits" /\ HitsDone(m, q)
  BY <1>2, <1>5, PulsingStep
<1> QED
  BY <1>2, <1>3, <1>4, <1>6 DEF none

(* The pulse whose hits are read.                                          *)
LEMMA MeasuringStep ==
    ASSUME NEW m \in Machine, NEW q, NEW s, Steps(s, m, q), NEW d, Goal(d),
           Measuring(s, m, d)
    PROVE  Measuring(Tail(s), q, d) \/ \E c \in Shifters : Reading(Tail(s), q, d, c)
<1>1. "latcher" \in Pulsers /\ "hits" \in Pulsers /\ "a" \in Shifters /\ "latcher" # "hits"
  BY DEF Pulsers, Shifters
<1>2. \A c \in Shifters : /\ read_counters(c) \in Seq(DriverCalls)
                          /\ read(c) \in Seq(DriverCalls)
                          /\ read_counters(c) = Opening(c, ReadFrom(0))
                          /\ read(c) = PulseOf("hits", read_counters(c))
  BY ReadShape
<1>3. ASSUME NEW c \in Shifters, Pulsing(s, m, "hits", read_counters(c)),
             Later(m, c, m.dout, d)
      PROVE  Measuring(Tail(s), q, d) \/ Reading(Tail(s), q, d, c)
  <2>1. CASE Untouched(m, q) /\ Pulsing(Tail(s), q, "hits", read_counters(c))
    <3>1. Later(q, c, q.dout, d)
      BY <1>3, <2>1, LaterSame DEF Untouched
    <3> QED
      BY <2>1, <3>1 DEF Measuring
  <2>2. CASE Tail(s) = read_counters(c) /\ HitsDone(m, q)
    <3>1. /\ q.rows = Hits /\ q.dout = m.dout /\ q.readout = NoRows
          /\ d.counters = [Hits EXCEPT ![c] = Filled(m.dout)] /\ d.readout = Hits[c]
      BY <1>3, <2>2 DEF HitsDone, Later
    <3>2. c \in Counter /\ Hits \in [Counter -> Matrix] /\ Rows \in Nat
      BY MatrixAssumption DEF Shifters, Counter
    <3>3. d.counters[c] = Filled(q.dout) /\ \A o \in Counter : o # c => d.counters[o] = Hits[o]
      BY <3>1, <3>2
    <3>4. RowsIn(q, c, 0, d)
      <4>1. \A r \in Row : ~(r < 0)
        BY <3>2 DEF Row
      <4> QED
        BY <3>1, <3>3, <4>1 DEF RowsIn
    <3>5. RowsOut(q, c, 0, d)
      <4>1. \A r \in Row : r - 0 = r
        BY <3>2 DEF Row
      <4> QED
        BY <3>1, <3>3, <4>1 DEF RowsOut
    <3>6. q \in Machine
      BY <2>2, DoneIs, HeadTailProperties DEF Steps
    <3>7. RowsRead(q, 0, d)
      BY <3>1, <3>6, RowsAll
    <3>8. Opens(Tail(s), q, c, ReadFrom(0))
      BY <1>2, <2>2 DEF Opens
    <3> QED
      BY <3>4, <3>5, <3>7, <3>8 DEF Reading
  <2> QED
    BY <1>1, <1>2, <1>3, <2>1, <2>2, PulsingStep
<1>4. ASSUME Pulsing(s, m, "latcher", read("a")), Later(m, "a", m.dout, d)
      PROVE  Measuring(Tail(s), q, d)
  <2>1. CASE Untouched(m, q) /\ Pulsing(Tail(s), q, "latcher", read("a"))
    <3>1. Later(q, "a", q.dout, d)
      BY <1>4, <2>1, LaterSame DEF Untouched
    <3> QED
      BY <2>1, <3>1 DEF Measuring
  <2>2. CASE Tail(s) = read("a") /\ q = m
    <3>1. Pulsing(Tail(s), q, "hits", read_counters("a"))
      BY <1>1, <1>2, <2>2 DEF Pulsing
    <3> QED
      BY <1>1, <1>4, <2>2, <3>1 DEF Measuring
  <2> QED
    BY <1>1, <1>2, <1>4, <2>1, <2>2, PulsingStep
<1> QED
  BY <1>3, <1>4 DEF Measuring

(* Reading the rows of a counter.                                          *)
LEMMA ReadingStep ==
    ASSUME NEW m \in Machine, NEW q, NEW s, Steps(s, m, q), NEW d, Goal(d),
           NEW c \in Shifters, Reading(s, m, d, c)
    PROVE  Reading(Tail(s), q, d, c) \/ Finishing(Tail(s), q, d)
<1>1. /\ Trigger \in DriverCalls /\ Trigger.fn = "trigger"
      /\ Poll \in DriverCalls /\ Poll.fn = "poll"
      /\ \A r \in Row : /\ GetDin(r) \in DriverCalls /\ GetDin(r).fn = "get_din"
                        /\ GetDin(r).row = r
  BY DriverFns DEF GetDin
<1>2. /\ Rows \in Nat /\ Rows > 0 /\ 0 \in 0 .. Rows - 1
      /\ \A n \in 0 .. Rows : ReadFrom(n) \in Seq(DriverCalls)
  BY MatrixAssumption, ReadFromSeq
<1>3. ASSUME Opens(s, m, c, ReadFrom(0)), RowsIn(m, c, 0, d), RowsOut(m, c, 0, d),
             RowsRead(m, 0, d)
      PROVE  Reading(Tail(s), q, d, c)
  <2>1. /\ Untouched(m, q)
        /\ Opens(Tail(s), q, c, ReadFrom(0)) \/ (Tail(s) = ReadFrom(0) /\ Running(q, c))
    <3>1. ReadFrom(0) \in Seq(DriverCalls)
      BY <1>2
    <3> QED
      BY <1>3, <3>1, OpensStep
  <2>2. RowsIn(q, c, 0, d) /\ RowsOut(q, c, 0, d) /\ RowsRead(q, 0, d)
    BY <1>3, <2>1, RowsSame DEF Untouched
  <2>3. CASE Opens(Tail(s), q, c, ReadFrom(0))
    BY <2>2, <2>3 DEF Reading
  <2>4. CASE Tail(s) = ReadFrom(0) /\ Running(q, c)
    BY <1>2, <2>2, <2>4 DEF Reading
  <2> QED
    BY <2>1, <2>3, <2>4
<1>4. ASSUME NEW n \in 0 .. Rows - 1, s = ReadFrom(n), Running(m, c),
             RowsIn(m, c, n, d), RowsOut(m, c, n, d), RowsRead(m, n, d)
      PROVE  Reading(Tail(s), q, d, c)
  <2>1. n + 1 \in 0 .. Rows /\ Rows - 1 - n \in Row
    BY RoundNumbers
  <2> DEFINE u == Then(GetDin(Rows - 1 - n), ReadFrom(n + 1))
             v == Then(Poll, u)
  <2>2. s = Then(Trigger, v)
    BY <1>4, ReadFromNext
  <2>3. v \in Seq(DriverCalls)
    <3>1. u \in Seq(DriverCalls)
      BY <1>1, <1>2, <2>1, StartsWith
    <3> HIDE DEF u
    <3> QED
      BY <1>1, <3>1, StartsWith
  <2>4. Tail(s) = v /\ RowDone(m, q) /\ q \in Machine
    <3> HIDE DEF v
    <3>1. Tail(s) = v /\ Did(Trigger, m, q)
      BY <1>1, <2>2, <2>3, StepOf
    <3> QED
      BY <1>1, <1>4, <3>1 DEF Did, Running
  <2>5. m.dout = d.counters[c][Rows - 1 - n]
    BY <1>4, <2>1 DEF RowsOut, Filled
  <2>6. m.app = c
    BY <1>4 DEF Running
  <2>7. RowsIn(q, c, n + 1, d) /\ RowsOut(q, c, n + 1, d) /\ q.din = d.readout[Rows - 1 - n]
    BY <1>4, <2>4, <2>5, <2>6, RowsStep
  <2>8. Running(q, c) /\ RowsRead(q, n, d)
    BY <1>4, <2>4 DEF Running, RowDone, RowsRead
  <2> QED
    BY <2>4, <2>7, <2>8 DEF Reading
<1>5. ASSUME NEW n \in 0 .. Rows - 1,
             \/ s = Then(Poll, Then(GetDin(Rows - 1 - n), ReadFrom(n + 1)))
             \/ s = Then(GetDin(Rows - 1 - n), ReadFrom(n + 1)),
             Running(m, c), m.din = d.readout[Rows - 1 - n],
             RowsIn(m, c, n + 1, d), RowsOut(m, c, n + 1, d), RowsRead(m, n, d)
      PROVE  Reading(Tail(s), q, d, c) \/ Finishing(Tail(s), q, d)
  <2>1. n + 1 \in 0 .. Rows /\ Rows - 1 - n \in Row
    BY RoundNumbers
  <2> DEFINE x == GetDin(Rows - 1 - n)
             u == ReadFrom(n + 1)
             v == Then(x, u)
  <2>2. x \in DriverCalls /\ x.fn = "get_din" /\ x.row = Rows - 1 - n
    BY <1>1, <2>1
  <2>3. u \in Seq(DriverCalls)
    BY <1>2, <2>1
  <2>4. v \in Seq(DriverCalls)
    <3> HIDE DEF x, u
    <3> QED
      BY <2>2, <2>3, StartsWith
  <2>5. CASE s = Then(Poll, v)
    <3>1. Tail(s) = v /\ q = m
      <4> HIDE DEF v
      <4>1. Tail(s) = v /\ Did(Poll, m, q)
        BY <1>1, <2>4, <2>5, StepOf
      <4> QED
        BY <1>1, <4>1 DEF Did
    <3> QED
      BY <1>5, <3>1 DEF Reading
  <2>6. CASE s = v
    <3>1. Tail(s) = u /\ DinDone(m, Rows - 1 - n, q) /\ q \in Machine
      <4> HIDE DEF x, u
      <4>1. Tail(s) = u /\ Did(x, m, q)
        BY <2>2, <2>3, <2>6, StepOf
      <4> QED
        BY <2>2, <4>1 DEF Did
    <3>2. RowsRead(q, n + 1, d)
      BY <1>5, <3>1, ReadStep
    <3>3. Running(q, c) /\ RowsIn(q, c, n + 1, d) /\ RowsOut(q, c, n + 1, d)
      BY <1>5, <3>1 DEF DinDone, Running, RowsIn, RowsOut
    <3>4. CASE n + 1 \in 0 .. Rows - 1
      BY <3>1, <3>2, <3>3, <3>4 DEF Reading
    <3>5. CASE n + 1 \notin 0 .. Rows - 1
      <4>1. n + 1 = Rows
        BY <1>2, <2>1, <3>5
      <4>2. Tail(s) = <<>>
        BY <3>1, <4>1, RowsDone
      <4>3. q.rows = d.counters /\ q.readout = d.readout
        BY <3>1, <3>2, <3>3, <4>1, RowsAll
      <4>4. q.app # "hits"
        BY <3>3 DEF Running, Shifters
      <4> QED
        BY <4>2, <4>3, <4>4 DEF Finishing, Over
    <3> QED
      BY <3>4, <3>5
  <2> QED
    BY <1>5, <2>5, <2>6
<1> QED
  BY <1>3, <1>4, <1>5 DEF Reading

(* A row of a value.                                                       *)
LEMMA FillsStep ==
    ASSUME NEW m \in Machine, NEW q \in Machine, NEW d, Goal(d), NEW c \in Shifters,
           NEW n \in 0 .. Rows - 1, NEW t, RowDone(m, q), m.app = c,
           Fills(m, c, m.dout, t, n, d)
    PROVE  Fills(q, c, q.dout, t, n + 1, d)
<1>1. q.dout = m.dout /\ q.readout = m.readout
  BY DEF RowDone
<1>2. CASE t = latch_configs /\ d.counters[c] = Filled(m.dout) /\ RowsIn(m, c, n, d)
           /\ m.readout = d.readout
  <2>1. Rows - 1 - n \in Row
    BY RoundNumbers
  <2>2. m.dout = d.counters[c][Rows - 1 - n]
    BY <1>2, <2>1 DEF Filled
  <2>3. RowsIn(q, c, n + 1, d)
    BY <1>2, <2>2, RowsStep
  <2> QED
    BY <1>1, <1>2, <2>3 DEF Fills
<1>3. CASE t = latch_configs \o read("a") /\ c = "b" /\ Later(m, "a", m.dout, d)
  BY <1>1, <1>3, LaterSame DEF Fills
<1>4. CASE c = "a" /\ \E b \in Word :
              /\ t = write_value("b", b) \o (latch_configs \o read("a"))
              /\ Later(m, "a", b, d)
  BY <1>1, <1>4, LaterSame DEF Fills
<1> QED
  BY <1>2, <1>3, <1>4 DEF Fills

(* The fields it depends on.                                               *)
LEMMA FillsSame ==
    ASSUME NEW m, NEW q, NEW d, NEW c, NEW n, NEW t, NEW wd,
           q.rows = m.rows, q.readout = m.readout, Fills(m, c, wd, t, n, d)
    PROVE  Fills(q, c, wd, t, n, d)
  BY DEF Fills, RowsIn, Later

(* A value has been written to all rows.                                   *)
LEMMA FillsDone ==
    ASSUME NEW m \in Machine, NEW d, Goal(d), NEW c \in Shifters, NEW t \in Seq(DriverCalls),
           Fills(m, c, m.dout, t, Rows, d)
    PROVE  \/ Finishing(t, m, d) \/ Measuring(t, m, d)
           \/ \E r \in Seq(DriverCalls) : Filling(t, m, d, "b", r)
<1>1. "a" \in Shifters /\ "b" \in Shifters
  BY DEF Shifters
<1>2. read("a") \in Seq(DriverCalls)
  BY <1>1, ReadShape
<1> DEFINE r == latch_configs \o read("a")
<1>3. r = PulseOf("latcher", read("a")) /\ r \in Seq(DriverCalls)
  <2>1. r = PulseOf("latcher", read("a"))
    BY <1>2, LatchShape
  <2>2. PulseOf("latcher", read("a")) \in Seq(DriverCalls)
    BY <1>1, <1>2, PiecesAreCalls DEF Apps, Pulsers
  <2> QED
    BY <2>1, <2>2
<1>4. CASE t = latch_configs /\ d.counters[c] = Filled(m.dout) /\ RowsIn(m, c, Rows, d)
           /\ m.readout = d.readout
  <2>1. Over(m, d)
    BY <1>4, RowsAll DEF Over
  <2>2. Pulsing(t, m, "latcher", <<>>)
    BY <1>4, LatchShape DEF Pulsing
  <2> QED
    BY <2>1, <2>2 DEF Finishing
<1>5. CASE t = r /\ c = "b" /\ Later(m, "a", m.dout, d)
  BY <1>3, <1>5 DEF Measuring, Pulsing
<1>6. ASSUME NEW b \in Word, t = write_value("b", b) \o r, Later(m, "a", b, d)
      PROVE  Filling(t, m, d, "b", r)
  <2>1. PICK data : data \in Matrix
    BY MachineParts
  <2>2. t = Then(SetDout(b), Opening("b", ValueRest(0, r)))
    <3> HIDE DEF r
    <3> QED
      BY <1>1, <1>3, <1>6, <2>1, WriteShape
  <2>3. Fills(m, "b", b, r, 0, d)
    BY <1>6 DEF Fills
  <2> HIDE DEF r
  <2> QED
    BY <2>2, <2>3 DEF Filling
<1>7. Fills(m, c, m.dout, t, Rows, d)
  OBVIOUS
<1> QED
  BY <1>3, <1>4, <1>5, <1>6, <1>7 DEF Fills

(* Writing a value to the rows of a counter.                               *)
LEMMA FillingStep ==
    ASSUME NEW m \in Machine, NEW q, NEW s, Steps(s, m, q), NEW d, Goal(d),
           NEW c \in Shifters, NEW t \in Seq(DriverCalls), Filling(s, m, d, c, t)
    PROVE  \/ Filling(Tail(s), q, d, c, t)
           \/ Finishing(Tail(s), q, d) \/ Measuring(Tail(s), q, d)
           \/ \E r \in Seq(DriverCalls) : Filling(Tail(s), q, d, "b", r)
<1>1. /\ Trigger \in DriverCalls /\ Trigger.fn = "trigger"
      /\ Poll \in DriverCalls /\ Poll.fn = "poll"
      /\ \A wd \in Word : /\ SetDout(wd) \in DriverCalls /\ SetDout(wd).fn = "set_dout"
                          /\ SetDout(wd).word = wd
  BY DriverFns DEF SetDout
<1>2. /\ Rows \in Nat /\ Rows > 0 /\ 0 \in 0 .. Rows - 1 /\ 0 \in 0 .. Rows
  BY MatrixAssumption
<1>3. PICK data : data \in Matrix
  BY MachineParts
<1>4. /\ \A n \in 0 .. Rows : ValueRest(n, t) \in Seq(DriverCalls)
      /\ \A n \in 0 .. Rows - 1 :
             ValueRest(n, t) = Then(Trigger, Then(Poll, ValueRest(n + 1, t)))
      /\ ValueRest(Rows, t) = t
  BY <1>3, RestShapes
<1>5. ASSUME NEW wd \in Word, s = Then(SetDout(wd), Opening(c, ValueRest(0, t))),
             Fills(m, c, wd, t, 0, d)
      PROVE  Filling(Tail(s), q, d, c, t)
  <2> DEFINE x == SetDout(wd)
             u == Opening(c, ValueRest(0, t))
  <2>1. x \in DriverCalls /\ x.fn = "set_dout" /\ x.word = wd
    BY <1>1
  <2>2. u \in Seq(DriverCalls)
    BY <1>2, <1>4, PiecesAreCalls
  <2>3. Tail(s) = u /\ DoutDone(m, wd, q)
    <3> HIDE DEF x, u
    <3>1. s = Then(x, u)
      BY <1>5 DEF x, u
    <3>2. Tail(s) = u /\ Did(x, m, q)
      BY <2>1, <2>2, <3>1, StepOf
    <3> QED
      BY <2>1, <3>2 DEF Did
  <2>4. Fills(q, c, wd, t, 0, d) /\ q.dout = wd
    BY <1>5, <2>3, FillsSame DEF DoutDone
  <2>5. Opens(Tail(s), q, c, ValueRest(0, t))
    BY <2>3 DEF Opens
  <2> QED
    BY <2>4, <2>5 DEF Filling
<1>6. ASSUME Opens(s, m, c, ValueRest(0, t)), Fills(m, c, m.dout, t, 0, d)
      PROVE  Filling(Tail(s), q, d, c, t)
  <2>1. /\ Untouched(m, q)
        /\ \/ Opens(Tail(s), q, c, ValueRest(0, t))
           \/ Tail(s) = ValueRest(0, t) /\ Running(q, c)
    <3>1. ValueRest(0, t) \in Seq(DriverCalls)
      BY <1>2, <1>4
    <3> QED
      BY <1>6, <3>1, OpensStep
  <2>2. Fills(q, c, q.dout, t, 0, d)
    BY <1>6, <2>1, FillsSame DEF Untouched
  <2>3. CASE Opens(Tail(s), q, c, ValueRest(0, t))
    BY <2>2, <2>3 DEF Filling
  <2>4. CASE Tail(s) = ValueRest(0, t) /\ Running(q, c)
    BY <1>2, <2>2, <2>4 DEF Filling
  <2> QED
    BY <2>1, <2>3, <2>4
<1>7. ASSUME NEW n \in 0 .. Rows - 1, s = ValueRest(n, t), Running(m, c),
             Fills(m, c, m.dout, t, n, d)
      PROVE  Filling(Tail(s), q, d, c, t)
  <2>1. n + 1 \in 0 .. Rows
    BY RoundNumbers
  <2> DEFINE v == Then(Poll, ValueRest(n + 1, t))
  <2>2. v \in Seq(DriverCalls)
    BY <1>1, <1>4, <2>1, StartsWith
  <2>3. Tail(s) = v /\ RowDone(m, q) /\ q \in Machine
    <3>1. s = Then(Trigger, v)
      BY <1>4, <1>7
    <3> HIDE DEF v
    <3>2. Tail(s) = v /\ Did(Trigger, m, q)
      BY <1>1, <2>2, <3>1, StepOf
    <3> QED
      BY <1>1, <1>7, <3>2 DEF Did, Running
  <2>4. Fills(q, c, q.dout, t, n + 1, d)
    BY <1>7, <2>3, FillsStep DEF Running
  <2>5. Running(q, c)
    BY <1>7, <2>3 DEF Running, RowDone
  <2> QED
    BY <2>3, <2>4, <2>5 DEF Filling
<1>8. ASSUME NEW n \in 0 .. Rows - 1, s = Then(Poll, ValueRest(n + 1, t)), Running(m, c),
             Fills(m, c, m.dout, t, n + 1, d)
      PROVE  \/ Filling(Tail(s), q, d, c, t)
             \/ Finishing(Tail(s), q, d) \/ Measuring(Tail(s), q, d)
             \/ \E r \in Seq(DriverCalls) : Filling(Tail(s), q, d, "b", r)
  <2>1. n + 1 \in 0 .. Rows
    BY RoundNumbers
  <2> DEFINE u == ValueRest(n + 1, t)
  <2>2. Tail(s) = u /\ q = m
    <3>1. u \in Seq(DriverCalls)
      BY <1>4, <2>1
    <3> HIDE DEF u
    <3>2. s = Then(Poll, u)
      BY <1>8 DEF u
    <3>3. Tail(s) = u /\ Did(Poll, m, q)
      BY <1>1, <3>1, <3>2, StepOf
    <3> QED
      BY <1>1, <3>3 DEF Did
  <2>3. CASE n + 1 \in 0 .. Rows - 1
    BY <1>8, <2>2, <2>3 DEF Filling
  <2>4. CASE n + 1 \notin 0 .. Rows - 1
    <3>1. n + 1 = Rows
      BY <1>2, <2>1, <2>4
    <3>2. Tail(s) = t /\ Fills(q, c, q.dout, t, Rows, d)
      BY <1>4, <1>8, <2>2, <3>1
    <3> QED
      BY <2>2, <3>2, FillsDone
  <2> QED
    BY <2>3, <2>4
<1> QED
  BY <1>5, <1>6, <1>7, <1>8 DEF Filling

(* Writing a configuration, row by row.                                    *)
LEMMA ConfiguringStep ==
    ASSUME NEW m \in Machine, NEW q, NEW s, Steps(s, m, q), NEW d, Goal(d),
           NEW c \in Shifters, Configuring(s, m, d, c)
    PROVE  Configuring(Tail(s), q, d, c) \/ Finishing(Tail(s), q, d)
<1> DEFINE data == d.counters[c]
           left(n) == ConfigRest(n, data)
<1>1. /\ Trigger \in DriverCalls /\ Trigger.fn = "trigger"
      /\ Poll \in DriverCalls /\ Poll.fn = "poll"
      /\ \A wd \in Word : /\ SetDout(wd) \in DriverCalls /\ SetDout(wd).fn = "set_dout"
                          /\ SetDout(wd).word = wd
  BY DriverFns DEF SetDout
<1>2. /\ Rows \in Nat /\ Rows > 0 /\ 0 \in 0 .. Rows - 1 /\ 0 \in 0 .. Rows
  BY MatrixAssumption
<1>3. data \in Matrix
  BY DEF Goal, Shifters, Counter
<1>4. /\ \A n \in 0 .. Rows : left(n) \in Seq(DriverCalls)
      /\ \A n \in 0 .. Rows - 1 :
             left(n) = Then(SetDout(data[Rows - 1 - n]), Then(Trigger, Then(Poll, left(n + 1))))
      /\ left(Rows) = latch_configs
  <2>1. <<>> \in Seq(DriverCalls)
    BY EmptySeq
  <2> HIDE DEF data
  <2> QED
    BY <1>3, <2>1, RestShapes
<1>5. m.readout = d.readout
  BY DEF Configuring
<1>6. ASSUME Opens(s, m, c, left(0)), RowsIn(m, c, 0, d)
      PROVE  Configuring(Tail(s), q, d, c)
  <2>1. /\ Untouched(m, q)
        /\ Opens(Tail(s), q, c, left(0)) \/ (Tail(s) = left(0) /\ Running(q, c))
    <3>1. left(0) \in Seq(DriverCalls)
      BY <1>2, <1>4
    <3> HIDE DEF left
    <3> QED
      BY <1>6, <3>1, OpensStep
  <2>2. RowsIn(q, c, 0, d) /\ q.readout = d.readout
    BY <1>5, <1>6, <2>1, RowsSame DEF Untouched
  <2>3. CASE Opens(Tail(s), q, c, left(0))
    BY <2>2, <2>3 DEF Configuring
  <2>4. CASE Tail(s) = left(0) /\ Running(q, c)
    BY <1>2, <2>2, <2>4 DEF Configuring
  <2> QED
    BY <2>1, <2>3, <2>4
<1>7. ASSUME NEW n \in 0 .. Rows - 1, s = left(n), Running(m, c), RowsIn(m, c, n, d)
      PROVE  Configuring(Tail(s), q, d, c)
  <2>1. n + 1 \in 0 .. Rows /\ Rows - 1 - n \in Row
    BY RoundNumbers
  <2> DEFINE wd == data[Rows - 1 - n]
             x == SetDout(wd)
             u == Then(Trigger, Then(Poll, left(n + 1)))
  <2>2. wd \in Word
    BY <1>3, <2>1 DEF Matrix
  <2>3. x \in DriverCalls /\ x.fn = "set_dout" /\ x.word = wd
    BY <1>1, <2>2
  <2>4. u \in Seq(DriverCalls)
    <3>1. left(n + 1) \in Seq(DriverCalls)
      BY <1>4, <2>1
    <3> HIDE DEF left
    <3> QED
      BY <3>1, PiecesAreCalls
  <2>5. Tail(s) = u /\ DoutDone(m, wd, q)
    <3>1. s = Then(x, u)
      BY <1>4, <1>7
    <3> HIDE DEF x, u, wd
    <3>2. Tail(s) = u /\ Did(x, m, q)
      BY <2>3, <2>4, <3>1, StepOf
    <3> QED
      BY <2>3, <3>2 DEF Did
  <2>6. RowsIn(q, c, n, d) /\ q.readout = d.readout /\ Running(q, c) /\ q.dout = wd
    BY <1>5, <1>7, <2>5 DEF DoutDone, RowsIn, Running
  <2> QED
    BY <2>5, <2>6 DEF Configuring
<1>8. ASSUME NEW n \in 0 .. Rows - 1, s = Then(Trigger, Then(Poll, left(n + 1))),
             Running(m, c), m.dout = data[Rows - 1 - n], RowsIn(m, c, n, d)
      PROVE  Configuring(Tail(s), q, d, c)
  <2>1. n + 1 \in 0 .. Rows
    BY RoundNumbers
  <2> DEFINE v == Then(Poll, left(n + 1))
  <2>2. v \in Seq(DriverCalls)
    <3>1. left(n + 1) \in Seq(DriverCalls)
      BY <1>4, <2>1
    <3> HIDE DEF left
    <3> QED
      BY <1>1, <3>1, StartsWith
  <2>3. Tail(s) = v /\ RowDone(m, q) /\ q \in Machine
    <3>1. s = Then(Trigger, v)
      BY <1>8
    <3> HIDE DEF v
    <3>2. Tail(s) = v /\ Did(Trigger, m, q)
      BY <1>1, <2>2, <3>1, StepOf
    <3> QED
      BY <1>1, <1>8, <3>2 DEF Did, Running
  <2>4. RowsIn(q, c, n + 1, d)
    BY <1>8, <2>3, RowsStep DEF Running
  <2>5. Running(q, c) /\ q.readout = d.readout
    BY <1>5, <1>8, <2>3 DEF Running, RowDone
  <2> QED
    BY <2>3, <2>4, <2>5 DEF Configuring
<1>9. ASSUME NEW n \in 0 .. Rows - 1, s = Then(Poll, left(n + 1)), Running(m, c),
             RowsIn(m, c, n + 1, d)
      PROVE  Configuring(Tail(s), q, d, c) \/ Finishing(Tail(s), q, d)
  <2>1. n + 1 \in 0 .. Rows
    BY RoundNumbers
  <2> DEFINE u == left(n + 1)
  <2>2. Tail(s) = u /\ q = m
    <3>1. u \in Seq(DriverCalls)
      BY <1>4, <2>1
    <3>2. s = Then(Poll, u)
      BY <1>9
    <3> HIDE DEF u
    <3>3. Tail(s) = u /\ Did(Poll, m, q)
      BY <1>1, <3>1, <3>2, StepOf
    <3> QED
      BY <1>1, <3>3 DEF Did
  <2>3. CASE n + 1 \in 0 .. Rows - 1
    BY <1>5, <1>9, <2>2, <2>3 DEF Configuring
  <2>4. CASE n + 1 \notin 0 .. Rows - 1
    <3>1. n + 1 = Rows
      BY <1>2, <2>1, <2>4
    <3>2. Tail(s) = latch_configs
      BY <1>4, <2>2, <3>1
    <3>3. Over(q, d)
      <4>1. RowsIn(m, c, Rows, d)
        BY <1>9, <3>1
      <4> QED
        BY <1>5, <2>2, <4>1, RowsAll DEF Over
    <3>4. Pulsing(Tail(s), q, "latcher", <<>>)
      BY <3>2, LatchShape DEF Pulsing
    <3> QED
      BY <3>3, <3>4 DEF Finishing
  <2> QED
    BY <2>3, <2>4
<1> QED
  BY <1>6, <1>7, <1>8, <1>9 DEF Configuring

(* The plan of a call goes on with every driver function that is done.     *)
LEMMA PlanStep ==
    ASSUME NEW m \in Machine, NEW q, NEW s, Steps(s, m, q), NEW d, Goal(d), Plan(s, m, d)
    PROVE  Plan(Tail(s), q, d) /\ q \in Machine
<1>1. q \in Machine
  BY DoneIs, HeadTailProperties DEF Steps
<1>2. CASE Finishing(s, m, d)
  <2>1. Finishing(Tail(s), q, d)
    BY <1>2, FinishingStep
  <2> QED
    BY <1>1, <2>1, Zenon DEF Plan
<1>3. CASE Measuring(s, m, d)
  <2>1. Measuring(Tail(s), q, d) \/ \E c \in Shifters : Reading(Tail(s), q, d, c)
    BY <1>3, MeasuringStep
  <2> QED
    BY <1>1, <2>1, Zenon DEF Plan
<1>4. ASSUME NEW c \in Shifters, Reading(s, m, d, c) PROVE Plan(Tail(s), q, d)
  <2>1. Reading(Tail(s), q, d, c) \/ Finishing(Tail(s), q, d)
    BY <1>4, ReadingStep
  <2> QED
    BY <2>1, Zenon DEF Plan
<1>5. ASSUME NEW c \in Shifters, Configuring(s, m, d, c) PROVE Plan(Tail(s), q, d)
  <2>1. Configuring(Tail(s), q, d, c) \/ Finishing(Tail(s), q, d)
    BY <1>5, ConfiguringStep
  <2> QED
    BY <2>1, Zenon DEF Plan
<1>6. ASSUME NEW c \in Shifters, NEW t \in Seq(DriverCalls), Filling(s, m, d, c, t)
      PROVE  Plan(Tail(s), q, d)
  <2>1. "b" \in Shifters
    BY DEF Shifters
  <2> QED
    BY <1>6, <2>1, FillingStep DEF Plan
<1> QED
  BY <1>1, <1>2, <1>3, <1>4, <1>5, <1>6 DEF Plan

-----------------------------------------------------------------------------
(* A call that begins plans what it should do.                             *)
Starts(call, m, d) ==
    /\ m.readout = NoRows
    /\ d.counters = Meaning(call, m.rows, m.dout).counters
    /\ d.readout = Meaning(call, m.rows, m.dout).readout

(* What each of the calls should leave and return.                         *)
CountersDue(c, m, d) ==
    d.counters = [m.rows EXCEPT ![c] = Filled(m.dout)] /\ d.readout = m.rows[c]
HitsDue(c, wd, d) ==
    d.counters = [Hits EXCEPT ![c] = Filled(wd)] /\ d.readout = Hits[c]
ValueDue(c, wd, m, d) ==
    d.counters = [m.rows EXCEPT ![c] = Filled(wd)] /\ d.readout = NoRows
ConfigsDue(c, data, m, d) ==
    d.counters = [m.rows EXCEPT ![c] = data] /\ d.readout = NoRows

(* A matrix filled with a word is one.                                     *)
LEMMA FilledMatrix ==
    /\ \A wd \in Word : Filled(wd) \in Matrix
    /\ NoRows \in Matrix
<1>1. [k \in Bits |-> 0] \in Word
  BY MatrixAssumption DEF Word
<1> QED
  BY <1>1 DEF Filled, Matrix, NoRows

(* Before the first row is written, nothing has to be in the counter yet.  *)
LEMMA NoRowsIn ==
    ASSUME NEW m, NEW c, NEW d, \A o \in Counter : o # c => m.rows[o] = d.counters[o]
    PROVE  RowsIn(m, c, 0, d)
<1>1. \A r \in Row : ~(r < 0)
  BY MatrixAssumption DEF Row
<1> QED
  BY <1>1 DEF RowsIn

(* Calls that read: without a measurement, and after one.                  *)
LEMMA ReadPlan ==
    ASSUME NEW c \in Shifters, NEW m \in Machine, NEW d, m.readout = NoRows
    PROVE  /\ CountersDue(c, m, d) => Goal(d) /\ Plan(read_counters(c), m, d)
           /\ HitsDue(c, m.dout, d) => Goal(d) /\ Plan(read(c), m, d)
<1>1. /\ m.rows \in [Counter -> Matrix] /\ m.dout \in Word /\ c \in Counter
      /\ Hits \in [Counter -> Matrix] /\ Filled(m.dout) \in Matrix
  BY MachineParts, FilledMatrix, MatrixAssumption DEF Shifters, Counter
<1>2. ASSUME d.counters = [m.rows EXCEPT ![c] = Filled(m.dout)], d.readout = m.rows[c]
      PROVE  Goal(d) /\ Plan(read_counters(c), m, d)
  <2>1. Goal(d)
    BY <1>1, <1>2 DEF Goal
  <2>2. \A o \in Counter : o # c => m.rows[o] = d.counters[o]
    BY <1>1, <1>2
  <2>3. RowsIn(m, c, 0, d)
    BY <2>2, NoRowsIn
  <2>4. RowsOut(m, c, 0, d)
    <3>1. d.counters[c] = Filled(m.dout)
      BY <1>1, <1>2
    <3>2. \A r \in Row : r - 0 = r
      BY MatrixAssumption DEF Row
    <3> QED
      BY <1>2, <3>1, <3>2 DEF RowsOut
  <2>5. RowsRead(m, 0, d)
    BY <2>1, RowsAll
  <2>6. Opens(read_counters(c), m, c, ReadFrom(0))
    BY ReadShape DEF Opens
  <2>7. Reading(read_counters(c), m, d, c)
    BY <2>3, <2>4, <2>5, <2>6 DEF Reading
  <2> QED
    BY <2>1, <2>7, Zenon DEF Plan
<1>3. ASSUME d.counters = [Hits EXCEPT ![c] = Filled(m.dout)], d.readout = Hits[c]
      PROVE  Goal(d) /\ Plan(read(c), m, d)
  <2>1. Goal(d)
    BY <1>1, <1>3 DEF Goal
  <2>2. Later(m, c, m.dout, d)
    BY <1>3 DEF Later
  <2>3. Pulsing(read(c), m, "hits", read_counters(c))
    BY ReadShape DEF Pulsing
  <2>4. Measuring(read(c), m, d)
    BY <2>2, <2>3 DEF Measuring
  <2> QED
    BY <2>1, <2>4 DEF Plan
<1> QED
  BY <1>2, <1>3 DEF CountersDue, HitsDue

(* Calls that write.                                                       *)
LEMMA WritePlan ==
    ASSUME NEW c \in Shifters, NEW m \in Machine, NEW d, m.readout = NoRows,
           NEW wd \in Word, NEW data \in Matrix
    PROVE  /\ ValueDue(c, wd, m, d) =>
                  Goal(d) /\ Plan(write_value(c, wd) \o latch_configs, m, d)
           /\ ConfigsDue(c, data, m, d) =>
                  Goal(d) /\ Plan(write_rows(c, data) \o latch_configs, m, d)
<1>1. /\ m.rows \in [Counter -> Matrix] /\ c \in Counter
      /\ Filled(wd) \in Matrix /\ NoRows \in Matrix
  BY MachineParts, FilledMatrix DEF Shifters, Counter
<1>2. latch_configs \in Seq(DriverCalls)
  BY LatchShape
<1>3. ASSUME d.counters = [m.rows EXCEPT ![c] = Filled(wd)], d.readout = NoRows
      PROVE  Goal(d) /\ Plan(write_value(c, wd) \o latch_configs, m, d)
  <2> DEFINE s == write_value(c, wd) \o latch_configs
  <2>1. Goal(d)
    BY <1>1, <1>3 DEF Goal
  <2>2. d.counters[c] = Filled(wd) /\ \A o \in Counter : o # c => m.rows[o] = d.counters[o]
    BY <1>1, <1>3
  <2>3. Fills(m, c, wd, latch_configs, 0, d)
    <3>1. RowsIn(m, c, 0, d)
      BY <2>2, NoRowsIn
    <3> QED
      BY <1>3, <2>2, <3>1 DEF Fills
  <2>4. s = Then(SetDout(wd), Opening(c, ValueRest(0, latch_configs)))
    BY <1>2, WriteShape
  <2> HIDE DEF s
  <2>5. Filling(s, m, d, c, latch_configs)
    BY <2>3, <2>4 DEF Filling
  <2>6. Plan(s, m, d)
    BY <1>2, <2>5, Zenon DEF Plan
  <2> QED
    BY <2>1, <2>6 DEF s
<1>4. ASSUME d.counters = [m.rows EXCEPT ![c] = data], d.readout = NoRows
      PROVE  Goal(d) /\ Plan(write_rows(c, data) \o latch_configs, m, d)
  <2> DEFINE s == write_rows(c, data) \o latch_configs
  <2>1. Goal(d)
    BY <1>1, <1>4 DEF Goal
  <2>2. d.counters[c] = data /\ \A o \in Counter : o # c => m.rows[o] = d.counters[o]
    BY <1>1, <1>4
  <2>3. RowsIn(m, c, 0, d)
    BY <2>2, NoRowsIn
  <2>4. wd \in Word /\ latch_configs \in Seq(DriverCalls)
    BY <1>2
  <2>5. s = Opening(c, ConfigRest(0, data))
    BY <2>4, WriteShape
  <2> HIDE DEF s
  <2>6. Opens(s, m, c, ConfigRest(0, d.counters[c]))
    BY <2>2, <2>5 DEF Opens
  <2>7. Configuring(s, m, d, c)
    BY <1>4, <2>3, <2>6 DEF Configuring
  <2>8. Plan(s, m, d)
    BY <2>7, Zenon DEF Plan
  <2> QED
    BY <2>1, <2>8 DEF s
<1> QED
  BY <1>3, <1>4 DEF ValueDue, ConfigsDue

(* Four pieces of a call, however they are put together.                   *)
LEMMA Regroup ==
    ASSUME NEW a \in Seq(DriverCalls), NEW b \in Seq(DriverCalls),
           NEW c \in Seq(DriverCalls), NEW e \in Seq(DriverCalls)
    PROVE  Joined(Joined(Joined(a, b), c), e) = Joined(a, Joined(b, Joined(c, e)))
<1> DEFINE ab == a \o b
           ce == c \o e
<1>1. ab \in Seq(DriverCalls) /\ ce \in Seq(DriverCalls)
  OBVIOUS
<1>2. (a \o b) \o ce = a \o (b \o ce)
  <2>1. ce \in Seq(DriverCalls)
    BY <1>1
  <2> HIDE DEF ce
  <2> QED
    BY <2>1, ConcatCalls, ZenonT(60)
<1>3. (ab \o c) \o e = ab \o (c \o e)
  <2>1. ab \in Seq(DriverCalls)
    BY <1>1
  <2> HIDE DEF ab
  <2> QED
    BY <2>1, ConcatCalls, Zenon
<1>4. Joined(Joined(Joined(a, b), c), e) = (ab \o c) \o e
  BY Zenon DEF Joined
<1>5. Joined(a, Joined(b, Joined(c, e))) = a \o (b \o ce)
  BY Zenon DEF Joined
<1> QED
  BY <1>2, <1>3, <1>4, <1>5, Zenon

(* A round of calibrate.                                                   *)
LEMMA CalibratePlan ==
    ASSUME NEW m \in Machine, NEW d, m.readout = NoRows, NEW a \in Word, NEW b \in Word,
           HitsDue("a", b, d)
    PROVE  Goal(d) /\ Plan(calibrate(a, b), m, d)
<1>1. "a" \in Shifters /\ "b" \in Shifters /\ "a" \in Counter
  BY DEF Shifters, Counter
<1> DEFINE wa == write_value("a", a)
           wb == write_value("b", b)
           lc == latch_configs
           rd == read("a")
           t == wb \o (lc \o rd)
<1>2. /\ wa \in Seq(DriverCalls) /\ wb \in Seq(DriverCalls)
      /\ lc \in Seq(DriverCalls) /\ rd \in Seq(DriverCalls)
  <2>1. NoRows \in Matrix /\ <<>> \in Seq(DriverCalls)
    BY FilledMatrix, EmptyOrderly
  <2>2. wa \in Seq(DriverCalls)
    BY <1>1, <2>1, WriteShape
  <2>3. wb \in Seq(DriverCalls)
    BY <1>1, <2>1, WriteShape
  <2> QED
    BY <1>1, <2>2, <2>3, LatchShape, ReadShape
<1>3. calibrate(a, b) = Joined(Joined(Joined(wa, wb), lc), rd)
  BY DEF calibrate, Joined
<1>4. Goal(d)
  <2>1. Hits \in [Counter -> Matrix] /\ Filled(b) \in Matrix
    BY MatrixAssumption, FilledMatrix
  <2> QED
    BY <1>1, <2>1 DEF Goal, HitsDue
<1> HIDE DEF wa, wb, lc, rd
<1>5. lc \o rd \in Seq(DriverCalls) /\ t \in Seq(DriverCalls)
  BY <1>2
<1>6. calibrate(a, b) = wa \o t
  <2>1. Joined(Joined(Joined(wa, wb), lc), rd) = Joined(wa, Joined(wb, Joined(lc, rd)))
    BY <1>2, Regroup
  <2> QED
    BY <1>3, <2>1 DEF Joined
<1>7. wa \o t = Then(SetDout(a), Opening("a", ValueRest(0, t)))
  <2>1. NoRows \in Matrix
    BY FilledMatrix
  <2> HIDE DEF t
  <2> QED
    BY <1>1, <1>5, <2>1, WriteShape DEF wa
<1>8. Fills(m, "a", a, t, 0, d)
  <2>1. Later(m, "a", b, d)
    BY DEF Later, HitsDue
  <2>2. t = write_value("b", b) \o (latch_configs \o read("a"))
    BY DEF wb, lc, rd
  <2> HIDE DEF t
  <2> QED
    BY <2>1, <2>2 DEF Fills
<1> HIDE DEF t
<1>9. Filling(calibrate(a, b), m, d, "a", t)
  BY <1>6, <1>7, <1>8 DEF Filling
<1>10. Plan(calibrate(a, b), m, d)
  BY <1>1, <1>5, <1>9, Zenon DEF Plan
<1> QED
  BY <1>4, <1>10

(* Every call has a plan when it is made.                                  *)
LEMMA StartPlan ==
    ASSUME NEW call \in Calls, NEW m \in Machine, NEW d, Starts(call, m, d)
    PROVE  Goal(d) /\ Plan(Ops(call), m, d)
<1>1. call \in Call /\ Shifters = Counter /\ m.readout = NoRows /\ NoRows \in Matrix
      /\ [k \in Bits |-> 0] \in Word
  <2>1. [k \in Bits |-> 0] \in Word
    BY MatrixAssumption DEF Word
  <2> QED
    BY <2>1, FilledMatrix, MatrixAssumption DEF Starts, Shifters, Counter
<1>2. CASE call \in [fn : {"read_counters"}, counter : Counter]
  <2>1. call.fn = "read_counters" /\ call.counter \in Shifters
    BY <1>1, <1>2
  <2>2. Ops(call) = read_counters(call.counter)
    BY <2>1 DEF Ops
  <2>3. CountersDue(call.counter, m, d)
    BY <2>1 DEF Starts, Meaning, CountersDue
  <2> QED
    BY <1>1, <2>1, <2>2, <2>3, ReadPlan
<1>3. CASE call \in [fn : {"read"}, counter : Counter]
  <2>1. call.fn = "read" /\ call.counter \in Shifters
    BY <1>1, <1>3
  <2>2. Ops(call) = read(call.counter)
    BY <2>1 DEF Ops
  <2>3. HitsDue(call.counter, m.dout, d)
    BY <2>1 DEF Starts, Meaning, HitsDue
  <2> QED
    BY <1>1, <2>1, <2>2, <2>3, ReadPlan
<1>4. CASE call \in [fn : {"load_value"}, counter : Counter, word : Word]
  <2>1. call.fn = "load_value" /\ call.counter \in Shifters /\ call.word \in Word
    BY <1>1, <1>4
  <2>2. Ops(call) = write_value(call.counter, call.word) \o latch_configs
    BY <2>1 DEF Ops
  <2>3. ValueDue(call.counter, call.word, m, d)
    BY <2>1 DEF Starts, Meaning, ValueDue
  <2> QED
    BY <1>1, <2>1, <2>2, <2>3, WritePlan
<1>5. CASE call \in [fn : {"load_configs"}, counter : Counter, data : Matrix]
  <2>1. call.fn = "load_configs" /\ call.counter \in Shifters /\ call.data \in Matrix
    BY <1>1, <1>5
  <2>2. Ops(call) = write_rows(call.counter, call.data) \o latch_configs
    BY <2>1 DEF Ops
  <2>3. ConfigsDue(call.counter, call.data, m, d)
    BY <2>1 DEF Starts, Meaning, ConfigsDue
  <2> QED
    BY <1>1, <2>1, <2>2, <2>3, WritePlan
<1>6. CASE call \in [fn : {"calibrate"}, a : Word, b : Word]
  <2>1. call.fn = "calibrate" /\ call.a \in Word /\ call.b \in Word
    BY <1>6
  <2>2. Ops(call) = calibrate(call.a, call.b)
    BY <2>1 DEF Ops
  <2>3. HitsDue("a", call.b, d)
    BY <2>1 DEF Starts, Meaning, HitsDue
  <2> QED
    BY <1>1, <2>1, <2>2, <2>3, CalibratePlan
<1> QED
  BY <1>1, <1>2, <1>3, <1>4, <1>5, <1>6 DEF Call

-----------------------------------------------------------------------------
(* Which program it is can be told from its third and its seventh byte.    *)
LEMMA HeldUnique ==
    ASSUME NEW app \in Apps, NEW other \in Apps, Holds(app), Holds(other)
    PROVE  app = other
<1>1. ASSUME NEW x \in Apps, Holds(x)
      PROVE  /\ x \in Shifters => code[2] = 2 /\ code[6] = High(x)
             /\ x \in Pulsers => code[2] = Line1(x)
  <2>1. ASSUME x \in Shifters PROVE code[2] = 2 /\ code[6] = High(x)
    <3>1. ShifterCode(code, x)
      BY <1>1, <2>1, CodeOf
    <3>2. 0 \in 0 .. 15 /\ 6 + 6 * 0 = 6
      OBVIOUS
    <3>3. code[6 + 6 * 0] = High(x)
      BY <3>1, <3>2 DEF ShifterCode
    <3> QED
      BY <3>1, <3>2, <3>3 DEF ShifterCode
  <2>2. ASSUME x \in Pulsers PROVE code[2] = Line1(x)
    <3>1. PulserCode(code, x)
      BY <1>1, <2>2, CodeOf
    <3> QED
      BY <3>1 DEF PulserCode
  <2> QED
    BY <2>1, <2>2
<1>2. /\ app \in Shifters => code[2] = 2 /\ code[6] = High(app)
      /\ app \in Pulsers => code[2] = Line1(app)
      /\ other \in Shifters => code[2] = 2 /\ code[6] = High(other)
      /\ other \in Pulsers => code[2] = Line1(other)
  BY <1>1
<1> QED
  BY <1>2 DEF Apps, Shifters, Pulsers, High, Line1

(* So what is known of the program that runs is known of the one in the    *)
(* code RAM.                                                               *)
LEMMA TheApp ==
    ASSUME IInv, cr.pmcc_rst_n, NEW app \in Apps, Holds(app)
    PROVE  /\ Fetched
           /\ app \in Shifters => ShifterInv(app)
           /\ app \in Pulsers => PulserInv(app)
<1>1. PICK other \in Apps :
          /\ Holds(other) /\ Fetched
          /\ IF other \in Shifters THEN ShifterInv(other) ELSE PulserInv(other)
  BY RunningApp
<1>2. app = other
  BY <1>1, HeldUnique
<1> QED
  BY <1>1, <1>2 DEF Shifters, Pulsers

(* Where neither the shift clock nor the gate is raised, neither the       *)
(* counters nor din change.                                                *)
LEMMA QuietCycle ==
    ASSUME HwInv, NEW access, Cycle(access), matrix_ctrl \in {0, 2, 4, 32}
    PROVE  counters' = counters /\ din' = din
<1>1. ~cr.direct_ctrl
  BY DEF HwInv, RegsOK
<1>2. ~ClkSh /\ ~Gate
  BY <1>1, Lines DEF SelectValues
<1>3. din' = Received(OutOf("a"), OutOf("b")) /\ MatrixCycle
  BY DEF Cycle, PmcCycle
<1> QED
  BY <1>2, <1>3 DEF Received, MatrixCycle

(* What dout is after a cycle.                                             *)
LEMMA DoutAfter ==
    ASSUME NEW access, Cycle(access)
    PROVE  dout' = IF access.reg = "dout" THEN access.val ELSE dout
  BY DEF Cycle, PmcCycle, Written

(* A shifter program, instruction by instruction.                          *)
LEMMA ShifterMoves ==
    ASSUME HwInv, NEW app \in Shifters, Holds(app), Fetched, pc_id \in 0 .. 101,
           NEW access, RunsOn(access)
    PROVE  /\ pc_id = 0 => pc_id' = IF cr.pmcc_trg THEN 1 ELSE 0
           /\ pc_id = 1 => pc_id' = 4
           /\ pc_id = 4 => pc_id' = IF cr.pmcc_trg THEN 5 ELSE 4
           /\ pc_id = 101 => pc_id' = 4
           /\ \A j \in 0 .. 15 :
                 /\ pc_id = 5 + 6 * j => pc_id' = 8 + 6 * j
                 /\ pc_id = 8 + 6 * j => pc_id' = 11 + 6 * j /\ matrix_ctrl' = Low(app)
<1>1. /\ Run(cr.pmcc_trg, code) /\ cr.pmcc_trg \in BOOLEAN
      /\ instr \in [0 .. 3 -> Byte] /\ ShifterCode(code, app)
  BY RunCycle, CodeOf DEF HwInv, CopOK
<1>2. /\ instr[0] = code[pc_id] /\ instr[1] = code[pc_id + 1] /\ instr[2] = code[pc_id + 2]
  BY FetchedBytes
<1>3. /\ instr[0] = 0 => pc_id' = IF cr.pmcc_trg THEN pc_id + 1 ELSE pc_id
      /\ instr[0] = 192 => pc_id' = pc_id + 3 /\ matrix_ctrl' = instr[2] * 256 + instr[1]
      /\ instr[0] = 32 /\ instr[1] \in {0, 4} => pc_id' = instr[1]
  <2>1. pc_id \in 0 .. 103
    OBVIOUS
  <2> QED
    BY <1>1, <2>1, RunInstruction
<1>4. CASE pc_id \in {0, 1, 4, 101}
  <2>1. /\ code[0] = 0 /\ code[1] = 192 /\ code[4] = 0 /\ code[101] = 32 /\ code[102] = 4
    BY <1>1 DEF ShifterCode
  <2>2. \A j \in 0 .. 15 : pc_id # 5 + 6 * j /\ pc_id # 8 + 6 * j
    BY <1>4
  <2>3. CASE pc_id = 0
    BY <1>2, <1>3, <2>1, <2>2, <2>3
  <2>4. CASE pc_id = 1
    BY <1>2, <1>3, <2>1, <2>2, <2>4
  <2>5. CASE pc_id = 4
    BY <1>2, <1>3, <2>1, <2>2, <2>5
  <2>6. CASE pc_id = 101
    BY <1>2, <1>3, <2>1, <2>2, <2>6
  <2> QED
    BY <1>4, <2>3, <2>4, <2>5, <2>6
<1>5. ASSUME NEW j \in 0 .. 15, pc_id = 5 + 6 * j PROVE pc_id' = 8 + 6 * j
  <2>1. code[5 + 6 * j] = 192
    BY <1>1 DEF ShifterCode
  <2> QED
    BY <1>2, <1>3, <1>5, <2>1
<1>6. ASSUME NEW j \in 0 .. 15, pc_id = 8 + 6 * j
      PROVE  pc_id' = 11 + 6 * j /\ matrix_ctrl' = Low(app)
  <2>1. /\ code[8 + 6 * j] = 192 /\ code[9 + 6 * j] = Low(app) /\ code[10 + 6 * j] = 0
    BY <1>1 DEF ShifterCode
  <2>2. pc_id + 1 = 9 + 6 * j /\ pc_id + 2 = 10 + 6 * j /\ pc_id + 3 = 11 + 6 * j
    BY <1>6
  <2>3. Low(app) \in Nat
    BY DEF Low
  <2> QED
    BY <1>2, <1>3, <1>6, <2>1, <2>2, <2>3
<1> QED
  BY <1>4, <1>5, <1>6

-----------------------------------------------------------------------------
(* A bit more of the row is shifted.                                       *)
LEMMA OneBit ==
    ASSUME NEW m \in Machine, NEW j \in 0 .. 15, Partly(m, j), m.app \in Shifters,
           MatrixOK, RegsOK, pm_din = dout[15 - j],
           counters'[m.app] = Shift(m.app, pm_din),
           din' = [din EXCEPT ![15 - j] = OutOf(m.app)], dout' = dout
    PROVE  Partly(m, j + 1)'
<1> DEFINE c == m.app
           old == m.rows[c]
           row0 == counters[c]
<1>1. /\ Rows \in Nat /\ Rows > 0 /\ Row = 0 .. Rows - 1 /\ Bits = 0 .. 15
  BY MatrixAssumption DEF Row, Bits
<1>2. /\ dout = old[0]
      /\ \A r \in Row, k \in Bits :
             row0[r][k] = IF k >= j THEN Before(m)[r][k - j] ELSE old[r][k - j + 16]
      /\ \A k \in Bits : k >= 16 - j => din[k] = m.din[k]
  BY DEF Partly
<1>3. \A r \in Row : Before(m)[r] = IF r = Rows - 1 THEN m.din ELSE old[r + 1]
  BY DEF Before
<1>4. \A r \in Row, k \in Bits :
          counters'[c][r][k] = CASE k > 0            -> row0[r][k - 1]
                                 [] k = 0 /\ r > 0   -> row0[r - 1][15]
                                 [] k = 0 /\ r = 0   -> pm_din
  <2> DEFINE bit(r, k) == CASE k > 0            -> counters[c][r][k - 1]
                            [] k = 0 /\ r > 0   -> counters[c][r - 1][15]
                            [] k = 0 /\ r = 0   -> pm_din
  <2>1. counters'[c] = [r \in Row |-> [k \in Bits |-> bit(r, k)]]
    BY DEF Shift
  <2> HIDE DEF bit
  <2>2. \A r \in Row, k \in Bits : counters'[c][r][k] = bit(r, k)
    BY <2>1
  <2> QED
    BY <2>2 DEF bit
<1>5. ASSUME NEW r \in Row, NEW k \in Bits
      PROVE  counters'[c][r][k] =
                 IF k >= j + 1 THEN Before(m)[r][k - (j + 1)] ELSE old[r][k - (j + 1) + 16]
  <2> HIDE DEF c, old, row0
  <2>1. CASE k > 0
    <3>1. k - 1 \in Bits /\ k - 1 - j = k - (j + 1) /\ k - 1 - j + 16 = k - (j + 1) + 16
          /\ (k - 1 >= j <=> k >= j + 1)
      BY <1>1, <2>1
    <3>2. counters'[c][r][k] = row0[r][k - 1]
      BY <1>4, <2>1
    <3> QED
      BY <1>2, <3>1, <3>2
  <2>2. CASE k = 0 /\ r > 0
    <3>1. /\ r - 1 \in Row /\ 15 \in Bits /\ 15 >= j /\ r - 1 # Rows - 1 /\ r - 1 + 1 = r
          /\ ~(k >= j + 1) /\ k - (j + 1) + 16 = 15 - j
      BY <1>1, <2>2
    <3>2. counters'[c][r][k] = row0[r - 1][15]
      BY <1>4, <2>2
    <3>3. row0[r - 1][15] = Before(m)[r - 1][15 - j]
      BY <1>2, <3>1
    <3>4. Before(m)[r - 1] = old[r]
      BY <1>3, <3>1
    <3> QED
      BY <3>1, <3>2, <3>3, <3>4
  <2>3. CASE k = 0 /\ r = 0
    <3>1. ~(k >= j + 1) /\ k - (j + 1) + 16 = 15 - j
      BY <2>3
    <3>2. counters'[c][r][k] = pm_din
      BY <1>4, <2>3
    <3> QED
      BY <1>2, <2>3, <3>1, <3>2
  <2> QED
    BY <1>1, <2>1, <2>2, <2>3
<1>6. ASSUME NEW k \in Bits, k >= 16 - (j + 1) PROVE din'[k] = m.din[k]
  <2>1. din \in Word /\ 15 - j \in Bits
    BY <1>1 DEF RegsOK
  <2>2. CASE k = 15 - j
    <3>1. Rows - 1 \in Row /\ 15 \in Bits /\ 15 >= j
      BY <1>1
    <3>2. OutOf(c) = row0[Rows - 1][15]
      BY DEF OutOf
    <3>3. din'[k] = OutOf(c)
      BY <2>1, <2>2 DEF Word
    <3> HIDE DEF c, old, row0
    <3>4. row0[Rows - 1][15] = Before(m)[Rows - 1][15 - j]
      BY <1>2, <3>1
    <3>5. Before(m)[Rows - 1] = m.din
      BY <1>3, <3>1
    <3> QED
      BY <2>2, <3>2, <3>3, <3>4, <3>5
  <2>3. CASE k # 15 - j
    <3>1. k >= 16 - j
      BY <1>1, <1>6, <2>3
    <3>2. din'[k] = din[k]
      BY <2>1, <2>3 DEF Word
    <3> QED
      BY <1>2, <3>1, <3>2
  <2> QED
    BY <2>2, <2>3
<1> QED
  BY <1>2, <1>5, <1>6 DEF Partly

(* The whole row is shifted.                                               *)
LEMMA AllBits ==
    ASSUME NEW m \in Machine, m.app \in Shifters, Partly(m, 16)', MatrixOK', RegsOK'
    PROVE  counters'[m.app] = m.rows[m.app] /\ din' = m.din
<1> DEFINE c == m.app
           old == m.rows[c]
<1>1. Bits = 0 .. 15 /\ c \in Counter
  BY DEF Bits, Shifters, Counter
<1>2. old \in Matrix /\ counters'[c] \in Matrix /\ din' \in Word /\ m.din \in Word
  BY <1>1, MachineParts DEF MatrixOK, RegsOK
<1>3. ASSUME NEW r \in Row, NEW k \in Bits PROVE counters'[c][r][k] = old[r][k]
  <2>1. ~(k >= 16) /\ k - 16 + 16 = k
    BY <1>1
  <2> QED
    BY <2>1 DEF Partly
<1>4. \A k \in Bits : din'[k] = m.din[k]
  <2>1. \A k \in Bits : k >= 16 - 16
    BY <1>1
  <2> QED
    BY <2>1 DEF Partly
<1>5. din' = m.din
  BY <1>2, <1>4 DEF Word
<1>6. \A r \in Row : counters'[c][r] = old[r]
  <2> SUFFICES ASSUME NEW r \in Row PROVE counters'[c][r] = old[r]
    OBVIOUS
  <2>1. counters'[c][r] \in Word /\ old[r] \in Word
    BY <1>2 DEF Matrix
  <2> QED
    BY <1>3, <2>1 DEF Word
<1>7. counters'[c] = old
  BY <1>2, <1>6 DEF Matrix
<1> QED
  BY <1>5, <1>7

(* A row whose first bit is not in yet is the row of the counter before.   *)
LEMMA NoBits ==
    ASSUME NEW m \in Machine, NEW q, m.app \in Shifters, RowDone(m, q),
           counters = m.rows, dout = m.dout
    PROVE  /\ Partly(q, 0)
           /\ \A c \in Counter : c # q.app => counters[c] = q.rows[c]
<1> DEFINE a == m.app
<1>1. /\ Rows \in Nat /\ Rows > 0 /\ Row = 0 .. Rows - 1 /\ Bits = 0 .. 15
      /\ a \in Counter /\ m.rows \in [Counter -> Matrix]
  BY MatrixAssumption, MachineParts DEF Row, Bits, Shifters, Counter
<1>2. /\ q.app = a /\ q.din = m.rows[a][Rows - 1]
      /\ q.rows[a] = OneDown(m.rows[a], m.dout)
      /\ \A c \in Counter : c # a => q.rows[c] = m.rows[c]
  BY <1>1 DEF RowDone
<1>3. \A r \in Row : q.rows[a][r] = IF r = 0 THEN m.dout ELSE m.rows[a][r - 1]
  BY <1>2 DEF OneDown
<1>4. dout = q.rows[a][0]
  BY <1>1, <1>3
<1>5. ASSUME NEW r \in Row PROVE Before(q)[r] = counters[a][r]
  <2>1. Before(q)[r] = IF r = Rows - 1 THEN q.din ELSE q.rows[a][r + 1]
    <3>1. Before(q)[r] = IF r = Rows - 1 THEN q.din ELSE q.rows[q.app][r + 1]
      BY DEF Before
    <3>2. q.app = a
      BY <1>2
    <3> QED
      BY <3>1, <3>2
  <2>2. r # Rows - 1 => r + 1 \in Row /\ r + 1 # 0 /\ r + 1 - 1 = r
    BY <1>1
  <2>3. CASE r = Rows - 1
    <3>1. q.din = counters[a][r]
      BY <1>2, <2>3
    <3> HIDE DEF a
    <3> QED
      BY <2>1, <2>3, <3>1
  <2>4. CASE r # Rows - 1
    <3> DEFINE n == r + 1
    <3>1. n \in Row /\ n # 0 /\ n - 1 = r
      BY <1>1, <2>4
    <3>2. Before(q)[r] = q.rows[a][n]
      BY <2>1, <2>4
    <3> HIDE DEF n
    <3> HIDE DEF a
    <3>3. q.rows[a][n] = m.rows[a][n - 1]
      BY <1>3, <3>1
    <3>4. m.rows[a][n - 1] = counters[a][r]
      BY <3>1, Zenon
    <3> QED
      BY <3>2, <3>3, <3>4, Zenon
  <2> QED
    BY <2>3, <2>4
<1>6. ASSUME NEW r \in Row, NEW k \in Bits
      PROVE  k >= 0 /\ counters[a][r][k] = Before(q)[r][k - 0]
  BY <1>1, <1>5
<1>7. \A k \in Bits : ~(k >= 16 - 0)
  BY <1>1
<1> QED
  BY <1>2, <1>4, <1>6, <1>7 DEF Partly

-----------------------------------------------------------------------------
(* A row that is not moved stays as far as it was.                         *)
LEMMA PartlyStays ==
    ASSUME NEW m, NEW j, Partly(m, j), counters' = counters, din' = din, dout' = dout
    PROVE  Partly(m, j)'
  BY DEF Partly

(* Where a bit of a row is, the program is nowhere else.                   *)
LEMMA RowPlaces ==
    ASSUME NEW j \in 0 .. 15
    PROVE  /\ 5 + 6 * j \in 5 .. 100 /\ 8 + 6 * j \in 5 .. 100
           /\ \A i \in 0 .. 15 : /\ 5 + 6 * j # 8 + 6 * i /\ 8 + 6 * j # 5 + 6 * i
                                 /\ 5 + 6 * j = 5 + 6 * i => i = j
                                 /\ 8 + 6 * j = 8 + 6 * i => i = j
  OBVIOUS

(* A shifter between two rows, or at the start of one.                     *)
LEMMA ShifterAtRest ==
    ASSUME HwInv, NEW app \in Shifters, Holds(app), Fetched, ShifterInv(app),
           NEW access, RunsOn(access), access.reg # "dout", ~cr'.pmcc_trg,
           NEW m \in Machine, m.app = app, ShifterDoes(m), pc_id \in {0, 1, 4, 101}
    PROVE  ShifterDoes(m)'
<1>1. matrix_ctrl \in {0, 2, 4, 32}
  <2>1. \A j \in 0 .. 15 : pc_id # 5 + 6 * j /\ pc_id # 8 + 6 * j
    OBVIOUS
  <2>2. AtStart \/ AtWaitt(app) \/ AtJump(app)
    BY <2>1 DEF ShifterInv, ShifterPlace, AtHigh, AtLow
  <2> QED
    BY <2>2 DEF AtStart, AtWaitt, AtJump, Low
<1>2. counters' = counters /\ din' = din
  BY <1>1, QuietCycle DEF RunsOn
<1>3. dout' = dout
  BY DoutAfter DEF RunsOn
<1>4. cr.pmcc_trg \in BOOLEAN
  BY RunCycle
<1>5. /\ pc_id = 0 => pc_id' = IF cr.pmcc_trg THEN 1 ELSE 0
      /\ pc_id = 1 => pc_id' = 4
      /\ pc_id = 4 => pc_id' = IF cr.pmcc_trg THEN 5 ELSE 4
      /\ pc_id = 101 => pc_id' = 4
  BY ShifterMoves
<1>6. m.started <=> (pc_id' # 0 \/ cr'.pmcc_trg)
  BY <1>4, <1>5 DEF ShifterDoes
<1>7. \A c \in Counter : c # m.app => counters'[c] = m.rows[c]
  BY <1>2 DEF ShifterDoes
<1>8. CASE pc_id = 4 /\ cr.pmcc_trg
  <2>1. pc_id' = 5
    BY <1>5, <1>8
  <2>2. Partly(m, 0)'
    BY <1>2, <1>3, <1>8, PartlyStays DEF ShifterDoes
  <2>3. InRow'
    BY <2>1 DEF InRow
  <2>4. \A j \in 0 .. 15 : (5 = 5 + 6 * j => j = 0) /\ 5 # 8 + 6 * j
    OBVIOUS
  <2> QED
    BY <1>6, <1>7, <2>1, <2>2, <2>3, <2>4 DEF ShifterDoes
<1>9. CASE ~(pc_id = 4 /\ cr.pmcc_trg)
  <2>1. pc_id' \in {0, 1, 4} /\ pc_id \notin 5 .. 100
    BY <1>5, <1>9
  <2>2. Same(m)
    BY <1>9, <2>1 DEF ShifterDoes, InRow
  <2>3. Same(m)'
    BY <1>2, <2>2 DEF Same
  <2>4. \A j \in 0 .. 15 : pc_id' # 5 + 6 * j /\ pc_id' # 8 + 6 * j
    BY <2>1
  <2> QED
    BY <1>6, <1>7, <2>1, <2>3, <2>4 DEF ShifterDoes
<1> QED
  BY <1>8, <1>9

(* It raises the shift clock, and the next bit is there to be taken.       *)
LEMMA ShifterRaises ==
    ASSUME HwInv, NEW app \in Shifters, Holds(app), Fetched, ShifterInv(app),
           NEW access, RunsOn(access), access.reg # "dout", ~cr'.pmcc_trg,
           NEW m \in Machine, m.app = app, ShifterDoes(m),
           NEW j \in 0 .. 15, pc_id = 5 + 6 * j
    PROVE  ShifterDoes(m)'
<1>1. AtHigh(app, j)
  <2>1. pc_id \notin {0, 1, 4, 101}
    OBVIOUS
  <2>2. \E i \in 0 .. 15 : AtHigh(app, i) \/ AtLow(app, i)
    BY <2>1 DEF ShifterInv, ShifterPlace, AtStart, AtWaitt, AtJump
  <2> QED
    BY <2>2, RowPlaces DEF AtHigh, AtLow
<1>2. matrix_ctrl \in {2, 4} /\ tx = Shifting(j)
  BY <1>1 DEF AtHigh, Low
<1>3. counters' = counters /\ din' = din
  BY <1>2, QuietCycle DEF RunsOn
<1>4. dout' = dout
  BY DoutAfter DEF RunsOn
<1>5. pc_id' = 8 + 6 * j
  <2>1. pc_id \in 0 .. 101
    OBVIOUS
  <2> QED
    BY <2>1, ShifterMoves
<1>6. pm_din' = dout[15 - j]
  <2>1. ~ClkSh
    BY <1>2, RunCycle, Lines DEF SelectValues
  <2>2. pm_din' = Shown
    BY DEF RunsOn, Cycle, PmcCycle
  <2>3. CASE j = 0
    <3>1. tx.state = "WAITING"
      BY <1>2, <2>3 DEF Shifting, Shifter
    <3> QED
      BY <2>2, <2>3, <3>1 DEF Shown
  <2>4. CASE j # 0
    <3>1. tx.state = "ACTIVE" /\ tx.bits_counter = j
      BY <1>2, <2>4 DEF Shifting, Shifter
    <3> QED
      BY <2>1, <2>2, <3>1 DEF Shown
  <2> QED
    BY <2>3, <2>4
<1>7. Partly(m, j)
  BY DEF ShifterDoes
<1>8. Partly(m, j)' /\ pm_din' = dout'[15 - j]
  BY <1>3, <1>4, <1>6, <1>7, PartlyStays
<1>9. pc_id' # 0 /\ pc_id # 0 /\ pc_id' # 4 /\ pc_id' \in 5 .. 100
  BY <1>5
<1>10. /\ m.started <=> (pc_id' # 0 \/ cr'.pmcc_trg)
       /\ \A c \in Counter : c # m.app => counters'[c] = m.rows[c]
  BY <1>3, <1>9 DEF ShifterDoes
<1>11. \A i \in 0 .. 15 : pc_id' # 5 + 6 * i /\ (pc_id' = 8 + 6 * i => i = j)
  BY <1>5, RowPlaces
<1>12. InRow'
  BY <1>9 DEF InRow
<1> QED
  BY <1>8, <1>9, <1>10, <1>11, <1>12 DEF ShifterDoes

(* Each counter has a line of its own that selects it.                     *)
LEMMA Selected ==
    ASSUME ~cr.direct_ctrl, ~cr'.direct_ctrl, NEW app \in Shifters
    PROVE  /\ matrix_ctrl = High(app) =>
                  ClkSh /\ ~Gate /\ (ShA <=> app = "a") /\ (ShB <=> app = "b")
           /\ matrix_ctrl' = Low(app) => ~ClkSh'
<1>1. CASE app = "a"
  BY <1>1 DEF High, Low, ClkSh, ShA, ShB, Gate, Line
<1>2. CASE app = "b"
  BY <1>2 DEF High, Low, ClkSh, ShA, ShB, Gate, Line
<1> QED
  BY <1>1, <1>2 DEF Shifters

(* A falling edge of the shift clock takes a bit into the counter and one  *)
(* out of it into din.                                                     *)
LEMMA FallingEdge ==
    ASSUME HwInv, NEW app \in Shifters, NEW access, RunsOn(access),
           matrix_ctrl = High(app), matrix_ctrl' = Low(app),
           NEW j \in 0 .. 15, tx = Shifting(j)
    PROVE  /\ counters'[app] = Shift(app, pm_din)
           /\ \A c \in Counter : c # app => counters'[c] = counters[c]
           /\ din' = [din EXCEPT ![15 - j] = OutOf(app)]
<1>1. MatrixCycle /\ ~cr.direct_ctrl /\ ~cr'.direct_ctrl
  BY RunCycle
<1>2. ClkSh /\ ~Gate /\ (ShA <=> app = "a") /\ (ShB <=> app = "b") /\ ~ClkSh'
  BY <1>1, Selected
<1>3. app \in Counter
  BY DEF Shifters, Counter
<1>4. counters' = [c \in Counter |-> IF (c = "a" /\ ShA) \/ (c = "b" /\ ShB)
                                     THEN Shift(c, pm_din) ELSE counters[c]]
  BY <1>1, <1>2, Zenon DEF MatrixCycle
<1>5. /\ (app = "a" /\ ShA) \/ (app = "b" /\ ShB)
      /\ \A c \in Counter : c # app => ~((c = "a" /\ ShA) \/ (c = "b" /\ ShB))
  BY <1>2 DEF Shifters
<1>6. counters'[app] = Shift(app, pm_din)
  BY <1>3, <1>4, <1>5, Zenon
<1>7. \A c \in Counter : c # app => counters'[c] = counters[c]
  BY <1>4, <1>5, Zenon
<1>8. din' = Received(OutOf("a"), OutOf("b")) /\ rx = tx
  BY DEF RunsOn, Cycle, PmcCycle, HwInv, RegsOK
<1>9. (IF ShA THEN OutOf("a") ELSE OutOf("b")) = OutOf(app)
  BY <1>2 DEF Shifters
<1>10. CASE j = 0
  <2>1. rx.state = "WAITING"
    BY <1>8, <1>10 DEF Shifting, Shifter
  <2>2. din' = [din EXCEPT ![15] = OutOf(app)]
    BY <1>2, <1>8, <1>9, <2>1 DEF Received
  <2>3. 15 - j = 15
    BY <1>10
  <2> QED
    BY <1>6, <1>7, <2>2, <2>3, Zenon
<1>11. CASE j # 0
  <2>1. rx.state = "ACTIVE" /\ rx.bits_counter = j
    BY <1>8, <1>11 DEF Shifting, Shifter
  <2> QED
    BY <1>2, <1>6, <1>7, <1>8, <1>9, <2>1 DEF Received
<1> QED
  BY <1>10, <1>11

(* It lowers the shift clock, and the row is a bit further.                *)
LEMMA ShifterLowers ==
    ASSUME HwInv, NEW app \in Shifters, Holds(app), Fetched, ShifterInv(app),
           NEW access, RunsOn(access), access.reg # "dout", ~cr'.pmcc_trg,
           NEW m \in Machine, m.app = app, ShifterDoes(m),
           NEW j \in 0 .. 15, pc_id = 8 + 6 * j
    PROVE  ShifterDoes(m)'
<1>1. AtLow(app, j)
  <2>1. pc_id \notin {0, 1, 4, 101}
    OBVIOUS
  <2>2. \E i \in 0 .. 15 : AtHigh(app, i) \/ AtLow(app, i)
    BY <2>1 DEF ShifterInv, ShifterPlace, AtStart, AtWaitt, AtJump
  <2> QED
    BY <2>2, RowPlaces DEF AtHigh, AtLow
<1>2. matrix_ctrl = High(app) /\ tx = Shifting(j)
  BY <1>1 DEF AtLow
<1>3. pc_id' = 11 + 6 * j /\ matrix_ctrl' = Low(app)
  <2>1. pc_id \in 0 .. 101
    OBVIOUS
  <2> QED
    BY <2>1, ShifterMoves
<1>4. /\ counters'[app] = Shift(app, pm_din)
      /\ \A c \in Counter : c # app => counters'[c] = counters[c]
      /\ din' = [din EXCEPT ![15 - j] = OutOf(app)]
  BY <1>2, <1>3, FallingEdge
<1>5. dout' = dout
  BY DoutAfter DEF RunsOn
<1>6. Partly(m, j) /\ pm_din = dout[15 - j]
  BY DEF ShifterDoes
<1>7. Partly(m, j + 1)'
  <2>1. MatrixOK /\ RegsOK
    BY DEF HwInv
  <2> QED
    BY <1>4, <1>5, <1>6, <2>1, OneBit
<1>8. pc_id # 0 /\ pc_id' # 0
  BY <1>3
<1>9. /\ m.started <=> (pc_id' # 0 \/ cr'.pmcc_trg)
      /\ \A c \in Counter : c # m.app => counters'[c] = m.rows[c]
  BY <1>4, <1>8 DEF ShifterDoes
<1>10. CASE j = 15
  <2>1. pc_id' = 101 /\ Partly(m, 16)'
    BY <1>3, <1>7, <1>10
  <2>2. MatrixOK' /\ RegsOK'
    BY RunCycle
  <2>3. counters'[m.app] = m.rows[m.app] /\ din' = m.din
    BY <2>1, <2>2, AllBits
  <2>4. counters' = m.rows
    <3>1. counters' \in [Counter -> Matrix] /\ m.rows \in [Counter -> Matrix]
      BY <2>2, MachineParts DEF MatrixOK
    <3> QED
      BY <1>9, <2>3, <3>1
  <2>5. Same(m)'
    BY <2>3, <2>4 DEF Same
  <2>6. \A i \in 0 .. 15 : pc_id' # 5 + 6 * i /\ pc_id' # 8 + 6 * i
    BY <2>1
  <2> QED
    BY <1>9, <2>1, <2>5, <2>6 DEF ShifterDoes
<1>11. CASE j # 15
  <2>1. PICK i \in 0 .. 15 : i = j + 1
    BY <1>11
  <2>2. pc_id' = 5 + 6 * i /\ Partly(m, i)'
    BY <1>3, <1>7, <2>1
  <2>3. pc_id' \in 5 .. 100
    BY <2>2
  <2>4. InRow' /\ pc_id' # 4
    BY <2>3 DEF InRow
  <2>5. \A k \in 0 .. 15 : pc_id' # 8 + 6 * k /\ (pc_id' = 5 + 6 * k => k = i)
    BY <2>2, RowPlaces
  <2> QED
    BY <1>9, <2>2, <2>4, <2>5 DEF ShifterDoes
<1> QED
  BY <1>10, <1>11

(* So a shifter does what it was asked to, whatever it is at.              *)
LEMMA ShifterGoes ==
    ASSUME HwInv, NEW app \in Shifters, Holds(app), Fetched, ShifterInv(app),
           NEW access, RunsOn(access), access.reg # "dout", ~cr'.pmcc_trg,
           NEW m \in Machine, m.app = app, ShifterDoes(m)
    PROVE  ShifterDoes(m)'
<1>1. \/ pc_id \in {0, 1, 4, 101}
      \/ \E j \in 0 .. 15 : pc_id = 5 + 6 * j \/ pc_id = 8 + 6 * j
  BY DEF ShifterInv, ShifterPlace, AtStart, AtWaitt, AtJump, AtHigh, AtLow
<1> QED
  BY <1>1, ShifterAtRest, ShifterRaises, ShifterLowers

-----------------------------------------------------------------------------
(* A pulse program leaves din alone, and the counters but at the end of a  *)
(* gate pulse.                                                             *)
LEMMA PulserCounts ==
    ASSUME HwInv, NEW app \in Pulsers, Holds(app), Fetched, PulserPlace(app),
           NEW access, RunsOn(access)
    PROVE  /\ din' = din
           /\ counters' = IF pc_id = 4 /\ app = "hits" THEN Hits ELSE counters
<1>1. /\ PulserPlace(app)'
      /\ pc_id' = CASE pc_id = 0 -> IF cr.pmcc_trg THEN 1 ELSE 0
                    [] pc_id = 1 -> 4
                    [] pc_id = 4 -> 7
                    [] OTHER     -> 0
      /\ pc_id # 4 => counters' = counters
  BY PulserRuns
<1>2. MatrixCycle /\ ~cr.direct_ctrl /\ ~cr'.direct_ctrl
  BY RunCycle
<1>3. matrix_ctrl = IF pc_id = 4 THEN Line1(app) ELSE 0
  BY DEF PulserPlace
<1>4. din' = din
  <2>1. matrix_ctrl \in {0, 8, 32}
    BY <1>3 DEF Line1
  <2>2. ~ClkSh
    BY <1>2, <2>1, Lines
  <2>3. din' = Received(OutOf("a"), OutOf("b"))
    BY DEF RunsOn, Cycle, PmcCycle
  <2> QED
    BY <2>2, <2>3 DEF Received
<1>5. CASE pc_id = 4 /\ app = "hits"
  <2>1. matrix_ctrl = 8
    BY <1>3, <1>5 DEF Line1
  <2>2. matrix_ctrl' = 0
    BY <1>1, <1>5 DEF PulserPlace
  <2>3. Gate /\ ~Gate'
    BY <1>2, <2>1, <2>2, Lines, LinesAfter
  <2>4. counters' = Hits
    BY <1>2, <2>3 DEF MatrixCycle
  <2> QED
    BY <1>4, <1>5, <2>4
<1>6. CASE pc_id = 4 /\ app # "hits"
  <2>1. matrix_ctrl = 32
    BY <1>3, <1>6 DEF Line1, Pulsers
  <2>2. counters' = counters
    BY <2>1, QuietCycle DEF RunsOn
  <2> QED
    BY <1>4, <1>6, <2>2
<1>7. CASE pc_id # 4
  BY <1>1, <1>4, <1>7
<1> QED
  BY <1>5, <1>6, <1>7

(* A pulse program does what it was asked to.                              *)
LEMMA PulserGoes ==
    ASSUME HwInv, NEW app \in Pulsers, Holds(app), Fetched, PulserInv(app),
           NEW access, RunsOn(access), ~cr'.pmcc_trg,
           NEW m \in Machine, m.app = app, PulserDoes(m)
    PROVE  PulserDoes(m)'
<1>1. /\ pc_id' = CASE pc_id = 0 -> IF cr.pmcc_trg THEN 1 ELSE 0
                    [] pc_id = 1 -> 4
                    [] pc_id = 4 -> 7
                    [] OTHER     -> 0
      /\ din' = din
      /\ counters' = IF pc_id = 4 /\ app = "hits" THEN Hits ELSE counters
  BY PulserRuns, PulserCounts DEF PulserInv
<1>2. pc_id \in {0, 1, 4, 7} /\ (cr.pmcc_trg => pc_id = 0)
  BY DEF PulserInv, PulserPlace
<1>3. din' = m.din
  BY <1>1 DEF PulserDoes
<1>4. CASE app # "hits"
  <2>1. counters = m.rows /\ counters' = counters
    BY <1>1, <1>4 DEF PulserDoes
  <2> QED
    BY <1>3, <1>4, <2>1 DEF PulserDoes
<1>5. CASE app = "hits"
  <2>1. CASE cr.pmcc_trg \/ pc_id = 1
    <3>1. m.rows = Hits /\ pc_id' \in {1, 4}
      BY <1>1, <1>2, <1>5, <2>1 DEF PulserDoes
    <3> QED
      BY <1>3, <1>5, <3>1 DEF PulserDoes
  <2>2. CASE pc_id = 4
    <3>1. m.rows = Hits /\ counters' = Hits /\ pc_id' = 7
      BY <1>1, <1>5, <2>2 DEF PulserDoes
    <3> QED
      BY <1>3, <1>5, <3>1 DEF PulserDoes
  <2>3. CASE ~cr.pmcc_trg /\ pc_id \in {0, 7}
    <3>1. counters = m.rows /\ counters' = counters /\ pc_id' = 0
      BY <1>1, <2>3 DEF PulserDoes
    <3> QED
      BY <1>3, <1>5, <3>1 DEF PulserDoes
  <2> QED
    BY <1>2, <2>1, <2>2, <2>3
<1> QED
  BY <1>4, <1>5

(* A shifter that waits, while a register is accessed.                     *)
LEMMA ShifterStill ==
    ASSUME HwInv, NEW app \in Shifters, Holds(app), Fetched, ShifterInv(app),
           NEW access, RunsOn(access), pc_id \in {0, 4}, ~cr.pmcc_trg
    PROVE  pc_id' = pc_id /\ counters' = counters /\ din' = din
<1>1. matrix_ctrl \in {0, 2, 4, 32}
  <2>1. \A j \in 0 .. 15 : pc_id # 5 + 6 * j /\ pc_id # 8 + 6 * j
    OBVIOUS
  <2>2. AtStart \/ AtWaitt(app) \/ AtJump(app)
    BY <2>1 DEF ShifterInv, ShifterPlace, AtHigh, AtLow
  <2> QED
    BY <2>2 DEF AtStart, AtWaitt, AtJump, Low
<1>2. counters' = counters /\ din' = din
  BY <1>1, QuietCycle DEF RunsOn
<1>3. pc_id' = pc_id
  BY ShifterMoves
<1> QED
  BY <1>2, <1>3

(* The program that runs does what it was asked to.                        *)
LEMMA RunGoes ==
    ASSUME IInv, NEW access, RunsOn(access), access.reg # "dout", ~cr'.pmcc_trg,
           readout' = readout, NEW m \in Machine, Does(m)
    PROVE  Does(m)'
<1> DEFINE app == m.app
<1>1. /\ cr.pmcc_rst_n /\ cr'.pmcc_rst_n /\ HwInv
      /\ app \in Apps /\ Holds(app) /\ m.dout = dout /\ m.readout = readout
      /\ IF app \in Shifters THEN ShifterDoes(m) ELSE PulserDoes(m)
  BY MachineParts DEF RunsOn, Does, IInv
<1>2. /\ Fetched
      /\ app \in Shifters => ShifterInv(app)
      /\ app \in Pulsers => PulserInv(app)
  BY <1>1, TheApp
<1>3. m.dout = dout' /\ m.readout = readout'
  BY <1>1, DoutAfter DEF RunsOn
<1>4. Holds(app)'
  BY <1>1, RunCycle, HoldsOn
<1>5. CASE app \in Shifters
  <2>1. ShifterDoes(m)'
    BY <1>1, <1>2, <1>5, ShifterGoes
  <2> QED
    BY <1>1, <1>3, <1>4, <1>5, <2>1 DEF Does
<1>6. CASE app \notin Shifters
  <2>1. app \in Pulsers
    BY <1>1, <1>6 DEF Apps
  <2>2. PulserDoes(m)'
    BY <1>1, <1>2, <1>6, <2>1, PulserGoes
  <2> QED
    BY <1>1, <1>3, <1>4, <1>6, <2>2 DEF Does
<1> QED
  BY <1>5, <1>6

(* In reset nothing moves.                                                 *)
LEMMA ResetStill ==
    ASSUME HwInv, ResetInv, NEW access, Cycle(access)
    PROVE  counters' = counters /\ din' = din
<1>1. matrix_ctrl \in {0, 2, 4, 32}
  BY DEF ResetInv
<1> QED
  BY <1>1, QuietCycle

(* A cycle without an access that writes.                                  *)
LEMMA QuietDoes ==
    ASSUME IInv, Cycle(None), readout' = readout, NEW m \in Machine, Does(m)
    PROVE  Does(m)'
<1>1. HwInv /\ None \in Accesses /\ None.reg = "none"
  BY NoneAccess DEF IInv
<1>2. /\ cr'.pmcc_rst_n = cr.pmcc_rst_n /\ ~cr'.pmcc_trg
      /\ cr.pmcc_rst_n => RunsOn(None)
  BY <1>1, QuietAccess
<1>3. CASE cr.pmcc_rst_n
  BY <1>1, <1>2, <1>3, RunGoes
<1>4. CASE ~cr.pmcc_rst_n
  <2>1. ResetInv /\ Same(m) /\ m.dout = dout /\ m.readout = readout
    BY <1>4 DEF IInv, Does
  <2>2. counters' = counters /\ din' = din
    BY <1>1, <2>1, ResetStill
  <2>3. dout' = dout
    BY <1>1, DoutAfter
  <2> QED
    BY <1>2, <1>4, <2>1, <2>2, <2>3 DEF Does, Same
<1> QED
  BY <1>3, <1>4

-----------------------------------------------------------------------------
(* The accesses of the drivers, one by one: the hardware keeps up with     *)
(* what the function that returns has asked for.                           *)

(* The coprocessor is reset between two rows, and after the last pulse.    *)
LEMMA AssertResetDoes ==
    ASSUME IInv, AssertReset, NEW m \in Machine, Does(m)
    PROVE  Does(m)'
<1>1. /\ SwInv /\ HwInv
      /\ IF cr.pmcc_rst_n THEN RunInv ELSE ResetInv
  BY DEF IInv
<1> DEFINE v == [staged EXCEPT !.pmcc_rst_n = FALSE]
<1>2. /\ Doing("load_application") /\ phase = 1 /\ Cycle(WriteCr(v)) /\ readout' = readout
  BY DEF AssertReset, Bus, Cycle
<1>3. v \in Cr /\ ~v.direct_ctrl /\ ~v.pmcc_rst_n
  BY <1>1 DEF SwInv, Cr
<1> HIDE DEF v
<1>4. WriteCr(v) \in Accesses /\ WriteCr(v).reg = "cr"
  BY <1>3, CrAccess
<1>5. ~cr'.pmcc_rst_n
  <2>1. cr' = CrAfter(WriteCr(v))
    BY <1>1, <1>2, <1>4, CycleRegs DEF Cycle, HwInv
  <2> QED
    BY <1>1, <1>3, <2>1, CrWritten DEF HwInv, RegsOK
<1>6. dout' = dout
  BY <1>2, <1>4, DoutAfter
<1>7. Same(m) /\ Restful
  <2>1. CASE ~cr.pmcc_rst_n
    BY <1>1, <2>1 DEF ResetInv, Restful, Does
  <2>2. CASE cr.pmcc_rst_n
    <3> DEFINE app == m.app
    <3>1. /\ app \in Apps /\ Holds(app)
          /\ IF app \in Shifters THEN ShifterDoes(m) ELSE PulserDoes(m)
      BY <2>2, MachineParts DEF Does
    <3>2. /\ app \in Shifters => ShifterInv(app)
          /\ app \in Pulsers => PulserInv(app)
      BY <2>2, <3>1, TheApp
    <3>3. IF app \in Shifters THEN ShifterInv(app) ELSE PulserInv(app)
      BY <3>1, <3>2 DEF Apps
    <3>4. phase > 0 /\ phase # 0
      BY <1>2
    <3>5. Restful
      <4> HIDE DEF app
      <4> QED
        BY <1>1, <1>2, <3>1, <3>3, <3>4, AtRest
    <3>6. CASE app \in Shifters
      <4>1. ~Doing("poll")
        BY <1>2, OneFn
      <4>2. ~InRow
        BY <3>2, <3>6, <4>1 DEF ShifterInv, InRow
      <4> QED
        BY <3>1, <3>5, <3>6, <4>2 DEF ShifterDoes
    <3>7. CASE app \notin Shifters
      <4>1. ~cr.pmcc_trg /\ pc_id \notin {1, 4}
        BY <3>3, <3>4, <3>7 DEF PulserInv
      <4> QED
        BY <3>1, <3>5, <3>7, <4>1 DEF PulserDoes, Same
    <3> QED
      BY <3>6, <3>7
  <2> QED
    BY <2>1, <2>2
<1>8. counters' = counters /\ din' = din
  <2>1. matrix_ctrl \in {0, 2, 4, 32}
    BY <1>7 DEF Restful, SelectValues
  <2> QED
    BY <1>1, <1>2, <2>1, QuietCycle
<1> QED
  BY <1>2, <1>5, <1>6, <1>7, <1>8 DEF Does, Same

(* A word of the program is written, in reset.                             *)
LEMMA WriteWordDoes ==
    ASSUME IInv, WriteWord, NEW m \in Machine, Does(m)
    PROVE  Does(m)'
<1>1. SwInv /\ HwInv
  BY DEF IInv
<1> DEFINE app == Head(ops).app
           w == phase - 2
           access == WriteCode(4 * w, CodeWord(app, w))
<1>2. /\ Doing("load_application") /\ w \in 0 .. Words(app) - 1
      /\ Cycle(access) /\ readout' = readout
  BY DEF WriteWord, Bus, Cycle
<1>3. /\ app \in Apps /\ Words(app) \in {3, 26}
  BY <1>1, <1>2, LoadedApp, Words103 DEF SwInv
<1>4. w \in Nat
  <2> HIDE DEF w, app
  <2> QED
    BY <1>2, <1>3
<1>5. phase >= 2
  <2>1. phase \in Nat
    BY <1>1, GapType
  <2> QED
    BY <1>4, <2>1
<1>6. ~cr.pmcc_rst_n /\ ResetInv
  BY <1>2, <1>5, LoadsInReset
<1>7. access \in Accesses /\ access.reg = "code"
  <2>1. CodeWord(app, w) \in [0 .. 3 -> Byte]
    BY <1>3, <1>4, WordOfCode
  <2> HIDE DEF app, w
  <2> QED
    BY <1>4, <2>1 DEF Accesses, WriteCode
<1> HIDE DEF access, app, w
<1>8. ~cr'.pmcc_rst_n
  <2>1. cr' = CrAfter(access)
    BY <1>1, <1>2, <1>7, CycleRegs DEF Cycle, HwInv
  <2> QED
    BY <1>1, <1>6, <1>7, <2>1, CrKept DEF HwInv, RegsOK
<1>9. counters' = counters /\ din' = din
  BY <1>1, <1>2, <1>6, ResetStill
<1>10. dout' = dout
  BY <1>2, <1>7, DoutAfter
<1> QED
  BY <1>2, <1>6, <1>8, <1>9, <1>10 DEF Does, Same

(* The coprocessor is released, with the program that was loaded.          *)
LEMMA ReleaseResetDoes ==
    ASSUME IInv, ReleaseReset, NEW m \in Machine, Does(m),
           NEW q, q = Done(Head(ops), m)
    PROVE  Does(q)'
<1>1. SwInv /\ HwInv
  BY DEF IInv
<1> DEFINE v == [staged EXCEPT !.pmcc_rst_n = TRUE]
<1>2. Doing("load_application")
  BY DEF ReleaseReset
<1>3. PICK app \in Apps : app = Head(ops).app
  BY <1>1, <1>2, LoadedApp DEF SwInv
<1>4. /\ phase = Words(app) + 3 /\ Cycle(WriteCr(v)) /\ readout' = readout
  BY <1>3 DEF ReleaseReset, Bus, Cycle
<1>5. Words(app) \in {3, 26}
  BY Words103
<1>6. phase >= 2 /\ phase - 2 = Words(app) + 1
  <2>1. phase = Words(app) + 3
    BY <1>4
  <2> QED
    BY <1>5, <2>1
<1>7. ~cr.pmcc_rst_n /\ ResetInv
  BY <1>2, <1>6, LoadsInReset
<1>8. v \in Cr /\ ~v.direct_ctrl /\ v.pmcc_rst_n /\ ~v.pmcc_trg
  BY <1>1 DEF SwInv, Cr
<1> HIDE DEF v
<1>9. WriteCr(v) \in Accesses /\ WriteCr(v).reg = "cr"
  BY <1>8, CrAccess
<1>10. cr'.pmcc_rst_n /\ ~cr'.pmcc_trg
  <2>1. cr' = CrAfter(WriteCr(v))
    BY <1>1, <1>4, <1>9, CycleRegs DEF Cycle, HwInv
  <2> QED
    BY <1>1, <1>8, <2>1, CrWritten DEF HwInv, RegsOK
<1>11. pc_id' = 0 /\ code' = code
  <2>1. Restful
    BY <1>7 DEF ResetInv, Restful
  <2>2. pc_id' = 0 /\ code' = CodeAfter(WriteCr(v))
    BY <1>1, <1>4, <1>7, <1>9, <2>1, ResetCycle
  <2> QED
    BY <1>9, <2>2 DEF CodeAfter
<1>12. counters' = counters /\ din' = din /\ dout' = dout
  BY <1>1, <1>4, <1>7, <1>9, ResetStill, DoutAfter
<1>13. Holds(app)'
  <2>1. Loaded(app, 4 * (phase - 2))
    BY <1>2, <1>3, <1>7 DEF ResetInv
  <2>2. Holds(app)
    <3>1. /\ Len(Application[app]) \in Nat /\ Len(Application[app]) <= 4 * Words(app)
      BY Words103
    <3>2. Len(Application[app]) <= 4 * (phase - 2) /\ 4 * (phase - 2) \in Int
      BY <1>5, <1>6, <3>1
    <3>3. \A k \in 1 .. Len(Application[app]) : k <= 4 * (phase - 2)
      BY <3>1, <3>2
    <3> QED
      BY <2>1, <3>3 DEF Loaded, Holds
  <2> QED
    BY <1>11, <2>2, HoldsOn
<1>14. LoadDone(m, app, q) /\ q \in Machine
  <2>1. Head(ops) \in DriverCalls /\ Head(ops).fn = "load_application"
    BY <1>1, <1>2, HeadTailProperties DEF SwInv, Doing
  <2> QED
    BY <1>3, <2>1, DoneIs
<1>15. /\ q.app = app /\ ~q.started /\ q.dout = dout' /\ q.readout = readout'
       /\ counters' = q.rows /\ din' = q.din
  BY <1>4, <1>7, <1>12, <1>14 DEF Does, LoadDone, Same
<1>16. ShifterDoes(q)'
  <2>1. Same(q)'
    BY <1>15 DEF Same
  <2>2. \A j \in 0 .. 15 : pc_id' # 5 + 6 * j /\ pc_id' # 8 + 6 * j
    BY <1>11
  <2> QED
    BY <1>10, <1>11, <1>15, <2>1, <2>2 DEF ShifterDoes
<1>17. PulserDoes(q)'
  BY <1>10, <1>11, <1>15 DEF PulserDoes
<1> QED
  BY <1>10, <1>13, <1>14, <1>15, <1>16, <1>17 DEF Does

(* A trigger starts a shifter, or a row, or a pulse.                       *)
LEMMA WriteTriggerDoes ==
    ASSUME IInv, WriteTrigger, NEW m \in Machine, Does(m),
           NEW q, q = Done(Head(ops), m)
    PROVE  Does(q)'
<1>1. /\ SwInv /\ HwInv /\ (cr.pmcc_trg => gap = 1)
      /\ IF cr.pmcc_rst_n THEN RunInv ELSE ResetInv
  BY DEF IInv
<1> DEFINE v == [staged EXCEPT !.pmcc_trg = TRUE]
           access == WriteCr(v)
           app == m.app
<1>2. /\ gap >= 2 /\ Doing("trigger") /\ phase = 1 /\ Cycle(access) /\ readout' = readout
  BY DEF WriteTrigger, Ready, RmwGap, Bus, Cycle
<1>3. cr.pmcc_rst_n
  BY <1>1, <1>2, ResetOps
<1>4. ~cr.pmcc_trg
  <2>1. gap # 1
    BY <1>2
  <2> QED
    BY <1>1, <2>1
<1>5. v \in Cr /\ ~v.direct_ctrl /\ v.pmcc_rst_n /\ v.pmcc_trg
  BY <1>1, <1>2 DEF SwInv, Cr
<1>6. access \in Accesses /\ access.reg = "cr" /\ access.reg # "code"
  <2> HIDE DEF v
  <2> QED
    BY <1>5, CrAccess
<1>7. cr'.pmcc_rst_n /\ cr'.pmcc_trg
  <2>1. cr' = CrAfter(access)
    BY <1>1, <1>2, <1>6, CycleRegs DEF Cycle, HwInv
  <2>2. cr \in Cr
    BY <1>1 DEF HwInv, RegsOK
  <2> HIDE DEF v
  <2> QED
    BY <1>4, <1>5, <2>1, <2>2, CrWritten
<1> HIDE DEF access, v
<1>8. RunsOn(access) /\ dout' = dout
  BY <1>2, <1>3, <1>6, <1>7, DoutAfter DEF RunsOn
<1>9. /\ app \in Apps /\ Holds(app) /\ m.dout = dout /\ m.readout = readout
      /\ IF app \in Shifters THEN ShifterDoes(m) ELSE PulserDoes(m)
  BY <1>3, MachineParts DEF Does
<1>10. /\ Fetched
       /\ app \in Shifters => ShifterInv(app)
       /\ app \in Pulsers => PulserInv(app)
  BY <1>3, <1>9, TheApp
<1>11. Holds(app)'
  BY <1>1, <1>8, <1>9, RunCycle, HoldsOn
<1>12. Head(ops) \in DriverCalls /\ Head(ops).fn = "trigger"
  BY <1>1, <1>2, HeadTailProperties DEF SwInv, Doing
<1>13. /\ app = "hits" => HitsDone(m, q)
       /\ app = "latcher" => q = m
       /\ app \in Shifters /\ ~m.started => StartDone(m, q)
       /\ app \in Shifters /\ m.started => RowDone(m, q)
       /\ q \in Machine
  BY <1>12, DoneIs
<1>14. CASE app \in Shifters
  <2>1. ~Doing("poll")
    BY <1>2, OneFn
  <2>2. pc_id \in {0, 4}
    BY <1>10, <1>14, <2>1 DEF ShifterInv
  <2>3. pc_id' = pc_id /\ counters' = counters /\ din' = din
    BY <1>1, <1>4, <1>8, <1>9, <1>10, <1>14, <2>2, ShifterStill
  <2>4. /\ counters = m.rows /\ din = m.din
        /\ m.started <=> pc_id # 0
    <3>1. ~InRow
      BY <1>4, <2>2 DEF InRow
    <3> QED
      BY <1>4, <1>9, <1>14, <3>1 DEF ShifterDoes, Same
  <2>5. \A j \in 0 .. 15 : pc_id' # 5 + 6 * j /\ pc_id' # 8 + 6 * j
    BY <2>2, <2>3
  <2>6. CASE pc_id = 0
    <3>1. StartDone(m, q)
      BY <1>13, <1>14, <2>4, <2>6
    <3>2. /\ q.app = m.app /\ q.started /\ q.dout = dout' /\ q.readout = readout'
          /\ counters' = q.rows /\ din' = q.din
      BY <1>2, <1>8, <1>9, <2>3, <2>4, <3>1 DEF StartDone
    <3>3. Same(q)' /\ pc_id' # 4
      BY <2>3, <2>6, <3>2 DEF Same
    <3>4. ShifterDoes(q)'
      BY <1>7, <2>5, <3>2, <3>3 DEF ShifterDoes
    <3> QED
      BY <1>7, <1>11, <1>13, <1>14, <3>2, <3>4 DEF Does
  <2>7. CASE pc_id = 4
    <3>1. RowDone(m, q)
      BY <1>13, <1>14, <2>4, <2>7
    <3>2. /\ Partly(q, 0)
          /\ \A c \in Counter : c # q.app => counters[c] = q.rows[c]
      BY <1>9, <1>14, <2>4, <3>1, NoBits
    <3>3. Partly(q, 0)' /\ \A c \in Counter : c # q.app => counters'[c] = q.rows[c]
      BY <1>8, <2>3, <3>2, PartlyStays
    <3>4. q.app = m.app /\ q.started /\ q.dout = dout' /\ q.readout = readout'
      BY <1>2, <1>8, <1>9, <3>1 DEF RowDone
    <3>5. InRow'
      BY <1>7, <2>3, <2>7 DEF InRow
    <3>6. ShifterDoes(q)'
      BY <1>7, <2>5, <3>3, <3>4, <3>5 DEF ShifterDoes
    <3> QED
      BY <1>7, <1>11, <1>13, <1>14, <3>4, <3>6 DEF Does
  <2> QED
    BY <2>2, <2>6, <2>7
<1>15. CASE app \notin Shifters
  <2>1. app \in Pulsers /\ PulserInv(app) /\ PulserDoes(m)
    BY <1>9, <1>10, <1>15 DEF Apps
  <2>2. pc_id = 0
    BY <1>2, <2>1 DEF PulserInv
  <2>3. din' = din /\ counters' = counters
    BY <1>1, <1>8, <1>9, <1>10, <2>1, <2>2, PulserCounts DEF PulserInv
  <2>4. /\ q.app = app /\ q.dout = dout' /\ q.readout = readout' /\ q.din = m.din
        /\ q.rows = IF app = "hits" THEN Hits ELSE m.rows
    BY <1>2, <1>8, <1>9, <1>13, <2>1 DEF HitsDone, Pulsers
  <2>5. app # "hits" => counters = m.rows
    BY <2>1 DEF PulserDoes
  <2>6. PulserDoes(q)'
    BY <1>7, <2>1, <2>3, <2>4, <2>5 DEF PulserDoes
  <2> QED
    BY <1>7, <1>11, <1>13, <1>15, <2>4, <2>6 DEF Does
<1> QED
  BY <1>14, <1>15

(* The word to shift in is written between two rows, or in reset.          *)
LEMMA WriteDoutDoes ==
    ASSUME IInv, WriteDoutWord, NEW m \in Machine, Does(m),
           NEW q, q = Done(Head(ops), m)
    PROVE  Does(q)'
<1>1. SwInv /\ HwInv /\ (cr.pmcc_trg => gap = 1)
  BY DEF IInv
<1> DEFINE wd == Head(ops).word
           access == WriteDout(wd)
           app == m.app
<1>2. /\ gap >= 4 /\ Cycle(access) /\ Doing("set_dout") /\ readout' = readout
  BY DEF WriteDoutWord, Ready, Bus, Cycle, CallGap
<1>3. access \in Accesses /\ access.reg = "dout" /\ access.val = wd
  BY <1>1, <1>2, SetDoutWord DEF SwInv, Accesses, WriteDout
<1> HIDE DEF access
<1>4. /\ cr'.pmcc_rst_n = cr.pmcc_rst_n /\ ~cr'.pmcc_trg /\ code' = code
      /\ cr.pmcc_rst_n => RunsOn(access)
  BY <1>1, <1>2, <1>3, QuietAccess
<1>5. dout' = wd
  BY <1>2, <1>3, DoutAfter
<1>6. DoutDone(m, wd, q) /\ q \in Machine
  <2>1. Head(ops) \in DriverCalls /\ Head(ops).fn = "set_dout"
    BY <1>1, <1>2, HeadTailProperties DEF SwInv, Doing
  <2> QED
    BY <2>1, DoneIs
<1>7. /\ q.app = app /\ (q.started <=> m.started) /\ q.rows = m.rows /\ q.din = m.din
      /\ q.dout = dout' /\ q.readout = readout'
  <2>1. m.readout = readout
    BY DEF Does
  <2> QED
    BY <1>2, <1>5, <1>6, <2>1 DEF DoutDone
<1> HIDE DEF wd
<1>8. CASE ~cr.pmcc_rst_n
  <2>1. ResetInv /\ Same(m)
    BY <1>8 DEF IInv, Does
  <2>2. counters' = counters /\ din' = din
    BY <1>1, <1>2, <2>1, ResetStill
  <2> QED
    BY <1>4, <1>6, <1>7, <1>8, <2>1, <2>2 DEF Does, Same
<1>9. CASE cr.pmcc_rst_n
  <2>1. /\ app \in Apps /\ Holds(app)
        /\ IF app \in Shifters THEN ShifterDoes(m) ELSE PulserDoes(m)
    BY <1>9, MachineParts DEF Does
  <2>2. /\ Fetched
        /\ app \in Shifters => ShifterInv(app)
        /\ app \in Pulsers => PulserInv(app)
    BY <1>9, <2>1, TheApp
  <2>3. RunsOn(access) /\ Holds(app)'
    BY <1>4, <1>9, <2>1, HoldsOn
  <2>4. CASE app \in Shifters
    <3>1. ~Doing("poll")
      BY <1>2, OneFn
    <3>2. pc_id \in {0, 4} /\ ~cr.pmcc_trg
      BY <2>2, <2>4, <3>1 DEF ShifterInv
    <3>3. pc_id' = pc_id /\ counters' = counters /\ din' = din
      BY <1>1, <2>1, <2>2, <2>3, <2>4, <3>2, ShifterStill
    <3>4. Same(m) /\ (m.started <=> pc_id # 0)
      <4>1. ~InRow
        BY <3>2 DEF InRow
      <4> QED
        BY <2>1, <2>4, <3>2, <4>1 DEF ShifterDoes
    <3>5. Same(q)'
      BY <1>7, <3>3, <3>4 DEF Same
    <3>6. \A j \in 0 .. 15 : pc_id' # 5 + 6 * j /\ pc_id' # 8 + 6 * j
      BY <3>2, <3>3
    <3>7. q.started <=> (pc_id' # 0 \/ cr'.pmcc_trg)
      BY <1>4, <1>7, <3>3, <3>4
    <3>8. ShifterDoes(q)'
      BY <1>4, <3>5, <3>6, <3>7 DEF ShifterDoes, Same
    <3> QED
      BY <1>4, <1>6, <1>7, <1>9, <2>3, <2>4, <3>8 DEF Does
  <2>5. CASE app \notin Shifters
    <3>1. app \in Pulsers /\ PulserDoes(m)
      BY <2>1, <2>5 DEF Apps
    <3>2. PulserDoes(m)'
      BY <1>1, <1>4, <2>1, <2>2, <2>3, <3>1, PulserGoes
    <3>3. PulserDoes(q)'
      BY <1>7, <3>2 DEF PulserDoes
    <3> QED
      BY <1>4, <1>6, <1>7, <1>9, <2>3, <2>5, <3>3 DEF Does
  <2> QED
    BY <2>4, <2>5
<1> QED
  BY <1>8, <1>9

(* A word is read after a poll, or after another word.                     *)
LEMMA BeforeGetDin ==
    ASSUME ops \in Seq(DriverCalls), Orderly(ops), ops # <<>>, ops' = Tail(ops),
           Doing("get_din")'
    PROVE  Doing("poll") \/ Doing("get_din")
<1>1. /\ ops' \in Seq(DriverCalls) /\ Len(ops') = Len(ops) - 1 /\ Len(ops) \in Nat
      /\ Head(ops) = ops[1] /\ Len(ops) >= 1
      /\ \A i \in 1 .. Len(ops) - 1 : ops'[i] = ops[i + 1]
  <2>1. IsTail(ops', ops)
    BY TailOfCalls
  <2> QED
    BY <2>1 DEF IsTail
<1>2. ops' # <<>> /\ Head(ops').fn = "get_din"
  BY DEF Doing
<1>3. Len(ops') # 0
  BY <1>1, <1>2, EmptyCalls
<1>4. 1 \in 1 .. Len(ops) - 1 /\ 1 + 1 = 2 /\ Len(ops) > 1
  BY <1>1, <1>3
<1>5. Head(ops') = ops'[1] /\ ops'[1] = ops[1 + 1]
  BY <1>1, <1>2, <1>4
<1>6. Follows(ops[1], ops[2]) /\ ops[2].fn = "get_din"
  <2>1. Follows(ops[1], ops[1 + 1])
    BY <1>4 DEF Orderly
  <2> QED
    BY <1>2, <1>4, <1>5, <2>1
<1>7. ops[1] \in DriverCalls
  BY <1>1, <1>4
<1>8. ops[1].fn \in {"load_application", "trigger", "poll", "set_dout", "get_din"}
  BY <1>7 DEF DriverCalls, Trigger, Poll
<1> QED
  BY <1>1, <1>6, <1>8 DEF Follows, Doing

(* When a word is about to be read, or the status says that it can be, the *)
(* shifters rest.                                                          *)
LEMMA RestsForDin ==
    ASSUME IInv, Doing("get_din") \/ (Doing("poll") /\ gap >= 3 /\ pmcc_wtt),
           Cycle(None)
    PROVE  din' = din
<1>1. /\ SwInv /\ HwInv /\ (cr.pmcc_trg => gap = 1) /\ gap \in 1 .. 4
      /\ IF cr.pmcc_rst_n THEN RunInv ELSE ResetInv
  BY GapType DEF IInv, SwInv, CallGap
<1>2. cr.pmcc_rst_n
  BY <1>1, ResetOps
<1>3. RunsOn(None)
  BY <1>1, <1>2, NoneAccess, QuietAccess
<1>4. PICK app \in Apps :
          /\ Holds(app) /\ Fetched
          /\ IF app \in Shifters THEN ShifterInv(app) ELSE PulserInv(app)
  BY <1>2, RunningApp
<1>5. app \in Shifters
  <2>1. ~Doing("load_application") /\ ~Doing("set_dout") /\ ~Doing("trigger") /\ ops # <<>>
    BY DEF Doing
  <2>2. ~PulserInv(app)
    BY <2>1 DEF PulserInv, Fresh, LastTrigger
  <2> QED
    BY <1>4, <2>2
<1>6. pc_id \in {0, 4} /\ ~cr.pmcc_trg
  <2>1. CASE Doing("get_din")
    <3>1. ~Doing("poll")
      BY <2>1, OneFn
    <3> QED
      BY <1>4, <1>5, <3>1 DEF ShifterInv
  <2>2. CASE gap >= 3 /\ pmcc_wtt
    BY <1>1, <1>4, <1>5, <2>2 DEF ShifterInv
  <2> QED
    BY <2>1, <2>2
<1> QED
  BY <1>1, <1>3, <1>4, <1>5, <1>6, ShifterStill

(* A call begins with loading an application, or with a word for it.       *)
LEMMA StartsFresh ==
    ASSUME NEW call \in Calls, Start(call)
    PROVE  Fresh'
<1>1. ops' = Ops(call)
  BY DEF Start
<1>2. /\ Ops(call) \in Seq(DriverCalls) /\ Len(Ops(call)) >= 2
      /\ \/ Ops(call)[1].fn = "load_application"
         \/ Ops(call)[1].fn = "set_dout" /\ Ops(call)[2].fn = "load_application"
  BY CallsOrderly
<1>3. ops' # <<>> /\ Head(ops') = ops'[1] /\ Len(ops') > 1
  BY <1>1, <1>2
<1> QED
  BY <1>1, <1>2, <1>3 DEF Fresh, Doing, Next2

(* When a word is about to be read, the register of the PMC holds all of   *)
(* what the receiver has.                                                  *)
Copied == Doing("get_din") => din_reg = din

LEMMA CopiedNext == IInv /\ Copied /\ [PixNext]_pixvars => Copied'
<1> SUFFICES ASSUME IInv, Copied, [PixNext]_pixvars, Doing("get_din")'
             PROVE  din_reg' = din'
  BY DEF Copied
<1>1. /\ SwInv /\ ops \in Seq(DriverCalls) /\ Orderly(ops)
  BY DEF IInv, SwInv
<1>2. /\ \A fn : Doing(fn) => ops # <<>>
      /\ \A f, g : Doing(f) /\ f # g => ~Doing(g)
  BY OneFn DEF Doing
<1>3. ops' = ops => Doing("get_din")
  BY DEF Doing
<1>4. ops # <<>> /\ ops' = Tail(ops) => Doing("poll") \/ Doing("get_din")
  BY <1>1, BeforeGetDin
<1>5. ASSUME Cycle(None), Doing("get_din") \/ (Doing("poll") /\ gap >= 3 /\ pmcc_wtt)
      PROVE  din_reg' = din'
  <2>1. din' = din
    BY <1>5, RestsForDin
  <2>2. din_reg' = din
    BY <1>5 DEF Cycle, PmcCycle
  <2> QED
    BY <2>1, <2>2
<1>6. CASE Wait
  <2>1. Cycle(None) /\ ops' = ops
    BY <1>6 DEF Wait, Cycle
  <2> QED
    BY <1>3, <1>5, <2>1
<1>7. CASE ReadCr \/ AssertReset \/ WriteWord
  <2>1. ops' = ops /\ (Doing("load_application") \/ Doing("trigger"))
    BY <1>7 DEF ReadCr, AssertReset, WriteWord, More
  <2> QED
    BY <1>2, <1>3, <2>1
<1>8. CASE ReleaseReset \/ WriteTrigger \/ WriteDoutWord
  <2>1. /\ ops' = Tail(ops)
        /\ Doing("load_application") \/ Doing("trigger") \/ Doing("set_dout")
    BY <1>8 DEF ReleaseReset, WriteTrigger, WriteDoutWord, Return
  <2> QED
    BY <1>2, <1>4, <2>1
<1>9. CASE PollStatus
  <2>1. /\ Cycle(None) /\ Doing("poll") /\ gap >= 4
        /\ (pmcc_wtt /\ ops' = Tail(ops)) \/ ops' = ops
    BY <1>9 DEF PollStatus, Bus, Cycle, Return, Ready, CallGap
  <2>2. gap >= 3
    BY <1>1, <2>1 DEF SwInv, CallGap
  <2> QED
    BY <1>2, <1>3, <1>5, <2>1, <2>2
<1>10. CASE ReadDinWord
  <2>1. Cycle(None) /\ Doing("get_din")
    BY <1>10 DEF ReadDinWord, Bus, Cycle
  <2> QED
    BY <1>5, <2>1
<1>11. ASSUME NEW call \in Calls, Start(call) PROVE FALSE
  <2>1. Fresh'
    BY <1>11, StartsFresh
  <2> QED
    BY <2>1 DEF Fresh, Doing
<1>12. CASE UNCHANGED pixvars
  BY <1>3, <1>12 DEF pixvars, swvars, pmcvars, Copied
<1> QED
  BY <1>6, <1>7, <1>8, <1>9, <1>10, <1>11, <1>12 DEF PixNext, Access

(* The word shifted out is read when all of it is in the register.         *)
LEMMA ReadDinDoes ==
    ASSUME IInv, Copied, ReadDinWord, NEW m \in Machine, Does(m),
           NEW q, q = Done(Head(ops), m)
    PROVE  Does(q)'
<1>1. /\ SwInv /\ HwInv
      /\ IF cr.pmcc_rst_n THEN RunInv ELSE ResetInv
  BY DEF IInv
<1> DEFINE r == Head(ops).row
           app == m.app
<1>2. /\ Cycle(None) /\ Doing("get_din") /\ readout' = [readout EXCEPT ![r] = din]
  BY DEF ReadDinWord, Bus, Cycle, Copied
<1>3. None \in Accesses /\ None.reg = "none"
  BY NoneAccess
<1>4. cr.pmcc_rst_n
  BY <1>1, <1>2, ResetOps
<1>5. /\ cr'.pmcc_rst_n /\ ~cr'.pmcc_trg /\ code' = code /\ RunsOn(None)
  BY <1>1, <1>2, <1>3, <1>4, QuietAccess
<1>6. dout' = dout
  BY <1>2, <1>3, DoutAfter
<1>7. DinDone(m, r, q) /\ q \in Machine
  <2>1. Head(ops) \in DriverCalls /\ Head(ops).fn = "get_din"
    BY <1>1, <1>2, HeadTailProperties DEF SwInv, Doing
  <2> QED
    BY <2>1, DoneIs
<1> HIDE DEF r
<1>8. /\ app \in Apps /\ Holds(app) /\ m.dout = dout /\ m.readout = readout
      /\ IF app \in Shifters THEN ShifterDoes(m) ELSE PulserDoes(m)
  BY <1>4, MachineParts DEF Does
<1>9. /\ Fetched
      /\ app \in Shifters => ShifterInv(app)
      /\ app \in Pulsers => PulserInv(app)
  BY <1>4, <1>8, TheApp
<1>10. app \in Shifters
  <2>1. ~Doing("load_application") /\ ~Doing("set_dout") /\ ~Doing("trigger") /\ ops # <<>>
    BY <1>2 DEF Doing
  <2>2. ~PulserInv(app)
    BY <2>1 DEF PulserInv, Fresh, LastTrigger
  <2> QED
    BY <1>8, <1>9, <2>2 DEF Apps
<1>11. pc_id \in {0, 4} /\ ~cr.pmcc_trg
  <2>1. ~Doing("poll")
    BY <1>2, OneFn
  <2> QED
    BY <1>9, <1>10, <2>1 DEF ShifterInv
<1>12. pc_id' = pc_id /\ counters' = counters /\ din' = din
  BY <1>1, <1>5, <1>8, <1>9, <1>10, <1>11, ShifterStill
<1>13. counters = m.rows /\ din = m.din /\ (m.started <=> pc_id # 0)
  <2>1. ~InRow
    BY <1>11 DEF InRow
  <2> QED
    BY <1>8, <1>10, <1>11, <2>1 DEF ShifterDoes, Same
<1>14. /\ q.app = app /\ (q.started <=> m.started) /\ counters' = q.rows /\ din' = q.din
       /\ q.dout = dout' /\ q.readout = readout'
  BY <1>2, <1>6, <1>7, <1>8, <1>12, <1>13 DEF DinDone
<1>15. ShifterDoes(q)'
  <2>1. Same(q)'
    BY <1>14 DEF Same
  <2>2. \A j \in 0 .. 15 : pc_id' # 5 + 6 * j /\ pc_id' # 8 + 6 * j
    BY <1>11, <1>12
  <2>3. q.started <=> (pc_id' # 0 \/ cr'.pmcc_trg)
    BY <1>5, <1>12, <1>13, <1>14
  <2> QED
    BY <1>5, <1>14, <2>1, <2>2, <2>3 DEF ShifterDoes
<1> QED
  BY <1>5, <1>7, <1>8, <1>10, <1>14, <1>15, HoldsOn DEF Does

-----------------------------------------------------------------------------
(* Where nothing is left to do, the call has done what it should.          *)
LEMMA OpensLong ==
    ASSUME NEW s, NEW m, NEW c \in Shifters, NEW t \in Seq(DriverCalls), Opens(s, m, c, t)
    PROVE  s # <<>>
<1>1. Load(c) \in DriverCalls /\ Trigger \in DriverCalls /\ Poll \in DriverCalls
  BY DriverFns DEF Apps
<1> DEFINE p == Then(Poll, t)
           tp == Then(Trigger, p)
           l == Then(Load(c), tp)
<1>2. p \in Seq(DriverCalls) /\ p # <<>>
  BY <1>1, StartsWith
<1> HIDE DEF p
<1>3. tp \in Seq(DriverCalls) /\ tp # <<>>
  BY <1>1, <1>2, StartsWith
<1> HIDE DEF tp
<1>4. l # <<>>
  BY <1>1, <1>3, StartsWith
<1>5. s = l \/ s = tp \/ s = p
  BY DEF Opens, Opening, l, tp, p
<1> QED
  BY <1>2, <1>3, <1>4, <1>5

(* A pulse is something to do too.                                         *)
LEMMA PulsingLong ==
    ASSUME NEW s, NEW m, NEW app \in Apps, NEW t \in Seq(DriverCalls),
           Pulsing(s, m, app, t)
    PROVE  s # <<>>
<1>1. Load(app) \in DriverCalls /\ Trigger \in DriverCalls
  BY DriverFns
<1> DEFINE p == Then(Trigger, t)
           l == Then(Load(app), p)
<1>2. p \in Seq(DriverCalls) /\ p # <<>>
  BY <1>1, StartsWith
<1> HIDE DEF p
<1>3. l # <<>>
  BY <1>1, <1>2, StartsWith
<1>4. s = l \/ s = p
  BY DEF Pulsing, PulseOf, l, p
<1> QED
  BY <1>2, <1>3, <1>4

(* So are the rounds of the loops.                                         *)
LEMMA RoundsLong ==
    ASSUME NEW n \in 0 .. Rows - 1, NEW t \in Seq(DriverCalls), NEW data \in Matrix
    PROVE  /\ ReadFrom(n) # <<>> /\ ValueRest(n, t) # <<>> /\ ConfigRest(n, data) # <<>>
           /\ Then(Poll, Then(GetDin(Rows - 1 - n), ReadFrom(n + 1))) # <<>>
           /\ Then(GetDin(Rows - 1 - n), ReadFrom(n + 1)) # <<>>
           /\ Then(Poll, ValueRest(n + 1, t)) # <<>>
           /\ Then(Poll, ConfigRest(n + 1, data)) # <<>>
           /\ Then(Trigger, Then(Poll, ConfigRest(n + 1, data))) # <<>>
<1>1. n + 1 \in 0 .. Rows /\ Rows - 1 - n \in Row
  BY RoundNumbers
<1> DEFINE r == ReadFrom(n + 1)
           v == ValueRest(n + 1, t)
           f == ConfigRest(n + 1, data)
           g == GetDin(Rows - 1 - n)
           w == SetDout(data[Rows - 1 - n])
<1>2. r \in Seq(DriverCalls) /\ v \in Seq(DriverCalls) /\ f \in Seq(DriverCalls)
  BY <1>1, ReadFromSeq, RestShapes
<1>3. data[Rows - 1 - n] \in Word
  BY <1>1 DEF Matrix
<1>4. g \in DriverCalls /\ w \in DriverCalls /\ Trigger \in DriverCalls /\ Poll \in DriverCalls
  BY <1>1, <1>3, DriverFns
<1>5. /\ ReadFrom(n) = Then(Trigger, Then(Poll, Then(g, r)))
      /\ ValueRest(n, t) = Then(Trigger, Then(Poll, v))
      /\ ConfigRest(n, data) = Then(w, Then(Trigger, Then(Poll, f)))
  BY ReadFromNext, RestShapes
<1> HIDE DEF r, v, f, g, w
<1> DEFINE gr == Then(g, r)
           pv == Then(Poll, v)
           pf == Then(Poll, f)
<1>6. /\ gr \in Seq(DriverCalls) /\ gr # <<>>
      /\ pv \in Seq(DriverCalls) /\ pv # <<>>
      /\ pf \in Seq(DriverCalls) /\ pf # <<>>
  BY <1>2, <1>4, StartsWith
<1> HIDE DEF gr, pv, pf
<1> DEFINE pgr == Then(Poll, gr)
           tpv == Then(Trigger, pv)
           tpf == Then(Trigger, pf)
<1>7. /\ pgr \in Seq(DriverCalls) /\ pgr # <<>>
      /\ tpv # <<>>
      /\ tpf \in Seq(DriverCalls) /\ tpf # <<>>
  BY <1>4, <1>6, StartsWith
<1> HIDE DEF pgr, tpv, tpf
<1>8. Then(Trigger, pgr) # <<>> /\ Then(w, tpf) # <<>>
  BY <1>4, <1>7, StartsWith
<1> QED
  BY <1>5, <1>6, <1>7, <1>8 DEF r, v, f, g, w, gr, pv, pf, pgr, tpv, tpf

(* A plan with nothing left has been carried out.                          *)
LEMMA EmptyPlan ==
    ASSUME NEW s, s = <<>>, NEW m \in Machine, NEW d, Goal(d), Plan(s, m, d)
    PROVE  Over(m, d) /\ m.app # "hits"
<1> DEFINE none == <<>>
<1>1. none \in Seq(DriverCalls)
  BY EmptySeq
<1>2. /\ "latcher" \in Apps /\ "hits" \in Apps
  BY DEF Apps, Pulsers
<1>3. CASE Finishing(s, m, d)
  <2>1. ~Pulsing(s, m, "latcher", none)
    <3> HIDE DEF none
    <3> QED
      BY <1>1, <1>2, PulsingLong
  <2> QED
    BY <1>3, <2>1 DEF Finishing
<1>4. ~Measuring(s, m, d)
  <2>1. /\ \A c \in Shifters : read_counters(c) \in Seq(DriverCalls)
        /\ read("a") \in Seq(DriverCalls)
    BY ReadShape DEF Shifters
  <2>2. \A c \in Shifters : ~Pulsing(s, m, "hits", read_counters(c))
    BY <1>2, <2>1, PulsingLong
  <2>3. ~Pulsing(s, m, "latcher", read("a"))
    BY <1>2, <2>1, PulsingLong
  <2> QED
    BY <2>2, <2>3 DEF Measuring
<1>5. ASSUME NEW c \in Shifters PROVE ~Reading(s, m, d, c)
  <2>1. ~Opens(s, m, c, ReadFrom(0))
    BY ReadShape, OpensLong
  <2>2. \A n \in 0 .. Rows - 1 :
            /\ s # ReadFrom(n)
            /\ s # Then(Poll, Then(GetDin(Rows - 1 - n), ReadFrom(n + 1)))
            /\ s # Then(GetDin(Rows - 1 - n), ReadFrom(n + 1))
    <3>1. NoRows \in Matrix
      BY FilledMatrix
    <3> HIDE DEF none
    <3>2. \A n \in 0 .. Rows - 1 :
            /\ <<>> # ReadFrom(n)
            /\ <<>> # Then(Poll, Then(GetDin(Rows - 1 - n), ReadFrom(n + 1)))
            /\ <<>> # Then(GetDin(Rows - 1 - n), ReadFrom(n + 1))
      BY <1>1, <3>1, RoundsLong
    <3> QED
      BY <3>2
  <2> QED
    BY <2>1, <2>2 DEF Reading
<1>6. ASSUME NEW c \in Shifters PROVE ~Configuring(s, m, d, c)
  <2>1. d.counters[c] \in Matrix /\ 0 \in 0 .. Rows
    BY MatrixAssumption DEF Goal, Shifters, Counter
  <2> DEFINE data == d.counters[c]
  <2>2. ConfigRest(0, data) \in Seq(DriverCalls)
    <3> HIDE DEF none
    <3> QED
      BY <1>1, <2>1, RestShapes
  <2>3. ~Opens(s, m, c, ConfigRest(0, data))
    BY <2>2, OpensLong
  <2>4. \A n \in 0 .. Rows - 1 :
            /\ s # ConfigRest(n, data)
            /\ s # Then(Poll, ConfigRest(n + 1, data))
            /\ s # Then(Trigger, Then(Poll, ConfigRest(n + 1, data)))
    <3>1. data \in Matrix
      BY <2>1
    <3> HIDE DEF none, data
    <3>2. \A n \in 0 .. Rows - 1 :
            /\ <<>> # ConfigRest(n, data)
            /\ <<>> # Then(Poll, ConfigRest(n + 1, data))
            /\ <<>> # Then(Trigger, Then(Poll, ConfigRest(n + 1, data)))
      BY <1>1, <3>1, RoundsLong
    <3> QED
      BY <3>2
  <2> QED
    BY <2>3, <2>4 DEF Configuring
<1>7. ASSUME NEW c \in Shifters, NEW t \in Seq(DriverCalls) PROVE ~Filling(s, m, d, c, t)
  <2>1. 0 \in 0 .. Rows /\ NoRows \in Matrix
    BY MatrixAssumption, FilledMatrix
  <2>2. ValueRest(0, t) \in Seq(DriverCalls)
    BY <2>1, RestShapes
  <2>3. ~Opens(s, m, c, ValueRest(0, t))
    BY <2>2, OpensLong
  <2>4. ASSUME NEW wd \in Word PROVE s # Then(SetDout(wd), Opening(c, ValueRest(0, t)))
    <3> DEFINE o == Opening(c, ValueRest(0, t))
               p == Then(Poll, ValueRest(0, t))
               tp == Then(Trigger, p)
    <3>1. /\ SetDout(wd) \in DriverCalls /\ Load(c) \in DriverCalls
          /\ Trigger \in DriverCalls /\ Poll \in DriverCalls
      BY DriverFns DEF Apps
    <3>2. p \in Seq(DriverCalls)
      BY <2>2, <3>1, StartsWith
    <3> HIDE DEF p
    <3>3. tp \in Seq(DriverCalls)
      BY <3>1, <3>2, StartsWith
    <3> HIDE DEF tp
    <3>4. Then(Load(c), tp) \in Seq(DriverCalls)
      BY <3>1, <3>3, StartsWith
    <3>5. o \in Seq(DriverCalls)
      BY <3>4 DEF o, tp, p, Opening
    <3> HIDE DEF o
    <3>6. Then(SetDout(wd), o) # <<>>
      BY <3>1, <3>5, StartsWith
    <3> QED
      BY <3>6 DEF o
  <2>5. \A n \in 0 .. Rows - 1 :
            /\ s # ValueRest(n, t)
            /\ s # Then(Poll, ValueRest(n + 1, t))
    BY <2>1, RoundsLong
  <2> QED
    BY <2>3, <2>4, <2>5 DEF Filling
<1>8. Finishing(s, m, d)
  BY <1>4, <1>5, <1>6, <1>7, Zenon DEF Plan
<1> QED
  BY <1>3, <1>8

-----------------------------------------------------------------------------
(* The call under way, carried out by the hardware: the invariant.         *)
Due == [counters |-> due.counters, readout |-> due.readout]
Tracks == \E m \in Machine : Does(m) /\ Goal(Due) /\ Plan(ops, m, Due)

(* Between two calls nothing is left to shift or to count.                 *)
LEMMA Finished ==
    ASSUME IInv, ops = <<>>, NEW m \in Machine, Does(m), m.app # "hits"
    PROVE  counters = m.rows
<1>1. CASE ~cr.pmcc_rst_n
  BY <1>1 DEF Does, Same
<1>2. CASE cr.pmcc_rst_n
  <2> DEFINE app == m.app
  <2>1. /\ app \in Apps /\ Holds(app)
        /\ IF app \in Shifters THEN ShifterDoes(m) ELSE PulserDoes(m)
    BY <1>2, MachineParts DEF Does
  <2>2. app \in Shifters => ShifterInv(app)
    BY <1>2, <2>1, TheApp
  <2>3. CASE app \in Shifters
    <3>1. ~Doing("poll")
      BY DEF Doing
    <3>2. pc_id \in {0, 4} /\ ~cr.pmcc_trg
      BY <2>2, <2>3, <3>1 DEF ShifterInv
    <3>3. ~InRow
      BY <3>2 DEF InRow
    <3> QED
      BY <2>1, <2>3, <3>3 DEF ShifterDoes, Same
  <2>4. CASE app \notin Shifters
    BY <2>1, <2>4 DEF PulserDoes
  <2> QED
    BY <2>3, <2>4
<1> QED
  BY <1>1, <1>2

(* A step that changes neither hardware nor matrix.                        *)
LEMMA DoesSame ==
    ASSUME UNCHANGED <<pmcvars, matrixvars>>, NEW m \in Machine, Does(m),
           NEW q \in Machine, q.app = m.app, q.started = m.started, q.rows = m.rows,
           q.dout = m.dout, q.din = m.din, q.readout = readout'
    PROVE  Does(q)'
<1>1. /\ pc_id' = pc_id /\ cr' = cr /\ code' = code /\ counters' = counters
      /\ dout' = dout /\ din' = din /\ pm_din' = pm_din
  BY DEF pmcvars, pmccvars, matrixvars
<1>2. Holds(m.app) => Holds(q.app)'
  BY <1>1 DEF Holds, Loaded
<1>3. Same(m) => Same(q)'
  BY <1>1 DEF Same
<1>4. ASSUME ShifterDoes(m) PROVE ShifterDoes(q)'
  <2>1. ASSUME NEW j, Partly(m, j) PROVE Partly(q, j)'
    BY <1>1, <2>1 DEF Partly, Before
  <2>2. InRow' <=> InRow
    BY <1>1 DEF InRow
  <2> QED
    BY <1>1, <1>3, <1>4, <2>1, <2>2 DEF ShifterDoes
<1>5. PulserDoes(m) => PulserDoes(q)'
  BY <1>1 DEF PulserDoes
<1> QED
  BY <1>1, <1>2, <1>3, <1>4, <1>5 DEF Does

(* After reset there is no call.                                           *)
LEMMA TracksInit == PixInit => Tracks
<1> SUFFICES ASSUME PixInit PROVE Tracks
  OBVIOUS
<1>1. IInv
  BY PixInitInv
<1>2. /\ ~cr.pmcc_rst_n /\ ops = <<>>
      /\ due.counters = counters /\ due.readout = readout
  BY DEF PixInit, PmcInit
<1> DEFINE m == [app |-> "a", started |-> FALSE, rows |-> counters, dout |-> dout,
                 din |-> din, readout |-> readout]
<1>3. /\ counters \in [Counter -> Matrix] /\ readout \in Matrix
      /\ dout \in Word /\ din \in Word
  BY <1>1 DEF IInv, HwInv, MatrixOK, RegsOK, SwInv
<1>4. m \in Machine
  BY <1>3 DEF Machine, Apps, Shifters
<1>5. /\ m.app = "a" /\ m.rows = counters /\ m.dout = dout /\ m.din = din
      /\ m.readout = readout
  OBVIOUS
<1> HIDE DEF m
<1>6. Does(m)
  BY <1>2, <1>4, <1>5 DEF Does, Same
<1>7. Goal(Due) /\ Due.counters = counters /\ Due.readout = readout
  BY <1>2, <1>3 DEF Due, Goal
<1>8. Finishing(ops, m, Due)
  BY <1>2, <1>5, <1>7 DEF Finishing, Over
<1>9. Plan(ops, m, Due)
  BY <1>8, Zenon DEF Plan
<1> QED
  BY <1>4, <1>6, <1>7, <1>9 DEF Tracks

(* A call begins.                                                          *)
LEMMA StartTracks ==
    ASSUME IInv, IInv', Tracks, NEW call \in Calls, Start(call)
    PROVE  Tracks'
<1>1. PICK m \in Machine : Does(m) /\ Goal(Due) /\ Plan(ops, m, Due)
  BY DEF Tracks
<1>2. /\ ops = <<>> /\ ops' = Ops(call) /\ readout' = NoRows
      /\ UNCHANGED <<pmcvars, matrixvars>>
      /\ due' = [due EXCEPT !.counters = Meaning(call, counters, dout).counters,
                            !.readout = Meaning(call, counters, dout).readout]
  BY DEF Start
<1>3. counters = m.rows
  <2>1. m.app # "hits"
    BY <1>1, <1>2, EmptyPlan
  <2> QED
    BY <1>1, <1>2, <2>1, Finished
<1> DEFINE q == [m EXCEPT !.readout = NoRows]
<1>4. /\ q \in Machine /\ q.app = m.app /\ q.started = m.started /\ q.rows = m.rows
      /\ q.dout = m.dout /\ q.din = m.din /\ q.readout = readout'
  BY <1>2, MachineParts, FilledMatrix DEF Machine
<1> HIDE DEF q
<1>5. Does(q)'
  BY <1>1, <1>2, <1>4, DoesSame
<1>6. Starts(call, q, Due')
  <2>1. q.rows = counters /\ q.dout = dout /\ q.readout = NoRows
    BY <1>1, <1>2, <1>3, <1>4 DEF Does
  <2>2. /\ due'.counters = Meaning(call, counters, dout).counters
        /\ due'.readout = Meaning(call, counters, dout).readout
    <3>1. due = [counters |-> due.counters, readout |-> due.readout,
                 config |-> due.config, gates |-> due.gates]
      BY DEF IInv, SwInv
    <3> DEFINE x == Meaning(call, counters, dout).counters
               y == Meaning(call, counters, dout).readout
    <3>2. due' = [due EXCEPT !.counters = x, !.readout = y]
      BY <1>2
    <3> HIDE DEF x, y
    <3>3. due'.counters = x /\ due'.readout = y
      BY <3>1, <3>2
    <3> QED
      BY <3>3 DEF x, y
  <2> QED
    BY <2>1, <2>2 DEF Starts, Due
<1>7. Goal(Due') /\ Plan(Ops(call), q, Due')
  BY <1>4, <1>6, StartPlan
<1> QED
  BY <1>2, <1>4, <1>5, <1>7 DEF Tracks

(* A step within a driver function.                                        *)
LEMMA StayTracks ==
    ASSUME NEW m \in Machine, Does(m)', Goal(Due), Plan(ops, m, Due),
           ops' = ops, due' = due
    PROVE  Tracks'
<1>1. Due' = Due
  BY DEF Due
<1> QED
  BY <1>1 DEF Tracks

(* The return from one.                                                    *)
LEMMA ReturnTracks ==
    ASSUME IInv, NEW m \in Machine, Goal(Due), Plan(ops, m, Due), NEW q,
           q = Done(Head(ops), m), Does(q)', ops # <<>>, ops' = Tail(ops),
           due'.counters = due.counters, due'.readout = due.readout
    PROVE  Tracks'
<1>1. Due' = Due
  BY DEF Due
<1>2. Steps(ops, m, q)
  BY DEF Steps, IInv, SwInv
<1>3. Plan(Tail(ops), q, Due) /\ q \in Machine
  BY <1>2, PlanStep
<1> QED
  BY <1>1, <1>3 DEF Tracks

(* Every step carries out what it should of the call.                      *)
LEMMA TracksNext == IInv /\ IInv' /\ Copied /\ Tracks /\ [PixNext]_pixvars => Tracks'
<1> SUFFICES ASSUME IInv, IInv', Copied, Tracks, [PixNext]_pixvars PROVE Tracks'
  OBVIOUS
<1>1. PICK m \in Machine : Does(m) /\ Goal(Due) /\ Plan(ops, m, Due)
  BY DEF Tracks
<1>2. PICK q : q = Done(Head(ops), m)
  OBVIOUS
<1>3. due = [counters |-> due.counters, readout |-> due.readout,
             config |-> due.config, gates |-> due.gates]
  BY DEF IInv, SwInv
<1>4. \A fn : Doing(fn) => ops # <<>>
  BY DEF Doing
<1>5. Doing("poll") => q = m
  <2>1. Doing("poll") => Head(ops) \in DriverCalls /\ Head(ops).fn = "poll"
    BY HeadTailProperties DEF IInv, SwInv, Doing
  <2> QED
    BY <1>2, <2>1, DoneIs
<1>6. CASE Wait
  <2>1. Cycle(None) /\ ops' = ops /\ readout' = readout /\ due' = due
    BY <1>6 DEF Wait, Cycle
  <2> QED
    BY <1>1, <2>1, QuietDoes, StayTracks
<1>7. CASE ReadCr
  <2>1. Cycle(None) /\ ops' = ops /\ readout' = readout /\ due' = due
    BY <1>7 DEF ReadCr, Bus, More, Cycle
  <2> QED
    BY <1>1, <2>1, QuietDoes, StayTracks
<1>8. CASE AssertReset
  <2>1. ops' = ops /\ due' = due
    BY <1>8 DEF AssertReset, More
  <2> QED
    BY <1>1, <1>8, <2>1, AssertResetDoes, StayTracks
<1>9. CASE WriteWord
  <2>1. ops' = ops /\ due' = due
    BY <1>9 DEF WriteWord, More
  <2> QED
    BY <1>1, <1>9, <2>1, WriteWordDoes, StayTracks
<1>10. CASE ReleaseReset
  <2>1. /\ Doing("load_application") /\ ops' = Tail(ops)
        /\ due' = CASE Head(ops).app = "latcher" -> [due EXCEPT !.config = counters]
                    [] Head(ops).app = "hits"    -> [due EXCEPT !.gates = @ + 1]
                    [] OTHER                     -> due
    BY <1>10 DEF ReleaseReset, Return
  <2>2. due'.counters = due.counters /\ due'.readout = due.readout
    BY <1>3, <2>1
  <2> QED
    BY <1>1, <1>4, <1>2, <1>10, <2>1, <2>2, ReleaseResetDoes, ReturnTracks
<1>11. CASE WriteTrigger
  <2>1. Doing("trigger") /\ ops' = Tail(ops) /\ due' = due
    BY <1>11 DEF WriteTrigger, Return
  <2> QED
    BY <1>1, <1>4, <1>2, <1>11, <2>1, WriteTriggerDoes, ReturnTracks
<1>12. CASE PollStatus
  <2>1. /\ Doing("poll") /\ Cycle(None) /\ readout' = readout /\ due' = due
        /\ ops' = Tail(ops) \/ ops' = ops
    BY <1>12 DEF PollStatus, Bus, Return, Cycle
  <2>2. Does(m)'
    BY <1>1, <2>1, QuietDoes
  <2>3. Does(q)'
    BY <1>5, <2>1, <2>2
  <2> QED
    BY <1>1, <1>4, <1>2, <2>1, <2>2, <2>3, StayTracks, ReturnTracks
<1>13. CASE WriteDoutWord
  <2>1. Doing("set_dout") /\ ops' = Tail(ops) /\ due' = due
    BY <1>13 DEF WriteDoutWord, Return
  <2> QED
    BY <1>1, <1>4, <1>2, <1>13, <2>1, WriteDoutDoes, ReturnTracks
<1>14. CASE ReadDinWord
  <2>1. Doing("get_din") /\ ops' = Tail(ops) /\ due' = due
    BY <1>14 DEF ReadDinWord, Return
  <2> QED
    BY <1>1, <1>4, <1>2, <1>14, <2>1, ReadDinDoes, ReturnTracks
<1>15. ASSUME NEW call \in Calls, Start(call) PROVE Tracks'
  BY <1>15, StartTracks
<1>16. CASE UNCHANGED pixvars
  <2>1. /\ UNCHANGED <<pmcvars, matrixvars>>
        /\ ops' = ops /\ readout' = readout /\ due' = due
    BY <1>16 DEF pixvars, swvars
  <2>2. m.readout = readout'
    BY <1>1, <2>1 DEF Does
  <2> QED
    BY <1>1, <2>1, <2>2, DoesSame, StayTracks
<1> QED
  BY <1>6, <1>7, <1>8, <1>9, <1>10, <1>11, <1>12, <1>13, <1>14, <1>15, <1>16
  DEF PixNext, Access

(* When the call has returned, it has done what it should.                 *)
LEMMA TracksCalls == IInv /\ Tracks => CallsKeepTheirWord
<1> SUFFICES ASSUME IInv, Tracks, ops = <<>>
             PROVE  counters = due.counters /\ readout = due.readout
  BY DEF CallsKeepTheirWord
<1>1. PICK m \in Machine : Does(m) /\ Goal(Due) /\ Plan(ops, m, Due)
  BY DEF Tracks
<1>2. Over(m, Due) /\ m.app # "hits"
  BY <1>1, EmptyPlan
<1>3. counters = m.rows /\ readout = m.readout
  BY <1>1, <1>2, Finished DEF Does
<1> QED
  BY <1>2, <1>3 DEF Over, Due

(* Every call that returns has left in the counters of the matrix what it  *)
(* should, bit for bit, whatever was in them before, and has returned the  *)
(* rows that were there: the functions of pixel_matrix.cpp mean what       *)
(* Meaning says of them, for any number of rows and any data.              *)
THEOREM CallsCorrect == PixSpec => []CallsKeepTheirWord
<1>1. PixSpec => []Tracks
  <2>1. PixInit => Copied
    BY DEF PixInit, PmcInit, Copied
  <2> QED
    BY <2>1, PixInitInv, PixNextInv, InvariantPix, CopiedNext, TracksInit, TracksNext, PTL
    DEF PixSpec
<1> QED
  BY <1>1, InvariantPix, TracksCalls, PTL
=============================================================================
