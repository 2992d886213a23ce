---------------------------- MODULE PixelMatrix ----------------------------
(***************************************************************************)
(* The software that reads and configures the pixel matrix                 *)
(* (sw/libs/misc/src/pixel_matrix.cpp) through the drivers of the matrix   *)
(* controller and of its coprocessor (pmc.cpp, pmcc.cpp), running on the   *)
(* controller, and the matrix behind it.  One step is one clock cycle, in  *)
(* which the software may or may not reach the bus.                        *)
(***************************************************************************)
EXTENDS Pmc

CONSTANTS Rows,          \* rows of the matrix
          Hits,          \* counts the pixels have after a gate pulse
          Calls,         \* calls the software can make
          MaxCalls       \* bound on the calls of the software

Row     == 0 .. Rows - 1
Matrix  == [Row -> Word]
Counter == {"a", "b"}

(* The member functions of Pixel_matrix and their arguments. *)
Call ==
    [fn : {"read_counters", "read"}, counter : Counter]
    \cup [fn : {"load_value"}, counter : Counter, word : Word]
    \cup [fn : {"load_configs"}, counter : Counter, data : Matrix]
    \cup [fn : {"calibrate"}, a : Word, b : Word]

(* The code RAM, of 1024 bytes in the code, holds the longest program, of  *)
(* 104 bytes with what its last word is filled up with; its size is a      *)
(* power of two, so that the immediate of a JUMP, into which the code of   *)
(* the instruction reaches, is cut off to the address.                     *)
ASSUME MatrixAssumption ==
    /\ Rows \in Nat \ {0}
    /\ 0 \in Data
    /\ Hits \in [Counter -> Matrix]
    /\ Calls \subseteq Call
    /\ MaxCalls \in Nat
    /\ PcSize \in {128, 256, 512, 1024, 2048, 4096, 8192}
    /\ IterSize \in Nat \ {0} /\ Depth \in Nat \ {0}

VARIABLES counters,      \* the shift registers of the matrix
          config,        \* its configuration latches
          gates,         \* gate pulses it has seen
          ops,           \* what is left of the call: driver functions
          phase,         \* accesses of the first of them already done
          gap,           \* cycles since the last access
          staged,        \* the value of cr read to be written back
          readout,       \* rows read by the call
          calls,         \* calls made
          due            \* history: what the calls made should lead to

matrixvars == <<counters, config, gates>>
swvars     == <<ops, phase, gap, staged, readout, calls, due>>
pixvars    == <<pmcvars, matrixvars, swvars>>

-----------------------------------------------------------------------------
(* The matrix, which is not part of the repository: a counter is a shift   *)
(* register through all rows, taking a bit at the falling edge of its      *)
(* clock; the end of a gate pulse leaves the counted hits in the counters  *)
(* and the end of a store pulse latches the counters.                      *)
Shift(c, bit) ==
    [r \in Row |-> [k \in Bits |->
        CASE k > 0            -> counters[c][r][k - 1]
          [] k = 0 /\ r > 0   -> counters[c][r - 1][15]
          [] k = 0 /\ r = 0   -> bit]]

OutOf(c) == counters[c][Rows - 1][15]

MatrixCycle ==
    /\ counters' =
           IF Gate /\ ~Gate' THEN Hits
           ELSE IF ClkSh /\ ~ClkSh'
           THEN [c \in Counter |->
                    IF (c = "a" /\ ShA) \/ (c = "b" /\ ShB)
                    THEN Shift(c, pm_din) ELSE counters[c]]
           ELSE counters
    /\ config' = IF Store /\ ~Store' THEN counters ELSE config
    /\ gates' = IF Gate /\ ~Gate' THEN gates + 1 ELSE gates

-----------------------------------------------------------------------------
(* The programs of the coprocessor (pmcc.cpp). *)
STORE(n) == <<192, n, 0>>
JUMP(a)  == <<32, a>>
WAITT    == <<0>>

(* 16 pulses of the shift clock. *)
Pulses(low, high) ==
    [k \in 1 .. 96 |-> STORE(IF (k - 1) % 6 < 3 THEN high ELSE low)[((k - 1) % 3) + 1]]

(* Faulty variants, for the mutation runs: jumps that miss the WAITT.      *)
DataShifter_NoWait(first, low, high) ==
    WAITT \o STORE(first) \o WAITT \o Pulses(low, high) \o JUMP(5)
Pulse_NoWait(n) == WAITT \o STORE(n) \o STORE(0) \o JUMP(1)

DataShifter(first, low, high) ==
    WAITT \o STORE(first) \o WAITT \o Pulses(low, high) \o JUMP(4)
Pulse(n) == WAITT \o STORE(n) \o STORE(0) \o JUMP(0)

Application == [ a |-> DataShifter(2, 2, 3), b |-> DataShifter(2, 4, 5),
                 latcher |-> Pulse(32), hits |-> Pulse(8) ]

(* Words that load_application writes, the last one filled up with zeros.  *)
Words(app) == (Len(Application[app]) + 3) \div 4
CodeWord(app, w) ==
    [k \in 0 .. 3 |-> LET at == 4 * w + k + 1 IN
                      IF at <= Len(Application[app]) THEN Application[app][at]
                                                     ELSE 0]
-----------------------------------------------------------------------------
(* The driver functions, and the member functions of Pixel_matrix as       *)
(* sequences of them.                                                      *)
Load(app)    == [fn |-> "load_application", app |-> app]
Trigger      == [fn |-> "trigger"]
Poll         == [fn |-> "poll"]
SetDout(wd)  == [fn |-> "set_dout", word |-> wd]
GetDin(r)    == [fn |-> "get_din", row |-> r]

(* n driver functions for each row, from the last row to the first.        *)
Downwards(n, S(_)) ==
    [k \in 1 .. n * Rows |-> S(Rows - 1 - (k - 1) \div n)[((k - 1) % n) + 1]]

read_counters(c) ==
    <<Load(c), Trigger, Poll>>
    \o Downwards(3, LAMBDA r : <<Trigger, Poll, GetDin(r)>>)
read(c) == <<Load("hits"), Trigger>> \o read_counters(c)

write_value(c, wd) ==
    <<SetDout(wd), Load(c), Trigger, Poll>>
    \o Downwards(2, LAMBDA r : <<Trigger, Poll>>)
write_rows(c, data) ==
    <<Load(c), Trigger, Poll>>
    \o Downwards(3, LAMBDA r : <<SetDout(data[r]), Trigger, Poll>>)
latch_configs == <<Load("latcher"), Trigger>>

(* One round of calibrate: a value for each counter, and a measurement.    *)
calibrate(a, b) ==
    write_value("a", a) \o write_value("b", b) \o latch_configs \o read("a")

Ops(call) ==
    CASE call.fn = "read_counters" -> read_counters(call.counter)
      [] call.fn = "read"          -> read(call.counter)
      [] call.fn = "load_value"    -> write_value(call.counter, call.word) \o latch_configs
      [] call.fn = "load_configs"  -> write_rows(call.counter, call.data) \o latch_configs
      [] call.fn = "calibrate"     -> calibrate(call.a, call.b)

(* What a call should leave in the counters of the matrix and return, when *)
(* it starts with old in them and wd in dout.                              *)
Filled(wd) == [r \in Row |-> wd]
NoRows     == Filled([k \in Bits |-> 0])

Meaning(call, old, wd) ==
    CASE call.fn = "read_counters" ->
             [counters |-> [old EXCEPT ![call.counter] = Filled(wd)],
              readout  |-> old[call.counter]]
      [] call.fn = "read" ->
             [counters |-> [Hits EXCEPT ![call.counter] = Filled(wd)],
              readout  |-> Hits[call.counter]]
      [] call.fn = "load_value" ->
             [counters |-> [old EXCEPT ![call.counter] = Filled(call.word)],
              readout  |-> NoRows]
      [] call.fn = "load_configs" ->
             [counters |-> [old EXCEPT ![call.counter] = call.data],
              readout  |-> NoRows]
      [] call.fn = "calibrate" ->
             [counters |-> [Hits EXCEPT !["a"] = Filled(call.b)],
              readout  |-> Hits["a"]]

-----------------------------------------------------------------------------
(* Every bus transfer takes two cycles, and every access of a register but *)
(* the write half of a read-modify-write comes after the transfer that     *)
(* reads the pointer to it out of the (volatile) driver object.            *)
RmwGap  == 2
CallGap_Pipelined == 2   \* faulty variant, for the mutation runs
CallGap == 4

Doing(fn)    == ops # <<>> /\ Head(ops).fn = fn
Ready(cycle) == gap >= cycle

(* A cycle in which the software makes the access. *)
Bus(access) ==
    /\ PmcCycle(access, OutOf("a"), OutOf("b"))
    /\ MatrixCycle
    /\ gap' = 1

More   == phase' = phase + 1 /\ UNCHANGED ops
Return == phase' = 0 /\ ops' = Tail(ops)

(* A cycle without an access. *)
Wait ==
    /\ PmcCycle(None, OutOf("a"), OutOf("b"))
    /\ MatrixCycle
    /\ gap' = IF gap < CallGap THEN gap + 1 ELSE gap
    /\ UNCHANGED <<ops, phase, staged, readout, calls, due>>

(* A member function is called, between two cycles. *)
Start(call) ==
    /\ ops = <<>> /\ calls < MaxCalls
    /\ ops' = Ops(call)
    /\ readout' = NoRows
    /\ calls' = calls + 1
    /\ due' = [due EXCEPT !.counters = Meaning(call, counters, dout).counters,
                          !.readout = Meaning(call, counters, dout).readout]
    /\ UNCHANGED <<pmcvars, matrixvars, phase, gap, staged>>

(* The read half of the read-modify-write of a field of cr. *)
ReadCr ==
    /\ Ready(CallGap)
    /\ \/ Doing("load_application") /\ phase \in {0, Words(Head(ops).app) + 2}
       \/ Doing("trigger") /\ phase = 0
    /\ Bus(None)
    /\ staged' = cr
    /\ More
    /\ UNCHANGED <<readout, calls, due>>

AssertReset ==
    /\ Ready(RmwGap) /\ Doing("load_application") /\ phase = 1
    /\ Bus(WriteCr([staged EXCEPT !.pmcc_rst_n = FALSE]))
    /\ More
    /\ UNCHANGED <<staged, readout, calls, due>>

WriteWord ==
    /\ Ready(CallGap) /\ Doing("load_application")
    /\ phase - 2 \in 0 .. Words(Head(ops).app) - 1
    /\ Bus(WriteCode(4 * (phase - 2), CodeWord(Head(ops).app, phase - 2)))
    /\ More
    /\ UNCHANGED <<staged, readout, calls, due>>

ReleaseReset ==
    /\ Ready(RmwGap) /\ Doing("load_application")
    /\ phase = Words(Head(ops).app) + 3
    /\ Bus(WriteCr([staged EXCEPT !.pmcc_rst_n = TRUE]))
    /\ Return
    /\ due' = CASE Head(ops).app = "latcher" -> [due EXCEPT !.config = counters]
                [] Head(ops).app = "hits"    -> [due EXCEPT !.gates = @ + 1]
                [] OTHER                     -> due
    /\ UNCHANGED <<staged, readout, calls>>

WriteTrigger ==
    /\ Ready(RmwGap) /\ Doing("trigger") /\ phase = 1
    /\ Bus(WriteCr([staged EXCEPT !.pmcc_trg = TRUE]))
    /\ Return
    /\ UNCHANGED <<staged, readout, calls, due>>

(* Faulty variant, for the mutation runs: the status is read only once.    *)
PollStatus_Once ==
    /\ Ready(CallGap) /\ Doing("poll")
    /\ Bus(None)
    /\ Return
    /\ UNCHANGED <<staged, readout, calls, due>>

(* while (!is_waiting_for_trigger()) *)
PollStatus ==
    /\ Ready(CallGap) /\ Doing("poll")
    /\ Bus(None)
    /\ IF pmcc_wtt THEN Return ELSE UNCHANGED <<ops, phase>>
    /\ UNCHANGED <<staged, readout, calls, due>>

WriteDoutWord ==
    /\ Ready(CallGap) /\ Doing("set_dout")
    /\ Bus(WriteDout(Head(ops).word))
    /\ Return
    /\ UNCHANGED <<staged, readout, calls, due>>

ReadDinWord ==
    /\ Ready(CallGap) /\ Doing("get_din")
    /\ Bus(None)
    /\ readout' = [readout EXCEPT ![Head(ops).row] = din_reg]
    /\ Return
    /\ UNCHANGED <<staged, calls, due>>

Access ==
    \/ ReadCr \/ AssertReset \/ WriteWord \/ ReleaseReset \/ WriteTrigger
    \/ PollStatus \/ WriteDoutWord \/ ReadDinWord

PixInit ==
    /\ PmcInit
    /\ counters = [c \in Counter |-> NoRows] /\ config = counters
    /\ gates = 0
    /\ ops = <<>> /\ phase = 0 /\ gap = CallGap
    /\ staged = cr
    /\ readout = NoRows
    /\ calls = 0
    /\ due = [counters |-> counters, readout |-> readout, config |-> config,
              gates |-> 0]

PixNext == Wait \/ Access \/ \E call \in Calls : Start(call)

(* The clock runs, and the software, which nothing else in this model      *)
(* holds up, goes on making accesses.                                      *)
PixSpec == PixInit /\ [][PixNext]_pixvars /\ WF_pixvars(Wait) /\ WF_pixvars(Access)

-----------------------------------------------------------------------------
(* The hardware, the software's place in its calls and the matrix are well *)
(* typed in every cycle.                                                   *)
PixTypeOK ==
    /\ PmcTypeOK
    /\ counters \in [Counter -> Matrix] /\ config \in [Counter -> Matrix]
    /\ gates \in Nat
    /\ phase \in Nat /\ gap \in 1 .. CallGap
    /\ staged \in Cr
    /\ readout \in Matrix
    /\ calls \in 0 .. MaxCalls

(* A trigger always finds the coprocessor waiting: none is lost because    *)
(* the last program still runs, has not started or is held in reset.       *)
NoTriggerLost == cr.pmcc_trg => cr.pmcc_rst_n /\ Waitt

(* One call of trigger makes one pulse: the control register is never read *)
(* with the trigger still in it, to be written back with other fields.     *)
NoTriggerRepeated == ~staged.pmcc_trg

(* While a row is being shifted, the software does nothing but poll: it    *)
(* does not touch dout, din, the code or the reset, and the transmitter    *)
(* and the receiver, which the reset of the coprocessor does not reset,    *)
(* are never cut off in the middle of a row.                               *)
RowsUndisturbed ==
    /\ tx.state = "ACTIVE" \/ rx.state = "ACTIVE" => Doing("poll")
    /\ tx.bits_counter # 0 => tx.state = "ACTIVE" /\ cr.pmcc_rst_n

(* A call that has returned has written all the rows of the counter it     *)
(* should, in their places and nothing else, and returns the rows that     *)
(* were in the counter.                                                    *)
CallsKeepTheirWord ==
    ops = <<>> => counters = due.counters /\ readout = due.readout

(* read and latch_configs do not wait for the pulse they trigger; it is    *)
(* over, once and with the counters of that moment, before the next call   *)
(* resets the coprocessor.                                                 *)
PulsesBeforeReset ==
    ~cr.pmcc_rst_n => config = due.config /\ gates = due.gates

(* The shifter of counter b selects counter b only, "store 0x0004: set     *)
(* sh_b at the beginning" (pmcc.cpp:50): not so, its first store selects   *)
(* counter a until the first row is shifted.                               *)
ShifterBLoaded ==
    \A k \in 1 .. Len(Application.b) : code[k - 1] = Application.b[k]
OnlyBSelected == ShifterBLoaded => ~ShA

(* No call polls for ever. *)
CallsReturn == ops # <<>> ~> ops = <<>>
=============================================================================
