# A verification of pixel_riscv_soc

`pixel_riscv_soc` is a small RISC-V system on chip that reads and configures a
matrix of pixels: SystemVerilog hardware around an Ibex core, and bare-metal C++
software that runs on it. This directory holds TLA+ models of its parts, TLC
configurations that check them on small instances, and TLAPS proofs of the
properties that matter most. The models are translated from the sources; every
definition that stands for code is listed with its lines in `PROJECT.json`
(`map`).

The hardware modelled is the one that `fpga/generate_bitstream.tcl` builds:
`rtl/soc/pixel_riscv_soc.sv`, the arbiters, `rtl/soc/memories`,
`rtl/soc/interfaces` and `rtl/soc/peripherals`. The directories
`rtl/soc/{gpio,pmc,spi,timer,uart}` hold older copies of the peripherals that
this build does not list; they are not modelled.

## 1. The system

### Components

| component | state | operations | correct when |
|---|---|---|---|
| Ibex core (a submodule, external) | the requests on its data and instruction ports | raise a request, hold it until the grant, take the answer | – |
| data and instruction bus arbiters | FSM, `responding_slave` | decode, forward, pass grant and answer on, answer unmapped addresses with an error | each request is granted and answered exactly once, by its slave, in order |
| boot ROM | FSM, latched address, two answer registers | serve a load or a fetch, two cycles | answers reach the port that asked; nobody waits for ever |
| code RAM | the array, one `rdata` register, two `rvalid` | serve a load, store or fetch, the data port first | as above, and a store changes the enabled bytes only |
| data RAM | the array, answer register | serve a load or a store | as above |
| bus ports of the five peripherals | `rvalid`, `err`, `rdata` | grant at once, answer in the next cycle, `err` for an offset without a register | as above |
| PMC: registers and matrix lines | `cr`, `sr`, `ctrls`, `dout`, `din` (a cycle behind the receiver's), analog and digital settings | register reads and writes; trigger cleared after a cycle | the trigger lasts one cycle |
| PMC transmitter and receiver | FSM, bit counter, output bit, `din` | shift 16 bits per row out of `dout`, into `din` | all bits, in order, in step with the matrix |
| coprocessor (PMCC) | program counter, control lines | STORE, STOREB, LOOP, JUMP, WAITT | executes the program, stops at WAITT until triggered |
| loop controller and LIFO | active loop, stack of outer loops, flags | open, repeat, close a loop | nested loops run their count |
| coprocessor code RAM | 1 KiB | four-byte fetch, word writes from the bus | – |
| PMC and PMCC drivers | – | load a program in reset, trigger, poll, set `dout`, get `din` | no trigger lost or repeated |
| pixel matrix software | – | read and write counters, latch configurations, gate, calibrate | rows come and go whole and in their places |
| pixel matrix (external) | shift registers, latches | shift, count, latch | – |
| UART, serial clock generator | `cr sr tdr rdr cdr`, FSMs, 16x oversampling counters | send, receive | bytes neither lost nor changed, `txact`/`rxne` true |
| SPI master, flash simulation model | `cr sr tdr rdr cdr`, FSMs | exchange a byte | one byte in per byte out |
| timer | counter, compare, `sr`, interrupt | count, match | a match per period, seen by the software |
| GPIO | directions, outputs, interrupt enables and flags | pins, edge interrupts | no edge lost |
| interrupts, handlers (`core.cpp`, `crt0.S`) | handler pointer, `mie`, `mstatus` | enable, disable, dispatch | never a call of a missing handler |
| bootloader, its drivers and status pin | code RAM, what is left to do | load from SPI flash or UART with a timeout, skip, blink, jump | all words in place and in order before the jump, or no jump; no byte dropped, no load given up early; it ends |
| command interpreter, parser, UI, strings | line buffer, command | parse and execute commands | words mean what was typed, only the named pin moves, answers are right, commands end, what is printed arrives, the heartbeat keeps its period |

### Interactions

The core's two ports go through their arbiters to the boot ROM and the code RAM,
which they share; the data port also reaches the data RAM and the peripherals.
The software polls status registers; only timer and GPIO interrupts come by
themselves. In the PMC the software writes a program into the coprocessor's code
RAM while it holds it in reset, releases the reset, and triggers it; the
coprocessor drives the control lines of the matrix, from which the transmitter
and the receiver, with no other signal from the coprocessor, work out when to
show and when to take a bit.

### What is hard

* **Interleaving.** Two bus ports compete for single-ported memories whose
  answers are one or two cycles late and carry no tag. Interrupt handlers print
  through the UART that the main program is using.
* **Lateness.** Status bits are registers that lag the state they show; polls
  rely on the number of cycles between two accesses.
* **Lock step.** Transmitter, receiver, coprocessor and matrix count the same
  bits in four places, and only one of them is reset with the program.
* **Read-modify-write.** Registers hold bit fields of different owners; a field
  write puts the others back as they were read.
* **Limits.** The loop LIFO, fourteen-bit counters, a code RAM without wrap,
  a UART receiver of one byte, a timer that matches by equality only.
* **Partial failure.** A load may stop in the middle of a word; the words before
  it are in the code RAM already.
* **Text and numbers.** Texts of any length become numbers of 32 bits, and go
  through buffers without a check of their lengths.
* **Two clocks.** The host's bit time is not the UART's; each end finds the bits
  by counting from the start bit.

The full list, with lines and the properties that cover each entry, is under
`hazards` in `PROJECT.json`.

## 2. The modules

One step of every model is one clock cycle: all components are clocked by the
same clock, so a `Tick` is the conjunction of what each of them does in it, and
combinational signals are operators on the current state. What interleaves is
which requests, accesses, calls and resets come in which cycle.

### The bus

| module | models |
|---|---|
| `Memory` | `memory_map.sv` and the `case (addr) inside` of both arbiters; words, byte enables and requests (`ram.sv`) |
| `BusArbiter` | the FSM, multiplexer and demultiplexer that both arbiters have in common; instantiated twice, with different slaves |
| `BootRom`, `CodeRam`, `DataRam`, `PeripheralPort` | one slave each: grants as operators, a cycle as `Step`; `PeripheralPort` stands for the bus handling of all five peripherals |
| `BusFabric` | the wiring of `pixel_riscv_soc.sv`, the core's ports, the reset |
| `SharedMemory` | the abstract specification: two ports on one memory, each request served atomically and answered once, no arbiters, registers or decoders |
| `BusFabric_proof` | theorems |

The core is external. It holds a request until the grant (`CoreData`,
`CoreFetch`) and otherwise raises any request at any time, also while an answer
is outstanding. A reset may come in any cycle; it clears every register but not
the RAM arrays.

### The coprocessor

| module | models |
|---|---|
| `LoopController` | `pmcc_loop_controller.sv` with `pmcc_loop_lifo.sv`: the register of the active loop, the LIFO with its output one cycle late, its flags, every branch of the controller as an action |
| `LoopStack` | the abstract specification: a stack of counted loops |
| `LoopController_proof` | theorems |
| `Pmcc` | decoder, wait controller, matrix controller, program counter and fetch, around `LoopController` |
| `PmccProgram` | structured programs, what they mean (`Unroll`), how they are assembled, and the coprocessor executing them |

`executed`, `taken` and `opened` are histories: the last instruction, the address
it branched to, the addresses opened by LOOPs since the reset.

### The pixel matrix

| module | models |
|---|---|
| `Pmc` | `pmc.sv`, `pmc_transmitter.sv`, `pmc_receiver.sv` around `Pmcc`: one bus access at most per cycle |
| `PixelMatrix` | `pixel_matrix.cpp`, `pmc.cpp` and `pmcc.cpp` as sequences of bus accesses, with the real programs of the coprocessor byte by byte, and the matrix |
| `PixelMatrix_proof` | theorems |

All columns shift at once, so one column is modelled. A bit is a name: the
models follow sixteen differently named bits per row through all registers, so
a bit that is lost, doubled or misplaced shows.

Assumptions about what is not in the repository or not in its language:

* *The matrix takes a bit at the falling edge of its shift clock, and shows its
  last bit all the time.* This is the reading that fits the hardware: the
  transmitter changes its output together with the rising edge, and the receiver
  samples while the clock is high. A gate pulse leaves the hits in the counters,
  a store pulse latches the configuration.
* *Accesses come in program order*, with at least four cycles between two
  register accesses (a bus transfer takes two, and each access is preceded by
  the load of the register pointer from the volatile driver object) and two
  between the halves of a read-modify-write. They may come any number of cycles
  later.

### The console

| module | models |
|---|---|
| `SerialClock` | `serial_clock_generator.sv` |
| `UartTransmitter`, `UartReceiver` | the two FSMs of `uart_transmitter.sv` and `uart_receiver.sv`, an action per branch |
| `Uart` | the registers of `uart.sv` around them, and the lemmas that they keep their types, which both proofs below cite |
| `SerialHost`, `SerialEar` | external: a transmitter and a receiver at the host's end |
| `UartLine` | the driver `uart.cpp` as `Ui` uses it, between a host that sends a line and the same host that hears it come back |
| `UartLine_proof` | theorems |
| `Timer` | `timer.sv` and `timer_core.sv` |
| `Console` | printing of `Command_interpreter::run`, `ping`, `set_heartbeat`, its handler, the interrupt of the timer, `Core`'s handler and masks, with `Uart` and `Timer` underneath |
| `Console_proof` | theorems |

Both compositions have one access of the bus per cycle at most, as the data bus
allows, and the software is a place (`pc`) and the cycles still to go to its next
access. In `UartLine` nothing interrupts it: the handlers are off until
`set_heartbeat`. In `Console` the handler takes the place of the main program
while it runs, from the cycle after the interrupt is seen on; it may be seen
between any two accesses. A bit of a byte is a value of its own
(`Bit` in `Console` holds the names of the bytes), so that a byte that is lost
and another that is heard in its place can be told apart. `owed` and `lost` are
histories: the bytes written and not heard yet, and how many of them the
transmitter has passed over.

How a command reaches the interpreter is left open in `Console`: any command may
come whenever the interpreter is idle. Reading of lines is `UartLine`'s subject.
A call of the null handler ends where it ends in the program: address 0 is in the
boot ROM, which begins with endless loops (`bootloader/crt0.S`).

### The bootloader

| module | models |
|---|---|
| `EdgeDetector` | `edge_detector.sv` |
| `Spi` | `spi.sv` and the FSM of `spi_master.sv` around `SerialClock`, an action per branch |
| `SpiFlash` | `spi_flash_memory.sv` with `spi_slave.sv`, which the FPGA build holds as the flash to boot from |
| `Gpio` | `gpio.sv` and `gpio_interrupt_detector.sv`; a register is the set of its pins |
| `CodeLoader` | `code_loader.cpp` over the drivers of SPI, UART and the code RAM, with all the hardware it goes through |
| `Bootloader` | `main.cpp` and `status_led.cpp` around it, from the constructor of the UART's driver to the jump |
| `CodeLoading` | the abstract specification: the words of the chosen image come one after the other; the software is started when all are there or loading is skipped, never after a load was given up |
| `Bootloader_proof` | theorems |

The software is a sequence of accesses still to make (`sw.todo`), the cycles since
the last one and its pace. A loop or a choice is one of those accesses, and puts
what comes next in front. What the model leaves out, and why that is sound:

* The read of a register before its write in a read-modify-write of `Gpio` and
  `Spi`: it has no effect there, and nothing else writes these registers.
* All but one byte of each message; the poll after a byte is the same each time.
* The counting of `mcycle` outside the load over the UART, the only place where
  it is looked at. It may have any of the values `Counts` in the cycle of the first
  reading, and counts from that cycle on (`Timing`).
* Bytes that the host sends before the loader looks at the receiver: the receiver
  holds the last one of them and the loader would take it for the first of the
  program. The host waits for the message that announces the source.
* The upper bits of the flash's address: the memory looks at twelve of them
  (`spi_mem.sv:28`), which count its 4096 words (`FlashSpace`), and shows zeros
  where nothing is programmed (`rdata`).

### The command interpreter

| module | models |
|---|---|
| `CommandParser` | `string_ops.cpp`, as functions of sequences of characters, and `command_parser.cpp` on top of them |
| `CommandInterpreter` | the handlers of `command_interpreter.cpp` with `gpio.cpp`, `Debugger` and the printing of numbers, on `Gpio`, while the pins move |

`Console` has what `set_heartbeat` does once its argument is found to be a number
(the checks of the argument are here, `Missing` and `Invalid`), `PixelMatrix` what `read_matrix` and
`calibrate_matrix` do with the matrix; here they take some time, which is measured.
What the conversions are checked against is defined apart from them: the number
that a word denotes (`Denoted`, sums of powers), the results of the operations
(`IsResult`, by the division equation). `int` arithmetic wraps around and a shift
goes by the number modulo the width, which C++ leaves undefined and the target's
instructions do. A name of a command is one symbol, or two where one name begins
with another. The places of a command's arguments hold a text or a number, which
overwrites the text, and `parse_command_args` moves the arguments down by one
place one after the other, as the code does (`Moved`): in another order a text
would be lost before it is read.

### Faulty variants

Definitions whose comment begins "Faulty variant" are not part of any
specification. They are plausible mistakes (a dropped guard, an off-by-one, a
missing reset), kept next to the definition they would replace, and each of the
properties below is violated when one of them is put in its place: the properties
do say something about the code. `PROJECT.json` lists the pairs (`mutants`).

## 3. What is checked

| run | module | checks | shows |
|---|---|---|---|
| `bus_safety` | `BusFabric` | `TypeOK AnswersAreOwned NoSpuriousResponse WaitsAreServed BoundedWait EveryRequestAnswered` | answers go to the port that waits for them, nobody waits for an answer that will not come, a load is refused for at most one cycle and a fetch for two, and every request is answered although the data port always wins |
| `bus_refinement` | `BusFabric` | `SharedMemorySpec` | the bus implements `SharedMemory`, byte enables included, on boot ROM, code RAM and an offset without a register |
| `loop_stream` | `LoopController` | `TypeOK LifoConsistent NoStaleBranch LoopStackWhileDisciplined` | whatever the program, flags and counter agree and no branch goes to an address that no LOOP opened; while the stream since the last reset is disciplined, the controller implements `LoopStack` |
| `pmcc_programs` | `PmccProgram` | `LoopsUnrolled ProgramEnds` | structured programs store what they mean, and end |
| `pixel_matrix` | `PixelMatrix` | `PixTypeOK NoTriggerLost NoTriggerRepeated RowsUndisturbed CallsKeepTheirWord PulsesBeforeReset CallsReturn` | calls of the matrix software write and read the right bits, lose no trigger, cut no row or pulse short, and return |
| `shifter_b` | `PixelMatrix` | `OnlyBSelected` (violated) | the comment on the first store of the program for counter b is not what its bytes do |
| `uart_line` | `UartLine` | `LineTypeOK BytesInOrder NeverOverwritten LineComesBack LineEnds` | a line sent at full speed by a host with another clock is read whole, edited by its backspaces, and comes back up to the first byte of zeros left in it |
| `console` | `Console` | `ConsoleTypeOK LossesAccounted OnlyBeatsCollide StraysOnlyWhileDisabling CommandsReturn BeatsKeepComing` | what a heartbeat in the midst of a command may do to it, and no more: one byte lost per beat, an endless loop only in the window of `disable_timer_interrupts`; commands end and beats go on |
| `boot` | `Bootloader` | `BootTypeOK NothingDropped GivesUpOnlyLate ImplementsLoading BootEnds` | for every setting of the switches the bootloader does what `CodeLoading` promises, asks the SPI master for a byte only when it can take it, gives up a load only after its time unless the counter's lower half ran over, and comes to an end |
| `commands` | `CommandInterpreter` | `ShellTypeOK ParsedAsWritten CommandsDone OnlySignOverruns` | words become the command, texts and numbers that were typed; each command changes the pin it names and no other, and answers what is so; a printed number runs over its buffer only by the sign of a negative one with all digits |
| `next_beat` | `Console` | `NextBeatWithinPeriod` (violated) | a shorter period set while the counter is past it does not take effect |
| `ping` | `Console` | `PingArrives` (violated) | a heartbeat may take the place of a byte of the answer to `ping` |

### Bounds, and why they are enough

* **Bus.** One address in each kind of target: boot ROM, code RAM, data RAM, a
  peripheral register, a peripheral offset without a register, an unmapped
  address; the arbiters look at an address only to decode it. Words of one lane
  and one value for control; two values to tell words apart, and two lanes for
  byte enables, in `bus_refinement`, which leaves out the data RAM to stay small:
  it is a memory with one port, and the theorem `BusIsMemory` covers it. `bus_safety` loads from the
  three memories, from an offset of the UART without a register and from an
  unmapped address, stores to the code RAM and to a register of the PMC, and
  fetches from the boot ROM, the code RAM and an address that the instruction
  bus does not reach. `WaitCap` (3) stops the history of
  refusals above the bounds claimed.
* **Loop controller.** Three addresses or two, a LIFO of two entries, counts of
  two or three values: overflow, underflow and wrap-around all happen. The
  proofs cover all sizes.
* **Programs.** All 170 programs of two levels with up to two inner loops, a
  store or none before them and counts 1 and 2, and one nest of eleven loops, as
  deep as the ten entries of the LIFO and the active register hold.
* **Pixel matrix.** Two rows, so that bits pass from one to the next; two calls
  in a row out of eight, so that each call is preceded by each other one. The
  width of a row (16) and the programs are the real ones. `PcSize` is 128: the
  longest program ends at byte 103.
* **UART line.** Eight bits, sixteen edges per bit, the real ones; a divider of 1,
  so that a bit takes 64 cycles, and a host whose bit takes 64 or 67: the driver's
  divider of 12 makes 416 cycles per bit at 50 MHz, which is 4.3 % faster than
  the 115200 baud of the comment in `uart.cpp:22`. Not in the run: a host that is
  faster than the UART and leaves no pause between bytes; the receiver waits for
  the end of the stop bit, so that such a host would gain on it. The software
  comes round every 4 or 11 cycles, and bytes follow each other at once or after
  3. The buffer holds four characters instead of 100; the lines include the empty
  one, backspaces at the start, in the middle and at the end, one that fills
  the buffer, and two with a byte of zeros, where the printing stops
  (`uart.cpp:58`), unless a backspace has taken it away. The theorems of
  `UartLine_proof` cover all sizes.
* **Console.** One-bit bytes and three edges per bit keep a frame at 18 cycles.
  Proportions are the real ones where they matter: the way into the handler
  (`Entry`) is shorter than a start bit, as 50 cycles are shorter than 416, and
  the handler takes nearly the whole of the shorter period, as ten characters
  (41,600 cycles) do of a period of one millisecond (50,000). The counter is
  modulo 88 in `console`, so that it runs through within the run; modulo 256 and
  128, with longer periods, in the other two.
* **Bootloader.** Two words of code of 4096, and a flash with one more, so that
  the moves from byte to byte and from word to word happen; bytes, oversampling
  (4 instead of 16) and the SPI divider (3, the real one) as far as the timing
  depends on them. The flash answers two to three cycles after an edge: with the
  dividers 0 and 2 `ImplementsLoading` fails, as the master takes each bit too
  early. Accesses come every 4 or 7 cycles. The host sends nothing, five bytes or
  all eight, at once or after pauses; the timeout, 1500 cycles, is longer than a
  program takes and shorter than the pause of a host that stopped. The halves of
  the cycle counter hold 6000; it starts at 0, near the end of the lower half, in
  its last cycle and past it, so that it runs over in the middle of a load and
  between the halves of the first reading.
* **Commands.** Ints of one byte, which `to_dec_string` supports by a divider of
  100 of its own, and eight pins; every word of one to three of the characters
  `0 9 b F x -` as the number of a pin, the ends of an int and numbers in between
  under all four operations, each command with arguments that are right, with one of
  them of the other type, and with some or all of them missing, lines of none to seven words, one or two blanks before
  each. The halves of the counter hold 256; they run over before, between and
  after the two reads.

### Fairness

The clock does not stop: `WF_vars(Tick)`, `WF_vars(Cycle)`,
`WF_pixvars(Wait)`, and in `Console` `ClockRuns`, weak fairness of the serial
clock, which turns in every step. In `UartLine` `WF_linevars(LineNext)`: the
software is a loop that nothing stops, and `WF_loadervars(BootNext)` in `Bootloader`
for the same reason. The software goes on making accesses (`WF_pixvars(Access)`):
nothing in that model disables its next access for ever, as the bus answers
every request (`bus_safety`). No strong fairness is used. A reset is never
required to come.

### Findings

`sw/libs/drivers/src/pmcc.cpp:50` says of the first store of the program that
shifts counter b that it stores `0x0004` to "set sh_b at the beginning". The
bytes store `0x0002`, which selects counter a until the first row is shifted.
`shifter_b` reaches that state. No bit is lost, since no clock comes in between
(`CallsKeepTheirWord` holds with these bytes).

`set_heartbeat` (`command_interpreter.cpp:187`) writes the timer's compare
register while it counts and never resets the counter, and the match is an
equality (`timer_core.sv:90`). A shorter period set after the counter has passed
it takes effect only when the counter has run through all its 2^32 values, 86
seconds later. `next_beat` reaches that state; `BeatsKeepComing` shows that the
beats do come after that.

The heartbeat's handler writes `tdr` whether or not the program it interrupts has
a byte on its way. While the transmitter is in START, which is a whole bit, it
copies `tdr` again in every cycle, so the byte of the interrupted `ping` is
replaced (`uart.cpp:52`, `uart_transmitter.sv:147-149`); later in the frame it is
the first byte of the heartbeat that is passed over. `ping` reaches the first
case. `LossesAccounted` and `OnlyBeatsCollide` show that this is all that
happens: one byte per beat, and no garbled one.

The comment on the timeout of the load over the UART, "20 s if fclk = 50 MHz"
(`code_loader.cpp:26`), is right up to a race: `get_performance_counter` reads the
lower half of `mcycle` and then the upper one (`core.cpp:16`). When the lower half
runs over between the two, the loader sees a time 2^32 cycles ahead and gives up
at once if no byte is there. `GivesUpOnlyLate` excludes just that case.

`Ui::operator<<(int)` prints through a buffer of 11 characters (`ui.cpp:27`); a
negative number of ten digits takes 12 with its end. `OnlySignOverruns` says that
no other number does.

A similar slip without effect on the models: `pmcc.cpp:90` announces `0x0023` for a
store of `0x0020`; `0x0020`, the store line alone, is what latches. The comments on
`rxne` in `uart_sr.h` and `spi_sr.h` ("the receiver is not ready") say the
opposite of what the bit means to both sides.

### What the checks depend on

* The loop controller counts wrong when an instruction other than STOREB or LOOP
  follows the end of an inner loop: it takes an iteration from the outer loop
  (`pmcc_loop_controller.sv:161-164`). `Disciplined` excludes that, and
  structured programs (`PmccProgram`) never have it. The driver's programs use
  no loops.
* The status register lags by one cycle: a poll fewer than four cycles after the
  trigger could see the WAITT that was just left. `CallGap` is four, and the
  variant with `CallGap_Pipelined` loses triggers: the driver is right with one
  cycle to spare.

## 4. What is proved

For every choice of the constants that satisfies `BusAssumption` (addresses are
naturals, requests are well typed, the ROM image is a function on the ROM's
words):

* `BusFabric_proof`: `TypeCorrect` (`TypeOK`), `AnswersOwned`
  (`AnswersAreOwned`), `NoAnswerUnasked` (`NoSpuriousResponse`), `NobodyHangs`
  (`WaitsAreServed`), `WaitsAreBounded` (`BoundedWait`).

  The inductive invariant `CInv` adds to `TypeOK` and `AnswersAreOwned` that an
  arbiter waiting for a grant still sees the request it decoded (otherwise
  `responding_slave` and the address lines could differ when the grant comes),
  and that the boot ROM reads only for a port that waits for it and shows no
  answer meanwhile (otherwise its answer could be taken by the wrong port or
  collide with another). `WInv` adds what the length of a wait says of its
  cause: a load refused once waited for the ROM, which is free now; a fetch
  refused once waited for a load, whose arbiter now waits for its answer and
  forwards nothing; refused twice, for the ROM, which is free now.

  `BusIsMemory` (`SharedMemorySpec`): every behaviour of the bus is one of
  `SharedMemory`. What a port owes to the core is mapped to what the slaves hold
  in their answer registers. `DOwes` and `IOwes` say where the answer a port
  waits for is (in the register of the slave its arbiter remembers, or still to
  be read by the ROM), so that a port that owes one in the abstract memory owes
  one here and no other slave has changed it. A cycle then is one step of each
  abstract port: a port that is granted serves its request on the memory as it
  stands (`ServesData`, `ServesFetch`), one that is not keeps what it owes
  (`HoldsData`, `HoldsFetch`), and `NeverBoth` shows that
  the ports are never served by the same memory in one cycle, so there is no
  question which of them comes first. The ROM answers a cycle late, which shows only because the
  readout is of an array that never changes.

For all sizes that satisfy `SizesAssumption`:

* `LoopController_proof`: `TypeCorrect`, `FlagsAgree` (`LifoConsistent`) and
  `BranchesAreFresh` (`NoStaleBranch`), for any program, disciplined or not. The
  array of the LIFO is not reset and its pushes are dropped when it is full; the
  invariant `TInv` (every loop the controller can reach was opened since the
  reset) shows that no stale word of it is ever used.

  `LoopsNest` (`LoopStackWhileDisciplined`): while a program keeps to the
  discipline (`Disciplined`: no loop is opened with a full LIFO, and after the
  end of an inner loop comes the end or the start of one), the controller is a
  stack of counted loops. The stack is the words of the LIFO below its counter
  with the innermost loop on top (`Loops`), which is the active loop or, right
  after the end of an inner loop, the register that reads the array one cycle
  late. A push moves the active loop into the array; a pop leaves the word below
  the counter in that register, and the discipline makes the next instruction one
  that takes it from there. A reset brings back the empty stack from any state.

For all lines, dividers, sizes, bit times, pauses and paces that satisfy
`UartAssumption`, `LineAssumption`, `LineTiming` and `LineEnding`:

* `UartLine_proof`: `TypeCorrect` (`LineTypeOK`: the registers keep their widths
  and `Uart::read` stays within the buffer whatever backspaces come),
  `StatusIsFreshEnough` (`NeverOverwritten`), `BytesComeInOrder` (`BytesInOrder`)
  and `LineIsPrintedBack` (`LineComesBack`): all safety properties of the run.
  A line may hold any bytes, zeros too; the string that `Uart::write` prints
  ends at the first of them that is left after editing (`StringEnds`), and so
  does what the host should hear (`Shows`).
  `SInv` is the argument of the
  second: a byte is on its way to the transmitter only in the cycle after the
  store, from the next one on the transmitter is busy, and from the one after
  that `txact` shows it; so a poll from the third cycle on is right. `Paces`
  must leave out 0, 1 and 2; the driver's accesses are at least four cycles
  apart.

  The other two are about two clocks. `LineTiming` says how far the host's may be
  from the UART's: its bit is at least as long (`KeepsUp`), and longer by so little
  that both ends still take the stop bit for one (`KeepsUp`, `EarKeepsUp`). With
  the driver's divider of 12 a bit has 416 cycles, and 434 at 115200 baud and
  50 MHz: the nine bits before the stop bit drift by 162 of the 183 cycles that
  the receiver has, and the ear takes the last data bit 28 cycles and the stop bit
  12 cycles before its end. It also says that the driver looks twice for a byte
  before the next can be there (`MaxWait`: nine bits less a period, 3718 cycles)
  and within the 100 cycles after reset in which no host of the model begins.
  `LineEnding` says that a line has one newline, its last byte.

  `RInv` is the way in. `RxFollows` (in `Uart`, for any user of the receiver) keeps
  the receiver and the host `InTouch`: at the same bit, or the receiver one ahead
  while the host still has a little of its bit to say, or the host just turned to
  the next bit; `Drift` bounds the cycles between their ends of the bit and grows
  by the same amount at every bit, until the receiver waits in the stop bit for
  the host (`Waits`). So what it takes in the middle of a bit is that bit of the
  host's (`RxBits`). `ReadInv` counts: the bytes the driver has read and the one
  that waits are those the receiver took from the line, and the time until the
  driver reads (`TimeLeft`) is no longer than the time in which no other comes
  (`QuietFor`).

  `EarInv` is the way back: `InPhase` puts the ear's next sample at least
  `EarSpan` and at most a bit before the end of the transmitter's bit, or in the
  next one; when the transmitter rests before the ear has its stop bit, by two
  cycles at most, the driver still polls a status that is late. `SentInv` says that
  the bits in the transmitter and in the ear are those of the byte written last
  (`Carried`), that it is heard once (`OnWay`), and that the bytes before it are
  the string's. `EditInv` says that the buffer up to the index of `Uart::read` is
  the text of what was read: a backspace steps the index back and leaves what is
  behind it (`PlacingEdits`). `EditedStep`, which says of `Edited` that a
  longer line's text is that of the shorter one edited by the last byte, needs an
  induction over lines; it is done with sets of numbers
  (`InductionOverSets`, from the well-foundedness of `<`), as the induction
  rules of the library take an operator as a parameter.

For all texts, periods, dividers, lengths of a bit and of a byte, delays of the
handler, and every pace of the software that leaves three cycles between two
accesses (`UartAssumption`, `TimerAssumption`, `ConsoleAssumption`):

* `Console_proof`: `ConsoleTyped` (`ConsoleTypeOK`), `LossesAreAccounted`
  (`LossesAccounted`), `OnlyFirstBeatsCollide` (`OnlyBeatsCollide`) and
  `StraysOnlyInDisabling` (`StraysOnlyWhileDisabling`).

  The inductive invariant `Inv` has three layers. The first (`TxInv`) knows
  nothing of the software. `TxLeft` counts the cycles that are left of the
  transmitter's bit, over the edges and the divider of the serial clock
  (`EdgesComeRound`, `BitsGoBy`); `InStep` says where in that bit the host's next
  sample falls, and how many bits it has then. So the host takes every bit of a
  frame within that bit and the last sample in the stop bit (`InStepNext`,
  `SamplesItsBit`), and never meets a framing error. A bit must have three
  edges, so that the cycles by which the start bit may be short of a bit are
  fewer than half a bit.

  The second layer (`Line`) is about bytes. `Sending`: what is on the line is the
  byte in the data register, or, while a handler's first byte is being stored, one
  of those that are owed; the transmitter copies the register until the last cycle
  of its start bit, so a collision there replaces the byte that was accepted and a
  later one loses the new byte. `Counted`: the bytes owed are the lost ones and
  those in the register and on the line. `LostInv`: a lost byte is passed over no
  later than the handler's second byte is heard, which differs from the first
  (`ConsoleAssumption` says so of the text; with two equal bytes the history could
  not tell which of them was heard). `LineInv` gives the reason why
  nothing else collides: a thread that has seen `txact` low with its poll finds
  the line quiet, as the poll comes at least three cycles after its store
  (`Fresh`), and stays the only one that stores; the handler alone begins to print
  without a poll.

  The third layer (`Threads`) is where the two programs are and what
  `enable_timer_interrupts` and `disable_timer_interrupts` have done so far.

For all images, words, hosts, timeouts, halves of the counter and paces that
satisfy `LoaderAssumption` and `BootAssumption` (and, for the words themselves,
`FlashAssumption` and `HostAssumption`):

* `Bootloader_proof`: `BootTyped` (`BootTypeOK`), `NothingIsDropped`
  (`NothingDropped`) and `NeverGivesUpEarly` (`GivesUpOnlyLate`). The second
  rests on `IInv`. `SwOK` says
  which sequences of accesses can be left to do, and `HInv` and `SInv` follow the
  SPI master through a byte: it is in START or ACTIVE only while the software
  polls for the answer, and when the answer is there it has been in STOP no
  longer than the software took since; STOP ends with the next edge of the serial
  clock, at most a divider plus one after it began. Two accesses are a pace apart
  each, and `LoaderAssumption` asks that the divider be at most twice the pace.
  With the driver's divider (3) and its paces (at least 4) there is room to spare.
  The third rests on `TInv`, which adds that the timeout was made from a reading
  no earlier than `began`, and that a reading whose halves are of the same count
  is no later than the counter.

  The types rest on `BInv`. Two of them are not kept by themselves. The master's
  counter of bits, of four bits in the code, would run on if a leading edge came
  after the eighth one: `Counted` says that the trailing edge, which clears it,
  comes before the next leading one. The load's index would run past the code RAM
  if a load function were called again, as it is not set back: `LoadInv` says that
  the operations that lead to a load (`Starters`) are never there twice, that none
  is left when a load has begun, and that a load that has stored the last word is
  left. `HardwareKeepsTypes` puts the lemmas about the components together: those
  about the UART are in `Uart`, those about the host in `SerialHost`, and
  `UartLine_proof` uses the same.

  `LoadingInOrder` is the control of `ImplementsLoading` for both sources: the
  bootloader implements `CodeLoading` when of each word of the code RAM only is
  kept whether it is in (`Ordered`). `CtlInv` says what the accesses that are left
  to do can be: a choice of the source is there only when the switches do not skip
  the load, a result is looked at only after a load over the UART, and the jump is
  at the end of what follows a load that was done. `StepsOfLoading` says of every
  step which step of a load it is; it also says that the word stored is the one
  that `bytes` holds, so what the full refinement adds is that this is the word of
  the image.

  `CodeIsLoaded` is that refinement (`ImplementsLoading`), for both sources and
  whatever the switches say. For the flash it takes `FlashAssumption` besides:
  the flash holds the program, which fits its 4096 words (`WithinSpace`: the address
  does not wrap around meanwhile), and the divider is at least three
  (`set_clock_divider(3)`), as the flash sees an edge three cycles after the
  master's line. The invariant `DataInv` has four layers. `LineInv`: that line
  and the flash's synchroniser are the clock as it was one to four cycles ago
  (`Was`). `BitsInv`: from this follows in which cycle the flash shows a bit and
  the master takes it, so of the byte the flash shows, `Shown` bits are out and
  `Came` bits are in, at most one fewer. `PlaceInv`: bytes the software has, or
  can fetch (`Got`), and the flash's place in the image agree, but for the byte
  by which the flash is behind until it sees that the master has let it go
  (`Behind`). `WordInv` is about the bytes of the word so far. `FlashTurns`
  reduces the software to the five things it can do to the SPI and the load, and
  `ClockBeats` clock and master to the eight cycles of an exchange; all other
  steps are about those.

  For the UART it takes `HostAssumption`. The host's bit is as long as the
  UART's or little longer (`KeepsUp`, as in `LineTiming`: 434 cycles against 416
  are). The words of its image have four bytes. And four paces of the loader and
  a cycle fit into the time from one byte to the next (`MaxWait`): from the poll
  that misses a byte by a cycle the loader reads the two halves of the counter,
  polls again, asks again, and only then reads. At the real divider of 12 this
  leaves 929 cycles for a pace, and an access with the code around it takes some
  tens. The host may send without a pause and never waits for the loader, so
  this is where a load could go wrong. The invariant `UartInv` has four parts.
  `SetupInv`: the constructor of the driver writes the divider and then enables
  the UART, with the clock at rest until then; no later access stops the clock
  or sets it anew (`Calm`), as nothing brings the constructor back. `HostInv`
  and `RxInv`: the host says its line from the start, and from the moment it is
  listened to the receiver follows it (`RxFollows` and `RxBits` of `Uart`, with
  the lemmas that `UartLine_proof` uses, too); before that both rest (`AtEase`).
  `ReadInv` counts: the bytes stored and put together so far (`Placed`), and the
  one that waits (`Unread`), are those that the receiver took from the line,
  each of them the host's byte of that number; and the time until the loader
  reads the one that waits (`TimeLeft`) is no longer than that in which no other
  comes (`QuietFor`). `ByteWaits` is the step that takes no byte (`FillsOn`),
  `TakingReads` the one that does, and `ComesBack` says of every operation of
  the load (`Follows`) that it keeps to the time.

For any number of rows, any calls with any data, any value of a bit, and for all
sizes of the code RAM and the loop controller that satisfy `MatrixAssumption`:

* `PixelMatrix_proof`: `PixTyped` (`PixTypeOK`), `TriggersArrive`
  (`NoTriggerLost`), `TriggersOnce` (`NoTriggerRepeated`), `RowsFinish`
  (`RowsUndisturbed`), `PulsesFinish` (`PulsesBeforeReset`) and `CallsCorrect`
  (`CallsKeepTheirWord`).

  The software may be held up between any two accesses, so what keeps it and the
  coprocessor together is the order of the accesses, and the invariant `IInv`
  relates three places: that of the software in its call, that of the coprocessor
  in its program, and that of the transmitter in its row. `SwInv` says that what
  is left of a call is `Orderly` (a load is followed by a trigger, a poll comes
  only after a trigger, and the trigger of a pulser is the last before the next
  load), which `CallsOrderly` proves of every member function from its definition,
  for any number of rows. In reset, `ResetInv` says how much of the program has
  been written; out of it, `RunInv` says that the code RAM holds one of the four
  programs as a whole, byte by byte, that the four bytes the coprocessor looks at
  are the ones at its program counter, and where it can be. For a shifter
  (`ShifterInv`) the program counter determines the number of bits shifted
  (`ShifterPlace`), and a software that does not poll finds it at a `waitt`; the
  status it polls is a cycle old, and the invariant says from which cycle after an
  access on it can be relied on. For a pulser (`PulserInv`) nobody polls: the
  pulse is over three cycles after the trigger, before the four cycles that the
  next access takes. The programs of the coprocessor are sequences of literal
  bytes in the model too; the lemmas `ShifterBytes` and `PulserBytes` say which
  byte is at which address, and `Decode` what the decoder makes of it. The loop
  controller rests all the time (`LoopsRest`), as no program has a loop.

  `CallsCorrect` (`CallsKeepTheirWord`) says what the calls do to the matrix. The
  property speaks of the moments between calls only, so the invariant has to say
  what is true inside one. `Machine` is a call as its driver functions would have
  it if each took effect at once (`Done`): a trigger shifts a whole row, or counts
  the hits. `Does` says how far the hardware is behind that: it has done what the
  functions that have returned asked for, except for a row being shifted, of which
  the first bits are in (`Partly`, by the program counter), or hits about to be
  taken over. A driver function is several accesses, so the step from one machine
  to the next is taken when it returns, and a poll returns only when the row is
  in. `Plan` says what the functions that are left will still do: which rows are
  written (`RowsIn`), read (`RowsOut`, `RowsRead`) or do not matter yet, as the
  hits will overwrite them (`Later`), so that at its end the machine is at what
  the call should lead to. `Tracks` joins the two: there is such a machine at
  every moment. The register that the software reads is a copy of the receiver's, a cycle
  old (`din_reg`, `pmc.sv:283`); `Copied` says that the two are equal when a row
  is to be read, as the row has then been over for longer than a cycle
  (`RestsForDin`). `StartPlan` gives the plan when a call begins, from the definition
  of each member function; after that each returning function is one step of it
  (`PlanStep`). The loops over the rows are functions of the row, and what they do
  for any number of rows is an argument about the row reached, not an induction.

  `MatrixAssumption` takes the size of the code RAM as a power of two that holds
  the longest program: the immediate of a JUMP contains the code of the
  instruction (bit 13), which the width of the address has to cut off.

Only model-checked: the conversions and the parser, which are folds over texts;
liveness under fairness, which is out of the prover's reach; everything about
structured programs, whose assembler and meaning are recursive operators.

## 5. What is not modelled

* Generated data: `boot_mem.sv`, `spi_mem.sv`.
* The core's inside, the clock generator and pads of the FPGA, vendor memories.
* Analog and digital configuration registers, CTRLR, external gate and strobe:
  they drive pads, and no other state depends on them.
* Start-up code before `main`, which runs straight through: `crt0.S` clears one
  word past `.bss`, as its loop goes on while the address is not above the end.
* What no program in `sw` calls: GPIO interrupts and handlers of exceptions (the
  GPIO's interrupt flags are in `Gpio`, but no run enables them), `Spi::write`,
  `Gpio::toggle_pin`, `Ui::get_integer`, `udelay`, and parts of `string_ops.cpp`
  and `debug.cpp`.
* Words of 20 characters and more in a command, which run over their places
  (`command_parser.cpp:46`); a line of 100 characters without its end
  (`uart.cpp:47`); periods whose product overflows (`command_interpreter.cpp:187`).
* Overruns of the UART's receiver while the interpreter prints; metastability of
  its pin, which has no synchroniser.
* The wording of messages, and the search of `calibrate` over all rounds.
* Compiler reordering around the non-volatile accesses of `code_ram.cpp` and of
  the `memcpy`s in `pmc.cpp`.

## 6. Plan

Done: the bus, the coprocessor, the pixel matrix path, the UART and its driver,
the timer, the console with its heartbeat, SPI, flash and GPIO, the bootloader,
the command interpreter with its parser and strings. What would come next:

1. **Proofs**: transmitter, receiver and bit counters of `Pmc` in step under any
   accesses.
2. **Abstract specifications**: a matrix service (rows written and read as a
   whole) which `PixelMatrix` implements, and a channel of bytes which `UartLine`
   implements.
3. **GPIO interrupts** beside the timer's in `Console`, when a program uses them.
4. **The search of `calibrate`** over all rounds, as a function against what it
   should find.
