------------------------- MODULE CommandInterpreter -------------------------
(***************************************************************************)
(* The command interpreter                                                 *)
(* (sw/command_interpreter/src/command_interpreter.cpp): a line is parsed, *)
(* its arguments are checked, and the pins are read and written through    *)
(* the driver of the GPIO controller (sw/libs/drivers/src/gpio.cpp), while *)
(* the outside world moves them.  One step is one clock cycle.  How a line *)
(* comes in and how a text goes out, the heartbeat and the accesses of the *)
(* pixel matrix are in UartLine, Console and PixelMatrix.                  *)
(***************************************************************************)
EXTENDS CommandParser, Gpio

CONSTANTS Boards,        \* what the software can be built for
          Lines,         \* what may be typed: sequences of words
          Spaces,        \* how many blanks may come before a word
          Loose,         \* the pins that move from outside
          Counts,        \* what the cycle counter may be
          Durations,     \* cycles that the matrix takes
          Readings       \* what its last row may be: sequences of words

VARIABLES board,         \* what the software is built for
          din,           \* external: the pins that are high
          mcycle,        \* the cycle counter, while it is looked at
          shell,         \* the interpreter: where it is, and its variables
          out,           \* what the command has printed, by numbers and texts
          typed,         \* history: the words of the line
          due,           \* history: what the commands should have led to
          seen,          \* history: the inputs since the line
          spans          \* history: the counter when the times were taken

shellvars == <<gpiovars, board, din, mcycle, shell, out, typed, due, seen, spans>>

Clock(access) ==
    /\ GpioCycle(access, din)
    /\ \E moved \in SUBSET Loose : din' = (din \ Loose) \cup moved
    /\ board' = board

Cycle(access) == Clock(access) /\ seen' = seen \cup {din, din'}

-----------------------------------------------------------------------------
(* The driver: a pin of a register, the others as they were.  A shift goes *)
(* by the pin's number modulo the width of a register.                     *)
Mask(pin) == {(pin % 256) % Cardinality(Pins)}

(* Faulty variant, for the mutation runs: a bit is never cleared.          *)
set_mask_bits_Or(reg, mask, bits) == reg \cup (bits \cap mask)

set_mask_bits(reg, mask, bits) == (reg \ mask) \cup (bits \cap mask)

set_pin(reg, pin, value) ==
    set_mask_bits(reg, Mask(pin), IF value THEN Mask(pin) ELSE {})

set_pin_direction(reg, pin, direction) ==
    (reg \ Mask(pin)) \cup IF direction = "in" THEN Mask(pin) ELSE {}

get_pin(reg, pin) == Mask(pin) \subseteq reg

-----------------------------------------------------------------------------
(* What the handlers ask of their arguments.                               *)
Kinds == [set_gpio_direction |-> <<"number", "string">>,
          get_gpio_direction |-> <<"number">>,
          set_gpio           |-> <<"number", "number">>,
          get_gpio           |-> <<"number">>,
          set_heartbeat      |-> <<"number">>,
          calculate          |-> <<"number", "string", "number">>]

type == shell.command.type
Arg(k) == shell.command.args[k]

Missing == type \in DOMAIN Kinds /\ Len(shell.command.args) < Len(Kinds[type])
Invalid == /\ type \in DOMAIN Kinds /\ ~Missing
           /\ \E k \in DOMAIN Kinds[type] : Arg(k).type # Kinds[type][k]
WrongDirection == /\ type = "set_gpio_direction" /\ ~Missing /\ ~Invalid
                  /\ Arg(2).buf \notin {<<"in">>, <<"out">>}

Runs(t) == shell.pc = "run" /\ type = t
Fits(t) == Runs(t) /\ ~Missing /\ ~Invalid

Text(t)   == [by |-> "text", text |-> t]
Prints(n) == [by |-> "number", text |-> to_string(n)]

(* The end of a command; what calculate returns is not looked at.          *)
Ends(texts, err) ==
    /\ out' = texts \o IF err /\ type # "calculate"
                       THEN <<Text("error: command failed")>> ELSE <<>>
    /\ shell' = [shell EXCEPT !.pc = "done"]

Kept == UNCHANGED <<mcycle, typed, due, spans>>

Refuse ==
    /\ shell.pc = "run" /\ (Missing \/ Invalid \/ WrongDirection)
    /\ Cycle(None)
    /\ Ends(<<Text(IF Missing THEN "error: missing argument(s)"
                   ELSE IF Invalid THEN "error: invalid argument(s) type(s)"
                   ELSE "error: invalid direction")>>, TRUE)
    /\ Kept

OnMatrix == {"read_matrix", "calibrate_matrix"}

Unsupported ==
    \/ type = "reset" /\ board # "BASYS"
    \/ type \in OnMatrix /\ board \notin {"ARTY", "ASIC"}

(* help, ping, and lines that are not commands                             *)
Say ==
    /\ shell.pc = "run"
    /\ type \in {"help", "ping", "unrecognized", "empty"} \/ Unsupported
    /\ Cycle(None)
    /\ Ends(CASE type = "help"         -> <<Text("message")>>
              [] type = "ping"         -> <<Text("ping")>>
              [] type = "empty"        -> <<>>
              [] type = "unrecognized" -> <<Text("error: unrecognized command")>>
              [] OTHER                 -> <<Text("error: operation not supported")>>,
            FALSE)
    /\ Kept

(* The operation is the first character; int arithmetic wraps around, and  *)
(* a division goes towards zero.                                           *)
Quotient(a, b) ==
    LET q == (IF a < 0 THEN -a ELSE a) \div (IF b < 0 THEN -b ELSE b)
    IN  IF (a < 0) = (b < 0) THEN q ELSE -q

Calculate ==
    /\ Fits("calculate")
    /\ Cycle(None)
    /\ LET a  == Arg(1).val
           op == Head(Arg(2).buf)
           b  == Arg(3).val
       IN  CASE op = "+" -> Ends(<<Prints(AsInt(a + b))>>, FALSE)
             [] op = "-" -> Ends(<<Prints(AsInt(a - b))>>, FALSE)
             [] op = "*" -> Ends(<<Prints(AsInt(a * b))>>, FALSE)
             [] op = "/" /\ b # 0 -> Ends(<<Prints(AsInt(Quotient(a, b)))>>, FALSE)
             [] op = "/" /\ b = 0 -> Ends(<<Text("error: division by zero")>>, TRUE)
             [] OTHER -> Ends(<<Text("error: unrecognized operation")>>, TRUE)
    /\ Kept

(* What it does to the timer and its interrupt is in Console. *)
SetHeartbeat == Fits("set_heartbeat") /\ Cycle(None) /\ Ends(<<>>, FALSE) /\ Kept

-----------------------------------------------------------------------------
(* The pins.  A register that is written is read before.                   *)
Resets == Runs("reset") /\ board = "BASYS"
ResetPin == 31

ReadRegister ==
    /\ \/ Fits("set_gpio_direction") /\ ~WrongDirection
       \/ Fits("set_gpio")
       \/ Resets
    /\ LET reg == IF type = "set_gpio_direction" THEN "oenr" ELSE "odr" IN
       /\ Cycle(ReadReg(reg))
       /\ shell' = [shell EXCEPT !.pc = "write", !.reg = gpio_regs[reg]]
    /\ UNCHANGED out /\ Kept

WriteRegister ==
    /\ shell.pc = "write"
    /\ Cycle(CASE type = "set_gpio_direction" ->
                    WriteReg("oenr", set_pin_direction(shell.reg, Arg(1).val,
                                                       Head(Arg(2).buf)))
               [] type = "set_gpio" ->
                    WriteReg("odr", set_pin(shell.reg, Arg(1).val, Arg(2).val # 0))
               [] type = "reset" ->
                    WriteReg("odr", set_pin(shell.reg, ResetPin, TRUE)))
    /\ Ends(<<>>, FALSE)
    /\ Kept

GetDirection ==
    /\ Fits("get_gpio_direction")
    /\ Cycle(ReadReg("oenr"))
    /\ Ends(<<Text(IF get_pin(gpio_regs.oenr, Arg(1).val) THEN "in" ELSE "out")>>, FALSE)
    /\ Kept

GetPin ==
    /\ Fits("get_gpio")
    /\ Cycle(ReadReg("idr"))
    /\ Ends(<<Prints(IF get_pin(gpio_regs.idr, Arg(1).val) THEN 1 ELSE 0)>>, FALSE)
    /\ Kept

-----------------------------------------------------------------------------
(* read_matrix and calibrate_matrix: the cycle counter is read in halves,  *)
(* the lower one first, before the matrix is used and after.  The times    *)
(* are of twice as many bits as what is printed of their difference.       *)
Timed == type \in OnMatrix /\ ~Unsupported

ReadLow(count, next) ==
    /\ Cycle(None)
    /\ mcycle' = count + 1
    /\ shell' = [shell EXCEPT !.pc = next, !.low = count % Base]
    /\ spans' = Append(spans, count)
    /\ UNCHANGED <<out, typed, due>>

StartTiming == /\ shell.pc = "run" /\ Timed
               /\ \E count \in Counts : ReadLow(count, "start")

StopTiming == shell.pc = "matrix" /\ ReadLow(mcycle, "stop")

Counter == shell.low + Base * (mcycle \div Base)

UseMatrix ==
    /\ shell.pc = "start"
    /\ Cycle(None)
    /\ \E duration \in Durations : mcycle' = mcycle + duration
    /\ shell' = [shell EXCEPT !.pc = "matrix", !.start = Counter]
    /\ UNCHANGED <<out, typed, due, spans>>

print_dec_word(word) == [by |-> "time", text |-> to_dec_string(word)]
print_hex_word(word) == [by |-> "word", text |-> to_hex_string(word)]

PrintTime ==
    /\ shell.pc = "stop"
    /\ Cycle(None)
    /\ LET time == print_dec_word(Uint(Counter - shell.start)) IN
       \/ /\ type = "read_matrix"
          /\ \E words \in Readings :
                Ends(<<time>> \o [k \in DOMAIN words |-> print_hex_word(words[k])], FALSE)
       \/ /\ type = "calibrate_matrix"
          /\ Ends(<<Text("offset calibration done"), time>>, FALSE)
    /\ mcycle' = 0
    /\ UNCHANGED <<typed, due, spans>>

-----------------------------------------------------------------------------
(* What a command with these arguments should lead to.                     *)
Commanded(c) ==
    LET pin == c.args[1].val % Cardinality(Pins)
        ok(t) == /\ c.type = t /\ Len(c.args) >= Len(Kinds[t])
                 /\ \A k \in DOMAIN Kinds[t] : c.args[k].type = Kinds[t][k]
    IN  [odr  |-> IF ok("set_gpio")
                  THEN {p \in Pins : IF p = pin THEN c.args[2].val # 0 ELSE p \in due.odr}
                  ELSE IF c.type = "reset" /\ board = "BASYS"
                  THEN due.odr \cup {ResetPin % Cardinality(Pins)} ELSE due.odr,
         oenr |-> IF ok("set_gpio_direction") /\ c.args[2].buf \in {<<"in">>, <<"out">>}
                  THEN {p \in Pins : IF p = pin THEN c.args[2].buf = <<"in">>
                                     ELSE p \in due.oenr}
                  ELSE due.oenr]

Blanks(n) == [k \in 1 .. n |-> " "]
Spaced(words, n) == FoldLeft(LAMBDA line, w : line \o Blanks(n) \o w, <<>>, words)

(* A line comes, and with it the next command. *)
Enter ==
    /\ shell.pc = "idle"
    /\ Cycle(None)
    /\ \E words \in Lines, n \in Spaces :
          LET c == parse(Spaced(words, n)) IN
          /\ typed' = words
          /\ shell' = [shell EXCEPT !.pc = "run", !.command = c]
          /\ due' = Commanded(c)
    /\ UNCHANGED <<mcycle, out, spans>>

(* Back to the prompt; the command's variables are gone.                   *)
Fresh == [pc |-> "idle", command |-> [type |-> "empty", args |-> <<>>],
          reg |-> {}, low |-> 0, start |-> 0]

Prompt ==
    /\ shell.pc = "done"
    /\ Clock(None) /\ seen' = {}
    /\ shell' = Fresh /\ out' = <<>> /\ typed' = <<>> /\ spans' = <<>>
    /\ UNCHANGED <<mcycle, due>>

Wait ==
    /\ shell.pc \in {"idle", "write"} \/ Fits("get_gpio")
    /\ IF shell.pc = "idle" THEN Clock(None) /\ UNCHANGED seen ELSE Cycle(None)
    /\ UNCHANGED <<shell, out>> /\ Kept

ShellNext ==
    \/ Enter \/ Prompt \/ Wait \/ Refuse \/ Say \/ Calculate \/ SetHeartbeat
    \/ ReadRegister \/ WriteRegister \/ GetDirection \/ GetPin
    \/ StartTiming \/ UseMatrix \/ StopTiming \/ PrintTime

ShellInit ==
    /\ GpioInit
    /\ board \in Boards
    /\ din \in SUBSET Loose
    /\ mcycle = 0 /\ shell = Fresh /\ out = <<>>
    /\ typed = <<>> /\ due = [odr |-> {}, oenr |-> Pins] /\ seen = {} /\ spans = <<>>

ShellSpec == ShellInit /\ [][ShellNext]_shellvars

-----------------------------------------------------------------------------
(* Every state is well typed; the arguments fit into their places, and the *)
(* numbers among them into an int.                                         *)
ShellTypeOK ==
    /\ GpioTypeOK
    /\ shell.command.type \in Types
    /\ Len(shell.command.args) < MaxTokens
    /\ \A arg \in Range(shell.command.args) :
          arg.type = "number" => arg.val \in -(Base \div 2) .. Base \div 2 - 1
    /\ shell.reg \subseteq Pins

(* The number that a word denotes, if it does: figures in decimal, with or *)
(* without a sign, or in hexadecimal after a prefix.                       *)
Figure(c) == CASE c \in Range(Decimal)  -> Place(c, Decimal)
               [] c \in Range(LowerHex) -> 10 + Place(c, LowerHex)
               [] c \in Range(UpperHex) -> 10 + Place(c, UpperHex)

Worth(figures, radix) ==
    MapThenSumSet(LAMBDA k : Figure(figures[k]) * radix ^ (Len(figures) - k),
                  DOMAIN figures)

Figures(word, from, digits) ==
    Len(word) >= from /\ \A k \in from .. Len(word) : word[k] \in Range(digits)

Denoted(word) ==
    CASE Figures(word, 1, Decimal) -> {Worth(word, 10)}
      [] IsPrefix(<<"-">>, word) /\ Figures(word, 2, Decimal) ->
             {-Worth(Tail(word), 10)}
      [] IsPrefix(HexPrefix, word) /\ Figures(word, 3, Decimal \o LowerHex \o UpperHex) ->
             {Worth(SubSeq(word, 3, Len(word)), 16)}
      [] OTHER -> {}

(* The parser gets out of a line what was typed: its first six words, in   *)
(* order, and of each argument the number it denotes, as far as an int can *)
(* hold it.                                                                *)
ParsedAsWritten ==
    shell.pc = "run" =>
        LET args == shell.command.args IN
        /\ type = "empty" <=> typed = <<>>
        /\ Len(args) = IF typed = <<>> THEN 0
                       ELSE IF Len(typed) > MaxTokens THEN MaxTokens - 1
                       ELSE Len(typed) - 1
        /\ type \in DOMAIN Name => typed[1] = Name[type]
        /\ type = "unrecognized" => \A t \in DOMAIN Name : typed[1] # Name[t]
        /\ \A k \in DOMAIN args :
              LET denoted == Denoted(typed[k + 1]) IN
              args[k] = IF denoted = {} THEN [type |-> "string", buf |-> typed[k + 1]]
                        ELSE [type |-> "number",
                              val  |-> AsInt(CHOOSE n \in denoted : TRUE)]

(* The result of an operation, as arithmetic has it. *)
IsResult(v, a, op, b) ==
    CASE op = "+" -> v = AsInt(a + b)
      [] op = "-" -> v = AsInt(a - b)
      [] op = "*" -> v = AsInt(a * b)
      [] op = "/" -> \E q \in -Base .. Base :
                        LET r == a - b * q
                        IN  r * r < b * b /\ a * r >= 0 /\ v = AsInt(q)

Answered == out[1].text

AnswerTrue ==
    /\ type = "calculate" /\ out[1].by = "number" =>
          /\ \E v \in Denoted(Answered) :
                IsResult(v, Arg(1).val, Head(Arg(2).buf), Arg(3).val)
          /\ \A k \in 1 .. Len(Answered) - 1 :
                Answered[k] = "0" => k > 1 /\ Answered[k - 1] # "-"
    /\ type = "get_gpio" /\ out[1].by = "number" =>
          \E levels \in seen :
              Answered = IF Mask(Arg(1).val) \subseteq levels THEN <<"1">> ELSE <<"0">>
    /\ type = "get_gpio_direction" /\ Len(out) = 1 =>
          Answered = IF Mask(Arg(1).val) \subseteq due.oenr THEN "in" ELSE "out"
    /\ Timed =>
          \E item \in Range(out) :
              /\ item.by = "time"
              /\ Denoted(item.text) = {(spans[2] - spans[1]) % Base}

(* A command that is over has moved the pin it named, as it was told, and  *)
(* no other; its answer is right: the result of the operation, a level     *)
(* that the pin had since the line was entered, the time the matrix took,  *)
(* although the halves of the counter are not read at once.                *)
CommandsDone ==
    shell.pc = "done" =>
        /\ gpio_regs.odr = due.odr /\ gpio_regs.oenr = due.oenr
        /\ AnswerTrue

(* A number has a place for as many characters as the largest one in       *)
(* decimal takes, and the end of the string.  Only the sign of a negative  *)
(* number with all digits runs over it, and by no more than itself.        *)
OnlySignOverruns ==
    \A item \in Range(out) :
        item.by \in {"number", "time"} =>
            LET v == CHOOSE v \in Denoted(item.text) : TRUE IN
            /\ Len(item.text) > Width => v <= -(10 ^ (Width - 1))
            /\ Len(item.text) <= Width + 1
=============================================================================
