--------------------------- MODULE CommandParser ---------------------------
(***************************************************************************)
(* Numbers and their text (sw/libs/misc/src/string_ops.cpp), and the       *)
(* parser of commands                                                      *)
(* (sw/command_interpreter/src/command_parser.cpp).  A character is a      *)
(* symbol; a string is a sequence of them, without the terminator.  A      *)
(* symbol may stand for a whole word of which only equality matters.       *)
(***************************************************************************)
EXTENDS Integers, SequencesExt

CONSTANT Bytes           \* of an int: 4 in the code

Base == 256 ^ Bytes

(* What 32 bits, here Bytes, hold: as a uint32_t and as an int.            *)
Uint(n) == n % Base
AsInt(n)  == LET u == Uint(n) IN IF u >= Base \div 2 THEN u - Base ELSE u

Decimal  == <<"0", "1", "2", "3", "4", "5", "6", "7", "8", "9">>
LowerHex == <<"a", "b", "c", "d", "e", "f">>
UpperHex == <<"A", "B", "C", "D", "E", "F">>
Place(c, digits) == (CHOOSE k \in DOMAIN digits : digits[k] = c) - 1

-----------------------------------------------------------------------------
(* From a number to its text.  A text in decimal has as many digits as the *)
(* largest number needs.                                                   *)
DecDigit(word, d) == Decimal[((word \div d) % 10) + 1]

Width == CASE Bytes = 1 -> 3 [] Bytes = 2 -> 5 [] Bytes = 4 -> 10

PaddedDec(word) == [k \in 1 .. Width |-> DecDigit(word, 10 ^ (Width - k))]

find_first_non_zero_digit(str) ==
    LET others == {k \in DOMAIN str : str[k] # "0"}
        first  == IF others = {} THEN Len(str)
                  ELSE CHOOSE k \in others : \A j \in others : k <= j
    IN  SubSeq(str, first, Len(str))

to_dec_string(word) == find_first_non_zero_digit(PaddedDec(word))

to_hex_string(word) ==
    <<"0", "x">> \o [k \in 1 .. 2 * Bytes |->
        (Decimal \o LowerHex)[((word \div (16 ^ (2 * Bytes - k))) % 16) + 1]]

(* Faulty variant, for the mutation runs: the zeros in front remain.       *)
to_string_Padded(val) ==
    IF val < 0 THEN <<"-">> \o PaddedDec(Uint(-val)) ELSE PaddedDec(val)

to_string(val) ==
    IF val < 0 THEN <<"-">> \o to_dec_string(Uint(-val)) ELSE to_dec_string(val)

-----------------------------------------------------------------------------
(* From a text to its number.                                              *)
is_dec_digit(c) == c \in Range(Decimal)

is_hex_digit(c) == c \in Range(Decimal) \cup Range(LowerHex) \cup Range(UpperHex)

Signed(str)   == str # <<>> /\ Head(str) = "-"
Unsigned(str) == IF Signed(str) THEN Tail(str) ELSE str

is_dec_number(str) ==
    /\ Unsigned(str) # <<>>
    /\ \A k \in DOMAIN Unsigned(str) : is_dec_digit(Unsigned(str)[k])

HexPrefix == <<"0", "x">>

is_hex_number(str) ==
    /\ IsPrefix(HexPrefix, str) /\ Len(str) > 2
    /\ \A k \in 3 .. Len(str) : is_hex_digit(str[k])

is_number(str) == is_dec_number(str) \/ is_hex_number(str)

dec_to_int(str) ==
    LET val == FoldLeft(LAMBDA v, c : AsInt(10 * v + Place(c, Decimal)), 0, Unsigned(str))
    IN  IF Signed(str) THEN AsInt(-val) ELSE val

nibble(c) ==
    CASE c \in Range(LowerHex) -> Place(c, LowerHex) + 10
      [] c \in Range(UpperHex) -> Place(c, UpperHex) + 10
      [] OTHER                 -> Place(c, Decimal)

hex_to_int(str) ==
    FoldLeft(LAMBDA v, c : AsInt(16 * v + nibble(c)), 0, SubSeq(str, 3, Len(str)))

Unconverted == AsInt(48879)          \* 0xdeadbeef, in what a word holds of it

to_int(str) ==
    IF is_dec_number(str) THEN dec_to_int(str)
    ELSE IF is_hex_number(str) THEN hex_to_int(str)
    ELSE Unconverted

(* Only equality is asked for.                                             *)
strcmp(str1, str2) == IF str1 = str2 THEN 0 ELSE 1

-----------------------------------------------------------------------------
(* The parser.  A line becomes at most MaxTokens tokens, the first of      *)
(* which names the command; the others move down by one place and become   *)
(* numbers where they are.  A token that does not fit into its 20          *)
(* characters would run over the next one: lines with such tokens are left *)
(* out.                                                                    *)
MaxTokens == 6

(* The names, in pieces: one of them is the beginning of another.          *)
Name == [help               |-> <<"help">>,
         reset              |-> <<"reset">>,
         ping               |-> <<"ping">>,
         set_gpio_direction |-> <<"set_gpio", "_direction">>,
         get_gpio_direction |-> <<"get_gpio", "_direction">>,
         set_gpio           |-> <<"set_gpio">>,
         get_gpio           |-> <<"get_gpio">>,
         set_heartbeat      |-> <<"set_heartbeat">>,
         calculate          |-> <<"calculate">>,
         read_matrix        |-> <<"read_matrix">>,
         calibrate_matrix   |-> <<"calibrate_matrix">>]

Types == DOMAIN Name \cup {"unrecognized", "empty"}

(* find_token and find_token_end: where a token begins, and its last place *)
Starts(string) ==
    {k \in DOMAIN string : string[k] # " " /\ (k = 1 \/ string[k - 1] = " ")}

EndOf(string, start) ==
    CHOOSE k \in start .. Len(string) :
        /\ \A j \in start .. k : string[j] # " "
        /\ k = Len(string) \/ string[k + 1] = " "

Token(string, start) == SubSeq(string, start, EndOf(string, start))

AllTokens(string) ==
    LET starts   == Starts(string)
        start(k) == CHOOSE s \in starts : Cardinality({t \in starts : t <= s}) = k
    IN  [k \in 1 .. Cardinality(starts) |-> Token(string, start(k))]

(* Faulty variant, for the mutation runs: as many as there are.            *)
tokenize_All(string) == AllTokens(string)

tokenize(string) ==
    LET all == AllTokens(string)
    IN  SubSeq(all, 1, IF Len(all) < MaxTokens THEN Len(all) ELSE MaxTokens)

parse_command_type(buf) ==
    IF \E type \in DOMAIN Name : strcmp(buf, Name[type]) = 0
    THEN CHOOSE type \in DOMAIN Name : strcmp(buf, Name[type]) = 0
    ELSE "unrecognized"

AsText(buf) == [type |-> "string", buf |-> buf]

Argument(buf) ==
    IF is_number(buf) THEN [type |-> "number", val |-> to_int(buf)]
    ELSE AsText(buf)

(* Text and number share a place: once a number is in, its text is lost.   *)
TextOf(place) == IF place.type = "string" THEN place.buf ELSE <<"a number's bytes">>

Moved(places, k) == [places EXCEPT ![k] = Argument(TextOf(places[k + 1]))]

(* Faulty variant, for the mutation runs: the last one moves first.        *)
parse_command_args_LastFirst(tokens) ==
    LET argc == Len(tokens) - 1
    IN  SubSeq(FoldLeft(Moved, [k \in DOMAIN tokens |-> AsText(tokens[k])],
                        [k \in 1 .. argc |-> argc + 1 - k]), 1, argc)

parse_command_args(tokens) ==
    LET argc == Len(tokens) - 1
    IN  SubSeq(FoldLeft(Moved, [k \in DOMAIN tokens |-> AsText(tokens[k])],
                        [k \in 1 .. argc |-> k]), 1, argc)

parse(string) ==
    LET tokens == tokenize(string) IN
    IF tokens = <<>> THEN [type |-> "empty", args |-> <<>>]
    ELSE [type |-> parse_command_type(tokens[1]), args |-> parse_command_args(tokens)]
=============================================================================
