------------------------ MODULE MCCommandInterpreter ------------------------
(***************************************************************************)
(* Ints of one byte, and registers of eight pins.  Every word of up to     *)
(* three characters of a small alphabet is tried as a number; the pins and *)
(* the operations are tried with fewer numbers.                            *)
(***************************************************************************)
EXTENDS CommandInterpreter

CONSTANT Characters

Dec(n)  == IF n < 0 THEN <<"-">> \o to_dec_string(-n) ELSE to_dec_string(n)
Extreme == {<<"-", "1", "2", "8">>, <<"1", "2", "7">>, <<"-", "1">>}
Some    == {<<"0">>, <<"-", "7">>, <<"0", "x", "1", "C">>}

Words == UNION {[1 .. n -> Characters] : n \in 1 .. 3}

Tried == {<<Name.get_gpio, word>> : word \in Words \cup Extreme \cup Some}

Calculations ==
    {<<Name.calculate, a, <<op>>, b>> :
        a \in Extreme \cup Some, op \in {"+", "-", "*", "/"}, b \in Extreme \cup Some}

Directions == {<<Name.set_gpio_direction, <<"2">>, <<"out">>>>,
               <<Name.set_gpio_direction, <<"0", "x", "A">>, <<"in">>>>,
               <<Name.set_gpio_direction, <<"2">>, <<"up">>>>,
               <<Name.set_gpio_direction, <<"in">>, <<"2">>>>}
Levels     == {<<Name.set_gpio, <<"1", "0">>, <<v>>>> : v \in {"0", "2"}}

(* Each command that has arguments with the right ones, with one of them  *)
(* of the wrong kind, and with some or all of them missing.                *)
Right == {<<Name.set_gpio_direction, <<"2">>, <<"out">>>>,
          <<Name.get_gpio_direction, <<"-", "6">>>>,
          <<Name.set_gpio, <<"1", "0">>, <<"2">>>>,
          <<Name.get_gpio, <<"2">>>>,
          <<Name.set_heartbeat, <<"9">>>>,
          <<Name.calculate, <<"1">>, <<"+">>, <<"2">>>>}

OfOtherKind(word) == IF is_number(word) THEN <<"_">> ELSE <<"2">>
Wrong == UNION {{[words EXCEPT ![k] = OfOtherKind(words[k])] : k \in 2 .. Len(words)} :
                words \in Right}
Fewer == UNION {{SubSeq(words, 1, n) : n \in 1 .. Len(words) - 1} : words \in Right}

Others == {<<Name[t]>> : t \in DOMAIN Name}
              \cup {<<>>, <<<<"set_gpio", "_">>, <<"2">>>>,
                    <<Name.calculate, <<"1">>, <<"%">>, <<"2">>>>,
                    <<Name.ping, <<"1">>, <<"2">>, <<"3">>, <<"4">>, <<"5">>, <<"6">>>>}

MCLines ==
    Tried \cup Calculations \cup Directions \cup Levels \cup Right \cup Wrong \cup Fewer
        \cup Others
MCReadings == {<<0, 171>>}
=============================================================================
