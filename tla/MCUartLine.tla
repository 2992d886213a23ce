----------------------------- MODULE MCUartLine -----------------------------
(***************************************************************************)
(* Lines of up to three bytes and a newline.  The codes are the ASCII ones.*)
(* A bit takes 64 cycles of the UART; 67 cycles are the 4.3 % by which     *)
(* 115200 baud are slower than the driver's divider of 12 makes it.        *)
(***************************************************************************)
EXTENDS UartLine

Code(n) == [k \in 0 .. 7 |-> (n \div 2 ^ k) % 2]

MCNewline   == Code(10)
MCBackspace == Code(8)
MCLines ==
    {Append(s, MCNewline) : s \in
        { <<>>, <<Code(97)>>, <<Code(122), MCBackspace>>,
          <<MCBackspace, Code(97)>>, <<Code(97), MCBackspace, Code(122)>>,
          <<Code(255), Code(1), Code(97)>>, <<Code(97), Code(0), Code(122)>>,
          <<Code(0), MCBackspace, Code(97)>>,
          <<Code(122), Code(97), Code(122), Code(97)>> }}
=============================================================================
