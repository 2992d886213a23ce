---------------------------- MODULE EdgeDetector ----------------------------
(***************************************************************************)
(* The edge detector of the GPIO pins and of the flash model's clock       *)
(* (rtl/soc/misc/edge_detector.sv): three flip-flops in a row, so that an  *)
(* edge is flagged two to three cycles after it came.                      *)
(***************************************************************************)
Synchroniser == [prv : {0, 1}, prv2 : {0, 1}, prv3 : {0, 1}]

Low == [prv |-> 0, prv2 |-> 0, prv3 |-> 0]

Sampled(s, data_in) == [prv |-> data_in, prv2 |-> s.prv, prv3 |-> s.prv2]

rising(s)  == s.prv2 # s.prv3 /\ s.prv2 = 1
falling(s) == s.prv2 # s.prv3 /\ s.prv2 = 0
=============================================================================
