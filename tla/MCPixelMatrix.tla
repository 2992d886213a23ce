--------------------------- MODULE MCPixelMatrix ---------------------------
(***************************************************************************)
(* A column of two pixels, each of whose bits has a name of its own, so    *)
(* that a bit that is lost, doubled or misplaced on its way is seen.       *)
(***************************************************************************)
EXTENDS PixelMatrix, TLC

(* Names of the bits of the n-th word; 0 is left for reset. *)
Named(n) == [k \in Bits |-> 16 * n + k + 1]

MCData     == 0 .. 16 * 8
MCHits     == ("a" :> [r \in Row |-> Named(4 + r)])
              @@ ("b" :> [r \in Row |-> Named(6 + r)])

MCCalls ==
    { [fn |-> "read_counters", counter |-> "a"],
      [fn |-> "read_counters", counter |-> "b"],
      [fn |-> "read", counter |-> "a"],
      [fn |-> "read", counter |-> "b"],
      [fn |-> "load_value", counter |-> "a", word |-> Named(2)],
      [fn |-> "load_configs", counter |-> "a", data |-> [r \in Row |-> Named(2 + r)]],
      [fn |-> "load_configs", counter |-> "b", data |-> [r \in Row |-> Named(r)]],
      [fn |-> "calibrate", a |-> Named(0), b |-> Named(1)] }
=============================================================================
