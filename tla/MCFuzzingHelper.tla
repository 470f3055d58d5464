--------------------------- MODULE MCFuzzingHelper ---------------------------
(***************************************************************************)
(* Instance of FuzzingHelper for TLC: two inputs in AFL's queue, a large   *)
(* seed and a smaller file with new coverage.                              *)
(***************************************************************************)
EXTENDS FuzzingHelper

MCSize == [f \in File |-> 3 - f]
=============================================================================
