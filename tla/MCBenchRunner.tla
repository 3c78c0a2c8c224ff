--------------------------- MODULE MCBenchRunner ---------------------------
(* Instances of BenchRunner for TLC. *)
EXTENDS BenchRunner

CONSTANTS w1, w2

Pool == {w1, w2}
=============================================================================
