------------------------- MODULE MCBenchmarkCommand -------------------------
(* Instances of BenchmarkCommand for TLC. *)
EXTENDS BenchmarkCommand, TLC

AnyCount == {-1, 0, 1, 4}

(* Boundaries of the two ranges formatDuration tells apart, in tenths of a *)
(* millisecond: rounding to 1ms, 1000ms, 1s, a minute and an hour.         *)
BoundaryDurations ==
  {0, 1, 4, 5, 15, 9994, 9996, 10000, 14999, 15000, 594999, 595000, 600000,
   35994999, 35995000, 36000000}

OneProfile == "quick" :> [queries |-> 4, warmup |-> 1, workers |-> 4]

JoinedArguments == "--config=./a" :> "./a"
Spellings == ("a" :> "/etc/a") @@ ("./a" :> "/etc/a") @@ ("b" :> "/etc/b")

ServerLines ==
  {<<"homedns-dns", "--config", "a">>, <<"homedns-dns", "--config=./a">>,
   <<"homedns-dns", "-config", "a">>,
   <<"homedns-dns", "benchmark", "--config", "a">>}
=============================================================================
