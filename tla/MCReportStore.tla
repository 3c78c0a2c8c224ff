--------------------------- MODULE MCReportStore ----------------------------
(* Instances of ReportStore for TLC. *)
EXTENDS ReportStore, TLC

CONSTANTS r1, r2, r3

ThreeRuns == {r1, r2, r3}
RunSymmetry == Permutations(ThreeRuns)
=============================================================================
