---------------------------- MODULE QueryLedger ----------------------------
(***************************************************************************)
(* What a benchmarked path promises of its counters (RequestCounts of      *)
(* src/dns/internal/benchmark/report.go): every query is settled once, as  *)
(* a success or as a failure, one at a time while the path runs, and what  *)
(* is still open when the run is interrupted is settled as failed at once. *)
(***************************************************************************)
EXTENDS Naturals

CONSTANT QueryCount

Queries == 0..(QueryCount - 1)

VARIABLES open, successful, failed

Init == open = Queries /\ successful = 0 /\ failed = 0

Succeed(q) == open' = open \ {q} /\ successful' = successful + 1 /\ UNCHANGED failed

Fail(q) == open' = open \ {q} /\ failed' = failed + 1 /\ UNCHANGED successful

GiveUp ==
  /\ open # {}
  /\ open' = {}
  /\ failed' = QueryCount - successful
  /\ UNCHANGED successful

Next == GiveUp \/ \E q \in open : Succeed(q) \/ Fail(q)

Spec == Init /\ [][Next]_<<open, successful, failed>>
=============================================================================
