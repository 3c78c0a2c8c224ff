--------------------------- MODULE MCReportStatus ---------------------------
(* Instances of ReportStatus for TLC. *)
EXTENDS ReportStatus

Bound(degraded, failed) == [degraded |-> degraded, failed |-> failed]

(* None given, one of their own, and two that must be refused.             *)
SomeThresholds ==
  {[failure |-> NoBounds, timeout |-> NoBounds],
   [failure |-> Bound(5, 14), timeout |-> Bound(0, 14)],
   [failure |-> Bound(5, 1), timeout |-> Default],
   [failure |-> Default, timeout |-> Bound(-1, 5)]}
=============================================================================
