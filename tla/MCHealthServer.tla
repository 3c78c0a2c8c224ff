--------------------------- MODULE MCHealthServer ---------------------------
(* Instances of HealthServer for TLC. *)
EXTENDS HealthServer

CONSTANTS c1, c2

TwoCallers == {c1, c2}
=============================================================================
