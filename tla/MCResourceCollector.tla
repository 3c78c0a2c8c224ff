------------------------ MODULE MCResourceCollector -------------------------
(* Instances of ResourceCollector for TLC: its bounds are in the cfg files.  *)
EXTENDS ResourceCollector
=============================================================================
