---------------------------- MODULE MCDnsServer ----------------------------
(* Instances of DnsServer for TLC. *)
EXTENDS DnsServer

CONSTANTS c1, c2

OneCaller == {c1}
TwoCallers == {c1, c2}
=============================================================================
