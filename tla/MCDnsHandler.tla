---------------------------- MODULE MCDnsHandler ----------------------------
(* Instances of DnsHandler for TLC. *)
EXTENDS DnsHandler, TLC

CONSTANTS q1, q2

TwoRequests == {q1, q2}

(* The codes SERVFAIL and FORMERR come from the handler itself.            *)
TwoMessages == {Plain("nxdomain"), [rcode |-> "noerror", truncated |-> TRUE]}

RequestSymmetry == Permutations(TwoRequests)
=============================================================================
