---------------------------- MODULE DnsLifecycle ----------------------------
(***************************************************************************)
(* What the DNS server promises its owner: the application that starts and *)
(* stops it and the health endpoint that asks Ready (Server in             *)
(* src/dns/internal/dnsserver/server.go, seen from outside).               *)
(***************************************************************************)

VARIABLES phase, ready

Init == phase = "stopped" /\ ready = FALSE

(* Readiness appears only together with the transition to running.         *)
StartSucceeds == phase = "stopped" /\ phase' = "running" /\ ready' = TRUE

(* A listener ended: a running server can stop being ready, never become   *)
(* ready again before it has been stopped and started.                     *)
LosesReady == phase = "running" /\ ready' = FALSE /\ UNCHANGED phase

(* Readiness is gone before the listeners are touched.                     *)
ShutdownBegins == phase = "running" /\ phase' = "stopping" /\ ready' = FALSE

ShutdownEnds == phase = "stopping" /\ phase' = "stopped" /\ UNCHANGED ready

Next == StartSucceeds \/ LosesReady \/ ShutdownBegins \/ ShutdownEnds

Spec == Init /\ [][Next]_<<phase, ready>>
=============================================================================
