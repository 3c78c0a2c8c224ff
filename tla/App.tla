------------------------------- MODULE App --------------------------------
(***************************************************************************)
(* The application: one goroutine starts the DNS server and the health     *)
(* server, waits for a signal and stops them in the opposite order         *)
(* (src/dns/internal/app/app.go), while health requests read the DNS       *)
(* server's readiness (healthState, and ServeHTTP in                       *)
(* src/dns/internal/health/handler.go) and DNS queries are being answered. *)
(*                                                                         *)
(* The DNS server is the abstract DnsLifecycle, which DnsServer is proved  *)
(* to implement for the one caller it has here; the health server is       *)
(* HealthServer itself, started at most once.                              *)
(***************************************************************************)
EXTENDS Naturals

CONSTANTS
  Requests,     \* bound: connections asking for /health
  MaxQueries    \* bound: DNS queries handled at a time

ASSUME QueriesAssumption == MaxQueries \in Nat

VARIABLES
  pc,           \* where Run is
  signalled,    \* ctx is done: SIGINT or SIGTERM arrived
  result,       \* what Run returned
  phase, dnsReady,          \* the DNS server
  queries,                  \* DNS queries being handled
  req,                      \* [Requests -> what the handler of a request knows]
  healthReady, cur, gen, bound, closing, serve, active, healthPc, target, expired,
  failed, last              \* the health server

appVars == <<pc, signalled, result>>
dnsVars == <<phase, dnsReady>>
healthVars == <<healthReady, cur, gen, bound, closing, serve, active, healthPc, target,
                expired, failed, last>>
vars == <<appVars, dnsVars, queries, req, healthVars>>

Main == "main"
Gen == 1        \* the only generation of the health server

Dns == INSTANCE DnsLifecycle WITH ready <- dnsReady
Health == INSTANCE HealthServer WITH
  Callers <- {Main}, MaxStarts <- 1, MaxActive <- 2, ready <- healthReady, pc <- healthPc

RunSteps == {"start_dns", "start_health", "roll_back", "rolling_back", "running",
             "stop_health", "stopping_health", "stop_dns", "stopping_dns", "returned"}

TypeOK ==
  /\ pc \in RunSteps
  /\ signalled \in BOOLEAN
  /\ result \in IF pc = "returned" THEN {"nil", "error"} ELSE {"none"}
  /\ phase \in {"stopped", "running", "stopping"} /\ dnsReady \in BOOLEAN
  /\ queries \in 0..MaxQueries
  /\ req \in [Requests -> {"none", "begun", "ready", "not_ready"}]
  /\ Health!TypeOK

Init ==
  /\ pc = "start_dns" /\ signalled = FALSE /\ result = "none"
  /\ queries = 0 /\ req = [r \in Requests |-> "none"]
  /\ Dns!Init /\ Health!Init

(* main exits when Run has returned: nothing happens in this process after. *)
Alive == pc # "returned"
Goto(step) == pc' = step /\ UNCHANGED result
Return(outcome) == pc' = "returned" /\ result' = outcome

-----------------------------------------------------------------------------
(* Run: start DNS, then health; roll DNS back when health does not start.  *)

StartDNS ==
  /\ pc = "start_dns"
  /\ \/ Dns!StartSucceeds /\ Goto("start_health")
     \/ UNCHANGED dnsVars /\ Return("error")
  /\ UNCHANGED <<signalled, queries, req, healthVars>>

AfterRefusalGivesUp == "returned"
AfterRefusal == "roll_back"

StartHealth ==
  /\ pc = "start_health"
  /\ \/ Health!StartBound(Main) /\ Goto("running")
     \/ Health!StartRefused(Main) /\ Goto(AfterRefusal)
  /\ UNCHANGED <<signalled, dnsVars, queries, req>>

(* shutdownDNS, with a context of its own.                                 *)
RollBackDNS ==
  /\ pc = "roll_back"
  /\ Dns!ShutdownBegins
  /\ Goto("rolling_back")
  /\ UNCHANGED <<signalled, queries, req, healthVars>>

(* dnsserver.Server.Shutdown: nil when no query is being handled, an error *)
(* when the context is done first.                                         *)
DnsStopUnbounded(clean) == clean /\ queries = 0
DnsStopOutcome(clean) == IF clean THEN queries = 0 ELSE expired[Main]

RolledBack ==
  /\ pc = "rolling_back"
  /\ \E clean \in BOOLEAN : DnsStopOutcome(clean)
  /\ Dns!ShutdownEnds
  /\ Return("error")
  /\ UNCHANGED <<signalled, queries, req, healthVars>>

Signal ==
  /\ Alive /\ ~signalled
  /\ signalled' = TRUE
  /\ UNCHANGED <<pc, result, dnsVars, queries, req, healthVars>>

(* shutdown: one context for both servers, health first.                   *)
AfterSignalDnsFirst == "stop_dns"
AfterSignal == "stop_health"

WaitForSignal ==
  /\ pc = "running" /\ signalled
  /\ Goto(AfterSignal)
  /\ UNCHANGED <<signalled, dnsVars, queries, req, healthVars>>

StopHealth ==
  /\ pc = "stop_health"
  /\ \/ Health!ShutdownBegin(Main) /\ Goto("stopping_health")
     \/ Health!ShutdownStopped(Main) /\ Goto("stop_dns")
  /\ UNCHANGED <<signalled, dnsVars, queries, req>>

StoppingHealth ==
  /\ pc = "stopping_health"
  /\ \/ Health!ShutdownEnd(Main) /\ Goto("stop_dns")
     \/ /\ \/ Health!CloseListener(Main) \/ Health!ListenersClosed(Main)
           \/ Health!DrainFinished(Main) \/ Health!DrainExpired(Main)
        /\ UNCHANGED <<pc, result>>
  /\ UNCHANGED <<signalled, dnsVars, queries, req>>

StopDNS ==
  /\ pc = "stop_dns"
  /\ Dns!ShutdownBegins
  /\ Goto("stopping_dns")
  /\ UNCHANGED <<signalled, queries, req, healthVars>>

DropHealthError(clean) == IF clean THEN "nil" ELSE "error"
Joined(clean) == IF clean /\ ~failed[Main] THEN "nil" ELSE "error"

StoppedDNS ==
  /\ pc = "stopping_dns"
  /\ Dns!ShutdownEnds
  /\ \E clean \in BOOLEAN : DnsStopOutcome(clean) /\ Return(Joined(clean))
  /\ UNCHANGED <<signalled, queries, req, healthVars>>

(* The context of shutdown or shutdownDNS reaches its timeout.             *)
ContextExpires ==
  /\ pc \in {"rolling_back", "stopping_health", "stop_dns", "stopping_dns"}
  /\ ~expired[Main]
  /\ expired' = [expired EXCEPT ![Main] = TRUE]
  /\ UNCHANGED <<appVars, dnsVars, queries, req, healthReady, cur, gen, bound, closing,
                 serve, active, healthPc, target, failed, last>>

-----------------------------------------------------------------------------
(* The rest of the process.                                                *)

(* A DNS listener ended (observeListener).                                 *)
ListenerEnds ==
  /\ Alive /\ dnsReady /\ Dns!LosesReady
  /\ UNCHANGED <<appVars, queries, req, healthVars>>

(* The goroutine serving /health.                                          *)
HealthServes ==
  /\ Alive /\ Health!ServeStep(Gen)
  /\ UNCHANGED <<appVars, dnsVars, queries, req>>

QueryBegins ==
  /\ Alive /\ phase # "stopped" /\ queries < MaxQueries
  /\ queries' = queries + 1
  /\ UNCHANGED <<appVars, dnsVars, req, healthVars>>

QueryEnds ==
  /\ Alive /\ queries > 0
  /\ queries' = queries - 1
  /\ UNCHANGED <<appVars, dnsVars, req, healthVars>>

RequestBegins(r) ==
  /\ Alive /\ req[r] = "none"
  /\ Health!RequestBegins(Gen)
  /\ req' = [req EXCEPT ![r] = "begun"]
  /\ UNCHANGED <<appVars, dnsVars, queries>>

(* healthState reads Ready...                                              *)
ReadState(r) == dnsReady

ReadReadiness(r) ==
  /\ Alive /\ req[r] = "begun"
  /\ req' = [req EXCEPT ![r] = IF ReadState(r) THEN "ready" ELSE "not_ready"]
  /\ UNCHANGED <<appVars, dnsVars, queries, healthVars>>

(* ... and the answer built from it is written later.  Another path or     *)
(* method is answered without reading it.                                  *)
Respond(r) ==
  /\ Alive /\ req[r] # "none"
  /\ Health!RequestEnds(Gen)
  /\ req' = [req EXCEPT ![r] = "none"]
  /\ UNCHANGED <<appVars, dnsVars, queries>>

Returned == pc = "returned" /\ UNCHANGED vars

-----------------------------------------------------------------------------
Run ==
  \/ StartDNS \/ StartHealth \/ RollBackDNS \/ RolledBack
  \/ WaitForSignal \/ StopHealth \/ StoppingHealth \/ StopDNS \/ StoppedDNS

Next ==
  \/ Run \/ Signal \/ ContextExpires
  \/ ListenerEnds \/ HealthServes \/ QueryBegins \/ QueryEnds
  \/ \E r \in Requests : RequestBegins(r) \/ ReadReadiness(r) \/ Respond(r)
  \/ Returned

Spec == Init /\ [][Next]_vars

-----------------------------------------------------------------------------
(* Properties.                                                             *)

Answering(r) == req[r] = "ready"

(* While the DNS server is being stopped, an answer saying ready can only  *)
(* still be on its way if it was read before, and health.Shutdown gave up  *)
(* on it or had no server left to wait on.                                 *)
NoReadyAnswerWhileStopping ==
  phase # "running" /\ (\E r \in Requests : Answering(r)) =>
    failed[Main] \/ (serve[Gen] = "over" /\ ~closing[Gen])

(* Startup is all or nothing: while Run waits for the signal both servers  *)
(* have been started, and once it has returned the DNS listeners are       *)
(* stopped, whatever failed in between.                                    *)
AllOrNothing ==
  /\ pc = "running" => phase = "running" /\ gen = Gen
  /\ pc = "returned" => phase = "stopped" /\ ~dnsReady /\ ~healthReady

(* How Run ends well: a signal came, no query was cut off, the health      *)
(* socket is closed or owed to its goroutine, and the requests it was      *)
(* waiting on were answered.                                               *)
Graceful ==
  /\ signalled /\ queries = 0
  /\ cur = 0 /\ (bound[Gen] => serve[Gen] = "spawned")
  /\ closing[Gen] => \A r \in Requests : req[r] = "none"
=============================================================================
