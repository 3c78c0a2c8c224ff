-------------------------- MODULE ServerCommandProofs --------------------------
(***************************************************************************)
(* Theorems about the command `homedns-dns` and the application it runs,   *)
(* for any number of health requests and DNS queries, any configuration    *)
(* file and any spelling of addresses: that startup is all or nothing,     *)
(* that no answer says ready while the DNS server is stopped unless its    *)
(* Shutdown gave up on it, that the health server is private and that the  *)
(* exit code tells how it ended.                                           *)
(*                                                                         *)
(* What HealthServerProofs proves of the health server for any callers is  *)
(* cited here of the one caller and the one start it has in this process.  *)
(***************************************************************************)
EXTENDS ServerCommand, FiniteSetTheorems, TLAPS

HealthProofs == INSTANCE HealthServerProofs WITH
  Callers <- {Main}, MaxStarts <- 1, MaxActive <- 2, ready <- healthReady, pc <- healthPc

Asking == {r \in Requests : req[r] # "none"}

(* The one generation of the health server.                                *)
Generation ==
  /\ gen = 0 => serve[Gen] = "none" /\ active[Gen] = 0
  /\ bound[Gen] => serve[Gen] \in {"spawned", "accepting"}
  /\ gen = 1 /\ cur = 0 /\ ~closing[Gen] => serve[Gen] = "over"

(* http.Server counts the requests it waits on.                            *)
Counted == IsFiniteSet(Asking) /\ Cardinality(Asking) = active[Gen]

(* Where the servers are in each step of Run.                              *)
DnsSteps ==
  /\ pc \in {"start_dns", "returned"} => phase = "stopped"
  /\ pc \in {"rolling_back", "stopping_dns"} => phase = "stopping"
  /\ pc \in {"start_health", "roll_back", "running", "stop_health", "stopping_health", "stop_dns"}
       => phase = "running"
  /\ phase # "running" => ~dnsReady

HealthSteps ==
  /\ pc \in {"start_dns", "start_health", "roll_back", "rolling_back"} => gen = 0
  /\ pc \in {"running", "stop_health", "stopping_health", "stop_dns", "stopping_dns"} => gen = 1
  /\ pc \in {"running", "stop_health"} => ~closing[Gen]
  /\ pc = "stopping_health" <=> healthPc[Main] # "idle"
  /\ pc \in {"stopping_health", "stop_dns", "stopping_dns", "returned"} => ~healthReady
  /\ pc \in {"stop_health", "stopping_health", "stop_dns", "stopping_dns"} => signalled

(* Once Shutdown has seen the listeners closed no request begins, and once *)
(* it has ended without giving up none is left.                            *)
Drained == failed[Main] \/ active[Gen] = 0

Draining ==
  /\ healthPc[Main] \in {"poll", "finish"} => serve[Gen] # "accepting"
  /\ healthPc[Main] = "finish" => Drained
  /\ pc \in {"stop_dns", "stopping_dns", "returned"} /\ gen = 1 =>
       cur = 0 /\ (closing[Gen] => serve[Gen] # "accepting" /\ Drained)
  /\ result = "nil" => signalled /\ queries = 0 /\ gen = 1 /\ ~failed[Main]

AppTypes ==
  /\ pc \in RunSteps
  /\ signalled \in BOOLEAN
  /\ result \in IF pc = "returned" THEN {"nil", "error"} ELSE {"none"}
  /\ phase \in {"stopped", "running", "stopping"} /\ dnsReady \in BOOLEAN
  /\ queries \in 0..MaxQueries
  /\ req \in [Requests -> {"none", "begun", "ready", "not_ready"}]

AppInv ==
  /\ AppTypes /\ HealthProofs!IInv
  /\ Generation /\ Counted /\ DnsSteps /\ HealthSteps /\ Draining

(* The stages of the command.                                              *)
CommandTypes ==
  /\ stage \in Uncaught \cup {"run", "exited"}
  /\ DOMAIN cfg = DOMAIN Default /\ (cfg # Default => Validate(cfg))
  /\ shown \in BOOLEAN
  /\ exit \in {"none", "success", "failure", "invalid", "signal"}

Stages ==
  /\ stage \in {"flags", "load", "new", "notify"} => pc = "start_dns"
  /\ stage \in {"returning", "exited"} => pc \in {"start_dns", "returned"}
  /\ exit = "none" <=> stage \notin {"returning", "exited"}
  /\ shown => stage \in {"returning", "exited"}
  /\ stage \in {"new", "notify", "run"} => Validate(cfg)
  /\ stage \in {"notify", "run"} => LoopbackAddress(cfg.health)

Codes ==
  /\ exit = "success" => shown \/ result = "nil"
  /\ exit = "invalid" \/ shown => pc = "start_dns"

(* The inductive invariant of the command.                                 *)
CommandInv == AppInv /\ CommandTypes /\ Stages /\ Codes /\ HealthIsPrivate

-----------------------------------------------------------------------------
(* THE HEALTH SERVER.  A step of it in App is one of HealthServerProofs.   *)
LEMMA HealthStep ==
  ASSUME HealthProofs!IInv,
         \/ UNCHANGED healthVars
         \/ Health!StartBound(Main) \/ Health!StartRefused(Main)
         \/ Health!ShutdownBegin(Main) \/ Health!ShutdownStopped(Main)
         \/ Health!CloseListener(Main) \/ Health!ListenersClosed(Main)
         \/ Health!DrainFinished(Main) \/ Health!DrainExpired(Main) \/ Health!ShutdownEnd(Main)
         \/ Health!ServeStep(Gen) \/ Health!RequestBegins(Gen) \/ Health!RequestEnds(Gen)
  PROVE  HealthProofs!IInv'
<1>1. Gen \in HealthProofs!Gens
  BY DEF Gen, HealthProofs!Gens
<1>2. CASE UNCHANGED healthVars
  BY <1>2, HealthProofs!IInvStep DEF HealthProofs!vars, healthVars
<1>3. CASE Health!StartBound(Main) \/ Health!StartRefused(Main)
  <2>1. HealthProofs!StartBound(Main) \/ HealthProofs!StartRefused(Main)
    BY <1>3
    DEF Health!StartBound, HealthProofs!StartBound, Health!StartRefused, HealthProofs!StartRefused,
        Health!Gens, HealthProofs!Gens, Health!Running, HealthProofs!Running,
        Health!Return, HealthProofs!Return, Health!Goto, HealthProofs!Goto
  <2>2. QED
    BY <2>1, HealthProofs!IInvStep DEF HealthProofs!Next, HealthProofs!CallStep
<1>4. CASE Health!ShutdownBegin(Main) \/ Health!ShutdownStopped(Main)
  <2>1. HealthProofs!ShutdownBegin(Main) \/ HealthProofs!ShutdownStopped(Main)
    BY <1>4
    DEF Health!ShutdownBegin, HealthProofs!ShutdownBegin, Health!ShutdownStopped,
        HealthProofs!ShutdownStopped, Health!Stopped, HealthProofs!Stopped,
        Health!Return, HealthProofs!Return, Health!Goto, HealthProofs!Goto
  <2>2. QED
    BY <2>1, HealthProofs!IInvStep DEF HealthProofs!Next, HealthProofs!CallStep
<1>5. CASE \/ Health!CloseListener(Main) \/ Health!ListenersClosed(Main)
           \/ Health!DrainFinished(Main) \/ Health!DrainExpired(Main) \/ Health!ShutdownEnd(Main)
  <2>1. HealthProofs!ShutdownProgress(Main)
    BY <1>5
    DEF HealthProofs!ShutdownProgress, Health!CloseListener, HealthProofs!CloseListener,
        Health!ListenersClosed, HealthProofs!ListenersClosed, Health!DrainFinished,
        HealthProofs!DrainFinished, Health!DrainExpired, HealthProofs!DrainExpired,
        Health!ShutdownEnd, HealthProofs!ShutdownEnd, Health!Quiescent, HealthProofs!Quiescent,
        Health!GivesUp, HealthProofs!GivesUp, Health!StillCurrent, HealthProofs!StillCurrent,
        Health!Return, HealthProofs!Return, Health!Goto, HealthProofs!Goto
  <2>2. QED
    BY <2>1, HealthProofs!IInvStep DEF HealthProofs!Next, HealthProofs!CallStep
<1>6. CASE Health!ServeStep(Gen) \/ Health!RequestBegins(Gen) \/ Health!RequestEnds(Gen)
  <2>1. HealthProofs!ServeStep(Gen) \/ HealthProofs!RequestBegins(Gen) \/ HealthProofs!RequestEnds(Gen)
    BY <1>6
    DEF Health!ServeStep, HealthProofs!ServeStep, Health!ServeStarts, HealthProofs!ServeStarts,
        Health!ServeReturns, HealthProofs!ServeReturns, Health!ServeClears, HealthProofs!ServeClears,
        Health!StillCurrent, HealthProofs!StillCurrent, Health!ReadyAfterServe,
        HealthProofs!ReadyAfterServe, Health!RequestBegins, HealthProofs!RequestBegins,
        Health!RequestEnds, HealthProofs!RequestEnds
  <2>2. QED
    BY <1>1, <2>1, HealthProofs!IInvStep DEF HealthProofs!Next
<1>7. QED
  BY <1>2, <1>3, <1>4, <1>5, <1>6

(* The deadline of shutdown is of no other state.                          *)
LEMMA DeadlineStep ==
  ASSUME HealthProofs!IInv, expired' = [expired EXCEPT ![Main] = TRUE],
         UNCHANGED <<healthReady, cur, gen, bound, closing, serve, active, healthPc, target,
                     failed, last>>
  PROVE  HealthProofs!IInv'
<1>1. expired' \in [{Main} -> BOOLEAN]
  BY DEF HealthProofs!IInv, HealthProofs!TypeOK
<1>2. HealthProofs!TypeOK'
  BY <1>1 DEF HealthProofs!IInv, HealthProofs!TypeOK
<1>3. QED
  BY <1>2
  DEF HealthProofs!IInv, HealthProofs!Untouched, HealthProofs!Shutdowns, HealthProofs!ReadyIsAccepting

(* What it is with one caller and one generation.                          *)
LEMMA HealthFacts ==
  ASSUME HealthProofs!IInv
  PROVE  /\ healthReady \in BOOLEAN /\ cur \in {0, Gen} /\ gen \in {0, Gen} /\ cur <= gen
         /\ bound \in [{Gen} -> BOOLEAN] /\ closing \in [{Gen} -> BOOLEAN]
         /\ serve \in [{Gen} -> Health!ServeStates] /\ active \in [{Gen} -> 0..2]
         /\ healthPc \in [{Main} -> Health!Steps] /\ target \in [{Main} -> {0, Gen}]
         /\ expired \in [{Main} -> BOOLEAN] /\ failed \in [{Main} -> BOOLEAN]
         /\ gen = 0 => ~closing[Gen] /\ serve[Gen] = "none"
         /\ healthReady => cur = Gen
         /\ healthPc[Main] # "idle" =>
              /\ target[Main] = Gen /\ gen = Gen
              /\ healthPc[Main] # "close" => closing[Gen]
<1>1. 0..1 = {0, 1} /\ HealthProofs!Gens = {1} /\ Gen = 1 /\ 1 \in HealthProofs!Gens
  BY DEF HealthProofs!Gens, Gen
<1>2. /\ healthReady \in BOOLEAN /\ cur \in {0, Gen} /\ gen \in {0, Gen} /\ cur <= gen
      /\ bound \in [{Gen} -> BOOLEAN] /\ closing \in [{Gen} -> BOOLEAN]
      /\ serve \in [{Gen} -> Health!ServeStates] /\ active \in [{Gen} -> 0..2]
      /\ healthPc \in [{Main} -> Health!Steps] /\ target \in [{Main} -> {0, Gen}]
      /\ expired \in [{Main} -> BOOLEAN] /\ failed \in [{Main} -> BOOLEAN]
  BY <1>1
  DEF HealthProofs!IInv, HealthProofs!TypeOK, HealthProofs!ServeStates, Health!ServeStates,
      HealthProofs!Steps, Health!Steps
<1>3. gen = 0 => ~closing[Gen] /\ serve[Gen] = "none"
  BY <1>1, <1>2 DEF HealthProofs!IInv, HealthProofs!Untouched
<1>4. healthReady => cur = Gen
  BY <1>2 DEF HealthProofs!IInv, HealthProofs!ReadyIsAccepting
<1>5. healthPc[Main] # "idle" =>
        /\ target[Main] = Gen /\ gen = Gen
        /\ healthPc[Main] # "close" => closing[Gen]
  BY <1>1, <1>2 DEF HealthProofs!IInv, HealthProofs!Shutdowns
<1>6. QED
  BY <1>2, <1>3, <1>4, <1>5

-----------------------------------------------------------------------------
(* THE APPLICATION.  Steps that leave the health server and its requests.  *)
LEMMA HealthIsLeft ==
  ASSUME AppInv, UNCHANGED healthVars, Asking' = Asking,
         AppTypes', DnsSteps', HealthSteps', Draining'
  PROVE  AppInv'
<1>1. HealthProofs!IInv'
  BY HealthStep DEF AppInv
<1>2. Generation' /\ Counted'
  BY DEF AppInv, Generation, Counted, healthVars
<1>3. QED
  BY <1>1, <1>2 DEF AppInv

LEMMA DnsStarts == ASSUME AppInv, StartDNS PROVE AppInv'
<1>1. /\ pc = "start_dns" /\ UNCHANGED <<signalled, queries, req, healthVars>>
      /\ \/ phase' = "running" /\ dnsReady' = TRUE /\ pc' = "start_health" /\ result' = result
         \/ UNCHANGED <<phase, dnsReady>> /\ pc' = "returned" /\ result' = "error"
  BY DEF StartDNS, Dns!StartSucceeds, Goto, Return, dnsVars
<1>2. gen = 0 /\ ~healthReady /\ phase = "stopped" /\ ~dnsReady /\ healthPc[Main] = "idle"
  BY <1>1, HealthFacts DEF AppInv, HealthSteps, DnsSteps, Gen
<1>3. result = "none"
  BY <1>1 DEF AppInv, AppTypes
<1>4. AppTypes'
  BY <1>1, <1>3 DEF AppInv, AppTypes, RunSteps
<1>5. DnsSteps'
  BY <1>1, <1>2 DEF DnsSteps
<1>6. HealthSteps' /\ Draining'
  BY <1>1, <1>2, <1>3 DEF AppInv, HealthSteps, Draining, Drained, healthVars
<1>7. QED
  BY <1>1, <1>4, <1>5, <1>6, HealthIsLeft DEF Asking

LEMMA DnsStops ==
  ASSUME AppInv, RollBackDNS \/ StopDNS PROVE AppInv'
<1>1. /\ \/ pc = "roll_back" /\ pc' = "rolling_back"
         \/ pc = "stop_dns" /\ pc' = "stopping_dns"
      /\ phase' = "stopping" /\ dnsReady' = FALSE
      /\ UNCHANGED <<signalled, result, queries, req, healthVars>>
  BY DEF RollBackDNS, StopDNS, Dns!ShutdownBegins, Goto
<1>2. result = "none"
  BY <1>1 DEF AppInv, AppTypes
<1>3. AppTypes' /\ DnsSteps'
  BY <1>1, <1>2 DEF AppInv, AppTypes, RunSteps, DnsSteps
<1>4. HealthSteps' /\ Draining'
  BY <1>1, <1>2 DEF AppInv, HealthSteps, Draining, Drained, healthVars
<1>5. QED
  BY <1>1, <1>3, <1>4, HealthIsLeft DEF Asking

(* Run returns when the DNS server is down.                                *)
LEMMA DnsStopped ==
  ASSUME AppInv, RolledBack \/ StoppedDNS PROVE AppInv'
<1>1. /\ pc \in {"rolling_back", "stopping_dns"} /\ pc' = "returned" /\ phase' = "stopped"
      /\ UNCHANGED <<signalled, dnsReady, queries, req, healthVars>>
  BY DEF RolledBack, StoppedDNS, Dns!ShutdownEnds, Return
<1>2. /\ result' \in {"nil", "error"}
      /\ result' = "nil" => pc = "stopping_dns" /\ queries = 0 /\ ~failed[Main]
  BY DEF RolledBack, StoppedDNS, Return, DnsStopOutcome, Joined
<1>3. ~dnsReady /\ ~healthReady
  BY <1>1, HealthFacts DEF AppInv, DnsSteps, HealthSteps, Gen
<1>4. AppTypes' /\ DnsSteps'
  BY <1>1, <1>2, <1>3 DEF AppInv, AppTypes, RunSteps, DnsSteps
<1>5. HealthSteps'
  BY <1>1, <1>3 DEF AppInv, HealthSteps, healthVars
<1>6. Draining'
  BY <1>1, <1>2 DEF AppInv, HealthSteps, Draining, Drained, healthVars
<1>7. QED
  BY <1>1, <1>4, <1>5, <1>6, HealthIsLeft DEF Asking

LEMMA SignalArrives ==
  ASSUME AppInv, Signal \/ WaitForSignal PROVE AppInv'
<1>1. /\ UNCHANGED <<result, phase, dnsReady, queries, req, healthVars>> /\ signalled' \in BOOLEAN
      /\ \/ pc' = pc /\ signalled' /\ pc # "returned"
         \/ pc = "running" /\ pc' = "stop_health" /\ signalled /\ signalled'
  BY DEF Signal, WaitForSignal, Goto, AfterSignal, dnsVars, AppInv, AppTypes, Alive
<1>2. result = "none"
  BY <1>1 DEF AppInv, AppTypes
<1>3. AppTypes' /\ DnsSteps'
  BY <1>1, <1>2 DEF AppInv, AppTypes, RunSteps, DnsSteps
<1>4. HealthSteps' /\ Draining'
  BY <1>1, <1>2 DEF AppInv, HealthSteps, Draining, Drained, healthVars
<1>5. QED
  BY <1>1, <1>3, <1>4, HealthIsLeft DEF Asking

(* Queries, listeners that end, and readiness read for a request.          *)
LEMMA Elsewhere ==
  ASSUME AppInv,
         ListenerEnds \/ QueryBegins \/ QueryEnds \/ \E r \in Requests : ReadReadiness(r)
  PROVE  AppInv'
<1>1. UNCHANGED <<pc, signalled, result, healthVars>> /\ pc # "returned"
  BY DEF ListenerEnds, QueryBegins, QueryEnds, ReadReadiness, appVars, Alive
<1>2. result = "none"
  BY <1>1 DEF AppInv, AppTypes
<1>3. phase' = phase /\ (dnsReady' => dnsReady) /\ dnsReady' \in BOOLEAN
  <2>1. CASE ListenerEnds
    BY <2>1 DEF ListenerEnds, Dns!LosesReady
  <2>2. CASE QueryBegins \/ QueryEnds \/ \E r \in Requests : ReadReadiness(r)
    BY <2>2 DEF QueryBegins, QueryEnds, ReadReadiness, dnsVars, AppInv, AppTypes
  <2>3. QED
    BY <2>1, <2>2
<1>4. queries' \in 0..MaxQueries
  BY QueriesAssumption
  DEF ListenerEnds, QueryBegins, QueryEnds, ReadReadiness, AppInv, AppTypes, QueriesAssumption
<1>5. req' \in [Requests -> {"none", "begun", "ready", "not_ready"}] /\ Asking' = Asking
  <2>1. CASE req' = req
    BY <2>1 DEF AppInv, AppTypes, Asking
  <2>2. CASE \E r \in Requests : ReadReadiness(r)
    <3>1. PICK r \in Requests : ReadReadiness(r)
      BY <2>2
    <3>2. /\ req[r] = "begun"
          /\ req' = [req EXCEPT ![r] = IF ReadState(r) THEN "ready" ELSE "not_ready"]
      BY <3>1 DEF ReadReadiness
    <3>3. req \in [Requests -> {"none", "begun", "ready", "not_ready"}]
      BY DEF AppInv, AppTypes
    <3>4. \A q \in Requests : req'[q] = "none" <=> req[q] = "none"
      BY <3>2, <3>3
    <3>5. QED
      BY <3>2, <3>3, <3>4 DEF Asking
  <2>3. QED
    BY <2>1, <2>2 DEF ListenerEnds, QueryBegins, QueryEnds
<1>6. AppTypes' /\ DnsSteps'
  BY <1>1, <1>3, <1>4, <1>5 DEF AppInv, AppTypes, DnsSteps
<1>7. HealthSteps' /\ Draining'
  BY <1>1, <1>2 DEF AppInv, HealthSteps, Draining, Drained, healthVars
<1>8. QED
  BY <1>1, <1>5, <1>6, <1>7, HealthIsLeft

-----------------------------------------------------------------------------
(* Steps of Run that are calls of the health server.                       *)
LEMMA HealthStarts == ASSUME AppInv, StartHealth PROVE AppInv'
<1>1. /\ pc = "start_health" /\ UNCHANGED <<signalled, result, phase, dnsReady, queries, req>>
      /\ \/ Health!StartBound(Main) /\ pc' = "running"
         \/ Health!StartRefused(Main) /\ pc' = "roll_back"
  BY DEF StartHealth, Goto, AfterRefusal, dnsVars
<1>2. HealthProofs!IInv'
  BY <1>1, HealthStep DEF AppInv
<1>3. gen = 0 /\ healthPc[Main] = "idle" /\ ~closing[Gen] /\ result = "none"
  BY <1>1, HealthFacts DEF AppInv, HealthSteps, AppTypes, Gen
<1>4. /\ UNCHANGED <<closing, active, failed>> /\ healthPc'[Main] = "idle"
      /\ \/ pc' = "running" /\ gen' = Gen /\ cur' = Gen /\ serve'[Gen] = "spawned"
         \/ pc' = "roll_back" /\ UNCHANGED <<gen, cur, serve, bound>>
  <2>1. serve \in [{Gen} -> Health!ServeStates] /\ healthPc \in [{Main} -> Health!Steps]
    BY HealthFacts DEF AppInv
  <2>2. QED
    BY <1>1, <1>3, <2>1
    DEF Health!StartBound, Health!StartRefused, Health!Return, Health!Goto, Gen
<1>5. AppTypes' /\ DnsSteps'
  BY <1>1 DEF AppInv, AppTypes, RunSteps, DnsSteps
<1>6. Generation' /\ Counted'
  BY <1>1, <1>4 DEF AppInv, Generation, Counted, Asking, Gen
<1>7. HealthSteps' /\ Draining'
  BY <1>1, <1>3, <1>4 DEF HealthSteps, Draining, Gen
<1>8. QED
  BY <1>2, <1>5, <1>6, <1>7 DEF AppInv

LEMMA HealthStops == ASSUME AppInv, StopHealth PROVE AppInv'
<1>1. /\ pc = "stop_health" /\ UNCHANGED <<signalled, result, phase, dnsReady, queries, req>>
      /\ \/ Health!ShutdownBegin(Main) /\ pc' = "stopping_health"
         \/ Health!ShutdownStopped(Main) /\ pc' = "stop_dns"
  BY DEF StopHealth, Goto, dnsVars
<1>2. HealthProofs!IInv'
  BY <1>1, HealthStep DEF AppInv
<1>3. gen = Gen /\ ~closing[Gen] /\ signalled /\ result = "none"
  BY <1>1 DEF AppInv, HealthSteps, AppTypes, Gen
<1>4. /\ UNCHANGED <<cur, gen, bound, closing, serve, active>> /\ ~healthReady'
      /\ \/ pc' = "stopping_health" /\ healthPc'[Main] = "close"
         \/ pc' = "stop_dns" /\ healthPc'[Main] = "idle" /\ cur = 0
  <2>1. healthPc \in [{Main} -> Health!Steps]
    BY HealthFacts DEF AppInv
  <2>2. QED
    BY <1>1, <2>1
    DEF Health!ShutdownBegin, Health!ShutdownStopped, Health!Stopped, Health!Return, Health!Goto
<1>5. AppTypes' /\ DnsSteps'
  BY <1>1 DEF AppInv, AppTypes, RunSteps, DnsSteps
<1>6. Generation' /\ Counted'
  BY <1>1, <1>4 DEF AppInv, Generation, Counted, Asking
<1>7. HealthSteps' /\ Draining'
  BY <1>1, <1>3, <1>4 DEF HealthSteps, Draining, Gen
<1>8. QED
  BY <1>2, <1>5, <1>6, <1>7 DEF AppInv

LEMMA HealthStopping == ASSUME AppInv, StoppingHealth PROVE AppInv'
<1>1. /\ pc = "stopping_health" /\ UNCHANGED <<signalled, result, phase, dnsReady, queries, req>>
      /\ \/ Health!ShutdownEnd(Main) /\ pc' = "stop_dns"
         \/ /\ \/ Health!CloseListener(Main) \/ Health!ListenersClosed(Main)
               \/ Health!DrainFinished(Main) \/ Health!DrainExpired(Main)
            /\ pc' = pc
  BY DEF StoppingHealth, Goto, dnsVars
<1>2. HealthProofs!IInv'
  BY <1>1, HealthStep DEF AppInv
<1>3. /\ gen = Gen /\ target[Main] = Gen /\ healthPc[Main] # "idle" /\ signalled /\ result = "none"
      /\ ~healthReady
      /\ healthPc[Main] # "close" => closing[Gen]
  BY <1>1, HealthFacts DEF AppInv, HealthSteps, AppTypes
<1>4. /\ cur \in {0, Gen} /\ bound \in [{Gen} -> BOOLEAN] /\ closing \in [{Gen} -> BOOLEAN]
      /\ healthPc \in [{Main} -> Health!Steps] /\ failed \in [{Main} -> BOOLEAN]
  BY HealthFacts DEF AppInv
<1>5. UNCHANGED <<healthReady, gen, serve, active>>
  BY <1>1
  DEF Health!ShutdownEnd, Health!CloseListener, Health!ListenersClosed, Health!DrainFinished,
      Health!DrainExpired
<1>6. AppTypes' /\ DnsSteps'
  BY <1>1 DEF AppInv, AppTypes, RunSteps, DnsSteps
<1>7. Counted'
  BY <1>1, <1>5 DEF AppInv, Counted, Asking
<1>8. Generation' /\ HealthSteps' /\ Draining'
  <2>1. CASE Health!CloseListener(Main)
    <3>1. /\ closing'[Gen] /\ (bound'[Gen] => bound[Gen]) /\ healthPc'[Main] = "listeners"
          /\ UNCHANGED <<cur, failed>> /\ pc' = pc
      BY <1>1, <1>3, <1>4, <2>1
      DEF Health!CloseListener, Health!Goto, Health!ShutdownEnd
    <3>2. QED
      BY <1>1, <1>3, <1>5, <3>1 DEF AppInv, Generation, HealthSteps, Draining, Gen
  <2>2. CASE Health!ListenersClosed(Main)
    <3>1. /\ healthPc'[Main] = "poll" /\ serve[Gen] # "accepting"
          /\ UNCHANGED <<cur, bound, closing, failed>> /\ pc' = pc
      BY <1>1, <1>3, <1>4, <2>2 DEF Health!ListenersClosed, Health!Goto, Health!ShutdownEnd
    <3>2. QED
      BY <1>1, <1>3, <1>5, <3>1 DEF AppInv, Generation, HealthSteps, Draining, Gen
  <2>3. CASE Health!DrainFinished(Main) \/ Health!DrainExpired(Main)
    <3>1. /\ healthPc[Main] = "poll" /\ healthPc'[Main] = "finish" /\ Drained'
          /\ UNCHANGED <<cur, bound, closing>> /\ pc' = pc
      BY <1>1, <1>3, <1>4, <2>3
      DEF Health!DrainFinished, Health!DrainExpired, Health!Quiescent, Health!Goto,
          Health!ShutdownEnd, Drained
    <3>2. QED
      BY <1>1, <1>3, <1>5, <3>1 DEF AppInv, Generation, HealthSteps, Draining, Gen
  <2>4. CASE Health!ShutdownEnd(Main) /\ pc' = "stop_dns"
    <3>1. /\ healthPc[Main] = "finish" /\ healthPc'[Main] = "idle" /\ cur' = 0
          /\ UNCHANGED <<bound, closing, failed>>
      BY <1>3, <1>4, <2>4
      DEF Health!ShutdownEnd, Health!StillCurrent, Health!Return, Health!Goto
    <3>2. closing[Gen] /\ serve[Gen] # "accepting" /\ Drained
      BY <1>3, <3>1 DEF AppInv, Draining
    <3>3. QED
      BY <1>1, <1>3, <1>5, <2>4, <3>1, <3>2
      DEF AppInv, Generation, HealthSteps, Draining, Drained, Gen
  <2>5. QED
    BY <1>1, <2>1, <2>2, <2>3, <2>4
<1>9. QED
  BY <1>2, <1>6, <1>7, <1>8 DEF AppInv

LEMMA DeadlinePasses == ASSUME AppInv, ContextExpires PROVE AppInv'
<1>1. /\ expired' = [expired EXCEPT ![Main] = TRUE]
      /\ UNCHANGED <<pc, signalled, result, phase, dnsReady, queries, req, healthReady, cur, gen,
                     bound, closing, serve, active, healthPc, target, failed, last>>
  BY DEF ContextExpires, appVars, dnsVars
<1>2. HealthProofs!IInv'
  BY <1>1, DeadlineStep DEF AppInv
<1>3. AppTypes' /\ DnsSteps' /\ HealthSteps' /\ Draining'
  BY <1>1 DEF AppInv, AppTypes, DnsSteps, HealthSteps, Draining, Drained
<1>4. Generation' /\ Counted'
  BY <1>1 DEF AppInv, Generation, Counted, Asking
<1>5. QED
  BY <1>2, <1>3, <1>4 DEF AppInv

(* The goroutine that serves /health.                                      *)
LEMMA HealthIsServed == ASSUME AppInv, HealthServes PROVE AppInv'
<1>1. /\ pc # "returned" /\ Health!ServeStep(Gen)
      /\ UNCHANGED <<pc, signalled, result, phase, dnsReady, queries, req>>
  BY DEF HealthServes, Alive, appVars, dnsVars
<1>2. HealthProofs!IInv'
  BY <1>1, HealthStep DEF AppInv
<1>3. /\ healthReady \in BOOLEAN /\ cur \in {0, Gen} /\ gen \in {0, Gen} /\ cur <= gen
      /\ bound \in [{Gen} -> BOOLEAN] /\ closing \in [{Gen} -> BOOLEAN]
      /\ serve \in [{Gen} -> Health!ServeStates]
      /\ gen = 0 => serve[Gen] = "none"
  BY HealthFacts DEF AppInv
<1>4. /\ UNCHANGED <<gen, closing, active, healthPc, failed>> /\ (healthReady' => healthReady)
      /\ (cur' = cur \/ (cur' = 0 /\ serve'[Gen] = "over"))
      /\ serve[Gen] # "none"
      /\ serve[Gen] = "over" => serve'[Gen] = "over"
      /\ closing[Gen] /\ serve[Gen] # "accepting" => serve'[Gen] # "accepting"
      /\ bound'[Gen] => serve'[Gen] \in {"spawned", "accepting"}
  <2>1. CASE Health!ServeStarts(Gen)
    BY <1>3, <2>1 DEF Health!ServeStarts
  <2>2. CASE Health!ServeReturns(Gen)
    BY <1>3, <2>2 DEF Health!ServeReturns
  <2>3. CASE Health!ServeClears(Gen)
    <3>1. /\ serve[Gen] = "returned" /\ serve'[Gen] = "over" /\ ~bound[Gen]
          /\ UNCHANGED <<gen, bound, closing, active, healthPc, failed>>
      BY <1>3, <2>3 DEF Health!ServeClears, AppInv, Generation
    <3>2. (cur' = 0 /\ healthReady' = FALSE) \/ UNCHANGED <<cur, healthReady>>
      BY <2>3 DEF Health!ServeClears, Health!ReadyAfterServe
    <3>3. QED
      BY <3>1, <3>2
  <2>4. QED
    BY <1>1, <2>1, <2>2, <2>3 DEF Health!ServeStep
<1>5. gen = Gen
  BY <1>3, <1>4
<1>6. AppTypes' /\ DnsSteps'
  BY <1>1 DEF AppInv, AppTypes, DnsSteps
<1>7. Generation' /\ Counted'
  BY <1>1, <1>4, <1>5 DEF AppInv, Generation, Counted, Asking, Gen
<1>8. HealthSteps'
  BY <1>1, <1>4, <1>5 DEF AppInv, HealthSteps, Gen
<1>9. Draining'
  <2>1. serve[Gen] # "accepting" /\ healthPc[Main] \in {"poll", "finish"} =>
          serve'[Gen] # "accepting"
    <3>1. healthPc[Main] \in {"poll", "finish"} => closing[Gen]
      BY HealthFacts DEF AppInv
    <3>2. QED
      BY <1>4, <3>1
  <2>2. result' = "none"
    BY <1>1 DEF AppInv, AppTypes
  <2>3. Drained <=> Drained'
    BY <1>4 DEF Drained
  <2>4. /\ cur = 0 => cur' = 0
        /\ closing[Gen] /\ serve[Gen] # "accepting" => serve'[Gen] # "accepting"
    BY <1>4
  <2>5. QED
    BY <1>1, <1>4, <2>1, <2>2, <2>3, <2>4 DEF AppInv, Draining
<1>10. QED
  BY <1>2, <1>6, <1>7, <1>8, <1>9 DEF AppInv

-----------------------------------------------------------------------------
(* REQUESTS.  One of them is one of those the health server counts.        *)
LEMMA RequestArrives == ASSUME AppInv, NEW r \in Requests, RequestBegins(r) PROVE AppInv'
<1>1. /\ pc # "returned" /\ req[r] = "none" /\ Health!RequestBegins(Gen)
      /\ req' = [req EXCEPT ![r] = "begun"]
      /\ UNCHANGED <<pc, signalled, result, phase, dnsReady, queries>>
  BY DEF RequestBegins, Alive, appVars, dnsVars
<1>2. HealthProofs!IInv'
  BY <1>1, HealthStep DEF AppInv
<1>3. /\ gen \in {0, Gen} /\ active \in [{Gen} -> 0..2] /\ serve \in [{Gen} -> Health!ServeStates]
      /\ gen = 0 => serve[Gen] = "none"
      /\ healthPc[Main] \in {"poll", "finish"} => closing[Gen]
  BY HealthFacts DEF AppInv
<1>4. /\ serve[Gen] = "accepting" /\ active' = [active EXCEPT ![Gen] = @ + 1]
      /\ UNCHANGED <<healthReady, cur, gen, bound, closing, serve, healthPc, failed>>
  BY <1>1 DEF Health!RequestBegins
<1>5. gen = Gen /\ active'[Gen] = active[Gen] + 1
  BY <1>3, <1>4
<1>6. /\ req \in [Requests -> {"none", "begun", "ready", "not_ready"}]
      /\ result = "none"
  BY <1>1 DEF AppInv, AppTypes
<1>7. req' \in [Requests -> {"none", "begun", "ready", "not_ready"}]
  BY <1>1, <1>6
<1>8. AppTypes' /\ DnsSteps'
  BY <1>1, <1>7 DEF AppInv, AppTypes, DnsSteps
<1>9. Generation'
  BY <1>4, <1>5 DEF AppInv, Generation, Gen
<1>10. Counted'
  <2>1. Asking' = Asking \cup {r} /\ r \notin Asking
    BY <1>1, <1>6 DEF Asking
  <2>2. QED
    BY <1>5, <2>1, FS_AddElement DEF AppInv, Counted
<1>11. HealthSteps'
  BY <1>1, <1>4 DEF AppInv, HealthSteps
<1>12. Draining'
  <2>1. healthPc[Main] \notin {"poll", "finish"}
    BY <1>4 DEF AppInv, Draining
  <2>2. pc \in {"stop_dns", "stopping_dns", "returned"} /\ gen = 1 => cur = 0 /\ ~closing[Gen]
    BY <1>4 DEF AppInv, Draining
  <2>3. QED
    BY <1>1, <1>4, <1>6, <2>1, <2>2 DEF Draining
<1>13. QED
  BY <1>2, <1>8, <1>9, <1>10, <1>11, <1>12 DEF AppInv

LEMMA RequestIsAnswered == ASSUME AppInv, NEW r \in Requests, Respond(r) PROVE AppInv'
<1>1. /\ pc # "returned" /\ req[r] # "none" /\ Health!RequestEnds(Gen)
      /\ req' = [req EXCEPT ![r] = "none"]
      /\ UNCHANGED <<pc, signalled, result, phase, dnsReady, queries>>
  BY DEF Respond, Alive, appVars, dnsVars
<1>2. HealthProofs!IInv'
  BY <1>1, HealthStep DEF AppInv
<1>3. gen \in {0, Gen} /\ active \in [{Gen} -> 0..2]
  BY HealthFacts DEF AppInv
<1>4. /\ active[Gen] > 0 /\ active' = [active EXCEPT ![Gen] = @ - 1]
      /\ UNCHANGED <<healthReady, cur, gen, bound, closing, serve, healthPc, failed>>
  BY <1>1 DEF Health!RequestEnds
<1>5. active'[Gen] = active[Gen] - 1 /\ active[Gen] # 0
  BY <1>3, <1>4
<1>6. gen = Gen
  BY <1>3, <1>5 DEF AppInv, Generation
<1>7. /\ req \in [Requests -> {"none", "begun", "ready", "not_ready"}]
      /\ result = "none"
  BY <1>1 DEF AppInv, AppTypes
<1>8. req' \in [Requests -> {"none", "begun", "ready", "not_ready"}]
  BY <1>1, <1>7
<1>9. AppTypes' /\ DnsSteps'
  BY <1>1, <1>8 DEF AppInv, AppTypes, DnsSteps
<1>10. Generation'
  BY <1>4, <1>6 DEF AppInv, Generation, Gen
<1>11. Counted'
  <2>1. Asking' = Asking \ {r} /\ r \in Asking
    BY <1>1, <1>7 DEF Asking
  <2>2. QED
    BY <1>5, <2>1, FS_RemoveElement DEF AppInv, Counted
<1>12. HealthSteps'
  BY <1>1, <1>4 DEF AppInv, HealthSteps
<1>13. Draining'
  <2>1. Drained => Drained'
    BY <1>4, <1>5 DEF Drained
  <2>2. QED
    BY <1>1, <1>4, <1>7, <2>1 DEF AppInv, Draining
<1>14. QED
  BY <1>2, <1>9, <1>10, <1>11, <1>12, <1>13 DEF AppInv

-----------------------------------------------------------------------------
(* The invariant holds at first, when nothing happens and in each step.    *)
LEMMA AppStarts == Init => AppInv
<1> SUFFICES ASSUME Init PROVE AppInv
  OBVIOUS
<1>1. /\ pc = "start_dns" /\ signalled = FALSE /\ result = "none" /\ queries = 0
      /\ req = [r \in Requests |-> "none"] /\ phase = "stopped" /\ dnsReady = FALSE
  BY DEF Init, Dns!Init
<1>2. /\ healthReady = FALSE /\ cur = 0 /\ gen = 0
      /\ bound = [g \in 1..1 |-> FALSE] /\ closing = [g \in 1..1 |-> FALSE]
      /\ serve = [g \in 1..1 |-> "none"] /\ active = [g \in 1..1 |-> 0]
      /\ healthPc = [c \in {Main} |-> "idle"]
  BY DEF Init, Health!Init, Health!Gens
<1>3. HealthProofs!IInv
  <2>1. HealthProofs!Init
    BY DEF Init, Health!Init, HealthProofs!Init, Health!Gens, HealthProofs!Gens
  <2>2. QED
    BY <2>1, HealthProofs!InitIInv
<1>4. /\ bound[Gen] = FALSE /\ closing[Gen] = FALSE /\ serve[Gen] = "none" /\ active[Gen] = 0
      /\ healthPc[Main] = "idle"
  BY <1>2 DEF Gen
<1>5. AppTypes
  <2>1. queries \in 0..MaxQueries
    BY <1>1, QueriesAssumption DEF QueriesAssumption
  <2>2. req \in [Requests -> {"none", "begun", "ready", "not_ready"}]
    BY <1>1
  <2>3. QED
    BY <1>1, <2>1, <2>2 DEF AppTypes, RunSteps
<1>6. Generation
  BY <1>2, <1>4 DEF Generation
<1>7. Counted
  <2>1. Asking = {}
    BY <1>1 DEF Asking
  <2>2. QED
    BY <1>4, <2>1, FS_EmptySet DEF Counted
<1>8. DnsSteps /\ HealthSteps /\ Draining
  BY <1>1, <1>2, <1>4 DEF DnsSteps, HealthSteps, Draining
<1>9. QED
  BY <1>3, <1>5, <1>6, <1>7, <1>8 DEF AppInv

LEMMA AppStays == ASSUME AppInv, UNCHANGED vars PROVE AppInv'
<1>1. UNCHANGED <<pc, signalled, result, phase, dnsReady, queries, req, healthVars>>
  BY DEF vars, appVars, dnsVars
<1>2. AppTypes' /\ DnsSteps' /\ HealthSteps' /\ Draining' /\ Asking' = Asking
  BY <1>1 DEF AppInv, AppTypes, DnsSteps, HealthSteps, Draining, Drained, Asking, healthVars
<1>3. QED
  BY <1>1, <1>2, HealthIsLeft

LEMMA RunKeeps == ASSUME AppInv, Run PROVE AppInv'
BY DnsStarts, HealthStarts, DnsStops, DnsStopped, SignalArrives, HealthStops, HealthStopping
DEF Run

LEMMA AppStep == AppInv /\ [Next]_vars => AppInv'
<1> SUFFICES ASSUME AppInv, [Next]_vars PROVE AppInv'
  OBVIOUS
<1>1. CASE UNCHANGED vars
  BY <1>1, AppStays
<1>2. CASE Run \/ Signal \/ ContextExpires \/ HealthServes
  BY <1>2, RunKeeps, SignalArrives, DeadlinePasses, HealthIsServed
<1>3. CASE ListenerEnds \/ QueryBegins \/ QueryEnds
  BY <1>3, Elsewhere
<1>4. CASE \E r \in Requests : RequestBegins(r) \/ ReadReadiness(r) \/ Respond(r)
  BY <1>4, Elsewhere, RequestArrives, RequestIsAnswered
<1>5. CASE Returned
  BY <1>5, AppStays DEF Returned
<1>6. QED
  BY <1>1, <1>2, <1>3, <1>4, <1>5 DEF Next

(* The invariant of the application: where each server is in each step of  *)
(* Run, and what http.Server still waits on.                               *)
THEOREM AppInductive == Spec => []AppInv
BY AppStarts, AppStep, PTL DEF Spec

(* What the command does to the servers is what the application does: it   *)
(* implements App, whichever flags, file and signals it gets (runServer of *)
(* cmd/homedns-dns/main.go calls app.Run once).                            *)
THEOREM RunsTheApplication == CommandSpec => Spec
<1>1. CommandInit => Init
  BY DEF CommandInit
<1>2. [CommandNext]_allVars => [Next]_vars
  <2> SUFFICES ASSUME [CommandNext]_allVars PROVE [Next]_vars
    OBVIOUS
  <2>1. CASE UNCHANGED allVars
    BY <2>1 DEF allVars
  <2>2. CASE RunApplication \/ Signalled \/ Environment
    BY <2>2 DEF RunApplication, Signalled, Environment, Next
  <2>3. CASE Invoke \/ LoadConfiguration \/ NewApplication \/ CatchSignals
    BY <2>3 DEF Invoke, LoadConfiguration, NewApplication, CatchSignals
  <2>4. CASE ApplicationReturned \/ Leave \/ Killed \/ Exited
    BY <2>4 DEF ApplicationReturned, Leave, Killed, Exited, allVars
  <2>5. QED
    BY <2>1, <2>2, <2>3, <2>4 DEF CommandNext, Command
<1>3. QED
  BY <1>1, <1>2, PTL DEF CommandSpec, Spec

-----------------------------------------------------------------------------
(* THE COMMAND.                                                            *)
LEMMA CommandStarts == CommandInit => CommandTypes /\ Stages /\ Codes /\ HealthIsPrivate
<1> SUFFICES ASSUME CommandInit PROVE CommandTypes /\ Stages /\ Codes /\ HealthIsPrivate
  OBVIOUS
<1>1. stage = "flags" /\ cfg = Default /\ shown = FALSE /\ exit = "none" /\ pc = "start_dns"
  BY DEF CommandInit, Init
<1>2. gen = 0
  BY DEF CommandInit, Init, Health!Init
<1>3. CommandTypes
  BY <1>1 DEF CommandTypes, Uncaught
<1>4. Stages /\ Codes
  BY <1>1 DEF Stages, Codes
<1>5. HealthIsPrivate
  BY <1>2 DEF HealthIsPrivate
<1>6. QED
  BY <1>3, <1>4, <1>5

(* Steps that leave the application: the health server was not started, or *)
(* the configuration it was started with is kept.                          *)
LEMMA Outside ==
  ASSUME CommandInv, UNCHANGED vars,
         Invoke \/ LoadConfiguration \/ NewApplication \/ CatchSignals
  PROVE  CommandTypes' /\ Stages' /\ Codes' /\ HealthIsPrivate'
<1>1. UNCHANGED <<pc, gen, result>>
  BY DEF vars, appVars, healthVars
<1>2. pc = "start_dns" /\ exit = "none" /\ shown = FALSE
  BY DEF CommandInv, CommandTypes, Stages, Invoke, LoadConfiguration, NewApplication, CatchSignals
<1>3. gen = 0
  BY <1>2 DEF CommandInv, AppInv, HealthSteps
<1>4. HealthIsPrivate'
  BY <1>1, <1>3 DEF HealthIsPrivate
<1>5. CASE Invoke
  <2>1. /\ UNCHANGED cfg
        /\ \/ stage' = "returning" /\ exit' = "invalid" /\ shown' = shown
           \/ stage' = "returning" /\ exit' = "success" /\ shown' = TRUE
           \/ stage' = "load" /\ UNCHANGED <<shown, exit>>
    BY <1>5 DEF Invoke, Exit, GotoStage
  <2>2. QED
    BY <1>1, <1>2, <1>4, <2>1 DEF CommandInv, CommandTypes, Stages, Codes, Uncaught
<1>6. CASE LoadConfiguration
  <2>1. \/ stage' = "returning" /\ exit' = "failure" /\ UNCHANGED <<cfg, shown>>
        \/ /\ stage' = "new" /\ UNCHANGED <<shown, exit>>
           /\ DOMAIN cfg' = DOMAIN Default /\ Validate(cfg')
    BY <1>6 DEF LoadConfiguration, Exit, Decoded
  <2>2. CommandTypes'
    BY <1>2, <2>1 DEF CommandInv, CommandTypes, Uncaught
  <2>3. Stages' /\ Codes'
    BY <1>1, <1>2, <2>1 DEF Stages, Codes
  <2>4. QED
    BY <1>4, <2>2, <2>3
<1>7. CASE NewApplication
  <2>1. /\ stage = "new" /\ UNCHANGED <<cfg, shown>>
        /\ \/ stage' = "returning" /\ exit' = "failure"
           \/ stage' = "notify" /\ LoopbackAddress(cfg.health) /\ UNCHANGED exit
    BY <1>7 DEF NewApplication, Exit, GotoStage
  <2>2. Validate(cfg)
    BY <2>1 DEF CommandInv, Stages
  <2>3. CommandTypes'
    BY <1>2, <2>1 DEF CommandInv, CommandTypes, Uncaught
  <2>4. Stages' /\ Codes'
    BY <1>1, <1>2, <2>1, <2>2 DEF Stages, Codes
  <2>5. QED
    BY <1>4, <2>3, <2>4
<1>8. CASE CatchSignals
  <2>1. stage = "notify" /\ stage' = "run" /\ UNCHANGED <<cfg, shown, exit>>
    BY <1>8 DEF CatchSignals, GotoStage
  <2>2. Validate(cfg) /\ LoopbackAddress(cfg.health)
    BY <2>1 DEF CommandInv, Stages
  <2>3. CommandTypes'
    BY <1>2, <2>1 DEF CommandInv, CommandTypes, Uncaught
  <2>4. Stages' /\ Codes'
    BY <1>1, <1>2, <2>1, <2>2 DEF Stages, Codes
  <2>5. QED
    BY <1>4, <2>3, <2>4
<1>9. QED
  BY <1>5, <1>6, <1>7, <1>8

LEMMA Ending ==
  ASSUME CommandInv, UNCHANGED vars, ApplicationReturned \/ Leave \/ Killed
  PROVE  CommandTypes' /\ Stages' /\ Codes' /\ HealthIsPrivate'
<1>1. UNCHANGED <<pc, gen, result, cfg, shown>>
  BY DEF vars, appVars, healthVars, ApplicationReturned, Leave, Killed, Exit, GotoStage
<1>2. HealthIsPrivate'
  BY <1>1 DEF CommandInv, HealthIsPrivate
<1>3. CASE ApplicationReturned
  <2>1. stage = "run" /\ pc = "returned" /\ stage' = "returning"
    BY <1>3 DEF ApplicationReturned, Alive, Exit
  <2>2. /\ exit' \in {"success", "failure"}
        /\ exit' = "success" => result = "nil"
    BY <1>3 DEF ApplicationReturned, Exit, ExitCode
  <2>3. shown = FALSE
    BY <2>1 DEF CommandInv, CommandTypes, Stages
  <2>4. CommandTypes'
    BY <1>1, <2>1, <2>2 DEF CommandInv, CommandTypes, Uncaught
  <2>5. Stages' /\ Codes'
    BY <1>1, <2>1, <2>2, <2>3 DEF Stages, Codes
  <2>6. QED
    BY <1>2, <2>4, <2>5
<1>4. CASE Leave
  <2>1. stage = "returning" /\ stage' = "exited" /\ exit' = exit
    BY <1>4 DEF Leave, GotoStage
  <2>2. CommandTypes'
    BY <1>1, <2>1 DEF CommandInv, CommandTypes, Uncaught
  <2>3. Stages' /\ Codes'
    BY <1>1, <2>1 DEF CommandInv, Stages, Codes
  <2>4. QED
    BY <1>2, <2>2, <2>3
<1>5. CASE Killed
  <2>1. stage \in Uncaught /\ stage' = "exited" /\ exit' = "signal"
    BY <1>5 DEF Killed
  <2>2. pc \in {"start_dns", "returned"}
    BY <2>1 DEF CommandInv, Stages, Uncaught
  <2>3. CommandTypes'
    BY <1>1, <2>1 DEF CommandInv, CommandTypes, Uncaught
  <2>4. Stages' /\ Codes'
    BY <1>1, <2>1, <2>2 DEF CommandInv, Stages, Codes
  <2>5. QED
    BY <1>2, <2>3, <2>4
<1>6. QED
  BY <1>3, <1>4, <1>5

(* The health server is started by an application whose configuration has  *)
(* been checked.                                                           *)
LEMMA Inside ==
  ASSUME CommandInv, stage = "run", UNCHANGED commandVars
  PROVE  CommandTypes' /\ Stages' /\ Codes' /\ HealthIsPrivate'
<1>1. UNCHANGED <<stage, cfg, shown, exit>>
  BY DEF commandVars
<1>2. Validate(cfg) /\ LoopbackAddress(cfg.health) /\ exit = "none" /\ shown = FALSE
  BY DEF CommandInv, CommandTypes, Stages
<1>3. CommandTypes'
  BY <1>1 DEF CommandInv, CommandTypes
<1>4. Stages' /\ Codes'
  BY <1>1, <1>2 DEF Stages, Codes
<1>5. HealthIsPrivate'
  BY <1>1, <1>2, AddressAssumption
  DEF HealthIsPrivate, Validate, ValidListener, LoopbackAddress, AddressAssumption
<1>6. QED
  BY <1>3, <1>4, <1>5

(* The inductive invariant of the command: what each stage has checked,    *)
(* what the exit code stands for, and the invariant of the application.    *)
THEOREM CommandInductive == CommandSpec => []CommandInv
<1>1. CommandInit => CommandInv
  BY AppStarts, CommandStarts DEF CommandInit, CommandInv
<1>2. CommandInv /\ AppInv' /\ [CommandNext]_allVars => CommandInv'
  <2> SUFFICES ASSUME CommandInv, AppInv', [CommandNext]_allVars PROVE CommandInv'
    OBVIOUS
  <2> SUFFICES CommandTypes' /\ Stages' /\ Codes' /\ HealthIsPrivate'
    BY DEF CommandInv
  <2>1. CASE UNCHANGED allVars
    <3>1. UNCHANGED <<stage, cfg, shown, exit, pc, gen, result>>
      BY <2>1 DEF allVars, commandVars, vars, appVars, healthVars
    <3>2. QED
      BY <3>1 DEF CommandInv, CommandTypes, Stages, Codes, HealthIsPrivate
  <2>2. CASE RunApplication \/ Signalled \/ Environment
    BY <2>2, Inside DEF RunApplication, Signalled, Environment
  <2>3. CASE Invoke \/ LoadConfiguration \/ NewApplication \/ CatchSignals
    BY <2>3, Outside DEF Invoke, LoadConfiguration, NewApplication, CatchSignals
  <2>4. CASE ApplicationReturned \/ Leave \/ Killed
    BY <2>4, Ending DEF ApplicationReturned, Leave, Killed
  <2>5. QED
    BY <2>1, <2>2, <2>3, <2>4 DEF CommandNext, Command, Exited
<1>3. QED
  BY <1>1, <1>2, RunsTheApplication, AppInductive, PTL DEF CommandSpec

-----------------------------------------------------------------------------
(* WHAT IT MEANS.                                                          *)

(* Every variable of the command, the application and its health server    *)
(* stays within its type; the configuration has been validated once it is  *)
(* not the default one.                                                    *)
THEOREM CommandTypeCorrect == CommandSpec => []CommandTypeOK
<1>1. CommandInv => CommandTypeOK
  <2> SUFFICES ASSUME CommandInv PROVE CommandTypeOK
    OBVIOUS
  <2>1. Health!TypeOK
    BY DEF CommandInv, AppInv, HealthProofs!IInv, HealthProofs!TypeOK, Health!TypeOK,
           HealthProofs!Gens, Health!Gens, HealthProofs!ServeStates, Health!ServeStates,
           HealthProofs!Steps, Health!Steps, HealthProofs!Outcomes, Health!Outcomes
  <2>2. TypeOK
    BY <2>1 DEF CommandInv, AppInv, AppTypes, TypeOK
  <2>3. stage = "exited" => exit # "none"
    BY DEF CommandInv, Stages
  <2>4. QED
    BY <2>2, <2>3 DEF CommandInv, CommandTypes, CommandTypeOK
<1>2. QED
  BY <1>1, CommandInductive, PTL

(* Startup is all or nothing: Run only waits for the signal when both      *)
(* servers were started, and whatever failed, the DNS server is stopped    *)
(* and nothing is ready when it has returned (Run and shutdown of          *)
(* internal/app/app.go).                                                   *)
THEOREM Whole == CommandSpec => []AllOrNothing
<1>1. AppInv => AllOrNothing
  BY DEF AppInv, DnsSteps, HealthSteps, AllOrNothing, Gen
<1>2. QED
  BY <1>1, RunsTheApplication, AppInductive, PTL

(* However requests, queries, deadlines and the ends of the listeners fall *)
(* between the steps of Run, an answer that says ready is not on its way   *)
(* while the DNS server is stopped, unless health.Shutdown gave up on it   *)
(* or had no server left to wait on (ServeHTTP of health/handler.go reads  *)
(* Ready before it writes; shutdown of app.go stops health first).         *)
THEOREM NoneReadyWhileStopping == CommandSpec => []NoReadyAnswerWhileStopping
<1>1. AppInv => NoReadyAnswerWhileStopping
  <2> SUFFICES ASSUME AppInv, phase # "running", NEW r \in Requests, req[r] = "ready"
               PROVE  failed[Main] \/ (serve[Gen] = "over" /\ ~closing[Gen])
    BY DEF NoReadyAnswerWhileStopping, Answering
  <2>1. active[Gen] # 0
    <3>1. r \in Asking
      BY DEF Asking
    <3>2. QED
      BY <3>1, FS_EmptySet DEF AppInv, Counted
  <2>2. gen = 1
    BY <2>1, HealthFacts DEF AppInv, Generation, Gen
  <2>3. pc \in {"stopping_dns", "returned"}
    BY <2>2 DEF AppInv, AppTypes, RunSteps, DnsSteps, HealthSteps
  <2>4. cur = 0 /\ (closing[Gen] => failed[Main])
    BY <2>1, <2>2, <2>3 DEF AppInv, Draining, Drained
  <2>5. QED
    BY <2>2, <2>4 DEF AppInv, Generation
<1>2. QED
  BY <1>1, RunsTheApplication, AppInductive, PTL

(* Exit code 0 says that the version was printed, or that a signal came,   *)
(* both servers are down and neither a query nor a request was cut off;    *)
(* exit code 2 that nothing was started; and a signal that nobody catches  *)
(* never ends a process whose servers run (runServer of main.go).          *)
THEOREM ExitIsTrue == CommandSpec => []ExitTellsTheTruth
<1>1. CommandInv => ExitTellsTheTruth
  <2> SUFFICES ASSUME CommandInv PROVE ExitTellsTheTruth
    OBVIOUS
  <2>1. ASSUME result = "nil" PROVE phase = "stopped" /\ Graceful
    <3>1. pc = "returned"
      BY <2>1 DEF CommandInv, AppInv, AppTypes
    <3>2. phase = "stopped"
      BY <3>1 DEF CommandInv, AppInv, DnsSteps
    <3>3. signalled /\ queries = 0 /\ gen = 1 /\ ~failed[Main]
      BY <2>1 DEF CommandInv, AppInv, Draining
    <3>4. cur = 0 /\ (closing[Gen] => serve[Gen] # "accepting" /\ active[Gen] = 0)
      BY <3>1, <3>3 DEF CommandInv, AppInv, Draining, Drained
    <3>5. bound[Gen] => serve[Gen] = "spawned"
      BY <3>3, <3>4 DEF CommandInv, AppInv, Generation
    <3>6. ASSUME closing[Gen], NEW r \in Requests PROVE req[r] = "none"
      <4>1. Asking = {}
        BY <3>4, <3>6, FS_EmptySet DEF CommandInv, AppInv, Counted
      <4>2. QED
        BY <4>1 DEF Asking
    <3>7. QED
      BY <3>2, <3>3, <3>4, <3>5, <3>6 DEF Graceful
  <2>2. exit = "success" => shown \/ (phase = "stopped" /\ Graceful)
    BY <2>1 DEF CommandInv, Codes
  <2>3. exit = "invalid" \/ shown => pc = "start_dns"
    BY DEF CommandInv, Codes
  <2>4. exit = "signal" => pc \in {"start_dns", "returned"} /\ phase = "stopped" /\ ~dnsReady
    BY DEF CommandInv, Stages, AppInv, DnsSteps
  <2>5. QED
    BY <2>2, <2>3, <2>4 DEF ExitTellsTheTruth
<1>2. QED
  BY <1>1, CommandInductive, PTL

(* Whatever the file says, the health server is only started on a loopback *)
(* address, and not on what is written as the address of the DNS server    *)
(* (Validate of config.go, validateLoopbackAddress of health/server.go).   *)
THEOREM Private == CommandSpec => []HealthIsPrivate
<1>1. CommandInv => HealthIsPrivate
  BY DEF CommandInv
<1>2. QED
  BY <1>1, CommandInductive, PTL
=============================================================================
