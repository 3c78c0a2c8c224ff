---------------------------- MODULE HealthServer ----------------------------
(***************************************************************************)
(* The lifecycle of the health HTTP server                                 *)
(* (src/dns/internal/health/server.go).                                    *)
(*                                                                         *)
(* Every Start that binds its socket opens a new generation: an            *)
(* http.Server, its listener and the goroutine that serves it.  s.listener *)
(* is set and cleared together with s.httpServer everywhere, so one        *)
(* variable, cur, stands for both.  What net/http does inside Serve and    *)
(* Shutdown is modelled as far as this code relies on it.                  *)
(***************************************************************************)
EXTENDS Naturals

CONSTANTS
  Callers,      \* goroutines calling Start and Shutdown
  MaxStarts,    \* bound: number of Starts that bind their socket
  MaxActive     \* bound: requests of one generation active at a time

ASSUME ConstantsAssumption == MaxStarts \in Nat \ {0} /\ MaxActive \in Nat \ {0}

Gens == 1..MaxStarts

VARIABLES
  ready,        \* s.ready
  cur,          \* generation of s.httpServer and s.listener, 0 for nil
  gen,          \* generations created so far
  bound,        \* [Gens -> BOOLEAN], the listener's socket is open
  closing,      \* [Gens -> BOOLEAN], http.Server.Shutdown was called
  serve,        \* [Gens -> ServeStates], the serving goroutine
  active,       \* [Gens -> 0..MaxActive], requests being handled
  pc, target, expired, failed,   \* the Shutdown a caller is in
  last          \* how the last call of each caller ended

vars == <<ready, cur, gen, bound, closing, serve, active, pc, target, expired,
          failed, last>>

(* Not created, not yet in Serve, accepting, out of Serve, finished.       *)
ServeStates == {"none", "spawned", "accepting", "returned", "over"}
Steps == {"idle", "close", "listeners", "poll", "finish"}
Outcomes == {"none", "started", "start_failed", "running", "stopped", "stop_failed"}

TypeOK ==
  /\ ready \in BOOLEAN
  /\ cur \in 0..MaxStarts
  /\ gen \in 0..MaxStarts
  /\ bound \in [Gens -> BOOLEAN]
  /\ closing \in [Gens -> BOOLEAN]
  /\ serve \in [Gens -> ServeStates]
  /\ active \in [Gens -> 0..MaxActive]
  /\ pc \in [Callers -> Steps]
  /\ target \in [Callers -> 0..MaxStarts]
  /\ \A c \in Callers : pc[c] # "idle" => target[c] # 0
  /\ expired \in [Callers -> BOOLEAN]
  /\ failed \in [Callers -> BOOLEAN]
  /\ last \in [Callers -> Outcomes]

Init ==
  /\ ready = FALSE /\ cur = 0 /\ gen = 0
  /\ bound = [g \in Gens |-> FALSE]
  /\ closing = [g \in Gens |-> FALSE]
  /\ serve = [g \in Gens |-> "none"]
  /\ active = [g \in Gens |-> 0]
  /\ pc = [c \in Callers |-> "idle"]
  /\ target = [c \in Callers |-> 0]
  /\ expired = [c \in Callers |-> FALSE]
  /\ failed = [c \in Callers |-> FALSE]
  /\ last = [c \in Callers |-> "none"]

Goto(c, step) == pc' = [pc EXCEPT ![c] = step]
Return(c, outcome) == Goto(c, "idle") /\ last' = [last EXCEPT ![c] = outcome]

-----------------------------------------------------------------------------
(* Start runs under s.mu from its guard to its assignments; the serving    *)
(* goroutine can be scheduled any time after.                              *)
Running == cur # 0 \/ ready

StartRejected(c) ==
  /\ pc[c] = "idle" /\ Running
  /\ Return(c, "running")
  /\ UNCHANGED <<ready, cur, gen, bound, closing, serve, active, target, expired, failed>>

StartRefused(c) ==
  /\ pc[c] = "idle" /\ ~Running
  /\ Return(c, "start_failed")
  /\ UNCHANGED <<ready, cur, gen, bound, closing, serve, active, target, expired, failed>>

StartBound(c) ==
  /\ pc[c] = "idle" /\ ~Running
  /\ gen < MaxStarts
  /\ \A g \in Gens : ~bound[g]
  /\ gen' = gen + 1 /\ cur' = gen + 1 /\ ready' = TRUE
  /\ bound' = [bound EXCEPT ![gen + 1] = TRUE]
  /\ serve' = [serve EXCEPT ![gen + 1] = "spawned"]
  /\ Return(c, "started")
  /\ UNCHANGED <<closing, active, target, expired, failed>>

-----------------------------------------------------------------------------
(* Shutdown.                                                               *)

Stopped == cur = 0

ShutdownStopped(c) ==
  /\ pc[c] = "idle" /\ Stopped
  /\ ready' = FALSE
  /\ Return(c, "stopped")
  /\ UNCHANGED <<cur, gen, bound, closing, serve, active, target, expired, failed>>

ShutdownBegin(c) ==
  /\ pc[c] = "idle" /\ ~Stopped
  /\ ready' = FALSE
  /\ target' = [target EXCEPT ![c] = cur]
  /\ expired' = [expired EXCEPT ![c] = FALSE]
  /\ failed' = [failed EXCEPT ![c] = FALSE]
  /\ Goto(c, "close")
  /\ UNCHANGED <<cur, gen, bound, closing, serve, active, last>>

(* http.Server.Shutdown closes the listeners Serve has registered...       *)
CloseListener(c) ==
  /\ pc[c] = "close"
  /\ closing' = [closing EXCEPT ![target[c]] = TRUE]
  /\ bound' = [bound EXCEPT ![target[c]] = @ /\ serve[target[c]] # "accepting"]
  /\ Goto(c, "listeners")
  /\ UNCHANGED <<ready, cur, gen, serve, active, target, expired, failed, last>>

(* ... waits for the calls of Serve that registered one...                 *)
ListenersClosed(c) ==
  /\ pc[c] = "listeners"
  /\ serve[target[c]] # "accepting"
  /\ Goto(c, "poll")
  /\ UNCHANGED <<ready, cur, gen, bound, closing, serve, active, target, expired,
                 failed, last>>

(* ... and polls until no request is active or the context is done.        *)
Quiescent(g) == active[g] = 0

DrainFinished(c) ==
  /\ pc[c] = "poll" /\ Quiescent(target[c])
  /\ Goto(c, "finish")
  /\ UNCHANGED <<ready, cur, gen, bound, closing, serve, active, target, expired,
                 failed, last>>

GivesUp(c) == expired[c]

DrainExpired(c) ==
  /\ pc[c] = "poll" /\ GivesUp(c)
  /\ failed' = [failed EXCEPT ![c] = TRUE]
  /\ Goto(c, "finish")
  /\ UNCHANGED <<ready, cur, gen, bound, closing, serve, active, target, expired, last>>

ContextExpires(c) ==
  /\ pc[c] # "idle" /\ ~expired[c]
  /\ expired' = [expired EXCEPT ![c] = TRUE]
  /\ UNCHANGED <<ready, cur, gen, bound, closing, serve, active, pc, target, failed, last>>

(* Only the server this call or goroutine worked on is cleared.            *)
StillCurrentAlways(g) == TRUE
StillCurrent(g) == cur = g

ShutdownEnd(c) ==
  /\ pc[c] = "finish"
  /\ cur' = IF StillCurrent(target[c]) THEN 0 ELSE cur
  /\ Return(c, IF failed[c] THEN "stop_failed" ELSE "stopped")
  /\ UNCHANGED <<ready, gen, bound, closing, serve, active, target, expired, failed>>

-----------------------------------------------------------------------------
(* The goroutine running serve.                                            *)

(* Serve registers the listener, unless Shutdown came first: it then       *)
(* returns ErrServerClosed and closes the listener itself.                 *)
ServeKeepsSocket(g) ==
  /\ serve[g] = "spawned"
  /\ serve' = [serve EXCEPT ![g] = IF closing[g] THEN "returned" ELSE "accepting"]
  /\ UNCHANGED <<ready, cur, gen, bound, closing, active, pc, target, expired, failed, last>>

ServeStarts(g) ==
  /\ serve[g] = "spawned"
  /\ serve' = [serve EXCEPT ![g] = IF closing[g] THEN "returned" ELSE "accepting"]
  /\ bound' = [bound EXCEPT ![g] = ~closing[g]]
  /\ UNCHANGED <<ready, cur, gen, closing, active, pc, target, expired, failed, last>>

(* Accept fails because the listener was closed, or on its own.            *)
ServeReturns(g) ==
  /\ serve[g] = "accepting"
  /\ serve' = [serve EXCEPT ![g] = "returned"]
  /\ bound' = [bound EXCEPT ![g] = FALSE]
  /\ UNCHANGED <<ready, cur, gen, closing, active, pc, target, expired, failed, last>>

ReadyKept == ready
ReadyAfterServe == FALSE

ServeClears(g) ==
  /\ serve[g] = "returned"
  /\ serve' = [serve EXCEPT ![g] = "over"]
  /\ IF StillCurrent(g) THEN cur' = 0 /\ ready' = ReadyAfterServe ELSE UNCHANGED <<cur, ready>>
  /\ UNCHANGED <<gen, bound, closing, active, pc, target, expired, failed, last>>

(* Requests, each in a goroutine of its connection.                        *)
RequestBegins(g) ==
  /\ serve[g] = "accepting" /\ bound[g]
  /\ active[g] < MaxActive
  /\ active' = [active EXCEPT ![g] = @ + 1]
  /\ UNCHANGED <<ready, cur, gen, bound, closing, serve, pc, target, expired, failed, last>>

RequestEnds(g) ==
  /\ active[g] > 0
  /\ active' = [active EXCEPT ![g] = @ - 1]
  /\ UNCHANGED <<ready, cur, gen, bound, closing, serve, pc, target, expired, failed, last>>

-----------------------------------------------------------------------------
ShutdownProgress(c) ==
  CloseListener(c) \/ ListenersClosed(c) \/ DrainFinished(c) \/ DrainExpired(c) \/ ShutdownEnd(c)

CallStep(c) ==
  \/ StartRejected(c) \/ StartRefused(c) \/ StartBound(c)
  \/ ShutdownStopped(c) \/ ShutdownBegin(c)
  \/ ShutdownProgress(c) \/ ContextExpires(c)

ServeStep(g) == ServeStarts(g) \/ ServeReturns(g) \/ ServeClears(g)

Next ==
  \/ \E c \in Callers : CallStep(c)
  \/ \E g \in Gens : ServeStep(g) \/ RequestBegins(g) \/ RequestEnds(g)

Spec == Init /\ [][Next]_vars

(* Calls in progress go on, their contexts have a deadline, the serving    *)
(* goroutine runs and a closed listener makes Accept fail.  Requests may   *)
(* take forever.                                                           *)
Fairness ==
  /\ \A c \in Callers : WF_vars(ShutdownProgress(c)) /\ WF_vars(ContextExpires(c))
  /\ \A g \in Gens : /\ WF_vars(ServeStarts(g)) /\ WF_vars(ServeClears(g))
                     /\ WF_vars(~bound[g] /\ ServeReturns(g))

FairSpec == Spec /\ Fairness

-----------------------------------------------------------------------------
(* Properties.                                                             *)

(* Ready is TRUE only with a server whose socket is open and that nobody   *)
(* is shutting down, up to the instant between the return of its Serve and *)
(* the clean-up after it.                                                  *)
ReadyIsAccepting ==
  ready => /\ cur # 0
           /\ ~closing[cur]
           /\ bound[cur] \/ serve[cur] = "returned"

(* A goroutine of an older server never takes a newer one away: the        *)
(* current server is only cleared once its own Serve returned or its own   *)
(* Shutdown began (the pointer comparisons of serve and Shutdown).         *)
OnlyOwnServerCleared ==
  [][cur # 0 /\ cur' # cur => closing[cur] \/ serve[cur] = "returned"]_vars

(* A socket that is no longer the server's is released, at the latest when *)
(* the serving goroutine of a server shut down before it was scheduled     *)
(* runs.                                                                   *)
SocketReleased == \A g \in Gens : bound[g] /\ cur # g ~> ~bound[g]
=============================================================================
