------------------------------ MODULE DnsServer ------------------------------
(***************************************************************************)
(* The lifecycle of the UDP and TCP DNS listeners                          *)
(* (src/dns/internal/dnsserver/server.go).                                 *)
(*                                                                         *)
(* Callers are the goroutines that call Start and Shutdown.  Every Start   *)
(* that binds a UDP socket opens a new generation: its two sockets, its    *)
(* two serving goroutines and its two observers.  The server only keeps a  *)
(* pointer to the current generation, so goroutines of an older generation *)
(* can still run beside it.  A step of this module is what the code does   *)
(* between two points where another goroutine can be scheduled.            *)
(***************************************************************************)
EXTENDS Naturals

CONSTANTS
  Callers,    \* goroutines calling Start and Shutdown
  NoCaller,   \* the owner of a free mutex
  MaxStarts,  \* bound: number of Starts that get as far as a UDP socket
  MaxShared   \* bound: as many of them while several goroutines call

ASSUME ConstantsAssumption ==
  /\ NoCaller \notin Callers
  /\ MaxStarts \in Nat \ {0} /\ MaxShared \in Nat

Gens == 1..MaxStarts
Nets == {"udp", "tcp"}

VARIABLES
  mu,            \* holder of s.mu, or NoCaller
  started,       \* s.started
  shuttingDown,  \* s.shuttingDown
  ready,         \* s.ready
  cur,           \* generation of s.udpServer and s.tcpServer, 0 for nil
  gen,           \* generations created so far
  bound,         \* [Gens -> SUBSET Nets], sockets held
  life,          \* [Gens -> [Nets -> Lives]], the miekg/dns servers
  obs,           \* [Gens -> [Nets -> ObserverStates]]
  pc,            \* where each caller is
  target,        \* generation a running Shutdown copied, 0 between calls
  expired,       \* the context of a Shutdown is done
  failed,        \* a ShutdownContext of the running Shutdown returned an error
  last           \* how the last call of each caller ended

vars == <<mu, started, shuttingDown, ready, cur, gen, bound, life, obs,
          pc, target, expired, failed, last>>

(* A miekg/dns server: not created; its goroutine not yet in its loop;     *)
(* serving; draining after ShutdownContext; ended before the loop; ended   *)
(* on its own; ended after ShutdownContext.                                *)
Lives == {"none", "spawned", "serving", "draining", "refused", "broken", "stopped"}
Ended == {"refused", "broken", "stopped"}

ObserverStates == {"none", "waiting", "judged", "over"}

Steps == {"idle", "listen_tcp", "wait_udp", "wait_tcp",
          "stop_udp", "drain_udp", "stop_tcp", "drain_tcp", "finish"}

(* What a call returned: nil or an error; "none" before the first call.    *)
Outcomes == {"none", "nil", "error"}

(* Inside Start, after its first socket: the caller holds s.mu.            *)
InStart == {"listen_tcp", "wait_udp", "wait_tcp"}
(* Inside Shutdown, between its two critical sections.                     *)
InShutdownNoTcpDeadline == {"stop_udp", "drain_udp"}
InShutdown == {"stop_udp", "drain_udp", "stop_tcp", "drain_tcp", "finish"}

TypeOK ==
  /\ mu \in Callers \cup {NoCaller}
  /\ started \in BOOLEAN
  /\ shuttingDown \in BOOLEAN
  /\ ready \in BOOLEAN
  /\ cur \in 0..MaxStarts
  /\ gen \in 0..MaxStarts
  /\ bound \in [Gens -> SUBSET Nets]
  /\ life \in [Gens -> [Nets -> Lives]]
  /\ obs \in [Gens -> [Nets -> ObserverStates]]
  /\ pc \in [Callers -> Steps]
  /\ target \in [Callers -> 0..MaxStarts]
  /\ expired \in [Callers -> BOOLEAN]
  /\ failed \in [Callers -> BOOLEAN]
  /\ last \in [Callers -> Outcomes]

Init ==
  /\ mu = NoCaller
  /\ started = FALSE /\ shuttingDown = FALSE /\ ready = FALSE
  /\ cur = 0 /\ gen = 0
  /\ bound = [g \in Gens |-> {}]
  /\ life = [g \in Gens |-> [n \in Nets |-> "none"]]
  /\ obs = [g \in Gens |-> [n \in Nets |-> "none"]]
  /\ pc = [c \in Callers |-> "idle"]
  /\ target = [c \in Callers |-> 0]
  /\ expired = [c \in Callers |-> FALSE]
  /\ failed = [c \in Callers |-> FALSE]
  /\ last = [c \in Callers |-> "none"]

(* No other goroutine than c has made a call so far.                       *)
Sole(c) == \A d \in Callers \ {c} : pc[d] = "idle" /\ last[d] = "none"
OneOwner == \E c \in Callers : Sole(c)

(* A call is made when s.mu is free.  The bound MaxShared lets a second    *)
(* goroutine join only while the server has been started that often.       *)
Calls(c) ==
  /\ pc[c] = "idle" /\ mu = NoCaller
  /\ gen <= MaxShared \/ Sole(c)

Goto(c, step) == pc' = [pc EXCEPT ![c] = step]

Return(c, outcome) ==
  /\ Goto(c, "idle")
  /\ last' = [last EXCEPT ![c] = outcome]

CloseUdpOnly(g, nets) == bound' = [bound EXCEPT ![g] = @ \ (nets \cap {"udp"})]
Close(g, nets) == bound' = [bound EXCEPT ![g] = @ \ nets]

-----------------------------------------------------------------------------
(* Start holds s.mu from its first line to its return.                     *)

(* The guard on started and shuttingDown: ErrServerAlreadyStarted.         *)
StartRejected(c) ==
  /\ Calls(c)
  /\ started \/ shuttingDown
  /\ Return(c, "error")
  /\ UNCHANGED <<mu, started, shuttingDown, ready, cur, gen, bound, life, obs,
                 target, expired, failed>>

(* No address, no handler, or the UDP address cannot be bound.             *)
StartUdpRefused(c) ==
  /\ Calls(c)
  /\ ~started /\ ~shuttingDown
  /\ Return(c, "error")
  /\ UNCHANGED <<mu, started, shuttingDown, ready, cur, gen, bound, life, obs,
                 target, expired, failed>>

StartUdpBound(c) ==
  /\ Calls(c)
  /\ ~started /\ ~shuttingDown
  /\ gen < MaxStarts /\ (gen < MaxShared \/ Sole(c))
  /\ \A g \in Gens : "udp" \notin bound[g]
  /\ mu' = c
  /\ gen' = gen + 1
  /\ bound' = [bound EXCEPT ![gen + 1] = {"udp"}]
  /\ Goto(c, "listen_tcp")
  /\ UNCHANGED <<started, shuttingDown, ready, cur, life, obs, target,
                 expired, failed, last>>

(* The TCP address cannot be bound: the UDP socket is closed again.        *)
StartTcpRefused(c) ==
  /\ pc[c] = "listen_tcp"
  /\ mu' = NoCaller
  /\ Close(gen, {"udp"})
  /\ Return(c, "error")
  /\ UNCHANGED <<started, shuttingDown, ready, cur, gen, life, obs, target,
                 expired, failed>>

(* Both sockets held: the servers are published and their goroutines run.  *)
StartTcpBound(c) ==
  /\ pc[c] = "listen_tcp"
  /\ \A g \in Gens : "tcp" \notin bound[g]
  /\ bound' = [bound EXCEPT ![gen] = @ \cup {"tcp"}]
  /\ cur' = gen
  /\ life' = [life EXCEPT ![gen] = [n \in Nets |-> "spawned"]]
  /\ Goto(c, "wait_udp")
  /\ UNCHANGED <<mu, started, shuttingDown, ready, gen, obs, target, expired,
                 failed, last>>

(* The started channel of a listener is closed once it serves, and stays   *)
(* closed if it then ends; its done channel is filled once it has ended.   *)
Notified(n) == life[gen][n] \in {"serving", "broken"}
Done(n) == life[gen][n] \in {"refused", "broken"}

WaitUdpStarted(c) ==
  /\ pc[c] = "wait_udp" /\ Notified("udp")
  /\ Goto(c, "wait_tcp")
  /\ UNCHANGED <<mu, started, shuttingDown, ready, cur, gen, bound, life, obs,
                 target, expired, failed, last>>

WaitTcpStarted(c) ==
  /\ pc[c] = "wait_tcp" /\ Notified("tcp")
  /\ mu' = NoCaller
  /\ started' = TRUE /\ ready' = TRUE
  /\ obs' = [obs EXCEPT ![gen] = [n \in Nets |-> "waiting"]]
  /\ Return(c, "nil")
  /\ UNCHANGED <<shuttingDown, cur, gen, bound, life, target, expired, failed>>

(* rollbackStartup: both sockets are closed and the state is reset.        *)
StartRolledBack(c) ==
  /\ \/ pc[c] = "wait_udp" /\ Done("udp")
     \/ pc[c] = "wait_tcp" /\ Done("tcp")
  /\ mu' = NoCaller
  /\ ready' = FALSE /\ started' = FALSE /\ shuttingDown' = FALSE
  /\ cur' = 0
  /\ Close(gen, Nets)
  /\ Return(c, "error")
  /\ UNCHANGED <<gen, life, obs, target, expired, failed>>

-----------------------------------------------------------------------------
(* Shutdown.                                                               *)

ShutdownNotStarted(c) ==
  /\ Calls(c)
  /\ ~started
  /\ ready' = FALSE
  /\ Return(c, "nil")
  /\ UNCHANGED <<mu, started, shuttingDown, cur, gen, bound, life, obs, target,
                 expired, failed>>

(* The flags Shutdown sets under s.mu before it touches a listener.        *)
AnnounceLate == shuttingDown' = TRUE /\ ready' = ready
AnnounceShutdown == shuttingDown' = TRUE /\ ready' = FALSE

ShutdownBegin(c) ==
  /\ Calls(c)
  /\ started
  /\ AnnounceShutdown
  /\ target' = [target EXCEPT ![c] = cur]
  /\ Goto(c, "stop_udp")
  /\ UNCHANGED <<mu, started, cur, gen, bound, life, obs, expired, failed, last>>

StopAt(n) == IF n = "udp" THEN "stop_udp" ELSE "stop_tcp"
DrainAt(n) == IF n = "udp" THEN "drain_udp" ELSE "drain_tcp"
AfterDrainSkipsTcp(n) == "finish"
AfterDrainLost(n) == IF n = "udp" THEN "stop_tcp" ELSE "stopped"
AfterDrain(n) == IF n = "udp" THEN "stop_tcp" ELSE "finish"

(* ShutdownContext of a server that serves.  A TCP listener is closed at   *)
(* once, a UDP socket is kept for the answers still to be written.         *)
StopServing(c, n) ==
  /\ pc[c] = StopAt(n)
  /\ life[target[c]][n] = "serving"
  /\ life' = [life EXCEPT ![target[c]][n] = "draining"]
  /\ Close(target[c], {n} \cap {"tcp"})
  /\ Goto(c, DrainAt(n))
  /\ UNCHANGED <<mu, started, shuttingDown, ready, cur, gen, obs, target,
                 expired, failed, last>>

(* ShutdownContext of a server that ended on its own: nothing to wait for. *)
StopBroken(c, n) ==
  /\ pc[c] = StopAt(n)
  /\ life[target[c]][n] = "broken"
  /\ life' = [life EXCEPT ![target[c]][n] = "stopped"]
  /\ Goto(c, AfterDrain(n))
  /\ UNCHANGED <<mu, started, shuttingDown, ready, cur, gen, bound, obs, target,
                 expired, failed, last>>

(* ShutdownContext of a server another call already stops: an error.       *)
StopNotStarted(c, n) ==
  /\ pc[c] = StopAt(n)
  /\ life[target[c]][n] \in {"draining", "stopped"}
  /\ failed' = [failed EXCEPT ![c] = TRUE]
  /\ Goto(c, AfterDrain(n))
  /\ UNCHANGED <<mu, started, shuttingDown, ready, cur, gen, bound, life, obs,
                 target, expired, last>>

DrainFinished(c, n) ==
  /\ pc[c] = DrainAt(n)
  /\ life[target[c]][n] = "stopped"
  /\ Close(target[c], {n})
  /\ Goto(c, AfterDrain(n))
  /\ UNCHANGED <<mu, started, shuttingDown, ready, cur, gen, life, obs, target,
                 expired, failed, last>>

(* The context ends the wait: the socket is closed, handlers may still run.*)
DrainExpired(c, n) ==
  /\ pc[c] = DrainAt(n)
  /\ expired[c]
  /\ failed' = [failed EXCEPT ![c] = TRUE]
  /\ Close(target[c], {n})
  /\ Goto(c, AfterDrain(n))
  /\ UNCHANGED <<mu, started, shuttingDown, ready, cur, gen, life, obs, target,
                 expired, last>>

ContextExpires(c) ==
  /\ pc[c] \in InShutdown
  /\ ~expired[c]
  /\ expired' = [expired EXCEPT ![c] = TRUE]
  /\ UNCHANGED <<mu, started, shuttingDown, ready, cur, gen, bound, life, obs,
                 pc, target, failed, last>>

(* The fields are reset, and the locals of the call are gone.              *)
ShutdownEnd(c) ==
  /\ pc[c] = "finish" /\ mu = NoCaller
  /\ started' = FALSE /\ shuttingDown' = FALSE
  /\ cur' = 0
  /\ Return(c, IF failed[c] THEN "error" ELSE "nil")
  /\ target' = [target EXCEPT ![c] = 0]
  /\ expired' = [expired EXCEPT ![c] = FALSE]
  /\ failed' = [failed EXCEPT ![c] = FALSE]
  /\ UNCHANGED <<mu, ready, gen, bound, life, obs>>

-----------------------------------------------------------------------------
(* The serving goroutines, one per listener, inside miekg/dns.             *)

ListenerServes(g, n) ==
  /\ life[g][n] = "spawned" /\ n \in bound[g]
  /\ life' = [life EXCEPT ![g][n] = "serving"]
  /\ UNCHANGED <<mu, started, shuttingDown, ready, cur, gen, bound, obs, pc,
                 target, expired, failed, last>>

ListenerRefuses(g, n) ==
  /\ life[g][n] = "spawned"
  /\ life' = [life EXCEPT ![g][n] = "refused"]
  /\ UNCHANGED <<mu, started, shuttingDown, ready, cur, gen, bound, obs, pc,
                 target, expired, failed, last>>

(* Accept or Read fails: the goroutine closes its socket and returns.      *)
ListenerBreaks(g, n) ==
  /\ life[g][n] = "serving"
  /\ life' = [life EXCEPT ![g][n] = "broken"]
  /\ Close(g, {n})
  /\ UNCHANGED <<mu, started, shuttingDown, ready, cur, gen, obs, pc, target,
                 expired, failed, last>>

(* The last handler of a listener being shut down returns.                 *)
ListenerDrained(g, n) ==
  /\ life[g][n] = "draining"
  /\ life' = [life EXCEPT ![g][n] = "stopped"]
  /\ Close(g, {n})
  /\ UNCHANGED <<mu, started, shuttingDown, ready, cur, gen, obs, pc, target,
                 expired, failed, last>>

-----------------------------------------------------------------------------
(* observeListener, one goroutine per listener.                            *)

(* What it makes of the two flags: only the end of a listener of a running *)
(* server is unexpected.                                                   *)
VerdictInverted == IF started /\ shuttingDown THEN "judged" ELSE "over"
Verdict == IF started /\ ~shuttingDown THEN "judged" ELSE "over"

(* It reads the flags under s.mu, and acts after unlocking.                *)
ObserverJudges(g, n) ==
  /\ obs[g][n] = "waiting" /\ life[g][n] \in Ended
  /\ mu = NoCaller
  /\ obs' = [obs EXCEPT ![g][n] = Verdict]
  /\ UNCHANGED <<mu, started, shuttingDown, ready, cur, gen, bound, life, pc,
                 target, expired, failed, last>>

ObserverClearsReady(g, n) ==
  /\ obs[g][n] = "judged"
  /\ ready' = FALSE
  /\ obs' = [obs EXCEPT ![g][n] = "over"]
  /\ UNCHANGED <<mu, started, shuttingDown, cur, gen, bound, life, pc, target,
                 expired, failed, last>>

-----------------------------------------------------------------------------
StartStep(c) ==
  \/ StartRejected(c) \/ StartUdpRefused(c) \/ StartUdpBound(c)
  \/ StartTcpRefused(c) \/ StartTcpBound(c)
  \/ WaitUdpStarted(c) \/ WaitTcpStarted(c) \/ StartRolledBack(c)

ShutdownStep(c) ==
  \/ ShutdownNotStarted(c) \/ ShutdownBegin(c)
  \/ \E n \in Nets : \/ StopServing(c, n) \/ StopBroken(c, n)
                     \/ StopNotStarted(c, n)
                     \/ DrainFinished(c, n) \/ DrainExpired(c, n)
  \/ ContextExpires(c)
  \/ ShutdownEnd(c)

ListenerStep(g, n) ==
  \/ ListenerServes(g, n) \/ ListenerRefuses(g, n)
  \/ ListenerBreaks(g, n) \/ ListenerDrained(g, n)

ObserverStep(g, n) == ObserverJudges(g, n) \/ ObserverClearsReady(g, n)

Next ==
  \/ \E c \in Callers : StartStep(c) \/ ShutdownStep(c)
  \/ \E g \in Gens, n \in Nets : ListenerStep(g, n) \/ ObserverStep(g, n)

Spec == Init /\ [][Next]_vars

(* What the scheduler guarantees: a call in progress goes on and its       *)
(* context has a deadline; a goroutine that was started runs; a goroutine  *)
(* waiting for s.mu gets it (the starvation mode of sync.Mutex), which     *)
(* takes strong fairness.  Nobody has to make a call, no listener has to   *)
(* break and no handler has to return.                                     *)
Progress(c) == pc[c] # "idle" /\ (StartStep(c) \/ ShutdownStep(c))

Fairness ==
  /\ \A c \in Callers : WF_vars(Progress(c)) /\ SF_vars(ShutdownEnd(c))
  /\ \A c \in Callers : WF_vars(ContextExpires(c))
  /\ \A g \in Gens, n \in Nets :
       /\ WF_vars(ListenerServes(g, n) \/ ListenerRefuses(g, n))
       /\ SF_vars(ObserverJudges(g, n))
       /\ WF_vars(ObserverClearsReady(g, n))

FairSpec == Spec /\ Fairness
-----------------------------------------------------------------------------
(* Properties.                                                             *)

AllIdle == \A c \in Callers : pc[c] = "idle"

(* A Start that failed holds no socket, whichever step of it failed and    *)
(* whatever the other callers do (server.go, the comment of Start: all     *)
(* acquired resources are released before Start returns).                  *)
FailedStartHoldsNothing ==
  \A g \in Gens :
    /\ \A n \in Nets : obs[g][n] = "none"
    /\ ~(g = gen /\ \E c \in Callers : pc[c] \in InStart)
    => bound[g] = {}

(* A Shutdown about to return nil has itself seen both listeners of its    *)
(* generation end, whatever other Shutdowns run beside it: their handlers  *)
(* have returned and their sockets are closed.                             *)
CleanShutdownDrained ==
  \A c \in Callers :
    pc[c] = "finish" /\ ~failed[c] =>
      \A n \in Nets : /\ life[target[c]][n] = "stopped"
                      /\ n \notin bound[target[c]]

(* While Ready answers TRUE the server is started, and a listener of its   *)
(* current generation that no longer serves still has an observer that is  *)
(* going to clear readiness.                                               *)
Watched ==
  ready =>
    /\ started /\ ~shuttingDown /\ cur # 0
    /\ \A n \in Nets : \/ life[cur][n] = "serving"
                       \/ /\ life[cur][n] = "broken"
                          /\ obs[cur][n] \in {"waiting", "judged"}

(* Readiness is never left behind by a server that one goroutine owns, as  *)
(* app.Run owns it: a listener that broke under it is about to be noticed. *)
ReadyIsWatched == OneOwner => Watched

(* With no call in progress, a server that is not started and has one      *)
(* owner holds no socket: neither a failed Start nor a Shutdown, even one  *)
(* whose context expired, leaves the address taken for the next Start.     *)
NoLeakedSocket ==
  OneOwner /\ AllIdle /\ ~started => \A g \in Gens : bound[g] = {}

(* Ready reports whether both listeners are running (server.go:67): a      *)
(* started server whose two listeners serve is ready.                      *)
ReadyWhileServing ==
  /\ mu = NoCaller /\ started /\ ~shuttingDown /\ cur # 0
  /\ \A n \in Nets : life[cur][n] = "serving"
  => ready

(* Every Start and every Shutdown returns, even when a handler never does. *)
CallsReturn == \A c \in Callers : pc[c] # "idle" ~> pc[c] = "idle"

(* A listener that ends on its own while it is current is noticed: the     *)
(* server stops being ready, or it is shut down.                           *)
BrokenListenerNoticed ==
  \A g \in Gens, n \in Nets :
    started /\ cur = g /\ life[g][n] = "broken" ~> ~ready \/ cur # g

(* What the other components see of the server: its phase, and Ready.      *)
Phase == IF shuttingDown THEN "stopping" ELSE IF started THEN "running" ELSE "stopped"

Lifecycle == INSTANCE DnsLifecycle WITH phase <- Phase, ready <- ready

(* As long as one goroutine owns the server, each of its steps is one that *)
(* the abstract lifecycle allows, or is not visible outside.               *)
ImplementsLifecycle ==
  Lifecycle!Init /\ [][OneOwner' => Lifecycle!Next]_<<Phase, ready>>
=============================================================================
