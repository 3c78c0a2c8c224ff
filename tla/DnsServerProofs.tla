--------------------------- MODULE DnsServerProofs ---------------------------
(***************************************************************************)
(* What holds of the DNS server for every number of callers and of starts, *)
(* and what holds as long as a single goroutine owns it, as in app.Run.    *)
(***************************************************************************)
EXTENDS DnsServer, TLAPS

(* s.mu is held exactly by a caller inside Start, and the server is then   *)
(* neither started nor being shut down.                                    *)
LockInv ==
  /\ \A c \in Callers : mu = c <=> pc[c] \in InStart
  /\ mu # NoCaller => ~started /\ ~shuttingDown

(* A generation that does not exist yet holds nothing.                     *)
FutureInv ==
  \A g \in Gens : g > gen =>
    /\ bound[g] = {}
    /\ \A n \in Nets : life[g][n] = "none" /\ obs[g][n] = "none"

(* A listener that has ended has closed its socket.                        *)
SocketInv ==
  \A g \in Gens, n \in Nets : life[g][n] \in {"broken", "stopped"} => n \notin bound[g]

(* The generation a Start is building is the last one, and is not yet      *)
(* observed; before its second socket it holds the first one.              *)
StartInv ==
  \A c \in Callers :
    /\ pc[c] \in InStart =>
         gen \in Gens /\ \A n \in Nets : obs[gen][n] = "none"
    /\ pc[c] = "listen_tcp" =>
         bound[gen] = {"udp"} /\ \A n \in Nets : life[gen][n] = "none"
    /\ pc[c] \in {"wait_udp", "wait_tcp"} => cur = gen
    /\ pc[c] = "wait_tcp" => life[gen]["udp"] \in {"serving", "broken"}

(* A started server has a current, observed generation.                    *)
StartedInv ==
  started => cur \in Gens /\ \A n \in Nets : obs[cur][n] # "none"

(* A Shutdown works on an observed generation, and what it has passed      *)
(* without an error has ended.                                             *)
ShutdownInv ==
  \A c \in Callers :
    pc[c] \in InShutdown =>
      /\ target[c] \in Gens
      /\ \A n \in Nets : obs[target[c]][n] # "none"
      /\ pc[c] \in {"stop_tcp", "drain_tcp", "finish"} /\ ~failed[c]
           => life[target[c]]["udp"] = "stopped"
      /\ pc[c] = "finish" /\ ~failed[c] => life[target[c]]["tcp"] = "stopped"

IInv ==
  /\ TypeOK /\ LockInv /\ FutureInv /\ SocketInv /\ StartInv /\ StartedInv
  /\ ShutdownInv /\ FailedStartHoldsNothing

-----------------------------------------------------------------------------
(* The generations are among the values of cur and gen, and so is "none".  *)
LEMMA GensFact == /\ 0 \in 0..MaxStarts
                  /\ \A g \in Gens : g \in 0..MaxStarts /\ g # 0
                  /\ \A g \in 0..MaxStarts : g < MaxStarts => g + 1 \in Gens
  BY ConstantsAssumption DEF Gens

(* Closing sockets, of a generation or of none, only shrinks what is held. *)
LEMMA CloseShrinks ==
  ASSUME bound \in [Gens -> SUBSET Nets], NEW g, NEW nets, Close(g, nets)
  PROVE  /\ bound' \in [Gens -> SUBSET Nets]
         /\ \A h \in Gens : bound'[h] \subseteq bound[h]
         /\ \A h \in Gens : h # g => bound'[h] = bound[h]
         /\ g \in Gens => bound'[g] = bound[g] \ nets
<1>1. CASE g \in Gens
  BY <1>1 DEF Close
<1>2. CASE g \notin Gens
  BY <1>2 DEF Close
<1>3. QED
  BY <1>1, <1>2

(* Setting one entry of a table indexed by generation and network.         *)
LEMMA TableUpdate ==
  ASSUME NEW S, NEW f \in [Gens -> [Nets -> S]], NEW x \in S,
         NEW g \in Gens, NEW n \in Nets
  PROVE  /\ [f EXCEPT ![g][n] = x] \in [Gens -> [Nets -> S]]
         /\ [f EXCEPT ![g][n] = x][g][n] = x
         /\ \A h \in Gens, m \in Nets :
              h # g \/ m # n => [f EXCEPT ![g][n] = x][h][m] = f[h][m]
  OBVIOUS

(* Every variable keeps its type.                                          *)
LEMMA TypeStep == TypeOK /\ [Next]_vars => TypeOK'
<1> USE ConstantsAssumption, GensFact
<1> SUFFICES ASSUME TypeOK, [Next]_vars PROVE TypeOK'
  OBVIOUS
<1>1. ASSUME NEW c \in Callers, StartStep(c) PROVE TypeOK'
  <2>1. CASE StartRejected(c) \/ StartUdpRefused(c)
    BY <2>1 DEF TypeOK, StartRejected, StartUdpRefused, Calls, Return, Goto, Steps, Outcomes
  <2>2. CASE StartUdpBound(c)
    BY <2>2 DEF TypeOK, StartUdpBound, Calls, Goto, Steps, Nets
  <2>3. CASE StartTcpRefused(c)
    BY <2>3, CloseShrinks DEF TypeOK, StartTcpRefused, Return, Goto, Steps, Outcomes
  <2>4. CASE StartTcpBound(c)
    BY <2>4 DEF TypeOK, StartTcpBound, Goto, Steps, Lives, Nets
  <2>5. CASE WaitUdpStarted(c)
    BY <2>5 DEF TypeOK, WaitUdpStarted, Goto, Steps
  <2>6. CASE WaitTcpStarted(c)
    BY <2>6 DEF TypeOK, WaitTcpStarted, Return, Goto, Steps, Outcomes, ObserverStates
  <2>7. CASE StartRolledBack(c)
    BY <2>7, CloseShrinks DEF TypeOK, StartRolledBack, Return, Goto, Steps, Outcomes
  <2>8. QED
    BY <1>1, <2>1, <2>2, <2>3, <2>4, <2>5, <2>6, <2>7 DEF StartStep
<1>2. ASSUME NEW c \in Callers, ShutdownStep(c) PROVE TypeOK'
  <2>1. CASE ShutdownNotStarted(c)
    BY <2>1 DEF TypeOK, ShutdownNotStarted, Calls, Return, Goto, Steps, Outcomes
  <2>2. CASE ShutdownBegin(c)
    BY <2>2 DEF TypeOK, ShutdownBegin, Calls, AnnounceShutdown, Goto, Steps
  <2>3. ASSUME NEW n \in Nets, StopServing(c, n) PROVE TypeOK'
    BY <2>3, CloseShrinks DEF TypeOK, StopServing, Goto, DrainAt, Steps, Lives
  <2>4. ASSUME NEW n \in Nets, StopBroken(c, n) PROVE TypeOK'
    BY <2>4 DEF TypeOK, StopBroken, Goto, AfterDrain, Steps, Lives
  <2>5. ASSUME NEW n \in Nets, StopNotStarted(c, n) PROVE TypeOK'
    BY <2>5 DEF TypeOK, StopNotStarted, Goto, AfterDrain, Steps
  <2>6. ASSUME NEW n \in Nets, DrainFinished(c, n) PROVE TypeOK'
    BY <2>6, CloseShrinks DEF TypeOK, DrainFinished, Goto, AfterDrain, Steps
  <2>7. ASSUME NEW n \in Nets, DrainExpired(c, n) PROVE TypeOK'
    BY <2>7, CloseShrinks DEF TypeOK, DrainExpired, Goto, AfterDrain, Steps
  <2>8. CASE ContextExpires(c)
    BY <2>8 DEF TypeOK, ContextExpires
  <2>9. CASE ShutdownEnd(c)
    BY <2>9 DEF TypeOK, ShutdownEnd, Return, Goto, Steps, Outcomes
  <2>10. QED
    BY <1>2, <2>1, <2>2, <2>3, <2>4, <2>5, <2>6, <2>7, <2>8, <2>9 DEF ShutdownStep
<1>3. ASSUME NEW g \in Gens, NEW n \in Nets, ListenerStep(g, n) PROVE TypeOK'
  <2>0. CASE ListenerServes(g, n)
    BY <2>0 DEF TypeOK, ListenerServes, Lives
  <2>1. CASE ListenerRefuses(g, n)
    BY <2>1 DEF TypeOK, ListenerRefuses, Lives
  <2>2. CASE ListenerBreaks(g, n)
    BY <2>2, CloseShrinks DEF TypeOK, ListenerBreaks, Lives
  <2>3. CASE ListenerDrained(g, n)
    BY <2>3, CloseShrinks DEF TypeOK, ListenerDrained, Lives
  <2>4. QED
    BY <1>3, <2>0, <2>1, <2>2, <2>3 DEF ListenerStep
<1>4. ASSUME NEW g \in Gens, NEW n \in Nets, ObserverStep(g, n) PROVE TypeOK'
  <2>1. CASE ObserverJudges(g, n)
    BY <2>1 DEF TypeOK, ObserverJudges, Verdict, ObserverStates
  <2>2. CASE ObserverClearsReady(g, n)
    BY <2>2 DEF TypeOK, ObserverClearsReady, ObserverStates
  <2>3. QED
    BY <1>4, <2>1, <2>2 DEF ObserverStep
<1>5. CASE UNCHANGED vars
  BY <1>5 DEF TypeOK, vars
<1>6. QED
  BY <1>1, <1>2, <1>3, <1>4, <1>5 DEF Next

(* The initial values have the right types.                                *)
LEMMA TypeInit == Init => TypeOK
<1> SUFFICES ASSUME Init PROVE TypeOK
  OBVIOUS
<1>1. /\ life \in [Gens -> [Nets -> Lives]]
      /\ obs \in [Gens -> [Nets -> ObserverStates]]
      /\ bound \in [Gens -> SUBSET Nets]
  BY DEF Init, Lives, ObserverStates
<1>2. QED
  BY <1>1, GensFact DEF Init, TypeOK, Steps, Outcomes

(* The variables of the listener lifecycle keep their types in every       *)
(* behaviour, for any set of callers and any bound on starts.              *)
THEOREM TypeCorrect == Spec => []TypeOK
  BY TypeInit, TypeStep, PTL DEF Spec
-----------------------------------------------------------------------------
(* The inductive invariant is preserved by every step.                     *)
LEMMA IInvStep == IInv /\ [Next]_vars => IInv'
<1> USE ConstantsAssumption, GensFact
<1> SUFFICES ASSUME IInv, [Next]_vars PROVE IInv'
  OBVIOUS
<1>0. TypeOK /\ TypeOK'
  BY TypeStep DEF IInv
<1> USE <1>0 DEF TypeOK, IInv, LockInv, FutureInv, SocketInv, StartInv, StartedInv,
      ShutdownInv, FailedStartHoldsNothing, InStart, InShutdown, Return, Goto
<1>1. ASSUME NEW c \in Callers, StartStep(c) PROVE IInv'
  <2>1. CASE StartRejected(c)
    <3>1. LockInv' /\ FutureInv'
      BY <2>1 DEF StartRejected, Calls
    <3>2. SocketInv' /\ StartedInv'
      BY <2>1 DEF StartRejected, Calls
    <3>3. StartInv'
      BY <2>1 DEF StartRejected, Calls
    <3>4. ShutdownInv'
      BY <2>1 DEF StartRejected, Calls
    <3>5. FailedStartHoldsNothing'
      BY <2>1 DEF StartRejected, Calls
    <3>6. QED
      BY <3>1, <3>2, <3>3, <3>4, <3>5
  <2>2. CASE StartUdpRefused(c)
    <3>1. LockInv' /\ FutureInv'
      BY <2>2 DEF StartUdpRefused, Calls
    <3>2. SocketInv' /\ StartedInv'
      BY <2>2 DEF StartUdpRefused, Calls
    <3>3. StartInv'
      BY <2>2 DEF StartUdpRefused, Calls
    <3>4. ShutdownInv'
      BY <2>2 DEF StartUdpRefused, Calls
    <3>5. FailedStartHoldsNothing'
      BY <2>2 DEF StartUdpRefused, Calls
    <3>6. QED
      BY <3>1, <3>2, <3>3, <3>4, <3>5
  <2>3. CASE StartUdpBound(c)
    <3>0. /\ gen + 1 \in Gens /\ gen + 1 > gen /\ gen' = gen + 1
          /\ bound'[gen + 1] = {"udp"}
          /\ \A h \in Gens : h # gen + 1 => bound'[h] = bound[h]
          /\ \A n \in Nets : life[gen + 1][n] = "none" /\ obs[gen + 1][n] = "none"
      BY <2>3, SMTT(30) DEF StartUdpBound, Calls
    <3>1. LockInv' /\ FutureInv'
      <4>1. LockInv'
        BY <2>3 DEF StartUdpBound, Calls
      <4>2. \A h \in Gens : h > gen' => h > gen /\ h # gen + 1
        BY <3>0 DEF Gens
      <4>3. UNCHANGED <<life, obs>>
        BY <2>3 DEF StartUdpBound, Calls
      <4>4. FutureInv'
        BY <3>0, <4>2, <4>3
      <4>5. QED
        BY <4>1, <4>4
    <3>2. SocketInv' /\ StartedInv'
      BY <2>3, <3>0 DEF StartUdpBound, Calls
    <3>3. StartInv'
      BY <2>3, <3>0 DEF StartUdpBound, Calls
    <3>4. ShutdownInv'
      BY <2>3 DEF StartUdpBound, Calls
    <3>5. FailedStartHoldsNothing'
      BY <2>3 DEF StartUdpBound, Calls
    <3>6. QED
      BY <3>1, <3>2, <3>3, <3>4, <3>5
  <2>4. CASE StartTcpRefused(c)
    <3>1. LockInv' /\ FutureInv'
      BY <2>4, CloseShrinks DEF StartTcpRefused
    <3>2. SocketInv' /\ StartedInv'
      BY <2>4, CloseShrinks DEF StartTcpRefused
    <3>3. StartInv'
      BY <2>4, CloseShrinks DEF StartTcpRefused
    <3>4. ShutdownInv'
      BY <2>4, CloseShrinks DEF StartTcpRefused
    <3>5. FailedStartHoldsNothing'
      <4>1. gen \in Gens /\ bound'[gen] = {}
        BY <2>4, CloseShrinks DEF StartTcpRefused
      <4>2. \A h \in Gens : h # gen => bound'[h] = bound[h]
        BY <2>4, CloseShrinks DEF StartTcpRefused
      <4>3. QED
        BY <2>4, <4>1, <4>2 DEF StartTcpRefused
    <3>6. QED
      BY <3>1, <3>2, <3>3, <3>4, <3>5
  <2>5. CASE StartTcpBound(c)
    <3>1. LockInv' /\ FutureInv'
      BY <2>5 DEF StartTcpBound
    <3>2. SocketInv' /\ StartedInv'
      BY <2>5 DEF StartTcpBound
    <3>3. StartInv'
      BY <2>5 DEF StartTcpBound
    <3>4. ShutdownInv'
      BY <2>5 DEF StartTcpBound
    <3>5. FailedStartHoldsNothing'
      BY <2>5 DEF StartTcpBound
    <3>6. QED
      BY <3>1, <3>2, <3>3, <3>4, <3>5
  <2>6. CASE WaitUdpStarted(c)
    <3>1. LockInv' /\ FutureInv'
      BY <2>6 DEF WaitUdpStarted, Notified
    <3>2. SocketInv' /\ StartedInv'
      BY <2>6 DEF WaitUdpStarted, Notified
    <3>3. StartInv'
      BY <2>6 DEF WaitUdpStarted, Notified
    <3>4. ShutdownInv'
      BY <2>6 DEF WaitUdpStarted, Notified
    <3>5. FailedStartHoldsNothing'
      BY <2>6 DEF WaitUdpStarted, Notified
    <3>6. QED
      BY <3>1, <3>2, <3>3, <3>4, <3>5
  <2>7. CASE WaitTcpStarted(c)
    <3>1. LockInv' /\ FutureInv'
      BY <2>7 DEF WaitTcpStarted, Notified
    <3>2. SocketInv' /\ StartedInv'
      BY <2>7 DEF WaitTcpStarted, Notified
    <3>3. StartInv'
      BY <2>7 DEF WaitTcpStarted, Notified
    <3>4. ShutdownInv'
      BY <2>7 DEF WaitTcpStarted, Notified
    <3>5. FailedStartHoldsNothing'
      BY <2>7 DEF WaitTcpStarted, Notified
    <3>6. QED
      BY <3>1, <3>2, <3>3, <3>4, <3>5
  <2>8. CASE StartRolledBack(c)
    <3>1. LockInv' /\ FutureInv'
      BY <2>8, CloseShrinks DEF StartRolledBack, Done
    <3>2. SocketInv' /\ StartedInv'
      BY <2>8, CloseShrinks DEF StartRolledBack, Done
    <3>3. StartInv'
      BY <2>8, CloseShrinks DEF StartRolledBack, Done
    <3>4. ShutdownInv'
      BY <2>8, CloseShrinks DEF StartRolledBack, Done
    <3>5. FailedStartHoldsNothing'
      <4>1. gen \in Gens /\ Close(gen, Nets) /\ UNCHANGED <<gen, obs>>
        BY <2>8 DEF StartRolledBack
      <4>2. bound'[gen] = {}
        BY <4>1, CloseShrinks DEF Nets
      <4>3. \A h \in Gens : h # gen => bound'[h] = bound[h]
        BY <4>1, CloseShrinks
      <4>4. \A d \in Callers : d # c => pc[d] \notin InStart
        BY <2>8 DEF StartRolledBack
      <4>5. QED
        BY <4>1, <4>2, <4>3, <4>4
    <3>6. QED
      BY <3>1, <3>2, <3>3, <3>4, <3>5
  <2>9. QED
    BY <1>1, <2>1, <2>2, <2>3, <2>4, <2>5, <2>6, <2>7, <2>8 DEF StartStep
<1>2. ASSUME NEW c \in Callers, ShutdownStep(c) PROVE IInv'
  <2>1. CASE ShutdownNotStarted(c)
    <3>1. LockInv' /\ FutureInv'
      BY <2>1 DEF ShutdownNotStarted, Calls
    <3>2. SocketInv' /\ StartedInv'
      BY <2>1 DEF ShutdownNotStarted, Calls
    <3>3. StartInv'
      BY <2>1 DEF ShutdownNotStarted, Calls
    <3>4. ShutdownInv'
      BY <2>1 DEF ShutdownNotStarted, Calls
    <3>5. FailedStartHoldsNothing'
      BY <2>1 DEF ShutdownNotStarted, Calls
    <3>6. QED
      BY <3>1, <3>2, <3>3, <3>4, <3>5
  <2>2. CASE ShutdownBegin(c)
    <3>1. LockInv' /\ FutureInv'
      BY <2>2 DEF ShutdownBegin, Calls, AnnounceShutdown
    <3>2. SocketInv' /\ StartedInv'
      BY <2>2 DEF ShutdownBegin, Calls, AnnounceShutdown
    <3>3. StartInv'
      BY <2>2 DEF ShutdownBegin, Calls, AnnounceShutdown
    <3>4. ShutdownInv'
      BY <2>2 DEF ShutdownBegin, Calls, AnnounceShutdown
    <3>5. FailedStartHoldsNothing'
      BY <2>2 DEF ShutdownBegin, Calls, AnnounceShutdown
    <3>6. QED
      BY <3>1, <3>2, <3>3, <3>4, <3>5
  <2>3. ASSUME NEW n \in Nets, StopServing(c, n) PROVE IInv'
    BY <2>3, CloseShrinks, SMTT(30) DEF StopServing, StopAt, DrainAt, Nets
  <2>4. ASSUME NEW n \in Nets, StopBroken(c, n) PROVE IInv'
    BY <2>4 DEF StopBroken, StopAt, AfterDrain, Nets
  <2>5. ASSUME NEW n \in Nets, StopNotStarted(c, n) PROVE IInv'
    BY <2>5 DEF StopNotStarted, StopAt, AfterDrain, Nets
  <2>6. ASSUME NEW n \in Nets, DrainFinished(c, n) PROVE IInv'
    BY <2>6, CloseShrinks DEF DrainFinished, DrainAt, AfterDrain, Nets
  <2>7. ASSUME NEW n \in Nets, DrainExpired(c, n) PROVE IInv'
    <3>1. LockInv' /\ FutureInv'
      BY <2>7, CloseShrinks DEF DrainExpired, DrainAt, AfterDrain, Nets
    <3>2. SocketInv' /\ StartedInv'
      BY <2>7, CloseShrinks DEF DrainExpired, DrainAt, AfterDrain, Nets
    <3>3. StartInv'
      BY <2>7, CloseShrinks DEF DrainExpired, DrainAt, AfterDrain, Nets
    <3>4. ShutdownInv'
      BY <2>7, CloseShrinks DEF DrainExpired, DrainAt, AfterDrain, Nets
    <3>5. FailedStartHoldsNothing'
      BY <2>7, CloseShrinks DEF DrainExpired, DrainAt, AfterDrain, Nets
    <3>6. QED
      BY <3>1, <3>2, <3>3, <3>4, <3>5
  <2>8. CASE ContextExpires(c)
    <3>1. LockInv' /\ FutureInv'
      BY <2>8 DEF ContextExpires
    <3>2. SocketInv' /\ StartedInv'
      BY <2>8 DEF ContextExpires
    <3>3. StartInv'
      BY <2>8 DEF ContextExpires
    <3>4. ShutdownInv'
      BY <2>8 DEF ContextExpires
    <3>5. FailedStartHoldsNothing'
      BY <2>8 DEF ContextExpires
    <3>6. QED
      BY <3>1, <3>2, <3>3, <3>4, <3>5
  <2>9. CASE ShutdownEnd(c)
    <3>1. LockInv' /\ FutureInv'
      BY <2>9 DEF ShutdownEnd
    <3>2. SocketInv' /\ StartedInv'
      BY <2>9 DEF ShutdownEnd
    <3>3. StartInv'
      BY <2>9 DEF ShutdownEnd
    <3>4. ShutdownInv'
      BY <2>9 DEF ShutdownEnd
    <3>5. FailedStartHoldsNothing'
      BY <2>9 DEF ShutdownEnd
    <3>6. QED
      BY <3>1, <3>2, <3>3, <3>4, <3>5
  <2>10. QED
    BY <1>2, <2>1, <2>2, <2>3, <2>4, <2>5, <2>6, <2>7, <2>8, <2>9 DEF ShutdownStep
<1>3. ASSUME NEW g \in Gens, NEW n \in Nets, ListenerStep(g, n) PROVE IInv'
  <2>1. CASE ListenerServes(g, n)
    <3>1. LockInv' /\ FutureInv'
      BY <2>1 DEF ListenerServes
    <3>2. SocketInv' /\ StartedInv'
      BY <2>1 DEF ListenerServes
    <3>3. StartInv'
      BY <2>1 DEF ListenerServes
    <3>4. ShutdownInv'
      BY <2>1 DEF ListenerServes
    <3>5. FailedStartHoldsNothing'
      BY <2>1 DEF ListenerServes
    <3>6. QED
      BY <3>1, <3>2, <3>3, <3>4, <3>5
  <2>2. CASE ListenerRefuses(g, n)
    <3>1. LockInv' /\ FutureInv'
      BY <2>2 DEF ListenerRefuses
    <3>2. SocketInv' /\ StartedInv'
      BY <2>2 DEF ListenerRefuses
    <3>3. StartInv'
      BY <2>2 DEF ListenerRefuses
    <3>4. ShutdownInv'
      BY <2>2 DEF ListenerRefuses
    <3>5. FailedStartHoldsNothing'
      BY <2>2 DEF ListenerRefuses
    <3>6. QED
      BY <3>1, <3>2, <3>3, <3>4, <3>5
  <2>3. CASE ListenerBreaks(g, n)
    <3>1. LockInv' /\ FutureInv'
      BY <2>3, CloseShrinks DEF ListenerBreaks
    <3>2. SocketInv' /\ StartedInv'
      BY <2>3, CloseShrinks DEF ListenerBreaks
    <3>3. StartInv'
      BY <2>3, CloseShrinks DEF ListenerBreaks
    <3>4. ShutdownInv'
      BY <2>3, CloseShrinks DEF ListenerBreaks
    <3>5. FailedStartHoldsNothing'
      <4>1. \A h \in Gens : bound'[h] \subseteq bound[h]
        BY <2>3, CloseShrinks DEF ListenerBreaks
      <4>2. UNCHANGED <<gen, obs, pc>>
        BY <2>3 DEF ListenerBreaks
      <4>3. ASSUME NEW h \in Gens, \A m \in Nets : obs[h][m] = "none",
                   ~(h = gen /\ \E d \in Callers : pc[d] \in InStart)
            PROVE  bound'[h] = {}
        <5>1. bound[h] = {}
          BY <4>3
        <5>2. QED
          BY <4>1, <5>1
      <4>4. QED
        BY <4>2, <4>3
    <3>6. QED
      BY <3>1, <3>2, <3>3, <3>4, <3>5
  <2>4. CASE ListenerDrained(g, n)
    <3>1. LockInv' /\ FutureInv'
      BY <2>4, CloseShrinks DEF ListenerDrained
    <3>2. SocketInv' /\ StartedInv'
      BY <2>4, CloseShrinks DEF ListenerDrained
    <3>3. StartInv'
      BY <2>4, CloseShrinks DEF ListenerDrained
    <3>4. ShutdownInv'
      BY <2>4, CloseShrinks DEF ListenerDrained
    <3>5. FailedStartHoldsNothing'
      <4>1. \A h \in Gens : bound'[h] \subseteq bound[h]
        BY <2>4, CloseShrinks DEF ListenerDrained
      <4>2. UNCHANGED <<gen, obs, pc>>
        BY <2>4 DEF ListenerDrained
      <4>3. ASSUME NEW h \in Gens, \A m \in Nets : obs[h][m] = "none",
                   ~(h = gen /\ \E d \in Callers : pc[d] \in InStart)
            PROVE  bound'[h] = {}
        <5>1. bound[h] = {}
          BY <4>3
        <5>2. QED
          BY <4>1, <5>1
      <4>4. QED
        BY <4>2, <4>3
    <3>6. QED
      BY <3>1, <3>2, <3>3, <3>4, <3>5
  <2>5. QED
    BY <1>3, <2>1, <2>2, <2>3, <2>4 DEF ListenerStep
<1>4. ASSUME NEW g \in Gens, NEW n \in Nets, ObserverStep(g, n) PROVE IInv'
  <2>1. CASE ObserverJudges(g, n)
    <3>0. /\ UNCHANGED <<mu, started, shuttingDown, cur, gen, bound, life, pc, target, failed>>
          /\ \A h \in Gens, m \in Nets : obs'[h][m] = "none" <=> obs[h][m] = "none"
      BY <2>1, TableUpdate DEF ObserverJudges, Verdict
    <3>1. LockInv' /\ FutureInv'
      BY <3>0
    <3>2. SocketInv' /\ StartedInv'
      BY <3>0
    <3>3. StartInv'
      BY <3>0
    <3>4. ShutdownInv'
      BY <3>0
    <3>5. FailedStartHoldsNothing'
      <4>1. \A h \in Gens : (\A m \in Nets : obs'[h][m] = "none")
                               <=> (\A m \in Nets : obs[h][m] = "none")
        BY <3>0
      <4>2. QED
        BY <3>0, <4>1, SMTT(30)
    <3>6. QED
      BY <3>1, <3>2, <3>3, <3>4, <3>5
  <2>2. CASE ObserverClearsReady(g, n)
    <3>1. LockInv' /\ FutureInv'
      BY <2>2 DEF ObserverClearsReady
    <3>2. SocketInv' /\ StartedInv'
      BY <2>2 DEF ObserverClearsReady
    <3>3. StartInv'
      BY <2>2 DEF ObserverClearsReady
    <3>4. ShutdownInv'
      BY <2>2 DEF ObserverClearsReady
    <3>5. FailedStartHoldsNothing'
      BY <2>2 DEF ObserverClearsReady
    <3>6. QED
      BY <3>1, <3>2, <3>3, <3>4, <3>5
  <2>3. QED
    BY <1>4, <2>1, <2>2 DEF ObserverStep
<1>5. CASE UNCHANGED vars
  BY <1>5 DEF vars
<1>6. QED
  BY <1>1, <1>2, <1>3, <1>4, <1>5 DEF Next

(* The initial state satisfies the invariant.                              *)
LEMMA InductiveInit == Init => IInv
<1> SUFFICES ASSUME Init PROVE IInv
  OBVIOUS
<1>1. LockInv /\ StartInv /\ StartedInv /\ ShutdownInv
  BY ConstantsAssumption DEF Init, LockInv, StartInv, StartedInv, ShutdownInv,
     InStart, InShutdown
<1>2. FutureInv /\ SocketInv /\ FailedStartHoldsNothing
  BY DEF Init, FutureInv, SocketInv, FailedStartHoldsNothing
<1>3. QED
  BY <1>1, <1>2, TypeInit DEF IInv

(* The invariant holds in every behaviour.                                 *)
LEMMA Inductive == Spec => []IInv
  BY InductiveInit, IInvStep, PTL DEF Spec

(* Whatever other callers do, a Start that failed holds no socket.         *)
THEOREM FailedStartReleases == Spec => []FailedStartHoldsNothing
<1>1. IInv => FailedStartHoldsNothing
  BY DEF IInv
<1>2. QED
  BY <1>1, Inductive, PTL

(* Whatever other callers do, a Shutdown that returns nil has seen both    *)
(* listeners end and their sockets closed.                                 *)
THEOREM CleanShutdown == Spec => []CleanShutdownDrained
<1>1. IInv => CleanShutdownDrained
  BY DEF IInv, ShutdownInv, SocketInv, CleanShutdownDrained, InShutdown, Nets
<1>2. QED
  BY <1>1, Inductive, PTL

-----------------------------------------------------------------------------
(* THE OWNER.  As long as one goroutine has made calls, more is invariant. *)

(* Before this step of Shutdown the listener has not been asked to stop.   *)
NotYetStopping(n) ==
  IF n = "udp" THEN {"idle", "stop_udp"} ELSE {"idle", "stop_udp", "drain_udp", "stop_tcp"}

(* The flags tell exactly where the owner is.                              *)
OwnerInv(c) ==
  /\ shuttingDown <=> pc[c] \in InShutdown
  /\ pc[c] \in InShutdown => started /\ target[c] = cur

(* Listeners of a started server serve, or broke, until the owner asks     *)
(* them to stop.                                                           *)
ServingInv(c) ==
  \A n \in Nets :
    started /\ pc[c] \in NotYetStopping(n) => life[cur][n] \in {"serving", "broken"}

(* The only sockets held are those of the generation being started, or of  *)
(* the current one of a started server until it has been stopped.          *)
OwnedSocketsInv(c) ==
  \A g \in Gens :
    /\ bound[g] # {} => \/ g = gen /\ pc[c] \in InStart
                        \/ g = cur /\ started
    /\ started /\ pc[c] \in {"stop_tcp", "drain_tcp", "finish"} => "udp" \notin bound[cur]
    /\ started /\ pc[c] \in {"finish"} => "tcp" \notin bound[cur]

(* The observer of a listener that has not ended is still waiting for it.  *)
ObserverInv ==
  \A g \in Gens, n \in Nets :
    life[g][n] \notin Ended /\ obs[g][n] # "none" => obs[g][n] = "waiting"

OwnedBy(c) == OwnerInv(c) /\ ServingInv(c) /\ OwnedSocketsInv(c) /\ ObserverInv /\ Watched

OwnedInv == IInv /\ \A c \in Callers : Sole(c) => OwnedBy(c)

(* A caller that takes a step has made a call from then on.                *)
LEMMA CallerIsSeen ==
  ASSUME TypeOK, NEW d \in Callers, StartStep(d) \/ ShutdownStep(d)
  PROVE  pc'[d] # "idle" \/ last'[d] # "none"
<1> USE DEF TypeOK, Return, Goto
<1>1. CASE StartStep(d)
  BY <1>1 DEF StartStep, StartRejected, StartUdpRefused, StartUdpBound, StartTcpRefused,
              StartTcpBound, WaitUdpStarted, WaitTcpStarted, StartRolledBack
<1>2. CASE ShutdownStep(d)
  <2>1. CASE ShutdownNotStarted(d) \/ ShutdownBegin(d) \/ ShutdownEnd(d)
    BY <2>1 DEF ShutdownNotStarted, ShutdownBegin, ShutdownEnd
  <2>2. CASE ContextExpires(d)
    BY <2>2 DEF ContextExpires, InShutdown
  <2>3. ASSUME NEW n \in Nets,
               StopServing(d, n) \/ StopBroken(d, n) \/ StopNotStarted(d, n)
               \/ DrainFinished(d, n) \/ DrainExpired(d, n)
        PROVE  pc'[d] # "idle"
    BY <2>3 DEF StopServing, StopBroken, StopNotStarted, DrainFinished, DrainExpired, AfterDrain, DrainAt
  <2>4. QED
    BY <1>2, <2>1, <2>2, <2>3 DEF ShutdownStep
<1>3. QED
  BY <1>1, <1>2

(* A step changes where one caller is.                                     *)
LEMMA OthersStay ==
  ASSUME TypeOK, NEW d \in Callers, StartStep(d) \/ ShutdownStep(d), NEW e \in Callers, e # d
  PROVE  pc'[e] = pc[e] /\ last'[e] = last[e]
<1> USE DEF TypeOK, Return, Goto
<1>1. CASE StartStep(d)
  BY <1>1 DEF StartStep, StartRejected, StartUdpRefused, StartUdpBound, StartTcpRefused,
              StartTcpBound, WaitUdpStarted, WaitTcpStarted, StartRolledBack
<1>2. CASE ShutdownStep(d)
  <2>1. CASE ShutdownNotStarted(d) \/ ShutdownBegin(d) \/ ShutdownEnd(d)
    BY <2>1 DEF ShutdownNotStarted, ShutdownBegin, ShutdownEnd
  <2>2. CASE ContextExpires(d)
    BY <2>2 DEF ContextExpires
  <2>3. ASSUME NEW n \in Nets,
               StopServing(d, n) \/ StopBroken(d, n) \/ StopNotStarted(d, n)
               \/ DrainFinished(d, n) \/ DrainExpired(d, n)
        PROVE  pc'[e] = pc[e] /\ last'[e] = last[e]
    BY <2>3 DEF StopServing, StopBroken, StopNotStarted, DrainFinished, DrainExpired
  <2>4. QED
    BY <1>2, <2>1, <2>2, <2>3 DEF ShutdownStep
<1>3. QED
  BY <1>1, <1>2

(* Who is the only caller was so before, and took the step if one did.     *)
LEMMA SoleBefore ==
  ASSUME TypeOK, NEW c \in Callers, Sole(c)', [Next]_vars
  PROVE  /\ Sole(c)
         /\ \A d \in Callers : StartStep(d) \/ ShutdownStep(d) => d = c
<1>1. ASSUME NEW d \in Callers, StartStep(d) \/ ShutdownStep(d) PROVE d = c
  BY <1>1, CallerIsSeen DEF Sole
<1>2. CASE \E d \in Callers : StartStep(d) \/ ShutdownStep(d)
  BY <1>1, <1>2, OthersStay DEF Sole
<1>3. CASE ~\E d \in Callers : StartStep(d) \/ ShutdownStep(d)
  <2>1. pc' = pc /\ last' = last
    BY <1>3 DEF Next, vars, ListenerStep, ListenerServes, ListenerRefuses, ListenerBreaks,
                ListenerDrained, ObserverStep, ObserverJudges, ObserverClearsReady
  <2>2. QED
    BY <1>3, <2>1 DEF Sole
<1>4. QED
  BY <1>1, <1>2, <1>3

(* The owner preserves the stronger invariant.                             *)
LEMMA OwnedStep ==
  ASSUME IInv, IInv', [Next]_vars, NEW c \in Callers, Sole(c)', Sole(c) => OwnedBy(c)
  PROVE  OwnedBy(c)'
<1> USE ConstantsAssumption, GensFact
<1>a. IInv /\ IInv'
  OBVIOUS
<1>b. /\ Sole(c) /\ OwnedBy(c) /\ \A d \in Callers : d # c => pc[d] = "idle" /\ pc'[d] = "idle"
      /\ \A d \in Callers : StartStep(d) \/ ShutdownStep(d) => d = c
  BY SoleBefore DEF IInv, Sole
<1> DEFINE Goal == OwnerInv(c)' /\ ServingInv(c)' /\ OwnedSocketsInv(c)' /\ ObserverInv'
                    /\ Watched'
<1>c. SUFFICES Goal
  BY DEF OwnedBy
<1> USE <1>a, <1>b DEF TypeOK, IInv, LockInv, FutureInv, SocketInv, StartInv, StartedInv,
      ShutdownInv, OwnedBy, OwnerInv, ServingInv, OwnedSocketsInv, ObserverInv, Watched,
      Ended,
      NotYetStopping, InStart, InShutdown, Return, Goto
<1>1. CASE StartStep(c)
  <2>1. CASE StartRejected(c)
    BY <2>1 DEF StartRejected, Calls
  <2>2. CASE StartUdpRefused(c)
    BY <2>2 DEF StartUdpRefused, Calls
  <2>3. CASE StartUdpBound(c)
    BY <2>3 DEF StartUdpBound, Calls
  <2>4. CASE StartTcpRefused(c)
    <3>1. gen \in Gens /\ bound'[gen] = {} /\ \A g \in Gens : g # gen => bound'[g] = bound[g]
      BY <2>4, CloseShrinks DEF StartTcpRefused
    <3>2. OwnerInv(c)' /\ ServingInv(c)'
      BY <2>4 DEF StartTcpRefused
    <3>3. OwnedSocketsInv(c)'
      <4>1. ~started /\ ~started'
        BY <2>4 DEF StartTcpRefused
      <4>2. \A g \in Gens : g # gen => bound[g] = {}
        BY <4>1 DEF OwnedSocketsInv
      <4>3. \A g \in Gens : bound'[g] = {}
        BY <3>1, <4>2
      <4>4. QED
        BY <4>1, <4>3 DEF OwnedSocketsInv
    <3>4. ObserverInv' /\ Watched'
      BY <2>4 DEF StartTcpRefused
    <3>5. QED
      BY <3>2, <3>3, <3>4
  <2>5. CASE StartTcpBound(c)
    BY <2>5 DEF StartTcpBound
  <2>6. CASE WaitUdpStarted(c)
    BY <2>6 DEF WaitUdpStarted, Notified
  <2>7. CASE WaitTcpStarted(c)
    <3>1. /\ cur \in Gens /\ cur = gen /\ cur' = cur
          /\ \A n \in Nets : life[cur][n] \in {"serving", "broken"}
          /\ \A n \in Nets : obs'[cur][n] = "waiting"
          /\ \A g \in Gens : g # cur => obs'[g] = obs[g]
      BY <2>7 DEF WaitTcpStarted, Notified, Nets
    <3>2. OwnerInv(c)' /\ ServingInv(c)' /\ Watched'
      BY <2>7, <3>1 DEF WaitTcpStarted
    <3>3. OwnedSocketsInv(c)' /\ ObserverInv'
      BY <2>7, <3>1 DEF WaitTcpStarted
    <3>4. QED
      BY <3>2, <3>3
  <2>8. CASE StartRolledBack(c)
    <3>1. gen \in Gens /\ bound'[gen] = {} /\ \A g \in Gens : g # gen => bound'[g] = bound[g]
      BY <2>8, CloseShrinks DEF StartRolledBack
    <3>2. OwnerInv(c)' /\ ServingInv(c)'
      BY <2>8 DEF StartRolledBack
    <3>3. OwnedSocketsInv(c)'
      <4>1. ~started /\ ~started'
        BY <2>8 DEF StartRolledBack
      <4>2. \A g \in Gens : g # gen => bound[g] = {}
        BY <4>1 DEF OwnedSocketsInv
      <4>3. \A g \in Gens : bound'[g] = {}
        BY <3>1, <4>2
      <4>4. QED
        BY <4>1, <4>3 DEF OwnedSocketsInv
    <3>4. ObserverInv' /\ Watched'
      BY <2>8 DEF StartRolledBack
    <3>5. QED
      BY <3>2, <3>3, <3>4
  <2>9. QED
    BY <1>1, <2>1, <2>2, <2>3, <2>4, <2>5, <2>6, <2>7, <2>8 DEF StartStep
<1>2. CASE ShutdownStep(c)
  <2>1. CASE ShutdownNotStarted(c)
    BY <2>1 DEF ShutdownNotStarted, Calls
  <2>2. CASE ShutdownBegin(c)
    BY <2>2 DEF ShutdownBegin, Calls, AnnounceShutdown
  <2>3. ASSUME NEW n \in Nets, StopServing(c, n) PROVE Goal
    BY <2>3, CloseShrinks DEF StopServing, StopAt, DrainAt, Nets
  <2>4. ASSUME NEW n \in Nets, StopBroken(c, n) PROVE Goal
    BY <2>4 DEF StopBroken, StopAt, AfterDrain, Nets
  <2>5. ASSUME NEW n \in Nets, StopNotStarted(c, n) PROVE Goal
    BY <2>5 DEF StopNotStarted, StopAt, AfterDrain, Nets
  <2>6. ASSUME NEW n \in Nets, DrainFinished(c, n) PROVE Goal
    BY <2>6, CloseShrinks DEF DrainFinished, DrainAt, AfterDrain, Nets
  <2>7. ASSUME NEW n \in Nets, DrainExpired(c, n) PROVE Goal
    BY <2>7, CloseShrinks DEF DrainExpired, DrainAt, AfterDrain, Nets
  <2>8. CASE ContextExpires(c)
    BY <2>8 DEF ContextExpires
  <2>9. CASE ShutdownEnd(c)
    <3>1. OwnerInv(c)' /\ ServingInv(c)'
      BY <2>9 DEF ShutdownEnd, Nets
    <3>2. OwnedSocketsInv(c)'
      BY <2>9 DEF ShutdownEnd, Nets
    <3>3. ObserverInv' /\ Watched'
      BY <2>9 DEF ShutdownEnd, Nets
    <3>4. QED
      BY <3>1, <3>2, <3>3
  <2>10. QED
    BY <1>2, <2>1, <2>2, <2>3, <2>4, <2>5, <2>6, <2>7, <2>8, <2>9 DEF ShutdownStep
<1>3. ASSUME NEW g \in Gens, NEW n \in Nets, ListenerStep(g, n) PROVE Goal
  <2>1. CASE ListenerServes(g, n)
    BY <2>1 DEF ListenerServes
  <2>2. CASE ListenerRefuses(g, n)
    BY <2>2 DEF ListenerRefuses
  <2>3. CASE ListenerBreaks(g, n)
    <3>1. OwnerInv(c)' /\ ServingInv(c)'
      BY <2>3, CloseShrinks DEF ListenerBreaks
    <3>2. OwnedSocketsInv(c)'
      BY <2>3, CloseShrinks DEF ListenerBreaks
    <3>3. ObserverInv'
      BY <2>3 DEF ListenerBreaks
    <3>4. Watched'
      <4>1. /\ life' = [life EXCEPT ![g][n] = "broken"]
            /\ UNCHANGED <<ready, started, shuttingDown, cur, obs>>
        BY <2>3 DEF ListenerBreaks
      <4>2. SUFFICES ASSUME ready, NEW m \in Nets
                     PROVE  \/ life'[cur][m] = "serving"
                            \/ /\ life'[cur][m] = "broken"
                               /\ obs[cur][m] \in {"waiting", "judged"}
        BY <4>1
      <4>3. cur \in Gens
        BY <4>2
      <4>4. CASE g = cur /\ n = m
        BY <2>3, <4>1, <4>2, <4>3, <4>4 DEF ListenerBreaks
      <4>5. CASE ~(g = cur /\ n = m)
        BY <4>1, <4>2, <4>3, <4>5
      <4>6. QED
        BY <4>4, <4>5
    <3>5. QED
      BY <3>1, <3>2, <3>3, <3>4
  <2>4. CASE ListenerDrained(g, n)
    BY <2>4, CloseShrinks DEF ListenerDrained
  <2>5. QED
    BY <1>3, <2>1, <2>2, <2>3, <2>4 DEF ListenerStep
<1>4. ASSUME NEW g \in Gens, NEW n \in Nets, ObserverStep(g, n) PROVE Goal
  <2>1. CASE ObserverJudges(g, n)
    BY <2>1 DEF ObserverJudges, Verdict
  <2>2. CASE ObserverClearsReady(g, n)
    BY <2>2 DEF ObserverClearsReady
  <2>3. QED
    BY <1>4, <2>1, <2>2 DEF ObserverStep
<1>5. CASE UNCHANGED vars
  BY <1>5 DEF vars
<1>6. QED
  BY <1>1, <1>2, <1>3, <1>4, <1>5 DEF Next

(* The stronger invariant holds in every behaviour.                        *)
LEMMA Owned == Spec => []OwnedInv
<1>1. Init => OwnedInv
  <2> SUFFICES ASSUME Init, NEW c \in Callers PROVE OwnedBy(c)
    BY InductiveInit DEF OwnedInv
  <2>1. OwnerInv(c) /\ ServingInv(c) /\ Watched
    BY DEF Init, OwnerInv, ServingInv, Watched, InShutdown
  <2>2. OwnedSocketsInv(c) /\ ObserverInv
    BY DEF Init, OwnedSocketsInv, ObserverInv
  <2>3. QED
    BY <2>1, <2>2 DEF OwnedBy
<1>2. OwnedInv /\ [Next]_vars => OwnedInv'
  <2> SUFFICES ASSUME OwnedInv, [Next]_vars PROVE OwnedInv'
    OBVIOUS
  <2>1. IInv /\ IInv'
    BY IInvStep DEF OwnedInv
  <2>2. ASSUME NEW c \in Callers, Sole(c)' PROVE OwnedBy(c)'
    BY <2>1, <2>2, OwnedStep DEF OwnedInv
  <2>3. QED
    BY <2>1, <2>2 DEF OwnedInv
<1>3. QED
  BY <1>1, <1>2, PTL DEF Spec

(* As long as one goroutine owns the server, it never answers ready with a *)
(* dead listener that nobody is about to report.                           *)
THEOREM ReadyWatched == Spec => []ReadyIsWatched
<1>1. OwnedInv => ReadyIsWatched
  BY DEF OwnedInv, OwnedBy, OneOwner, ReadyIsWatched
<1>2. QED
  BY <1>1, Owned, PTL

(* As long as one goroutine owns the server, it leaves no socket behind:   *)
(* not after a failed Start, not after a Shutdown whose context expired.   *)
THEOREM SocketsReleased == Spec => []NoLeakedSocket
<1>1. OwnedInv => NoLeakedSocket
  <2> SUFFICES ASSUME OwnedInv, OneOwner, AllIdle, ~started, NEW g \in Gens
               PROVE  bound[g] = {}
    BY DEF NoLeakedSocket
  <2>1. PICK c \in Callers : OwnedBy(c)
    BY DEF OwnedInv, OneOwner
  <2>2. QED
    BY <2>1 DEF OwnedBy, OwnedSocketsInv, AllIdle, InStart
<1>2. QED
  BY <1>1, Owned, PTL

-----------------------------------------------------------------------------
(* As long as one goroutine owns the server, a step is one of DnsLifecycle *)
(* or leaves phase and readiness unchanged.                                *)
LEMMA LifecycleStep ==
  ASSUME OwnedInv, [Next]_vars, OneOwner'
  PROVE  [Lifecycle!Next]_<<Phase, ready>>
<1> USE DEF Phase, Lifecycle!Next, Lifecycle!StartSucceeds, Lifecycle!LosesReady,
            Lifecycle!ShutdownBegins, Lifecycle!ShutdownEnds
<1>1. PICK c \in Callers : Sole(c)'
  BY DEF OneOwner
<1>2. OwnedBy(c) /\ \A d \in Callers : StartStep(d) \/ ShutdownStep(d) => d = c
  BY <1>1, SoleBefore DEF OwnedInv, IInv
<1>3. /\ started \in BOOLEAN /\ shuttingDown \in BOOLEAN /\ ready \in BOOLEAN
      /\ ready => started /\ ~shuttingDown
      /\ pc[c] \in InStart => ~started /\ ~shuttingDown
      /\ pc[c] \in InShutdown <=> shuttingDown
  BY <1>2, ConstantsAssumption DEF OwnedInv, OwnedBy, OwnerInv, Watched, IInv, LockInv, TypeOK
<1> USE <1>3 DEF InStart, InShutdown
<1>4. CASE StartStep(c)
  <2>1. CASE WaitTcpStarted(c)
    BY <2>1 DEF WaitTcpStarted
  <2>2. CASE StartRolledBack(c)
    BY <2>2 DEF StartRolledBack
  <2>3. CASE StartRejected(c) \/ StartUdpRefused(c) \/ StartUdpBound(c)
    BY <2>3 DEF StartRejected, StartUdpRefused, StartUdpBound, Calls
  <2>4. CASE StartTcpRefused(c) \/ StartTcpBound(c) \/ WaitUdpStarted(c)
    BY <2>4 DEF StartTcpRefused, StartTcpBound, WaitUdpStarted
  <2>5. QED
    BY <1>4, <2>1, <2>2, <2>3, <2>4 DEF StartStep
<1>5. CASE ShutdownStep(c)
  <2>1. CASE ShutdownNotStarted(c)
    BY <2>1 DEF ShutdownNotStarted, Calls
  <2>2. CASE ShutdownBegin(c)
    BY <2>2 DEF ShutdownBegin, Calls, AnnounceShutdown
  <2>3. CASE ShutdownEnd(c)
    BY <2>3 DEF ShutdownEnd
  <2>4. ASSUME NEW n \in Nets, StopServing(c, n) \/ StopBroken(c, n) \/ StopNotStarted(c, n)
        PROVE  [Lifecycle!Next]_<<Phase, ready>>
    BY <2>4 DEF StopServing, StopBroken, StopNotStarted
  <2>5. ASSUME NEW n \in Nets, DrainFinished(c, n) \/ DrainExpired(c, n)
        PROVE  [Lifecycle!Next]_<<Phase, ready>>
    BY <2>5 DEF DrainFinished, DrainExpired
  <2>6. CASE ContextExpires(c)
    BY <2>6 DEF ContextExpires
  <2>7. QED
    BY <1>5, <2>1, <2>2, <2>3, <2>4, <2>5, <2>6 DEF ShutdownStep
<1>6. ASSUME NEW g \in Gens, NEW n \in Nets, ListenerStep(g, n)
      PROVE  [Lifecycle!Next]_<<Phase, ready>>
  BY <1>6 DEF ListenerStep, ListenerServes, ListenerRefuses, ListenerBreaks, ListenerDrained
<1>7. ASSUME NEW g \in Gens, NEW n \in Nets, ObserverStep(g, n)
      PROVE  [Lifecycle!Next]_<<Phase, ready>>
  <2>1. CASE ObserverJudges(g, n)
    BY <2>1 DEF ObserverJudges
  <2>2. CASE ObserverClearsReady(g, n)
    BY <2>2 DEF ObserverClearsReady
  <2>3. QED
    BY <1>7, <2>1, <2>2 DEF ObserverStep
<1>8. CASE UNCHANGED vars
  BY <1>8 DEF vars
<1>9. QED
  BY <1>2, <1>4, <1>5, <1>6, <1>7, <1>8 DEF Next

(* As long as one goroutine owns the server it keeps the promise of        *)
(* DnsLifecycle.                                                           *)
THEOREM Implements == Spec => ImplementsLifecycle
<1>1. Init => Lifecycle!Init
  BY DEF Init, Lifecycle!Init, Phase
<1>2. OwnedInv /\ [Next]_vars => [OneOwner' => Lifecycle!Next]_<<Phase, ready>>
  BY LifecycleStep
<1>3. QED
  BY <1>1, <1>2, Owned, PTL DEF Spec, ImplementsLifecycle

(* A server with a single caller, as in app.Run, implements DnsLifecycle.  *)
THEOREM OwnedImplements ==
  ASSUME NEW owner \in Callers, Callers = {owner} PROVE Spec => Lifecycle!Spec
<1>1. OneOwner'
  BY DEF OneOwner, Sole
<1>2. Init => Lifecycle!Init
  BY DEF Init, Lifecycle!Init, Phase
<1>3. OwnedInv /\ [Next]_vars => [Lifecycle!Next]_<<Phase, ready>>
  BY <1>1, LifecycleStep
<1>4. QED
  BY <1>2, <1>3, Owned, PTL DEF Spec, Lifecycle!Spec
=============================================================================
