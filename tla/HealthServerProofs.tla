-------------------------- MODULE HealthServerProofs --------------------------
(***************************************************************************)
(* Theorems about the health server, for any number of callers, starts and *)
(* requests: what Ready promises, and that an old server never takes a     *)
(* newer one away.                                                         *)
(***************************************************************************)
EXTENDS HealthServer, TLAPS

(* A generation that has not been created has never been served or closed. *)
Untouched == \A g \in Gens : g > gen => ~closing[g] /\ serve[g] = "none"

(* A Shutdown in progress works on a generation that is not ready any more *)
(* and, past its first step, is closing.                                   *)
Shutdowns ==
  \A c \in Callers : pc[c] # "idle" =>
    /\ target[c] \in 1..gen
    /\ cur = target[c] => ~ready
    /\ pc[c] # "close" => closing[target[c]]

(* The inductive invariant.                                                *)
IInv == TypeOK /\ cur <= gen /\ Untouched /\ Shutdowns /\ ReadyIsAccepting

USE ConstantsAssumption DEF ConstantsAssumption

-----------------------------------------------------------------------------
LEMMA InitIInv == Init => IInv
<1> SUFFICES ASSUME Init PROVE IInv
  OBVIOUS
<1>1. TypeOK
  <2>1. cur \in 0..MaxStarts /\ gen \in 0..MaxStarts
    BY DEF Init
  <2>2. ready \in BOOLEAN
    BY DEF Init
  <2>3. /\ bound \in [Gens -> BOOLEAN]
        /\ closing \in [Gens -> BOOLEAN]
    BY DEF Init
  <2>4. /\ expired \in [Callers -> BOOLEAN]
        /\ failed \in [Callers -> BOOLEAN]
    BY DEF Init
  <2>5. serve \in [Gens -> ServeStates]
    BY DEF Init, ServeStates
  <2>6. active \in [Gens -> 0..MaxActive]
    BY DEF Init
  <2>7. /\ pc \in [Callers -> Steps]
        /\ \A c \in Callers : pc[c] # "idle" => target[c] # 0
    BY DEF Init, Steps
  <2>8. target \in [Callers -> 0..MaxStarts]
    BY DEF Init
  <2>9. last \in [Callers -> Outcomes]
    BY DEF Init, Outcomes
  <2>10. QED
    BY <2>1, <2>2, <2>3, <2>4, <2>5, <2>6, <2>7, <2>8, <2>9 DEF TypeOK
<1>2. cur <= gen /\ Shutdowns /\ ReadyIsAccepting
  BY DEF Init, Shutdowns, ReadyIsAccepting
<1>3. Untouched
  BY DEF Init, Untouched
<1>4. QED
  BY <1>1, <1>2, <1>3 DEF IInv

(* A case of each proof below is an action, in the order of the module.    *)
LEMMA StepCases ==
  ASSUME NEW P,
         \A c \in Callers : StartRejected(c) \/ StartRefused(c) => P,
         \A c \in Callers : StartBound(c) => P,
         \A c \in Callers : ShutdownStopped(c) \/ ShutdownBegin(c) => P,
         \A c \in Callers : CloseListener(c) => P,
         \A c \in Callers : ListenersClosed(c) \/ DrainFinished(c) \/ DrainExpired(c) => P,
         \A c \in Callers : ShutdownEnd(c) \/ ContextExpires(c) => P,
         \A g \in Gens : ServeStarts(g) => P,
         \A g \in Gens : ServeReturns(g) => P,
         \A g \in Gens : ServeClears(g) => P,
         \A g \in Gens : RequestBegins(g) \/ RequestEnds(g) => P,
         UNCHANGED vars => P,
         [Next]_vars
  PROVE  P
BY Zenon DEF Next, CallStep, ShutdownProgress, ServeStep

LEMMA TypeStep == TypeOK /\ [Next]_vars => TypeOK'
<1> SUFFICES ASSUME TypeOK, [Next]_vars PROVE TypeOK'
  OBVIOUS
<1> USE DEF TypeOK
<1>1. ASSUME NEW c \in Callers, StartRejected(c) \/ StartRefused(c) PROVE TypeOK'
  <2>1. UNCHANGED <<ready, cur, gen, bound, closing, serve, active, target, expired, failed>>
    BY <1>1 DEF StartRejected, StartRefused
  <2>2. pc[c] = "idle" /\ \E outcome \in Outcomes : Return(c, outcome)
    BY <1>1 DEF StartRejected, StartRefused, Outcomes
  <2>3. QED
    BY <2>1, <2>2 DEF Return, Goto, Steps
<1>2. ASSUME NEW c \in Callers, StartBound(c) PROVE TypeOK'
  BY <1>2 DEF StartBound, Return, Goto, Steps, Outcomes, Gens, ServeStates, Running
<1>3. ASSUME NEW c \in Callers, ShutdownStopped(c) \/ ShutdownBegin(c) PROVE TypeOK'
  <2>1. CASE ShutdownStopped(c)
    BY <2>1 DEF ShutdownStopped, Return, Goto, Steps, Outcomes
  <2>2. CASE ShutdownBegin(c)
    <3>1. /\ pc' \in [Callers -> Steps]
          /\ target' \in [Callers -> 0..MaxStarts]
          /\ expired' \in [Callers -> BOOLEAN] /\ failed' \in [Callers -> BOOLEAN]
      BY <2>2 DEF ShutdownBegin, Goto, Steps
    <3>2. \A d \in Callers : pc'[d] # "idle" => target'[d] # 0
      BY <2>2 DEF ShutdownBegin, Stopped, Goto
    <3>3. QED
      BY <2>2, <3>1, <3>2 DEF ShutdownBegin
  <2>3. QED
    BY <1>3, <2>1, <2>2
<1>4. ASSUME NEW c \in Callers, CloseListener(c) PROVE TypeOK'
  BY <1>4 DEF CloseListener, Goto, Steps, Gens
<1>5. ASSUME NEW c \in Callers, ListenersClosed(c) \/ DrainFinished(c) \/ DrainExpired(c)
      PROVE  TypeOK'
  BY <1>5 DEF ListenersClosed, DrainFinished, DrainExpired, Goto, Steps
<1>6. ASSUME NEW c \in Callers, ShutdownEnd(c) \/ ContextExpires(c) PROVE TypeOK'
  <2>1. CASE ShutdownEnd(c)
    BY <2>1 DEF ShutdownEnd, StillCurrent, Return, Goto, Steps, Outcomes
  <2>2. CASE ContextExpires(c)
    BY <2>2 DEF ContextExpires
  <2>3. QED
    BY <1>6, <2>1, <2>2
<1>7. ASSUME NEW g \in Gens, ServeStarts(g) PROVE TypeOK'
  <2>1. /\ serve' \in [Gens -> ServeStates]
        /\ bound' \in [Gens -> BOOLEAN]
    BY <1>7 DEF ServeStarts, ServeStates
  <2>2. QED
    BY <1>7, <2>1 DEF ServeStarts
<1>8. ASSUME NEW g \in Gens, ServeReturns(g) PROVE TypeOK'
  BY <1>8 DEF ServeReturns, ServeStates
<1>9. ASSUME NEW g \in Gens, ServeClears(g) PROVE TypeOK'
  <2>1. CASE cur = g
    <3>1. cur' = 0 /\ ready' = FALSE
      BY <1>9, <2>1 DEF ServeClears, ReadyAfterServe, StillCurrent
    <3>2. ready' \in BOOLEAN
      BY <3>1
    <3>3. cur' \in 0..MaxStarts
      BY <3>1
    <3>4. serve' \in [Gens -> ServeStates]
      BY <1>9 DEF ServeClears, ServeStates
    <3>5. QED
      BY <1>9, <3>2, <3>3, <3>4 DEF ServeClears
  <2>2. CASE cur # g
    BY <1>9, <2>2 DEF ServeClears, StillCurrent, ServeStates
  <2>3. QED
    BY <2>1, <2>2
<1>10. ASSUME NEW g \in Gens, RequestBegins(g) \/ RequestEnds(g) PROVE TypeOK'
  BY <1>10 DEF RequestBegins, RequestEnds
<1>11. CASE UNCHANGED vars
  BY <1>11 DEF vars
<1>12. QED
  BY <1>1, <1>2, <1>3, <1>4, <1>5, <1>6, <1>7, <1>8, <1>9, <1>10, <1>11, StepCases

(* Nothing happens to a generation before its Start.                       *)
LEMMA UntouchedStep ==
  TypeOK /\ cur <= gen /\ Untouched /\ Shutdowns /\ [Next]_vars => (cur <= gen /\ Untouched)'
<1> DEFINE Goal == (cur <= gen /\ Untouched)'
<1> SUFFICES ASSUME TypeOK, cur <= gen, Untouched, Shutdowns, [Next]_vars PROVE Goal
  OBVIOUS
<1> USE DEF TypeOK, Gens, Untouched
<1>1. ASSUME NEW c \in Callers, StartRejected(c) \/ StartRefused(c) PROVE Goal
  BY <1>1 DEF StartRejected, StartRefused
<1>2. ASSUME NEW c \in Callers, StartBound(c) PROVE Goal
  BY <1>2 DEF StartBound
<1>3. ASSUME NEW c \in Callers, ShutdownStopped(c) \/ ShutdownBegin(c) PROVE Goal
  BY <1>3 DEF ShutdownStopped, ShutdownBegin
<1>4. ASSUME NEW c \in Callers, CloseListener(c) PROVE Goal
  BY <1>4 DEF CloseListener, Shutdowns
<1>5. ASSUME NEW c \in Callers, ListenersClosed(c) \/ DrainFinished(c) \/ DrainExpired(c)
      PROVE  Goal
  BY <1>5 DEF ListenersClosed, DrainFinished, DrainExpired
<1>6. ASSUME NEW c \in Callers, ShutdownEnd(c) \/ ContextExpires(c) PROVE Goal
  BY <1>6 DEF ShutdownEnd, StillCurrent, ContextExpires
<1>7. ASSUME NEW g \in Gens, ServeStarts(g) PROVE Goal
  BY <1>7 DEF ServeStarts
<1>8. ASSUME NEW g \in Gens, ServeReturns(g) PROVE Goal
  BY <1>8 DEF ServeReturns
<1>9. ASSUME NEW g \in Gens, ServeClears(g) PROVE Goal
  BY <1>9 DEF ServeClears, StillCurrent
<1>10. ASSUME NEW g \in Gens, RequestBegins(g) \/ RequestEnds(g) PROVE Goal
  BY <1>10 DEF RequestBegins, RequestEnds
<1>11. CASE UNCHANGED vars
  BY <1>11 DEF vars
<1> HIDE DEF Goal
<1>12. QED
  BY <1>1, <1>2, <1>3, <1>4, <1>5, <1>6, <1>7, <1>8, <1>9, <1>10, <1>11, StepCases

(* A Shutdown stays on a generation that is not ready: only a Start makes  *)
(* the server ready, and it makes a new generation current.                *)
LEMMA ShutdownsStep ==
  TypeOK /\ cur <= gen /\ Shutdowns /\ [Next]_vars => Shutdowns'
<1> SUFFICES ASSUME TypeOK, cur <= gen, Shutdowns, [Next]_vars PROVE Shutdowns'
  OBVIOUS
<1> USE DEF TypeOK, Gens, Steps, Shutdowns, Goto, Return
<1>1. ASSUME NEW c \in Callers, StartRejected(c) \/ StartRefused(c) PROVE Shutdowns'
  BY <1>1 DEF StartRejected, StartRefused
<1>2. ASSUME NEW c \in Callers, StartBound(c) PROVE Shutdowns'
  BY <1>2 DEF StartBound
<1>3. ASSUME NEW c \in Callers, ShutdownStopped(c) \/ ShutdownBegin(c) PROVE Shutdowns'
  BY <1>3 DEF ShutdownStopped, ShutdownBegin, Stopped
<1>4. ASSUME NEW c \in Callers, CloseListener(c) PROVE Shutdowns'
  BY <1>4 DEF CloseListener
<1>5. ASSUME NEW c \in Callers, ListenersClosed(c) \/ DrainFinished(c) \/ DrainExpired(c)
      PROVE  Shutdowns'
  BY <1>5 DEF ListenersClosed, DrainFinished, DrainExpired
<1>6. ASSUME NEW c \in Callers, ShutdownEnd(c) \/ ContextExpires(c) PROVE Shutdowns'
  BY <1>6 DEF ShutdownEnd, StillCurrent, ContextExpires
<1>7. ASSUME NEW g \in Gens, ServeStarts(g) PROVE Shutdowns'
  BY <1>7 DEF ServeStarts
<1>8. ASSUME NEW g \in Gens, ServeReturns(g) PROVE Shutdowns'
  BY <1>8 DEF ServeReturns
<1>9. ASSUME NEW g \in Gens, ServeClears(g) PROVE Shutdowns'
  BY <1>9 DEF ServeClears, ReadyAfterServe, StillCurrent
<1>10. ASSUME NEW g \in Gens, RequestBegins(g) \/ RequestEnds(g) PROVE Shutdowns'
  BY <1>10 DEF RequestBegins, RequestEnds
<1>11. CASE UNCHANGED vars
  BY <1>11 DEF vars
<1>12. QED
  BY <1>1, <1>2, <1>3, <1>4, <1>5, <1>6, <1>7, <1>8, <1>9, <1>10, <1>11, StepCases

(* A ready server keeps its socket: the only steps that close it belong to *)
(* its Shutdown, which is not ready, or to its Serve.                      *)
LEMMA ReadyStep == IInv /\ [Next]_vars => ReadyIsAccepting'
<1> SUFFICES ASSUME IInv, [Next]_vars PROVE ReadyIsAccepting'
  OBVIOUS
<1> USE DEF IInv, TypeOK, Gens, ReadyIsAccepting
<1>1. ASSUME NEW c \in Callers, StartRejected(c) \/ StartRefused(c) PROVE ReadyIsAccepting'
  BY <1>1 DEF StartRejected, StartRefused
<1>2. ASSUME NEW c \in Callers, StartBound(c) PROVE ReadyIsAccepting'
  BY <1>2 DEF StartBound, Untouched
<1>3. ASSUME NEW c \in Callers, ShutdownStopped(c) \/ ShutdownBegin(c)
      PROVE  ReadyIsAccepting'
  BY <1>3 DEF ShutdownStopped, ShutdownBegin
<1>4. ASSUME NEW c \in Callers, CloseListener(c) PROVE ReadyIsAccepting'
  BY <1>4 DEF CloseListener, Shutdowns
<1>5. ASSUME NEW c \in Callers, ListenersClosed(c) \/ DrainFinished(c) \/ DrainExpired(c)
      PROVE  ReadyIsAccepting'
  BY <1>5 DEF ListenersClosed, DrainFinished, DrainExpired
<1>6. ASSUME NEW c \in Callers, ShutdownEnd(c) \/ ContextExpires(c)
      PROVE  ReadyIsAccepting'
  BY <1>6 DEF ShutdownEnd, StillCurrent, ContextExpires, Shutdowns
<1>7. ASSUME NEW g \in Gens, ServeStarts(g) PROVE ReadyIsAccepting'
  BY <1>7 DEF ServeStarts
<1>8. ASSUME NEW g \in Gens, ServeReturns(g) PROVE ReadyIsAccepting'
  BY <1>8 DEF ServeReturns
<1>9. ASSUME NEW g \in Gens, ServeClears(g) PROVE ReadyIsAccepting'
  <2>1. CASE cur = g
    <3>1. cur' = 0 /\ ready' = FALSE
      BY <1>9, <2>1 DEF ServeClears, ReadyAfterServe, StillCurrent
    <3>2. QED
      BY <1>9, <3>1 DEF ServeClears
  <2>2. CASE cur # g
    <3>1. UNCHANGED <<cur, ready, bound, closing>> /\ serve'[cur] = serve[cur]
      BY <1>9, <2>2 DEF ServeClears, StillCurrent
    <3>2. QED
      BY <3>1
  <2>3. QED
    BY <2>1, <2>2
<1>10. ASSUME NEW g \in Gens, RequestBegins(g) \/ RequestEnds(g) PROVE ReadyIsAccepting'
  BY <1>10 DEF RequestBegins, RequestEnds
<1>11. CASE UNCHANGED vars
  BY <1>11 DEF vars
<1>12. QED
  BY <1>1, <1>2, <1>3, <1>4, <1>5, <1>6, <1>7, <1>8, <1>9, <1>10, <1>11, StepCases

LEMMA IInvStep == IInv /\ [Next]_vars => IInv'
BY TypeStep, UntouchedStep, ShutdownsStep, ReadyStep DEF IInv

(* cur only changes at the end of a Shutdown that is closing its own       *)
(* generation, or of a Serve that returned.                                *)
LEMMA ClearedStep ==
  IInv /\ [Next]_vars => [cur # 0 /\ cur' # cur => closing[cur] \/ serve[cur] = "returned"]_vars
<1> DEFINE Goal == cur # 0 /\ cur' # cur => closing[cur] \/ serve[cur] = "returned"
<1> SUFFICES ASSUME IInv, [Next]_vars PROVE Goal
  OBVIOUS
<1> USE DEF IInv, TypeOK, Gens
<1>1. ASSUME NEW c \in Callers, StartRejected(c) \/ StartRefused(c) PROVE Goal
  BY <1>1 DEF StartRejected, StartRefused
<1>2. ASSUME NEW c \in Callers, StartBound(c) PROVE Goal
  BY <1>2 DEF StartBound, Running
<1>3. ASSUME NEW c \in Callers, ShutdownStopped(c) \/ ShutdownBegin(c) PROVE Goal
  BY <1>3 DEF ShutdownStopped, ShutdownBegin
<1>4. ASSUME NEW c \in Callers, CloseListener(c) PROVE Goal
  BY <1>4 DEF CloseListener
<1>5. ASSUME NEW c \in Callers, ListenersClosed(c) \/ DrainFinished(c) \/ DrainExpired(c)
      PROVE  Goal
  BY <1>5 DEF ListenersClosed, DrainFinished, DrainExpired
<1>6. ASSUME NEW c \in Callers, ShutdownEnd(c) \/ ContextExpires(c) PROVE Goal
  BY <1>6 DEF ShutdownEnd, StillCurrent, ContextExpires, Shutdowns
<1>7. ASSUME NEW g \in Gens, ServeStarts(g) PROVE Goal
  BY <1>7 DEF ServeStarts
<1>8. ASSUME NEW g \in Gens, ServeReturns(g) PROVE Goal
  BY <1>8 DEF ServeReturns
<1>9. ASSUME NEW g \in Gens, ServeClears(g) PROVE Goal
  BY <1>9 DEF ServeClears, StillCurrent
<1>10. ASSUME NEW g \in Gens, RequestBegins(g) \/ RequestEnds(g) PROVE Goal
  BY <1>10 DEF RequestBegins, RequestEnds
<1>11. CASE UNCHANGED vars
  BY <1>11 DEF vars
<1> HIDE DEF Goal
<1>12. QED
  BY <1>1, <1>2, <1>3, <1>4, <1>5, <1>6, <1>7, <1>8, <1>9, <1>10, <1>11, StepCases

-----------------------------------------------------------------------------
(* The invariant holds in every reachable state.                           *)
THEOREM Inductive == Spec => []IInv
<1>1. QED
  BY InitIInv, IInvStep, PTL DEF Spec

(* Every variable stays in its type (HealthServer!TypeOK).                 *)
THEOREM TypeCorrect == Spec => []TypeOK
<1>1. IInv => TypeOK
  BY DEF IInv
<1>2. QED
  BY Inductive, <1>1, PTL

(* Ready is never TRUE of a server that is being shut down or that has     *)
(* lost its socket, except in the instant before the clean-up after Serve  *)
(* (HealthServer!ReadyIsAccepting).                                        *)
THEOREM ReadyPromise == Spec => []ReadyIsAccepting
<1>1. IInv => ReadyIsAccepting
  BY DEF IInv
<1>2. QED
  BY Inductive, <1>1, PTL

(* The goroutine or the Shutdown of an older server never takes a newer    *)
(* one away (HealthServer!OnlyOwnServerCleared).                           *)
THEOREM NewerServerKept == Spec => OnlyOwnServerCleared
<1>1. QED
  BY Inductive, ClearedStep, PTL DEF Spec, OnlyOwnServerCleared
=============================================================================
