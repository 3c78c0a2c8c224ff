-------------------------- MODULE BenchRunnerProofs --------------------------
(***************************************************************************)
(* The worker pool accounts for every query, for any number of queries and *)
(* any pool.                                                               *)
(***************************************************************************)
EXTENDS BenchRunner, FiniteSetTheorems, TLAPS

TalliedQueries == {q \in Queries : stage[q] = "counted"}
SuccessfulQueries == {q \in Queries : stage[q] = "counted" /\ outcome[q] = None}

(* The queries that left the scheduler are those below its counter, and    *)
(* the one it has just handed over and not yet counted.                    *)
SchedulerInv ==
  /\ scheduled = next
  /\ sched = "count" => next \in Queries
  /\ \A q \in Queries : stage[q] # "waiting" <=> q < next \/ (sched = "count" /\ q = next)
  /\ sched = "closed" => next = QueryCount \/ ctx # "live"

(* A running query is with exactly one worker; workers leave only after    *)
(* the jobs channel is closed.                                             *)
WorkerInv ==
  /\ \A w \in Workers : job[w] \in Queries => stage[job[w]] = "running"
  /\ \A v, w \in Workers : v # w /\ job[v] \in Queries => job[v] # job[w]
  /\ \A q \in Queries : stage[q] = "running" => \E w \in Workers : job[w] = q
  /\ \A w \in Workers : job[w] = Gone => sched = "closed"
  /\ obsClosed => \A w \in Workers : job[w] = Gone

(* The counters agree with each other.                                     *)
TallyInv ==
  /\ tally.successful + tally.failed = completed
  /\ SumBy(tally) = tally.failed
  /\ tally.timeouts = tally.by["timeout"]
  /\ tally.successful = Cardinality(SuccessfulQueries)

(* While the caller ranges over the observations it has counted exactly    *)
(* the tallied queries; afterwards nothing is left to tally.               *)
CallerInv ==
  /\ phase = "running" => completed = Cardinality(TalliedQueries)
  /\ phase = "completed" =>
       /\ obsClosed /\ completed = QueryCount
       /\ \A q \in Queries : stage[q] # "observed"

IInv == TypeOK /\ SchedulerInv /\ WorkerInv /\ TallyInv /\ CallerInv

-----------------------------------------------------------------------------
(* Queries are the first QueryCount numbers.                               *)
LEMMA QueryFacts ==
  /\ QueryCount \in Nat /\ Idle \notin Queries /\ Gone \notin Queries /\ Idle # Gone
  /\ \A q \in Queries : q \in Nat /\ q < QueryCount /\ q \in 0..QueryCount /\ q \in 0..Gone
  /\ \A n \in 0..QueryCount : n < QueryCount => n \in Queries /\ n + 1 \in 0..QueryCount
  /\ Idle \in 0..Gone /\ Gone \in 0..Gone
  /\ IsFiniteSet(Queries) /\ Cardinality(Queries) = QueryCount
<1>1. IsFiniteSet(0..(QueryCount - 1)) /\ Cardinality(0..(QueryCount - 1)) = QueryCount
  BY ConfigAssumption, FS_Interval
<1>2. QED
  BY <1>1, ConfigAssumption DEF Queries, Idle, Gone

(* Recording failures keeps the shape of a tally and its sums.             *)
LEMMA RecordFailuresFact ==
  ASSUME NEW t \in Tally, NEW k \in Failures, NEW n \in Nat
  PROVE  LET u == RecordFailures(t, k, n)
         IN  /\ u \in Tally
             /\ u.successful = t.successful
             /\ u.failed = t.failed + n
             /\ SumBy(t) = t.failed => SumBy(u) = u.failed
             /\ t.timeouts = t.by["timeout"] => u.timeouts = u.by["timeout"]
<1> DEFINE u == RecordFailures(t, k, n)
<1>1. /\ u.successful = t.successful /\ u.failed = t.failed + n
      /\ u.timeouts = IF k = "timeout" THEN t.timeouts + n ELSE t.timeouts
      /\ u.by = [t.by EXCEPT ![k] = @ + n]
  BY DEF RecordFailures, Tally
<1>2. u \in Tally
  <2>1. [t.by EXCEPT ![k] = @ + n] \in [Failures -> Nat]
    BY DEF Tally
  <2>2. QED
    BY <2>1 DEF RecordFailures, Tally
<1>3. t.by \in [Failures -> Nat]
  BY DEF Tally
<1>4. SumBy(u) = SumBy(t) + n
  BY <1>1, <1>3 DEF SumBy, Failures
<1>5. t.timeouts = t.by["timeout"] => u.timeouts = u.by["timeout"]
  BY <1>1, <1>3 DEF Failures
<1>6. QED
  BY <1>1, <1>2, <1>4, <1>5 DEF Tally

(* Recording an observation adds one success or one failure.               *)
LEMMA RecordObservationFact ==
  ASSUME NEW t \in Tally, NEW k \in Kinds
  PROVE  LET u == RecordObservation(t, k)
         IN  /\ u \in Tally
             /\ u.successful = t.successful + (IF k = None THEN 1 ELSE 0)
             /\ u.failed = t.failed + (IF k = None THEN 0 ELSE 1)
             /\ SumBy(t) = t.failed => SumBy(u) = u.failed
             /\ t.timeouts = t.by["timeout"] => u.timeouts = u.by["timeout"]
<1>1. CASE k = None
  BY <1>1 DEF RecordObservation, Tally, SumBy
<1>2. CASE k # None
  <2>1. k \in Failures
    BY <1>2 DEF Kinds
  <2>2. QED
    BY <1>2, <2>1, RecordFailuresFact DEF RecordObservation, Tally
<1>3. QED
  BY <1>1, <1>2

-----------------------------------------------------------------------------
(* The goroutines of a fresh run satisfy the invariant: nothing is sent.   *)
LEMMA InitInv == Init => IInv
<1> SUFFICES ASSUME Init PROVE IInv
  OBVIOUS
<1>1. TypeOK
  <2>1. /\ tally \in Tally
        /\ reported \in [current : Nat, successful : Nat, failed : Nat, timeouts : Nat]
    BY DEF Init, NoTally, Tally, Event
  <2>2. /\ job \in [Workers -> 0..Gone] /\ stage \in [Queries -> Stages]
        /\ outcome \in [Queries -> Kinds]
    BY QueryFacts DEF Init, Stages, Kinds
  <2>3. 0 \in 0..QueryCount /\ 0 \in Nat
    BY QueryFacts
  <2>4. QED
    BY <2>1, <2>2, <2>3 DEF Init, TypeOK
<1>2. SchedulerInv /\ WorkerInv
  BY QueryFacts, ConfigAssumption DEF Init, SchedulerInv, WorkerInv
<1>3. TalliedQueries = {} /\ SuccessfulQueries = {}
  BY DEF Init, TalliedQueries, SuccessfulQueries
<1>4. TallyInv /\ CallerInv
  BY <1>3, FS_EmptySet DEF Init, TallyInv, CallerInv, NoTally, SumBy, Failures
<1>5. QED
  BY <1>1, <1>2, <1>4 DEF IInv

(* Every step preserves the invariant.                                     *)
LEMMA StepInv == IInv /\ [Next]_vars => IInv'
<1> SUFFICES ASSUME IInv, [Next]_vars PROVE IInv'
  OBVIOUS
<1> USE QueryFacts
<1>1. CASE ContextEnds
  BY <1>1 DEF ContextEnds, IInv, TypeOK, SchedulerInv, WorkerInv, TallyInv, CallerInv,
     TalliedQueries, SuccessfulQueries, SumBy
<1>2. ASSUME NEW w \in Workers, HandOver(w) PROVE IInv'
  <2>1. next \in Queries /\ stage[next] = "waiting" /\ phase = "running"
    BY <1>2, ConfigAssumption DEF HandOver, IInv, TypeOK, SchedulerInv, WorkerInv, CallerInv
  <2>2. TypeOK'
    BY <1>2, <2>1 DEF HandOver, IInv, TypeOK, Stages
  <2>3. SchedulerInv'
    BY <1>2, <2>1 DEF HandOver, IInv, TypeOK, SchedulerInv
  <2>4. WorkerInv'
    BY <1>2, <2>1 DEF HandOver, IInv, TypeOK, SchedulerInv, WorkerInv
  <2>5. TalliedQueries' = TalliedQueries /\ SuccessfulQueries' = SuccessfulQueries
    BY <1>2, <2>1 DEF HandOver, IInv, TypeOK, TalliedQueries, SuccessfulQueries
  <2>6. TallyInv' /\ CallerInv'
    BY <1>2, <2>1, <2>5 DEF HandOver, IInv, TallyInv, CallerInv, SumBy
  <2>7. QED
    BY <2>2, <2>3, <2>4, <2>6 DEF IInv
<1>3. CASE CountScheduled
  <2>1. TypeOK' /\ SchedulerInv'
    BY <1>3 DEF CountScheduled, Counted, IInv, TypeOK, SchedulerInv
  <2>2. WorkerInv'
    BY <1>3 DEF CountScheduled, IInv, WorkerInv
  <2>3. TallyInv' /\ CallerInv'
    BY <1>3 DEF CountScheduled, IInv, TallyInv, CallerInv, SumBy, TalliedQueries,
       SuccessfulQueries
  <2>4. QED
    BY <2>1, <2>2, <2>3 DEF IInv
<1>4. CASE CloseJobs
  BY <1>4 DEF CloseJobs, BetweenSends, LoopOver, IInv, TypeOK, SchedulerInv, WorkerInv,
     TallyInv, CallerInv, SumBy, TalliedQueries, SuccessfulQueries
<1>5. ASSUME NEW w \in Workers, NEW k \in Kinds, Observe(w, k) PROVE IInv'
  <2>1. /\ job[w] \in Queries /\ stage[job[w]] = "running" /\ phase = "running"
    BY <1>5 DEF Observe, IInv, TypeOK, WorkerInv, CallerInv
  <2>2. TypeOK'
    BY <1>5, <2>1 DEF Observe, IInv, TypeOK, Stages
  <2>3. SchedulerInv'
    BY <1>5, <2>1 DEF Observe, IInv, TypeOK, SchedulerInv
  <2>4. WorkerInv'
    BY <1>5, <2>1 DEF Observe, IInv, TypeOK, WorkerInv
  <2>5. TalliedQueries' = TalliedQueries /\ SuccessfulQueries' = SuccessfulQueries
    BY <1>5, <2>1 DEF Observe, IInv, TypeOK, TalliedQueries, SuccessfulQueries
  <2>6. TallyInv' /\ CallerInv'
    BY <1>5, <2>1, <2>5 DEF Observe, IInv, TallyInv, CallerInv, SumBy
  <2>7. QED
    BY <2>2, <2>3, <2>4, <2>6 DEF IInv
<1>6. ASSUME NEW w \in Workers, WorkerLeaves(w) PROVE IInv'
  <2>1. TypeOK' /\ SchedulerInv'
    BY <1>6 DEF WorkerLeaves, AfterLastJob, IInv, TypeOK, SchedulerInv
  <2>2. WorkerInv'
    BY <1>6 DEF WorkerLeaves, AfterLastJob, IInv, TypeOK, WorkerInv
  <2>3. TallyInv' /\ CallerInv'
    BY <1>6 DEF WorkerLeaves, AfterLastJob, IInv, TallyInv, CallerInv, SumBy, TalliedQueries,
       SuccessfulQueries
  <2>4. QED
    BY <2>1, <2>2, <2>3 DEF IInv
<1>7. CASE CloseObservations
  BY <1>7 DEF CloseObservations, AllGone, IInv, TypeOK, SchedulerInv, WorkerInv,
     TallyInv, CallerInv, SumBy, TalliedQueries, SuccessfulQueries
<1>8. ASSUME NEW q \in Queries, Consume(q) PROVE IInv'
  <2>1. phase = "running" /\ stage[q] = "observed" /\ outcome[q] \in Kinds /\ tally \in Tally
    BY <1>8 DEF Consume, IInv, TypeOK
  <2>2. /\ tally' \in Tally
        /\ tally'.successful = tally.successful + (IF outcome[q] = None THEN 1 ELSE 0)
        /\ tally'.failed = tally.failed + (IF outcome[q] = None THEN 0 ELSE 1)
        /\ SumBy(tally') = tally'.failed
        /\ tally'.timeouts = tally'.by["timeout"]
    BY <1>8, <2>1, RecordObservationFact DEF Consume, IInv, TallyInv
  <2>3. TypeOK'
    BY <1>8, <2>1, <2>2 DEF Consume, IInv, TypeOK, Stages, Event, Tally
  <2>4. SchedulerInv' /\ WorkerInv'
    BY <1>8, <2>1 DEF Consume, IInv, TypeOK, SchedulerInv, WorkerInv
  <2>5. TalliedQueries' = TalliedQueries \cup {q} /\ q \notin TalliedQueries
    BY <1>8, <2>1 DEF Consume, IInv, TypeOK, TalliedQueries
  <2>6. /\ outcome[q] = None => SuccessfulQueries' = SuccessfulQueries \cup {q}
        /\ outcome[q] # None => SuccessfulQueries' = SuccessfulQueries
        /\ q \notin SuccessfulQueries
    BY <1>8, <2>1 DEF Consume, IInv, TypeOK, SuccessfulQueries
  <2>7. IsFiniteSet(TalliedQueries) /\ IsFiniteSet(SuccessfulQueries)
    BY FS_Subset DEF TalliedQueries, SuccessfulQueries
  <2>8. /\ Cardinality(TalliedQueries') = Cardinality(TalliedQueries) + 1
        /\ outcome[q] = None =>
             Cardinality(SuccessfulQueries') = Cardinality(SuccessfulQueries) + 1
    BY <2>5, <2>6, <2>7, FS_AddElement
  <2>9. CallerInv'
    BY <1>8, <2>1, <2>8 DEF Consume, IInv, CallerInv
  <2>10. tally.successful \in Nat /\ tally.failed \in Nat /\ completed \in Nat
    BY <2>1 DEF IInv, TypeOK, Tally
  <2>11. TallyInv'
    <3>1. CASE outcome[q] = None
      BY <1>8, <2>2, <2>6, <2>8, <2>10, <3>1 DEF Consume, IInv, TallyInv
    <3>2. CASE outcome[q] # None
      BY <1>8, <2>2, <2>6, <2>10, <3>2 DEF Consume, IInv, TallyInv
    <3>3. QED
      BY <3>1, <3>2
  <2>12. QED
    BY <2>3, <2>4, <2>9, <2>11 DEF IInv
<1>9. CASE Finish
  <2> DEFINE unscheduled == QueryCount - scheduled
  <2>1. /\ unscheduled \in Nat /\ tally \in Tally /\ UnscheduledKind \in Failures
        /\ tally.successful \in Nat /\ tally.failed \in Nat /\ completed \in Nat
    BY <1>9 DEF Finish, IInv, TypeOK, Tally, UnscheduledKind, Failures
  <2>2. completed + unscheduled = QueryCount
    <3>1. sched = "closed"
      BY <1>9, ConfigAssumption DEF Finish, IInv, WorkerInv
    <3>2. TalliedQueries = 0..(scheduled - 1)
      BY <1>9, <3>1 DEF Finish, IInv, TypeOK, Stages, SchedulerInv, WorkerInv,
         TalliedQueries, Queries, Gone
    <3>3. Cardinality(0..(scheduled - 1)) = scheduled
      <4>1. scheduled \in Nat
        BY DEF IInv, TypeOK
      <4>2. QED
        BY <4>1, FS_Interval
    <3>4. QED
      BY <1>9, <2>1, <3>2, <3>3 DEF Finish, IInv, CallerInv, TypeOK
  <2>3. /\ tally' \in Tally
        /\ tally'.successful = tally.successful
        /\ tally'.failed = tally.failed + unscheduled
        /\ SumBy(tally') = tally'.failed
        /\ tally'.timeouts = tally'.by["timeout"]
    <3>1. CASE unscheduled > 0
      <4>1. tally' = RecordFailures(tally, UnscheduledKind, unscheduled)
        BY <1>9, <3>1 DEF Finish
      <4>2. SumBy(tally) = tally.failed /\ tally.timeouts = tally.by["timeout"]
        BY DEF IInv, TallyInv
      <4>3. QED
        BY <2>1, <4>1, <4>2, RecordFailuresFact
    <3>2. CASE unscheduled = 0
      BY <1>9, <2>1, <3>2 DEF Finish, IInv, TallyInv
    <3>3. QED
      BY <2>1, <3>1, <3>2
  <2>4. TypeOK'
    BY <1>9, <2>1, <2>3 DEF Finish, IInv, TypeOK, Event, Tally
  <2>5. SchedulerInv' /\ WorkerInv'
    BY <1>9 DEF Finish, IInv, SchedulerInv, WorkerInv
  <2>6. TallyInv'
    BY <1>9, <2>1, <2>3 DEF Finish, IInv, TallyInv, SuccessfulQueries
  <2>7. CallerInv'
    BY <1>9, <2>2 DEF Finish, CallerInv
  <2>8. QED
    BY <2>4, <2>5, <2>6, <2>7 DEF IInv
<1>10. CASE Done \/ UNCHANGED vars
  <2>1. UNCHANGED vars
    BY <1>10 DEF Done
  <2>2. TypeOK' /\ SchedulerInv' /\ WorkerInv'
    BY <2>1 DEF vars, IInv, TypeOK, SchedulerInv, WorkerInv
  <2>3. TallyInv' /\ CallerInv'
    BY <2>1 DEF vars, IInv, TallyInv, CallerInv, SumBy, TalliedQueries, SuccessfulQueries
  <2>4. QED
    BY <2>2, <2>3 DEF IInv
<1>11. QED
  BY <1>1, <1>2, <1>3, <1>4, <1>5, <1>6, <1>7, <1>8, <1>9, <1>10 DEF Next

(* The invariant holds throughout a run of RunPath.                        *)
LEMMA Inductive == Spec => []IInv
  BY InitInv, StepInv, PTL DEF Spec
(* Types hold in every behaviour, for any pool and any number of queries.  *)
THEOREM TypeCorrect == Spec => []TypeOK
<1>1. IInv => TypeOK
  BY DEF IInv
<1>2. QED
  BY <1>1, Inductive, PTL

(* The counter the caller reads is exact.                                  *)
THEOREM SchedulerCounter == Spec => []ScheduledIsExact
<1>1. IInv => ScheduledIsExact
  <2> SUFFICES ASSUME IInv, obsClosed, NEW q \in Queries
               PROVE  stage[q] # "waiting" <=> q < scheduled
    BY DEF ScheduledIsExact
  <2>1. sched = "closed"
    BY ConfigAssumption DEF IInv, WorkerInv
  <2>2. QED
    BY <2>1 DEF IInv, SchedulerInv
<1>2. QED
  BY <1>1, Inductive, PTL

(* Every query is accounted for exactly once in a completed result.        *)
THEOREM Accounting == Spec => []EveryQueryAccounted
<1>1. IInv => EveryQueryAccounted
  BY DEF IInv, CallerInv, TallyInv, EveryQueryAccounted, SuccessfulQueries
<1>2. QED
  BY <1>1, Inductive, PTL

(* Only an ended context leaves queries unsent.                            *)
THEOREM UnscheduledCause == Spec => []UnscheduledHasCause
<1>1. IInv => UnscheduledHasCause
  <2> SUFFICES ASSUME IInv, phase = "completed", ctx = "live"
               PROVE  scheduled = QueryCount /\ \A q \in Queries : stage[q] = "counted"
    BY DEF UnscheduledHasCause
  <2>1. sched = "closed" /\ scheduled = QueryCount
    BY ConfigAssumption DEF IInv, CallerInv, WorkerInv, SchedulerInv
  <2>2. QED
    BY <2>1, QueryFacts DEF IInv, TypeOK, Stages, CallerInv, WorkerInv, SchedulerInv
<1>2. QED
  BY <1>1, Inductive, PTL

(* No goroutine of the run outlives it.                                    *)
THEOREM PoolDrained == Spec => []NoGoroutineLeft
<1>1. IInv => NoGoroutineLeft
  BY ConfigAssumption, QueryFacts DEF IInv, TypeOK, Stages, CallerInv, WorkerInv,
     NoGoroutineLeft
<1>2. QED
  BY <1>1, Inductive, PTL

-----------------------------------------------------------------------------
(* The worker pool implements the ledger: every step settles one query or, *)
(* at the end, all that are open, or leaves the ledger unchanged.          *)
THEOREM Implements == Spec => ImplementsLedger
<1> DEFINE LVars == <<Open, tally.successful, tally.failed>>
<1>1. Init => Ledger!Init
  BY DEF Init, NoTally, Open, Ledger!Init, Queries, Ledger!Queries
<1>2. IInv /\ [Next]_vars => [Ledger!Next]_LVars
  <2> SUFFICES ASSUME IInv, [Next]_vars PROVE [Ledger!Next]_LVars
    OBVIOUS
  <2>0. IInv'
    BY StepInv
  <2> USE QueryFacts
  <2>1. CASE UNCHANGED <<phase, stage, tally>>
    BY <2>1 DEF Open
  <2>2. ASSUME NEW w \in Workers, HandOver(w) PROVE [Ledger!Next]_LVars
    <3>1. next \in Queries /\ stage[next] = "waiting"
      BY <2>2, ConfigAssumption DEF HandOver, IInv, TypeOK, SchedulerInv
    <3>2. QED
      BY <2>2, <3>1 DEF HandOver, IInv, TypeOK, Open
  <2>3. ASSUME NEW w \in Workers, NEW k \in Kinds, Observe(w, k) PROVE [Ledger!Next]_LVars
    BY <2>3 DEF Observe, IInv, TypeOK, WorkerInv, Open
  <2>4. ASSUME NEW q \in Queries, Consume(q) PROVE [Ledger!Next]_LVars
    <3>1. /\ phase = "running" /\ phase' = "running" /\ stage[q] = "observed"
          /\ outcome[q] \in Kinds /\ tally \in Tally
      BY <2>4 DEF Consume, IInv, TypeOK
    <3>2. q \in Open /\ Open' = Open \ {q}
      BY <2>4, <3>1 DEF Consume, IInv, TypeOK, Open
    <3>3. /\ tally'.successful = tally.successful + (IF outcome[q] = None THEN 1 ELSE 0)
          /\ tally'.failed = tally.failed + (IF outcome[q] = None THEN 0 ELSE 1)
          /\ tally.successful \in Nat /\ tally.failed \in Nat
      BY <2>4, <3>1, RecordObservationFact DEF Consume, Tally
    <3>4. Ledger!Succeed(q) \/ Ledger!Fail(q)
      BY <3>2, <3>3 DEF Ledger!Succeed, Ledger!Fail
    <3>5. QED
      BY <3>2, <3>4 DEF Ledger!Next
  <2>5. CASE Finish
    <3>1. /\ phase = "running" /\ phase' = "completed" /\ sched = "closed"
          /\ tally \in Tally /\ tally.successful \in Nat /\ tally.failed \in Nat
          /\ scheduled \in 0..QueryCount /\ UnscheduledKind \in Failures
      BY <2>5, ConfigAssumption DEF Finish, IInv, TypeOK, WorkerInv, Tally,
         UnscheduledKind, Failures
    <3>2. Open = scheduled..(QueryCount - 1) /\ Open' = {}
      BY <2>5, <3>1 DEF Finish, IInv, TypeOK, Stages, SchedulerInv, WorkerInv, Queries, Gone,
         Open
    <3>4. CASE scheduled = QueryCount
      BY <2>5, <3>1, <3>2, <3>4 DEF Finish
    <3>5. CASE scheduled < QueryCount
      <4>1. /\ QueryCount - scheduled > 0 /\ QueryCount - scheduled \in Nat
            /\ tally' = RecordFailures(tally, UnscheduledKind, QueryCount - scheduled)
        BY <2>5, <3>1, <3>5 DEF Finish
      <4>2. tally'.successful = tally.successful /\ tally'.failed \in Nat
        BY <3>1, <4>1, RecordFailuresFact DEF Tally
      <4>3. tally'.successful + tally'.failed = QueryCount
        BY <2>0, <3>1 DEF IInv, TallyInv, CallerInv
      <4>4. Ledger!GiveUp
        BY <3>1, <3>2, <3>5, <4>2, <4>3 DEF Ledger!GiveUp
      <4>5. QED
        BY <4>4 DEF Ledger!Next
    <3>6. QED
      BY <3>1, <3>4, <3>5
  <2>6. QED
    BY <2>1, <2>2, <2>3, <2>4, <2>5 DEF Next, vars, ContextEnds, WorkerLeaves, AfterLastJob,
       CountScheduled, CloseJobs, CloseObservations, Done
<1>3. QED
  BY <1>1, <1>2, Inductive, PTL DEF Spec, ImplementsLedger, Ledger!Spec

-----------------------------------------------------------------------------
(* What was reported last does not exceed what has been tallied since.     *)
ReportedInv ==
  /\ reported.current <= completed
  /\ reported.successful <= tally.successful
  /\ reported.failed <= tally.failed
  /\ reported.timeouts <= tally.timeouts

(* The counters only grow.                                                 *)
Grows ==
  /\ completed <= completed' /\ tally.successful <= tally'.successful
  /\ tally.failed <= tally'.failed /\ tally.timeouts <= tally'.timeouts

(* A step that reports does it with the counters it leaves behind, and     *)
(* the last report covers the path.                                        *)
LEMMA CountersGrow ==
  ASSUME IInv, [Next]_vars
  PROVE  /\ Grows
         /\ reported' = Event(completed', tally') \/ UNCHANGED reported
         /\ phase' # phase => reported' = Event(completed', tally') /\ phase' = "completed"
<1> USE QueryFacts
<1>1. /\ tally \in Tally /\ completed \in Nat /\ tally.successful \in Nat
      /\ tally.failed \in Nat /\ tally.timeouts \in Nat
  BY DEF IInv, TypeOK, Tally
<1>2. ASSUME NEW q \in Queries, Consume(q)
      PROVE  /\ Grows /\ UNCHANGED phase
             /\ reported' = Event(completed', tally') \/ UNCHANGED reported
  <2>1. outcome[q] \in Kinds /\ completed' = completed + 1
    BY <1>2 DEF Consume, IInv, TypeOK
  <2>2. tally' = RecordObservation(tally, outcome[q])
    BY <1>2 DEF Consume
  <2>3. /\ tally'.successful = tally.successful + (IF outcome[q] = None THEN 1 ELSE 0)
        /\ tally'.failed = tally.failed + (IF outcome[q] = None THEN 0 ELSE 1)
    BY <1>1, <2>1, <2>2, RecordObservationFact
  <2>4. tally'.timeouts \in {tally.timeouts, tally.timeouts + 1}
    BY <1>1, <2>2 DEF RecordObservation, RecordFailures, Tally
  <2>5. Grows
    BY <1>1, <2>1, <2>3, <2>4 DEF Grows
  <2>6. QED
    BY <1>2, <2>5 DEF Consume
<1>3. ASSUME Finish
      PROVE  Grows /\ reported' = Event(completed', tally') /\ phase' = "completed"
  <2> DEFINE unscheduled == QueryCount - scheduled
  <2>1. unscheduled \in Nat /\ completed' = completed + unscheduled
    BY <1>3 DEF Finish, IInv, TypeOK
  <2>2. CASE tally' = tally
    BY <1>1, <1>3, <2>1, <2>2 DEF Finish, Grows
  <2>3. CASE tally' = RecordFailures(tally, UnscheduledKind, unscheduled)
    <3>1. /\ tally'.successful = tally.successful
          /\ tally'.failed = tally.failed + unscheduled
          /\ tally'.timeouts \in {tally.timeouts, tally.timeouts + unscheduled}
      BY <2>3 DEF RecordFailures
    <3>2. Grows
      BY <1>1, <2>1, <3>1 DEF Grows
    <3>3. QED
      BY <1>3, <3>2 DEF Finish
  <2>4. QED
    BY <1>3, <2>2, <2>3 DEF Finish
<1>4. CASE UNCHANGED <<completed, tally, reported, phase>>
  BY <1>1, <1>4 DEF Grows
<1>5. QED
  BY <1>2, <1>3, <1>4
  DEF Next, vars, ContextEnds, HandOver, WorkerLeaves, Observe, CountScheduled, CloseJobs,
      CloseObservations, Done

LEMMA ReportedStep == IInv /\ ReportedInv /\ [Next]_vars => ReportedInv'
<1> SUFFICES ASSUME IInv, ReportedInv, [Next]_vars PROVE ReportedInv'
  OBVIOUS
<1>1. IInv'
  BY StepInv
<1>2. /\ reported.current \in Nat /\ reported.successful \in Nat
      /\ reported.failed \in Nat /\ reported.timeouts \in Nat
      /\ completed \in Nat /\ tally.successful \in Nat
      /\ tally.failed \in Nat /\ tally.timeouts \in Nat
  BY DEF IInv, TypeOK, Tally
<1>3. /\ completed' \in Nat /\ tally'.successful \in Nat
      /\ tally'.failed \in Nat /\ tally'.timeouts \in Nat
  BY <1>1 DEF IInv, TypeOK, Tally
<1>4. CASE reported' = Event(completed', tally')
  BY <1>3, <1>4 DEF Event, ReportedInv
<1>5. CASE UNCHANGED reported
  BY <1>2, <1>3, <1>5, CountersGrow DEF Grows, ReportedInv
<1>6. QED
  BY <1>4, <1>5, CountersGrow

(* Whatever the workers answer and whenever the context ends, no progress  *)
(* event goes back behind the one before it, each adds up, and the         *)
(* completed event covers the whole path (RunPath of runner.go).           *)
THEOREM ProgressConsistent == Spec => ProgressIsConsistent
<1> DEFINE Consistent == /\ reported'.current >= reported.current
                         /\ reported'.successful >= reported.successful
                         /\ reported'.failed >= reported.failed
                         /\ reported'.timeouts >= reported.timeouts
                         /\ reported'.successful + reported'.failed = reported'.current
                         /\ phase' = "completed" => reported'.current = QueryCount
<1>1. Init => ReportedInv
  BY DEF Init, NoTally, Event, ReportedInv
<1>2. IInv /\ ReportedInv /\ [Next]_vars => [Consistent]_<<reported, phase>>
  <2> SUFFICES ASSUME IInv, ReportedInv, [Next]_vars, ~UNCHANGED <<reported, phase>>
               PROVE  Consistent
    OBVIOUS
  <2>1. IInv' /\ Grows /\ reported' = Event(completed', tally')
    BY StepInv, CountersGrow
  <2>2. /\ reported.current \in Nat /\ reported.successful \in Nat
        /\ reported.failed \in Nat /\ reported.timeouts \in Nat
        /\ completed \in Nat /\ tally.successful \in Nat
        /\ tally.failed \in Nat /\ tally.timeouts \in Nat
    BY DEF IInv, TypeOK, Tally
  <2>3. /\ completed' \in Nat /\ tally'.successful \in Nat
        /\ tally'.failed \in Nat /\ tally'.timeouts \in Nat
    BY <2>1 DEF IInv, TypeOK, Tally
  <2>4. /\ tally'.successful + tally'.failed = completed'
        /\ phase' = "completed" => completed' = QueryCount
    BY <2>1 DEF IInv, TallyInv, CallerInv
  <2>5. /\ reported'.current = completed' /\ reported'.successful = tally'.successful
        /\ reported'.failed = tally'.failed /\ reported'.timeouts = tally'.timeouts
    BY <2>1 DEF Event
  <2>6. QED
    BY <2>1, <2>2, <2>3, <2>4, <2>5 DEF Grows, ReportedInv
<1>3. QED
  BY <1>1, <1>2, ReportedStep, Inductive, PTL DEF Spec, ProgressIsConsistent
=============================================================================
