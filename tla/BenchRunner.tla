----------------------------- MODULE BenchRunner -----------------------------
(***************************************************************************)
(* Runner.RunPath: one measured path of a benchmark                        *)
(* (src/dns/internal/benchmark/runner.go).                                 *)
(*                                                                         *)
(* A scheduler goroutine hands query indexes to a pool of workers over an  *)
(* unbuffered channel and counts what it handed over; each worker puts one *)
(* observation per query in a buffered channel, which is closed when every *)
(* worker has gone; the caller tallies the observations and charges what   *)
(* the scheduler never handed over to the context that stopped it.         *)
(***************************************************************************)
EXTENDS Naturals, FiniteSets

CONSTANTS
  QueryCount,  \* config.QueryCount
  Workers      \* config.Concurrency goroutines

ASSUME ConfigAssumption == QueryCount \in Nat \ {0} /\ Workers # {}

Queries == 0..(QueryCount - 1)
Idle == QueryCount        \* a worker waiting on the jobs channel
Gone == QueryCount + 1    \* a worker that returned

VARIABLES
  ctx,          \* "live", "canceled" or "deadline"
  sched,        \* the scheduler: "offer", "count" or "closed"
  next,         \* queryIndex of the scheduler's loop
  scheduled,    \* the atomic counter
  job,          \* [Workers -> query, Idle or Gone]
  stage,        \* [Queries -> Stages]
  outcome,      \* [Queries -> failure kind of its observation]
  obsClosed,    \* the observations channel is closed
  tally,        \* the counters of PathResult
  completed,    \* observations tallied, and at the end the unscheduled ones
  reported,     \* the counters of the last progress event
  phase         \* the caller: "running" or "completed"

vars == <<ctx, sched, next, scheduled, job, stage, outcome, obsClosed, tally,
          completed, reported, phase>>

(* A query is not handed over, with a worker, in the observations channel, *)
(* or tallied.                                                             *)
Stages == {"waiting", "running", "observed", "counted"}

Failures == {"timeout", "network", "dns_response", "invalid_response",
             "internal", "other"}
None == ""
Kinds == Failures \cup {None}

Tally == [successful : Nat, failed : Nat, timeouts : Nat, by : [Failures -> Nat]]
NoTally == [successful |-> 0, failed |-> 0, timeouts |-> 0,
            by |-> [k \in Failures |-> 0]]

TypeOK ==
  /\ ctx \in {"live", "canceled", "deadline"}
  /\ sched \in {"offer", "count", "closed"}
  /\ next \in 0..QueryCount
  /\ scheduled \in 0..QueryCount
  /\ job \in [Workers -> 0..Gone]
  /\ stage \in [Queries -> Stages]
  /\ outcome \in [Queries -> Kinds]
  /\ obsClosed \in BOOLEAN
  /\ tally \in Tally
  /\ completed \in Nat
  /\ reported \in [current : Nat, successful : Nat, failed : Nat, timeouts : Nat]
  /\ phase \in {"running", "completed"}

Event(current, t) ==
  [current |-> current, successful |-> t.successful, failed |-> t.failed,
   timeouts |-> t.timeouts]

Init ==
  /\ ctx = "live"
  /\ sched = "offer" /\ next = 0 /\ scheduled = 0
  /\ job = [w \in Workers |-> Idle]
  /\ stage = [q \in Queries |-> "waiting"]
  /\ outcome = [q \in Queries |-> None]
  /\ obsClosed = FALSE
  /\ tally = NoTally /\ completed = 0
  /\ reported = Event(0, NoTally)
  /\ phase = "running"

-----------------------------------------------------------------------------
(* The caller's context can end at any moment of the run.                  *)
ContextEnds ==
  /\ ctx = "live"
  /\ ctx' \in {"canceled", "deadline"}
  /\ UNCHANGED <<sched, next, scheduled, job, stage, outcome, obsClosed, tally,
                 completed, reported, phase>>

(* The scheduler's select: the send on the unbuffered channel meets a      *)
(* receiving worker.  An ended context does not win over a ready send.     *)
HandOver(w) ==
  /\ sched = "offer" /\ next < QueryCount
  /\ job[w] = Idle
  /\ job' = [job EXCEPT ![w] = next]
  /\ stage' = [stage EXCEPT ![next] = "running"]
  /\ sched' = "count"
  /\ UNCHANGED <<ctx, next, scheduled, outcome, obsClosed, tally, completed,
                 reported, phase>>

Counted == scheduled + 1

(* scheduled.Add(1), after the send: the worker may already be done.       *)
CountScheduled ==
  /\ sched = "count"
  /\ scheduled' = Counted
  /\ next' = next + 1
  /\ sched' = "offer"
  /\ UNCHANGED <<ctx, job, stage, outcome, obsClosed, tally, completed,
                 reported, phase>>

LoopOver == next = QueryCount

BetweenSendsLoose == sched \in {"offer", "count"}
BetweenSends == sched = "offer"

(* The loop is over, or the select took the ended context: the deferred    *)
(* close of the jobs channel.                                              *)
CloseJobs ==
  /\ BetweenSends
  /\ LoopOver \/ ctx # "live"
  /\ sched' = "closed"
  /\ UNCHANGED <<ctx, next, scheduled, job, stage, outcome, obsClosed, tally,
                 completed, reported, phase>>

(* executeQuery and the send of its observation, for which the channel has *)
(* room by its capacity.  A query only fails as internal when its context  *)
(* was canceled: an expired one is a timeout.                              *)
Observe(w, kind) ==
  /\ job[w] \in Queries
  /\ kind = "internal" => ctx = "canceled"
  /\ stage' = [stage EXCEPT ![job[w]] = "observed"]
  /\ outcome' = [outcome EXCEPT ![job[w]] = kind]
  /\ job' = [job EXCEPT ![w] = Idle]
  /\ UNCHANGED <<ctx, sched, next, scheduled, obsClosed, tally, completed,
                 reported, phase>>

(* The range over the jobs channel ends once it is closed and empty.       *)
LoopsOnClosed == Idle
AfterLastJob == Gone

WorkerLeaves(w) ==
  /\ sched = "closed" /\ job[w] = Idle
  /\ job' = [job EXCEPT ![w] = AfterLastJob]
  /\ UNCHANGED <<ctx, sched, next, scheduled, stage, outcome, obsClosed, tally,
                 completed, reported, phase>>

(* workers.Wait, then the observations channel is closed.                  *)
OneGone == \E w \in Workers : job[w] = Gone
AllGone == \A w \in Workers : job[w] = Gone

CloseObservations ==
  /\ ~obsClosed
  /\ AllGone
  /\ obsClosed' = TRUE
  /\ UNCHANGED <<ctx, sched, next, scheduled, job, stage, outcome, tally,
                 completed, reported, phase>>

(* recordFailure, for a number of failures of one kind.                    *)
RecordUntimed(t, kind, count) == [t EXCEPT !.failed = @ + count, !.by[kind] = @ + count]
RecordOne(t, kind, count) ==
  [t EXCEPT !.failed = @ + 1,
            !.timeouts = IF kind = "timeout" THEN @ + 1 ELSE @,
            !.by[kind] = @ + 1]
RecordFailures(t, kind, count) ==
  [successful |-> t.successful,
   failed |-> t.failed + count,
   timeouts |-> IF kind = "timeout" THEN t.timeouts + count ELSE t.timeouts,
   by |-> [t.by EXCEPT ![kind] = @ + count]]

RecordObservation(t, kind) ==
  IF kind = None THEN [t EXCEPT !.successful = @ + 1]
                 ELSE RecordFailures(t, kind, 1)

(* shouldReportProgress: the first and the last observation are always     *)
(* reported, the others at most once per second.                           *)
MustReport(current) == current >= QueryCount \/ reported.current = 0

Consume(q) ==
  /\ phase = "running"
  /\ stage[q] = "observed"
  /\ stage' = [stage EXCEPT ![q] = "counted"]
  /\ completed' = completed + 1
  /\ tally' = RecordObservation(tally, outcome[q])
  /\ \/ reported' = Event(completed', tally')
     \/ ~MustReport(completed') /\ UNCHANGED reported
  /\ UNCHANGED <<ctx, sched, next, scheduled, job, outcome, obsClosed, phase>>

(* The kind recordUnscheduledFailures takes from ctx.Err().                *)
UnscheduledKind ==
  CASE ctx = "deadline" -> "timeout"
    [] ctx = "canceled" -> "internal"
    [] OTHER -> "other"

(* The range over the observations ends: what was never handed over is     *)
(* charged to the context and the completed event is sent.                 *)
Finish ==
  /\ phase = "running"
  /\ obsClosed /\ \A q \in Queries : stage[q] # "observed"
  /\ LET unscheduled == QueryCount - scheduled IN
       /\ tally' = IF unscheduled > 0
                     THEN RecordFailures(tally, UnscheduledKind, unscheduled)
                     ELSE tally
       /\ completed' = completed + unscheduled
  /\ reported' = Event(completed', tally')
  /\ phase' = "completed"
  /\ UNCHANGED <<ctx, sched, next, scheduled, job, stage, outcome, obsClosed>>

Done == phase = "completed" /\ UNCHANGED vars

Next ==
  \/ ContextEnds
  \/ \E w \in Workers : HandOver(w) \/ WorkerLeaves(w) \/ \E k \in Kinds : Observe(w, k)
  \/ CountScheduled \/ CloseJobs \/ CloseObservations
  \/ \E q \in Queries : Consume(q)
  \/ Finish
  \/ Done

Spec == Init /\ [][Next]_vars

(* Every goroutine of the run keeps going and every exchange returns: the  *)
(* DNS client has a timeout.  Nothing has to end the context.              *)
Fairness ==
  /\ WF_vars(\E w \in Workers : HandOver(w))
  /\ WF_vars(CountScheduled) /\ WF_vars(CloseJobs) /\ WF_vars(CloseObservations)
  /\ \A w \in Workers : /\ WF_vars(\E k \in Kinds : Observe(w, k))
                        /\ WF_vars(WorkerLeaves(w))
  /\ WF_vars(\E q \in Queries : Consume(q))
  /\ WF_vars(Finish)

FairSpec == Spec /\ Fairness

-----------------------------------------------------------------------------
(* Properties.                                                             *)

SumBy(t) == t.by["timeout"] + t.by["network"] + t.by["dns_response"]
            + t.by["invalid_response"] + t.by["internal"] + t.by["other"]

(* The counter read once the observations are exhausted is exact, although *)
(* the scheduler increments it after each send, beside workers that may    *)
(* already have answered: the queries handed over are those below it.      *)
ScheduledIsExact ==
  obsClosed => \A q \in Queries : stage[q] # "waiting" <=> q < scheduled

(* A completed result accounts for every query once: successes and         *)
(* failures add up to the attempts, the kinds of failure to the failures,  *)
(* and timeouts are the failures of that kind.                             *)
EveryQueryAccounted ==
  phase = "completed" =>
    /\ tally.successful + tally.failed = QueryCount
    /\ SumBy(tally) = tally.failed
    /\ tally.timeouts = tally.by["timeout"]
    /\ tally.successful = Cardinality({q \in Queries :
                             stage[q] = "counted" /\ outcome[q] = None})

(* A query charged without having been sent has a cause: the context that  *)
(* ended.  A run whose context stays live sends every query, so the "other"*)
(* branch of recordUnscheduledFailures is never taken.                     *)
UnscheduledHasCause ==
  phase = "completed" /\ ctx = "live" =>
    /\ scheduled = QueryCount
    /\ \A q \in Queries : stage[q] = "counted"

(* When the result is returned no goroutine of the run is left behind.     *)
NoGoroutineLeft ==
  phase = "completed" =>
    /\ sched = "closed"
    /\ \A w \in Workers : job[w] = Gone
    /\ \A q \in Queries : stage[q] \in {"waiting", "counted"}

(* Progress never goes back: neither the position nor the counters of an   *)
(* event are below those of the event before it.  Each event adds up, and  *)
(* the completed event covers the whole path, also when the context ended  *)
(* before every query was sent.                                            *)
ProgressIsConsistent ==
  [][/\ reported'.current >= reported.current
     /\ reported'.successful >= reported.successful
     /\ reported'.failed >= reported.failed
     /\ reported'.timeouts >= reported.timeouts
     /\ reported'.successful + reported'.failed = reported'.current
     /\ phase' = "completed" => reported'.current = QueryCount]_<<reported, phase>>

(* RunPath returns, whenever the context ends or if it never does.         *)
Terminates == <>(phase = "completed")

(* The accounting as an observer of the result sees it.                    *)
Open == IF phase = "completed" THEN {} ELSE {q \in Queries : stage[q] # "counted"}

Ledger == INSTANCE QueryLedger WITH
  open <- Open, successful <- tally.successful, failed <- tally.failed

ImplementsLedger == Ledger!Spec
=============================================================================
