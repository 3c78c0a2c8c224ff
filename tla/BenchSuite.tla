----------------------------- MODULE BenchSuite -----------------------------
(***************************************************************************)
(* The benchmark suite (internal/benchmark/suite.go, scenario.go and       *)
(* progress.go): four scenarios, each a warmup and a measurement of the    *)
(* direct and of the forwarded path, with the events it reports to the     *)
(* terminal on the way.                                                    *)
(*                                                                         *)
(* One path is what module BenchRunner says of RunPath: it reports growing *)
(* counts and settles every query, those an interruption left over as      *)
(* failures.  Addresses, names and types of queries are valid here; the    *)
(* counts may be anything, since the suite validates them itself.          *)
(***************************************************************************)
EXTENDS Integers

CONSTANTS
  ScenarioCount,   \* scenarios of the suite, four in the program
  Counts           \* what the configuration may hold as a count

ASSUME SuiteAssumption == ScenarioCount \in Nat \ {0} /\ Counts \subseteq Int

VARIABLES
  config,     \* [queries, warmup, workers]
  ctx,        \* "live" or "cancelled"
  pc,         \* step of SuiteRunner.Run
  index,      \* the scenario being run, from one
  event,      \* the last ProgressEvent reported
  results,    \* ScenarioResults appended so far; what they hold is left out
  measured    \* history: queries settled on measured paths

vars == <<config, ctx, pc, index, event, results, measured>>

Warmups == {"warmup-direct", "warmup-forwarded"}
Measurements == {"direct", "forwarded"}
Paths == Warmups \cup Measurements

Configs == [queries : Counts, warmup : Counts, workers : Counts]

EventTypes == {"none", "benchmark-started", "scenario-started", "phase-started",
               "phase-progress", "phase-completed", "scenario-completed",
               "benchmark-completed"}

Event(type, phase, current, total, successful) ==
  [type |-> type, index |-> index, phase |-> phase, current |-> current,
   total |-> total, successful |-> successful]

NoEvent == [type |-> "none", index |-> 0, phase |-> "none", current |-> 0, total |-> 0,
            successful |-> 0]

TypeOK ==
  /\ config \in Configs
  /\ ctx \in {"live", "cancelled"}
  /\ pc \in {"validate", "loop", "completed", "failed"} \cup Paths
  /\ index \in 0..ScenarioCount
  /\ event \in [type : EventTypes, index : 0..ScenarioCount, phase : Paths \cup {"none"},
                current : Nat, total : Nat, successful : Nat]
  /\ event.successful <= event.current /\ event.current <= event.total
  /\ results \in 0..ScenarioCount
  /\ measured \in Nat

Init ==
  /\ config \in Configs
  /\ ctx = "live" /\ pc = "validate" /\ index = 0
  /\ event = NoEvent /\ results = 0 /\ measured = 0

-----------------------------------------------------------------------------
(* SuiteConfig.Validate, and ScenarioConfig.Validate of each scenario.     *)
Concurrency(i) == IF i % 2 = 1 THEN 1 ELSE config.workers

PathValid(queries, workers) == 0 < queries /\ 0 < workers /\ workers <= queries

Valid ==
  /\ config.warmup >= 0
  /\ PathValid(config.queries, config.workers)
  /\ \A i \in 1..ScenarioCount : PathValid(config.queries, Concurrency(i))

Reject ==
  /\ pc = "validate" /\ ~Valid /\ pc' = "failed"
  /\ UNCHANGED <<config, ctx, index, event, results, measured>>

StartBenchmark ==
  /\ pc = "validate" /\ Valid
  /\ event' = Event("benchmark-started", "none", 0, config.queries, 0)
  /\ pc' = "loop"
  /\ UNCHANGED <<config, ctx, index, results, measured>>

-----------------------------------------------------------------------------
(* The loop of SuiteRunner.Run: the context is looked at before each       *)
(* scenario.                                                               *)
OneTooMany == index <= ScenarioCount
MoreScenarios == index < ScenarioCount

WarmupAlways == "warmup-direct"
FirstPath == IF config.warmup > 0 THEN "warmup-direct" ELSE "direct"

StartScenario ==
  /\ pc = "loop" /\ MoreScenarios /\ ctx = "live"
  /\ index' = index + 1
  /\ event' = [Event("scenario-started", "none", 0, config.queries, 0) EXCEPT !.index = index + 1]
  /\ pc' = FirstPath
  /\ UNCHANGED <<config, ctx, results, measured>>

Interrupted ==
  /\ pc = "loop" /\ MoreScenarios /\ ctx = "cancelled"
  /\ pc' = "failed"
  /\ UNCHANGED <<config, ctx, index, event, results, measured>>

CompleteBenchmark ==
  /\ pc = "loop" /\ ~MoreScenarios
  /\ event' = Event("benchmark-completed", "forwarded", config.queries, config.queries, 0)
  /\ pc' = "completed"
  /\ UNCHANGED <<config, ctx, index, results, measured>>

-----------------------------------------------------------------------------
(* RunPath, of the path pc.  A warmup is one worker's work.  RunPath       *)
(* rejects counts that make no path, which PathsAreRunnable excludes.      *)
Total == IF pc \in Warmups THEN config.warmup ELSE config.queries
Workers == IF pc \in Warmups THEN 1 ELSE Concurrency(index)

InPath == event.type \in {"phase-started", "phase-progress"}

StartPath ==
  /\ pc \in Paths /\ ~InPath
  /\ event.type = "phase-completed" => event.phase # pc
  /\ event' = Event("phase-started", pc, 0, Total, 0)
  /\ UNCHANGED <<config, ctx, pc, index, results, measured>>

(* Settling the queries up to current, at most successful of them well.    *)
Settle(type, current, successful) ==
  /\ event.current <= current
  /\ event.successful <= successful
  /\ successful <= event.successful + (current - event.current)
  /\ event' = Event(type, pc, current, Total, successful)
  /\ measured' = measured + IF pc \in Measurements THEN current - event.current ELSE 0

PathProgress ==
  /\ pc \in Paths /\ InPath
  /\ \E current \in (event.current + 1)..Total : \E successful \in 0..current :
       Settle("phase-progress", current, successful)
  /\ UNCHANGED <<config, ctx, pc, index, results>>

PathCompleted ==
  /\ pc \in Paths /\ InPath
  /\ \E successful \in 0..Total : Settle("phase-completed", Total, successful)
  /\ UNCHANGED <<config, ctx, pc, index, results>>

-----------------------------------------------------------------------------
(* RunScenario, after the path pc has completed.                           *)
PathDone == pc \in Paths /\ event.type = "phase-completed" /\ event.phase = pc

WarmupFailed ==
  /\ PathDone /\ pc \in Warmups /\ event.successful # Total
  /\ pc' = "failed"
  /\ UNCHANGED <<config, ctx, index, event, results, measured>>

WarmupDone ==
  /\ PathDone /\ pc \in Warmups /\ event.successful = Total
  /\ pc' = IF pc = "warmup-direct" THEN "warmup-forwarded" ELSE "direct"
  /\ UNCHANGED <<config, ctx, index, event, results, measured>>

DirectDone ==
  /\ PathDone /\ pc = "direct"
  /\ pc' = "forwarded"
  /\ UNCHANGED <<config, ctx, index, event, results, measured>>

CompleteScenario ==
  /\ PathDone /\ pc = "forwarded"
  /\ results' = results + 1
  /\ event' = Event("scenario-completed", "forwarded", config.queries, config.queries,
                    event.successful)
  /\ pc' = "loop"
  /\ UNCHANGED <<config, ctx, index, measured>>

(* The signal context of the command is cancelled.                         *)
Cancel ==
  /\ pc \notin {"completed", "failed"} /\ ctx = "live" /\ ctx' = "cancelled"
  /\ UNCHANGED <<config, pc, index, event, results, measured>>

Finished == pc \in {"completed", "failed"} /\ UNCHANGED vars

Next ==
  \/ Reject \/ StartBenchmark \/ StartScenario \/ Interrupted \/ CompleteBenchmark
  \/ StartPath \/ PathProgress \/ PathCompleted
  \/ WarmupFailed \/ WarmupDone \/ DirectDone \/ CompleteScenario
  \/ Cancel \/ Finished

Spec == Init /\ [][Next]_vars

-----------------------------------------------------------------------------
(* ProgressEvent.OverallCompleted and OverallTotal, which the terminal     *)
(* turns into a percentage and an estimate.                                *)
DirectOnly(e) == IF e.phase \in Measurements THEN e.current ELSE 0
PathsCompleted(e) ==
  IF e.phase = "direct" THEN e.current
  ELSE IF e.phase = "forwarded" THEN config.queries + e.current
  ELSE 0

OverallCompleted(e) ==
  IF config.queries <= 0 \/ e.index <= 0 THEN 0
  ELSE (e.index - 1) * 2 * config.queries + PathsCompleted(e)

OverallTotal == IF config.queries <= 0 THEN 0 ELSE ScenarioCount * 2 * config.queries

-----------------------------------------------------------------------------
(* Properties.                                                             *)

(* Whatever event the terminal has just been given, the overall progress   *)
(* it derives from it alone is the number of queries settled on measured   *)
(* paths so far: it never jumps, falls back or counts a warmup.  A suite   *)
(* that completes, cancelled late or not, has a result of every scenario   *)
(* and is at 100 percent.                                                  *)
ProgressIsTruthful ==
  /\ OverallCompleted(event) = measured
  /\ pc = "completed" => results = ScenarioCount /\ measured = OverallTotal

(* A configuration the suite accepted never makes RunPath refuse a path,   *)
(* neither a measured one nor a warmup (PathConfig.Validate).              *)
PathsAreRunnable == pc \in Paths => PathValid(Total, Workers)

=============================================================================
