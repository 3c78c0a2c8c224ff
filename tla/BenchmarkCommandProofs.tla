------------------------- MODULE BenchmarkCommandProofs -------------------------
(***************************************************************************)
(* Theorems about the command `homedns-dns benchmark`, for any number of   *)
(* scenarios, any workload, profiles, command lines and clock: about its   *)
(* suite (module BenchSuite), about the search for the server's process    *)
(* (TargetLookup), about what it shows (TerminalProgress), and about the   *)
(* whole from its flags to its exit code.                                  *)
(***************************************************************************)
EXTENDS BenchmarkCommand, TLAPS

-----------------------------------------------------------------------------
(* THE SUITE.  What an event alone says of the progress is what was        *)
(* measured, and no path is ever refused.                                  *)

PathEvents == {"phase-started", "phase-progress", "phase-completed"}

(* The path a path follows.                                                *)
Before(path) ==
  IF path = "warmup-forwarded" THEN "warmup-direct"
  ELSE IF path = "direct" THEN "warmup-forwarded"
  ELSE IF path = "forwarded" THEN "direct" ELSE "none"

(* In a path the last event is of the path itself, of the end of the one   *)
(* before, or of the start of the scenario.                                *)
AtFirst == event.type = "scenario-started" /\ event.phase = "none" /\ pc = FirstPath
Within == event.phase = pc /\ event.type \in PathEvents /\ event.total = Total
AfterPath ==
  /\ event.type = "phase-completed" /\ event.phase = Before(pc)
  /\ event.phase = "direct" => event.total = config.queries

InScenario ==
  pc \in Paths =>
    /\ index > 0 /\ results = index - 1
    /\ AtFirst \/ Within \/ AfterPath
    /\ event.type = "phase-completed" => event.current = event.total
    /\ pc \in Warmups => config.warmup > 0

BetweenScenarios ==
  pc = "loop" =>
    /\ results = index
    /\ event.type \in {"benchmark-started", "scenario-completed"}
    /\ IF index = 0 THEN event.phase = "none" ELSE event.phase = "forwarded"
    /\ index > 0 => event.current = config.queries

Outside ==
  /\ pc = "validate" => event = NoEvent /\ index = 0 /\ results = 0 /\ measured = 0
  /\ pc = "completed" =>
       /\ results = ScenarioCount /\ index = ScenarioCount
       /\ event.phase = "forwarded" /\ event.current = config.queries

(* The inductive invariant: which events the suite can be at, that a       *)
(* configuration it goes on with is valid, and that the measured queries   *)
(* are those the last event stands for.                                    *)
SuiteInv ==
  /\ TypeOK /\ InScenario /\ BetweenScenarios /\ Outside
  /\ event.index = index
  /\ pc \in Paths \cup {"loop", "completed"} => Valid
  /\ measured = OverallCompleted(event)

USE SuiteAssumption DEF SuiteAssumption

-----------------------------------------------------------------------------
(* Adding the two paths of one scenario to those before it.                *)
LEMMA OneMoreScenario ==
  ASSUME NEW i \in Int, NEW q \in Int
  PROVE  (i - 1) * 2 * q + (q + q) = ((i + 1) - 1) * 2 * q
OBVIOUS

LEMMA AllScenarios ==
  ASSUME NEW i \in Int, NEW q \in Int
  PROVE  (i - 1) * 2 * q + (q + q) = i * 2 * q
OBVIOUS

LEMMA ValidCounts ==
  ASSUME TypeOK, Valid
  PROVE  /\ config.queries \in Nat \ {0} /\ config.warmup \in Nat /\ config.workers \in Nat \ {0}
         /\ config.workers <= config.queries
<1>1. config.queries \in Int /\ config.warmup \in Int /\ config.workers \in Int
  BY DEF TypeOK, Configs
<1>2. QED
  BY <1>1 DEF Valid, PathValid

(* What the last event stands for is a number.                             *)
LEMMA MeasuredIsInt ==
  ASSUME SuiteInv PROVE measured \in Nat
BY DEF SuiteInv, TypeOK

LEMMA InitSuiteInv == Init => SuiteInv
<1> SUFFICES ASSUME Init PROVE SuiteInv
  OBVIOUS
<1>1. event = NoEvent
  BY DEF Init
<1>2. /\ event.index = 0 /\ event.current = 0 /\ event.total = 0 /\ event.successful = 0
      /\ event.type = "none" /\ event.phase = "none"
  BY <1>1 DEF NoEvent
<1>3. event \in [type : EventTypes, index : 0..ScenarioCount, phase : Paths \cup {"none"},
                current : Nat, total : Nat, successful : Nat]
  <2>1. NoEvent \in [type : EventTypes, index : 0..ScenarioCount, phase : Paths \cup {"none"},
                     current : Nat, total : Nat, successful : Nat]
    BY DEF NoEvent, EventTypes
  <2>2. QED
    BY <1>1, <2>1
<1>4. config \in Configs /\ ctx = "live" /\ pc = "validate" /\ index = 0 /\ results = 0 /\ measured = 0
  BY DEF Init
<1>5. TypeOK
  BY <1>2, <1>3, <1>4 DEF TypeOK
<1>6. InScenario /\ BetweenScenarios /\ Outside
  BY <1>1, <1>4 DEF InScenario, BetweenScenarios, Outside, Paths, Warmups, Measurements
<1>7. event.index = index /\ measured = OverallCompleted(event)
  BY <1>2, <1>4 DEF OverallCompleted
<1>8. pc \notin Paths \cup {"loop", "completed"}
  BY <1>4 DEF Paths, Warmups, Measurements
<1>9. QED
  BY <1>5, <1>6, <1>7, <1>8 DEF SuiteInv

(* Steps that leave the event, the position and the measured queries.      *)
LEMMA QuietStep ==
  ASSUME SuiteInv, Reject \/ Interrupted \/ WarmupFailed \/ Cancel \/ UNCHANGED vars
  PROVE  SuiteInv'
<1>1. UNCHANGED <<config, index, event, results, measured>>
  BY DEF Reject, Interrupted, WarmupFailed, Cancel, vars
<1>2. CASE pc' = "failed"
  BY <1>1, <1>2 DEF SuiteInv, TypeOK, InScenario, BetweenScenarios, Outside, Paths, Warmups,
     Measurements, OverallCompleted, PathsCompleted, Reject, Interrupted, WarmupFailed, Cancel, vars
<1>3. CASE pc' = pc
  <2>1. TypeOK'
    BY <1>1, <1>3 DEF SuiteInv, TypeOK, Cancel, vars, Reject, Interrupted, WarmupFailed
  <2>2. InScenario' /\ BetweenScenarios' /\ Outside'
    BY <1>1, <1>3 DEF SuiteInv, InScenario, AtFirst, Within, AfterPath, FirstPath, Total,
       BetweenScenarios, Outside
  <2>3. QED
    BY <1>1, <1>3, <2>1, <2>2 DEF SuiteInv, Valid, Concurrency, OverallCompleted, PathsCompleted
<1>4. QED
  BY <1>2, <1>3 DEF Reject, Interrupted, WarmupFailed, Cancel, vars

-----------------------------------------------------------------------------
(* The steps of the suite between the scenarios.                           *)
LEMMA StartsBenchmark == ASSUME SuiteInv, StartBenchmark PROVE SuiteInv'
<1>1. /\ event' = [type |-> "benchmark-started", index |-> index, phase |-> "none", current |-> 0,
                   total |-> config.queries, successful |-> 0]
      /\ Valid /\ pc' = "loop" /\ UNCHANGED <<config, ctx, index, results, measured>>
  BY DEF StartBenchmark, Event
<1>2. index = 0 /\ results = 0 /\ measured = 0
  BY DEF SuiteInv, Outside, StartBenchmark
<1>3. config.queries \in Nat \ {0}
  BY <1>1, ValidCounts DEF SuiteInv
<1>4. TypeOK'
  BY <1>1, <1>2, <1>3 DEF SuiteInv, TypeOK, EventTypes
<1>5. InScenario' /\ BetweenScenarios' /\ Outside'
  BY <1>1, <1>2 DEF InScenario, BetweenScenarios, Outside, Paths, Warmups, Measurements
<1>6. event'.index = index' /\ measured' = OverallCompleted(event)'
  BY <1>1, <1>2 DEF OverallCompleted
<1>7. Valid'
  BY <1>1 DEF Valid, Concurrency
<1>8. QED
  BY <1>4, <1>5, <1>6, <1>7 DEF SuiteInv

LEMMA StartsScenario == ASSUME SuiteInv, StartScenario PROVE SuiteInv'
<1>1. /\ event' = [type |-> "scenario-started", index |-> index + 1, phase |-> "none", current |-> 0,
                   total |-> config.queries, successful |-> 0]
      /\ pc = "loop" /\ index < ScenarioCount
      /\ index' = index + 1 /\ pc' = FirstPath /\ UNCHANGED <<config, ctx, results, measured>>
  BY DEF StartScenario, Event, MoreScenarios
<1>2. Valid /\ results = index /\ index \in 0..ScenarioCount /\ event.index = index
  BY <1>1 DEF SuiteInv, TypeOK, BetweenScenarios
<1>3. config.queries \in Nat \ {0} /\ config.warmup \in Nat
  BY <1>2, ValidCounts DEF SuiteInv
<1>4. pc' \in Paths /\ FirstPath' = FirstPath /\ (pc' \in Warmups => config.warmup > 0)
  BY <1>1 DEF FirstPath, Paths, Warmups, Measurements
<1>5. TypeOK'
  BY <1>1, <1>2, <1>3, <1>4 DEF SuiteInv, TypeOK, EventTypes
<1>6. InScenario' /\ BetweenScenarios' /\ Outside'
  BY <1>1, <1>2, <1>4
  DEF InScenario, AtFirst, BetweenScenarios, Outside, Paths, Warmups, Measurements
<1>7. measured' = OverallCompleted(event)'
  <2>1. OverallCompleted(event)' = ((index + 1) - 1) * 2 * config.queries
    BY <1>1, <1>2, <1>3 DEF OverallCompleted, PathsCompleted
  <2>2. CASE index = 0
    BY <1>1, <1>2, <1>3, <2>1, <2>2 DEF SuiteInv, OverallCompleted
  <2>3. CASE index > 0
    <3>1. measured = (index - 1) * 2 * config.queries + (config.queries + config.queries)
      BY <1>1, <1>2, <1>3, <2>3 DEF SuiteInv, BetweenScenarios, OverallCompleted, PathsCompleted
    <3>2. QED
      BY <1>1, <1>2, <1>3, <2>1, <3>1, OneMoreScenario
  <2>4. QED
    BY <1>2, <2>2, <2>3
<1>8. Valid' /\ event'.index = index'
  BY <1>1, <1>2 DEF Valid, Concurrency
<1>9. QED
  BY <1>5, <1>6, <1>7, <1>8 DEF SuiteInv

LEMMA CompletesBenchmark == ASSUME SuiteInv, CompleteBenchmark PROVE SuiteInv'
<1>1. /\ event' = [type |-> "benchmark-completed", index |-> index, phase |-> "forwarded",
                   current |-> config.queries, total |-> config.queries, successful |-> 0]
      /\ pc = "loop" /\ ~(index < ScenarioCount)
      /\ pc' = "completed" /\ UNCHANGED <<config, ctx, index, results, measured>>
  BY DEF CompleteBenchmark, Event, MoreScenarios
<1>2. Valid /\ index = ScenarioCount /\ results = index /\ event.index = index
  BY <1>1 DEF SuiteInv, TypeOK, BetweenScenarios
<1>3. config.queries \in Nat \ {0}
  BY <1>2, ValidCounts DEF SuiteInv
<1>4. TypeOK'
  BY <1>1, <1>2, <1>3 DEF SuiteInv, TypeOK, EventTypes, Paths, Measurements
<1>5. InScenario' /\ BetweenScenarios' /\ Outside'
  BY <1>1, <1>2 DEF InScenario, BetweenScenarios, Outside, Paths, Warmups, Measurements
<1>6. event.phase = "forwarded" /\ event.current = config.queries
  BY <1>1, <1>2 DEF SuiteInv, BetweenScenarios
<1>7. measured' = OverallCompleted(event)'
  BY <1>1, <1>2, <1>3, <1>6 DEF SuiteInv, OverallCompleted, PathsCompleted
<1>8. Valid' /\ event'.index = index'
  BY <1>1, <1>2 DEF Valid, Concurrency
<1>9. QED
  BY <1>4, <1>5, <1>7, <1>8 DEF SuiteInv

-----------------------------------------------------------------------------
(* The steps of a path.                                                    *)
LEMMA InPathFacts ==
  ASSUME SuiteInv, pc \in Paths
  PROVE  /\ Valid /\ config.queries \in Nat \ {0} /\ Total \in Nat \ {0}
         /\ index \in 1..ScenarioCount /\ results = index - 1 /\ event.index = index
         /\ pc \in Measurements => Total = config.queries
<1>1. Valid
  BY DEF SuiteInv
<1>2. config.queries \in Nat \ {0} /\ config.warmup \in Nat
  BY <1>1, ValidCounts DEF SuiteInv
<1>3. Total \in Nat \ {0} /\ (pc \in Measurements => Total = config.queries)
  BY <1>2 DEF SuiteInv, InScenario, Total, Warmups, Measurements
<1>4. QED
  BY <1>1, <1>2, <1>3 DEF SuiteInv, TypeOK, InScenario

LEMMA StartsPath == ASSUME SuiteInv, StartPath PROVE SuiteInv'
<1>1. /\ event' = [type |-> "phase-started", index |-> index, phase |-> pc, current |-> 0,
                   total |-> Total, successful |-> 0]
      /\ pc \in Paths /\ ~InPath /\ (event.type = "phase-completed" => event.phase # pc)
      /\ UNCHANGED <<config, ctx, pc, index, results, measured>>
  BY DEF StartPath, Event
<1>2. /\ Valid /\ config.queries \in Nat \ {0} /\ Total \in Nat \ {0}
      /\ index \in 1..ScenarioCount /\ results = index - 1 /\ event.index = index
  BY <1>1, InPathFacts
<1>3. AtFirst \/ AfterPath
  BY <1>1 DEF SuiteInv, InScenario, Within, InPath, PathEvents
<1>4. TypeOK'
  BY <1>1, <1>2 DEF SuiteInv, TypeOK, EventTypes
<1>5. Total' = Total /\ Valid'
  BY <1>1, <1>2 DEF Total, Valid, Concurrency
<1>6. InScenario' /\ BetweenScenarios' /\ Outside'
  BY <1>1, <1>2, <1>5
  DEF SuiteInv, InScenario, Within, PathEvents, BetweenScenarios, Outside, Paths, Warmups, Measurements
<1>7. PathsCompleted(event)' = PathsCompleted(event)
  <2>1. CASE AtFirst
    BY <1>1, <1>2, <2>1 DEF AtFirst, FirstPath, PathsCompleted
  <2>2. CASE AfterPath
    BY <1>1, <1>2, <2>2
    DEF SuiteInv, InScenario, AfterPath, Before, PathsCompleted, Paths, Warmups, Measurements
  <2>3. QED
    BY <1>3, <2>1, <2>2
<1>8. measured' = OverallCompleted(event)'
  BY <1>1, <1>2, <1>7 DEF SuiteInv, OverallCompleted
<1>9. QED
  BY <1>1, <1>2, <1>4, <1>5, <1>6, <1>8 DEF SuiteInv

LEMMA Settles ==
  ASSUME SuiteInv, pc \in Paths, InPath,
         NEW type \in {"phase-progress", "phase-completed"},
         NEW current \in 0..Total, NEW successful \in 0..Total,
         Settle(type, current, successful),
         type = "phase-completed" => current = Total,
         UNCHANGED <<config, ctx, pc, index, results>>
  PROVE  SuiteInv'
<1>1. /\ event' = [type |-> type, index |-> index, phase |-> pc, current |-> current,
                   total |-> Total, successful |-> successful]
      /\ event.current <= current /\ successful <= event.successful + (current - event.current)
      /\ measured' = measured + IF pc \in Measurements THEN current - event.current ELSE 0
  BY DEF Settle, Event
<1>2. /\ Valid /\ config.queries \in Nat \ {0} /\ Total \in Nat \ {0}
      /\ index \in 1..ScenarioCount /\ results = index - 1 /\ event.index = index
  BY InPathFacts
<1>3. event.phase = pc /\ event.current \in Nat /\ event.successful \in Nat
      /\ event.successful <= event.current /\ measured \in Nat
  BY DEF SuiteInv, TypeOK, InScenario, InPath, AtFirst, Within, AfterPath
<1>4. TypeOK'
  BY <1>1, <1>2, <1>3 DEF SuiteInv, TypeOK, EventTypes
<1>5. Total' = Total /\ Valid'
  BY <1>2 DEF Total, Valid, Concurrency
<1>6. InScenario' /\ BetweenScenarios' /\ Outside'
  BY <1>1, <1>2, <1>5
  DEF SuiteInv, InScenario, Within, PathEvents, BetweenScenarios, Outside, Paths, Warmups, Measurements
<1>7. PathsCompleted(event)' = PathsCompleted(event) + (measured' - measured)
  BY <1>1, <1>2, <1>3 DEF PathsCompleted, Paths, Warmups, Measurements
<1>8. measured' = OverallCompleted(event)'
  <2>1. measured = (index - 1) * 2 * config.queries + PathsCompleted(event)
    BY <1>2 DEF SuiteInv, OverallCompleted
  <2>2. OverallCompleted(event)' = (index - 1) * 2 * config.queries + PathsCompleted(event)'
    BY <1>1, <1>2 DEF OverallCompleted
  <2>3. PathsCompleted(event) \in Int /\ measured' \in Int /\ (index - 1) * 2 * config.queries \in Int
    BY <1>1, <1>2, <1>3 DEF PathsCompleted
  <2>4. QED
    BY <1>3, <1>7, <2>1, <2>2, <2>3
<1>9. QED
  BY <1>1, <1>2, <1>4, <1>5, <1>6, <1>8 DEF SuiteInv

-----------------------------------------------------------------------------
(* The steps of a scenario after a path.                                   *)
LEMMA GoesOn == ASSUME SuiteInv, WarmupDone \/ DirectDone PROVE SuiteInv'
<1>1. /\ pc \in Paths /\ event.type = "phase-completed" /\ event.phase = pc
      /\ UNCHANGED <<config, ctx, index, event, results, measured>>
      /\ pc' \in {"warmup-forwarded", "direct", "forwarded"} /\ Before(pc') = pc
  BY DEF WarmupDone, DirectDone, PathDone, Before, Warmups, Paths, Measurements
<1>2. /\ Valid /\ index \in 1..ScenarioCount /\ results = index - 1 /\ event.index = index
      /\ (pc \in Measurements => Total = config.queries)
  BY <1>1, InPathFacts
<1>3. TypeOK'
  BY <1>1 DEF SuiteInv, TypeOK, Paths, Warmups, Measurements
<1>4. Within /\ event.current = event.total /\ (pc \in Warmups => config.warmup > 0)
  BY <1>1 DEF SuiteInv, InScenario, AtFirst, Within, AfterPath, Before, Paths, Warmups, Measurements
<1>5. AfterPath'
  BY <1>1, <1>2, <1>4 DEF AfterPath, Within, Before, Measurements
<1>6. pc' \in Warmups => pc \in Warmups
  BY <1>1 DEF Before, Warmups
<1>7. InScenario' /\ BetweenScenarios' /\ Outside'
  BY <1>1, <1>2, <1>4, <1>5, <1>6 DEF InScenario, BetweenScenarios, Outside
<1>8. QED
  BY <1>1, <1>2, <1>3, <1>7 DEF SuiteInv, Valid, Concurrency, OverallCompleted, PathsCompleted

LEMMA CompletesScenario == ASSUME SuiteInv, CompleteScenario PROVE SuiteInv'
<1>1. /\ event' = [type |-> "scenario-completed", index |-> index, phase |-> "forwarded",
                   current |-> config.queries, total |-> config.queries,
                   successful |-> event.successful]
      /\ pc = "forwarded" /\ event.type = "phase-completed" /\ event.phase = pc
      /\ pc' = "loop" /\ results' = results + 1
      /\ UNCHANGED <<config, ctx, index, measured>>
  BY DEF CompleteScenario, PathDone, Event
<1>2. /\ Valid /\ config.queries \in Nat \ {0} /\ Total = config.queries
      /\ index \in 1..ScenarioCount /\ results = index - 1 /\ event.index = index
  BY <1>1, InPathFacts DEF Paths, Measurements
<1>3. event.current = config.queries /\ event.successful \in Nat /\ event.successful <= config.queries
  BY <1>1, <1>2
  DEF SuiteInv, TypeOK, InScenario, AtFirst, Within, AfterPath, Before, Paths, Measurements
<1>4. TypeOK'
  BY <1>1, <1>2, <1>3 DEF SuiteInv, TypeOK, EventTypes, Paths, Measurements
<1>5. InScenario' /\ BetweenScenarios' /\ Outside'
  BY <1>1, <1>2 DEF InScenario, BetweenScenarios, Outside, Paths, Warmups, Measurements
<1>6. measured' = OverallCompleted(event)'
  BY <1>1, <1>2, <1>3 DEF SuiteInv, OverallCompleted, PathsCompleted
<1>7. Valid' /\ event'.index = index'
  BY <1>1, <1>2 DEF Valid, Concurrency
<1>8. QED
  BY <1>4, <1>5, <1>6, <1>7 DEF SuiteInv

(* SuiteInv is inductive.                                                      *)
LEMMA StepSuiteInv == SuiteInv /\ [Next]_vars => SuiteInv'
<1> SUFFICES ASSUME SuiteInv, [Next]_vars PROVE SuiteInv'
  OBVIOUS
<1>1. CASE StartBenchmark \/ StartScenario \/ CompleteBenchmark
  BY <1>1, StartsBenchmark, StartsScenario, CompletesBenchmark
<1>2. CASE StartPath
  BY <1>2, StartsPath
<1>3. CASE PathProgress
  <2>1. PICK current \in (event.current + 1)..Total : \E successful \in 0..current :
          Settle("phase-progress", current, successful)
    BY <1>3 DEF PathProgress
  <2>2. PICK successful \in 0..current : Settle("phase-progress", current, successful)
    BY <2>1
  <2>3. current \in 0..Total /\ successful \in 0..Total
    BY <1>3, <2>1, <2>2, InPathFacts DEF PathProgress, SuiteInv, TypeOK
  <2>4. QED
    BY <1>3, <2>2, <2>3, Settles DEF PathProgress
<1>4. CASE PathCompleted
  <2>1. PICK successful \in 0..Total : Settle("phase-completed", Total, successful)
    BY <1>4 DEF PathCompleted
  <2>2. Total \in 0..Total
    BY <1>4, InPathFacts DEF PathCompleted
  <2>3. QED
    BY <1>4, <2>1, <2>2, Settles DEF PathCompleted
<1>5. CASE WarmupDone \/ DirectDone \/ CompleteScenario
  BY <1>5, GoesOn, CompletesScenario
<1>6. QED
  BY <1>1, <1>2, <1>3, <1>4, <1>5, QuietStep DEF Next, Finished

(* The inductive invariant holds throughout.                               *)
THEOREM SuiteInductive == Spec => []SuiteInv
BY InitSuiteInv, StepSuiteInv, PTL DEF Spec

(* The type invariant: the counts of an event are never above its total.   *)
THEOREM SuiteTypeCorrect == Spec => []TypeOK
<1>1. SuiteInv => TypeOK
  BY DEF SuiteInv
<1>2. QED
  BY <1>1, SuiteInductive, PTL

LEMMA SuiteIsTruthful == SuiteInv => ProgressIsTruthful
<1>1. ASSUME SuiteInv PROVE ProgressIsTruthful
  <2>1. ASSUME pc = "completed" PROVE results = ScenarioCount /\ measured = OverallTotal
    <3>1. /\ Valid /\ results = ScenarioCount /\ index = ScenarioCount /\ event.index = index
          /\ event.phase = "forwarded" /\ event.current = config.queries
      BY <1>1, <2>1 DEF SuiteInv, Outside
    <3>2. config.queries \in Nat \ {0}
      BY <1>1, <3>1, ValidCounts DEF SuiteInv
    <3>3. measured = (ScenarioCount - 1) * 2 * config.queries + (config.queries + config.queries)
      BY <1>1, <3>1, <3>2 DEF SuiteInv, OverallCompleted, PathsCompleted
    <3>4. QED
      BY <3>1, <3>2, <3>3, AllScenarios DEF OverallTotal
  <2>2. QED
    BY <1>1, <2>1 DEF SuiteInv, ProgressIsTruthful
<1>2. QED
  BY <1>1

(* The overall progress of any event is what was measured so far, and a    *)
(* completed suite has measured everything (progress.go, suite.go).        *)
THEOREM Truthful == Spec => []ProgressIsTruthful
BY SuiteIsTruthful, SuiteInductive, PTL

LEMMA SuiteIsRunnable == SuiteInv => PathsAreRunnable
<1>1. ASSUME SuiteInv, pc \in Paths PROVE PathValid(Total, Workers)
  <2>1. Valid /\ Total \in Nat \ {0} /\ index \in 1..ScenarioCount
    BY <1>1, InPathFacts
  <2>2. config.queries \in Int /\ config.workers \in Int
    BY <1>1, <2>1, ValidCounts DEF SuiteInv
  <2>3. CASE pc \in Warmups
    BY <2>1, <2>3 DEF PathValid, Workers
  <2>4. CASE pc \notin Warmups
    BY <2>1, <2>2, <2>4 DEF Valid, PathValid, Workers, Total
  <2>5. QED
    BY <2>3, <2>4
<1>2. QED
  BY <1>1 DEF PathsAreRunnable

(* What the suite accepted RunPath accepts: PathConfig.Validate never      *)
(* fails in a benchmark (suite.go, scenario.go, config.go).                *)
THEOREM Runnable == Spec => []PathsAreRunnable
BY SuiteIsRunnable, SuiteInductive, PTL

-----------------------------------------------------------------------------
(* THE SEARCH.  Although it lists and reads at different times, it misses  *)
(* no server that stays, and takes one server for two only if two were     *)
(* alive at once.                                                          *)

Uniquely == \A p, q \in processes : p.pid = q.pid => p = q

(* A server that stays has been listed once the cursor has passed it, and  *)
(* is then among the entries until it is among the matches.                *)
SteadyKept ==
  /\ \A p \in steady : IsServer(p.args)
  /\ lookup = "idle" => cursor = 1
  /\ lookup = "listing" => \A p \in steady : p.pid < cursor => p.pid \in entries
  /\ lookup = "reading" => \A p \in steady : p.pid \in entries \cup matches
  /\ lookup = "done" => \A p \in steady : p.pid \in matches

(* Two that match were alive at once as soon as one of them has matched    *)
(* and the other, listed before that, lives and is still to be read.       *)
Crowding ==
  /\ Searching /\ TwoMatch => crowded
  /\ lookup \in {"idle", "listing"} => matches = {}
  /\ lookup = "reading" /\ matches # {} =>
       \A p \in processes : p.pid \in entries /\ IsHomeDNSServerProcess(p.args) => crowded
  /\ \A a, b \in matches : a # b => crowded

(* The inductive invariant.                                                *)
LookupInv == LookupTypeOK /\ Uniquely /\ SteadyKept /\ Crowding

-----------------------------------------------------------------------------
(* What the flags of the server make of its arguments, the search does     *)
(* too, if --config is given once.                                         *)
LEMMA ServersMatch ==
  ASSUME NEW args, IsServer(args) PROVE IsHomeDNSServerProcess(args)
<1>1. PICK i \in ConfigFlags(args) :
        AllFlags(args) = {i} /\ (args[i] = "--config" => i < Len(args))
  BY DEF IsServer
<1>2. i \in Int /\ ConfigFlags(args) = {i}
  BY <1>1 DEF ConfigFlags, AllFlags
<1>3. LastFlag(args) = i
  BY <1>1, <1>2 DEF LastFlag
<1>4. ServedPath(args) = IF args[i] \in DOMAIN Joined THEN Joined[args[i]] ELSE args[i + 1]
  BY <1>3 DEF ServedPath
<1>5. args[i] = "--config" \/ args[i] \in DOMAIN Joined
  BY DEF ConfigFlags
<1>6. SameConfigurationPath(ServedPath(args))
  BY DEF IsServer
<1>7. FirstConfigMatches(args)
  BY <1>1, <1>2, <1>4, <1>5, <1>6, LookupAssumption DEF FirstConfigMatches, LookupAssumption
<1>8. QED
  BY <1>7 DEF IsServer, IsHomeDNSServerProcess

LEMMA BoundIsNat == MaxPid \in Nat
BY LookupAssumption DEF LookupAssumption

LEMMA InitLookupInv == LookupInit => LookupInv
<1> SUFFICES ASSUME LookupInit PROVE LookupInv
  OBVIOUS
<1>1. LookupTypeOK
  <2>1. /\ processes = {} /\ lastPid = 0 /\ lookup = "idle" /\ cursor = 1
        /\ entries = {} /\ matches = {} /\ steady = {} /\ crowded = FALSE
    BY DEF LookupInit
  <2>2. lastPid \in 0..MaxPid /\ cursor \in 1..(lastPid + 1)
    BY <2>1, BoundIsNat
  <2>3. /\ processes \subseteq [pid : 1..lastPid, args : CommandLines]
        /\ entries \subseteq 1..lastPid /\ matches \subseteq 1..lastPid /\ steady \subseteq processes
    BY <2>1
  <2>4. QED
    BY <2>1, <2>2, <2>3 DEF LookupTypeOK
<1>2. Uniquely /\ SteadyKept /\ Crowding
  BY DEF LookupInit, Uniquely, SteadyKept, Crowding, Searching
<1>3. QED
  BY <1>1, <1>2 DEF LookupInv

LEMMA TypeStep ==
  ASSUME LookupTypeOK, LookupNext \/ ProcessStarts \/ ProcessEnds
  PROVE  LookupTypeOK'
<1>1. CASE BeginLookup
  BY <1>1 DEF LookupTypeOK, BeginLookup, hostVars, Servers, TwoMatch
<1>2. CASE ListEntry
  <2>1. /\ cursor' = cursor + 1 /\ cursor <= lastPid
        /\ UNCHANGED <<processes, lastPid, lookup, matches, steady, crowded>>
    BY <1>2 DEF ListEntry, hostVars
  <2>2. entries' \subseteq entries \cup {cursor}
    BY <1>2 DEF ListEntry
  <2>3. cursor \in 1..lastPid /\ lastPid \in Nat
    BY <2>1, BoundIsNat DEF LookupTypeOK
  <2>4. QED
    BY <2>1, <2>2, <2>3 DEF LookupTypeOK
<1>6. CASE ListEnds \/ LookupEnds
  BY <1>6 DEF LookupTypeOK, ListEnds, LookupEnds, hostVars
<1>7. CASE ReadEntry
  BY <1>7 DEF LookupTypeOK, ReadEntry, hostVars
<1>3. CASE ProcessStarts
  BY <1>3, BoundIsNat DEF LookupTypeOK, ProcessStarts, Searching, TwoMatch
<1>4. CASE ProcessEnds
  BY <1>4 DEF LookupTypeOK, ProcessEnds
<1>5. QED
  BY <1>1, <1>2, <1>3, <1>4, <1>6, <1>7 DEF LookupNext

(* A process that starts has a number of its own, and none that is listed. *)
LEMMA Starts == ASSUME LookupInv, ProcessStarts PROVE LookupInv'
<1>1. PICK args \in CommandLines : processes' = processes \cup {[pid |-> lastPid + 1, args |-> args]}
  BY DEF ProcessStarts
<1>2. /\ lastPid' = lastPid + 1 /\ UNCHANGED <<lookup, cursor, entries, matches, steady>>
      /\ crowded' = (crowded \/ (Searching /\ TwoMatch'))
  BY DEF ProcessStarts
<1>3. /\ lastPid \in Nat /\ \A p \in processes : p.pid \in 1..lastPid
      /\ entries \subseteq 1..lastPid /\ crowded \in BOOLEAN
  BY BoundIsNat DEF LookupInv, LookupTypeOK
<1>4. LookupTypeOK'
  BY TypeStep DEF LookupInv
<1>5. \A p \in processes' : p \in processes \/ p.pid = lastPid + 1
  BY <1>1
<1>6. Uniquely'
  BY <1>1, <1>3 DEF LookupInv, Uniquely
<1>7. SteadyKept'
  BY <1>2 DEF LookupInv, SteadyKept
<1>8. Crowding'
  <2>1. Searching' = Searching
    BY <1>2 DEF Searching
  <2>2. \A p \in processes' : p.pid \in entries => p \in processes
    BY <1>3, <1>5
  <2>3. QED
    BY <1>2, <2>1, <2>2 DEF LookupInv, Crowding
<1>9. QED
  BY <1>4, <1>6, <1>7, <1>8 DEF LookupInv

LEMMA Ends == ASSUME LookupInv, ProcessEnds PROVE LookupInv'
<1>1. /\ processes' \subseteq processes /\ steady' \subseteq steady
      /\ UNCHANGED <<lastPid, lookup, cursor, entries, matches, crowded>>
  BY DEF ProcessEnds
<1>2. LookupTypeOK'
  BY TypeStep DEF LookupInv
<1>3. Uniquely' /\ SteadyKept'
  BY <1>1 DEF LookupInv, Uniquely, SteadyKept
<1>4. Crowding'
  <2>1. Searching' = Searching /\ (TwoMatch' => TwoMatch)
    BY <1>1 DEF Searching, TwoMatch
  <2>2. QED
    BY <1>1, <2>1 DEF LookupInv, Crowding
<1>5. QED
  BY <1>2, <1>3, <1>4 DEF LookupInv

LEMMA Begins == ASSUME LookupInv, BeginLookup PROVE LookupInv'
<1>1. /\ lookup = "idle" /\ lookup' = "listing" /\ steady' = Servers /\ crowded' = TwoMatch
      /\ UNCHANGED <<processes, lastPid, cursor, entries, matches>>
  BY DEF BeginLookup, hostVars
<1>2. cursor = 1 /\ \A p \in Servers : p \in processes /\ ~(p.pid < 1) /\ IsServer(p.args)
  BY <1>1, BoundIsNat DEF LookupInv, SteadyKept, LookupTypeOK, Servers
<1>3. LookupTypeOK' /\ Uniquely'
  BY <1>1, TypeStep DEF LookupNext, LookupInv, Uniquely
<1>4. SteadyKept'
  BY <1>1, <1>2 DEF SteadyKept
<1>5. Crowding'
  BY <1>1 DEF LookupInv, Crowding, TwoMatch
<1>6. QED
  BY <1>3, <1>4, <1>5 DEF LookupInv

LEMMA Lists == ASSUME LookupInv, ListEntry \/ ListEnds PROVE LookupInv'
<1>1. /\ lookup = "listing" /\ lookup' \in {"listing", "reading"}
      /\ UNCHANGED <<processes, lastPid, matches, steady, crowded>>
  BY DEF ListEntry, ListEnds, hostVars
<1>2. /\ cursor \in Int /\ steady \subseteq processes /\ matches = {}
      /\ \A p \in processes : p.pid \in 1..lastPid
      /\ lastPid \in Nat
  BY <1>1, BoundIsNat DEF LookupInv, LookupTypeOK, Crowding
<1>3. LookupTypeOK' /\ Uniquely'
  BY <1>1, TypeStep DEF LookupNext, LookupInv, Uniquely
<1>4. CASE ListEntry
  <2>1. /\ lookup' = "listing" /\ cursor' = cursor + 1
        /\ entries' = entries \cup ({cursor} \cap {p.pid : p \in processes})
    BY <1>1, <1>4 DEF ListEntry
  <2>2. ASSUME NEW p \in steady, p.pid < cursor' PROVE p.pid \in entries'
    <3>1. p \in processes /\ p.pid \in Int
      BY <1>2
    <3>2. CASE p.pid < cursor
      BY <1>1, <2>1, <3>2 DEF LookupInv, SteadyKept
    <3>3. CASE p.pid = cursor
      BY <2>1, <3>1, <3>3
    <3>4. QED
      BY <1>2, <2>1, <2>2, <3>1, <3>2, <3>3
  <2>3. SteadyKept'
    BY <1>1, <2>1, <2>2 DEF LookupInv, SteadyKept
  <2>4. QED
    BY <1>1, <1>2, <1>3, <2>1, <2>3 DEF LookupInv, Crowding, Searching, TwoMatch
<1>5. CASE ListEnds
  <2>1. lookup' = "reading" /\ cursor > lastPid /\ entries' = entries
    BY <1>5 DEF ListEnds
  <2>2. \A p \in steady : p.pid < cursor
    BY <1>2, <2>1
  <2>3. SteadyKept'
    BY <1>1, <2>1, <2>2 DEF LookupInv, SteadyKept
  <2>4. QED
    BY <1>1, <1>2, <1>3, <2>1, <2>3 DEF LookupInv, Crowding, Searching, TwoMatch
<1>6. QED
  BY <1>4, <1>5

LEMMA Reads == ASSUME LookupInv, ReadEntry PROVE LookupInv'
<1>1. PICK pid \in entries :
        /\ entries' = entries \ {pid}
        /\ matches' = IF Matches(pid) THEN matches \cup {pid} ELSE matches
  BY DEF ReadEntry
<1>2. lookup = "reading" /\ UNCHANGED <<processes, lastPid, lookup, cursor, steady, crowded>>
  BY DEF ReadEntry, hostVars
<1>3. LookupTypeOK' /\ Uniquely'
  BY <1>2, TypeStep DEF LookupNext, LookupInv, Uniquely
<1>4. ASSUME NEW p \in steady PROVE p.pid \in entries' \cup matches'
  <2>1. p \in processes /\ IsHomeDNSServerProcess(p.args)
    BY ServersMatch DEF LookupInv, LookupTypeOK, SteadyKept
  <2>2. p.pid = pid => Matches(pid)
    BY <2>1 DEF Matches
  <2>3. QED
    BY <1>1, <1>2, <2>2 DEF LookupInv, SteadyKept
<1>5. SteadyKept'
  BY <1>2, <1>4 DEF LookupInv, SteadyKept
<1>6. Crowding'
  <2>1. CASE ~Matches(pid)
    BY <1>1, <1>2, <2>1 DEF LookupInv, Crowding, Searching, TwoMatch
  <2>2. CASE Matches(pid)
    <3>1. PICK p \in processes : p.pid = pid /\ IsHomeDNSServerProcess(p.args)
      BY <2>2 DEF Matches
    <3>2. \A a \in matches' : a # pid => a \in matches
      BY <1>1
    <3>3. matches # {} => crowded
      BY <1>1, <1>2, <3>1 DEF LookupInv, Crowding
    <3>4. ASSUME NEW q \in processes, q.pid \in entries', IsHomeDNSServerProcess(q.args)
          PROVE  crowded
      <4>1. q # p
        BY <1>1, <3>1, <3>4
      <4>2. TwoMatch
        BY <3>1, <3>4, <4>1 DEF TwoMatch
      <4>3. QED
        BY <1>2, <4>2 DEF LookupInv, Crowding, Searching
    <3>5. QED
      BY <1>1, <1>2, <3>2, <3>3, <3>4 DEF LookupInv, Crowding, Searching, TwoMatch
  <2>3. QED
    BY <2>1, <2>2
<1>7. QED
  BY <1>3, <1>5, <1>6 DEF LookupInv

LEMMA LookupIsOver == ASSUME LookupInv, LookupEnds PROVE LookupInv'
<1>1. /\ lookup = "reading" /\ entries = {} /\ lookup' = "done"
      /\ UNCHANGED <<processes, lastPid, cursor, entries, matches, steady, crowded>>
  BY DEF LookupEnds, hostVars
<1>2. LookupTypeOK' /\ Uniquely'
  BY <1>1, TypeStep DEF LookupNext, LookupInv, Uniquely
<1>3. SteadyKept' /\ Crowding'
  BY <1>1 DEF LookupInv, SteadyKept, Crowding, Searching
<1>4. QED
  BY <1>2, <1>3 DEF LookupInv

-----------------------------------------------------------------------------
(* The inductive invariant holds throughout.                               *)
THEOREM LookupInductive == LookupSpec => []LookupInv
<1>1. LookupInv /\ UNCHANGED <<hostVars, lookupVars>> => LookupInv'
  BY DEF hostVars, lookupVars, LookupInv, LookupTypeOK, Uniquely, SteadyKept, Crowding, Searching, TwoMatch
<1>2. LookupInv /\ [LookupNext \/ ProcessStarts \/ ProcessEnds]_<<hostVars, lookupVars>> => LookupInv'
  BY <1>1, Starts, Ends, Begins, Lists, Reads, LookupIsOver DEF LookupNext
<1>3. QED
  BY InitLookupInv, <1>2, PTL DEF LookupSpec

(* The type invariant of the search.                                       *)
THEOREM LookupTypeCorrect == LookupSpec => []LookupTypeOK
<1>1. LookupInv => LookupTypeOK
  BY DEF LookupInv
<1>2. QED
  BY <1>1, LookupInductive, PTL

LEMMA LookupInvIsSound == LookupInv => LookupIsSound
BY DEF LookupInv, SteadyKept, Crowding, LookupIsSound

(* A server that was alive throughout is among the matches, and several    *)
(* matches mean that two were alive at once (findHomeDNSServerProcess).    *)
THEOREM Sound == LookupSpec => []LookupIsSound
BY LookupInvIsSound, LookupInductive, PTL

-----------------------------------------------------------------------------
(* THE TERMINAL.  What it has printed last, next to the last event.        *)

Key == <<index, pc>>

(* A line of progress is of the path the last event is of, and not ahead   *)
(* of it.                                                                  *)
ProgressLine ==
  line.type = "phase-progress" =>
    /\ event.type = "phase-progress" /\ event.phase \in Measurements
    /\ line.index = event.index /\ line.phase = event.phase /\ line.total = event.total
    /\ line.current \in 1..event.current
    /\ line.bar \in Bars(line)

TookLine ==
  line.type \in Summaries => elapsed \in Durations /\ line.took = FormatDuration(elapsed)

(* An event is reported, and dropped, no earlier than its observation: the *)
(* last line of a path is at least as old as the clock reading the next    *)
(* report waits for.                                                       *)
Throttles ==
  /\ skipped \in 0..1
  /\ skipped = 1 => pc \in Measurements /\ event.type = "phase-progress"
  /\ due => pc \in Paths /\ InPath
  /\ pc \in Measurements /\ (due \/ skipped = 1) => lastProgressAt <= lastEventByPhase[Key]
  /\ due /\ skipped = 1 => completed >= Total \/ lastEventByPhase[Key] = Second

(* A path without progress has no line yet, whose age could throttle one.  *)
Fresh(i, path) ==
  \/ i > index
  \/ i = index /\ pc \in Warmups
  \/ i = index /\ pc = "direct" /\ path = "forwarded"
  \/ i = index /\ pc = path /\ (event.phase = pc => event.type = "phase-started")

FirstLines ==
  \A i \in 1..ScenarioCount, path \in Measurements :
    Fresh(i, path) => lastEventByPhase[<<i, path>>] = Second

Advances == event.type = "phase-progress" => event.current > 0

TerminalInv ==
  /\ ProgressTypeOK /\ ProgressLine /\ TookLine /\ Throttles /\ FirstLines /\ Advances
  /\ LinesKeepUp

-----------------------------------------------------------------------------
(* Dividing.                                                               *)
LEMMA Division ==
  ASSUME NEW a \in Nat, NEW n \in Nat \ {0}
  PROVE  a \div n \in Nat /\ a % n \in 0..(n - 1) /\ a = n * (a \div n) + (a % n)
OBVIOUS

(* A number of whole parts below another number of them.                   *)
LEMMA FewerParts ==
  ASSUME NEW n \in Nat \ {0}, NEW p \in Int, NEW q \in Int, n * p < n * q
  PROVE  p < q
<1> SUFFICES ASSUME q <= p PROVE FALSE
  OBVIOUS
<1>1. PICK d \in Nat : p = q + d
  BY p - q \in Nat
<1>2. n * p = n * q + n * d
  BY <1>1
<1>3. n * d \in Nat
  BY <1>1
<1>4. QED
  BY <1>2, <1>3

LEMMA DivisionGrows ==
  ASSUME NEW a \in Nat, NEW b \in Nat, NEW n \in Nat \ {0}, a <= b
  PROVE  a \div n <= b \div n /\ (a < b /\ b % n = 0 => a \div n < b \div n)
<1> DEFINE p == a \div n
           q == b \div n
<1>1. /\ p \in Nat /\ q \in Nat /\ a % n \in 0..(n - 1) /\ b % n \in 0..(n - 1)
      /\ a = n * p + (a % n) /\ b = n * q + (b % n)
  BY Division
<1> HIDE DEF p, q
<1>2. n * p \in Nat /\ n * q \in Nat
  BY <1>1
<1>3. p <= q
  <2>1. n * (q + 1) = n * q + n
    BY <1>1
  <2>2. p < q + 1
    BY <1>1, <1>2, <2>1, FewerParts
  <2>3. QED
    BY <1>1, <2>2
<1>4. ASSUME a < b, b % n = 0 PROVE p < q
  <2>1. n * p < n * q
    BY <1>1, <1>2, <1>4
  <2>2. QED
    BY <1>1, <2>1, FewerParts
<1>5. QED
  BY <1>3, <1>4 DEF p, q

(* The bar is full when everything is done and only then.                  *)
LEMMA BarsBound ==
  ASSUME NEW e, e.total \in Nat \ {0}, e.current \in 0..e.total, NEW bar \in Bars(e)
  PROVE  bar \in 0..Width /\ (bar = Width <=> e.current = e.total)
<1> DEFINE c == e.current
           t == e.total
           marks == (Width * c) \div t
           rest == (Width * c) % t
<1>1. t \in Nat \ {0} /\ c \in 0..t /\ 30 * c \in Nat
  OBVIOUS
<1>2. marks \in Nat /\ rest \in 0..(t - 1) /\ 30 * c = t * marks + rest
  BY <1>1, Division DEF Width
<1>3. bar = marks \/ (bar = marks - 1 /\ rest = 0 /\ 0 < c /\ c < t)
  BY DEF Bars
<1> HIDE DEF c, t, marks, rest
<1>4. t * marks \in Nat /\ t * 31 = 30 * t + t /\ t * 30 = 30 * t /\ t * 0 = 0
      /\ t * (marks + 1) = t * marks + t
  BY <1>1, <1>2
<1>5. marks < 31
  <2>1. t * marks < t * 31
    BY <1>1, <1>2, <1>4
  <2>2. QED
    BY <1>1, <1>2, <2>1, FewerParts
<1>6. ASSUME c < t PROVE marks < 30
  <2>1. t * marks < t * 30
    BY <1>1, <1>2, <1>4, <1>6
  <2>2. QED
    BY <1>1, <1>2, <2>1, FewerParts
<1>7. ASSUME c = t PROVE marks = 30
  <2>1. t * 30 < t * (marks + 1)
    BY <1>1, <1>2, <1>4, <1>7
  <2>2. 30 < marks + 1
    BY <1>1, <1>2, <2>1, FewerParts
  <2>3. QED
    BY <1>2, <1>5, <2>2
<1>8. ASSUME rest = 0, 0 < c PROVE 0 < marks
  <2>1. t * 0 < t * marks
    BY <1>1, <1>2, <1>4, <1>8
  <2>2. QED
    BY <1>1, <1>2, <2>1, FewerParts
<1>9. bar \in 0..30 /\ (bar = 30 <=> c = t)
  BY <1>1, <1>2, <1>3, <1>5, <1>6, <1>7, <1>8
<1>10. QED
  BY <1>9 DEF c, t, Width

(* It never gets shorter, even where the division loses a mark.            *)
LEMMA BarsGrow ==
  ASSUME NEW e, NEW f, e.total \in Nat \ {0}, f.total = e.total,
         e.current \in Nat, f.current \in Nat, e.current < f.current,
         NEW bar \in Bars(e), NEW longer \in Bars(f)
  PROVE  bar <= longer
<1> DEFINE a == Width * e.current
           b == Width * f.current
           t == e.total
<1>1. a \in Nat /\ b \in Nat /\ t \in Nat \ {0} /\ a < b
  BY DEF Width
<1>2. bar = a \div t \/ bar = (a \div t) - 1
  BY DEF Bars
<1>3. longer = b \div t \/ (longer = (b \div t) - 1 /\ b % t = 0)
  BY DEF Bars
<1> HIDE DEF a, b, t
<1>4. a \div t \in Nat /\ b \div t \in Nat
  BY <1>1, Division
<1>5. a \div t <= b \div t /\ (b % t = 0 => a \div t < b \div t)
  BY <1>1, DivisionGrows
<1>6. QED
  BY <1>2, <1>3, <1>4, <1>5

(* What formatDuration shows, against the duration it was given.           *)
Shown(took) ==
  OneSecond * (3600 * took.hours + 60 * took.minutes + took.seconds)
    + OneMillisecond * took.milliseconds

LEMMA DurationsAreClose ==
  ASSUME NEW d \in Nat
  PROVE  LET took == FormatDuration(d)
             unit == IF d < OneSecond THEN OneMillisecond ELSE OneSecond
         IN  /\ took.minutes < 60 /\ took.seconds < 60
             /\ Shown(took) = 0 <=> d = 0
             /\ d >= unit => Shown(took) - d \in -(unit \div 2)..(unit \div 2)
<1> DEFINE took == FormatDuration(d)
<1>1. OneMillisecond = 10 /\ OneSecond = 10000
  BY DEF OneMillisecond, OneSecond
<1>2. CASE d = 0
  <2>1. took = [hours |-> 0, minutes |-> 0, seconds |-> 0, milliseconds |-> 0]
    BY <1>2 DEF FormatDuration, Clock
  <2>2. QED
    BY <1>1, <1>2, <2>1 DEF Shown
<1>3. CASE 0 < d /\ d < 10000
  <2> DEFINE ms == (d + 5) \div 10
  <2>1. took = [hours |-> 0, minutes |-> 0, seconds |-> 0,
                milliseconds |-> IF ms < 1 THEN 1 ELSE ms]
    BY <1>1, <1>3 DEF FormatDuration, Clock, RoundTo
  <2>2. Shown(took) = 10 * (IF ms < 1 THEN 1 ELSE ms)
    BY <1>1, <2>1 DEF Shown
  <2>3. QED
    BY <1>1, <1>3, <2>1, <2>2
<1>4. CASE d >= 10000
  <2> DEFINE s == (d + 5000) \div 10000
             hours == s \div 3600
             minutes == (s \div 60) % 60
             seconds == s % 60
             shown == 10000 * s
             unit == IF d < OneSecond THEN OneMillisecond ELSE OneSecond
             half == unit \div 2
  <2>1. took = [hours |-> hours, minutes |-> minutes, seconds |-> seconds, milliseconds |-> 0]
    BY <1>1, <1>4 DEF FormatDuration, Clock, RoundTo
  <2>2. s \in Nat /\ s > 0 /\ 10000 * s - d <= 5000 /\ d - 10000 * s <= 5000
    BY <1>4
  <2>3. unit = 10000
    BY <1>1, <1>4
  <2> HIDE DEF took, s, unit
  <2>4. half = 5000
    BY <2>3
  <2> HIDE DEF half
  <2>5. 3600 * hours + 60 * minutes + seconds = s
    BY <2>2
  <2>6. hours \in Nat /\ minutes \in Nat /\ seconds \in Nat
    BY <2>2
  <2>7. minutes < 60 /\ seconds < 60
    BY <2>2
  <2> HIDE DEF hours, minutes, seconds
  <2>8. took.minutes < 60 /\ took.seconds < 60
    BY <2>1, <2>7
  <2>9. Shown(took) = shown
    <3>1. took.hours = hours /\ took.minutes = minutes /\ took.seconds = seconds
      BY <2>1
    <3>2. took.milliseconds = 0
      BY <2>1
    <3>3. Shown(took) = OneSecond * (3600 * hours + 60 * minutes + seconds)
                          + OneMillisecond * 0
      BY <3>1, <3>2 DEF Shown
    <3>4. QED
      BY <1>1, <2>2, <2>5, <2>6, <3>3
  <2>10. shown # 0 /\ d # 0
    BY <1>4, <2>2
  <2>11. shown - d \in (-half)..half
    BY <2>2, <2>4
  <2> HIDE DEF shown
  <2>12. Shown(took) # 0 /\ d # 0 /\ Shown(took) - d \in (-half)..half
    BY <2>9, <2>10, <2>11, Zenon
  <2>13. QED
    BY <2>8, <2>12, Zenon DEF took, half, unit
<1>5. QED
  BY <1>2, <1>3, <1>4

-----------------------------------------------------------------------------
(* A line says of its event what the type of the event calls for.          *)
LEMMA LineOfEvent ==
  ASSUME NEW e, NEW took, NEW l \in Lines(e, took), e.type \in EventTypes \ {"none"}
  PROVE  /\ l.type = e.type
         /\ e.type = "phase-progress" =>
              /\ l.index = e.index /\ l.phase = e.phase /\ l.total = e.total
              /\ l.current = e.current /\ l.bar \in Bars(e) /\ l.eta = EstimateShown(e)
         /\ e.type # "phase-progress" => l.bar = 0
         /\ e.type \in Summaries => l.took = FormatDuration(took)
<1>1. CASE e.type \in {"benchmark-started", "scenario-started", "phase-started", "phase-completed"}
  BY <1>1 DEF Lines, HeaderLine, ScenarioLine, StartedLine, CompletedLine, NoLine, Summaries
<1>2. CASE e.type \in {"scenario-completed", "benchmark-completed"}
  BY <1>2 DEF Lines, SummaryLine, FinishedLine, ScenarioLine, NoLine
<1>3. CASE e.type = "phase-progress"
  <2>1. PICK bar \in Bars(e) :
          l = [CompletedLine(e) EXCEPT !.current = e.current, !.bar = bar, !.eta = EstimateShown(e)]
    BY <1>3 DEF Lines, ProgressLines
  <2>2. /\ l.type = e.type /\ l.index = e.index /\ l.phase = e.phase /\ l.total = e.total
        /\ l.current = e.current /\ l.bar = bar /\ l.eta = EstimateShown(e)
    BY <2>1 DEF CompletedLine, StartedLine, ScenarioLine, NoLine
  <2>3. QED
    BY <1>3, <2>1, <2>2 DEF Summaries
<1>4. QED
  BY <1>1, <1>2, <1>3 DEF EventTypes

(* What the suite has just reported of a path's progress.                  *)
LEMMA Progresses ==
  ASSUME SuiteInv, PathProgress
  PROVE  /\ pc \in Paths /\ InPath /\ UNCHANGED <<config, ctx, pc, index, results>>
         /\ event'.type = "phase-progress" /\ event'.index = index /\ event.index = index
         /\ event'.phase = pc /\ event.phase = pc /\ event'.total = Total /\ event.total = Total
         /\ event.current \in Nat /\ event'.current \in (event.current + 1)..Total
         /\ Total \in Nat \ {0}
<1>1. pc \in Paths /\ InPath /\ UNCHANGED <<config, ctx, pc, index, results>>
  BY DEF PathProgress
<1>2. PICK current \in (event.current + 1)..Total : \E successful \in 0..current :
        Settle("phase-progress", current, successful)
  BY DEF PathProgress
<1>3. PICK successful \in 0..current : Settle("phase-progress", current, successful)
  BY <1>2
<1>4. event' = [type |-> "phase-progress", index |-> index, phase |-> pc, current |-> current,
                total |-> Total, successful |-> successful]
  BY <1>3 DEF Settle, Event
<1>5. event.phase = pc /\ event.total = Total /\ event.index = index /\ event.current \in Nat
  BY <1>1 DEF SuiteInv, TypeOK, InScenario, InPath, AtFirst, Within, AfterPath
<1>6. QED
  BY <1>1, <1>2, <1>4, <1>5, InPathFacts

(* An event that is shown is what the last line is of.                     *)
LEMMA Showing ==
  ASSUME Show(event'), event'.type \in EventTypes \ {"none"}, TerminalAssumption,
         event'.type = "phase-progress" =>
           event'.phase \in Paths /\ event'.total \in Nat \ {0} /\ event'.current \in 1..event'.total
  PROVE  /\ ProgressLine' /\ TookLine' /\ skipped' = 0
         /\ line'.type = event'.type /\ line'.bar \in 0..Width /\ elapsed' \in Durations \cup {0}
         /\ event'.type = "phase-progress" =>
              line'.current = event'.current /\ PhaseKey(line)' = PhaseKey(event)'
<1>1. /\ ~Hidden(event') /\ skipped' = 0
      /\ elapsed' \in IF event'.type \in Summaries THEN Durations ELSE {0}
      /\ line' \in Lines(event', elapsed')
  BY DEF Show
<1>2. /\ line'.type = event'.type
      /\ event'.type = "phase-progress" =>
           /\ line'.index = event'.index /\ line'.phase = event'.phase
           /\ line'.total = event'.total
           /\ line'.current = event'.current /\ line'.bar \in Bars(event')
      /\ event'.type # "phase-progress" => line'.bar = 0
      /\ event'.type \in Summaries => line'.took = FormatDuration(elapsed')
  BY <1>1, LineOfEvent
<1>3. ASSUME event'.type = "phase-progress"
      PROVE  /\ event'.phase \in Measurements /\ line'.bar \in Bars(line')
             /\ line'.bar \in 0..Width /\ line'.current \in 1..event'.current
  <2>1. event'.phase \in Measurements
    BY <1>1, <1>3 DEF Hidden, Paths
  <2>2. line'.bar \in 0..Width
    BY <1>2, <1>3, BarsBound
  <2>3. Bars(line') = Bars(event')
    BY <1>2, <1>3 DEF Bars
  <2>4. QED
    BY <1>2, <1>3, <2>1, <2>2, <2>3
<1>4. ProgressLine'
  BY <1>2, <1>3 DEF ProgressLine
<1>5. TookLine'
  BY <1>1, <1>2 DEF TookLine
<1>6. line'.bar \in 0..Width
  BY <1>2, <1>3 DEF Width
<1>7. QED
  BY <1>1, <1>2, <1>4, <1>5, <1>6 DEF PhaseKey

(* The clock.                                                              *)
LEMMA Ticks ==
  ASSUME SuiteInv, SuiteInv', TerminalInv, Tick, TerminalAssumption PROVE TerminalInv'
<1>1. /\ lastProgressAt' = Older(lastProgressAt)
      /\ lastEventByPhase' = [k \in PhaseKeys |-> Older(lastEventByPhase[k])]
      /\ UNCHANGED <<vars, completed, due, line, elapsed, skipped>>
  BY DEF Tick
<1>2. lastProgressAt \in Ages /\ lastEventByPhase \in [PhaseKeys -> Ages] /\ Second \in Nat
  BY DEF TerminalInv, ProgressTypeOK, TerminalAssumption
<1>3. \A a \in Ages : Older(a) \in Ages /\ (a = Second => Older(a) = Second)
  BY <1>2 DEF Older, Ages
<1>4. \A a, b \in Ages : a <= b => Older(a) <= Older(b)
  BY <1>2 DEF Older, Ages
<1>5. ProgressTypeOK'
  BY <1>1, <1>2, <1>3 DEF TerminalInv, ProgressTypeOK, SuiteInv
<1>6. pc \in Measurements => Key \in PhaseKeys
  BY DEF Key, PhaseKeys, SuiteInv, TypeOK, InScenario, Paths
<1>7. Throttles'
  BY <1>1, <1>2, <1>3, <1>4, <1>6 DEF TerminalInv, Throttles, vars, Key, InPath, Total
<1>8. FirstLines'
  BY <1>1, <1>2, <1>3 DEF TerminalInv, FirstLines, Fresh, vars, PhaseKeys
<1>9. ProgressLine' /\ TookLine' /\ Advances' /\ LinesKeepUp'
  BY <1>1 DEF TerminalInv, ProgressLine, TookLine, Advances, LinesKeepUp, vars, PhaseKey, Bars
<1>10. QED
  BY <1>5, <1>7, <1>8, <1>9 DEF TerminalInv

(* The consumer of RunPath receives an observation, and reads the clock if *)
(* it is to report it.                                                     *)
LEMMA Observes ==
  ASSUME SuiteInv, SuiteInv', TerminalInv, Observe, TerminalAssumption PROVE TerminalInv'
<1>1. /\ pc \in Paths /\ InPath /\ ~due /\ completed' = completed + 1
      /\ due' = ShouldReportProgress(completed + 1)
      /\ lastProgressAt' = IF due' THEN 0 ELSE lastProgressAt
      /\ UNCHANGED <<vars, terminalVars>>
  BY DEF Observe
<1>2. /\ lastProgressAt \in Ages /\ lastEventByPhase \in [PhaseKeys -> Ages]
      /\ Second \in Nat \ {0} /\ completed \in Nat
  BY DEF TerminalInv, ProgressTypeOK, TerminalAssumption
<1>3. ProgressTypeOK'
  BY <1>1, <1>2
  DEF TerminalInv, ProgressTypeOK, SuiteInv, terminalVars, Ages, ShouldReportProgress
<1>4. pc \in Measurements => Key \in PhaseKeys
  BY DEF Key, PhaseKeys, SuiteInv, TypeOK, InScenario, Paths
<1>5. Throttles'
  <2>1. /\ Key' = Key /\ Total' = Total /\ InPath' = InPath /\ pc' = pc
        /\ UNCHANGED <<skipped, event, lastEventByPhase>>
    BY <1>1 DEF vars, terminalVars, Key, Total, InPath
  <2>2. pc \in Measurements => lastEventByPhase[Key] \in Ages
    BY <1>2, <1>4
  <2>3. due' /\ skipped = 1 => completed' >= Total \/ lastEventByPhase[Key] = Second
    <3> SUFFICES ASSUME due', skipped = 1
                 PROVE  completed' >= Total \/ lastEventByPhase[Key] = Second
      OBVIOUS
    <3>1. completed + 1 >= Total \/ lastProgressAt >= Second
      BY <1>1 DEF ShouldReportProgress
    <3>2. pc \in Measurements /\ lastProgressAt <= lastEventByPhase[Key]
      BY DEF TerminalInv, Throttles
    <3>3. QED
      BY <1>1, <1>2, <2>2, <3>1, <3>2 DEF Ages
  <2>4. pc \in Measurements /\ (due' \/ skipped = 1) => lastProgressAt' <= lastEventByPhase[Key]
    BY <1>1, <1>2, <2>2 DEF TerminalInv, Throttles, Ages
  <2>5. QED
    BY <1>1, <2>1, <2>3, <2>4 DEF TerminalInv, Throttles
<1>6. FirstLines'
  BY <1>1 DEF TerminalInv, FirstLines, Fresh, vars, terminalVars
<1>7. ProgressLine' /\ TookLine' /\ Advances' /\ LinesKeepUp'
  BY <1>1
  DEF TerminalInv, ProgressLine, TookLine, Advances, LinesKeepUp, vars, terminalVars, PhaseKey, Bars
<1>8. QED
  BY <1>3, <1>5, <1>6, <1>7 DEF TerminalInv

(* It reports what it has received.  The terminal drops it only if it      *)
(* showed the report before, and neither the first nor the last.           *)
LEMMA ReportsProgress ==
  ASSUME SuiteInv, SuiteInv', TerminalInv, ReportProgress, TerminalAssumption PROVE TerminalInv'
<1>1. /\ due /\ due' = FALSE /\ PathProgress /\ event'.current = completed
      /\ Skip(event') \/ Show(event')
      /\ UNCHANGED <<completed, lastProgressAt>>
  BY DEF ReportProgress, Reported
<1>2. /\ pc \in Paths /\ InPath /\ UNCHANGED <<config, ctx, pc, index, results>>
      /\ event'.type = "phase-progress" /\ event'.index = index /\ event.index = index
      /\ event'.phase = pc /\ event.phase = pc /\ event'.total = Total /\ event.total = Total
      /\ event.current \in Nat /\ event'.current \in (event.current + 1)..Total
      /\ Total \in Nat \ {0}
  BY <1>1, Progresses
<1>3. index \in 1..ScenarioCount /\ Key' = Key /\ Total' = Total
  BY <1>2 DEF SuiteInv, TypeOK, InScenario, Key, Total
<1>4. /\ lastProgressAt \in Ages /\ lastEventByPhase \in [PhaseKeys -> Ages]
      /\ Second \in Nat \ {0} /\ completed \in Nat
  BY DEF TerminalInv, ProgressTypeOK, TerminalAssumption
<1>5. pc \in Measurements => Key \in PhaseKeys /\ PhaseKey(event') = Key
  BY <1>2, <1>3 DEF Key, PhaseKeys, PhaseKey
<1>6. Advances'
  BY <1>2 DEF Advances
<1>7. CASE Skip(event')
  <2>1. UNCHANGED <<lastEventByPhase, line, elapsed>>
    BY <1>7 DEF Skip
  <2>2. CASE pc \in Warmups
    <3>1. Hidden(event') /\ pc \notin Measurements
      BY <1>2, <2>2 DEF Hidden, Warmups, Measurements
    <3>2. skipped' = skipped /\ skipped = 0
      BY <1>7, <3>1 DEF Skip, TerminalInv, Throttles
    <3>3. ProgressTypeOK'
      BY <1>1, <1>4, <2>1, <3>2 DEF TerminalInv, ProgressTypeOK, SuiteInv
    <3>4. line.type # "phase-progress"
      BY <1>2, <3>1 DEF TerminalInv, ProgressLine
    <3>5. ProgressLine' /\ TookLine'
      BY <2>1, <3>4 DEF TerminalInv, ProgressLine, TookLine
    <3>6. Throttles'
      BY <1>1, <1>2, <3>1, <3>2 DEF Throttles
    <3>7. FirstLines'
      BY <1>2, <2>1, <3>1 DEF TerminalInv, FirstLines, Fresh
    <3>8. LinesKeepUp'
      BY <1>2, <3>1, <3>2 DEF LinesKeepUp
    <3>9. QED
      BY <1>6, <3>3, <3>5, <3>6, <3>7, <3>8 DEF TerminalInv
  <2>3. CASE pc \in Measurements
    <3>1. /\ ~Hidden(event') /\ Throttled(event')
          /\ event'.current < Total /\ lastEventByPhase[Key] < Second
      BY <1>2, <1>5, <1>7, <2>3 DEF Skip, Hidden, Throttled, Warmups, Measurements
    <3>2. skipped = 0 /\ skipped' = 1
      BY <1>1, <1>2, <1>4, <1>7, <3>1 DEF Skip, TerminalInv, Throttles
    <3>3. ProgressTypeOK'
      BY <1>1, <1>4, <2>1, <3>2 DEF TerminalInv, ProgressTypeOK, SuiteInv
    <3>4. ProgressLine' /\ TookLine'
      BY <1>2, <2>1 DEF TerminalInv, ProgressLine, TookLine, Bars
    <3>5. Throttles'
      BY <1>1, <1>2, <1>3, <2>1, <2>3, <3>2 DEF TerminalInv, Throttles
    <3>6. FirstLines'
      BY <1>2, <2>1, <2>3 DEF TerminalInv, FirstLines, Fresh, Warmups, Measurements
    <3>7. event'.current # 1
      <4>1. SUFFICES ASSUME event'.current = 1 PROVE FALSE
        OBVIOUS
      <4>2. event.type = "phase-started"
        BY <1>2, <4>1 DEF InPath, TerminalInv, Advances
      <4>3. Fresh(index, pc)
        BY <4>2 DEF Fresh
      <4>4. QED
        BY <1>3, <1>4, <2>3, <3>1, <4>3 DEF TerminalInv, FirstLines, Key
    <3>8. LinesKeepUp'
      BY <1>2, <3>1, <3>2, <3>7 DEF LinesKeepUp
    <3>9. QED
      BY <1>6, <3>3, <3>4, <3>5, <3>6, <3>8 DEF TerminalInv
  <2>4. QED
    BY <1>2, <2>2, <2>3 DEF Paths
<1>8. CASE Show(event')
  <2>1. /\ ProgressLine' /\ TookLine' /\ skipped' = 0
        /\ line'.type = event'.type /\ line'.bar \in 0..Width /\ elapsed' \in Durations \cup {0}
        /\ line'.current = event'.current /\ PhaseKey(line)' = PhaseKey(event)'
    BY <1>2, <1>8, Showing DEF EventTypes
  <2>2. ~Hidden(event')
    BY <1>8 DEF Show
  <2>3. pc \in Measurements
    BY <1>2, <2>2 DEF Hidden, Paths
  <2>4. lastEventByPhase' = [lastEventByPhase EXCEPT ![Key] = 0]
    BY <1>2, <1>5, <1>8, <2>3 DEF Show
  <2>5. lastEventByPhase' \in [PhaseKeys -> Ages]
    <3>1. 0 \in Ages
      BY <1>4 DEF Ages
    <3>2. QED
      BY <1>4, <2>4, <3>1
  <2>6. ProgressTypeOK'
    BY <1>1, <1>2, <1>4, <2>1, <2>5 DEF ProgressTypeOK, SuiteInv, EventTypes
  <2>7. Throttles'
    BY <1>1, <2>1 DEF Throttles
  <2>8. FirstLines'
    <3> SUFFICES ASSUME NEW i \in 1..ScenarioCount, NEW path \in Measurements, Fresh(i, path)'
                 PROVE  lastEventByPhase'[<<i, path>>] = Second
      BY DEF FirstLines
    <3>1. <<i, path>> # Key /\ Fresh(i, path)
      BY <1>2, <1>3, <2>3 DEF Fresh, Key, Warmups, Measurements
    <3>2. <<i, path>> \in PhaseKeys
      BY DEF PhaseKeys
    <3>3. QED
      BY <1>4, <2>4, <3>1, <3>2 DEF TerminalInv, FirstLines
  <2>9. LinesKeepUp'
    BY <1>2, <2>1 DEF LinesKeepUp
  <2>10. QED
    BY <1>6, <2>1, <2>6, <2>7, <2>8, <2>9 DEF TerminalInv
<1>9. QED
  BY <1>1, <1>7, <1>8

(* Events other than of progress are shown, if not hidden.                 *)
LEMMA Announces ==
  ASSUME TerminalInv, Reported, TerminalAssumption,
         event'.type \in EventTypes \ {"none", "phase-progress"},
         Hidden(event') => event.type # "phase-progress"
  PROVE  /\ ProgressLine' /\ TookLine' /\ Advances' /\ LinesKeepUp'
         /\ skipped' = 0 /\ lastEventByPhase' = lastEventByPhase
         /\ line'.type \in EventTypes /\ line'.bar \in 0..Width /\ elapsed' \in Durations \cup {0}
<1>1. Skip(event') \/ Show(event')
  BY DEF Reported
<1>2. Advances'
  BY DEF Advances
<1>3. CASE Show(event')
  <2>1. lastEventByPhase' = lastEventByPhase
    BY <1>3 DEF Show
  <2>2. /\ ProgressLine' /\ TookLine' /\ skipped' = 0
        /\ line'.type = event'.type /\ line'.bar \in 0..Width /\ elapsed' \in Durations \cup {0}
    BY <1>3, Showing
  <2>3. LinesKeepUp'
    BY <2>2 DEF LinesKeepUp
  <2>4. QED
    BY <1>2, <2>1, <2>2, <2>3
<1>4. CASE Skip(event')
  <2>1. Hidden(event') /\ UNCHANGED <<lastEventByPhase, line, elapsed, skipped>>
    BY <1>4 DEF Skip, Throttled
  <2>2. skipped = 0 /\ line.type # "phase-progress"
    BY <2>1 DEF TerminalInv, Throttles, ProgressLine
  <2>3. ProgressLine' /\ TookLine' /\ LinesKeepUp'
    BY <2>1, <2>2 DEF TerminalInv, ProgressLine, TookLine, LinesKeepUp
  <2>4. QED
    BY <1>2, <2>1, <2>2, <2>3 DEF TerminalInv, ProgressTypeOK
<1>5. QED
  BY <1>1, <1>3, <1>4

LEMMA StartsPhase ==
  ASSUME SuiteInv, SuiteInv', TerminalInv, PhaseStarts, TerminalAssumption PROVE TerminalInv'
<1>1. StartPath /\ Reported /\ completed' = 0 /\ lastProgressAt' = Second /\ due' = due
  BY DEF PhaseStarts
<1>2. /\ event'.type = "phase-started" /\ event'.phase = pc /\ pc \in Paths /\ ~InPath
      /\ (event.type = "phase-completed" => event.phase # pc) /\ UNCHANGED <<pc, index>>
  BY <1>1 DEF StartPath, Event
<1>3. event.type # "phase-progress" /\ ~due
  BY <1>2 DEF InPath, TerminalInv, Throttles
<1>4. /\ ProgressLine' /\ TookLine' /\ Advances' /\ LinesKeepUp'
      /\ skipped' = 0 /\ lastEventByPhase' = lastEventByPhase
      /\ line'.type \in EventTypes /\ line'.bar \in 0..Width /\ elapsed' \in Durations \cup {0}
  BY <1>1, <1>2, <1>3, Announces DEF EventTypes
<1>5. ProgressTypeOK'
  BY <1>1, <1>4 DEF TerminalInv, ProgressTypeOK, SuiteInv, Ages, TerminalAssumption
<1>6. Throttles'
  BY <1>1, <1>3, <1>4 DEF Throttles
<1>7. event.phase # pc
  BY <1>2 DEF SuiteInv, InScenario, AtFirst, Within, AfterPath, PathEvents, InPath, Before, Paths,
     Warmups, Measurements
<1>8. FirstLines'
  BY <1>2, <1>4, <1>7 DEF TerminalInv, FirstLines, Fresh
<1>9. QED
  BY <1>4, <1>5, <1>6, <1>8 DEF TerminalInv

LEMMA CompletesPhase ==
  ASSUME SuiteInv, SuiteInv', TerminalInv, PhaseCompletes, TerminalAssumption PROVE TerminalInv'
<1>1. /\ PathCompleted /\ Reported /\ completed' = 0 /\ lastProgressAt' = Second
      /\ ~due /\ due' = due
  BY DEF PhaseCompletes
<1>2. event'.type = "phase-completed" /\ event'.phase = pc /\ InPath /\ UNCHANGED <<pc, index>>
  BY <1>1 DEF PathCompleted, Settle, Event
<1>3. event.phase = pc
  BY <1>1, <1>2
  DEF PathCompleted, SuiteInv, InScenario, InPath, AtFirst, Within, AfterPath
<1>4. /\ ProgressLine' /\ TookLine' /\ Advances' /\ LinesKeepUp'
      /\ skipped' = 0 /\ lastEventByPhase' = lastEventByPhase
      /\ line'.type \in EventTypes /\ line'.bar \in 0..Width /\ elapsed' \in Durations \cup {0}
  BY <1>1, <1>2, Announces DEF EventTypes, Hidden
<1>5. ProgressTypeOK'
  BY <1>1, <1>4 DEF TerminalInv, ProgressTypeOK, SuiteInv, Ages, TerminalAssumption
<1>6. Throttles'
  BY <1>1, <1>4 DEF Throttles
<1>7. FirstLines'
  BY <1>2, <1>3, <1>4 DEF TerminalInv, FirstLines, Fresh
<1>8. QED
  BY <1>4, <1>5, <1>6, <1>7 DEF TerminalInv

(* The events of the suite and of a scenario, outside a path.              *)
LEMMA ReportsOfSuite ==
  ASSUME SuiteInv, SuiteInv', TerminalInv, SuiteReports, TerminalAssumption PROVE TerminalInv'
<1>1. /\ StartBenchmark \/ StartScenario \/ CompleteScenario \/ CompleteBenchmark
      /\ Reported /\ UNCHANGED <<completed, due, lastProgressAt>>
  BY DEF SuiteReports, consumerVars
<1>2. /\ event'.type \in {"benchmark-started", "scenario-started", "scenario-completed",
                          "benchmark-completed"}
      /\ ~due
  BY <1>1
  DEF StartBenchmark, StartScenario, CompleteScenario, CompleteBenchmark, Event, PathDone, InPath,
      TerminalInv, Throttles, Paths, Warmups, Measurements
<1>3. /\ ProgressLine' /\ TookLine' /\ Advances' /\ LinesKeepUp'
      /\ skipped' = 0 /\ lastEventByPhase' = lastEventByPhase
      /\ line'.type \in EventTypes /\ line'.bar \in 0..Width /\ elapsed' \in Durations \cup {0}
  BY <1>1, <1>2, Announces DEF EventTypes, Hidden
<1>4. ProgressTypeOK'
  BY <1>1, <1>3 DEF TerminalInv, ProgressTypeOK, SuiteInv
<1>5. Throttles'
  BY <1>1, <1>2, <1>3 DEF Throttles
<1>6. \A i \in 1..ScenarioCount, path \in Measurements : Fresh(i, path)' => Fresh(i, path)
  <2>1. index \in Int
    BY DEF SuiteInv, TypeOK
  <2>2. CASE StartScenario
    BY <2>1, <2>2 DEF StartScenario, Fresh
  <2>3. CASE StartBenchmark \/ CompleteScenario \/ CompleteBenchmark
    BY <2>3 DEF StartBenchmark, CompleteScenario, CompleteBenchmark, Fresh, Warmups, Measurements
  <2>4. QED
    BY <1>1, <2>2, <2>3
<1>7. FirstLines'
  BY <1>3, <1>6 DEF TerminalInv, FirstLines
<1>8. QED
  BY <1>3, <1>4, <1>5, <1>7 DEF TerminalInv

(* The suite goes on, or gives up, without a word.                         *)
LEMMA GoesOnQuietly ==
  ASSUME SuiteInv, SuiteInv', TerminalInv, SuiteGoesOn, TerminalAssumption PROVE TerminalInv'
<1>1. /\ Interrupted \/ WarmupFailed \/ WarmupDone \/ DirectDone
      /\ UNCHANGED <<completed, due, lastProgressAt, lastEventByPhase, line, elapsed, skipped>>
  BY DEF SuiteGoesOn, consumerVars, terminalVars
<1>2. UNCHANGED <<index, event>>
  BY <1>1 DEF Interrupted, WarmupFailed, WarmupDone, DirectDone
<1>3. ~due /\ skipped = 0
  BY <1>1
  DEF Interrupted, WarmupFailed, WarmupDone, DirectDone, PathDone, InPath, TerminalInv, Throttles,
      Paths, Warmups, Measurements
<1>4. ProgressTypeOK'
  BY <1>1 DEF TerminalInv, ProgressTypeOK, SuiteInv
<1>5. Throttles'
  BY <1>1, <1>3 DEF Throttles
<1>6. \A i \in 1..ScenarioCount, path \in Measurements : Fresh(i, path)' => Fresh(i, path)
  BY <1>1, <1>2
  DEF Interrupted, WarmupFailed, WarmupDone, DirectDone, PathDone, Fresh, Warmups, Measurements
<1>7. FirstLines'
  BY <1>1, <1>6 DEF TerminalInv, FirstLines
<1>8. ProgressLine' /\ TookLine' /\ Advances' /\ LinesKeepUp'
  BY <1>1, <1>2 DEF TerminalInv, ProgressLine, TookLine, Advances, LinesKeepUp, PhaseKey, Bars
<1>9. QED
  BY <1>4, <1>5, <1>7, <1>8 DEF TerminalInv

(* Nothing of the suite moves, but for its configuration before it begins  *)
(* and the context.                                                        *)
LEMMA NothingShown ==
  ASSUME SuiteInv', TerminalInv, UNCHANGED <<pc, index, event, consumerVars, terminalVars>>,
         pc = "validate" \/ UNCHANGED config
  PROVE  TerminalInv'
<1>1. UNCHANGED <<completed, due, lastProgressAt, lastEventByPhase, line, elapsed, skipped>>
  BY DEF consumerVars, terminalVars
<1>2. ProgressTypeOK'
  BY <1>1 DEF TerminalInv, ProgressTypeOK, SuiteInv
<1>3. Throttles'
  <2>1. pc = "validate" => ~due /\ skipped = 0
    BY DEF TerminalInv, Throttles, Paths, Warmups, Measurements
  <2>2. CASE pc = "validate"
    BY <1>1, <2>1, <2>2 DEF Throttles
  <2>3. CASE UNCHANGED config
    BY <1>1, <2>3 DEF TerminalInv, Throttles, InPath, Key, Total
  <2>4. QED
    BY <2>2, <2>3
<1>4. FirstLines'
  BY <1>1 DEF TerminalInv, FirstLines, Fresh
<1>5. ProgressLine' /\ TookLine' /\ Advances' /\ LinesKeepUp'
  BY <1>1 DEF TerminalInv, ProgressLine, TookLine, Advances, LinesKeepUp, PhaseKey, Bars
<1>6. QED
  BY <1>2, <1>3, <1>4, <1>5 DEF TerminalInv

(* A step of the benchmark with its terminal is one of the suite, or of    *)
(* neither.                                                                *)
LEMMA Measures ==
  ASSUME SuiteInv, TerminalInv, ProgressNext, TerminalAssumption PROVE SuiteInv' /\ TerminalInv'
<1>1. [Next]_vars
  BY DEF ProgressNext, SuiteReports, SuiteGoesOn, PhaseStarts, Observe, ReportProgress,
     PhaseCompletes, Tick, Next
<1>2. SuiteInv'
  BY <1>1, StepSuiteInv
<1>3. QED
  BY <1>2, Ticks, Observes, ReportsProgress, StartsPhase, CompletesPhase, ReportsOfSuite,
     GoesOnQuietly DEF ProgressNext

-----------------------------------------------------------------------------
(* THE COMMAND.  How far the parts are in each of its stages.              *)

BeforeSuite == {"flags", "load", "notify", "options", "lookup", "service"}

Stages ==
  /\ stage \in {"flags", "load", "notify", "options"} => lookup = "idle"
  /\ stage \in {"service", "suite"} => lookup = "done"
  /\ stage \in BeforeSuite => pc = "validate"
  /\ stage \in {"returning", "exited"} =>
       lookup \in {"idle", "done"} /\ pc \in {"validate", "completed", "failed"}
  /\ exit = "none" <=> stage \in BeforeSuite \cup {"suite"}

Checked ==
  /\ stage \in {"load", "notify", "options"} => WorkloadAccepted(config) /\ pathGiven # ""
  /\ stage \in {"lookup", "service", "suite"} => OptionsValid

Codes ==
  /\ stored => exit \in {"success", "signal"} /\ pc = "completed"
  /\ exit = "success" => stored
  /\ exit = "invalid" => lookup = "idle" /\ pc = "validate"

CommandTypes ==
  /\ stage \in Uncaught \cup {"options", "lookup", "service", "suite", "exited"}
  /\ pathGiven \in {"", "blank", "path"} /\ output \in {"", "directory"} /\ stored \in BOOLEAN
  /\ exit \in {"none", "success", "failure", "invalid", "signal"}

CommandPart == CommandTypes /\ Stages /\ Checked /\ Codes

(* The inductive invariant of the command.                                 *)
CommandInv == SuiteInv /\ LookupInv /\ TerminalInv /\ CommandPart

-----------------------------------------------------------------------------
(* Every step of the command keeps all of this.                            *)
LEMMA InitCommandInv ==
  ASSUME CommandInit, TerminalAssumption, CommandAssumption PROVE CommandInv
<1>1. ProgressInit /\ LookupInit
  BY DEF CommandInit
<1>2. SuiteInv
  BY <1>1, InitSuiteInv DEF ProgressInit
<1>3. LookupInv
  BY <1>1, InitLookupInv
<1>4. pc = "validate" /\ index = 0 /\ event.type = "none" /\ event.phase = "none"
  BY <1>1 DEF ProgressInit, Init, NoEvent
<1>5. TerminalInv
  <2>1. /\ completed = 0 /\ due = FALSE /\ lastProgressAt = Second
        /\ lastEventByPhase = [k \in PhaseKeys |-> Second]
        /\ line = NoLine /\ elapsed = 0 /\ skipped = 0
    BY <1>1 DEF ProgressInit
  <2>2. line.type = "none" /\ line.bar = 0
    BY <2>1 DEF NoLine
  <2>3. ProgressTypeOK
    <3>1. 0 \in Nat /\ Second \in Ages /\ 0 \in 0..Width /\ "none" \in EventTypes
      BY DEF Ages, Width, EventTypes, TerminalAssumption
    <3>2. lastEventByPhase \in [PhaseKeys -> Ages]
      BY <2>1, <3>1
    <3>3. due \in BOOLEAN
      BY <2>1
    <3>4. QED
      BY <1>2, <2>1, <2>2, <3>1, <3>2, <3>3 DEF ProgressTypeOK, SuiteInv
  <2>4. ProgressLine /\ TookLine /\ Advances /\ LinesKeepUp
    BY <1>4, <2>1, <2>2 DEF ProgressLine, TookLine, Advances, LinesKeepUp, Summaries
  <2>5. Throttles
    BY <2>1 DEF Throttles
  <2>6. FirstLines
    BY <2>1 DEF FirstLines, PhaseKeys
  <2>7. QED
    BY <2>3, <2>4, <2>5, <2>6 DEF TerminalInv
<1>6. stage = "flags" /\ pathGiven = "" /\ output = "" /\ exit = "none" /\ stored = FALSE
  BY DEF CommandInit
<1>7. lookup = "idle"
  BY <1>1 DEF LookupInit
<1>8. CommandPart
  BY <1>4, <1>6, <1>7
  DEF CommandPart, CommandTypes, Stages, Checked, Codes, BeforeSuite, Uncaught
<1>9. QED
  BY <1>2, <1>3, <1>5, <1>8 DEF CommandInv

(* Steps of the command alone.                                             *)
LEMMA StaysInert ==
  ASSUME CommandInv, Inert PROVE SuiteInv' /\ LookupInv' /\ TerminalInv'
<1>1. UNCHANGED <<vars, consumerVars, terminalVars, hostVars, lookupVars>>
  BY DEF Inert, progressVars
<1>2. SuiteInv'
  BY <1>1, StepSuiteInv DEF CommandInv
<1>3. LookupInv'
  BY <1>1
  DEF CommandInv, hostVars, lookupVars, LookupInv, LookupTypeOK, Uniquely, SteadyKept, Crowding, Searching,
      TwoMatch
<1>4. TerminalInv'
  BY <1>1, <1>2, NothingShown DEF CommandInv, vars
<1>5. QED
  BY <1>2, <1>3, <1>4

(* Leaving with an error, once nothing is being looked up or measured.     *)
LEMMA Exits ==
  ASSUME CommandPart, NEW code \in {"failure", "invalid"}, Exit(code),
         stage \in BeforeSuite \cup {"suite"}, lookup \in {"idle", "done"},
         pc \in {"validate", "failed", "completed"},
         code = "invalid" => lookup = "idle" /\ pc = "validate",
         UNCHANGED <<pc, lookup>>
  PROVE  CommandPart'
<1>1. stage' = "returning" /\ exit' = code /\ UNCHANGED <<pathGiven, output, stored>>
  BY DEF Exit
<1>2. ~stored /\ code # "none" /\ code # "success"
  BY DEF CommandPart, Stages, Codes
<1>3. CommandTypes'
  BY <1>1 DEF CommandPart, CommandTypes, Uncaught
<1>4. Stages'
  BY <1>1, <1>2 DEF Stages, BeforeSuite
<1>5. Checked' /\ Codes'
  BY <1>1, <1>2 DEF Checked, Codes
<1>6. QED
  BY <1>3, <1>4, <1>5 DEF CommandPart

LEMMA InertSteps ==
  ASSUME CommandInv,
         \/ LoadConfiguration \/ CatchSignals \/ ResolveOptions \/ StartMeasurement
         \/ StoreReport \/ SuiteFailed \/ Leave \/ Killed
  PROVE  CommandInv'
<1>1. Inert
  BY DEF LoadConfiguration, CatchSignals, ResolveOptions, StartMeasurement, StoreReport,
     SuiteFailed, Leave, Killed
<1>2. SuiteInv' /\ LookupInv' /\ TerminalInv'
  BY <1>1, StaysInert
<1>3. UNCHANGED <<config, pc, lookup>>
  BY <1>1 DEF Inert, progressVars, vars, lookupVars
<1>4. output' = output /\ pathGiven' = pathGiven
  BY DEF LoadConfiguration, CatchSignals, ResolveOptions, StartMeasurement, StoreReport,
     SuiteFailed, Leave, Killed, Goto, Exit
<1>5. CommandPart
  BY DEF CommandInv
<1>6. CommandPart'
  <2>1. CASE stage \in {"load", "options", "service", "suite"} /\ Exit("failure")
    <3>1. pc \in {"validate", "failed", "completed"}
      BY <1>5, <2>1
      DEF CommandPart, Stages, BeforeSuite, LoadConfiguration, CatchSignals, ResolveOptions,
          StartMeasurement, StoreReport, SuiteFailed, Leave, Killed, Uncaught
    <3>2. lookup \in {"idle", "done"} /\ stage \in BeforeSuite \cup {"suite"}
      BY <1>5, <2>1 DEF CommandPart, Stages, BeforeSuite
    <3>3. QED
      BY <1>3, <1>5, <2>1, <3>1, <3>2, Exits
  <2>2. CASE LoadConfiguration /\ Goto("notify")
    BY <1>3, <1>5, <2>2
    DEF LoadConfiguration, Goto, CommandPart, CommandTypes, Stages, Checked, Codes, WorkloadAccepted,
        BeforeSuite, Uncaught
  <2>3. CASE CatchSignals
    BY <1>3, <1>5, <2>3
    DEF CatchSignals, Goto, CommandPart, CommandTypes, Stages, Checked, Codes, WorkloadAccepted,
        BeforeSuite, Uncaught
  <2>4. CASE ResolveOptions /\ OptionsValid /\ Goto("lookup")
    BY <1>3, <1>5, <2>4
    DEF ResolveOptions, Goto, CommandPart, CommandTypes, Stages, Checked, Codes, OptionsValid,
        BeforeSuite, Uncaught
  <2>5. CASE StartMeasurement /\ Goto("suite")
    BY <1>3, <1>5, <2>5
    DEF StartMeasurement, Goto, CommandPart, CommandTypes, Stages, Checked, Codes, OptionsValid,
        BeforeSuite, Uncaught
  <2>6. CASE StoreReport /\ stored' = TRUE /\ stage' = "returning" /\ exit' = "success"
    BY <1>3, <1>4, <1>5, <2>6
    DEF StoreReport, CommandPart, CommandTypes, Stages, Checked, Codes, BeforeSuite, Uncaught
  <2>7. CASE Leave
    BY <1>3, <1>5, <2>7
    DEF Leave, Goto, CommandPart, CommandTypes, Stages, Checked, Codes, BeforeSuite, Uncaught
  <2>8. CASE Killed
    BY <1>3, <1>5, <2>8
    DEF Killed, CommandPart, CommandTypes, Stages, Checked, Codes, BeforeSuite, Uncaught
  <2>9. QED
    BY <2>1, <2>2, <2>3, <2>4, <2>5, <2>6, <2>7, <2>8
    DEF LoadConfiguration, ResolveOptions, StartMeasurement, StoreReport, SuiteFailed
<1>7. QED
  BY <1>2, <1>6 DEF CommandInv

(* The flags and the profile make a configuration.                         *)
LEMMA WorkloadIsConfig ==
  ASSUME CommandAssumption, NEW flags \in Flags, flags.profile \in DOMAIN Profiles
  PROVE  Workload(flags) \in Configs
<1>1. Profiles[flags.profile] \in Configs
  BY DEF CommandAssumption
<1>2. /\ flags.queries \in Counts \cup {Unset} /\ flags.warmup \in Counts \cup {Unset}
      /\ flags.workers \in Counts \cup {Unset}
  BY DEF Flags
<1>3. QED
  BY <1>1, <1>2 DEF Workload, Default, Configs

LEMMA Invokes ==
  ASSUME CommandInv, Invoke, CommandAssumption PROVE CommandInv'
<1>1. /\ stage = "flags"
      /\ UNCHANGED <<ctx, pc, index, event, results, measured, consumerVars, terminalVars,
                     hostVars, lookupVars>>
  BY DEF Invoke
<1>2. PICK flags \in Flags :
        \/ /\ WellFormed(flags) /\ WorkloadAccepted(Workload(flags))
           /\ flags.config # "" /\ config' = Workload(flags)
           /\ pathGiven' = flags.config /\ output' = flags.output
           /\ stage' = "load" /\ UNCHANGED <<exit, stored>>
        \/ Exit("invalid") /\ UNCHANGED config
  BY DEF Invoke, WellFormed
<1>3. pc = "validate" /\ lookup = "idle" /\ lookup' = lookup
  BY <1>1 DEF CommandInv, CommandPart, Stages, BeforeSuite, lookupVars
<1>4. config' \in Configs
  <2>1. WellFormed(flags) => Workload(flags) \in Configs
    BY WorkloadIsConfig DEF WellFormed
  <2>2. config \in Configs
    BY DEF CommandInv, SuiteInv, TypeOK
  <2>3. QED
    BY <1>2, <2>1, <2>2
<1>5. SuiteInv'
  <2>1. TypeOK'
    BY <1>1, <1>4 DEF CommandInv, SuiteInv, TypeOK
  <2>2. InScenario' /\ BetweenScenarios' /\ Outside'
    BY <1>1, <1>3 DEF CommandInv, SuiteInv, InScenario, BetweenScenarios, Outside, Paths, Warmups,
       Measurements
  <2>3. event.index = 0 /\ measured = 0
    BY <1>3 DEF CommandInv, SuiteInv, Outside, NoEvent
  <2>4. measured' = OverallCompleted(event)'
    BY <1>1, <2>3 DEF OverallCompleted
  <2>5. QED
    BY <1>1, <1>3, <2>1, <2>2, <2>4 DEF CommandInv, SuiteInv, Paths, Warmups, Measurements
<1>6. LookupInv'
  BY <1>1
  DEF CommandInv, hostVars, lookupVars, LookupInv, LookupTypeOK, Uniquely, SteadyKept, Crowding,
      Searching, TwoMatch
<1>7. TerminalInv'
  BY <1>1, <1>3, <1>5, NothingShown DEF CommandInv
<1>8. CommandPart
  BY DEF CommandInv
<1>9. ASSUME Exit("invalid") PROVE CommandPart'
  BY <1>1, <1>3, <1>8, <1>9, Exits DEF BeforeSuite
<1>10. ASSUME WorkloadAccepted(Workload(flags)), flags.config # "", config' = Workload(flags),
              pathGiven' = flags.config, output' = flags.output, stage' = "load", UNCHANGED <<exit, stored>>
       PROVE  CommandPart'
  <2>1. flags.output \in {"", "directory"} /\ flags.config \in {"", "blank", "path"}
    BY DEF Flags
  <2>2. exit = "none" /\ ~stored
    BY <1>1, <1>8 DEF CommandPart, Stages, Codes, BeforeSuite
  <2>3. CommandTypes' /\ Stages' /\ Codes'
    BY <1>1, <1>3, <1>8, <1>10, <2>1, <2>2
    DEF CommandPart, CommandTypes, Stages, Codes, BeforeSuite, Uncaught
  <2>4. Checked'
    BY <1>10 DEF Checked
  <2>5. QED
    BY <2>3, <2>4 DEF CommandPart
<1>11. QED
  BY <1>2, <1>5, <1>6, <1>7, <1>9, <1>10 DEF CommandInv

LEMMA Searches ==
  ASSUME LookupInv, LookupNext \/ ProcessStarts \/ ProcessEnds PROVE LookupInv'
BY Starts, Ends, Begins, Lists, Reads, LookupIsOver DEF LookupNext

(* The search, and what happens on the host meanwhile.                     *)
LEMMA FindsTarget ==
  ASSUME CommandInv, FindTarget \/ HostChanges PROVE CommandInv'
<1>1. /\ stage = "lookup" /\ (LookupNext \/ ProcessStarts \/ ProcessEnds)
      /\ UNCHANGED <<vars, consumerVars, terminalVars, stage, pathGiven, output, exit, stored>>
  BY DEF FindTarget, HostChanges, progressVars, commandVars
<1>2. LookupInv'
  BY <1>1, Searches DEF CommandInv
<1>3. SuiteInv'
  BY <1>1, StepSuiteInv DEF CommandInv
<1>4. TerminalInv'
  BY <1>1, <1>3, NothingShown DEF CommandInv, vars
<1>5. CommandPart'
  BY <1>1
  DEF CommandInv, vars, CommandPart, CommandTypes, Stages, Checked, Codes, BeforeSuite, OptionsValid
<1>6. QED
  BY <1>2, <1>3, <1>4, <1>5 DEF CommandInv

LEMMA UsesTarget ==
  ASSUME CommandInv, UseTarget PROVE CommandInv'
<1>1. /\ stage = "lookup" /\ lookup = "done" /\ (Goto("service") \/ Exit("failure"))
      /\ Forget /\ UNCHANGED <<vars, consumerVars, terminalVars>>
  BY DEF UseTarget, progressVars
<1>2. /\ processes' = {} /\ lastPid' = 0 /\ cursor' = 1 /\ entries' = {} /\ matches' = {}
      /\ steady' = {} /\ crowded' = FALSE /\ lookup' = "done"
  BY <1>1 DEF Forget
<1>3. LookupInv'
  <2>1. LookupTypeOK'
    <3>1. lastPid' \in 0..MaxPid /\ cursor' \in 1..(lastPid' + 1)
      BY <1>2, BoundIsNat
    <3>2. QED
      BY <1>2, <3>1 DEF LookupTypeOK
  <2>2. Uniquely' /\ SteadyKept' /\ Crowding'
    BY <1>2 DEF Uniquely, SteadyKept, Crowding, Searching
  <2>3. QED
    BY <2>1, <2>2 DEF LookupInv
<1>4. SuiteInv'
  BY <1>1, StepSuiteInv DEF CommandInv
<1>5. TerminalInv'
  BY <1>1, <1>4, NothingShown DEF CommandInv, vars
<1>6. UNCHANGED <<config, pc>>
  BY <1>1 DEF vars
<1>7. CommandPart'
  <2>1. pc = "validate" /\ CommandPart
    BY <1>1 DEF CommandInv, CommandPart, Stages, BeforeSuite
  <2>2. CASE Exit("failure")
    BY <1>1, <1>2, <1>6, <2>1, <2>2, Exits DEF BeforeSuite
  <2>3. CASE Goto("service")
    BY <1>1, <1>2, <1>6, <2>1, <2>3
    DEF Goto, CommandPart, CommandTypes, Stages, Checked, Codes, BeforeSuite, OptionsValid, Uncaught
  <2>4. QED
    BY <1>1, <2>2, <2>3
<1>8. QED
  BY <1>3, <1>4, <1>5, <1>7 DEF CommandInv

(* The measurement, and a signal that is caught.                           *)
LEMMA ConfigIsKept ==
  ASSUME ProgressNext PROVE config' = config
BY DEF ProgressNext, SuiteReports, SuiteGoesOn, PhaseStarts, Observe, ReportProgress, PhaseCompletes,
   Tick, vars, StartBenchmark, StartScenario, CompleteScenario, CompleteBenchmark, Interrupted,
   WarmupFailed, WarmupDone, DirectDone, StartPath, PathProgress, PathCompleted

LEMMA MeasuresOrStops ==
  ASSUME CommandInv, Measure \/ Signalled, TerminalAssumption PROVE CommandInv'
<1>1. UNCHANGED <<hostVars, lookupVars, stage, pathGiven, output, exit, stored>>
  BY DEF Measure, Signalled, commandVars
<1>2. LookupInv' /\ lookup' = lookup
  BY <1>1
  DEF CommandInv, hostVars, lookupVars, LookupInv, LookupTypeOK, Uniquely, SteadyKept, Crowding,
      Searching, TwoMatch
<1>3. CASE Measure
  <2>1. stage = "suite" /\ ProgressNext /\ config' = config
    BY <1>3, ConfigIsKept DEF Measure
  <2>2. SuiteInv' /\ TerminalInv'
    BY <2>1, Measures DEF CommandInv
  <2>3. CommandPart'
    BY <1>1, <1>2, <2>1
    DEF CommandInv, CommandPart, CommandTypes, Stages, Checked, Codes, BeforeSuite, OptionsValid
  <2>4. QED
    BY <1>2, <2>2, <2>3 DEF CommandInv
<1>4. CASE Signalled
  <2>1. Cancel /\ UNCHANGED <<consumerVars, terminalVars>>
    BY <1>4 DEF Signalled
  <2>2. UNCHANGED <<config, pc, index, event>>
    BY <2>1 DEF Cancel
  <2>3. SuiteInv'
    BY <2>1, StepSuiteInv DEF CommandInv, Next
  <2>4. TerminalInv'
    BY <2>1, <2>2, <2>3, NothingShown DEF CommandInv
  <2>5. CommandPart'
    BY <1>1, <1>2, <2>2, ZenonT(60)
    DEF CommandInv, CommandPart, CommandTypes, Stages, Checked, Codes, BeforeSuite, OptionsValid
  <2>6. QED
    BY <1>2, <2>3, <2>4, <2>5 DEF CommandInv
<1>5. QED
  BY <1>3, <1>4

LEMMA StepCommandInv ==
  ASSUME CommandInv, [CommandNext]_allVars, TerminalAssumption, CommandAssumption
  PROVE  CommandInv'
<1>1. CASE UNCHANGED allVars
  <2>1. Inert /\ UNCHANGED <<stage, pathGiven, output, exit, stored, config, pc, lookup>>
    BY <1>1 DEF allVars, Inert, commandVars, progressVars, vars, lookupVars
  <2>2. CommandPart'
    BY <2>1, ZenonT(60)
    DEF CommandInv, CommandPart, CommandTypes, Stages, Checked, Codes, BeforeSuite, OptionsValid, WorkloadAccepted
  <2>3. QED
    BY <2>1, <2>2, StaysInert DEF CommandInv
<1>2. QED
  BY <1>1, InertSteps, Invokes, FindsTarget, UsesTarget, MeasuresOrStops
  DEF CommandNext, Command, Exited

-----------------------------------------------------------------------------
(* The inductive invariant of the command holds throughout.                *)
THEOREM CommandInductive == CommandSpec => []CommandInv
<1>1. CommandInit => CommandInv
  BY InitCommandInv, TerminalAssumption, CommandAssumption
<1>2. CommandInv /\ [CommandNext]_allVars => CommandInv'
  BY StepCommandInv, TerminalAssumption, CommandAssumption
<1>3. QED
  BY <1>1, <1>2, PTL DEF CommandSpec

(* The type invariants of the command and of all its parts.                *)
THEOREM CommandTypeCorrect == CommandSpec => []CommandTypeOK
<1>1. CommandInv => CommandTypeOK
  BY DEF CommandTypeOK, CommandInv, CommandPart, CommandTypes, Stages, TerminalInv, LookupInv,
     BeforeSuite
<1>2. QED
  BY <1>1, CommandInductive, PTL

(* The suite measures as truthfully in the command, and the search finds   *)
(* as soundly, whatever the flags, the profile and the signals.            *)
THEOREM CommandTruthful == CommandSpec => []ProgressIsTruthful
<1>1. CommandInv => ProgressIsTruthful
  BY SuiteIsTruthful DEF CommandInv
<1>2. QED
  BY <1>1, CommandInductive, PTL

THEOREM CommandSound == CommandSpec => []LookupIsSound
<1>1. CommandInv => LookupIsSound
  BY LookupInvIsSound DEF CommandInv
<1>2. QED
  BY <1>1, CommandInductive, PTL

(* The terminal never drops two events of a path in a row, nor the first   *)
(* or the last one of its queries, whatever the clocks of the runner and   *)
(* of the terminal read (progress.go and RunPath).                         *)
THEOREM LinesFollow == CommandSpec => []LinesKeepUp
<1>1. CommandInv => LinesKeepUp
  BY DEF CommandInv, TerminalInv
<1>2. QED
  BY <1>1, CommandInductive, PTL

(* A duration of any length is shown to the nearest unit, and as zero only *)
(* if it is (formatDuration).                                              *)
THEOREM DurationsShown == CommandSpec => []DurationIsClose
<1>1. ASSUME CommandInv PROVE DurationIsClose
  <2> SUFFICES ASSUME line.type \in Summaries PROVE DurationIsClose
    BY DEF DurationIsClose
  <2>1. elapsed \in Nat /\ line.took = FormatDuration(elapsed)
    BY <1>1, TerminalAssumption DEF CommandInv, TerminalInv, TookLine, TerminalAssumption
  <2>2. QED
    BY <2>1, DurationsAreClose DEF DurationIsClose, Shown
<1>2. QED
  BY <1>1, CommandInductive, PTL

(* What the flags let through no later check refuses, but for an empty     *)
(* output and a path of white space: BenchmarkOptions.Validate,            *)
(* SuiteConfig.Validate and PathConfig.Validate agree with the flags.      *)
THEOREM Agreement == CommandSpec => []ChecksAgree
<1>1. ASSUME CommandInv PROVE ChecksAgree
  <2>1. config.queries \in Int /\ config.warmup \in Int /\ config.workers \in Int
    BY <1>1 DEF CommandInv, SuiteInv, TypeOK, Configs
  <2>2. stage = "options" /\ output # "" /\ pathGiven # "blank" => OptionsValid
    BY <1>1 DEF CommandInv, CommandPart, CommandTypes, Checked, WorkloadAccepted, OptionsValid
  <2>3. ASSUME stage = "suite" PROVE Valid
    <3>1. /\ config.queries > 0 /\ config.warmup >= 0
          /\ config.workers > 0 /\ config.workers <= config.queries
      BY <1>1, <2>3 DEF CommandInv, CommandPart, Checked, OptionsValid
    <3>2. \A i \in 1..ScenarioCount : Concurrency(i) \in {1, config.workers}
      BY DEF Concurrency
    <3>3. QED
      BY <2>1, <3>1, <3>2 DEF Valid, PathValid
  <2>4. PathsAreRunnable
    BY <1>1, SuiteIsRunnable DEF CommandInv
  <2>5. QED
    BY <2>2, <2>3, <2>4 DEF ChecksAgree
<1>2. QED
  BY <1>1, CommandInductive, PTL

(* The exit code tells whether there is a report of a whole benchmark, and *)
(* no signal takes a lookup or a measurement with it (runBenchmark).       *)
THEOREM ExitIsTrue == CommandSpec => []ExitTellsTheTruth
<1>1. ASSUME CommandInv PROVE ExitTellsTheTruth
  <2>1. stored => pc = "completed" /\ results = ScenarioCount /\ measured = OverallTotal
    BY <1>1, SuiteIsTruthful DEF CommandInv, CommandPart, Codes, ProgressIsTruthful
  <2>2. pc = "validate" => event.type = "none"
    BY <1>1 DEF CommandInv, SuiteInv, Outside, NoEvent
  <2>3. exit = "signal" => stage \in {"returning", "exited"}
    BY <1>1 DEF CommandInv, CommandPart, CommandTypes, Stages, BeforeSuite, Uncaught
  <2>4. exit = "signal" => /\ lookup \in {"idle", "done"}
                           /\ event.type = "none" \/ pc \in {"completed", "failed"}
    BY <1>1, <2>2, <2>3 DEF CommandInv, CommandPart, Stages
  <2>5. QED
    BY <1>1, <2>1, <2>2, <2>4 DEF CommandInv, CommandPart, Codes, ExitTellsTheTruth
<1>2. QED
  BY <1>1, CommandInductive, PTL

-----------------------------------------------------------------------------
(* A new line of progress is of an event the suite has just reported.      *)
LEMMA NewLine ==
  ASSUME CommandInv, CommandInv', [CommandNext]_allVars,
         line'.type = "phase-progress", line' # line
  PROVE  PathProgress /\ Show(event')
<1>1. ProgressNext
  <2>1. ~UNCHANGED <<progressVars>>
    BY DEF progressVars, terminalVars
  <2>2. QED
    BY <2>1
    DEF CommandNext, Command, Invoke, LoadConfiguration, CatchSignals, ResolveOptions, FindTarget,
        UseTarget, StartMeasurement, Measure, StoreReport, SuiteFailed, Leave, Killed, Signalled,
        HostChanges, Exited, Inert, allVars, terminalVars, progressVars
<1>2. event'.type = "phase-progress"
  BY DEF CommandInv, TerminalInv, ProgressLine
<1>3. ~SuiteReports /\ ~PhaseStarts /\ ~PhaseCompletes
  BY <1>2
  DEF SuiteReports, PhaseStarts, PhaseCompletes, StartBenchmark, StartScenario, CompleteScenario,
      CompleteBenchmark, StartPath, PathCompleted, Settle, Event
<1>4. ~SuiteGoesOn /\ ~Observe /\ ~Tick
  BY DEF SuiteGoesOn, Observe, Tick, terminalVars
<1>5. QED
  BY <1>1, <1>3, <1>4 DEF ProgressNext, ReportProgress, Reported, Skip

(* The lines of a path move forward with their bars, which are full at the *)
(* end only, and an estimate is shown only between ten measured queries    *)
(* and the last (progressBar, EstimatedRemaining).                         *)
THEOREM BarsMoveForward == CommandSpec => BarsAreHonest
<1>1. ASSUME CommandInv, CommandInv', [CommandNext]_allVars,
             line'.type = "phase-progress", line' # line
      PROVE  /\ line'.bar = Width <=> line'.current = line'.total
             /\ line'.eta => 10 <= measured' /\ measured' < OverallTotal
             /\ line.type = "phase-progress" /\ PhaseKey(line) = PhaseKey(line') =>
                  line.current < line'.current /\ line.bar <= line'.bar
  <2>1. PathProgress /\ Show(event')
    BY <1>1, NewLine
  <2>2. /\ UNCHANGED <<config, pc, index>>
        /\ event'.type = "phase-progress"
        /\ event'.total = Total /\ event.total = Total /\ Total \in Nat \ {0}
        /\ event.current \in Nat /\ event'.current \in (event.current + 1)..Total
    BY <1>1, <2>1, Progresses DEF CommandInv
  <2>3. /\ line'.total = event'.total /\ line'.current = event'.current
        /\ line'.bar \in Bars(event') /\ line'.eta = EstimateShown(event')
    <3>1. line' \in Lines(event', elapsed')
      BY <2>1 DEF Show
    <3>2. QED
      BY <2>2, <3>1, LineOfEvent DEF EventTypes
  <2>4. line'.bar = Width <=> line'.current = line'.total
    BY <2>2, <2>3, BarsBound
  <2>5. line'.eta => 10 <= measured' /\ measured' < OverallTotal
    <3>1. measured' = OverallCompleted(event')
      BY <1>1, <2>2 DEF CommandInv, SuiteInv, OverallCompleted, PathsCompleted
    <3>2. QED
      BY <2>3, <3>1 DEF EstimateShown
  <2>6. ASSUME line.type = "phase-progress"
        PROVE  line.current < line'.current /\ line.bar <= line'.bar
    <3>1. line.current \in 1..event.current /\ line.bar \in Bars(line) /\ line.total = event.total
      BY <1>1, <2>6 DEF CommandInv, TerminalInv, ProgressLine
    <3>2. line.current < line'.current
      BY <2>2, <2>3, <3>1
    <3>3. line'.bar \in Bars(line')
      BY <2>3 DEF Bars
    <3>4. QED
      BY <2>2, <2>3, <3>1, <3>2, <3>3, BarsGrow
  <2>7. QED
    BY <2>4, <2>5, <2>6
<1>2. CommandInv /\ CommandInv' /\ [CommandNext]_allVars =>
        [line'.type = "phase-progress" /\ line' # line =>
           /\ line'.bar = Width <=> line'.current = line'.total
           /\ line'.eta => 10 <= measured' /\ measured' < OverallTotal
           /\ line.type = "phase-progress" /\ PhaseKey(line) = PhaseKey(line') =>
                line.current < line'.current /\ line.bar <= line'.bar]_progressVars
  BY <1>1
<1>3. QED
  BY <1>2, CommandInductive, PTL DEF CommandSpec, BarsAreHonest
=============================================================================
