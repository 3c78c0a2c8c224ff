---------------------------- MODULE ReportStatus ----------------------------
(***************************************************************************)
(* The verdict of a benchmark (internal/benchmark/report_runner.go): the   *)
(* report runner executes the suite, alone or under the resource           *)
(* collector, classifies each scenario by its rates of failures and        *)
(* timeouts, and sums the scenarios up.                                    *)
(*                                                                         *)
(* A rate is a percentage rounded to six decimals, here a whole number of  *)
(* those: of units of which HundredPercent make up 100 percent.  Names,    *)
(* messages, metadata, throughput and the stability fields are left out.   *)
(***************************************************************************)
EXTENDS Integers, Sequences

CONSTANTS
  ScenarioCount,  \* scenarios of the suite, four in the program
  QueryCount,     \* queries of a measured path
  HundredPercent, \* what rates are rounded to, 10^8 in the program
  Failures,       \* how many of them may fail or time out
  Latencies,      \* values of the 95th percentile
  Thresholds      \* what a configuration may ask for

(* The bounds of a kind of failure, in the units of a rate.                *)
Bounds == [degraded : Int, failed : Int]

ASSUME StatusAssumption ==
  /\ ScenarioCount \in Nat \ {0} /\ QueryCount \in Nat \ {0}
  /\ HundredPercent \in Nat \ {0} /\ Failures \subseteq 0..QueryCount
  /\ Latencies \subseteq Nat
  /\ Thresholds \subseteq [failure : Bounds, timeout : Bounds]

VARIABLES
  phase,       \* step of ReportRunner.Run
  next,        \* the next scenario the step is about
  collecting,  \* a resource collection is configured
  thresholds,  \* the thresholds, resolved once the configuration is valid
  results,     \* what the suite measured, one record of paths per scenario
  verdicts,    \* [status, reasons] of the scenarios classified so far
  summary,     \* the BenchmarkSummary
  failure      \* what the error names: "none", "config", "suite" or "collection"

statusVars == <<phase, next, collecting, thresholds, results, verdicts, summary, failure>>

Paths == {"direct", "forwarded"}

(* A measured path; the other counts follow from these (QueryLedger).      *)
PathResult ==
  {p \in [attempted : {QueryCount}, failed : Failures, timeouts : Failures, p95 : Latencies] :
     p.timeouts <= p.failed}

(* Rounded to the nearest unit, a half up.                                 *)
Rate(count, path) ==
  IF path.attempted <= 0 THEN 0
  ELSE (2 * HundredPercent * count + path.attempted) \div (2 * path.attempted)

-----------------------------------------------------------------------------
(* Statuses and thresholds.                                                *)

Statuses == {"passed", "degraded", "failed", "invalid"}

Severity == [s \in Statuses \cup {"unknown"} |->
  CASE s = "passed" -> 1 [] s = "degraded" -> 2 [] s = "failed" -> 3 [] s = "invalid" -> 4
    [] OTHER -> 0]

HigherStatus(current, candidate) ==
  IF Severity[candidate] > Severity[current] THEN candidate ELSE current

NoBounds == [degraded |-> 0, failed |-> 0]
Default == [degraded |-> HundredPercent \div 100, failed |-> HundredPercent \div 20]

Resolved(given) ==
  IF given.failure = NoBounds /\ given.timeout = NoBounds
    THEN [failure |-> Default, timeout |-> Default] ELSE given

UnorderedBounds(bounds) == bounds.degraded >= 0 /\ bounds.failed >= 0
ValidBounds(bounds) ==
  bounds.degraded >= 0 /\ bounds.failed >= 0 /\ bounds.degraded <= bounds.failed

-----------------------------------------------------------------------------
(* Classification of one scenario.                                         *)

DegradedFirst(observed, bounds) ==
  IF observed >= bounds.degraded THEN "degraded"
  ELSE IF observed >= bounds.failed THEN "failed" ELSE "passed"
ClassifyRate(observed, bounds) ==
  IF observed >= bounds.failed THEN "failed"
  ELSE IF observed >= bounds.degraded THEN "degraded" ELSE "passed"

(* A finding is a reason, and raises the status of its scenario.           *)
Finding(code, path, status) == [code |-> code, path |-> path, status |-> status]

Raise(verdict, code, name, status) ==
  IF status = "passed" THEN verdict
  ELSE [status |-> HigherStatus(verdict.status, status),
        reasons |-> Append(verdict.reasons, Finding(code, name, status))]

ClassifyPath(verdict, name, path) ==
  IF path.attempted <= 0 THEN Raise(verdict, "none-attempted", name, "invalid")
  ELSE LET failures == ClassifyRate(Rate(path.failed, path), thresholds.failure)
           timeouts == ClassifyRate(Rate(path.timeouts, path), thresholds.timeout)
       IN  Raise(Raise(verdict, "failure", name, failures), "timeout", name, timeouts)

NoFindings == [status |-> "passed", reasons |-> <<>>]

Verdict(scenario) ==
  ClassifyPath(ClassifyPath(NoFindings, "direct", scenario.direct), "forwarded", scenario.forwarded)

-----------------------------------------------------------------------------
(* The summary.                                                            *)

Counts == [attempted : Nat, failed : Nat, timeouts : Nat]
NoCounts == [attempted |-> 0, failed |-> 0, timeouts |-> 0]

Plus(total, path) ==
  [attempted |-> total.attempted + path.attempted, failed |-> total.failed + path.failed,
   timeouts |-> total.timeouts + path.timeouts]

(* The worst path is named by its scenario, zero when there is none yet.   *)
NewSummary ==
  [requests |-> NoCounts, direct |-> NoCounts, forwarded |-> NoCounts,
   scenarios |-> [s \in Statuses |-> <<>>], reasons |-> <<>>,
   worst |-> [scenario |-> 0, path |-> "direct"], status |-> "unknown"]

WorseByTimeouts(candidate, current) ==
  Rate(candidate.timeouts, candidate) > Rate(current.timeouts, current)
IsWorse(candidate, current) ==
  LET rank(p) == <<Rate(p.failed, p), Rate(p.timeouts, p), p.p95>>
      a == rank(candidate)
      b == rank(current)
  IN  \E k \in 1..3 : a[k] > b[k] /\ \A j \in 1..(k - 1) : a[j] = b[j]

Worst(worst, i, name) ==
  IF worst.scenario = 0 \/ IsWorse(results[i][name], results[worst.scenario][worst.path])
    THEN [scenario |-> i, path |-> name] ELSE worst

AddScenario(counts, scenario) == Plus(Plus(counts, scenario.direct), scenario.forwarded)

Accumulated(i) ==
  [summary EXCEPT
     !.requests = AddScenario(summary.requests, results[i]),
     !.direct = Plus(summary.direct, results[i].direct),
     !.forwarded = Plus(summary.forwarded, results[i].forwarded),
     !.scenarios = [summary.scenarios EXCEPT ![verdicts[i].status] = Append(@, i)],
     !.reasons = summary.reasons \o verdicts[i].reasons,
     !.worst = Worst(Worst(summary.worst, i, "direct"), i, "forwarded")]

SummaryStatus(scenarios) ==
  IF scenarios["invalid"] # <<>> THEN "invalid"
  ELSE IF scenarios["failed"] # <<>> THEN "failed"
  ELSE IF scenarios["degraded"] # <<>> THEN "degraded"
  ELSE IF scenarios["passed"] # <<>> THEN "passed" ELSE "unknown"

-----------------------------------------------------------------------------
(* ReportRunner.Run.                                                       *)

StatusInit ==
  /\ phase = "validate" /\ next = 1 /\ collecting \in BOOLEAN /\ thresholds \in Thresholds
  /\ results = <<>> /\ verdicts = <<>> /\ summary = NewSummary /\ failure = "none"

FailWith(cause) == phase' = "failed" /\ failure' = cause

Validate ==
  /\ phase = "validate"
  /\ LET resolved == Resolved(thresholds)
     IN  \/ /\ ValidBounds(resolved.failure) /\ ValidBounds(resolved.timeout)
            /\ phase' = "suite" /\ thresholds' = resolved /\ UNCHANGED failure
         \/ /\ ~(ValidBounds(resolved.failure) /\ ValidBounds(resolved.timeout))
            /\ FailWith("config") /\ UNCHANGED thresholds
  /\ UNCHANGED <<next, collecting, results, verdicts, summary>>

(* The loops over the scenarios: then says what follows the last one.      *)
Advance(then) ==
  IF next = ScenarioCount THEN next' = 1 /\ phase' = then
                          ELSE next' = next + 1 /\ UNCHANGED phase

(* A scenario of the suite ends with its two paths measured.               *)
Measure ==
  /\ phase = "suite"
  /\ \E direct, forwarded \in PathResult :
       results' = Append(results, [direct |-> direct, forwarded |-> forwarded])
  /\ Advance("classify")
  /\ UNCHANGED <<collecting, thresholds, verdicts, summary, failure>>

(* The collector hands the error of the suite on, so both are set.         *)
ErrorOf(suiteFailed, collectionFailed) ==
  IF suiteFailed THEN "suite" ELSE "collection"

SuiteFails ==
  /\ phase = "suite" /\ FailWith(ErrorOf(TRUE, collecting))
  /\ UNCHANGED <<next, collecting, thresholds, results, verdicts, summary>>

(* A collector that never runs the suite, as on systems without /proc, or  *)
(* that fails after it.                                                    *)
CollectorFails ==
  /\ collecting
  /\ phase = "suite" => results = <<>>
  /\ phase = "classify" => verdicts = <<>>
  /\ phase \in {"suite", "classify"} /\ FailWith(ErrorOf(FALSE, TRUE))
  /\ UNCHANGED <<next, collecting, thresholds, results, verdicts, summary>>

ClassifyScenario ==
  /\ phase = "classify"
  /\ verdicts' = Append(verdicts, Verdict(results[next]))
  /\ Advance("summarize")
  /\ UNCHANGED <<collecting, thresholds, results, summary, failure>>

Summarize ==
  /\ phase = "summarize"
  /\ LET sum == Accumulated(next)
     IN  summary' = IF next = ScenarioCount
                      THEN [sum EXCEPT !.status = SummaryStatus(sum.scenarios)] ELSE sum
  /\ Advance("done")
  /\ UNCHANGED <<collecting, thresholds, results, verdicts, failure>>

StatusNext ==
  \/ Validate \/ Measure \/ SuiteFails \/ CollectorFails
  \/ ClassifyScenario \/ Summarize

StatusSpec == StatusInit /\ [][StatusNext]_statusVars

-----------------------------------------------------------------------------
(* Properties.                                                             *)

Verdicts ==
  [status : Statuses,
   reasons : Seq([code : {"none-attempted", "failure", "timeout"}, path : Paths, status : Statuses])]

(* The types, with: past the validation the thresholds are ordered.        *)
StatusTypeOK ==
  /\ phase \in {"validate", "suite", "classify", "summarize", "done", "failed"}
  /\ next \in 1..ScenarioCount /\ collecting \in BOOLEAN
  /\ thresholds \in [failure : Bounds, timeout : Bounds]
  /\ \A i \in DOMAIN results : results[i] \in [Paths -> PathResult]
  /\ \A i \in DOMAIN verdicts : verdicts[i] \in Verdicts
  /\ {summary.requests, summary.direct, summary.forwarded} \subseteq Counts
  /\ summary.status \in Statuses \cup {"unknown"}
  /\ failure \in {"none", "config", "suite", "collection"}
  /\ phase \notin {"validate", "failed"} =>
       /\ 0 <= thresholds.failure.degraded
       /\ thresholds.failure.degraded <= thresholds.failure.failed
       /\ 0 <= thresholds.timeout.degraded
       /\ thresholds.timeout.degraded <= thresholds.timeout.failed

Measured == (1..ScenarioCount) \X Paths

(* Some measured path has a share of failures, or of timeouts, at its      *)
(* bound of the name given, or short of it by no more than the half of a   *)
(* unit that rounding may add.                                             *)
Reaches(bound) ==
  \E m \in Measured :
    LET path == results[m[1]][m[2]]
        At(count, least) == 2 * HundredPercent * count >= (2 * least - 1) * QueryCount
    IN  At(path.failed, thresholds.failure[bound]) \/ At(path.timeouts, thresholds.timeout[bound])

(* The status of a report is that of its most severe scenario              *)
(* (benchmark-system.md:242): failed when any path reached a bound of      *)
(* failure, passed only when none reached one of degradation.              *)
MostSevereWins ==
  phase = "done" =>
    summary.status = IF Reaches("failed") THEN "failed"
                     ELSE IF Reaches("degraded") THEN "degraded" ELSE "passed"

(* The reasons explain the verdict: what a report says of a scenario is    *)
(* what the worst of its reasons says, and a report that passed has none.  *)
ReasonsExplain ==
  phase = "done" =>
    /\ \A i \in 1..ScenarioCount :
         LET severities == {Severity[verdicts[i].reasons[k].status] : k \in DOMAIN verdicts[i].reasons}
         IN  /\ Severity[verdicts[i].status] \in severities \cup {1}
             /\ \A s \in severities : s <= Severity[verdicts[i].status]
    /\ \A i \in 1..ScenarioCount : \E k \in DOMAIN summary.scenarios[verdicts[i].status] :
         summary.scenarios[verdicts[i].status][k] = i
    /\ summary.reasons = <<>> <=> summary.status = "passed"

(* "the least reliable measured path" (report.go:395): no path has a       *)
(* higher rate of failures than the one named worst; of those with the     *)
(* same none has a higher rate of timeouts; of those none was slower.      *)
WorstIsLeastReliable ==
  phase = "done" =>
    LET worst == results[summary.worst.scenario][summary.worst.path]
        failures == Rate(worst.failed, worst)
        timeouts == Rate(worst.timeouts, worst)
    IN  \A m \in Measured :
          LET path == results[m[1]][m[2]]
          IN  /\ Rate(path.failed, path) <= failures
              /\ Rate(path.failed, path) = failures => Rate(path.timeouts, path) <= timeouts
              /\ Rate(path.failed, path) = failures /\ Rate(path.timeouts, path) = timeouts
                    => path.p95 <= worst.p95

(* The sums of one count of one path over the first scenarios.             *)
Sums(scenarios, name, count) ==
  LET sum[k \in 0..ScenarioCount] ==
        IF k = 0 THEN 0 ELSE sum[k - 1] + scenarios[k][name][count]
  IN  sum

(* The totals of a path are the sums of what its scenarios counted, and    *)
(* those of the report are the totals of the two paths together.           *)
TotalsAddUp ==
  phase = "done" =>
    /\ summary.requests = Plus(summary.direct, summary.forwarded)
    /\ \A name \in Paths, count \in {"attempted", "failed", "timeouts"} :
         summary[name][count] = Sums(results, name, count)[ScenarioCount]

(* What a report sums up is what was measured: its status, the reasons it  *)
(* gives, the path it names worst and its totals (summarizeScenarios of    *)
(* report_runner.go).                                                      *)
SummaryIsFaithful == MostSevereWins /\ ReasonsExplain /\ WorstIsLeastReliable /\ TotalsAddUp
=============================================================================
