--------------------------- MODULE TerminalProgress ---------------------------
(***************************************************************************)
(* What a benchmark shows on the terminal (cmd/homedns-dns/progress.go),   *)
(* over the suite that reports the events.                                 *)
(*                                                                         *)
(* Two throttles are in series.  The consumer of RunPath reports at most   *)
(* one event a second, by the clock it read when an observation came in;   *)
(* the terminal prints at most one line a second of a path, by the time at *)
(* which the event was made, a little later.                               *)
(*                                                                         *)
(* Only ages up to a second decide anything, so that is where they stop:   *)
(* an age of a Second stands for "a second or more ago, or never", which   *)
(* the code treats alike.  A line is the part of its text that can be      *)
(* wrong; rates, latencies and names are left out.                         *)
(***************************************************************************)
EXTENDS BenchSuite

CONSTANTS
  Second,       \* ticks of the clock in a second
  Durations     \* how long something shown may have taken, in tenths of a millisecond

ASSUME TerminalAssumption == Second \in Nat \ {0} /\ Durations \subseteq Nat

VARIABLES
  completed,          \* observations the consumer of RunPath has received
  due,                \* it is about to report them
  lastProgressAt,     \* age of the clock reading of its last report
  lastEventByPhase,   \* [phase keys -> age of the event of the last line]
  line,               \* the last line printed
  elapsed,            \* the duration the event of that line carried, if it shows one
  skipped             \* history: events of this path without a line since the last one

consumerVars == <<completed, due, lastProgressAt>>
terminalVars == <<lastEventByPhase, line, elapsed, skipped>>
progressVars == <<vars, consumerVars, terminalVars>>

Summaries == {"scenario-completed", "benchmark-completed"}

NoLine == [type |-> "none", index |-> 0, phase |-> "none", current |-> 0, total |-> 0,
           successful |-> 0, bar |-> 0, eta |-> FALSE, took |-> 0]

Ages == 0..Second
PhaseKeys == (1..ScenarioCount) \X Measurements

-----------------------------------------------------------------------------
(* progressBar.  Dividing floats may lose one of a whole number of marks,  *)
(* but never of all of them.                                               *)
Width == 30

Bars(e) ==
  LET exact == (Width * e.current) \div e.total
      whole == (Width * e.current) % e.total = 0
  IN  IF whole /\ 0 < e.current /\ e.current < e.total THEN {exact, exact - 1} ELSE {exact}

(* EstimatedRemaining is positive: time has passed once a query is done.   *)
EstimateEarly(e) ==
  OverallCompleted(e) > 0 /\ OverallCompleted(e) < OverallTotal
EstimateShown(e) ==
  /\ OverallCompleted(e) >= 10 /\ OverallCompleted(e) >= OverallTotal \div 100
  /\ OverallCompleted(e) < OverallTotal

(* formatDuration: what it shows, [hours, minutes, seconds, milliseconds]. *)
OneMillisecond == 10
OneSecond == 1000 * OneMillisecond

RoundTo(d, unit) == (d + unit \div 2) \div unit

Clock(h, m, s, ms) == [hours |-> h, minutes |-> m, seconds |-> s, milliseconds |-> ms]

UnroundedParts(d) ==
  IF d = 0 THEN Clock(0, 0, 0, 0)
  ELSE IF d < OneSecond THEN Clock(0, 0, 0, RoundTo(d, OneMillisecond))
  ELSE Clock(d \div (3600 * OneSecond), (d \div (60 * OneSecond)) % 60,
             RoundTo(d % (60 * OneSecond), OneSecond), 0)
FormatDuration(d) ==
  IF d = 0 THEN Clock(0, 0, 0, 0)
  ELSE IF d < OneSecond THEN
    LET ms == RoundTo(d, OneMillisecond) IN Clock(0, 0, 0, IF ms < 1 THEN 1 ELSE ms)
  ELSE LET s == RoundTo(d, OneSecond) IN Clock(s \div 3600, (s \div 60) % 60, s % 60, 0)

-----------------------------------------------------------------------------
(* The line of each kind of event.                                         *)
HeaderLine(e) == [NoLine EXCEPT !.type = e.type, !.total = OverallTotal]

ScenarioLine(e) == [NoLine EXCEPT !.type = e.type, !.index = e.index]

StartedLine(e) == [ScenarioLine(e) EXCEPT !.phase = e.phase]

CompletedLine(e) == [StartedLine(e) EXCEPT !.total = e.total, !.successful = e.successful]

ProgressLines(e) ==
  {[CompletedLine(e) EXCEPT !.current = e.current, !.bar = bar, !.eta = EstimateShown(e)] :
     bar \in Bars(e)}

(* The summary repeats the results of both paths; it and the last line     *)
(* show how long it all took.                                              *)
SummaryLine(e, took) == [ScenarioLine(e) EXCEPT !.took = FormatDuration(took)]
FinishedLine(e, took) == [NoLine EXCEPT !.type = e.type, !.took = FormatDuration(took)]

Lines(e, took) ==
  CASE e.type = "benchmark-started"   -> {HeaderLine(e)}
    [] e.type = "scenario-started"    -> {ScenarioLine(e)}
    [] e.type = "phase-started"       -> {StartedLine(e)}
    [] e.type = "phase-progress"      -> ProgressLines(e)
    [] e.type = "phase-completed"     -> {CompletedLine(e)}
    [] e.type = "scenario-completed"  -> {SummaryLine(e, took)}
    [] e.type = "benchmark-completed" -> {FinishedLine(e, took)}

PhaseOnly(e) == <<1, e.phase>>
PhaseKey(e) == <<e.index, e.phase>>

(* Of a warmup only the end is shown.                                      *)
Hidden(e) == e.phase \in Warmups /\ e.type \in {"phase-started", "phase-progress"}

ThrottleAll(e) ==
  e.type = "phase-progress" /\ e.phase \in Measurements
    /\ lastEventByPhase[PhaseKey(e)] < Second
Throttled(e) ==
  e.type = "phase-progress" /\ e.phase \in Measurements
    /\ e.current < e.total /\ lastEventByPhase[PhaseKey(e)] < Second

(* ReportProgress.                                                         *)
Skip(e) ==
  /\ Hidden(e) \/ Throttled(e)
  /\ skipped' = IF Hidden(e) THEN skipped ELSE skipped + 1
  /\ UNCHANGED <<lastEventByPhase, line, elapsed>>

Show(e) ==
  /\ ~Hidden(e) /\ ~Throttled(e)
  /\ elapsed' \in IF e.type \in Summaries THEN Durations ELSE {0}
  /\ line' \in Lines(e, elapsed')
  /\ lastEventByPhase' = IF e.type = "phase-progress"
                           THEN [lastEventByPhase EXCEPT ![PhaseKey(e)] = 0]
                           ELSE lastEventByPhase
  /\ skipped' = 0

Reported == Skip(event') \/ Show(event')

-----------------------------------------------------------------------------
ProgressInit ==
  /\ Init
  /\ completed = 0 /\ due = FALSE /\ lastProgressAt = Second
  /\ lastEventByPhase = [k \in PhaseKeys |-> Second]
  /\ line = NoLine /\ elapsed = 0 /\ skipped = 0

Older(age) == IF age < Second THEN age + 1 ELSE age

Tick ==
  /\ lastProgressAt' = Older(lastProgressAt)
  /\ lastEventByPhase' = [k \in PhaseKeys |-> Older(lastEventByPhase[k])]
  /\ <<lastProgressAt, lastEventByPhase>>' # <<lastProgressAt, lastEventByPhase>>
  /\ UNCHANGED <<vars, completed, due, line, elapsed, skipped>>

(* The events of the suite and of a scenario.                              *)
SuiteReports ==
  /\ StartBenchmark \/ StartScenario \/ CompleteScenario \/ CompleteBenchmark
  /\ Reported
  /\ UNCHANGED consumerVars

SuiteGoesOn ==
  /\ Interrupted \/ WarmupFailed \/ WarmupDone \/ DirectDone
  /\ UNCHANGED <<consumerVars, terminalVars>>

PhaseStarts ==
  /\ StartPath /\ Reported
  /\ completed' = 0 /\ lastProgressAt' = Second /\ UNCHANGED due

(* The loop of RunPath over the observations.                              *)
ShouldReportProgress(current) == current >= Total \/ lastProgressAt >= Second

Observe ==
  /\ pc \in Paths /\ InPath /\ ~due /\ completed < Total
  /\ completed' = completed + 1
  /\ due' = ShouldReportProgress(completed + 1)
  /\ lastProgressAt' = IF due' THEN 0 ELSE lastProgressAt
  /\ UNCHANGED <<vars, terminalVars>>

ReportProgress ==
  /\ due /\ due' = FALSE
  /\ PathProgress /\ event'.current = completed
  /\ Reported
  /\ UNCHANGED <<completed, lastProgressAt>>

(* An interrupted path is completed without the queries it never sent.     *)
PhaseCompletes ==
  /\ ~due
  /\ completed = Total \/ ctx = "cancelled"
  /\ PathCompleted /\ Reported
  /\ completed' = 0 /\ lastProgressAt' = Second /\ UNCHANGED due

ProgressNext ==
  \/ SuiteReports \/ SuiteGoesOn \/ PhaseStarts
  \/ Observe \/ ReportProgress \/ PhaseCompletes \/ Tick

-----------------------------------------------------------------------------
(* Properties.                                                             *)

ProgressTypeOK ==
  /\ TypeOK
  /\ completed \in Nat /\ due \in BOOLEAN
  /\ lastProgressAt \in Ages /\ lastEventByPhase \in [PhaseKeys -> Ages]
  /\ line.type \in EventTypes /\ line.bar \in 0..Width
  /\ elapsed \in Durations \cup {0} /\ skipped \in Nat

(* Although the runner and the terminal each drop what comes within a      *)
(* second of the last, by different readings of the clock, the terminal    *)
(* never drops two events of a path in a row, nor the first one, nor the   *)
(* one that says all of its queries are done.                              *)
LinesKeepUp ==
  /\ skipped <= 1
  /\ event.type = "phase-progress" /\ event.phase \in Measurements
       /\ (event.current = 1 \/ event.current = event.total) =>
     /\ line.type = "phase-progress" /\ line.current = event.current
     /\ PhaseKey(line) = PhaseKey(event)

(* The lines of a path only ever move forward, their bar is full exactly   *)
(* when all its queries are done, and an estimate of what remains is shown *)
(* only after ten measured queries and not after the last.                 *)
BarsAreHonest ==
  [][line'.type = "phase-progress" /\ line' # line =>
       /\ line'.bar = Width <=> line'.current = line'.total
       /\ line'.eta => 10 <= measured' /\ measured' < OverallTotal
       /\ line.type = "phase-progress" /\ PhaseKey(line) = PhaseKey(line') =>
            line.current < line'.current /\ line.bar <= line'.bar]_progressVars

(* A duration is shown to the nearest unit, in minutes and seconds below   *)
(* sixty, and as nothing only if it was.                                   *)
DurationIsClose ==
  line.type \in Summaries =>
    LET took == line.took
        shown == OneSecond * (3600 * took.hours + 60 * took.minutes + took.seconds)
                   + OneMillisecond * took.milliseconds
        unit == IF elapsed < OneSecond THEN OneMillisecond ELSE OneSecond
    IN  /\ took.minutes < 60 /\ took.seconds < 60
        /\ shown = 0 <=> elapsed = 0
        /\ elapsed >= unit => shown - elapsed \in -(unit \div 2)..(unit \div 2)
=============================================================================
