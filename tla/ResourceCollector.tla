------------------------- MODULE ResourceCollector --------------------------
(***************************************************************************)
(* Resource collection around a benchmark                                  *)
(* (internal/benchmark/resource_collector_linux.go, resource_summary.go):  *)
(* one sample before the run, samples by a ticking goroutine while the run *)
(* executes, one sample after it, and the summary of all of them.          *)
(*                                                                         *)
(* The target service may die and be started again at any time.  A sample  *)
(* is taken in three steps, the CPU ticks of the system, the files of the  *)
(* process and the command vcgencmd, because the world and the contexts    *)
(* may change in between; either reading may fail.  What the command says  *)
(* of throttling, load, memory and temperature are left out: only that the *)
(* command takes time, and may hang, is kept.                              *)
(***************************************************************************)
EXTENDS Naturals, Sequences

CONSTANTS
  MaxStarts,     \* bound: processes the service manager starts
  MaxTicks,      \* bound: CPU ticks of the system
  MaxSamples,    \* bound: ticks of the sampling ticker
  Null           \* a value that could not be read

ASSUME BoundsAssumption ==
  /\ MaxStarts \in Nat \ {0}
  /\ MaxTicks \in Nat /\ MaxSamples \in Nat
  /\ Null \notin Nat \cup BOOLEAN \cup [part : Nat, whole : Nat]

VARIABLES
  pid, starts, ticks,   \* the service: its process (0: none), processes so far, CPU ticks
  system,               \* CPU ticks of the whole system, idle ones included
  ctx,                  \* the context of the benchmark is "live" or "cancelled"
  pc,                   \* the step of Collect
  sampler,              \* the step of the sampling goroutine
  tick, fired,          \* a tick waits in the ticker's channel; ticks so far
  half,                 \* per goroutine, the sample it is taking
  last,                 \* finalSnapshot: process reading of the last sample
  before, samples, after,
  endPid                \* history: the service's process when the last sample read it

service == <<pid, starts, ticks, system>>
ticker == <<tick, fired>>
result == <<before, samples, after, endPid>>
collectorVars == <<service, ctx, pc, sampler, ticker, half, last, result>>

Unread == [system |-> Null, pid |-> 0, ticks |-> 0, cpu |-> Null]

(* The configuration names the process the service had when it was looked  *)
(* up.                                                                     *)
TargetPID == 1

(* A CPU share is a part of the ticks of the whole system.                 *)
CPUShares == [part : 0..MaxTicks, whole : 1..MaxTicks]
Sample == [system : {Null} \cup 0..MaxTicks, pid : {0, TargetPID}, ticks : 0..MaxTicks,
           cpu : {Null} \cup CPUShares]

CollectorTypeOK ==
  /\ pid \in 0..MaxStarts /\ starts \in 1..MaxStarts /\ ticks \in 0..system
  /\ system \in 0..MaxTicks
  /\ ctx \in {"live", "cancelled"}
  /\ pc \in {"before", "beforeProcess", "beforeCommand", "run", "wait",
             "after", "afterProcess", "afterCommand", "done"}
  /\ sampler \in {"none", "select", "process", "command", "exited"}
  /\ tick \in BOOLEAN /\ fired \in 0..MaxSamples
  /\ half \in [{"main", "sampler"} -> Sample]
  /\ last \in Sample /\ before \in Sample /\ after \in Sample
  /\ endPid \in 0..MaxStarts
  /\ samples \in Seq(Sample) /\ Len(samples) <= MaxSamples
  /\ sampler = "exited" => pc # "before"

CollectorInit ==
  /\ pid = TargetPID /\ starts = 1 /\ ticks = 0
  /\ system = 0 /\ ctx = "live" /\ pc = "before" /\ sampler = "none"
  /\ tick = FALSE /\ fired = 0
  /\ half = [g \in {"main", "sampler"} |-> Unread]
  /\ last = Unread /\ before = Unread /\ after = Unread /\ samples = <<>>
  /\ endPid = 0

-----------------------------------------------------------------------------
(* The world, until Collect returns.                                       *)

(* A CPU works for the service, or for nobody or another process.          *)
Work ==
  /\ pc # "done" /\ pid # 0 /\ system < MaxTicks
  /\ ticks' = ticks + 1 /\ system' = system + 1
  /\ UNCHANGED <<pid, starts, ctx, pc, sampler, ticker, half, last, result>>

Idle ==
  /\ pc # "done" /\ system < MaxTicks /\ system' = system + 1
  /\ UNCHANGED <<pid, starts, ticks, ctx, pc, sampler, ticker, half, last, result>>

Die ==
  /\ pc # "done" /\ pid # 0 /\ pid' = 0
  /\ UNCHANGED <<starts, ticks, system, ctx, pc, sampler, ticker, half, last, result>>

StartAgain ==
  /\ pc # "done" /\ pid = 0 /\ starts < MaxStarts
  /\ starts' = starts + 1 /\ pid' = starts' /\ ticks' = 0
  /\ UNCHANGED <<system, ctx, pc, sampler, ticker, half, last, result>>

Cancel ==
  /\ pc # "done" /\ ctx = "live" /\ ctx' = "cancelled"
  /\ UNCHANGED <<service, pc, sampler, ticker, half, last, result>>

TickerFires ==
  /\ sampler \in {"select", "process", "command"} /\ ~tick /\ fired < MaxSamples
  /\ tick' = TRUE /\ fired' = fired + 1
  /\ UNCHANGED <<service, ctx, pc, sampler, half, last, result>>

-----------------------------------------------------------------------------
(* collectSample.                                                          *)

(* The CPU share needs readings of the system and of the process, now and  *)
(* in the previous sample, and system ticks in between.                    *)
HasReading(sample) == sample.system # Null /\ sample.pid # 0
TimePassed(previous, sample) == sample.system > previous.system
CPUShare(previous, sample) ==
  IF /\ HasReading(previous) /\ HasReading(sample)
     /\ TimePassed(previous, sample) /\ sample.ticks >= previous.ticks
    THEN [part |-> sample.ticks - previous.ticks, whole |-> sample.system - previous.system]
    ELSE Null

ReadSystem(g) ==
  \E reading \in {system, Null} :
    half' = [half EXCEPT ![g] = [Unread EXCEPT !.system = reading]]

(* populateProcessSample reads the configured process and no other.        *)
AnyProcess == pid # 0
Readable == pid = TargetPID

ReadProcess(g, previous) ==
  \E found \in (IF Readable THEN BOOLEAN ELSE {FALSE}) :
    LET reading == IF found THEN [half[g] EXCEPT !.pid = pid, !.ticks = ticks] ELSE half[g]
    IN half' = [half EXCEPT ![g] = [reading EXCEPT !.cpu = CPUShare(previous, reading)]]

-----------------------------------------------------------------------------
(* Collect.                                                                *)

BeginBefore ==
  /\ pc = "before" /\ ReadSystem("main") /\ pc' = "beforeProcess"
  /\ UNCHANGED <<service, ctx, sampler, ticker, last, result>>

BeforeProcess ==
  /\ pc = "beforeProcess" /\ ReadProcess("main", Unread) /\ pc' = "beforeCommand"
  /\ UNCHANGED <<service, ctx, sampler, ticker, last, result>>

EndBefore ==
  /\ pc = "beforeCommand" /\ before' = half["main"] /\ last' = before'
  /\ sampler' = "select" /\ pc' = "run"
  /\ UNCHANGED <<service, ctx, ticker, half, samples, after, endPid>>

(* The benchmark returns and the sampling context is cancelled.            *)
RunReturns ==
  /\ pc = "run" /\ pc' = "wait"
  /\ UNCHANGED <<service, ctx, sampler, ticker, half, last, result>>

SamplerRunning == TRUE
SamplerGone == sampler = "exited"

Wait ==
  /\ pc = "wait" /\ SamplerGone /\ pc' = "after"
  /\ UNCHANGED <<service, ctx, sampler, ticker, half, last, result>>

BeginAfter ==
  /\ pc = "after" /\ ReadSystem("main") /\ pc' = "afterProcess"
  /\ UNCHANGED <<service, ctx, sampler, ticker, last, result>>

LastSnapshot == last

AfterProcess ==
  /\ pc = "afterProcess" /\ ReadProcess("main", LastSnapshot) /\ pc' = "afterCommand"
  /\ endPid' = pid
  /\ UNCHANGED <<service, ctx, sampler, ticker, last, before, samples, after>>

(* The last sample is taken under context.Background.                      *)
EndAfter ==
  /\ pc = "afterCommand" /\ after' = half["main"] /\ pc' = "done"
  /\ UNCHANGED <<service, ctx, sampler, ticker, half, last, before, samples, endPid>>

-----------------------------------------------------------------------------
(* The sampling goroutine.                                                 *)
SamplingCancelled == ctx = "cancelled" \/ pc \notin {"before", "beforeProcess", "beforeCommand", "run"}

SamplerStops ==
  /\ sampler = "select" /\ SamplingCancelled /\ sampler' = "exited"
  /\ UNCHANGED <<service, ctx, pc, ticker, half, last, result>>

(* A tick and a cancelled context are both ready: select takes either.     *)
SamplerTicks ==
  /\ sampler = "select" /\ tick /\ tick' = FALSE
  /\ ReadSystem("sampler") /\ sampler' = "process"
  /\ UNCHANGED <<service, ctx, pc, fired, last, result>>

SamplerProcess ==
  /\ sampler = "process" /\ ReadProcess("sampler", last) /\ sampler' = "command"
  /\ UNCHANGED <<service, ctx, pc, ticker, last, result>>

(* The command returns; a cancelled context kills it.                      *)
SamplerCommand ==
  /\ sampler = "command" /\ sampler' = "select"
  /\ samples' = Append(samples, half["sampler"]) /\ last' = half["sampler"]
  /\ UNCHANGED <<service, ctx, pc, ticker, half, before, after, endPid>>

NotKilled == FALSE
CommandKilled == SamplingCancelled

-----------------------------------------------------------------------------
Collect ==
  \/ BeginBefore \/ BeforeProcess \/ EndBefore
  \/ Wait \/ BeginAfter \/ AfterProcess \/ EndAfter
Sampler == SamplerStops \/ SamplerTicks \/ SamplerProcess \/ SamplerCommand

Finished == pc = "done" /\ sampler = "exited" /\ UNCHANGED collectorVars

CollectorNext ==
  \/ Work \/ Idle \/ Die \/ StartAgain \/ Cancel \/ TickerFires
  \/ Collect \/ RunReturns \/ Sampler \/ Finished

CollectorSpec == CollectorInit /\ [][CollectorNext]_collectorVars

(* Collect goes on, with its own commands answering; the sampler sees a    *)
(* cancelled context, files are read and a killed command returns.         *)
(* Nothing makes a command of the sampler return before that.              *)
Fairness ==
  /\ WF_collectorVars(Collect)
  /\ WF_collectorVars(SamplerStops) /\ WF_collectorVars(SamplerProcess)
  /\ WF_collectorVars(CommandKilled /\ SamplerCommand)

FairCollectorSpec == CollectorSpec /\ Fairness

-----------------------------------------------------------------------------
(* BuildResourceSummary.                                                   *)
AllSamples == <<before>> \o samples \o <<after>>

RestartDetected == IF after.pid # 0 THEN TargetPID # after.pid ELSE Null

-----------------------------------------------------------------------------
(* Properties.                                                             *)

(* The CPU shares of the first n samples, one that has none counting zero. *)
Part(sample) == IF sample.cpu = Null THEN 0 ELSE sample.cpu.part
Whole(sample) == IF sample.cpu = Null THEN 0 ELSE sample.cpu.whole
Parts[n \in 0..Len(AllSamples)] == IF n = 0 THEN 0 ELSE Parts[n - 1] + Part(AllSamples[n])
Wholes[n \in 0..Len(AllSamples)] == IF n = 0 THEN 0 ELSE Wholes[n - 1] + Whole(AllSamples[n])

(* The samples i to j are a stretch of the run without a gap in its shares. *)
Stretch(i, j) == i <= j /\ \A k \in (i + 1)..j : AllSamples[k].cpu # Null

(* The samples tile the run.  Over a stretch of samples that all have a    *)
(* CPU share, the shares add up to the ticks, of the process and of the    *)
(* system, between the two ends: none is counted twice and none dropped,   *)
(* also where the sampler hands over to the last sample (finalSnapshot).   *)
(* A gap is there only if one of the two samples around it lacks a reading *)
(* or no time passed between them.                                         *)
SharesTileTheRun ==
  pc = "done" =>
    /\ \A i, j \in DOMAIN AllSamples : Stretch(i, j) =>
         /\ Parts[j] - Parts[i] = AllSamples[j].ticks - AllSamples[i].ticks
         /\ Wholes[j] - Wholes[i] =
              IF i = j THEN 0 ELSE AllSamples[j].system - AllSamples[i].system
    /\ \A k \in 2..Len(AllSamples) : AllSamples[k].cpu = Null =>
         \/ ~HasReading(AllSamples[k - 1]) \/ ~HasReading(AllSamples[k])
         \/ AllSamples[k].system <= AllSamples[k - 1].system

(* Collect returns after the benchmark did, whatever command of the        *)
(* sampler was hanging.                                                    *)
CollectReturns == pc = "wait" ~> pc = "done"

(* "different PID -> restart_detected: true" (runtime-monitoring.md:267):  *)
(* the service runs as another process than before the benchmark when the  *)
(* last sample is taken.                                                   *)
RestartIsDetected ==
  pc = "done" /\ endPid \notin {0, TargetPID} => RestartDetected = TRUE
=============================================================================
