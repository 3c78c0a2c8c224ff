--------------------------- MODULE BenchmarkCommand ---------------------------
(***************************************************************************)
(* The command `homedns-dns benchmark` (runBenchmark of                    *)
(* cmd/homedns-dns/main.go and internal/app/benchmark.go) from its flags   *)
(* to its exit code: it checks its workload, finds the server, measures it *)
(* and stores a report.  The measurement is TerminalProgress over          *)
(* BenchSuite, the search TargetLookup; what the suite takes as its        *)
(* configuration is what the flags and the profile came to.                *)
(*                                                                         *)
(* The service is two steps around the suite: collector and report file    *)
(* are modules of their own.                                               *)
(***************************************************************************)
EXTENDS TerminalProgress, TargetLookup

CONSTANTS
  Profiles,     \* the profiles, [name -> [queries, warmup, workers]]
  Unset         \* a flag that was not given

ASSUME CommandAssumption == 0 \in Counts /\ Profiles \in [DOMAIN Profiles -> Configs]

VARIABLES
  stage,        \* step of runBenchmark
  pathGiven,    \* --config, once it is taken over: "blank" is of white space only
  output,       \* --output
  exit,         \* 0, 1 or 2 by name, "signal" when a signal ended the process
  stored        \* the report was written

commandVars == <<stage, pathGiven, output, exit, stored>>
allVars == <<progressVars, hostVars, lookupVars, commandVars>>

-----------------------------------------------------------------------------
(* The flags.                                                              *)
Flags == [
  parses : BOOLEAN,                          \* Parse and NArg
  config : {"", "blank", "path"},
  profile : DOMAIN Profiles \cup {"unknown"},
  output : {"", "directory"},
  queries : Counts \cup {Unset}, warmup : Counts \cup {Unset}, workers : Counts \cup {Unset},
  timeout : {Unset, 0, 1},                   \* 0 for anything not positive
  queryType : {Unset, "supported", "other"}, \* parseBenchmarkQueryType
  domains : {Unset, "names", "empty name"}]  \* parseBenchmarkDomains

Default(flag, value) == IF flag = Unset THEN value ELSE flag

Workload(flags) ==
  LET profile == Profiles[flags.profile]
  IN  [queries |-> Default(flags.queries, profile.queries),
       warmup |-> Default(flags.warmup, profile.warmup),
       workers |-> Default(flags.workers, profile.workers)]

WellFormed(flags) ==
  /\ flags.parses /\ flags.config # "" /\ flags.profile \in DOMAIN Profiles
  /\ flags.timeout # 0 /\ flags.queryType # "other" /\ flags.domains # "empty name"

AnyWorkers(w) == w.queries > 0 /\ w.warmup >= 0 /\ w.workers > 0
WorkloadAccepted(w) ==
  /\ w.queries > 0 /\ w.warmup >= 0
  /\ w.workers > 0 /\ w.workers <= w.queries

(* BenchmarkOptions.Validate, after Resolve has filled in the timeout.     *)
OptionsValid ==
  /\ pathGiven \notin {"", "blank"} /\ output # ""
  /\ config.queries > 0 /\ config.warmup >= 0
  /\ config.workers > 0 /\ config.workers <= config.queries

-----------------------------------------------------------------------------
CommandInit ==
  /\ ProgressInit /\ LookupInit
  /\ config = [queries |-> 0, warmup |-> 0, workers |-> 0]
  /\ stage = "flags" /\ pathGiven = "" /\ output = "" /\ exit = "none" /\ stored = FALSE

Goto(next) == stage' = next /\ UNCHANGED <<pathGiven, output, exit, stored>>
Exit(code) == stage' = "returning" /\ exit' = code /\ UNCHANGED <<pathGiven, output, stored>>

Invoke ==
  /\ stage = "flags"
  /\ \E flags \in Flags :
       \/ /\ WellFormed(flags) /\ WorkloadAccepted(Workload(flags))
          /\ config' = Workload(flags)
          /\ pathGiven' = flags.config /\ output' = flags.output
          /\ stage' = "load" /\ UNCHANGED <<exit, stored>>
       \/ /\ ~(WellFormed(flags) /\ WorkloadAccepted(Workload(flags)))
          /\ Exit("invalid") /\ UNCHANGED config
  /\ UNCHANGED <<ctx, pc, index, event, results, measured, consumerVars, terminalVars,
                 hostVars, lookupVars>>

Inert == UNCHANGED <<progressVars, hostVars, lookupVars>>

(* Any path may name a valid file, a blank one too.                        *)
LoadConfiguration ==
  /\ stage = "load"
  /\ Goto("notify") \/ Exit("failure")
  /\ Inert

(* signal.NotifyContext: from here on a signal only cancels the context.   *)
CatchSignals == stage = "notify" /\ Goto("options") /\ Inert

(* RunBenchmark, up to the process lookup; os.Hostname may fail.           *)
ResolveOptions ==
  /\ stage = "options"
  /\ \/ OptionsValid /\ Goto("lookup")
     \/ Exit("failure")
  /\ Inert

FindTarget ==
  /\ stage = "lookup" /\ LookupNext
  /\ UNCHANGED <<progressVars, commandVars>>

(* Nothing asks for the other processes after that: they are dropped.      *)
Forget ==
  /\ processes' = {} /\ lastPid' = 0 /\ cursor' = 1 /\ entries' = {} /\ matches' = {}
  /\ steady' = {} /\ crowded' = FALSE /\ UNCHANGED lookup

UseTarget ==
  /\ stage = "lookup" /\ lookup = "done"
  /\ IF TargetFound THEN Goto("service") ELSE Exit("failure")
  /\ Forget /\ UNCHANGED progressVars

(* Service.Run: the collector may fail before the suite and after it, and  *)
(* so may the report file.                                                 *)
StartMeasurement ==
  /\ stage = "service"
  /\ Goto("suite") \/ Exit("failure")
  /\ Inert

Measure ==
  /\ stage = "suite" /\ ProgressNext
  /\ UNCHANGED <<hostVars, lookupVars, commandVars>>

StoreReport ==
  /\ stage = "suite" /\ pc = "completed"
  /\ \/ stored' = TRUE /\ stage' = "returning" /\ exit' = "success"
        /\ UNCHANGED <<pathGiven, output>>
     \/ Exit("failure")
  /\ Inert

SuiteFailed == stage = "suite" /\ pc = "failed" /\ Exit("failure") /\ Inert

(* os.Exit.                                                                *)
Leave == stage = "returning" /\ Goto("exited") /\ Inert

-----------------------------------------------------------------------------
(* SIGINT or SIGTERM: stopSignals has been called when runBenchmark        *)
(* returns.                                                                *)
UncaughtInLookup == {"flags", "load", "notify", "options", "lookup", "returning"}
Uncaught == {"flags", "load", "notify", "returning"}

Killed ==
  /\ stage \in Uncaught
  /\ stage' = "exited" /\ exit' = "signal" /\ UNCHANGED <<pathGiven, output, stored>>
  /\ Inert

Signalled ==
  /\ stage \notin Uncaught \cup {"exited"}
  /\ Cancel
  /\ UNCHANGED <<consumerVars, terminalVars, hostVars, lookupVars, commandVars>>

(* The other processes matter while the target is being looked for.        *)
HostChanges ==
  /\ stage = "lookup" /\ lookup # "done"
  /\ ProcessStarts \/ ProcessEnds
  /\ UNCHANGED <<progressVars, commandVars>>

Exited == stage = "exited" /\ UNCHANGED allVars

Command ==
  \/ Invoke \/ LoadConfiguration \/ CatchSignals \/ ResolveOptions \/ FindTarget \/ UseTarget
  \/ StartMeasurement \/ Measure \/ StoreReport \/ SuiteFailed \/ Leave

CommandNext == Command \/ Killed \/ Signalled \/ HostChanges \/ Exited

CommandSpec == CommandInit /\ [][CommandNext]_allVars

-----------------------------------------------------------------------------
(* Properties.                                                             *)

CommandTypeOK ==
  /\ ProgressTypeOK /\ LookupTypeOK
  /\ stage \in Uncaught \cup {"options", "lookup", "service", "suite", "exited"}
  /\ pathGiven \in {"", "blank", "path"} /\ output \in {"", "directory"} /\ stored \in BOOLEAN
  /\ exit \in {"none", "success", "failure", "invalid", "signal"} /\ (stage = "exited" => exit # "none")

(* The workload is checked by the flags, by the options and by the suite.  *)
(* What the first accepts the others, and RunPath after them, never        *)
(* refuse, with two exceptions, refused once the benchmark has been        *)
(* announced: an empty --output, and a --config of white space that names  *)
(* a valid file.                                                           *)
ChecksAgree ==
  /\ stage = "options" /\ output # "" /\ pathGiven # "blank" => OptionsValid
  /\ stage = "suite" /\ pc = "validate" => Valid
  /\ PathsAreRunnable

(* Success says that every query of every scenario was measured and the    *)
(* report stored, and any other code of the command that there is no       *)
(* report; after invalid arguments nothing was looked up or measured; and  *)
(* a signal that is not caught never takes a lookup or a measurement with  *)
(* it: whoever sent it has no report, or a whole one.                      *)
ExitTellsTheTruth ==
  /\ stored => pc = "completed" /\ results = ScenarioCount /\ measured = OverallTotal
  /\ exit = "success" => stored
  /\ exit \in {"failure", "invalid"} => ~stored
  /\ exit = "invalid" => lookup = "idle" /\ event.type = "none"
  /\ exit = "signal" =>
       /\ lookup \in {"idle", "done"}
       /\ event.type = "none" \/ pc \in {"completed", "failed"}
=============================================================================
