---------------------------- MODULE ReportStore -----------------------------
(***************************************************************************)
(* Runs of the benchmark service that store their reports in one directory *)
(* (internal/benchmark/service.go and WriteJSONFile of report.go): each    *)
(* takes its ID from the clock, runs the suite, writes a temporary file,   *)
(* syncs it and renames it to <ID>.json.                                   *)
(*                                                                         *)
(* A call on the file system may fail, a run may be killed, also between   *)
(* its rename and its answer, and the machine may lose power: then what    *)
(* was not synced of a file may be torn, and changes of the directory may  *)
(* not have reached the disk, so that a name holds what it held before and *)
(* a temporary file is back.  Removing one is assumed to work otherwise.   *)
(***************************************************************************)
EXTENDS Naturals

CONSTANTS
  Runs,         \* executions of the benchmark command
  None,         \* no run, no file
  MaxSecond     \* bound of the clock

(* What a file holds: whose report, and how much of it is on the disk.     *)
Report == [run : Runs, data : {"torn", "written", "synced"}]

ASSUME StoreAssumption == None \notin Report /\ MaxSecond \in Nat

VARIABLES
  second,     \* the clock, in the resolution of an ID
  step,       \* [Runs -> step of Service.Run]
  id,         \* [Runs -> the second its ID names]
  temp,       \* [Runs -> state of its temporary file]
  file,       \* [seconds -> the report <ID>.json shows]
  disk,       \* [seconds -> the report <ID>.json surely shows after a power loss]
  named,      \* runs whose temporary file has its name on the disk
  powerLost   \* there was a power loss

vars == <<second, step, id, temp, file, disk, named, powerLost>>

Seconds == 0..MaxSecond

Running == {"suite", "create", "encode", "sync", "close", "rename", "answer"}
Ended == {"success", "failed", "killed"}
Temps == {"none", "torn", "written", "synced"}

TypeOK ==
  /\ second \in Seconds
  /\ step \in [Runs -> {"idle"} \cup Running \cup Ended]
  /\ id \in [Runs -> Seconds]
  /\ temp \in [Runs -> Temps]
  /\ file \in [Seconds -> Report \cup {None}]
  /\ disk \in [Seconds -> Report \cup {None}]
  /\ named \in SUBSET Runs
  /\ powerLost \in BOOLEAN
  /\ \A r \in Runs : step[r] \in {"encode", "sync", "close", "rename"} => temp[r] # "none"

Init ==
  /\ second = 0
  /\ step = [r \in Runs |-> "idle"] /\ id = [r \in Runs |-> 0]
  /\ temp = [r \in Runs |-> "none"]
  /\ file = [s \in Seconds |-> None] /\ disk = file /\ named = {}
  /\ powerLost = FALSE

Goto(r, next) == step' = [step EXCEPT ![r] = next]
Temp(r, state) == temp' = [temp EXCEPT ![r] = state]

Tick ==
  /\ second < MaxSecond /\ second' = second + 1
  /\ UNCHANGED <<step, id, temp, file, disk, named, powerLost>>

-----------------------------------------------------------------------------
(* Service.Run.                                                            *)

(* benchmarkIDFromTime, in whole seconds: runs may share an ID.            *)
Begin(r) ==
  /\ step[r] = "idle"
  /\ id' = [id EXCEPT ![r] = second] /\ Goto(r, "suite")
  /\ UNCHANGED <<second, temp, file, disk, named, powerLost>>

RunSuite(r) ==
  /\ step[r] = "suite"
  /\ Goto(r, "create") \/ Goto(r, "failed")
  /\ UNCHANGED <<second, id, temp, file, disk, named, powerLost>>

-----------------------------------------------------------------------------
(* WriteJSONFile.                                                          *)

(* os.MkdirAll and os.CreateTemp.                                          *)
CreateFails(r) == UNCHANGED temp /\ Goto(r, "failed")

Create(r) ==
  /\ step[r] = "create"
  /\ \/ Temp(r, "torn") /\ Goto(r, "encode")
     \/ CreateFails(r)
  /\ UNCHANGED <<second, id, file, disk, named, powerLost>>

(* The deferred removal, on every return but the last.                     *)
KeepTemp(r) == UNCHANGED temp
RemoveTemp(r) == Temp(r, "none")

Fail(r) == RemoveTemp(r) /\ Goto(r, "failed")

SkipsSync(r) == "close"
AfterEncode(r) == "sync"

Encode(r) ==
  /\ step[r] = "encode"
  /\ \/ Temp(r, "written") /\ Goto(r, AfterEncode(r))
     \/ Fail(r)
  /\ UNCHANGED <<second, id, file, disk, named, powerLost>>

Sync(r) ==
  /\ step[r] = "sync"
  /\ \/ Temp(r, "synced") /\ Goto(r, "close")
     \/ Fail(r)
  /\ UNCHANGED <<second, id, file, disk, named, powerLost>>

Close(r) ==
  /\ step[r] = "close"
  /\ \/ UNCHANGED temp /\ Goto(r, "rename")
     \/ Fail(r)
  /\ UNCHANGED <<second, id, file, disk, named, powerLost>>

IgnoresError(r) == Temp(r, "none") /\ Goto(r, "answer") /\ UNCHANGED file
RenameFails(r) == Fail(r) /\ UNCHANGED file

Rename(r) ==
  /\ step[r] = "rename"
  /\ \/ /\ file' = [file EXCEPT ![id[r]] = [run |-> r, data |-> temp[r]]]
        /\ Temp(r, "none") /\ Goto(r, "answer")
     \/ RenameFails(r)
  /\ UNCHANGED <<second, id, disk, named, powerLost>>

(* Service.Run returns the path, after the rename.                         *)
Return(r) ==
  /\ step[r] = "answer" /\ Goto(r, "success")
  /\ UNCHANGED <<second, id, temp, file, disk, named, powerLost>>

-----------------------------------------------------------------------------
(* The world.                                                              *)

(* The kernel writes the directory and the files to the disk on its own.   *)
Synced(report) == IF report = None THEN None ELSE [report EXCEPT !.data = "synced"]

Writeback ==
  /\ file' = [s \in Seconds |-> IF file[s] # None /\ file[s].data = "written"
                                  THEN Synced(file[s]) ELSE file[s]]
  /\ disk' = file' /\ named' = {r \in Runs : temp[r] # "none"}
  /\ disk' # disk \/ named' # named
  /\ UNCHANGED <<second, step, id, temp, powerLost>>

Kill(r) ==
  /\ step[r] \in Running /\ Goto(r, "killed")
  /\ UNCHANGED <<second, id, temp, file, disk, named, powerLost>>

Torn(report) ==
  IF report # None /\ report.data = "written" THEN [report EXCEPT !.data = "torn"] ELSE report

(* Whether r has a temporary file after a power loss that took what was    *)
(* not yet on the disk of the changes of the names in lost.                *)
Remains(r, lost) == IF id[r] \in lost THEN r \in named ELSE temp[r] # "none"

(* What a temporary file that nobody will use holds is of no interest.     *)
PowerLoss ==
  /\ ~powerLost /\ powerLost' = TRUE
  /\ step' = [r \in Runs |-> IF step[r] \in Running THEN "killed" ELSE step[r]]
  /\ \E lost \in SUBSET Seconds :
       /\ file' = [s \in Seconds |-> IF s \in lost THEN disk[s] ELSE Torn(file[s])]
       /\ temp' = [r \in Runs |-> IF Remains(r, lost) THEN "torn" ELSE "none"]
       /\ named' = {r \in Runs : Remains(r, lost)}
  /\ disk' = file'
  /\ UNCHANGED <<second, id>>

Write(r) == Create(r) \/ Encode(r) \/ Sync(r) \/ Close(r) \/ Rename(r)

Next ==
  \/ \E r \in Runs : Begin(r) \/ RunSuite(r) \/ Write(r) \/ Return(r) \/ Kill(r)
  \/ Tick \/ Writeback \/ PowerLoss

Spec == Init /\ [][Next]_vars

-----------------------------------------------------------------------------
(* Properties.                                                             *)

(* "WriteJSONFile writes the report atomically" (report.go:508): whatever  *)
(* fails or dies, and after a power loss, a file under the name of a       *)
(* report holds all of one.                                                *)
ReportsAreWhole == \A s \in Seconds : file[s] # None => file[s].data # "torn"

(* Until the power fails, there is a report under the name a run answered  *)
(* with.  It is of a run with the same ID that got as far as its rename,   *)
(* answered or not: its own, unless a second run began in the same second. *)
(* A run that failed has replaced nothing.                                 *)
AnsweredIsStored ==
  ~powerLost => \A r \in Runs : step[r] \in {"answer", "success"} =>
    /\ file[id[r]] # None
    /\ LET q == file[id[r]].run IN
         id[q] = id[r] /\ step[q] \in {"answer", "success", "killed"}

(* A run that was not killed leaves no temporary file behind, as long as   *)
(* the power does not fail.                                                *)
NothingLeftBehind ==
  ~powerLost => \A r \in Runs :
    step[r] \in {"answer", "success", "failed"} => temp[r] = "none"
=============================================================================
