------------------------ MODULE InstallReleaseProofs ------------------------
(***************************************************************************)
(* Theorems about the installer, for every set of releases and every       *)
(* number of its runs: what is linked or running is complete and checked,  *)
(* an installed release stays as it is, and what the installer says of its *)
(* outcome is true.                                                        *)
(***************************************************************************)
EXTENDS InstallRelease, TLAPS

(* A release that may be linked and run, and one that stays so if changes  *)
(* of names are lost.                                                      *)
Sound(r) == dir[r] \in {"complete", "torn"} /\ quality[r] # "not_arm64"

Saved(r) == Sound(r) /\ onDisk[r] # "nothing"

Preparing == {"create", "unpack", "normalize", "validate", "share"}
Activating == {"unlink", "link", "rename", "restart", "health", "rollback", "finish"}

LinksSound ==
  /\ current # NoRelease => Sound(current)
  /\ next # NoRelease => Sound(next)
  /\ running # NoRelease => Sound(running)
  /\ pc # "idle" /\ previous # NoRelease => Sound(previous)
  /\ saved.current # NoRelease => Saved(saved.current)
  /\ saved.next # NoRelease => Saved(saved.next)

ScriptInv ==
  /\ pc # "idle" => rel \in Releases
  /\ rolling => previous # NoRelease
  /\ pc \in {"check"} \cup Preparing => ~rolling
  /\ pc \in Preparing => dir[rel] \notin {"complete", "torn"}
  /\ pc = "share" => quality[rel] # "not_arm64"
  /\ pc \in Activating => Sound(rel)

(* The inductive invariant: the release under preparation is not complete  *)
(* and not linked, and whatever activation may link is sound.              *)
IInv == TypeOK /\ LinksSound /\ ScriptInv

USE ReleasesAssumption DEF ReleasesAssumption

-----------------------------------------------------------------------------

(* A step that changes no directory and no link, and does not begin a run, *)
(* keeps what is linked sound.                                             *)
LEMMA LinksKept ==
  ASSUME LinksSound, UNCHANGED <<quality, dir, current, next, previous, kernel>>,
         running' \in {running, current, NoRelease}, pc # "idle"
  PROVE  LinksSound'
BY DEF LinksSound, Sound, Saved, kernel

(* A step that only rewrites the directory of a release that is not        *)
(* complete keeps every sound release sound.                               *)
LEMMA SoundKept ==
  ASSUME IInv, pc \in Preparing, UNCHANGED quality,
         NEW s, Directory(s),
         NEW r \in Releases, Sound(r)
  PROVE  Sound(r)' /\ (Saved(r) => Saved(r)')
BY DEF IInv, TypeOK, ScriptInv, Sound, Saved, Directory

(* The same for everything linked, running or remembered.                  *)
LEMMA LinksKeptByDirectory ==
  ASSUME IInv, pc \in Preparing, NEW s, Directory(s),
         UNCHANGED <<quality, current, next, running, previous, saved>>
  PROVE  LinksSound'
<1>1. /\ current \in Links /\ next \in Links /\ running \in Links /\ previous \in Links
      /\ saved.current \in Links /\ saved.next \in Links
  BY DEF IInv, TypeOK
<1>2. \A r \in Releases : (Sound(r) => Sound(r)') /\ (Saved(r) => Saved(r)')
  BY SoundKept DEF Saved
<1>3. pc # "idle"
  BY DEF Preparing
<1>4. QED
  BY <1>1, <1>2, <1>3 DEF IInv, LinksSound, Sound, Saved, Links

(* A step of the preparation that changes at most the directory.           *)
LEMMA PreparationStep ==
  ASSUME IInv, pc \in Preparing,
         UNCHANGED <<quality, current, next, saved, running, installs, script, hiccup>>,
         NEW goal \in Preparing \cup {"idle", "unlink"}, pc' = goal,
         outcome' \in {outcome, "failed"},
         NEW state \in DirStates \ {"torn"},
         Directory(state) \/ (SameDirectory /\ state = dir[rel]),
         goal \in Preparing => state # "complete",
         goal = "unlink" => state = "complete" /\ quality[rel] # "not_arm64",
         goal = "share" => quality[rel] # "not_arm64"
  PROVE  IInv'
<1>1. rel \in Releases /\ ~rolling /\ dir[rel] \in DirStates \ {"complete", "torn"}
  BY DEF IInv, TypeOK, ScriptInv, Preparing
<1>2. LinksSound'
  <2>1. CASE Directory(state)
    BY <2>1, LinksKeptByDirectory DEF script
  <2>2. CASE SameDirectory
    BY <2>2 DEF SameDirectory, script, IInv, LinksSound, Sound, Saved, Preparing
  <2>3. QED
    BY <2>1, <2>2
<1>3. dir'[rel] = state /\ dir' \in [Releases -> DirStates] /\ onDisk' \in [Releases -> DiskStates]
  BY <1>1 DEF Directory, SameDirectory, IInv, TypeOK, DiskStates
<1>4. TypeOK'
  BY <1>3 DEF IInv, TypeOK, script, Steps, Preparing, Links
<1>5. ScriptInv'
  BY <1>1, <1>3 DEF IInv, ScriptInv, script, Sound, Preparing, Activating
<1>6. QED
  BY <1>2, <1>4, <1>5 DEF IInv

(* One that leaves it as it is.                                            *)
LEMMA Unchanged ==
  ASSUME IInv, pc \in Preparing, SameDirectory,
         UNCHANGED <<quality, current, next, saved, running, installs, script, hiccup>>,
         outcome' \in {outcome, "failed"},
         pc' \in (Preparing \ {"share"}) \cup {"idle"}
           \/ (pc' = "share" /\ quality[rel] # "not_arm64")
  PROVE  IInv'
<1>1. dir[rel] \in DirStates \ {"complete", "torn"}
  BY DEF IInv, TypeOK, ScriptInv, Preparing
<1>2. pc' \in Preparing \cup {"idle", "unlink"} /\ pc' # "unlink"
  BY DEF Preparing
<1>3. QED
  BY <1>1, <1>2, PreparationStep

-----------------------------------------------------------------------------

(* Nothing is linked or running at the start.                              *)
LEMMA InitIInv == Init => IInv
<1> SUFFICES ASSUME Init PROVE IInv
  OBVIOUS
<1>1. TypeOK
  <2>1. installs \in 0..MaxInstalls
    BY DEF Init
  <2>2. /\ dir \in [Releases -> DirStates] /\ onDisk \in [Releases -> DiskStates]
        /\ saved \in [current : Links, next : Links]
    BY DEF Init, DirStates, DiskStates, Links
  <2>3. QED
    BY <2>1, <2>2 DEF Init, TypeOK, Links, Steps
<1>2. LinksSound
  BY DEF Init, LinksSound
<1>3. ScriptInv
  BY DEF Init, ScriptInv, Preparing, Activating
<1>4. QED
  BY <1>1, <1>2, <1>3 DEF IInv

(* main, up to the activation.                                             *)
LEMMA PrepareStep ==
  ASSUME IInv,
         \/ \E r \in Releases : Begin(r)
         \/ Check \/ Create \/ Unpack \/ Normalize \/ Validate \/ ShareBenchmarks
  PROVE  IInv'
<1>1. CASE \E r \in Releases : Begin(r)
  <2>1. PICK r \in Releases : Begin(r)
    BY <1>1
  <2>2. LinksSound'
    BY <2>1 DEF Begin, IInv, LinksSound, Sound, Saved, disk, kernel
  <2>3. TypeOK'
    <3>1. installs' \in 0..MaxInstalls
      BY <2>1 DEF Begin, IInv, TypeOK
    <3>2. QED
      BY <2>1, <3>1 DEF Begin, IInv, TypeOK, Links, Steps, disk, kernel
  <2>4. ScriptInv'
    BY <2>1 DEF Begin, ScriptInv, Preparing, Activating
  <2>5. QED
    BY <2>2, <2>3, <2>4 DEF IInv
<1>2. CASE Check
  <2>1. LinksSound'
    BY <1>2 DEF Check, IInv, LinksSound, Sound, Saved, disk, kernel, Goto, Exit
  <2>2. CASE NotInstalled /\ previous' = current /\ Goto("create")
    BY <1>2, <2>1, <2>2
    DEF Check, IInv, TypeOK, LinksSound, ScriptInv, Links, Steps, disk, kernel, Preparing,
        Activating, Goto, NotInstalled, Sound
  <2>3. CASE UNCHANGED previous /\ Exit("failed")
    BY <1>2, <2>1, <2>3
    DEF Check, IInv, TypeOK, ScriptInv, Links, Steps, disk, kernel, Preparing, Activating, Exit
  <2>4. QED
    BY <1>2, <2>2, <2>3 DEF Check
<1>3. CASE Create
  <2>1. CASE Directory("created")
    BY <1>3, <2>1, PreparationStep DEF Create, Goto, Exit, Preparing, DirStates
  <2>2. CASE SameDirectory /\ Exit("failed")
    BY <1>3, <2>2, Unchanged DEF Create, Exit, Preparing
  <2>3. QED
    BY <1>3, <2>1, <2>2 DEF Create
<1>4. CASE Unpack
  <2>1. CASE Directory("unpacked") /\ Goto("normalize")
    BY <1>4, <2>1, PreparationStep DEF Unpack, Goto, Preparing, DirStates
  <2>2. CASE Directory("absent") /\ Exit("failed")
    BY <1>4, <2>2, PreparationStep DEF Unpack, Exit, Preparing, DirStates
  <2>3. CASE SameDirectory /\ Exit("failed")
    BY <1>4, <2>3, Unchanged DEF Unpack, Exit, Preparing
  <2>4. QED
    BY <1>4, <2>1, <2>2, <2>3 DEF Unpack
<1>5. CASE Normalize
  <2>1. CASE Directory("normalized") /\ Goto("validate")
    BY <1>5, <2>1, PreparationStep DEF Normalize, Goto, Preparing, DirStates
  <2>2. CASE SameDirectory /\ Exit("failed")
    BY <1>5, <2>2, Unchanged DEF Normalize, Exit, Preparing
  <2>3. QED
    BY <1>5, <2>1, <2>2 DEF Normalize, AfterNormalize
<1>6. CASE Validate
  <2>1. SameDirectory /\ pc \in Preparing
    BY <1>6 DEF Validate, SameDirectory, disk, kernel, Preparing
  <2>2. UNCHANGED <<quality, current, next, saved, running, installs, script, hiccup>>
    BY <1>6 DEF Validate, disk, kernel
  <2>3. CASE quality[rel] = "not_arm64"
    BY <1>6, <2>1, <2>2, <2>3, Unchanged DEF Validate, Exit
  <2>4. CASE quality[rel] # "not_arm64"
    BY <1>6, <2>1, <2>2, <2>4, Unchanged DEF Validate, Goto, Preparing
  <2>5. QED
    BY <2>3, <2>4
<1>7. CASE ShareBenchmarks
  <2>1. CASE Directory("complete") /\ Goto("unlink")
    <3>1. quality[rel] # "not_arm64" /\ pc \in Preparing
      BY <1>7 DEF ShareBenchmarks, IInv, ScriptInv, Preparing
    <3>2. QED
      BY <1>7, <2>1, <3>1, PreparationStep DEF ShareBenchmarks, Goto, Preparing, DirStates
  <2>2. CASE SameDirectory /\ Exit("failed")
    BY <1>7, <2>2, Unchanged DEF ShareBenchmarks, Exit, Preparing
  <2>3. QED
    BY <1>7, <2>1, <2>2 DEF ShareBenchmarks
<1>8. QED
  BY <1>1, <1>2, <1>3, <1>4, <1>5, <1>6, <1>7

(* Inside an activation the flags stay Boolean and the step in its range.  *)
LEMMA ActivatingStep ==
  ASSUME IInv, pc \in Activating, LinksSound',
         UNCHANGED <<quality, dir, kernel, installs, rel, previous>>,
         {current', next', running'} \subseteq Links,
         pc' \in {"idle"} \cup Activating,
         outcome' \in {outcome, "failed", "success"},
         hiccup' \in {hiccup, TRUE}, passed' \in {passed, TRUE},
         rolledBack' \in {rolledBack, TRUE}, rolling' \in {rolling, TRUE},
         rolling' => previous # NoRelease
  PROVE  IInv'
<1>1. rel \in Releases /\ Sound(rel) /\ rel # previous
  BY DEF IInv, TypeOK, ScriptInv, Activating
<1>2. /\ rolling' \in BOOLEAN /\ passed' \in BOOLEAN
      /\ rolledBack' \in BOOLEAN /\ hiccup' \in BOOLEAN
  BY DEF IInv, TypeOK
<1>3. /\ current' \in Links /\ next' \in Links /\ running' \in Links
      /\ rel' # previous' /\ pc' \in Steps
      /\ outcome' \in {"none", "success", "failed", "killed", "power_lost"}
  BY <1>1 DEF IInv, TypeOK, Activating, Steps
<1>4. TypeOK'
  BY <1>2, <1>3 DEF IInv, TypeOK, kernel, Links
<1>5. ScriptInv'
  BY <1>1 DEF ScriptInv, Preparing, Activating, Sound
<1>6. QED
  BY <1>4, <1>5 DEF IInv

(* activate_release, of the new release or of the previous one.            *)
LEMMA ActivateStep ==
  ASSUME IInv, Unlink \/ Link \/ Rename
  PROVE  IInv'
<1>1. /\ pc \in Activating /\ UNCHANGED <<quality, dir, kernel, running, installs, script>>
      /\ pc' \in {"idle"} \cup Activating /\ outcome' \in {outcome, "failed"}
      /\ hiccup' \in {hiccup, TRUE}
  BY DEF Unlink, Link, Rename, FailsAt, Goto, Exit, Activating
<1>2. Target \in Releases /\ Sound(Target)
  BY <1>1 DEF Target, IInv, TypeOK, LinksSound, ScriptInv, Links, Activating
<1>3. current' \in {current, next} /\ next' \in {next, Target, NoRelease}
  BY DEF Unlink, Link, Rename
<1>4. LinksSound'
  BY <1>1, <1>2, <1>3 DEF IInv, LinksSound, Sound, Saved, script, kernel, Activating
<1>5. /\ {current', next', running'} \subseteq Links /\ (rolling => previous # NoRelease)
  BY <1>1, <1>2, <1>3 DEF IInv, TypeOK, ScriptInv, Links
<1>6. QED
  BY <1>1, <1>4, <1>5, ActivatingStep DEF script

(* restart_service, wait_for_health and rollback_release.                  *)
LEMMA ServeStep ==
  ASSUME IInv, Restart \/ HealthPasses \/ HealthFails \/ Finish \/ Rollback
  PROVE  IInv'
<1>1. /\ UNCHANGED <<quality, disk, kernel, installs, rel, previous, hiccup>>
      /\ running' \in {running, current, NoRelease} /\ pc \in Activating
      /\ pc' \in {"idle"} \cup Activating /\ outcome' \in {outcome, "failed", "success"}
  BY DEF Restart, HealthPasses, HealthFails, Finish, Rollback, script, Goto, Exit, Activating
<1>2. /\ rolling' \in {rolling, TRUE} /\ passed' \in {passed, TRUE}
      /\ rolledBack' \in {rolledBack, TRUE}
  BY DEF Restart, HealthPasses, HealthFails, Finish, Rollback, script
<1>3. rolling' => previous # NoRelease
  BY DEF Restart, HealthPasses, HealthFails, Finish, Rollback, HasPrevious, script, IInv, ScriptInv
<1>4. LinksSound'
  BY <1>1, LinksKept DEF IInv, disk, Activating
<1>5. {current', next', running'} \subseteq Links
  BY <1>1 DEF disk, IInv, TypeOK, Links
<1>6. QED
  BY <1>1, <1>2, <1>3, <1>4, <1>5, ActivatingStep DEF disk

(* The installer dies, the machine reboots, or the kernel writes.          *)
LEMMA CrashStep ==
  ASSUME IInv, Kill \/ Reboot \/ Writeback
  PROVE  IInv'
<1>1. CASE Kill
  <2>1. LinksSound'
    BY <1>1, LinksKept DEF Kill, disk, script, IInv
  <2>2. QED
    BY <1>1, <2>1
    DEF Kill, disk, kernel, script, IInv, TypeOK, ScriptInv, Steps, Preparing, Activating, Exit
<1>2. ASSUME UNCHANGED <<quality, disk, previous>>, saved' = LinksNow,
             running' \in {running, current}, pc' = pc \/ pc' = "idle",
             onDisk' \in [Releases -> DiskStates],
             \A r \in Releases : dir[r] # "absent" => onDisk'[r] # "nothing"
      PROVE  LinksSound' /\ saved' \in [current : Links, next : Links]
  <2>1. \A r \in Releases : Sound(r) => Sound(r)' /\ Saved(r)'
    BY <1>2 DEF Sound, Saved, disk
  <2>2. current \in Links /\ next \in Links /\ running \in Links /\ previous \in Links
    BY DEF IInv, TypeOK
  <2>3. saved'.current = current /\ saved'.next = next
    BY <1>2 DEF LinksNow
  <2>4. saved' \in [current : Links, next : Links]
    BY <1>2, <2>2 DEF LinksNow
  <2>5. QED
    BY <1>2, <2>1, <2>2, <2>3, <2>4 DEF IInv, LinksSound, Links, disk
<1>3. CASE Reboot
  <2>1. /\ onDisk' \in [Releases -> DiskStates]
        /\ \A r \in Releases : dir[r] # "absent" => onDisk'[r] # "nothing"
    BY <1>3 DEF Reboot, Written, DiskStates
  <2>2. LinksSound' /\ saved' \in [current : Links, next : Links]
    BY <1>2, <1>3, <2>1 DEF Reboot, Exit, script
  <2>3. QED
    BY <1>3, <2>1, <2>2
    DEF Reboot, disk, script, IInv, TypeOK, ScriptInv, Steps, Preparing, Activating, Exit, Sound
<1>4. CASE Writeback
  <2>1. /\ onDisk' \in [Releases -> DiskStates]
        /\ \A r \in Releases : dir[r] # "absent" => onDisk'[r] # "nothing"
    BY <1>4 DEF Writeback, Written, DiskStates
  <2>2. LinksSound' /\ saved' \in [current : Links, next : Links]
    BY <1>2, <1>4, <2>1 DEF Writeback, script
  <2>3. QED
    BY <1>4, <2>1, <2>2
    DEF Writeback, disk, script, IInv, TypeOK, ScriptInv, Steps, Preparing, Activating, Sound
<1>5. QED
  BY <1>1, <1>3, <1>4

(* The power fails: a release that a link still names has its directory,   *)
(* and none that is whole or torn becomes incomplete.                      *)
LEMMA PowerLossStep ==
  ASSUME IInv, PowerLoss
  PROVE  IInv'
<1>1. PICK lost \in BOOLEAN, torn \in SUBSET {r \in Releases : onDisk[r] # "files"} :
        /\ dir' = [r \in Releases |->
             IF r \in torn /\ DirAfter(r, lost) = "complete" THEN "torn" ELSE DirAfter(r, lost)]
        /\ current' = IF lost THEN saved.current ELSE current
        /\ next' = IF lost THEN saved.next ELSE next
  BY DEF PowerLoss
<1>2. \A r \in Releases : DirAfter(r, lost) \in DirStates
  BY DEF DirAfter, IInv, TypeOK, DirStates
<1>3. dir' \in [Releases -> DirStates]
  BY <1>1, <1>2 DEF DirStates
<1>4. onDisk' = [r \in Releases |-> IF dir'[r] = "absent" THEN "nothing" ELSE "files"]
  BY DEF PowerLoss, Written
<1>5. \A r \in Releases : Sound(r) /\ (lost => Saved(r)) => Sound(r)' /\ Saved(r)'
  <2>1. ASSUME NEW r \in Releases, Sound(r), lost => Saved(r)
        PROVE  DirAfter(r, lost) = dir[r]
    BY <2>1 DEF DirAfter, Sound, Saved
  <2>2. QED
    BY <1>1, <1>4, <2>1 DEF Sound, Saved, PowerLoss
<1>6. /\ current \in Links /\ next \in Links /\ saved.current \in Links /\ saved.next \in Links
  BY DEF IInv, TypeOK
<1>7. /\ saved'.current = current' /\ saved'.next = next'
      /\ current' \in Links /\ next' \in Links
      /\ saved' \in [current : Links, next : Links]
  <2>1. current' \in Links /\ next' \in Links
    BY <1>1, <1>6
  <2>2. QED
    BY <2>1 DEF PowerLoss, LinksNow
<1>8. \A r \in {current', next'} \ {NoRelease} : Sound(r)' /\ Saved(r)'
  BY <1>1, <1>5, <1>6 DEF IInv, LinksSound, Links, Saved
<1>9. LinksSound'
  BY <1>7, <1>8 DEF PowerLoss, Exit, LinksSound
<1>10. TypeOK'
  <2>1. onDisk' \in [Releases -> DiskStates]
    BY <1>4 DEF DiskStates
  <2>2. QED
    BY <1>3, <1>7, <2>1 DEF PowerLoss, Exit, script, IInv, TypeOK, Steps
<1>11. ScriptInv'
  BY DEF PowerLoss, Exit, script, IInv, ScriptInv, Preparing, Activating
<1>12. QED
  BY <1>9, <1>10, <1>11 DEF IInv

(* IInv is inductive.                                                      *)
LEMMA StepIInv == IInv /\ [Next]_vars => IInv'
<1>1. ASSUME IInv, UNCHANGED vars PROVE IInv'
  BY <1>1
  DEF vars, disk, kernel, script, IInv, TypeOK, LinksSound, ScriptInv, Sound, Saved
<1>2. QED
  BY <1>1, PrepareStep, ActivateStep, ServeStep, CrashStep, PowerLossStep DEF Next, Install

(* The inductive invariant holds throughout.                               *)
THEOREM Inductive == Spec => []IInv
BY InitIInv, StepIInv, PTL DEF Spec

(* The type invariant, with: a run never has its own release as previous.  *)
THEOREM TypeCorrect == Spec => []TypeOK
<1>1. IInv => TypeOK
  BY DEF IInv
<1>2. QED
  BY <1>1, Inductive, PTL

(* Whatever command fails, whenever the installer dies or the machine      *)
(* reboots, current names and systemd runs only complete releases whose    *)
(* binary was checked (main, activate_release, rollback_release), but for  *)
(* what a power loss took of the files.                                    *)
THEOREM CurrentIsComplete == Spec => []OnlyCompleteReleases
<1>1. IInv => OnlyCompleteReleases
  BY DEF IInv, TypeOK, LinksSound, OnlyCompleteReleases, Sound
<1>2. QED
  BY <1>1, Inductive, PTL

(* No run of the installer touches the directory of an installed release,  *)
(* and no power loss one that is on the disk.                              *)
THEOREM ReleasesAreImmutable == Spec => InstalledIsImmutable
<1>1. IInv /\ [Next]_vars =>
        [\A r \in Releases : dir[r] = "complete" =>
           \/ dir'[r] = "complete"
           \/ onDisk[r] # "files" /\ outcome' = "power_lost"]_vars
  <2>1. SUFFICES ASSUME IInv, Next, NEW r \in Releases, dir[r] = "complete"
                 PROVE  \/ dir'[r] = "complete"
                        \/ onDisk[r] # "files" /\ outcome' = "power_lost"
    OBVIOUS
  <2>2. CASE UNCHANGED dir
    BY <2>1, <2>2
  <2>3. CASE pc \in Preparing /\ \E s : Directory(s)
    BY <2>1, <2>3 DEF Directory, IInv, TypeOK, ScriptInv
  <2>4. CASE PowerLoss
    <3>1. PICK lost \in BOOLEAN, torn \in SUBSET {q \in Releases : onDisk[q] # "files"} :
            dir' = [q \in Releases |->
              IF q \in torn /\ DirAfter(q, lost) = "complete" THEN "torn" ELSE DirAfter(q, lost)]
      BY <2>4 DEF PowerLoss
    <3>2. CASE onDisk[r] = "files"
      BY <2>1, <3>1, <3>2 DEF DirAfter
    <3>3. CASE onDisk[r] # "files"
      BY <2>4, <3>3 DEF PowerLoss, Exit
    <3>4. QED
      BY <3>2, <3>3
  <2>5. QED
    BY <2>1, <2>2, <2>3, <2>4
    DEF Next, Install, Begin, Check, Create, Unpack, Normalize, Validate, ShareBenchmarks,
        Unlink, Link, Rename, Restart, HealthPasses, HealthFails, Finish, Rollback, Kill,
        Reboot, Writeback, SameDirectory, disk, Preparing
<1>2. QED
  BY <1>1, Inductive, PTL DEF Spec, InstalledIsImmutable

-----------------------------------------------------------------------------
(* What the installer says.                                                *)

(* Where link and process stand while no command of an activation failed   *)
(* inside a rollback: the previous release until the rename, its target    *)
(* after it, running from the restart on.  If one failed, the link may     *)
(* still name the release that is being given up.                          *)
ActivationInv ==
  /\ pc = "check" => previous = NoRelease
  /\ hiccup => rolling
  /\ ~rolling /\ pc \in Preparing \cup {"unlink", "link", "rename"} => current = previous
  /\ rolling /\ pc \in {"unlink", "link", "rename"} => current = rel
  /\ pc = "rollback" => current = rel /\ ~rolling
  /\ pc = "rename" => next \in {Target, NoRelease} /\ (~hiccup => next = Target)
  /\ pc \in {"restart", "health"} =>
       current \in {Target, rel} /\ (~hiccup => current = Target)
  /\ pc = "health" => running = current
  /\ passed => pc \in {"idle", "finish"}
  /\ pc = "finish" => passed /\ Serves(rel)

OutcomeInv ==
  /\ pc # "idle" => outcome = "none" /\ ~rolledBack
  /\ ActivationInv
  /\ OutcomeIsTruthful

(* Before anything was installed there is nothing to be true about.        *)
LEMMA InitOutcome == Init => OutcomeInv
BY DEF Init, OutcomeInv, ActivationInv, OutcomeIsTruthful, Preparing

(* The preparation leaves the links and the process alone.                 *)
LEMMA PrepareOutcome ==
  ASSUME IInv, OutcomeInv,
         \/ \E r \in Releases : Begin(r)
         \/ Check \/ Create \/ Unpack \/ Normalize \/ Validate \/ ShareBenchmarks
  PROVE  OutcomeInv'
<1>1. CASE \E r \in Releases : Begin(r)
  BY <1>1 DEF Begin, OutcomeInv, ActivationInv, OutcomeIsTruthful, Preparing, disk
<1>2. CASE Check
  BY <1>2 DEF Check, IInv, ScriptInv, OutcomeInv, ActivationInv, OutcomeIsTruthful, Preparing,
     disk, Goto, Exit
<1>3. ASSUME pc \in Preparing, UNCHANGED <<current, next, running, script, hiccup>>,
             \/ \E step \in Preparing \cup {"unlink"} : Goto(step)
             \/ Exit("failed")
      PROVE  OutcomeInv'
  BY <1>3 DEF IInv, ScriptInv, OutcomeInv, ActivationInv, OutcomeIsTruthful, Preparing, script,
     Goto, Exit
<1>4. QED
  BY <1>1, <1>2, <1>3 DEF Create, Unpack, Normalize, AfterNormalize, Validate, ShareBenchmarks,
     Preparing, disk

(* The link moves to the target, or a command failed.                      *)
LEMMA ActivateOutcome ==
  ASSUME IInv, OutcomeInv, Unlink \/ Link \/ Rename
  PROVE  OutcomeInv'
<1>1. CASE Unlink
  BY <1>1 DEF Unlink, FailsAt, IInv, ScriptInv, OutcomeInv, ActivationInv, OutcomeIsTruthful,
     Preparing, script, Goto, Exit
<1>2. CASE Link
  BY <1>2 DEF Link, FailsAt, Target, OutcomeInv, ActivationInv, OutcomeIsTruthful, Preparing,
     script, Goto, Exit
<1>3. CASE Rename
  BY <1>3 DEF Rename, FailsAt, Target, OutcomeInv, ActivationInv, OutcomeIsTruthful, Preparing,
     script, Goto, Exit
<1>4. QED
  BY <1>1, <1>2, <1>3

(* The restart, the answer of /health, and the way back or the end.        *)
LEMMA ServeOutcome ==
  ASSUME IInv, OutcomeInv, Restart \/ HealthPasses \/ HealthFails \/ Finish \/ Rollback
  PROVE  OutcomeInv'
<1>1. CASE Restart
  BY <1>1 DEF Restart, Target, IInv, ScriptInv, OutcomeInv, ActivationInv, OutcomeIsTruthful,
     Preparing, disk, script, Goto, Exit
<1>2. CASE HealthPasses
  BY <1>2 DEF HealthPasses, SaysReady, Serves, Target, IInv, ScriptInv, OutcomeInv, ActivationInv,
     OutcomeIsTruthful, Preparing, disk, Goto, Exit
<1>3. CASE HealthFails
  BY <1>3 DEF HealthFails, Target, OutcomeInv, ActivationInv, OutcomeIsTruthful, Preparing,
     disk, script, Goto, Exit
<1>4. CASE Finish
  BY <1>4 DEF Finish, Serves, OutcomeInv, ActivationInv, OutcomeIsTruthful, Preparing, disk,
     script, Exit
<1>5. CASE Rollback
  BY <1>5 DEF Rollback, HasPrevious, LacksPrevious, Target, OutcomeInv, ActivationInv,
     OutcomeIsTruthful, Preparing, disk, Goto, Exit
<1>6. QED
  BY <1>1, <1>2, <1>3, <1>4, <1>5

(* What was said of current is true of what a reboot runs.                 *)
LEMMA CrashOutcome ==
  ASSUME IInv, OutcomeInv, Kill \/ Reboot \/ Writeback \/ PowerLoss \/ UNCHANGED vars
  PROVE  OutcomeInv'
<1>1. CASE Kill
  BY <1>1 DEF Kill, OutcomeInv, ActivationInv, OutcomeIsTruthful, Preparing, disk, script, Exit
<1>2. CASE Reboot
  BY <1>2 DEF Reboot, Serves, OutcomeInv, ActivationInv, OutcomeIsTruthful, Preparing, disk,
     script, Exit
<1>3. CASE PowerLoss
  BY <1>3 DEF PowerLoss, OutcomeInv, ActivationInv, OutcomeIsTruthful, Preparing, script, Exit
<1>4. CASE Writeback \/ UNCHANGED vars
  BY <1>4 DEF Writeback, Serves, vars, disk, script, OutcomeInv, ActivationInv, OutcomeIsTruthful,
     Target
<1>5. QED
  BY <1>1, <1>2, <1>3, <1>4

(* The installer says the truth about how it ended (main, activate_release,*)
(* rollback_release).  A success, or a failure after the service was found *)
(* healthy, serves the new release.  Any other failure has kept or         *)
(* restored a whole previous one, and says that the rollback completed     *)
(* only if it serves it; both with the exception of a command of           *)
(* activate_release that fails where set -e is suspended, after which the  *)
(* release that was given up may still be current, and served.             *)
THEOREM OutcomeTruthful == Spec => []OutcomeIsTruthful
<1>1. Init => OutcomeInv
  BY InitOutcome
<1>2. IInv /\ OutcomeInv /\ [Next]_vars => OutcomeInv'
  BY PrepareOutcome, ActivateOutcome, ServeOutcome, CrashOutcome DEF Next, Install
<1>3. OutcomeInv => OutcomeIsTruthful
  BY DEF OutcomeInv
<1>4. QED
  BY <1>1, <1>2, <1>3, Inductive, PTL DEF Spec
=============================================================================
