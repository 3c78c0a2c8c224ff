--------------------------- MODULE InstallRelease ---------------------------
(***************************************************************************)
(* The installer of a release (deploy/install-release.sh): it unpacks a    *)
(* release into a directory of its own, switches the symbolic link current *)
(* to it, restarts the service and waits for /health, or rolls back.       *)
(*                                                                         *)
(* A command may fail, the installer may be killed between two commands,   *)
(* and the machine may reboot or lose power.  The script runs under set -e,*)
(* which the shell suspends inside a function called in a condition or     *)
(* before ||: rollback_release is always called that way.  systemd, which  *)
(* restarts the service, and the file system are external.  Nothing in the *)
(* script syncs: the kernel writes names to the disk in the order they     *)
(* changed, and the contents of files when it likes.                       *)
(***************************************************************************)
EXTENDS Naturals

CONSTANTS
  Releases,      \* release ids, one archive each
  NoRelease,     \* no link, no process
  MaxInstalls    \* bound: runs of the installer

ASSUME ReleasesAssumption == NoRelease \notin Releases /\ MaxInstalls \in Nat

VARIABLES
  quality,    \* [Releases -> what its binary is worth], fixed
  dir,        \* [Releases -> state of releases/<id>]
  current, next,   \* targets of the links current and current.next
  running,    \* the release whose binary systemd runs
  installs,   \* runs of the installer so far
  pc, rel, previous,   \* the installer: its step, its release, previous_release
  rolling,    \* inside rollback_release
  passed,     \* it printed "Health check passed" of the new release
  rolledBack, \* it printed "Rollback completed successfully."
  hiccup,     \* a command of activate_release failed inside rollback_release
  outcome,    \* how the last run of the installer ended
  onDisk,     \* [Releases -> what of releases/<id> is surely on the disk]
  saved       \* the links as they surely are on the disk

disk == <<dir, current, next>>
kernel == <<onDisk, saved>>
script == <<rel, previous, rolling, passed, rolledBack>>
vars == <<quality, disk, kernel, running, installs, pc, script, hiccup, outcome>>

Qualities == {"works", "unhealthy", "not_arm64"}
DirStates == {"absent", "created", "unpacked", "normalized", "complete", "torn"}
DiskStates == {"nothing", "name", "files"}
Steps == {"idle", "check", "create", "unpack", "normalize", "validate", "share",
          "unlink", "link", "rename", "restart", "health", "rollback", "finish"}

Links == Releases \cup {NoRelease}

TypeOK ==
  /\ quality \in [Releases -> Qualities]
  /\ dir \in [Releases -> DirStates]
  /\ current \in Links /\ next \in Links /\ running \in Links
  /\ installs \in 0..MaxInstalls
  /\ pc \in Steps
  /\ rel \in Links /\ previous \in Links
  /\ pc # "idle" => rel # previous
  /\ rolling \in BOOLEAN /\ passed \in BOOLEAN /\ rolledBack \in BOOLEAN
  /\ hiccup \in BOOLEAN
  /\ outcome \in {"none", "success", "failed", "killed", "power_lost"}
  /\ onDisk \in [Releases -> DiskStates]
  /\ saved \in [current : Links, next : Links]

Init ==
  /\ quality \in [Releases -> Qualities]
  /\ dir = [r \in Releases |-> "absent"]
  /\ current = NoRelease /\ next = NoRelease /\ running = NoRelease
  /\ installs = 0
  /\ pc = "idle" /\ rel = NoRelease /\ previous = NoRelease
  /\ rolling = FALSE /\ passed = FALSE /\ rolledBack = FALSE /\ hiccup = FALSE
  /\ outcome = "none"
  /\ onDisk = [r \in Releases |-> "nothing"]
  /\ saved = [current |-> NoRelease, next |-> NoRelease]

Goto(step) == pc' = step /\ UNCHANGED outcome
Exit(result) == pc' = "idle" /\ outcome' = result

(* A directory that changes is no longer on the disk as it is.             *)
Directory(state) ==
  /\ dir' = [dir EXCEPT ![rel] = state]
  /\ onDisk' = [onDisk EXCEPT ![rel] = IF @ = "nothing" THEN @ ELSE "name"]

SameDirectory == UNCHANGED <<dir, onDisk>>

-----------------------------------------------------------------------------
(* main, up to the activation.                                             *)

Begin(r) ==
  /\ pc = "idle" /\ installs < MaxInstalls
  /\ installs' = installs + 1
  /\ rel' = r /\ previous' = NoRelease
  /\ rolling' = FALSE /\ passed' = FALSE /\ rolledBack' = FALSE /\ hiccup' = FALSE
  /\ pc' = "check" /\ outcome' = "none"
  /\ UNCHANGED <<quality, disk, kernel, running>>

(* The archive and its RELEASE file are checked, the layout is prepared,   *)
(* and a release directory that exists is refused.                         *)
OverwritesExisting == TRUE
NotInstalled == dir[rel] = "absent"

Check ==
  /\ pc = "check"
  /\ \/ NotInstalled /\ previous' = current /\ Goto("create")
     \/ UNCHANGED previous /\ Exit("failed")
  /\ UNCHANGED <<quality, disk, kernel, running, installs, rel, rolling, passed, rolledBack, hiccup>>

(* install -d: it may fail before or after it created the directory.       *)
Create ==
  /\ pc = "create"
  /\ \/ Directory("created") /\ (Goto("unpack") \/ Exit("failed"))
     \/ SameDirectory /\ Exit("failed")
  /\ UNCHANGED <<quality, current, next, saved, running, installs, script, hiccup>>

(* tar as the application user; its directory is removed when it fails, if *)
(* rm does not fail as well.                                               *)
Unpack ==
  /\ pc = "unpack"
  /\ \/ Directory("unpacked") /\ Goto("normalize")
     \/ (Directory("absent") \/ SameDirectory) /\ Exit("failed")
  /\ UNCHANGED <<quality, current, next, saved, running, installs, script, hiccup>>

AfterNormalizeUnchecked == "share"
AfterNormalize == "validate"

Normalize ==
  /\ pc = "normalize"
  /\ \/ Directory("normalized") /\ Goto(AfterNormalize)
     \/ SameDirectory /\ Exit("failed")
  /\ UNCHANGED <<quality, current, next, saved, running, installs, script, hiccup>>

(* validate_extracted_release leaves the script itself: the rm -rf written *)
(* after the call is never reached and the directory stays.                *)
Validate ==
  /\ pc = "validate"
  /\ IF quality[rel] = "not_arm64" THEN Exit("failed") ELSE Goto("share")
  /\ UNCHANGED <<quality, disk, kernel, running, installs, script, hiccup>>

ShareBenchmarks ==
  /\ pc = "share"
  /\ \/ Directory("complete") /\ Goto("unlink")
     \/ SameDirectory /\ Exit("failed")
  /\ UNCHANGED <<quality, current, next, saved, running, installs, script, hiccup>>

-----------------------------------------------------------------------------
(* activate_release, of the new release or, rolling back, of the previous  *)
(* one.  Under set -e a failing command ends the installer; suspended, the *)
(* next command follows.                                                   *)
TargetIsNew == rel
Target == IF rolling THEN previous ELSE rel

FailsAt(step) ==
  IF rolling THEN hiccup' = TRUE /\ Goto(step) ELSE UNCHANGED hiccup /\ Exit("failed")

(* rm -f succeeds when there is nothing to remove.                         *)
Unlink ==
  /\ pc = "unlink"
  /\ \/ next' = NoRelease /\ Goto("link") /\ UNCHANGED hiccup
     \/ next # NoRelease /\ UNCHANGED next /\ FailsAt("link")
  /\ UNCHANGED <<quality, dir, current, kernel, running, installs, script>>

(* ln -s, then chown -h of the link.                                       *)
Link ==
  /\ pc = "link" /\ next = NoRelease
  /\ \/ next' = Target /\ Goto("rename") /\ UNCHANGED hiccup
     \/ next' \in {Target, NoRelease} /\ FailsAt("rename")
  /\ UNCHANGED <<quality, dir, current, kernel, running, installs, script>>

(* mv -Tf replaces current in one step; it fails without a current.next.   *)
Rename ==
  /\ pc = "rename"
  /\ \/ next # NoRelease /\ current' = next /\ next' = NoRelease
        /\ Goto("restart") /\ UNCHANGED hiccup
     \/ UNCHANGED <<current, next>> /\ FailsAt("restart")
  /\ UNCHANGED <<quality, dir, kernel, running, installs, script>>

-----------------------------------------------------------------------------
(* restart_service and wait_for_health, of the installation or of the      *)
(* rollback.                                                               *)

Restart ==
  /\ pc = "restart"
  /\ \/ running' = current /\ Goto("health")
     \/ /\ running' \in {running, NoRelease}
        /\ IF rolling THEN Exit("failed") ELSE Goto("rollback")
  /\ UNCHANGED <<quality, disk, kernel, installs, script, hiccup>>

(* /health says ok and ready within the attempts: only a release that      *)
(* works does, and even that one may take too long.                        *)
SaysReady == running # NoRelease /\ quality[running] = "works" /\ dir[running] = "complete"

HealthPasses ==
  /\ pc = "health" /\ SaysReady
  /\ IF rolling THEN rolledBack' = TRUE /\ UNCHANGED passed /\ Exit("failed")
                ELSE passed' = TRUE /\ UNCHANGED rolledBack /\ Goto("finish")
  /\ UNCHANGED <<quality, disk, kernel, running, installs, rel, previous, rolling, hiccup>>

HealthFails ==
  /\ pc = "health"
  /\ IF rolling THEN Exit("failed") ELSE Goto("rollback")
  /\ UNCHANGED <<quality, disk, kernel, running, installs, script, hiccup>>

(* rm of the archive, and cat of the RELEASE file: if either fails, the    *)
(* installation that was declared healthy ends in an error.                *)
Finish ==
  /\ pc = "finish" /\ (Exit("success") \/ Exit("failed"))
  /\ UNCHANGED <<quality, disk, kernel, running, installs, script, hiccup>>

(* rollback_release: the previous release if there is one with a binary,   *)
(* or a stop that may fail.                                                *)
HasPrevious == previous # NoRelease /\ dir[previous] \in {"complete", "torn"}
LacksPrevious == previous # NoRelease => dir[previous] # "complete"

Rollback ==
  /\ pc = "rollback"
  /\ \/ HasPrevious /\ rolling' = TRUE /\ Goto("unlink") /\ UNCHANGED running
     \/ /\ LacksPrevious /\ UNCHANGED rolling
        /\ Exit("failed") /\ running' \in {running, NoRelease}
  /\ UNCHANGED <<quality, disk, kernel, installs, rel, previous, passed, rolledBack, hiccup>>

-----------------------------------------------------------------------------
(* The world.                                                              *)

(* The installer dies: its terminal is closed, or it is interrupted.       *)
Kill ==
  /\ pc # "idle" /\ Exit("killed")
  /\ UNCHANGED <<quality, disk, kernel, running, installs, script, hiccup>>

(* An orderly reboot writes everything to the disk.  At boot systemd runs  *)
(* what the link names.                                                    *)
Written(r) == IF dir[r] = "absent" THEN "nothing" ELSE "files"
LinksNow == [current |-> current, next |-> next]

Reboot ==
  /\ running' = current
  /\ IF pc = "idle" THEN UNCHANGED <<pc, outcome>> ELSE Exit("killed")
  /\ onDisk' = [r \in Releases |-> Written(r)] /\ saved' = LinksNow
  /\ UNCHANGED <<quality, disk, installs, script, hiccup>>

(* The kernel writes the names to the disk on its own, and the files of    *)
(* some of the directories.                                                *)
Writeback ==
  /\ \E whole \in SUBSET Releases :
       onDisk' = [r \in Releases |->
         IF dir[r] # "absent" /\ r \notin whole /\ onDisk[r] # "files" THEN "name"
         ELSE Written(r)]
  /\ saved' = LinksNow
  /\ kernel' # kernel
  /\ UNCHANGED <<quality, disk, running, installs, pc, script, hiccup, outcome>>

(* The power fails: the changes of names since the last writeback may be   *)
(* lost, and a release whose files were not on the disk may miss some.     *)
DirAfter(r, lost) ==
  IF ~lost THEN dir[r]
  ELSE IF onDisk[r] = "nothing" THEN "absent"
  ELSE IF dir[r] = "absent" THEN "created"
  ELSE dir[r]

PowerLoss ==
  /\ \E lost \in BOOLEAN, torn \in SUBSET {r \in Releases : onDisk[r] # "files"} :
       /\ dir' = [r \in Releases |->
            IF r \in torn /\ DirAfter(r, lost) = "complete" THEN "torn" ELSE DirAfter(r, lost)]
       /\ current' = IF lost THEN saved.current ELSE current
       /\ next' = IF lost THEN saved.next ELSE next
  /\ onDisk' = [r \in Releases |-> Written(r)'] /\ saved' = LinksNow'
  /\ running' = current' /\ Exit("power_lost")
  /\ UNCHANGED <<quality, installs, script, hiccup>>

Install ==
  \/ Check \/ Create \/ Unpack \/ Normalize \/ Validate \/ ShareBenchmarks
  \/ Unlink \/ Link \/ Rename \/ Restart \/ HealthPasses \/ HealthFails \/ Finish
  \/ Rollback

Next == Install \/ Kill \/ Reboot \/ Writeback \/ PowerLoss \/ \E r \in Releases : Begin(r)

Spec == Init /\ [][Next]_vars

-----------------------------------------------------------------------------
(* Properties.                                                             *)

(* Whatever fails, dies or reboots, current never names, and the service   *)
(* never runs, a release that is not completely installed and checked:     *)
(* "This prevents current from temporarily pointing to an incomplete path" *)
(* (deployment.md:256).  Only a power loss can take files from one, before *)
(* the kernel had written them.                                            *)
OnlyCompleteReleases ==
  \A r \in {current, running} \ {NoRelease} :
    dir[r] \in {"complete", "torn"} /\ quality[r] # "not_arm64"

(* A run that ends in success left its release current, running and ready, *)
(* and so did one that failed after it had found the service healthy.  Any *)
(* other that failed left the release that was current before it, if there *)
(* is a whole one, and running if it printed that the rollback completed,  *)
(* unless a command of the activation failed inside the rollback.  Even    *)
(* then what it printed is true of a ready service, but perhaps of the     *)
(* release it refused.                                                     *)
Serves(r) ==
  current = r /\ running = r /\ quality[r] = "works" /\ dir[r] = "complete"

OutcomeIsTruthful ==
  /\ outcome = "success" => Serves(rel)
  /\ outcome = "failed" /\ passed => Serves(rel)
  /\ outcome = "failed" /\ rolledBack => Serves(previous) \/ (hiccup /\ Serves(rel))
  /\ outcome = "failed" /\ ~passed /\ previous # NoRelease =>
       \/ current = previous
       \/ current = rel /\ (hiccup \/ dir[previous] # "complete")

(* An installed release is never touched by a later installation.  A power *)
(* loss takes nothing from one whose files are on the disk.                *)
InstalledIsImmutable ==
  [][\A r \in Releases : dir[r] = "complete" =>
       \/ dir'[r] = "complete"
       \/ onDisk[r] # "files" /\ outcome' = "power_lost"]_vars
=============================================================================
