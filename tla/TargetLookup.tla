----------------------------- MODULE TargetLookup -----------------------------
(***************************************************************************)
(* How a benchmark finds the process of the server it measures             *)
(* (internal/app/benchmark_process_linux.go): it lists /proc, then reads   *)
(* the command line of each process it listed, while processes come and    *)
(* go.                                                                     *)
(*                                                                         *)
(* The kernel lists processes in the order of their numbers, one step      *)
(* each, and numbers new ones upwards; that the numbers start again at the *)
(* top is left out.  The benchmark itself, which skips its own number, is  *)
(* not among the processes.  A command line is the sequence of its         *)
(* arguments, without empty ones, and stays what the process was started   *)
(* with: that a process may exec or overwrite it is left out.              *)
(***************************************************************************)
EXTENDS Integers, Sequences, FiniteSets

CONSTANTS
  CommandLines,   \* what processes may have been started with
  Joined,         \* arguments of the form --config=path, and the path of each
  Absolute,       \* spellings of paths, and the path each stands for
  ConfigPath,     \* --config of the benchmark, never blank (OptionsValid)
  MaxPid          \* bound: processes that are ever started

ASSUME LookupAssumption ==
  /\ MaxPid \in Nat /\ ConfigPath \in DOMAIN Absolute
  /\ \A args \in CommandLines : args \in Seq(STRING)
  /\ "--config" \notin DOMAIN Joined

VARIABLES
  processes,   \* the living ones: [pid, args]
  lastPid,     \* the last number given to a process
  lookup,      \* step of resolveBenchmarkTargetPID
  cursor,      \* the next number to list
  entries,     \* numbers listed and not yet read
  matches,     \* numbers of the processes that matched
  steady,      \* history: servers of this configuration alive since the lookup began
  crowded      \* history: at some time in the lookup two processes that match were alive

hostVars == <<processes, lastPid>>
lookupVars == <<lookup, cursor, entries, matches, steady, crowded>>

Pids == 1..MaxPid

-----------------------------------------------------------------------------
(* sameConfigurationPath, for processes with one working directory.        *)
SameConfigurationPath(actual) ==
  actual \in DOMAIN Absolute /\ Absolute[actual] = Absolute[ConfigPath]

(* isHomeDNSServerProcess: what follows the first --config decides.        *)
ConfigFlags(args) == {i \in 2..Len(args) : args[i] = "--config" \/ args[i] \in DOMAIN Joined}

FirstConfigMatches(args) ==
  \E i \in ConfigFlags(args) :
    /\ \A j \in ConfigFlags(args) : i <= j
    /\ IF args[i] = "--config"
         THEN i < Len(args) /\ SameConfigurationPath(args[i + 1])
         ELSE SameConfigurationPath(Joined[args[i]])

IsHomeDNSServerProcess(args) ==
  /\ \A i \in 2..Len(args) : args[i] # "benchmark"
  /\ FirstConfigMatches(args)

(* What the flags of runServer make of the same arguments: the last of the *)
(* values counts, and one dash does as well as two.                        *)
AllFlags(args) == ConfigFlags(args) \cup {i \in 2..Len(args) : args[i] = "-config"}

LastFlag(args) == CHOOSE i \in AllFlags(args) : \A j \in AllFlags(args) : j <= i

ServedPath(args) ==
  IF args[LastFlag(args)] \in DOMAIN Joined THEN Joined[args[LastFlag(args)]]
  ELSE args[LastFlag(args) + 1]

(* A living server of this configuration that was given it with --config,  *)
(* and once: what the lookup can be expected to know.                      *)
IsServer(args) ==
  /\ \A i \in 2..Len(args) : args[i] # "benchmark"
  /\ \E i \in ConfigFlags(args) : AllFlags(args) = {i} /\ (args[i] = "--config" => i < Len(args))
  /\ SameConfigurationPath(ServedPath(args))

Servers == {p \in processes : IsServer(p.args)}

-----------------------------------------------------------------------------
LookupInit ==
  /\ processes = {} /\ lastPid = 0
  /\ lookup = "idle" /\ cursor = 1 /\ entries = {} /\ matches = {}
  /\ steady = {} /\ crowded = FALSE

Searching == lookup \in {"listing", "reading"}

TwoMatch ==
  \E p, q \in processes :
    p # q /\ IsHomeDNSServerProcess(p.args) /\ IsHomeDNSServerProcess(q.args)

ProcessStarts ==
  /\ lastPid < MaxPid /\ lastPid' = lastPid + 1
  /\ \E args \in CommandLines : processes' = processes \cup {[pid |-> lastPid', args |-> args]}
  /\ crowded' = (crowded \/ (Searching /\ TwoMatch'))
  /\ UNCHANGED <<lookup, cursor, entries, matches, steady>>

ProcessEnds ==
  /\ \E p \in processes : processes' = processes \ {p} /\ steady' = steady \ {p}
  /\ UNCHANGED <<lastPid, lookup, cursor, entries, matches, crowded>>

BeginLookup ==
  /\ lookup = "idle" /\ lookup' = "listing"
  /\ steady' = Servers /\ crowded' = TwoMatch
  /\ UNCHANGED <<hostVars, cursor, entries, matches>>

(* os.ReadDir, until no higher number is alive.                            *)
ListEntry ==
  /\ lookup = "listing" /\ cursor <= lastPid
  /\ cursor' = cursor + 1
  /\ entries' = entries \cup ({cursor} \cap {p.pid : p \in processes})
  /\ UNCHANGED <<hostVars, lookup, matches, steady, crowded>>

ListEnds ==
  /\ lookup = "listing" /\ cursor > lastPid
  /\ lookup' = "reading"
  /\ UNCHANGED <<hostVars, cursor, entries, matches, steady, crowded>>

(* A process that has ended since has no command line to read.             *)
MatchListed(pid) == TRUE
Matches(pid) == \E p \in processes : p.pid = pid /\ IsHomeDNSServerProcess(p.args)

ReadEntry ==
  /\ lookup = "reading"
  /\ \E pid \in entries :
       /\ entries' = entries \ {pid}
       /\ matches' = IF Matches(pid) THEN matches \cup {pid} ELSE matches
  /\ UNCHANGED <<hostVars, lookup, cursor, steady, crowded>>

LookupEnds ==
  /\ lookup = "reading" /\ entries = {}
  /\ lookup' = "done"
  /\ UNCHANGED <<hostVars, cursor, entries, matches, steady, crowded>>

TargetFound == Cardinality(matches) = 1

LookupNext == BeginLookup \/ ListEntry \/ ListEnds \/ ReadEntry \/ LookupEnds

LookupSpec == LookupInit /\ [][LookupNext \/ ProcessStarts \/ ProcessEnds]_<<hostVars, lookupVars>>

-----------------------------------------------------------------------------
(* Properties.                                                             *)

LookupTypeOK ==
  /\ processes \subseteq [pid : 1..lastPid, args : CommandLines]
  /\ lastPid \in 0..MaxPid
  /\ lookup \in {"idle", "listing", "reading", "done"}
  /\ cursor \in 1..(lastPid + 1) /\ entries \subseteq 1..lastPid /\ matches \subseteq 1..lastPid
  /\ steady \subseteq processes /\ crowded \in BOOLEAN

(* "finds the running HomeDNS server process" (line 14), although nothing  *)
(* it reads is of one moment: a server that ran all the time is among the  *)
(* matches, so that a single match is that server; and if there are        *)
(* several, two such processes were alive at one time, so that a restart   *)
(* is not taken for two servers.                                           *)
LookupIsSound ==
  lookup = "done" =>
    /\ {p.pid : p \in steady} \subseteq matches
    /\ (\E a, b \in matches : a # b) => crowded
=============================================================================
