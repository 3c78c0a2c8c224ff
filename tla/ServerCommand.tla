---------------------------- MODULE ServerCommand ----------------------------
(***************************************************************************)
(* The command `homedns-dns` (main.go) from its flags to its exit code:    *)
(* App, with the configuration it was given and the signals it catches.    *)
(***************************************************************************)
EXTENDS App, Configuration

VARIABLES
  stage,     \* step of runServer
  cfg,       \* the loaded configuration
  shown,     \* the version was printed
  exit       \* exit code by name, "signal" when a signal ended the process

commandVars == <<stage, cfg, shown, exit>>
allVars == <<vars, commandVars>>

Flags == [parses : BOOLEAN, version : BOOLEAN, arguments : BOOLEAN, config : {"", "path"}]

CommandInit ==
  /\ Init
  /\ stage = "flags" /\ cfg = Default /\ shown = FALSE /\ exit = "none"

-----------------------------------------------------------------------------
GotoStage(next) == stage' = next /\ UNCHANGED <<cfg, shown, exit>>
Exit(code) == stage' = "returning" /\ exit' = code /\ UNCHANGED <<cfg, shown>>

Usable(flags) == ~flags.arguments /\ flags.config # ""

Invoke ==
  /\ stage = "flags"
  /\ \E flags \in Flags :
       \/ ~flags.parses /\ Exit("invalid")
       \/ /\ flags.parses /\ flags.version
          /\ stage' = "returning" /\ exit' = "success" /\ shown' = TRUE /\ UNCHANGED cfg
       \/ /\ flags.parses /\ ~flags.version
          /\ IF Usable(flags) THEN GotoStage("load") ELSE Exit("invalid")
  /\ UNCHANGED vars

LoadConfiguration ==
  /\ stage = "load"
  /\ \E file \in Files :
       \/ ~OneDocument(file) /\ Exit("failure")
       \/ /\ OneDocument(file)
          /\ \E settings \in Settings :
               IF Validate(Decoded(settings))
                 THEN stage' = "new" /\ cfg' = Decoded(settings) /\ UNCHANGED <<shown, exit>>
                 ELSE Exit("failure")
  /\ UNCHANGED vars

(* app.New.                                                                *)
NewApplication ==
  /\ stage = "new"
  /\ IF LoopbackAddress(cfg.health) THEN GotoStage("notify") ELSE Exit("failure")
  /\ UNCHANGED vars

(* signal.NotifyContext.                                                   *)
CatchSignals == stage = "notify" /\ GotoStage("run") /\ UNCHANGED vars

RunApplication == stage = "run" /\ Run /\ UNCHANGED commandVars

ExitCode(outcome) == IF outcome = "nil" THEN "success" ELSE "failure"

ApplicationReturned == stage = "run" /\ ~Alive /\ Exit(ExitCode(result)) /\ UNCHANGED vars

(* os.Exit.                                                                *)
Leave == stage = "returning" /\ GotoStage("exited") /\ UNCHANGED vars

(* SIGINT or SIGTERM: stopSignals has been called when runServer returns.  *)
UncaughtInRun == {"flags", "load", "new", "notify", "run", "returning"}
Uncaught == {"flags", "load", "new", "notify", "returning"}

Killed ==
  /\ stage \in Uncaught
  /\ stage' = "exited" /\ exit' = "signal" /\ UNCHANGED <<cfg, shown, vars>>

Signalled == stage = "run" /\ Signal /\ UNCHANGED commandVars

(* The rest of the process, and the clock.                                 *)
Environment ==
  /\ stage = "run"
  /\ \/ ContextExpires \/ ListenerEnds \/ HealthServes \/ QueryBegins \/ QueryEnds
     \/ \E r \in Requests : RequestBegins(r) \/ ReadReadiness(r) \/ Respond(r)
  /\ UNCHANGED commandVars

Exited == stage = "exited" /\ UNCHANGED allVars

Command ==
  \/ Invoke \/ LoadConfiguration \/ NewApplication \/ CatchSignals
  \/ RunApplication \/ ApplicationReturned \/ Leave

CommandNext == Command \/ Killed \/ Signalled \/ Environment \/ Exited

CommandSpec == CommandInit /\ [][CommandNext]_allVars

(* The fairness of App, and every other step of the command returns.       *)
FairCommandSpec ==
  /\ CommandSpec
  /\ WF_allVars(Command)
  /\ WF_allVars(stage = "run" /\ ContextExpires /\ UNCHANGED commandVars)
  /\ WF_allVars(stage = "run" /\ Alive /\ ~bound[Gen] /\ HealthServes /\ UNCHANGED commandVars)
  /\ WF_allVars(stage = "run" /\ Alive /\ serve[Gen] # "accepting" /\ HealthServes
                  /\ UNCHANGED commandVars)

-----------------------------------------------------------------------------
(* Properties.                                                             *)

CommandTypeOK ==
  /\ TypeOK
  /\ stage \in Uncaught \cup {"run", "exited"}
  /\ DOMAIN cfg = DOMAIN Default /\ (cfg # Default => Validate(cfg))
  /\ shown \in BOOLEAN
  /\ exit \in {"none", "success", "failure", "invalid", "signal"}
  /\ stage = "exited" => exit # "none"

(* Success says that the version was printed, or that a signal stopped the *)
(* servers and nothing was cut off; after invalid arguments nothing was    *)
(* ever started; and a signal that is not caught never takes a server with *)
(* it.                                                                     *)
ExitTellsTheTruth ==
  /\ exit = "success" => shown \/ (phase = "stopped" /\ Graceful)
  /\ exit = "invalid" \/ shown => pc = "start_dns"
  /\ exit = "signal" => pc \in {"start_dns", "returned"} /\ phase = "stopped" /\ ~dnsReady

(* Whatever the file says, the health server is only ever started on a     *)
(* loopback address, and not on what is written as the address of the DNS  *)
(* server ("health server must listen on a loopback address",              *)
(* health/server.go:23).                                                   *)
HealthIsPrivate ==
  gen > 0 =>
    /\ cfg.health \in DOMAIN ParseIP /\ ParseIP[cfg.health] \in Loopback
    /\ DNSAddress(cfg) # HealthAddress(cfg)

(* A signal ends the process in every stage, even when a request or a      *)
(* query never ends: both Shutdowns are bounded by the context.            *)
SignalEnds == (signalled \/ exit # "none") ~> stage = "exited"
=============================================================================
