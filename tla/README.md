# A formal model of HomeDNS

TLA+ modules that model the Go service, its commands and the release installer
of this repository, TLC configurations that check them on small instances, and
proofs that TLAPS checks for every value of the constants. Every definition is
translated from the source; `PROJECT.json` maps each one to the lines it stands
for.

1. [The system](#the-system)
2. [The modules](#the-modules)
3. [What each run checks](#what-each-run-checks)
4. [Fairness](#fairness)
5. [What is proved](#what-is-proved)
6. [Where the code and its documents differ](#where-the-code-and-its-documents-differ)
7. [What is not modelled](#what-is-not-modelled)
8. [Plan](#plan)

To check a module: `tlc -config DnsServer.cfg MCDnsServer.tla`. To check its
proofs: `tlapm DnsServerProofs.tla`.

## The system

`homedns-dns` (under `dns/`) is one binary with two lives. As a service it
forwards DNS queries of a home network to an upstream resolver and answers
`/health`. As a command, `homedns-dns benchmark`, it measures that service and
writes a report. `deploy/install-release.sh` puts a release of it on the
Raspberry Pi it runs on, beside a systemd unit that restarts it.

### The service

| Component | State it keeps | Operations | Correct when |
| --- | --- | --- | --- |
| Command, `cmd/homedns-dns/main.go` | none | `runServer`: flags, configuration, `app.New`, signals, exit code | the exit code tells the truth; a signal ends the process at any time |
| Configuration, `config/config.go`, `load.go`, `validate.go` | none | `Load`, `Decode`, `Validate`, the default values | what is accepted can be run; `/health` is never served to the network |
| DNS server, `dns/internal/dnsserver/server.go` | a mutex; `started`, `shuttingDown`, an atomic `ready`; two miekg/dns servers with their sockets; two listener goroutines and two observers per start | `Start`, `Shutdown`, `Ready`, the goroutines | a call that failed leaves no socket behind; a nil from `Shutdown` means both listeners drained; `ready` is never left true over a dead listener; calls return |
| DNS handler, `dnsserver/handler.go` | nothing of its own: one goroutine per message | `ServeDNS` | each message gets exactly one answer, whatever fails or panics, SERVFAIL when the upstream did not answer |
| Upstream client, `upstream/client.go` | nothing | `Exchange`, with a retry over TCP of a truncated UDP answer | a UDP client is only told of a truncation that TCP could not avoid |
| Metrics, `metrics/metrics.go` | fourteen atomic counters | the `Record` functions, `Snapshot` | counters agree with what was served; a snapshot is off by no more than the requests in flight |
| Health server, `health/server.go` | a mutex; the `http.Server` and its listener; an atomic `ready`; a serving goroutine per start | `Start`, `serve`, `Shutdown`, `Ready` | `ready` means a socket is accepting; an old goroutine never takes a new server away; every socket is closed in the end |
| Health handler, `health/handler.go` | nothing | `ServeHTTP` | no answer says ready about a server being stopped, as far as a graceful stop can assure it |
| Application, `app/app.go` | the components it built | `Run`, `shutdown`, `shutdownDNS`, `healthState` | startup is all or nothing; a signal ends `Run`; nil means a graceful stop |

`runServer` loads and validates the configuration, installs the signal handler
and calls `app.Run`. That calls `Start` of the DNS server, then of the health
server, and stops them in the opposite order when its context is done, with one
timeout for both. The goroutines share state through one mutex and one atomic
flag per server. `health` reads the DNS server's readiness and a metrics
snapshot through callbacks. What is hard here: a listener that ends by itself at
the moment of a `Start` or `Shutdown`; flags read under a lock and acted upon
after it; a `Shutdown` whose context expires with handlers running; an old
generation's goroutine that outlives its server; a health answer computed before
a stop and written during it; counters incremented and read one at a time; a
signal before the handler is installed or after it was removed; addresses that
are compared as they are written and bound as what they mean.

### The benchmark

| Component | State it keeps | Operations | Correct when |
| --- | --- | --- | --- |
| Runner, `benchmark/runner.go` | a scheduler, N workers, a closer and a consumer around two channels; an atomic count of what was handed over | `RunPath` | each query is in the result once, whenever the context ends; no goroutine is left; the progress adds up |
| Suite, scenarios, progress, `suite.go`, `scenario.go`, `progress.go` | the scenario being run, the last event | `SuiteRunner.Run`, `RunScenario`, `OverallCompleted` | the percentage on the terminal is the share of measured queries; an accepted configuration is one that can run |
| Terminal progress, `cmd/homedns-dns/progress.go` | the time of the last line of each path | `ReportProgress`, `progressBar`, `formatDuration` | lines keep up with the benchmark and only move forward; bars, estimates and durations are honest |
| Process lookup, `app/benchmark_process_linux.go` | the numbers it listed | `resolveBenchmarkTargetPID` | a server that runs all the time is found; a restart is not taken for two servers |
| Command, `main.go`, `app/benchmark.go` | none | `runBenchmark`, `RunBenchmark`: flags, profile, options, lookup, measurement, exit code | what one check accepts no later one refuses; success means a report of every query |
| Resource collector, `resource_collector_linux.go`, `resource_summary.go` | a sampling goroutine, the previous snapshot, the samples | `Collect`, `BuildResourceSummary` | samples tile the run; what a sample saw is reported; `Collect` returns; a restart is detected |
| Report runner, `report_runner.go` | the result being built | `Run`, `ClassifyScenario`, `BuildBenchmarkSummary` | the verdict is that of the worst path; totals and the worst path are right |
| Service and report file, `service.go`, `report.go` | files in a directory | `Run`, `WriteJSONFile` | a report is whole or absent; a run that answered has stored one |
| Statistics, profiles | none | pure functions | see [below](#what-is-not-modelled) |

`runBenchmark` checks its flags; `RunBenchmark` finds the process to measure and
calls the service. The report runner calls the collector, which runs the suite in its
callback; the suite runs scenarios, each two warmups and two measured paths of
the runner, and reports events that become lines on the terminal; the service
stores what comes out. Hard: the count of a query handed over is incremented
after the hand-over; the end of a context races sends, answers and ticks; each
channel must be closed by its owner and no other; two throttles that read
different clocks are in series; `/proc` is listed and read while processes come
and go; rounding decides what a boundary value shows; a sample may be half taken
when the benchmark ends; a report may be half written when the power goes.

### Deployment

`deploy/install-release.sh` unpacks an archive into `releases/<id>`, checks it,
switches the link `current`, restarts the service, polls `/health` and rolls
back when the service does not become ready. Its state is on the disk (release
directories, the links `current` and `current.next`) and in systemd (the
process). Hard: any command may fail, and `set -e` does not apply inside a
function called in a condition; the script or the machine may die between any
two commands.

## The modules

One module per component, an abstract specification beside two of them, and a
composition for each of the two commands.

| Module | Models | Actions |
| --- | --- | --- |
| `DnsServer` | `server.go`: callers of `Start` and `Shutdown`, generations of listeners and observers | one per stretch of code between two scheduling points |
| `DnsLifecycle` | what the rest of the program may rely on: stopped, running, stopping, and readiness that only a start sets | 4 |
| `HealthServer` | `health/server.go` and as much of net/http's `Serve` and `Shutdown` as it relies on | as for `DnsServer` |
| `App` | `app.go` and the health handler, composed of `DnsLifecycle` and `HealthServer` by `INSTANCE` | the steps of `Run`, the signal, health requests, DNS queries |
| `Configuration` | the fields, their defaults, `Load`, `Validate`, and the loopback check of `health.NewServer` | none: operators |
| `ServerCommand` | `runServer` and `app.New`, over `App` and `Configuration` | one per stage, and what the process does in each |
| `DnsHandler` | `handler.go`, `client.go` and `metrics.go`: concurrent requests and a snapshot | one per atomic operation, one per exchange |
| `BenchRunner` | `runner.go` | scheduler, workers, closer, consumer |
| `QueryLedger` | what a caller sees of `RunPath`: each query settled once, as a success or a failure | 3 |
| `BenchSuite` | `suite.go`, `scenario.go`, `progress.go` | the events and the steps between them |
| `TerminalProgress` | the lines of `cmd/homedns-dns/progress.go`, over the events of `BenchSuite`, with the throttle of `RunPath` and the clock | what reports an event, an observation, a tick |
| `TargetLookup` | the search in `/proc`, with the processes | one per directory entry and per command line read |
| `BenchmarkCommand` | `runBenchmark` and `RunBenchmark`, over `TerminalProgress` and `TargetLookup` | one per stage, and what the process does in each |
| `ResourceCollector` | the collector, the sampler and the service they watch | a sample is three steps: the ticks of the system, the files of the process, then `vcgencmd` |
| `ReportStatus` | `report_runner.go` | validation, suite, one scenario classified or summed per step |
| `ReportStore` | `service.go` and `WriteJSONFile`: concurrent runs on one directory, the kernel, a power loss | one per system call |
| `InstallRelease` | `install-release.sh`, systemd, the disk, reboots and power losses | one per command that changes anything or may end the script |

`MC<module>` instantiates a module for TLC and holds only the values of its
constants. `<module>Proofs` holds its theorems; those of `App` are in
`ServerCommandProofs`, those of `BenchSuite`, `TerminalProgress` and
`TargetLookup` in `BenchmarkCommandProofs`, and those of `ResourceCollector`,
`ReportStatus` and `ReportStore` in `ReportProofs`, as the parts of one report.
`App` and `BenchSuite` have no instance of their own: TLC runs them inside
`ServerCommand` and `BenchmarkCommand`, with the configurations and workloads that
the flags let through and the signals that come at any time. Definitions such as
`CloseUdpOnly` or `VerdictInverted`, each just before the definition it
resembles, are faulty variants of it: `PROJECT.json` lists under `mutants` which
property fails when one replaces the real definition.

How state corresponds to code, where it is not one to one:

* **Generations.** Each `Start` that binds a socket is numbered. The fields
  `s.udpServer`, `s.tcpServer` or `s.httpServer` become `cur`, the number they
  point to, 0 for nil; sockets, listeners and observers are tables indexed by
  generation, so that goroutines of an old one go on beside the new one. In
  `server.go` and `health/server.go` the fields that are always assigned
  together are one variable.
* **Mutexes.** Where the code holds a mutex across a wait (`Start` of the DNS
  server), `mu` is a variable and the steps in between are actions. Where it
  holds one for straight-line code, the critical section is one action.
* **miekg/dns and net/http.** External. A listener is spawned, serving,
  draining, or has ended in one of three ways; `Notified` and `Done` are the
  two channels `Start` waits on. A TCP listener is closed when its
  shutdown begins, a UDP socket when its handlers are done, as the library does.
* **Contexts.** `expired` may become true at any time of the call it bounds.
* **Messages.** An upstream answer is a response code and the truncation bit;
  timeouts, other errors and nil answers are nondeterministic.
* **Panics** of a request are those of the forwarder's exchange and of `WriteMsg`
  before it has sent anything; `dropped` is the reply whose writing panicked. A
  message without a question or a missing forwarder panics nowhere, as the code
  checks for them. The server always passes a writer and the handler always has a
  logger, so that panics over those being nil are left out.
* **Counters.** Each atomic operation is a step. A duration counts as one
  exchange, so that a fallback contributes two.
* **Addresses and arguments** are spellings, with what each means given by a
  constant (`ParseIP`, `SplitHostPort`, `Absolute`, `Joined`): the code compares
  some of them as written and others by what they mean.
* **Flags** are records of what parsing can make of them: not given, accepted,
  refused.
* **Time** in `TerminalProgress` is the age of what the code remembers, up to one
  second, above which it does not distinguish. Durations that are shown are
  integers, in tenths of a millisecond.
* **Processes** have ascending numbers; one that ends is gone, and its command line
  is that of its start.
* **CPU shares** are pairs of ticks, of the process and of the system, that the
  code divides. Each of the two readings of a sample may fail on its own.
* **Rates** are whole numbers of units, `HundredPercent` of which are the whole,
  rounded half up as `math.Round` does. The code's unit is the sixth decimal of a
  percentage; the run's is a tenth of a percent.
* **`set -e`.** In `InstallRelease` a failing command ends the script, or, while
  `rolling`, is followed by the next command; `hiccup` remembers that. `passed`
  and `rolledBack` remember that the script printed that the health check passed,
  or that the rollback completed.
* **Files.** In `ReportStore` a temporary file is torn, written or synced. The
  rename and the answer of the run are two steps. `disk` and `named` are what the
  directory on the disk surely holds: a power loss may take a rename back, and
  then the temporary file is there again, or leave a written file torn. In
  `InstallRelease` `onDisk` and `saved` are that for release directories and the
  two links: nothing is synced, so that a complete release may come back without
  some of its files (`torn`) under a link that did reach the disk.

## What each run checks

| Run | Instance and bounds | Distinct states | Shows |
| --- | --- | --- | --- |
| `dns_server` | one caller, as `app.Run` is, and two starts that bind (`MaxStarts`), or two callers and one start (`MaxShared`) | 42 903 | With one owner no socket outlives a call that leaves the server stopped. `ready` is never left true without an observer that will clear it, and every step is one of `DnsLifecycle`. With any callers a nil from `Shutdown` means both listeners of its generation drained, a broken listener is noticed, and calls return though a handler never does. |
| `dns_server_stale_observer` | one caller, two starts | violation | `ReadyWhileServing`, see [below](#where-the-code-and-its-documents-differ). |
| `health_server` | two callers, two starts, one active request per generation (`MaxActive`) | 162 374 | The pointer comparisons keep an old goroutine from clearing a new server. `ready` implies an open socket, up to the instant after its `Serve` returned. A socket is closed even when `Shutdown` comes before its goroutine was scheduled. |
| `server_command` | both servers, two health requests, two DNS queries at a time (`MaxQueries`); ports 0, 53 and 65536, four spellings of addresses, six upstreams | 77 780 | Startup is all or nothing. No answer says ready during a stop, except one read before that `health.Shutdown` gave up on or did not know of. Exit code 0 of a run means that a signal stopped it and nothing was cut off. The health server is only ever started on a loopback address. A signal ends the process in every stage. |
| `dns_handler` | two requests of every kind, one snapshot (`MaxSnapshots`), two upstream answers (`Messages`), no panic beside a snapshot (`MaxPanicked`); symmetric in the requests | 6 209 056 | At rest the counters are exactly what was served. Each message is answered once and properly, also after a panic of the forwarder or of `WriteMsg`. A snapshot is off by at most the requests in flight while it was taken. |
| `bench_runner` | two workers, three queries | 89 106 | Each query is in the result once. No goroutine is left. Progress is monotone, adds up, and ends at the total. `RunPath` returns. It implements `QueryLedger`. |
| `benchmark_command` | four scenarios; counts -1, 0, 1 and 4 for each of queries, warmup and workers (`Counts`), one profile; a configuration path that is empty, blank or a name; a second of two ticks (`Second`); three processes (`MaxPid`) of four command lines; sixteen durations at the boundaries of rounding | 1 004 332 | What the flags accept the options, the suite and the runner accept, but for an empty output directory and a configuration path of white space. Success means that every query was measured and the report stored. A steady server is among the processes found, and a restart is not two servers. The overall progress computed from one event is the number of queries really measured. The terminal drops no two events of a path in a row, nor the first or the last. Bars only grow and are full at the end; durations are rounded, never shown as nothing. |
| `resource_collector` | two processes, two ticks of the system, two samples (`MaxStarts`, `MaxTicks`, `MaxSamples`); readings that fail | 611 656 | The CPU shares of any samples in a row add up to what was used between them, and a share is missing only where a reading is or no time passed. `Collect` returns though a command of the sampler hangs. |
| `resource_collector_restart` | no samples in between | violation | `RestartIsDetected`, see [below](#where-the-code-and-its-documents-differ). |
| `report_status` | two scenarios of 3000 queries, rates in thousandths (`HundredPercent`); 0, 41 or 42 failures and timeouts; two latencies; four sets of thresholds | 457 366 | The status is that of the most severe path at its exact bound. The reasons explain it, the worst path is the least reliable one, the totals add up. |
| `report_store` | three runs, two seconds of the clock (`MaxSecond`); symmetric in the runs | 84 373 | A report is whole through failures, kills, also between a rename and its answer, and a power loss that loses renames. Until the power fails, a run that answered has stored a report under its name, its own or one of the same second, and a run that was not killed left no temporary file. |
| `install_release` | three releases of any quality, three installations (`MaxInstalls`), kills, reboots and power losses; symmetric in the releases | 819 210 | What `current` names and systemd runs was always completely installed; only a power loss takes files from it. No installation touches an installed release. A success, or a failure after the health check passed, serves the new release; any other failure kept or restored the previous one, and a rollback that is said to be complete serves it, unless a command failed inside the rollback. |

Why these bounds are enough for the cases that matter:

* *Two generations* are what it takes for a goroutine of an old server to meet a
  new one; a third would be to the second what the second is to the first. The
  runs of the two servers restart and then stop again.
* *Two callers* of a server overlap in every pair of operations. The DNS server
  has one owner in the program, and some of its properties hold for one only:
  they are stated under `OneOwner` (at most one goroutine has made calls so far).
  `MaxShared` keeps a server that two goroutines call to one start, while one
  owner restarts it; the proofs need neither bound.
* *Two requests and a snapshot*: every pair of increments and loads is reordered;
  the skew of a snapshot shows with one request and grows with two. Panics and the
  snapshot are not combined in the run (`MaxPanicked` is 0 beside a snapshot), which
  keeps it to minutes; the proofs combine them, for any number of requests.
* *Ports 0, 53, 65536* are one below, one in and one above what is accepted; two
  spellings are of the same address, one is public and one no address for
  `ParseIP`; the upstreams lack a host, a port, both, or name an unknown port. A
  field that the file leaves out takes the default.
* *Two workers, three queries*: a worker is reused, and at any time one query can
  be unsent while another is running and a third is observed. The proofs lift it
  to any number.
* *Counts -1, 0, 1 and 4* are negative, none, one, and enough for concurrency,
  which alternates between one and the configured number, so that four scenarios
  have each twice; workers may be fewer than the queries, as many, or more. Four
  queries of each of eight paths pass the ten that an estimate waits for.
* *A second of two ticks* tells "now", "less than a second ago" and "a second ago"
  apart, which is all the throttles do. Events come up to a tick after the clock
  was read, or later.
* *Three processes* are a server that stays, one that ends and the one started in
  its place. The soundness of the lookup is proved for any number.
* *0, 41 and 42 of 3000* are rates of 0, 13.67 and 14 units, and the last two are
  both shown as 14: a count below a bound that rounding takes to it, and one
  exactly at it. The four sets of thresholds leave the default
  bounds, put others at 0, 5 and 14, and add the two that must be refused.
* *Three releases and installations* are one that runs, one being installed and one
  to fall back on after a second failure. Each may be repeated, and any command
  of each may fail.

Deadlock is checked except in three runs of something that ends:
`dns_handler` (the requests of the bound are served), `report_status` (a report
is made) and `report_store` (the runs are over) stop by design and say
`CHECK_DEADLOCK FALSE`. The other modules either go on or say when they are done
(`Done`, `Finished`, `Returned`, `Exited`).

## Fairness

Safety is checked without fairness. Liveness is checked under a fair
specification, `FairSpec`, `FairCommandSpec` or `FairCollectorSpec`:

* `DnsServer`: a call in progress goes on (`WF` of `Progress`), contexts have a
  deadline, a goroutine that was started runs. What waits for `s.mu` gets it: that
  takes strong fairness, since other goroutines may hold the mutex again and
  again in between, and `sync.Mutex` grants it by its starvation mode.
  No caller has to call, no listener has to end and no handler has to return.
* `HealthServer`, `ServerCommand`: the same with weak fairness, as their critical
  sections are single steps. A closed listener makes `Accept` fail, and a stage of
  the command ends. Requests and queries may hang for ever; the signal may never
  come.
* `BenchRunner`: every goroutine goes on and every exchange returns, as the
  `dns.Client` of the query runner has a timeout (`benchmark/runner.go:46`). Nothing
  has to end the context.
* `ResourceCollector`: `Collect` goes on; the sampler sees a cancelled context,
  which also kills its command. Before that no command of the sampler has to
  answer, and the benchmark need not return. The commands of the first and the
  last sample, which `Collect` takes itself, are assumed to answer.

`BenchmarkCommand` has no fairness and no liveness property: that its parts end
is said by `BenchRunner` and `ResourceCollector`.

## What is proved

TLAPS checks these for every value of the constants that the named assumptions
allow: any number of callers, starts, requests, workers, queries, scenarios,
processes, samples, runs and releases.

| Module | Theorem | States |
| --- | --- | --- |
| `DnsServerProofs` | `TypeCorrect` | `[]TypeOK` |
| | `FailedStartReleases` | a failed `Start` holds no socket, for any number of callers |
| | `CleanShutdown` | a nil from `Shutdown` means drained, for any number of callers |
| | `ReadyWatched` | `ready` has a watcher, as long as one goroutine has made calls |
| | `SocketsReleased` | no call that leaves the server stopped leaves a socket, as long as one goroutine has made calls |
| | `Implements`, `OwnedImplements` | every step is one of `DnsLifecycle`, as long as one goroutine has made calls; with a single caller `DnsServer` implements it |
| `HealthServerProofs` | `TypeCorrect` | `[]TypeOK` |
| | `ReadyPromise` | `ready` implies a socket that accepts |
| | `NewerServerKept` | a serving goroutine and a `Shutdown` only ever clear the server they worked on |
| `DnsHandlerProofs` | `TypeCorrect` | `[]TypeOK` |
| | `OneAnswer` | each message is answered once and properly, also after a panic of the forwarder or of `WriteMsg` |
| | `CountersExact` | at rest every counter is exactly what was served |
| | `SnapshotIsClose` | a snapshot is off by no more than the requests in flight while it was taken |
| `BenchRunnerProofs` | `TypeCorrect` | `[]TypeOK` |
| | `SchedulerCounter` | the count of handed-over queries is exact when read |
| | `Accounting` | each query is accounted for once |
| | `UnscheduledCause` | a run whose context lives sends every query |
| | `PoolDrained` | no goroutine outlives `RunPath` |
| | `Implements` | `BenchRunner` implements `QueryLedger` |
| | `ProgressConsistent` | progress never goes back, adds up and ends at the total |
| `BenchmarkCommandProofs` | `SuiteTypeCorrect`, `LookupTypeCorrect`, `CommandTypeCorrect` | the type invariants |
| | `Truthful`, `CommandTruthful` | the overall progress of every event is the number of measured queries, of the suite alone and inside the command |
| | `Runnable` | an accepted configuration has no path the runner refuses |
| | `Sound`, `CommandSound` | a server that ran all the time is found; several matches were alive at once; of the lookup alone and inside the command |
| | `LinesFollow` | the terminal never drops two events of a path in a row, nor the first or the last |
| | `BarsMoveForward` | the lines of a path move forward with their bars, full at the end only |
| | `DurationsShown` | a duration of any length is shown to the nearest unit |
| | `Agreement` | what the flags let through no later check refuses, but for an empty output directory or a configuration path of white space |
| | `ExitIsTrue` | success means a stored report of every query, and no signal takes a measurement with it |
| `ServerCommandProofs` | `CommandTypeCorrect` | `[]CommandTypeOK`, with the types of the application |
| | `RunsTheApplication` | `ServerCommand` implements `App` |
| | `Whole` | startup is all or nothing |
| | `NoneReadyWhileStopping` | no answer that says ready is on its way while the DNS server is stopped, unless `health.Shutdown` gave up on it or had no server to wait on |
| | `ExitIsTrue` | exit code 0 of a run means a signal and a graceful stop |
| | `Private` | the health server is only started on a loopback address |
| `InstallReleaseProofs` | `TypeCorrect` | `[]TypeOK`; no run takes its own release for the previous one |
| | `CurrentIsComplete` | `current` names, and systemd runs, completely installed releases only, but for files that a power loss took |
| | `ReleasesAreImmutable` | no installation touches an installed release, and no power loss one whose files are on the disk |
| | `OutcomeTruthful` | a success, or a failure after the health check passed, serves the new release; any other failure kept or restored a whole previous one, a completed rollback serves it; the one exception is a command that failed inside the rollback |
| `ReportProofs` | `CollectorTypeCorrect`, `StatusTypeCorrect`, `StoreTypeCorrect` | the type invariants |
| | `SamplesTile` | over any samples in a row that have a CPU share, the shares add up to the ticks between the first and the last, of the process and of the system; a share is missing only where a reading is or no time passed |
| | `SummaryFaithful` | the status of a report is that of its most severe path, at a bound exactly when the failures or timeouts are, to within half a unit of the rounding; its reasons explain it, no path has a higher reported rate than the one named worst, its totals are complete |
| | `Atomic` | a report is whole, through failures, kills and a power loss |
| | `Answered` | until the power fails, the name a run answered with holds a report: its own, or of a run of the same second that got past its rename |
| | `CleansUp` | until the power fails, a run that ended by itself left no temporary file |

None of the properties is inductive alone. The invariants behind them:

* **`DnsServer`.** `IInv` says who may hold the mutex (`LockInv`: exactly a caller
  inside `Start`, and then the server is neither started nor stopping), that
  generations to come are untouched (`FutureInv`), that a listener that ended
  closed its socket (`SocketInv`), what `Start` has built at each of its steps
  (`StartInv`), that a started server has an observed generation (`StartedInv`),
  and what a `Shutdown` has got past without an error (`ShutdownInv`).
  `CleanShutdown` needs that last part because two overlapping calls may work on
  the same generation: an error of the one must not be mistaken for the other's
  success. `OwnedInv` adds, for a goroutine that is the only one to have made
  calls, whose generation `cur` is at each of its steps (`OwnerInv`), which
  listeners then serve (`ServingInv`), that no other generation holds a socket
  (`OwnedSocketsInv`), and what an observer may still do (`ObserverInv`). It is
  false once a second one has called: the epilogue of its `Shutdown` may clear the
  fields of a newer server. `SoleBefore` says that whoever is alone after a step
  was alone before it and is the one who took it.
* **`HealthServer`.** `Untouched` says that a generation not yet created is neither
  served nor closed, so that a `Start` begins with a clean one; `Shutdowns` that
  the generation a `Shutdown` works on is no longer the ready one and, past its
  first step, is being closed. With them every step that clears `cur` is seen to
  clear the generation it compared, or one it is stopping.
* **`DnsHandler`.** `LocalInv` says, for each request, what its place in the handler
  tells of its kind, of the exchanges it made, of its answer and of the writes.
  A request may pass two increments of one counter: two latencies of a fallback,
  and two replies with one code when writing the first panicked. `Once` and `Twice`
  say where a request has passed the first and the second. `Tallied` says, for
  each counter and in every state, that it equals the number of requests of the
  one and of the other (`Having`), by `Cardinality`. A step either moves no request
  past an increment (`CountsNothing`) or one request past one (`Counts`), and each
  lemma about the handler is one of the two.
  `CountersAddUp` is `Tallied` when no request is under way. For a snapshot,
  `Loaded` says that what was loaded of a counter is the size of two such sets of
  requests, and that the others it counts by now are among those the snapshot has
  overlapped. Counters stand in fixed relations to each other when nothing is in
  flight; as the sets differ by overlapping requests only, so do their sizes. Panics
  are loaded last, so that a reply that was counted twice shows there as well.
* **`BenchRunner`.** The interesting fact is that `scheduled` lags one behind
  between a send and the increment after it. `SchedulerInv` says which queries
  were handed over at each step of the scheduler; `WorkerInv` that a running query
  has exactly one worker and that the observations are closed only when all
  workers have gone, which happens only after the jobs were closed, which happens
  only between an increment and the next send. `TallyInv` and `CallerInv` tie the
  tally to the set of counted queries by `Cardinality`. `ReportedInv` says that
  the last report does not exceed what has been counted since, and `Grows` that a
  step only adds to that.
* **`BenchSuite`.** `InScenario` says which event was last sent at each place of a
  scenario, and how its scenario, phase and count agree with the index and the
  total; `BetweenScenarios` that the event before a scenario is the start of the
  benchmark or the end of the last scenario; `Outside` covers the ends. From them
  `OverallCompleted` of the event follows by products of the number of queries,
  which the leaves that need arithmetic state one at a time.
* **`TargetLookup`.** `SteadyKept` says that a server alive since the lookup began is
  among the entries once the cursor has passed it, and then among the entries or
  the matches. `Crowding` says that two processes that match were alive at once as
  soon as one has matched while another lives and is still to be read: everything
  to be read was listed, hence alive, before the first match was found.
* **`TerminalProgress`.** `Throttles` relates the two clocks: when the runner is
  about to report, or has reported something the terminal dropped, its last
  report is no older than the terminal's last line of the path. The terminal has
  then seen a full second pass before the runner lets the next event through, and
  does not drop a second one. `FirstLines` says that a path without an event has
  no line yet, hence none that could hold its first event back, `ProgressLine`
  what the last line shows of its path, and `TookLine` that a duration is the
  formatted one of what was measured.
* **`BenchmarkCommand`.** `CommandInv` is the conjunction of the three above with
  `Stages`, which stage has begun the lookup and the suite, `Checked`, what the
  options and the target were checked for, and `Codes`, what each exit code
  implies. Every step of the command is a step of one part and leaves the others
  alone.
* **`App` and `ServerCommand`.** `HealthServerProofs` is instantiated for the one
  caller and the one start of this process, and its invariant cited. `DnsSteps`
  and `HealthSteps` say where each server is at each step of `Run`, `Counted` that
  the active requests are those being answered, by `Cardinality`, and `Draining`
  that once `Shutdown` has seen the listener closed no request begins, and once it
  ended without giving up none is left. `RunsTheApplication` then carries all
  of it over to the command, whose `Stages` and `Codes` speak only of flags,
  configuration and exit.
* **`InstallRelease`.** `Sound(r)` says that r was completed, may since have lost
  files, and is built for the machine. `LinksSound` says that of both links, as they
  are and as they are on the disk, of the process and of the release to fall back
  on. `ScriptInv` says that a release being prepared is not yet complete and one
  being activated is sound. A power loss may take the links back to those on the
  disk; it must not then lose the directories they name, and `Saved` says that a
  release under a link that was saved has its name on the disk as well, since names
  reach it in the order they changed. `ActivationInv` adds where link and process
  stand at each step of an activation, at the previous release until the rename
  and at its target after it, and what of that is left when a command failed
  inside a rollback.
* **`ResourceCollector`.** Two goroutines take samples and each sample is three
  steps. `Turns` says that the sampler runs between the first sample and the last;
  `Aging` that no sample holds more ticks than its process, or the system, has by
  now; `Halves` and `Chain` that each sample, half taken or whole, `Follows` the one
  before it: it has a share when both have their readings and time has passed, the
  share is then the difference of the two, and a process never goes back. `Ticked`
  bounds the samples by the ticks. The shares of a stretch without a gap then
  telescope (`SharesTelescope`), and `GapsExplained` is `Follows` once more. `Parts` and
  `Wholes` are recursive functions, and no theorem of induction over them can be
  used here; `Least` gives a first index at which a sum would be wrong, and the step
  to it from its predecessor is the contradiction. `PartialSums`, by the same
  argument, says that such functions exist, as far as every finite length.
* **`ReportStatus`.** `Supported` says of a verdict that it is passed exactly when
  it has no reason, that no reason is more severe and that one is as severe:
  `RaiseSupports` keeps that for each finding. `Counting` says how far each phase
  has got, `Classified` that each verdict is that of its measurements, and
  `Totals`, `Listed` and `WorstOf` what the summary holds of the scenarios before
  the next one. `worsePath` compares three ranks in turn; `WorseFacts` says what
  of a strict order the search relies on: of three paths, if the second is worse
  than the third and the first is not, the first is not worse than the second.
  `QuotientAt` says when a quotient of natural numbers is at least a given one, and
  `RateAt` from it that a rounded rate is at a bound exactly when the count is, to
  within half a unit.
* **`ReportStore`.** `TempInv` says what a temporary file holds at each step of its
  writer; the rename needs it synced. `Stored` says that a report under a name is
  synced and of a run with that ID that is past its rename (`Renamed`: before its
  answer, after it, or killed between the two). `StoredSynced` says that of every
  name, and of what the disk surely shows, which a power loss falls back on.

TLC was given each of these invariants before it was proved. The type invariants
of most of these modules and some properties are proved and not repeated in a run
(`FailedStartHoldsNothing`, `ScheduledIsExact`, `UnscheduledHasCause`).

Every safety property and both refinements of the passing runs are stated by a
theorem. Only model-checked: liveness, which is out of the prover's reach with
fairness and `ENABLED` (`CallsReturn`, `BrokenListenerNoticed`, `SocketReleased`,
`SignalEnds`, `Terminates`, `CollectReturns`).

The assumptions the proofs rest on are those of the modules, and each is what
the code or its libraries give: `CommandAssumption` says that a count may be
zero and that a profile is a value of the flags, `AddressAssumption` that
`localhost` is a name and no address for `net.ParseIP`, `StatusAssumption` that
thresholds are whole units of a reported rate, and the others bound a constant
from below or say that a set is finite. Thresholds are the one place where the
program takes more: a bound between two units, which is to say with more than
six decimals, acts like the next unit, since only rounded rates are compared with
it.

Assumptions of the models, beside those named `ASSUME`: the address can be bound
when no earlier generation of this process holds it, or refused at will;
`WriteMsg` returns, or panics before it has sent anything; removing a temporary
file works; changes of file names reach the disk in the order they were made, the
contents of files that nobody syncs at any time; rates are rounded in exact
arithmetic; one installer runs at a time; building the query runner of a
worker does not fail, as the client factory of the program never does; process
numbers do not start again at the bottom during a lookup, and a process keeps the
command line it was started with.

## Where the code and its documents differ

Two of these are runs whose property TLC finds violated.

1. **A stale observer clears a new server's readiness**
   (`dns_server_stale_observer`). `observeListener` reads `started` and
   `shuttingDown` under the mutex and clears `ready` after it
   (`server.go:276-284`). When a `Shutdown` and a `Start` come in between, it
   clears the flag of a server whose two listeners serve, and nothing sets it
   again. `server.go:67` says "Ready reports whether both DNS listeners are
   running". The service starts its server once, so it takes a caller that
   restarts it, which `server.go:200` allows.
2. **A restarted service is not detected** (`resource_collector_restart`). The
   last sample reads the process the configuration named, so the PID after the
   run is that one or 0 and never another; `runtime-monitoring.md:267` promises
   `restart_detected: true` for a different one.

Others were met while modelling. The models follow the code; no run is made of
them.

* Overlapping calls of `Shutdown` reset the state of whatever server is current
  when the later one ends (`dnsserver/server.go:239`); the program has one
  caller.
* After `Serve` ended by itself, `health.Server.Shutdown` finds no server and
  returns without waiting for requests still active
  (`health/server.go:145`, comment at `:126`). `NoReadyAnswerWhileStopping` and
  `ExitTellsTheTruth` say what is left of the promise.
* Both servers are stopped under one context (`app.go:163`): a health request that
  hangs can use up the time of the DNS queries.
* `Validate` compares the two addresses as strings, while `validate.go:24` says
  that the configuration is then "safe and internally consistent": 0.0.0.0 and
  127.0.0.1 with one port, or two spellings of one address, are accepted although
  the health server cannot bind. An upstream that is the server's own address, or
  has port 0, is accepted too.
* `health.NewServer` accepts `localhost` (`health/server.go:245`); `Validate` never
  lets it through.
* The process lookup takes the first `--config` of a command line while the flag
  package takes the last, knows no single-dash `-config`, refuses any process with
  an argument `benchmark`, resolves relative paths in the working directory of the
  benchmark, and does not look at the executable. `LookupIsSound` speaks of
  servers that were given one `--config`.
* An empty `--output` is refused by the options, after the benchmark was announced
  (`ChecksAgree`), and so is a `--config` of white space that names a valid file: the
  flags and `Load` refuse the empty string only (`main.go:238`, `load.go:14`), the
  options every blank one (`benchmark.go:128`). Every other wrong flag is refused
  before.
* A panic in the `WriteMsg` of `recoverPanic` itself (`handler.go:213`), after one of
  the forwarder or of the first reply, is recovered by nobody and ends the process;
  the comment at `handler.go:195` says that an unexpected panic does not. The model
  has no such second panic.
* `DNS-FORWARDER.md:170` says that the upstream transport is the client's; the code
  retries truncated UDP answers over TCP.
* `SPRINT-02-DNS-FORWARDER.md:876` returns a TCP answer to a UDP client when it
  fits; the handler writes it as it is, without looking at its size.
* A snapshot of the metrics is not a consistent cut (`metrics.go:160`);
  `SnapshotSkewBounded` says by how much it may be off.
* `deployment.md:370` says that the service is stopped when a rollback fails; only a
  rollback that has no previous release stops it (`install-release.sh:228`).
* `set -e` is suspended inside `rollback_release` (`install-release.sh:219`, `:326`): a
  failed `activate_release` there is followed by the restart.
* `deployment.md:222` says that the installer checks the version output of the
  binary, and `:250` that it validates the target of the new link. It does neither.
* The installer syncs nothing. After a power loss `current` may name a release some
  of whose files are missing, which `deployment.md:256` does not foresee.
* When removing the archive or printing the `RELEASE` file fails
  (`install-release.sh:345`, `:354`), the script exits with an error although the new
  release passed its health check and serves.
* When a command of `activate_release` fails inside a rollback, the release that was
  refused may be restarted, answer this time, and be what "Rollback completed
  successfully." is printed of (`OutcomeIsTruthful`).
* Throttling counts as known as soon as there is any sample, even one that could
  not read it (`resource_summary.go:398`): the report then says false, while
  `runtime-monitoring.md:319` says that "unavailable fields remain `null`". The
  state of throttling is not modelled.
* A benchmark cancelled during its last scenario completes: its unsent queries
  are failures, and the context is looked at only before a scenario
  (`suite.go:259`).
* Two runs that start in the same second share an ID and a report file
  (`service.go:220`), while `benchmark-system.md:217` says that the service "creates a
  unique report ID"; `AnsweredIsStored` says which of the two remains, and that it
  may be one that was killed before it could answer.
* The command of the last sample runs under `context.Background`
  (`resource_collector_linux.go:230`): nothing ends it if it hangs.

## What is not modelled

* **Data.** DNS messages beyond code and truncation, JSON, YAML syntax, the names,
  rates and latencies of printed lines, the parsing of `/proc` files, memory, load,
  temperature and throttling samples, latencies other than by rank.
* **Statistics** (`statistics.go`), and the error of floats: rates are rounded in exact
  arithmetic.
* **The values of profiles, and version**: constants. What a profile's counts do is
  in `BenchmarkCommand`.
* **Two installers at once.** Nothing in the script excludes them; planned.
* **Package and deploy scripts**, benchmark scripts, test servers, the frontend:
  no state of their own, or scaffolding.
* **The libraries** miekg/dns and net/http are external, and modelled as far as
  this code depends on the order of what they do.

## Plan

The modules were written in this order: the DNS server and its abstraction, the
health server, the application that composes them, requests and counters, then
the benchmark from the inside out, the installer, and the two commands. What
comes next:

1. *More modules.* The ranks and the merging of `statistics.go` as recursive
   functions against a reference definition; `InstallRelease` with two installers
   and the remote script that calls it, to say what each may undo of the other.
2. *More composition.* `BenchSuite` over `QueryLedger` as `App` is over
   `DnsLifecycle`; `ReportStatus` over the outcome of `BenchSuite`; a
   `ReadyIsAccepting` that takes the DNS listeners themselves.
3. *More proofs.* One theorem that puts `DnsServer` in the place of the
   `DnsLifecycle` that `App` is composed of, from `Implements` and
   `RunsTheApplication`; the same for `BenchSuite` over `QueryLedger`; that a
   stored report is only ever replaced by a whole one, as an action property; and
   what two installers keep of `CurrentIsComplete`.
