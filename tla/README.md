# A TLA+ verification of syver

syver reads a *gossfile*, a declarative list of checks on a host (files, ports,
processes, services, commands, ...), runs the checks and reports the results.
This directory holds TLA+ models of it, from the gossfile to the exit code, the TLC
runs that check them on small instances, and TLAPS proofs for every instance.

Paths below are relative to the repository root.

## 1. Inventory

### How the parts interact

```
 cmd/syver ──ctx (SIGINT/SIGTERM)──► validate / serve / add / autoadd
                                       │
   loader ◄──verdicts── discovery ◄────┤  gossfiles, vars, includes
                                       ▼
                       runValidation (validate.go)
             any depends-on?  │                    │ none
                              ▼                    ▼
  buildSchedule ► validateWithDependencies   validateParallel
                              │  workers           │  workers
                              ▼                    ▼
                 ValidateSafe (resource/panic.go) ── resource.Validate ── matchers
                              │                    │
                              │   subprocesses, timed lookups, tables of the
                              │   operating system, tables the sweep shares
                              ▼                    ▼
                          out  (channel of result groups)
                              ▼
             outputer ► exit code (validate) / body, cached (serve)
```

| Component | State it keeps | Operations | What is hard | What makes it correct |
|---|---|---|---|---|
| Dependency scheduler, `dependency_scheduler.go` | `pending`, `status`, `completed`, `stateMu`, channels `work`, `out` | build a schedule, pass, skip, wave, worker, close | workers race on maps; skips cascade; three kinds of goroutine block on unbuffered channels | one group per resource, prerequisites first, reasons independent of timing, it ends |
| Schedule construction, same file | `index`, `refsByKey`, DFS marks | resolve references, detect cycles | roots in map order, colons in keys | accepts exactly the acyclic schedules, resolves to what is denoted |
| Parallel scheduler, `validate.go` | channels `in`, `out`, a WaitGroup | feed, validate, send, close | close against the last send; a worker lost to a panic | one group per resource before the close |
| Validate command, `validate.go` | clock, attempt, System, exit code | load, sweep, retry, sleep | signal against timer; deadline arithmetic; stale tables | the exit code is about the last attempt; it returns |
| Health endpoint, `serve.go` | go-cache entry, `syverMu`, listener, contexts | probe, sweep under the lock, answer, shut down | bursts, expiry, disconnects, shutdown at any moment | one sweep per expiry, honest status, no hang |
| System snapshots, `system/system.go` | `ports`, `portsErr`, `procMap`, two Onces | snapshot once, judge many | which worker comes first; failed lookups | one snapshot per sweep; a failed lookup never passes |
| Discovery, `discovery_*.go` | register → verdict | run entries, inject verdicts | order of arrival; the close of `out` | every register has its own verdict |
| Loader, `store.go`, `syver_config.go`, `template.go`, `toplevel_guard.go` | merged config, read-once stdin and vars, process-wide flags | include, merge, alias, peek | include cycles, precedence, a peek that drains inputs | depth-bounded, later file wins, the peek leaves no trace |
| Resource validation, `resource/` | results of one resource | check attributes, promote skips, annotate, recover | the skip rule is written twice | reasons agree with promotions |
| Matchers, `matchers/`, `resource/gomega.go` | none | parse an expectation, match a value | errors under `not`, `or` and lists | a pass is one the expectation means |
| Outputers, `outputs/` | counts, overall outcome, metrics registry | render, exit code | arrival order, empty groups, results JSON cannot hold | failure is never masked |
| Subprocesses, `system/command.go`, `helper_command.go`, `util/command.go`, `util/procgroup_*.go` | child, process group or Job Object, timers | start, attach, cancel, reap, release | three clocks around one exit; grandchildren that hold the pipe | bounded, honest, kills the tree or nothing |
| Timed lookups, `dns.go`, `mount*.go`, `http.go` | a goroutine and its buffered channel per attempt | ask, retry, time out | late answers | bounded, no leak, an answer is one that was heard |
| Host lookups, other `system/` | none beyond the lookup's | one getter per attribute | "absent" against "could not ask" | absence is learned |
| add/autoadd, `add.go`, `dispatch.go`, `resource/resource_map.go` | the gossfile on disk | look up, upsert, write | partial failure | nothing lost, nothing written that was not found |

`PROJECT.json` lists every component with its status, and every hazard at the
line where it bites.

## 2. The modules

Modules with state extend the modules of pure operators they use; the MC modules
compose components and give the constants values.

```
Sweep ◄─refines─ Scheduler ── DependencyGraph, WorkerPool     MCScheduler, SchedulerProofs
   ▲                 ▲ accepted by
   │              BuildSchedule                               MCBuildSchedule, BuildScheduleProofs
   └───refines── Parallel ◄─ Report ─► ResourceValidate ─► Matchers
                               └─────► Outputs                MCReport, ReportProofs
Discovery ◄─ Loader ┐                                         MCStore, StoreProofs
                Add ┘
CommandRun ◄─ HostLookup ─► HostAnswers ┐                     MCLookups, HostLookupProofs
                            TimedLookup ├                     LookupProofs
                            Snapshots   ┘
HealthServer                                                  HealthServerProofs
RetryLoop                                                     MCRetryLoop, RetryLoopProofs
```

**`DependencyGraph`**: `Refs` names the resources of a schedule by position;
`Acyclic` is the reference definition of "no cycle": a ranking exists.

**`Sweep`**: the abstract stream. `Report(r)` puts one group on it, when every
prerequisite is on it already, as SKIP exactly when one of them did not pass;
`End` closes it.

**`WorkerPool`**: `workerCount`.

**`Scheduler`**: the goroutine of `validateWithDependencies` is `pc` and the
pass's locals; `ExamineBlocked`, `ExamineSkip` and `ExamineRunnable` are the three
ways out of the loop body for the item at the head of `scan`; `PassAgain`,
`StartWave` and `EndWave` are what follows a pass. A worker goes through `Take`,
`Validate`, `Lock`, `Write`, `Send` and `Drained`; `Lock` and `Write` are separate
steps so that two workers could be seen in the critical section. `Render` and
`Finish` are the outputer. `pending` is a set examined in increasing order, which
is schedule order; a schedule is any assignment of lists to refs, so every order
is covered, and with it the order in which `Resources()` walks its maps. The branch
that reports "unsatisfied dependency" is not an action: it is the state predicate
`MustAbandon`, shown unreachable.

**`BuildSchedule`**: a string is the sequence of its colon-separated segments.
`Index` and `Resolve` are the two loops; `Enter`, `VisitDependency` and `Leave` are
the recursive `visit` with an explicit stack; `VisitRoot` takes the roots in any
order.

**`Parallel`**: feeder, workers, the goroutine that closes `out`, the outputer.

**`Matchers`**: an expectation is a tree. `Built` is `matcherToGomegaMatcher`,
`Match` evaluates bottom-up with the order of evaluation and the short cuts of
`and`, `or`, `not`, `contain-elements` and the safe transform; `Scan` reads a text
line by line as `have-patterns` does. A leaf's verdict on its value is an input:
true, false or "cannot be compared". `Meaning`, the reference, is Kleene's
three-valued logic over the whole value.

**`ResourceValidate`**: one constant per resource type, with its attributes in the
order its `Validate` judges them and what its first attribute does to the others.
`Validated` is `Validate`, `annotateSkipReasons` and `panicResults` what
`ValidateSafe` adds.

**`Outputs`**, **`Report`**: an outputer is what its format does (sorts, indexes the
first result, must marshal, code on failure); `tallyGroup` folds a group, `exitCode`
ends it. `Report` puts `ResourceValidate` behind `Parallel`'s `Validate` and the
outputer at the end of its channel. `RenderGroup` is a turn of its loop over the
channel; with a sorting format `CollectGroup` takes the groups off the channel first
and `RenderSorted` is a turn over what was sorted. `rendered` is what the loop is
through with. `Crash` is the index of an empty group. `AnySweepSpec` is a sweep of any
spec in any format: resources of all types, attributes of any kind, expectations two
combinators deep and as wide as one likes, texts of any number of lines.

**`HealthServer`**: a probe goes through `Lookup`, `Acquire`, `Recheck`,
`FillCache`, `Output`; its format comes from `negotiateResponseContentType` over
every kind of Accept header. A sweep is one step, taken with the mutex held, that
samples `hostDown`; what the sweep does inside is `Scheduler` and `Parallel`. The
variables `seen` and `expiries` are history. `Expire` may happen at any moment, which
covers every value of `--cache`; `Disconnect` may too. The four phases of `server`
are `Serve` around `ListenAndServe` and `Shutdown`, including a signal that comes
before the listener is open. `panicking` are the formats whose outputer panics on this
spec because a group of it is empty (section 3, `empty_group`): `net/http` recovers and
the probe ends `aborted`, without a status, the mutex long released.

**`RetryLoop`**: time in ticks; `Sweep` takes at least one. Both flags may be
negative, as nothing validates them: a negative `--sleep` is subtracted from the time
left and not slept, so `Deadline` lies later than `--retry-timeout` by as much. The
System is abstracted to what its cached tables say. Failures of the writer the outputer
renders to are left out.

**`Discovery`**: `Entries`, the feeder, the workers, the goroutine that closes `out`
and the collecting loop of `runDiscoveryEntries`. `told` keeps what each validation
really returned.

**`Loader`**: `ReadRoot` and `Include` read, render and decode a document (`Enter`
pushes it), `Merged` pops it into its includer; `Peek`, `Discovered` and `Return`
are the sequence around discovery, in the four modes that load a spec: plainly,
with `--discover`, under the `discovery` format or `serve`, which load it once, and
for `render`. What a first load leaves behind is kept: the process-wide format, filter
and quietness, and in `drained` the streams that give no bytes a second time, so that
only `stdinCache` and `varsCache` can. A vars file that cannot be used ends the load.
`warned` counts the warnings `quietDecode` gates (unknown top-level keys, of YAML
documents only, colliding aliases, globs without a match), `dups` the definitions a
load overwrote, which `mergeType` reports in the peek too. A template is a gate on a register;
rendering itself is the library's. `Reference` is the declarative reading of the
same files that the load is compared with: a chain is a path of includes from the
root, `Fault` what is wrong with the file at its end, `Winner` the value of a key
given by the last chain that gives one; a spec with a bad chain has the first one's
error.

**`Add`**: one lookup per resource, whose outcome is chosen when it is made: all of
it read, an attribute not read whose key is then left out (`partly`), an attribute not
read that must be (`unread`: a file's owner or group whose lookup did not run, a
service's or a registry key's state), absent, absent where the platform makes that an
error (`unfound`: a service on Windows), or failed. A constructor per type says what it
makes of it. `AddResource` is `add`, `autoAddType`
and `AutoAddPorts` the tries of `autoadd`, `WriteJSON` the guard against an empty
file and a write that may fail half way.

**`CommandRun`**: `Run`'s goroutine (`Configure`, `Start`, `Attach`,
`MarkAttached`, `Reap`, `IODone`, `WaitDelayExpires`, `Answer`), os/exec's `WatchCtx`,
the child, one grandchild inside or outside the group, the caller and a clock.
`kind` is the shell of `command:` or a helper, `goos` the platform. os/exec is
external, modelled from its contract: `Cancel` on a done context, `WaitDelay` from
the cancel or from the exit.

**`HostLookup`**, **`HostAnswers`**: `DetectService` and `DetectPackageManager`
choose a backend; a getter is asked of it, by a subprocess of `CommandRun`, and
`systemdRunning`, `dpkgSetup` and the like turn the answer into a value and an error.
`FallBack` starts the second helper of legacy systemd. `HostAnswers` does the same
for lookups without a subprocess. `heard` keeps what the system really said. A helper
that could not be started is not an error everywhere: `MissingBinary` names the getters
that take it for "no".

**`TimedLookup`**: `CallGetter` enters `setup` once; `StartAttempt` starts a
goroutine and a timer; `Receive` and `TimeOut` are the two arms of the `select`, each
possible when both are ready. `GetUsage` is a mount's statfs, which nothing bounds.

**`Snapshots`**: `ProcMapFirst`, `GetProcs`, `ProcMapLater` are the two ways
through `ProcMap`, and `PortsFirst`, `GetPorts`, `PortsLater` those through `Ports`.
A caller that finds the Once running waits: it has no step. A lookup fails or
succeeds by choice; `GetPorts` may fail for some protocols only, and a protocol whose
file cannot be opened has no ports and no error (`unopened`; `listening` is what was
really open). A process whose name cannot be read is not in the table. A lookup that
panics inside the Once is left out: `gopsutil` reports errors.

## 3. The runs

| Run | Shows |
|---|---|
| `scheduler` | the scheduler is safe and implements `Sweep`, whose fairness makes it end |
| `scheduler_chains` | **violation**: chains without a common dependency wait for each other |
| `build_schedule` | the cycle verdict against the reference definition; an accepted entry resolves to what it denotes |
| `build_schedule_colon` | **violation**: a key with a colon cannot be referred to by its key |
| `report` | expectation to exit code: passes are real, skips explained, the code and the overall outcome exact, one group per resource, `Sweep` implemented |
| `empty_group` | **violation**: a service without attributes reports nothing |
| `health_server` | sharing, freshness, honest status, no probe and no shutdown hangs |
| `retry_loop` | exit codes, deadline, return, for timeouts and sleeps of every sign |
| `store` | verdicts exact, loads equal to the reference, warnings as often as there is cause, loads end; `add` and `autoadd` lose and invent nothing |
| `autoadd` | **violation**: one failing lookup ends the whole `autoadd` |
| `lookups` | subprocesses, getters, timed lookups, shared tables: bounded, honest, no leak |
| `snapshots_proc` | **violation**: a failed process lookup lets `running: false` pass |

**Bounds.**

* `scheduler`: all acyclic schedules of 3 resources with up to 2 prerequisites: a
  chain, a diamond's two arms, a repeated prerequisite and an unrelated resource; 2
  workers give every race of a wave, since a property about the maps mentions two at
  most, and a wave larger than the pool. The proofs of section 5 remove these bounds,
  and cover a `MaxConcurrent` of zero or less.
* `build_schedule`: all graphs of 3 resources with lists of up to 2 entries, all root
  orders.
* `report`: two resources on two workers are both orders of arrival. Matchers are
  trees of two levels over three leaf verdicts, which is a combinator under `not` and
  under a list, and texts of up to two lines with up to two patterns, one line
  possibly too long. Attributes take every outcome of a lookup for every type.
* `health_server`: two probes, one sweeping while the other waits or arrives; a
  sharing fault needs two, and each probe runs at most one sweep, so sweeps and
  expiries need no cap.
  The formats are `documentation`, which indexes every group, and `prometheus`, which
  never does.
* `retry_loop`: five timeouts around zero and around the sleep, and sleeps of -3, 0, 1
  and 2, the first of which puts the deadline off; the deadline ends it.
* `store`: all include graphs over three files, self-includes among them, plus a
  fourth file for a chain that reaches `MaxDepth` (4 here, 50 in the code; only
  reaching it matters); two registers and two discovery entries; two workers.
  `autoadd` with four of the seven types: the file, whose argument must be a
  path, the process, which brings its ports, the port, and the service, which has
  every kind of outcome; two arguments at once only over a gossfile that can be read,
  as the other two kinds end or begin the command the same way. 877,445 states, the
  largest of the runs.
* `lookups`: timeouts of two or three ticks against a grace of one separate deadline,
  `WaitDelay` and exit; `Horizon` lies beyond every timer. One way to learn is
  exercised in each behaviour; they share no state.

**What the violations show.**

* `docs/gossfile.md` (Test dependencies): "References use the gossfile map key, or
  `type:key` when ambiguous across resource types." `resolveDependencyRef` decides
  by the presence of a colon, so `depends-on: [tcp:22]` for the port whose key is
  `tcp:22` is "not found".
* Same section: "Independent dependency chains still run in parallel; only declared
  dependencies are serialized." Waves are separated by `wg.Wait`: with `a2`
  depending on `a1` alone, `a2` waits for `b1` while a worker is idle.
* `docs/windows.md`: "a check that could not run must not be reported as one that
  passed." `ProcMap` returns the error of `GetProcs` to the first caller only.
* `resource/resource_map.go`, in a comment: "Discovering nine resources and failing on
  the tenth is a worse outcome than discovering nine and reporting why the tenth was
  left out." The error of `Exists` is treated so, the error of `fromSystem` is not.
* `resource/resource.go`, in a comment: "a resource always produces at least one
  result." A service has no mandatory attribute; `documentation` and every sorted
  format index the first result of its empty group.

**Other observations**, made while modelling and not violations of anything checked:

* the "Duplicate key" warning of `syver_config.go:72` is printed by the peek as well
  as by the load, unlike the other warnings (`WarningsExact` states both);
* a package whose helper binary is missing is "not installed" without an error, on
  purpose; that a systemd unit then does not exist, and an upstart job does not run,
  comes from reading an empty output (`MissingBinary`);
* a connection table whose file cannot be opened is "no ports", so that
  `listening: false` passes on it, as `README.md` says of a missing file;
* a negative `--sleep` lets attempts begin after `--retry-timeout`, by as much;
* `resource/http.go:94` gives a default to a timeout of 0 only, and to `net/http` a
  negative one is none at all;
* `add file` writes an entry without `owner` or `group` when their lookup failed, and
  fails itself only when it timed out or was cancelled;
* a short line of `dpkg-query` output would end `package_deb.go:48` in a panic;
* in `serve`, a spec with an empty group leaves a goroutine behind for every probe that
  is rendered in `documentation`: the one that feeds its results;
* with legacy systemd `Running` may run two helpers one after the other, each with
  the full bound;
* `prometheus` returns 0 whatever failed, as `docs/cli.md` says, while a comment in
  `outputs/structured.go` calls `structured` the sole outlier;
* `add mount` on a path that is no mount writes `exists: false`, which `validate`
  then fails with the lookup's error;
* `resource/group.go:96` looks for `stderr` in the ignore list where the attribute is
  `gid`.

## 4. Fairness

Weak fairness of a goroutine's steps, as the Go scheduler runs every runnable
goroutine; strong fairness of `Acquire`, as `sync.Mutex` hands a starved waiter the
lock after a millisecond; weak fairness of the server's lifecycle steps, of timers
and of the clock. No fairness is given to the environment: hosts, clients, cache
expiry, signals, child processes, resolvers, statfs. In `Scheduler`, `Parallel`,
`Discovery`, `HealthServer` and `RetryLoop` a validation or a sweep is assumed to
return. For commands, helpers, dns, mount tables and http that is what `lookups`
shows without any such assumption (`EveryLookupReturns`); a read of a
file, or a mount's usage, that never returns is outside it.

## 5. The proofs

Each proof module extends the modules it is about. Every theorem is about a
component's specification for every value of its constants that satisfies the
named assumptions; none of the bounds of section 3 is left. Almost no property of a
run is inductive; `Inv` or `...Inv` in each module is the invariant that is. One
lemma per action, or per group of like actions, shows that it is preserved.

Where the MC module starts a component only in chosen states, the component has a
specification of its own that starts in all of them: `SweepSpec`,
`AnySweepSpec`, `HostSpec`, `LookupSpec`, `SnapSpec`, `DiscoverySpec`, `AnyLoadSpec`,
`AnyAddSpec`. Every safety property of a passing run is stated by a theorem.

**Induction.** Where a fact is about a length, a number or a finite set, it is shown
by contradiction from a least counterexample: a nonempty set of numbers has a least
element, which the prover can use where it cannot instantiate an induction scheme. A
loop over a sequence is a recursive function, `Scan` over the lines of a text and
`overallAfter` over a group; that the function exists and is the only one with its
equations comes from the same argument.

**`SchedulerProofs`**, from `NAssumption`, `ScheduleAssumption` (acyclic dependency
lists) and `WorkerAssumption` (some CPU; any `MaxConcurrent`, negative ones too):
each safety property of the run `scheduler`, and `ImplementsSweepSafely`, the safety
half of the refinement of `Sweep`. `Inv` adds, phase by phase, where a resource can
be (`ScanPartition`: in one of the pass's three sets or reported; `WavePartition`:
pending, with the feeder, with a worker, or reported), what a worker holds and who
owns the mutex (`WorkerInv`), that what was decided on completed prerequisites stays
true because completed resources do not change (`DecidedInv`), and why a pass without
a skip cannot be empty-handed (`ProgressInv`). `NeverAbandonsCorrect` picks, among
the pending resources, one of least rank: its prerequisites rank lower, so none is
pending, so all have completed, contradicting that it was left pending. The
refinement maps a delivered group to `Report` and the close to `End`; a worker's
write of `status` before its send is invisible, as the mapping reads `status` only
for what was delivered.

**`BuildScheduleProofs`**, from `NAssumption` and `SpecsAssumption` (no two resources
share type and key; any dependency lists, cyclic ones too). `StackInv`: the refs
marked 1 are those on the stack, each once, and each frame's next one is a dependency
of it. `FrameInv`: the dependencies a frame is past are marked 2. `RankInv`: the refs
marked 2 have a ranking in the order they were marked in. When the search accepts,
all refs are marked and the ranking is the witness of `Acyclic`; when it meets a ref
marked 1, the stack from that ref on is a cycle, which no ranking survives
(`CycleCorrect`). `AcceptedCorrect` states the conclusion in the scheduler's terms:
what `buildSchedule` accepts satisfies `ScheduleAssumption`, so that the scheduler's
theorems hold of every spec with dependencies that is run at all. `SearchCorrect`
bounds the recursion of `visit` by the number of resources.

**`ReportProofs`**, from `NAssumption` and `WorkerAssumption`, for any spec and
format: `Inv` is the partition of the resources into those with the feeder, with one
worker, and reported (once each), and that a worker leaves only when the feeder is
empty. The close of `out` waits for all workers, so nothing is left to send
(`ClosedCorrect`); with the same mapping as above `validateParallel` refines the
safety of `Sweep` (`RefinementCorrect`), whether the outputer ends or dies on an empty
group. Three more properties are about what is in the groups, for `AnySweepSpec`:

* `SkipsCorrect`: the k-th result is that of the attribute with k - 1 reporting ones
  before it, so the first result is judged before any skip can be promoted; a promotion
  is the only way to SKIP without the author's `skip`, and `annotateSkipReasons`
  derives the reason from the same first result;
* `PassCorrect`: level by level, a matcher either errs or says what its expectation
  means in three-valued logic, unless a `contain-elements` below it swallowed an error.
  For `and`, `or` and lists of any width this is about the first element that decides;
  for `have-patterns`, about which patterns are still unmet after each line, and that a
  line too long to read ends the scan with an error before anything is concluded;
* `TallyCorrect`: `TallyInv` says that the counters are the cardinalities of what was
  rendered so far and the overall outcome the worst of it, in whatever order;
  `StreamInv` that each group received is rendered once, and all of them by the time
  `Output` returns. A group is disjoint from what was rendered, so cardinalities add.

**`HealthServerProofs`**, from `RequestsAssumption` and `FormatsAssumption`: only the
owner of `syverMu` is past `Acquire` (`MutexInv`); the cache holds the last sweep or
none, and between an expiry and the next there is one sweep at most (`CacheInv`); a
probe has read a sweep no older than the last one that had ended when it came
(`ReadInv`), and what it answers, if its outputer does not panic, is that sweep's
verdict (`VerdictInv`). The second
look into the cache under the lock is what the proof of `BurstCorrect` turns on.

**`RetryLoopProofs`**, from `DurationsAssumption` (timeouts and sleeps of any sign): the tables a
sweep reads were made after the attempt began (`FreshSystem`), the code at hand is
the one rendered from it (`Rendered`), and the loop sleeps only when the sleep ends
before the deadline, for a negative sleep the later `Deadline` (`RoomToRetry`).

**`HostLookupProofs`**, from `TimingAssumption` and `BackendsAssumption`: one
subprocess under three clocks. `JobInv` counts the closes of the Job Object's handle
and says that a cancel finds it open; `ProcessInv` relates the child, its descendant
and the kill; `ResultInv` relates what `Wait` returned to how the child ended and to
whether the pipes were drained; `ClockInv` bounds the time in each phase by the timer
that is armed, because the clock does not tick past a timer that is due.
`GetterInv` carries this through to what a getter replies, where
`RepliesCorrect` says which replies are learned and that a helper that could not be
started is the one thing taken for "no".

**`LookupProofs`**, from `LookupAssumption` and `ChecksAssumption`. Of a timed
lookup: `QueryInv` says what each attempt's goroutine has sent to its channel (once,
buffered, so a late one does not block), `FlowInv` that a lookup which has settled has
the answer of its last attempt, `ClockInv` that attempts share the deadline. Of the
tables a sweep shares: `ProcOnceInv` and `PortsOnceInv` say what each Once has left
behind, what was listening and which files were not opened included, `JudgedInv` that a
check was judged on that and nothing else. `OneSnapshot`
is stated for checks of one kind, as the two tables are read at different moments.

**`StoreProofs`**, from `WorkerAssumption`, `LoaderAssumption` and `AddAssumption` (an
argument has a slash or has none):

* discovery: `DiscoveryInv` partitions the entries as in `Parallel` and says that a
  verdict on its way is what the validation returned (`HeldInv`, `VerdictInv`), that
  none is dropped (`NoneLost`), and that after the close nothing is left (`EndInv`);
* loads, of any documents under any command line, without a bound on the number of
  files or on the depth: the stack stays below `MaxDepth` and the read-once inputs
  hold what was there to read (`LoaderTypeCorrect`); a load, seen from discovery, is
  a behaviour of `DiscoverySpec` (`LoadsRunDiscovery`, a refinement), so that the
  verdicts it uses are exact (`LoadVerdictsCorrect`); and the real load is rendered
  with the inline vars, or else these verdicts over the vars files, with warnings on,
  whatever the peek before it left in the process-wide variables (`RendersCorrect`);
* what a load returns (`LastIncludedCorrect`). The recursion over includes meets the
  chains of the reference in the order `Before`, an includer before what it includes.
  A chain is `Pending` when it goes on through an include some activation has yet to
  take, `Met` when it does not; each activation of the stack owns the met chains below
  it that are not below the next activation, and `Wins` says that it holds, key by key,
  the value of the last of them. `MergeInv` is this and that no chain met was bad. Taking an include is the least
  pending chain, so a failure there is that of the first bad chain; returning from one
  merges two sets of chains, one wholly after the other, which keeps `Wins`. With an
  empty stack nothing is pending, and `AnswerInv` is the reference's answer;
* what it warns about (`WarnsCorrect`): `FlowInv` says which load follows which and that
  only the peek is quiet; `WarnInv` that a file was warned about once for each met chain
  that ends in it, for its unknown keys each such chain whose root is YAML. `DupInv`
  (`DupInvCorrect`) is a balance that every load keeps, the peek among them: of the met
  chains that give a key, one is held by each activation that has a value for it, and the
  others were reported overwritten; a merge turns one holder into one report. With an
  empty stack one holder is left. What a load has met is finite, each step adding one chain at most,
  which is what lets the chains be counted without a bound on the number of files;
* `add` and `autoadd`, of any sequence of arguments no two alike, on any gossfile and
  host: `ConfigInv` says that what was in the file is kept and what is new was
  learned, `AutoInv` which lookups were made for the arguments done with. Distinct
  arguments are a hypothesis of `AnyAdd`, as the history `skipped` does not tell two
  lookups of the same name apart. `ScenariosCorrect` shows that TLC's commands are
  instances.

**What the attempts changed.** `Fault` was a CASE whose arms overlapped for a spec
that is read from stdin by `render` and is absent, which left the reference's error to
TLC's choice; it is now the order in which the code tests. The outputer's loop over
sorted groups was one step and is now one per group, as in the code, so that the two
loops share an invariant.

## 6. Model-checked only

* Liveness: `ReportEnds`, `ProbesAnswered`, `SignalStops`, `EveryLookupReturns`,
  `LoadReturns`, both `Returns`, and the liveness half of the refinements of `Sweep`.
  Fairness and ENABLED are out of the prover's reach.
* Expectations nested deeper than two combinators: the theorem is for two levels of
  any width, since an induction over trees takes an operator the prover cannot
  instantiate. `NodeAgrees`, the step from subtrees to the combinator over them, is one
  lemma used for both levels.
* The violation runs: a counterexample needs no proof.

## 7. Not modelled

* Rendering of templates, decoding of YAML and JSON, comparison of values, printed
  text, flag parsing: pure functions of data, most of them a library's. The edit
  distance behind a suggestion for a misspelt key only words an error.
* The wrapper scripts under `extras/`: straight-line shell around container tools.
* `/metrics`: the handler of the prometheus library.
* `prometheus`'s `return -1` when the registry cannot be gathered or the writer fails.
* Negative timeouts of dns, mount and http lookups (`LookupAssumption`): the first two
  then time out at once, the last never.
* Two processes that write one gossfile, and a crash during the write: nothing in the
  code coordinates or recovers.
* A library caller of `ValidateResults` that stops reading its channel strands the
  sweep's goroutines; the outputers of the program never do.
* What Windows does with the number of a Job Object's handle after it is closed.

## 8. Running

```
tlc -config MCScheduler.cfg MCScheduler        # any run of PROJECT.json
tlapm SchedulerProofs.tla                      # any module *Proofs.tla
```
