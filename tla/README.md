# LM Profile Switcher: specifications

TLA+ specifications of LM Profile Switcher, with the TLC configurations that
check them and proofs for TLAPS. Paths are relative to the repository
(`packages/...`, `apps/...`). `PROJECT.json` maps every definition to the lines
it models, and lists the runs, hazards, findings and theorems.

    tlc -config MCActivation.cfg MCActivation     # one run
    tlapm ActivationProofs.tla                    # one proof module

## 1. The system

LM Profile Switcher keeps profiles (model, load parameters, generation
parameters) and switches a local LM Studio host between them. Two programs do
the work: the CLI `lmps` (one process per command; `lmps hook` and `lmps proxy`
stay) and the desktop application, whose Rust shell starts a Node sidecar
(`apps/core-service`) and talks to it in lines of JSON. Both are built from the
packages in `packages/`. They share one directory, `LMPS_HOME`, and one host.

| component | state | operations | talks to |
|---|---|---|---|
| Activation lock, `packages/core/src/lock.ts` | the file `locks/activation.lock` with one lease (owner, time) | `acquire`, `release` | the file; a liveness probe of the owner's process (sidecar only) |
| Activation runner, `core/src/runner.ts`, `transaction.ts` | stage, outcome and stage log of a run | `run`: preflight, estimate, unload, load, health check; clean up and restore | lock, adapter, log |
| REST adapter, `lmstudio-adapter/src/rest` | `preLoadInstanceIds` of a benchmark runtime | list, load, unload, restore, chat | host, over HTTP |
| Sidecar methods, `core-service/src/handlers.ts` | preparations of the optimization loop (at most 8) | `activation.apply`, `activation.unload`, ... | all services |
| Benchmark, `core/src/benchmark.ts` | phase, samples, status of a run | `run` | lock, runtime, hardware probe |
| Profile store, `packages/profile-store` | `<id>.json`, `<id>.json.tmp-1`, backups | create, update, delete, recover, ... | the file system |
| Defaults index, `profile-store/src/defaults.ts` | one file | get, set | the file system |
| Optimization loop, `core/src/optimization-loop.ts` | none of its own | prepare, save | optimizer, store, defaults |
| Adapters, `lmstudio-adapter/src/capability.ts`, `router.ts` | a cache of probe results | probe, select, read, load | host, `lms` |
| Window, `apps/desktop/frontend/src` | tab, selected profile, calls in flight | navigate, preview, save, delete | sidecar |
| CLI commands, `apps/cli/src` | none between processes | one command line | all services |
| Proxy, `core-service/src/proxy.ts` | session latches, generation | `/v1/models`, `/v1/chat/completions` | runner, host |
| Hook, `domain/src/hook-rules.ts`, `cli/src/commands/hook.ts` | rules | `hook.switch` | runner |
| RPC, `core-service/src/protocol.ts`, `transports/` | requests in flight with their abort controllers | request, `rpc.cancel`, close | handlers |
| Supervisor and tray, `apps/desktop/src-tauri/src` | child process, pending calls, failures in a row, busy flag | call, respawn, timeout, shutdown | sidecar |
| Pure parts: optimizer, metrics, hardware probe, matching of rules, parsing of answers | none | | |

What makes it hard, and what has to be right:

* **Lock.** Several processes and restarts use one file, without an atomic
  create. Two runs must not hold the lock together; crash residue must not
  block; `release` must not remove the lease of another holder.
* **Activation.** A stage races its host call with a timer and an abort signal,
  and the call is not stopped when the race is lost. The state the run started
  from was read before the lock. The reported outcome has to describe the host;
  the lock has to be released on every way out; every run has to end.
* **Benchmark.** It loads and unloads on a host others use as well. It must put
  back what it found and unload nothing else, on every way out, and must not
  call a shortened run completed.
* **Profile store.** A process may die between any two file accesses and most
  accesses may fail. A profile must be the old or the new document, and one
  readable backup must be recent enough to recover from.
* **Proxy.** A session is latched to a profile while profiles, aliases and the
  active model change; a check of the active model is followed by a forward.
* **RPC, supervisor.** Cancellation meets completion and closing channels; a
  call that timed out goes on in the sidecar; a child that dies takes its
  pending calls with it, and every call must be answered.
* **Optimization loop, benchmark-all.** Minutes pass between reading a profile
  and marking it as benchmarked; several writes of which one may fail; a
  preparation evicted before it is saved.
* **Adapters.** Probes overlap and are cached while LM Studio comes and goes; no
  answer may be staler than promised, and a host that is back must be found.
* **Tray, window.** One flag and a few selections are read and written by tasks
  whose answers come late and in any order.
* **Pure parts.** What is recommended has to fit and be measured; a figure must
  not be made of readings that failed; two programs must agree on a document.

## 2. The modules

| module | models | composed with |
|---|---|---|
| `Mutex` | what every caller expects of the lock: the abstract specification | |
| `ActivationLock` | the lease file, access by access | implements `Mutex`, for runs that are not exposed |
| `Host` | the LM Studio host as the adapter uses it (external) | |
| `Activation` | concurrent activations and unloads | `Mutex`, `Host` |
| `Benchmark` | concurrent benchmarks | `Mutex`, `Host` |
| `ProfileStore` | one profile: main file, temporary file, backups | |
| `RuleMatching` | matching of hook rules and virtual aliases, as operators | used by `Proxy`, `Cli` |
| `ChatBody` | the request and answer bodies of the proxy, as operators | |
| `Proxy` | chat requests, session latches, controlled activation | `RuleMatching` |
| `RemoteCall` | what a caller of a method may rely on: the abstract specification | |
| `Supervisor` | the Rust supervisor, its channel and the sidecar's protocol | implements `RemoteCall` |
| `TrayMenu` | the tray menu as data, and what a click on it means | |
| `Tray` | the tray's tasks against the sidecar | `TrayMenu` |
| `Window` | the views of the window and their calls | |
| `Adapters` | probes, their cache, two seams, a host that comes and goes | |
| `LmHost` | what the adapters make of REST answers, streams and `lms` output, as operators | |
| `Evidence` | preparations, saves, defaults and `benchmark-all`: the mark *benchmarked* | |
| `Measurements` | samples, use of memory, calibration, context of a model, as operators | |
| `Optimizer` | from a baseline and a rule to ranked candidates, as operators | |
| `Hardware` | the probe of the machine, as operators | |
| `Cli` | one command line of `lmps`: world to world | `RuleMatching` |
| `Sidecar` | one call of a method of the sidecar: world to world | `Cli` |
| `Answers` | one command, call, look at the models or recommendation: what is asked, what is answered | `Cli`, `Sidecar`, `Measurements`, `Optimizer` |
| `Documents` | the content of a profile: migrated, patched, listed, exported, imported | |
| `Editor` | the profile form of the window: what it shows and what it saves | `Documents` |
| `Transport` | the sidecar's end of a line channel and of HTTP, event by event | |
| `ActivationLockProofs`, `ActivationProofs`, `BenchmarkProofs`, `ProfileStoreProofs`, `RequestProofs` (`Proxy`, `Answers`), `EvidenceProofs` (with `Adapters`), `WindowProofs`, `DesktopProofs` (`Supervisor`, `Tray`, `Transport`) | theorems | |
| `MC...` | instances for TLC | |

### ActivationLock

Several *runs* (acquire ... release) belong to processes. `acquire()` does all
its file accesses in one turn of its process's JavaScript thread, so two runs of
one process do not interleave inside it (`ThreadFree`); runs of different
processes do, at every access. The points between accesses are `look`, `probe`,
`write` and `fill`: the file is truncated (`Blank`), then filled. `attached`
says whose open file is still the one at the path: a payload written after an
unlink goes nowhere, and one written over another's may leave a mixture
(`Garbled`). `stamp` is `payload.acquiredAt`, taken before the look and used for
the expiry test, as in the code. A restart is another process (another owner).
The probe answers alive or gone truthfully, or has no answer, which counts as
alive; a process identity that is reused is an unanswered probe. `Dies` ends a
process and leaves the file.

Neither overlapping takeovers nor leases that end under their holder are ruled
out. The file cannot exclude two processes that look before either writes, which
the comment on `createFileLock` admits (lock.ts:9-12), nor a run that is older
than its lease (30 minutes). `exposed` is a history variable that names the runs
this can happen to: two runs that are between look and write together (`Meets`),
a run that outlives its lease (`Tick`), and a run that passes the checks while
an exposed one holds the lock (`Behind`). The properties say what is left for
all other runs, in the same behaviours; `BusyMeansHeld` speaks of every run.

### Activation

A run is an `activation.apply` (`hook.switch`, `startSafe`, the proxy and
`lmps apply` come to the same `run`) or an `activation.unload`. `pc` has the
stage names of the code, `call` the progress of the host call of the stage:
`NoCall`, `Begun`, or the instance `unload()` has listed first. Unload and
restore of the REST adapter are the same two requests, list and unload. The
guards of the stages follow `runWithGuards`:

* `StartStage`, `CancelStage`: the signal is looked at before a forward stage;
* `TimeOut`, `AbortStage`: the stage gives up and the call becomes a *late
  call* in `late`, which may list, unload or load at any later time
  (`LateStep`), whoever holds the lock by then. `AbortStage` ends the stage as
  *failed*, since `ctx.wait` rejects with a plain error;
* `StageRejected`: the host answers with an error.

`Fail` goes to the recovery (`recoverFromFailure`): `cleaning-failed-instance`
is best effort, `restoring-previous-profile` is strict and left out when
rollback is disabled. `found` is the active state read before the lock; it
becomes `Stale` when anybody else changes the host, so the properties about
outcomes say *for a run that was alone with the host*.

The lock is `Mutex`, which `ActivationLock` implements for the runs that are not
exposed: `Activation` and `Benchmark` say what their runs do under a lock that
excludes, and not what two runs do that hold it together. It also hides how long a
lease of a dead CLI process blocks a CLI, which has no probe: `Acquire` then
happens later, or `AcquireFails`. The stage *already active, nothing to do* of
the runner needs a `profileId` in the active state, and no adapter in the tree
sets one; it is left out. `--timeout 0` is a `TimeOut` at once.

### Benchmark

One benchmark at a time per process, each with a snapshot (`preLoadInstanceIds`)
that survives from run to run in its runtime. `SharedRuntime` distinguishes the
CLI (one runtime for `load` and `restore`) from the sidecar (`runtime()` per
call, `wiring.ts:447-471`). `restoring`, `unloading`, `releasing` are the
`finally` block, which every way out goes through. `HostChanges` stands for
users, idle timers and late loads. `found`, `kept`, `listed` and `cleaned` are
history for the properties.

### ProfileStore

A document is the number of the operation that wrote it. Each action is one
file access of `create`, `update`, `delete` or `recover`; `writeFileAtomic` is
`OpenTemp`, `FillTemp`, `Rename`, with `WriteFault` for any of them. The
temporary name is the same in every process (the sequence number passed is
always 1), so `at` follows a file another process has open through renames and
unlinks. No caller of `create` passes `overwrite`. `recover` is called by
`lmps doctor` only. Backups are numbered in the order of the updates; their
names are time stamps, see the hazards. Processes die, the operating system
does not: the model has no power loss, where `fsync` would matter.

### Proxy

Everything up to the first await of a chat request, alias document, match,
latch and profile, is one step (`Resolve`), since JavaScript runs it without a
break. Each await after it is a value of `pc`: the active state, the lock, the
switch, the forwarding. `entries` is the map of latches of `session-lock.ts`,
with the sweep on every forward and the age of an entry; `lease` remembers, for
the property, whom a latch served. A document is re-read by every request, so
it may change between any two. A run of the activation runner is what
`Activation` promises: under the lock, ending with the target loaded or a
report that it is not. Time is counted up to `OldAge`, beyond which a latch is
expired for good.

### Supervisor, RemoteCall

`Supervisor` is the task of `sidecar.rs` that owns the child: its bounded
channel, its map of pending calls, the frames in both pipes, the handlers of
the sidecar behind them, the three failures after which it gives up, and Quit.
A call is its own id, because ids are counted up. `RemoteCall` is what
everything above it relies on: run at most once, answered exactly once, and
answered with a result only if that call ran. `RemoteCallSpec` is the
refinement.

### TrayMenu, Tray, Window

Each click or event of the tray is a task of the async runtime. `busy`, the
cached spec and the menu that was handed to the main thread are separate: a
menu may be drawn of an older spec. The sidecar's answers follow the lock,
which an activation of the tray and the CLI can both hold. In `Window`, a slot
is one `useTypedRpc`: a new call takes it over and the answer of the earlier one
is dropped, though the sidecar runs it. The hook counts its calls up; `Fresh` is
any number no call of the slot under way has, which is all the guard compares.
Rendering and the effects it triggers
belong to the step of the event.

### Adapters, LmHost

A probe takes up to `MaxWait` ticks and is stored for `Ttl`; several can be in
flight, and the one that ends last is kept. A reader asks for the adapters each
time, the activation seam once in its life. `age` is the age of what a call was
served with, counted from the moment the host was looked at. `LmHost` has the
single answers: status and body to value or kind of error, a stream cut anywhere
to a sample, the text of `lms` to an estimate.

### Evidence

`prepare` reads its baseline once, waits for an estimate and up to two
benchmarks, and may be canceled at each; what it leaves is remembered under a
sequence number, at most `CacheSize` of them. `save`, `optimize.save`,
`defaults.set`, `benchmark-all` and the editor write the same profiles.
An editor or a delete may come between any two steps, also while a profile is
measured. The mark of `benchmark-all` is of what it measured and goes into the
document that is there minutes later, and an edit keeps the mark it finds:
`outdated` is a history variable that names the profiles whose mark an edit has
left behind (`batch.touched` while the measurement runs). `benchmarkedAt` and
the rest of the mark is `evidence`: the configuration its benchmark measured.

### Transport

The state of a line channel or of the HTTP server is one record: its calls in
the order they came, the map from ids to the calls a cancel reaches, whether the
token was shown and whether it is open. Each frame, request, handler that
settles, chunk and end of the channel is an operator from state to state, and
`ChannelSpec` takes one of them at a time: JavaScript runs each without a break.
`calls` and `cancels` are history, the code keeps only the map (`active`) and the
tasks in flight. Ids are the peers' and may be used twice.

### The functions

`Optimizer`, `Measurements`, `Hardware`, `ChatBody`, `RuleMatching`, `LmHost`,
`Cli`, `Sidecar`, `Documents` and `Editor` have no variables. `Cli`
and `Sidecar` take a *world* (profiles, backups, files, the two documents,
token, address, language, host) and return an exit or error code, what was said,
and the world that is left. `Documents` takes a document as a function from
paths to texts, so that a merge, a schema and an export are operations on sets
of paths; `Editor` builds the document or the patch of a form on top of it.
`RuleMatching` and `Optimizer` work on sets where the code works on lists: a
document's entries are told by their positions, drafts and candidates by their
ids, and an order is the set of its pairs. `InOrder` lists the first n of a set
in an order, as a sort and a cut do, and the order the code's loops have is in
the ids (`LooksAt`, `IdRank`). Sets can be reasoned about; the prover knows
nothing of `SelectSeq` and `SortSeq`.

`Answers` is the state machine around four of them: one command, one call of a
method, one projection of the models or one recommendation is asked and answered
once, and its four properties speak of question and answer. What LM Studio
estimates of a model is the constant `Estimator`. `MCAlgorithms` extends it to all
the functions: it chooses an input, computes the output, and states properties of
the pair, against definitions written for the purpose and not for the code. A
channel is served event by event, in every order, with the actions of
`Transport` and bounds on calls and chunks.

## 3. The runs

| run | configuration | question | result |
|---|---|---|---|
| `files` | `MCFiles` | is the lease file a mutex, for runs that meet no other in their look and write and outlive no lease? are writes of a profile atomic and recoverable? | holds |
| `activation` | `MCActivation` | do lock and outcomes describe the host, and does every run end? | holds |
| `rollback` | `MCActivation`, `MCActivationRollback.cfg` | is the host as it was after a switch that failed but recovered? | violated: it is left empty |
| `benchmark` | `MCBenchmark` | does a benchmark put back what it found? | holds |
| `proxy` | `MCProxy` | does a session keep its profile, and is the host switched only by opt-in? | holds |
| `supervisor` | `MCSupervisor` | is every call answered once, with its own result? | holds |
| `tray` | `MCTray` | one apply at a time, and is the menu open to clicks again afterwards? | holds |
| `window` | `MCWindow` | do late answers show what was chosen? | holds |
| `evidence` | `MCEvidence` | is a mark of what was measured, is a save whole? | holds |
| `adapters` | `MCAdapters` | is nothing stale served, and is a host that is back found? | holds |
| `adapters_retry` | `MCAdapters`, `MCAdaptersRetry.cfg` | does a retry reach a host that is back? | violated: the activation seam keeps the adapters of its first use |
| `algorithms` | `MCAlgorithms` | are the pure parts and the commands right? | holds |

Two runs expect a violation. `RecoveredMeansRestored` is what README.md:85 says of
failed switches; the REST adapter's `restore` unloads and loads nothing.
`RetryReaches` is the promise of the message "start it and retry". The findings in
`PROJECT.json` quote the places.

Properties, by what they catch:

* `MutualExclusion`, `BusyMeansHeld`, `ImplementsMutex`: the lease as a lock, its
  unlink without an owner check, and its residue.
* `LockHeldInStages`: no failure, abort, crash or unwritable log leaks the lock.
* `ExclusiveServesTarget`, `RecoveredAddsNothing`, `UnloadAuditsWhatItUnloaded`:
  an outcome against the host, over list-then-unload, half-done switches and
  the state read before the lock. `EveryRunEnds`: liveness, below.
* `CompletedMeansMeasured`, `PreloadedSurvive`, `RestoreIsExact`: the ways out of
  the sample loop, and the snapshot against a host others change.
* `OnlyOutsideTears`, `MainIsLastWrite`, `BackupCoversUpdate`,
  `RecoverySavesNewest`: crashes between file accesses, left-over temporary
  files, torn and rotated backups.
* `OneProfilePerLease`, `ForwardedWasActive`, `SwitchesByOptIn`,
  `EveryRequestEnds`: latches against edits, expiry, releases and two requests
  at a time; the check of the active model against its use.
* `RemoteCallSpec`, `ReconnectsOrGivesUp`, `NoOrphan`: cancels
  and time limits against late answers; crashes of the child with calls in the
  channel, in the pipes and in handlers; Quit at any moment.
* `OneApplyAwaited`, `BusyEnds`: the busy flag and the menu on the screen against
  clicks, refreshes and calls that time out. After an apply there is a moment
  when the flag is clear and the menu shows it; a refresh that composed its menu
  earlier and draws it later can grey it out again, until the next refresh.
* `PreviewOfBaseline`, `DeletedGone`: late answers against navigation and
  changes made in another view.
* `BenchmarkedWasMeasured`, `EvictedIsOld`, `RefusedSaveLeavesNothing`,
  `ZeroMeansAll`: marks, the cache of preparations, a save of two writes, and an
  exit code that speaks for a whole batch.
* `ServedFresh`, `ReadsRecover`: the probe cache with overlapping probes.
* `RecommendationSound`, `BiggerThanVramIsOffered`: hard constraints, the cut to
  six and the ladder together. `FiguresAreMeasured`: samples, memory, hardware,
  estimates, streams and lists with any part missing. `OtherMachineIsShown`: the
  priority of reasons to doubt. `RefusedLeavesWorld`: refusals after a write.
  `DoneAsSaid`: what the commands say of aliases, rules, token and address
  against what proxy, hook, tray and start do with them. `ContentKept`: unknown
  fields through migration, patch, export and import, a strict import that
  refuses every unknown topmost field and succeeds without one, no home path or
  secret in an export, and exactly what a saved form changes in a profile. It
  speaks of no unknown field inside another and of no language of a
  `displayName`, where the code does less than its comments say (section 6).
  `CancelReachesCall`: ids that peers share, against the map from ids to calls,
  and the end of a channel; a stream that has begun on a line is out of reach
  (section 6).

**Bounds.** `files`: a behaviour is about the lease or about a profile, which share
nothing. The lease: two runs in one sidecar process, one in its restart, one in a
CLI process: every pair (same process, probing process, unprobing process,
successor of a dead process) occurs. A lease of 2 ticks and a clock up to 3 let
a lease expire under its holder and be taken over. `activation`: two runs are enough for every
interference of a pair; two models with one instance each, an exclusive switch,
an activation beside others without rollback and an unload, and one late call at
a time. It is small because liveness is checked in the same run; the theorems
about its safety hold for any runs, instances and late calls. `benchmark`: two
processes, two samples (a first, and a last that is not the first). The profile (of
`files`): six documents with two backups kept, so rotation removes backups, torn ones among
them. `proxy`: two requests of one session and one name, two profiles with a
model each; `DefaultTtl = 1` and `OldAge = 2` let a latch be fresh, expired by
its own and expired by the default lifetime. `supervisor`: two calls through a
channel of one place, so that one waits while the other is sent, and three
failures. `tray`: two clicks and two refreshes of which three
run at a time, one profile. `window`: two
profiles, two calls in flight; the theorems lift it to any number. `evidence`: one place in the cache and two
preparations, so that one evicts the other; one call of the sidecar in flight,
a batch of two, two configurations, both benchmarks of a preparation run or both
skipped, one profile at a time with a mark that an edit left behind; the theorems
lift it to any number. `adapters`: two calls in flight, a lifetime of two ticks and a wait of one.
`algorithms`: about 160000 inputs of sixteen kinds, chosen so that each field is
present, absent and at its boundary against the others it is compared with; the
figures are small multiples of a unit, since only their order matters. In the text
of an estimate each label has its figure; a label without one takes the next
(cli-adapter.ts:309-313). A channel
has two calls (`MaxCalls`) of two ids, which may be the same, and one chunk per
stream: a pair is enough for one call to take or free the entry of another.

**Deadlock** is not checked where bounded clocks, documents or calls stop a
model, and is checked for `proxy` and `tray`.

**Fairness.** *Activation.* `EveryRunEnds` assumes weak fairness of `RunStep(r)`
for each run: every stage has a timer (`runWithGuards`), an unload outside a
stage has the HTTP timeout of the REST client, and log and lock calls are
synchronous. It does not assume that the host answers, that an abort comes, or
that acquiring succeeds (a refused acquire ends the run). `LateStep` is fair
since late calls have their HTTP timeout; without it `MaxLate` would let one late
call keep others from timing out, which is a bound of the model and not of the
code. *Proxy.* Each await of a request settles, since REST calls and stages have
limits; that the body of a stream ends is LM Studio's and the client's doing.
*Supervisor.* Its task and the processes run, a startup ends by its time limit,
handlers settle, waits are timers; a caller in the channel's queue is served
strongly fairly (tokio's queue is first in, first out). Users and crashes owe
nothing. *Tray.* Its tasks run and a call returns or times out. *Adapters.* A
call that waits ends, and time passes; LM Studio has to do nothing.

## 4. The proofs

| theorem | module | statement |
|---|---|---|
| `TypeCorrect` | `ActivationLockProofs` | `LockSpec => []LockTypeOK` |
| `Exclusive` | | `LockSpec => []MutualExclusion` |
| `RefusedOnlyWhenHeld` | | `LockSpec => BusyMeansHeld` |
| `Implements` | | `LockSpec => ImplementsMutex` |
| `TypeCorrect` | `ActivationProofs` | `Spec => []TypeOK` |
| `StagesAreLocked` | | `Spec => [](LockHeldInStages /\ SoleHolder)` |
| `ActiveServesTarget` | | `Spec => []ExclusiveServesTarget` |
| `RecoveryLeavesNoRest` | | `Spec => []RecoveredAddsNothing` |
| `AuditIsTrue` | | `Spec => []UnloadAuditsWhatItUnloaded` |
| `TypeCorrect` | `BenchmarkProofs` | `Spec => []TypeOK` |
| `CompletedIsMeasured` | | `Spec => []CompletedMeansMeasured` |
| `NothingElseUnloaded` | | `Spec => []PreloadedSurvive` |
| `HostIsRestored` | | `Spec => []RestoreIsExact` |
| `TypeCorrect` | `ProfileStoreProofs` | `Spec => []TypeOK` |
| `LastWriteWins` | | `Spec => []MainIsLastWrite` |
| `WritesAreAtomic` | | `Spec => OnlyOutsideTears` |
| `RecoverySavesOnly` | | `Spec => RecoverySavesNewest` |
| `RecoveryLosesOneUpdate` | | `Spec => []BackupCoversUpdate` |
| `LatchKeepsItsProfile` | `RequestProofs` | `Spec => []OneProfilePerLease` |
| `ForwardsWhatWasActive` | | `Spec => []ForwardedWasActive` |
| `OnlyOptedInSwitch` | | `Spec => SwitchesByOptIn` |
| `RefusalsLeaveWorld` | | `AnswersSpec => []RefusedLeavesWorld` |
| `OtherMachinesAreShown` | | `AnswersSpec => []OtherMachineIsShown` |
| `MethodsAgree` | | an activation, a delete and a save of the tray or window do to the world what the commands do |
| `RecommendationsAreSound` | | `AnswersSpec => []RecommendationSound` |
| `BiggerModelsAreOffered` | | `AnswersSpec /\ [](... HostedWithoutGpu(...)) => []BiggerThanVramIsOffered` |
| `TargetIsRuled` | | what a hook resolves to is an enabled rule of that app and task, or the only general one |
| `ValidRulesResolve` | | in a valid document every enabled rule is the one its app and task resolve to |
| `ListedAreServed` | | the listed names are those that resolve; in a valid document each to its own alias |
| `AddedAreServed` | | after `aliases add` the name is served by the new alias, all others as before |
| `OverrunsAreObserved` | | an overrun of the estimate was observed at one moment of a completed run |
| `StartsAreAuthorized` | | with which token the sidecar starts, what it stores, and when it leaves its address |
| `HookAccounts` | | `hook.switch` changes the host only as the rules say, and logs what it did or refused |
| `ReadsAreServedFresh` | `EvidenceProofs` | `AdaptersSpec => []ServedFresh` |
| `MarksAreMeasured` | | `Spec => []BenchmarkedWasMeasured` |
| `RecentIsRemembered` | | `Spec => []EvictedIsOld` |
| `RefusalsAreClean` | | `Spec => []RefusedSaveLeavesNothing` |
| `ZeroIsComplete` | | `Spec => ZeroMeansAll` |
| `PreviewIsOfBaseline` | `WindowProofs` | `Spec => []PreviewOfBaseline` |
| `DeletedStaysGone` | | `Spec => []DeletedGone` |
| `OnlyCancelersAreCanceled` | `DesktopProofs` | `Spec => []CanceledAsked` |
| `NobodyIsForgotten` | | `Spec => []NobodyForgotten` |
| `SupervisorImplementsRemoteCall` | | `Spec => Remote!Init /\ [][Remote!Next]_(Remote!vars)` |
| `TrayAwaitsOneApply` | | `TraySpec => []OneApplyAwaited` |
| `CancelsReachCalls` | | `ChannelSpec => []CancelsReach` |
| `AnswersStandFirm` | | `ChannelSpec => AnswersStand` |

They hold for any runs, processes, probers, lease length, catalog, requests and
bounds. The theorems about the lock and about marks assume nothing of callers or
editors. All but the types of `ProfileStoreProofs` assume `~Overlap` (operations
of two processes on one profile do not overlap), `NothingElseUnloaded` and
`HostIsRestored` assume `SharedRuntime` (the CLI; the sidecar makes a runtime per
call), and `BenchmarkProofs` that the catalog is not empty, `MethodsAgree` that
the sidecar has its seams, `HookAccounts` that the world has a host and a log,
and `BiggerModelsAreOffered` the law `HostedWithoutGpu`. Section 6 says what
happens without. The constants' other assumptions are named in their modules.

*Lock.* `MutualExclusion` is not inductive: that a writer is alone has to follow
from what it looked at, from the probe and from nobody else having looked since.
`LockInv` (in `ActivationLock`) adds to the types that a run which is not exposed
is younger than its lease and of a living process (`RunsAreFresh`), that two runs
between look and write are both exposed (`WindowsMet`), that whoever holds the
lock unexposed is alone, with its lease in the file, nobody past the checks, and
every probe asking about its process (`HolderAlone`), that past the checks of an
unexposed run nobody holds the lock and the file is as it left it
(`WriterAlone`), and that a lease in the file is a holder's, or of a process that
is gone or whose unlink failed (`LeasesAccounted`). The refinement maps the
holders of `Mutex` to the holders that are not exposed, so that becoming exposed
is a release; what the theorem claims is that an unexposed run acquires only
while no other unexposed run holds.

*Activation.* `LockHeldInStages` needs to know that an unload never enters the
recovery and that a stage hands over to a stage of the same request
(`KindFits`); with the types this is `StagesInv`. The proof has one lemma per
kind of step: quiet, acquiring, returning, succeeding, failing, and the world's.
Before them, lemmas about the host's operators: the first loaded instance
exists, by well-foundedness, and is loaded.

The three theorems about outcomes need what a run knows in the stages before
it reports (`UnloadKnows`, `SwitchKnows`): as long as nobody else changed the
host, it is as the run read it up to its first unload, empty before the load,
and holds at most one instance whenever a stage fails. A step of another run, a
late call or a user either leaves the host as it is or makes the run stale
(`Spared`). `StagesInv` with this knowledge is `IInv`, the inductive invariant;
TLC checked it before it was proved.

*Benchmark.* That a completed run is measured follows from a run having no
result before its `finally` block (`ResultFits`). `PreloadedSurvive` speaks of
the moment of release; the invariant carries it through the run: what was loaded
before is in the snapshot from the moment the load lists it, and stays out of
what the restore has listed to unload (`KeepsPreloaded`). `RestoreIsExact` adds,
for a run that was alone with the host, that anything loaded beside the snapshot
is still on the restore's list (`KnowsHost`). A step of another process either
leaves both facts or makes the run stale and takes what it evicted out of what
has to survive (`Elsewhere`).

*Profile store.* `MainIsLastWrite` needs the temporary file to be whole, and the
writer's own, whenever it is renamed (`TempFits`), which needs one operation at
a time (`OneActs`); a left-over of a crash is truncated by the next writer.
`BackupCoversUpdate` needs more (`BackupInv`): an update backs up the present
document under a number above all others, the rotation keeps the newest, and the
main file is replaced only after that. Torn backups are never the newest that can
be read, so recovery loses one update at most.

*Proxy.* `OneProfilePerLease` is inductive by itself: a request joins a latch
only under the profile of its entry, and an entry that is new or renewed forgets
whom the old one served. `ForwardedWasActive` needs that a request has noted the
active model whenever it is its own (`ActiveIsSeen`), because the host may
change at every await. `SwitchesByOptIn` needs that who is on the way to a
switch was allowed to (`SwitchersOptedIn`) and holds the lock (`SwitcherHolds`).

*Commands and methods.* A refusal can come late: `profile create` has imported a
document before it finds that its id is another, a save has stored the profile
when its record fails, an unload has unloaded when the runtime answers. The
proof gives every command and method one lemma of the same form (`Kept`, or
`Noted` where the tray or the hook's log learns of the refusal): exit code 4, or
a code other than `INTERNAL`, comes only with the world it was given.
`CreateUndone` is the one that is not a reading of guards: what a create adds and
the delete after it takes away leaves the very map of profiles, because a create
refuses an id that is there. `RefusedCommand` lifts it over the options, of which
only the language can have been stored before. Of worlds `IsWorld` assumes that
they are records with a map of profiles, and that a run of the activation ends in
one of the ways it has (checked for the worlds of the run by
`WorldsAssumption`); nothing is assumed of command lines, parameters and
documents, whose parsing stays opaque. `MethodsAgree` and `HookAccounts` state
for every world what `DoneAsSaid` checks on some: the sidecar and the
command line go through separate code for the same change (handlers.ts and
commands/), and the rows of the hook's log are written on separate paths. That
the words `--yes` and the id are read as such is left to the run.
`OtherMachinesAreShown` needs that the strongest doubt outranks all others
(`StrongestIsDifferent`), whatever else is known of the scenario.

*Recommendations.* `IsQuestion` says what a question is: a baseline, ranges
whose values the estimator has been asked for or has not answered, a log of
records, a host with numbers or nothing, and weights of which one is positive
(the schema of `domain/src/rules.ts`); TLC evaluates it on every question of the
run. Orders are handled once: in a finite ordered set each element has a place of
its own from 1 to the size of the set (`PlaceOf`, `PlaceTaken`, by cardinality, not
by induction), so the first n are min(n, size) and `InOrder` lists each of them
once (`InOrderOf`). Then: drafts and rungs have distinct ids (`DraftsOf`,
`RungsOf`), asked within the budget (`ExaminedOf`); a static score and a measured
one are numbers (`ScoreOf`, for which a weight has to be positive, and
`BlendIs`), so that candidates can be compared; the newest match in the log exists, because the log
is finite (`EvidenceOf`); ranking is an order whose first element is measured if
any is (`RankingOrders`, `RankedFirst`). `BiggerModelsAreOffered` needs a law of
the estimator, `HostedWithoutGpu`: what is estimated exactly is so without
offload, and then uses no VRAM ("0 means fully host-resident",
offload-ladder.ts:7). The lowest rung of the first draft that does not fit is within
the twelve calls, because at most six drafts and four rungs come first
(`LowestRungIsAsked`), and there it is safe (`HostedIsSafe`). The questions of the run satisfy the law.

*Rules and aliases.* The first entry that matches is the one of the smallest
position (`FirstOfPositions`). A rule's document is valid if
`validateHookRules` reports nothing; that every rule then resolves to itself
is what the matcher relies on. For aliases the same holds of the enabled ones.
`aliases add` replaces the first alias of the name, on or off, and this is why
the name is served by the new one even where an older one of the name is enabled.

*Memory, start.* The largest growth is one of the growths that were read whole
(`LargestKnown`), so an overrun has a moment. `StartsAreAuthorized` is a case
analysis over the ways `main` ends, with the token file as it was or new; a new
token is assumed to be no null.

*Adapters.* A served answer is as old as the cache entry it came from or the
probe that made it. The invariant bounds both: a probe in flight is at most
`MaxWait` old, a stored one at most `MaxWait` plus the ticks its entry has
lived, which its expiry bounds by `Ttl`. Overlapping probes each carry their own
age, so it does not matter which is stored last.

*Evidence.* Three separate invariants. The cache: the i-th of n remembered
preparations has at least n - i newer ones (`Numbered`), so the one that is
evicted from a full cache has `CacheSize - 1`, and the new one. The batch: its
results are those of the first profiles in order, each marked if due, and a
canceled one is the last (`Results`), and no profile is measured after it. The
mark: a document's mark is of its own configuration, and what is being measured
is still there as it was read, unless the profile is in `outdated` or `touched`
(`MarkInv`): a save writes a configuration with its own mark (`WriteKeeps`), and
an edit or delete in the window of a measurement is remembered (`WindowWrites`)
as one outside of it is (`FreeWrites`).

*Window.* Both properties rest on the stale guard: calls of one slot have
different numbers (`Single`), and an answer counts only while its slot waits for
that very call (`Settled`); that there is always a number left is counted with
the cardinality of the calls under way. A preview then is that of the call the
slot waits for, and a new baseline takes the slot over (`PreviewKnows`). A
deleted profile stays out of the store while its deletion is shown, because an
id is given once (`CreateFits`), and the list that is shown or awaited was read
after the delete, because its answer asks for the list anew (`RemoveKnows`).
One lemma (`RunsStep`) covers every step of the user that starts calls or
unmounts views; serving and delivering an answer have one each. TLC checked
`IInv` on the instance of `MCWindow` first. `WindowAssumption` says that `None`,
`Error` and the word "create" are no profiles.

*Supervisor.* `CanceledAsked` and the refinement rest on one invariant,
`DesktopInv`, of four parts beside the types. `Stages`: where the supervisor is
says which child there can be, that a child that is not serving has no handlers,
and that attempts are left. `OneCopy`: a call that no child has read is in one
place only, the queue outside the channel, the channel or the pipe, each without
duplicates, and has not run; this is *at most once*, through restarts, since the
supervisor drops a pipe with its child and never sends a call again.
`CancelsAreAsked`: a cancel frame in the channel or the pipe, an aborted handler
and an answer of CANCELED name a call whose caller canceled; the desktop's end
aborts all handlers, but nobody hears of that. `RepliesAreOwn`: a frame on its way
back is of a call that ran and carries its own result or an error. None of the
four is inductive alone. Every step of the supervisor then maps to a step of
`RemoteCall` or to none (`RemoteStep`, by kind of step: `Run`, `Answer`, a
failure that answers all pending calls at once, and the rest). `NobodyForgotten`
is the safety half of *every call is answered*; that the answer does come is
liveness. `AnswersAssumption` says that the three answers and the calls are
different values; results are named by their calls.

*Tray.* `OneApplyAwaited` alone does not survive the end of a run: that the task
which waits for the sidecar is the one the sidecar is busy with
(`AwaitedRuns`) is what lets only it clear the flag.

*Channels.* `CancelsReach` says that the *latest* call of an id is reached, which
a step of another call of the same id could break, by taking or freeing the
entry. `ChannelInv` adds that the map only names open calls under their own id,
on a line only calls that are not yet streams (`Reaches`), and that every call is
of its transport, each abort has a cancel or the end behind it, and only ended
calls have an answer (`Histories`). Every event is quiet, a new call, a cancel,
the end of the channel, or the end, the start as a stream or a chunk of one call;
the invariant is proved once for each of these kinds, and that every frame,
request and outcome is of one of them is separate (`ReceivesComes`,
`SettlesMoves`, `YieldsMoves`). `AnswersStand` follows since the map never names
an ended call. TLC checks `CancelsReach`, as `CancelReachesCall`, in the run `algorithms`; `ChannelInv` was
checked with three calls before it was proved.

Only model-checked: liveness (`EveryRunEnds`, `EveryRequestEnds`,
`ReconnectsOrGivesUp`, `NoOrphan`, `BusyEnds`, `ReadsRecover`), and the fairness
of `RemoteCallSpec`, which TLAPS cannot do; and of the invariants
`FiguresAreMeasured`, `DoneAsSaid`, `ContentKept` and `CancelReachesCall`, which
quantify over what `MCAlgorithms` computes. Parts of them are theorems: `OverrunsAreObserved` is the
first's for the use of memory, `HookAccounts`, `MethodsAgree`, `CancelsReachCalls`,
`AddedAreServed`, `ListedAreServed`, `ValidRulesResolve` and `StartsAreAuthorized`
of the others. The rest (medians of samples, tables of the hardware, streams,
the command line, merges of documents) rests on sorting, selecting and folding
sequences, of which the prover has only the names or which need induction over data.

## 5. Plan

Done: the modules of section 2. What is left, by what it would add:

1. Medians, tables and streams over positions and sets, as `Optimizer` has them,
   and then theorems about the rest of `FiguresAreMeasured`.
2. Composition of `Proxy` with the steps of `Activation` in place of its promise.
3. The framing of lines, and `Transport` as the server behind `Supervisor`.
4. Two overlapping processes on one profile and on the two documents: what
   exactly is lost.
5. The appending to the logs: rows that are cut off by a crash, and how the
   readers of `benchmarks.ndjson` take them.

## 6. Known disagreements

Places where the code does something else than its comments, documents or its
other half say. They were met while modelling; the models follow the code.

* *Lock and runs.* All entry points are to serialize through the lock (README.md),
  but two processes that look at it before either writes both hold it, and so
  does whoever follows a run that outlived its lease (lock.ts:9-12 names the
  first): the `exposed` runs. A failed release "leaves a lease that the next
  acquire treats as residue" (runner.ts:401), but the lease is live until it
  expires while its process lives: TLC refutes `FailedReleaseIsResidue` on the
  instance of `MCFiles`. The rollback of a failed switch (README.md:85): the run
  `rollback`; the REST adapter's `restore` only unloads (rest-v1-adapter.ts:55-57).
  A run stopped in a wait reports failed, not canceled (runner.ts:335-338,
  CLI_SPEC.md:93). A refused or canceled benchmark restores without a snapshot and
  unloads everything (benchmark.ts:192-199), and so does every benchmark of the
  sidecar, which makes a runtime per call (wiring.ts:447-471, README.md:64).
* *Marks.* `stampBenchmarked` marks whatever the id holds when the measurement is
  over (benchmark-common.ts:60-70), and an edit keeps the mark: it can stand
  beside a configuration nobody measured. These are the profiles in `outdated`.
* *Store.* `recover` is said to restore missing mains (store.ts:78, 341-342), but
  its loop for them lists names of files only and finds no directory of backups
  (store.ts:341-353, index.ts:45-51): it does nothing in production. The temporary
  name has the suffix 1 in every process (store.ts:217), so two writers of one
  profile share it, and `update` of two processes loses one of the updates; the
  properties of the store are for operations that do not overlap.
* *Proxy, hooks.* A session is pinned so that it never flips models when its alias
  is mapped anew (session-lock.ts:3-5), but the latch pins the profile and the
  model comes from the alias as it is: TLC refutes `SessionKeepsModel` with the
  documents of `MCRemapped`. `aliases add ""` writes a document its own schema refuses. A
  hook that was allowed and then fails leaves no row in its log. `aliases.status`
  lists disabled aliases (handlers.ts:1148 says enabled). `address.json` of a
  server that ended stays, and `hook status` shows it. A start that finds its
  port taken has already stored a new token.
* *Adapters.* The activation seam: the run `adapters_retry`. The load of an
  activation goes over REST with a numeric `gpu_offload`
  (rest-v1-adapter.ts:59-60), where cli-adapter.ts:190-194 says that such loads
  fall back to the command line. `estimateArgs` claims the configuration that
  `apply` loads (cli-adapter.ts:165-167), while REST drops `max` and `off`. A 401
  without JSON is a parse error (v1.ts:97-117), a time-out counts as
  unreachable (v1.ts:88), usage in a chunk without choices is dropped
  (chat.ts:77), and an ambiguous `lms status` is *not running* although the
  comment at cli-adapter.ts:212-214 says unknown.
* *Documents, form.* Other languages of a `displayName` are dropped on every
  read, though unknown fields are said to be preserved (serialize.ts:4-8,
  version.ts:6-8), and strict parsing looks at the topmost keys alone
  (profile.ts:195). The form is filled from the sanitized document and saves all
  it shows: a text with a home path is overwritten by `<private>`, a numeric
  offload by `auto` (EditorView.tsx:103-119), and a field that was emptied keeps
  its old content, since a patch cannot remove (EditorView.tsx:139-153).
* *RPC.* A cancel is to reach a call in flight (protocol.ts:39), but a stream on
  a line leaves the map before its first chunk (protocol.ts:236). Over HTTP, of
  calls that share an id only the latest is reached, and none once one of them
  has ended (http-rpc.ts:195).
* *CLI.* `--lang` stores the language it was to use once (CLI_SPEC.md:21), and
  `lang X` does not store the current one. A broken `config.json` ends every
  command with 10, although run.ts:204-205 says it falls back. An already active
  target still needs `--yes`, since no REST state names a profile (apply.ts:5-6).
* *Tray.* A refresh that composed its menu while an apply ran and draws it after
  the apply's own last menu leaves it greyed out until the next refresh
  (tray.rs:205: the flag is read before the menu is handed to the main thread).
* *Sidecar.* `activation.startSafe` on a dead host says STORE_NOT_FOUND
  (handlers.ts:952-963). A corrupted index of defaults fails `models.context`
  and `startSafe` as a whole (wiring.ts:300-304).
* *Optimizer.* `safe` looks at the raw free VRAM and neither at reserves nor at
  RAM (docs/TRACEABILITY_MATRIX.md:31). `optimize --yes` writes `testedAt`
  though nothing was tested, and failed benchmarks count as current evidence.

## 7. Not modelled

`PROJECT.json` gives the reason for each component. In short: the schemas are
constraints on the inputs; the SDK adapter refuses everything and the mock is a
test double; the tables of messages are data; layout and texts of the window and
the menus, HTTP, the pipe and the starting of processes are left to their
libraries; appending to the logs is left out (what `benchmarks.ndjson` holds is an
input where wiring.ts:293, 332 and deps.ts:523-526 read it); build, policy and release
scripts and the end-to-end drivers are not part of the running system.
