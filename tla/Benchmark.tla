----------------------------- MODULE Benchmark -----------------------------
(***************************************************************************)
(* Benchmark runs (packages/core/src/benchmark.ts) over the REST benchmark *)
(* runtime (createRestBenchmarkRuntime in rest-v1-adapter.ts), each in a   *)
(* process of its own, under the activation lock.  The runtime remembers   *)
(* which instances were loaded when it loads the configuration to measure, *)
(* and its restore() unloads every other instance.  The CLI gives a whole  *)
(* process one runtime; the sidecar makes one for every call.              *)
(***************************************************************************)
EXTENDS Host, FiniteSets

CONSTANTS
  Bench,          \* processes that run benchmarks
  Samples,        \* samples of one run
  SharedRuntime,  \* do load() and restore() use the same runtime?
  Stale           \* what a run found on the host was changed by others since

ASSUME SamplesAssumption == Samples \in Nat \ {0}
ASSUME SharedAssumption  == SharedRuntime \in BOOLEAN

VARIABLES
  loaded,     \* the host: its loaded instances
  holders,    \* who holds the activation lock
  pc,
  target,     \* the model a run measures
  snapshot,   \* preLoadInstanceIds of the runtime of a process
  todo,       \* instances the restore() under way has still to unload
  aborted,    \* the AbortSignal
  measured,   \* samples measured
  status, errorCode,
  found,      \* history: the host when the run got the lock, or Stale
  kept,       \* history: the part of it that nobody else has evicted
  listed,     \* history: did this run take a snapshot?
  cleaned     \* history: did every call of its restore() work?

run  == <<target, aborted, measured, status, errorCode>>
past == <<found, kept, listed, cleaned>>
vars == <<loaded, holders, pc, target, snapshot, todo, aborted, measured,
          status, errorCode, found, kept, listed, cleaned>>

(* BENCHMARK_CRASH stands for every code of classifyMeasureFailure. *)
Codes == {"none", "BENCHMARK_CANCELED", "BENCHMARK_CRASH"}
Locked == {"baseline", "snapshot", "loading", "observing", "sampling", "measuring",
           "restoring", "unloading", "releasing"}

TypeOK ==
  /\ loaded \in SUBSET Instance
  /\ holders \in SUBSET Bench
  /\ pc \in [Bench -> {"idle"} \cup Locked]
  /\ target \in [Bench -> Model]
  /\ snapshot \in [Bench -> SUBSET Instance]
  /\ todo \in [Bench -> SUBSET Instance]
  /\ aborted \in [Bench -> BOOLEAN]
  /\ measured \in [Bench -> 0 .. Samples]
  /\ status \in [Bench -> {"completed", "failed", "canceled", "threw"}]
  /\ errorCode \in [Bench -> Codes]
  /\ found \in [Bench -> (SUBSET Instance) \cup {Stale}]
  /\ kept \in [Bench -> SUBSET Instance]
  /\ listed \in [Bench -> BOOLEAN]
  /\ cleaned \in [Bench -> BOOLEAN]

Init ==
  /\ loaded \in SUBSET Instance
  /\ holders = {}
  /\ pc = [b \in Bench |-> "idle"]
  /\ target = [b \in Bench |-> CHOOSE m \in Model : TRUE]
  /\ snapshot = [b \in Bench |-> {}]
  /\ todo = [b \in Bench |-> {}]
  /\ aborted = [b \in Bench |-> FALSE]
  /\ measured = [b \in Bench |-> 0]
  /\ status = [b \in Bench |-> "completed"]
  /\ errorCode = [b \in Bench |-> "none"]
  /\ found = [b \in Bench |-> Stale]
  /\ kept = [b \in Bench |-> {}]
  /\ listed = [b \in Bench |-> FALSE]
  /\ cleaned = [b \in Bench |-> TRUE]

-----------------------------------------------------------------------------
Lock == INSTANCE Mutex WITH Actor <- Bench

Goto(b, label) == pc' = [pc EXCEPT ![b] = label]

(* The finally block comes next, with this result. *)
Conclude(b, outcome, code) ==
  /\ Goto(b, "restoring")
  /\ status' = [status EXCEPT ![b] = outcome]
  /\ errorCode' = [errorCode EXCEPT ![b] = code]
  /\ UNCHANGED <<target, aborted>>

(* What the runs other than those of "who" remember of a change of the host. *)
Remember(who) ==
  /\ found' = [b \in Bench |->
       IF b \notin who /\ loaded' # loaded THEN Stale ELSE found[b]]
  /\ kept' = [b \in Bench |-> IF b \in who THEN kept[b] ELSE kept[b] \cap loaded']

(* acquire() = true; a refused or failing acquire() changes nothing. *)
Acquire(b, m) ==
  /\ pc[b] = "idle"
  /\ Lock!Enter(b)
  /\ target' = [target EXCEPT ![b] = m]
  /\ Goto(b, "baseline")
  /\ found' = [found EXCEPT ![b] = loaded]
  /\ kept' = [kept EXCEPT ![b] = loaded]
  /\ UNCHANGED <<loaded, snapshot, todo, listed, cleaned, aborted, measured,
                 status, errorCode>>

(* No hardware profile, no result. *)
BaselineFault(b) ==
  /\ pc[b] = "baseline"
  /\ Conclude(b, "failed", "BENCHMARK_CRASH")
  /\ UNCHANGED <<loaded, holders, snapshot, todo, measured, past>>

(* BENCHMARK_BATTERY_GUARD is thrown inside the try block. *)
RefuseBattery(b) ==
  /\ pc[b] = "baseline"
  /\ Conclude(b, "threw", "none")
  /\ UNCHANGED <<loaded, holders, snapshot, todo, measured, past>>

CancelBeforeLoad(b) ==
  /\ pc[b] = "baseline" /\ aborted[b]
  /\ Conclude(b, "canceled", "BENCHMARK_CANCELED")
  /\ UNCHANGED <<loaded, holders, snapshot, todo, measured, past>>

Baseline(b) ==
  /\ pc[b] = "baseline" /\ ~aborted[b]
  /\ Goto(b, "snapshot")
  /\ UNCHANGED <<loaded, holders, snapshot, todo, past, run>>

-----------------------------------------------------------------------------
(* load(): take the snapshot, then load. *)

TakeSnapshot(b) ==
  /\ pc[b] = "snapshot"
  /\ snapshot' = [snapshot EXCEPT ![b] = loaded]
  /\ listed' = [listed EXCEPT ![b] = TRUE]
  /\ Goto(b, "loading")
  /\ UNCHANGED <<loaded, holders, todo, found, kept, cleaned, run>>

(* The list request fails: the snapshot is empty. *)
SnapshotFault(b) ==
  /\ pc[b] = "snapshot"
  /\ snapshot' = [snapshot EXCEPT ![b] = {}]
  /\ Goto(b, "loading")
  /\ UNCHANGED <<loaded, holders, todo, past, run>>

Load(b) ==
  /\ pc[b] = "loading"
  /\ loaded' \in AfterLoad(target[b], loaded)
  /\ Goto(b, "observing")
  /\ Remember({b})
  /\ UNCHANGED <<holders, snapshot, todo, listed, cleaned, run>>

(* A load that fails is classified; an unreachable host is rethrown.  The   *)
(* abort is looked at first. *)
LoadFault(b) ==
  /\ pc[b] = "loading"
  /\ \/ aborted[b] /\ Conclude(b, "canceled", "BENCHMARK_CANCELED")
     \/ ~aborted[b] /\ Conclude(b, "threw", "none")
     \/ ~aborted[b] /\ Conclude(b, "failed", "BENCHMARK_CRASH")
  /\ UNCHANGED <<loaded, holders, snapshot, todo, measured, past>>

(* observeHardware after the load. *)
Observe(b) ==
  /\ pc[b] = "observing"
  /\ Goto(b, "sampling")
  /\ UNCHANGED <<loaded, holders, snapshot, todo, past, run>>

ObserveFault(b) ==
  /\ pc[b] = "observing"
  /\ Conclude(b, "failed", "BENCHMARK_CRASH")
  /\ UNCHANGED <<loaded, holders, snapshot, todo, measured, past>>

-----------------------------------------------------------------------------
(* The sample loop. *)

CancelBeforeSample(b) ==
  /\ pc[b] = "sampling" /\ measured[b] < Samples /\ aborted[b]
  /\ Conclude(b, "canceled", "BENCHMARK_CANCELED")
  /\ UNCHANGED <<loaded, holders, snapshot, todo, measured, past>>

(* (Faulty variant: one sample too many.) *)
StartSampleOffByOne(b) ==
  /\ pc[b] = "sampling" /\ measured[b] <= Samples /\ ~aborted[b]
  /\ Goto(b, "measuring")
  /\ UNCHANGED <<loaded, holders, snapshot, todo, past, run>>
StartSample(b) ==
  /\ pc[b] = "sampling" /\ measured[b] < Samples /\ ~aborted[b]
  /\ Goto(b, "measuring")
  /\ UNCHANGED <<loaded, holders, snapshot, todo, past, run>>

(* The sample is measured and the hardware observed.  (Without a sample     *)
(* timeout a sample that comes back counts in spite of an abort.) *)
Sample(b) ==
  /\ pc[b] = "measuring"
  /\ measured' = [measured EXCEPT ![b] = @ + 1]
  /\ Goto(b, "sampling")
  /\ UNCHANGED <<loaded, holders, snapshot, todo, past, target, aborted,
                 status, errorCode>>

(* (Faulty variant: samplingFailed is not looked at after the loop.) *)
SampleUnobservedIgnored(b) ==
  /\ pc[b] = "measuring"
  /\ measured' = [measured EXCEPT ![b] = @ + 1]
  /\ Goto(b, "restoring")
  /\ UNCHANGED <<loaded, holders, snapshot, todo, past, target, aborted,
                 status, errorCode>>

(* The sample is measured, the hardware is not. *)
SampleUnobserved(b) ==
  /\ pc[b] = "measuring"
  /\ measured' = [measured EXCEPT ![b] = @ + 1]
  /\ Conclude(b, "failed", "BENCHMARK_CRASH")
  /\ UNCHANGED <<loaded, holders, snapshot, todo, past>>

(* The sample fails or times out, or the abort cuts it short: the run has   *)
(* failed, and a failing observation overwrites its code. *)
SampleFault(b) ==
  /\ pc[b] = "measuring"
  /\ \/ Conclude(b, "failed", "BENCHMARK_CRASH")
     \/ aborted[b] /\ Conclude(b, "failed", "BENCHMARK_CANCELED")
  /\ UNCHANGED <<loaded, holders, snapshot, todo, measured, past>>

Complete(b) ==
  /\ pc[b] = "sampling" /\ measured[b] = Samples
  /\ Goto(b, "restoring")
  /\ UNCHANGED <<loaded, holders, snapshot, todo, past, run>>

-----------------------------------------------------------------------------
(* finally: restore(), release() *)

(* preLoadInstanceIds as restore() sees it (after the runtime of a call of  *)
(* its own, which has loaded nothing). *)
NoSnapshot(b) == {}
Snapshot(b) == IF SharedRuntime THEN snapshot[b] ELSE {}

ListForRestore(b) ==
  /\ pc[b] = "restoring"
  /\ todo' = [todo EXCEPT ![b] = loaded \ Snapshot(b)]
  /\ Goto(b, "unloading")
  /\ UNCHANGED <<loaded, holders, snapshot, past, run>>

(* The host cannot be listed: nothing is restored. *)
ListForRestoreFault(b) ==
  /\ pc[b] = "restoring"
  /\ cleaned' = [cleaned EXCEPT ![b] = FALSE]
  /\ Goto(b, "releasing")
  /\ UNCHANGED <<loaded, holders, snapshot, todo, found, kept, listed, run>>

Unload(b) ==
  /\ pc[b] = "unloading"
  /\ \E i \in todo[b] : /\ todo' = [todo EXCEPT ![b] = @ \ {i}]
                        /\ loaded' = loaded \ {i}
  /\ Remember({b})
  /\ UNCHANGED <<holders, pc, snapshot, listed, cleaned, run>>

(* An unload fails; restore() goes on with the next instance. *)
UnloadFault(b) ==
  /\ pc[b] = "unloading"
  /\ \E i \in todo[b] : todo' = [todo EXCEPT ![b] = @ \ {i}]
  /\ cleaned' = [cleaned EXCEPT ![b] = FALSE]
  /\ UNCHANGED <<loaded, holders, pc, snapshot, found, kept, listed, run>>

(* (Faulty variant: the first instance ends the restore.) *)
RestoredFirst(b) ==
  /\ pc[b] = "unloading"
  /\ Goto(b, "releasing")
  /\ todo' = [todo EXCEPT ![b] = {}]
  /\ UNCHANGED <<loaded, holders, snapshot, past, run>>

Restored(b) ==
  /\ pc[b] = "unloading" /\ todo[b] = {}
  /\ Goto(b, "releasing")
  /\ UNCHANGED <<loaded, holders, snapshot, todo, past, run>>

(* The variables of a run go with it. *)
Forget(b) ==
  /\ Goto(b, "idle")
  /\ target' = [target EXCEPT ![b] = CHOOSE m \in Model : TRUE]
  /\ todo' = [todo EXCEPT ![b] = {}]
  /\ aborted' = [aborted EXCEPT ![b] = FALSE]
  /\ measured' = [measured EXCEPT ![b] = 0]
  /\ status' = [status EXCEPT ![b] = "completed"]
  /\ errorCode' = [errorCode EXCEPT ![b] = "none"]
  /\ found' = [found EXCEPT ![b] = Stale]
  /\ kept' = [kept EXCEPT ![b] = {}]
  /\ listed' = [listed EXCEPT ![b] = FALSE]
  /\ cleaned' = [cleaned EXCEPT ![b] = TRUE]

(* release(); then finish() builds and logs the result, or the run throws.  *)
Release(b) ==
  /\ pc[b] = "releasing"
  /\ Lock!Leave(b)
  /\ Forget(b)
  /\ UNCHANGED <<loaded, snapshot>>

Abort(b) ==
  /\ pc[b] \in {"baseline", "snapshot", "loading", "observing", "sampling", "measuring"}
  /\ ~aborted[b]
  /\ aborted' = [aborted EXCEPT ![b] = TRUE]
  /\ UNCHANGED <<loaded, holders, pc, snapshot, todo, past, target, measured,
                 status, errorCode>>

(* The process dies: no restore, and its next runtime has no snapshot. *)
Crash(b) ==
  /\ pc[b] # "idle"
  /\ Lock!Leave(b)
  /\ Forget(b)
  /\ snapshot' = [snapshot EXCEPT ![b] = {}]
  /\ UNCHANGED <<loaded>>

(* Users of LM Studio, its idle timer and chat requests load and unload, as *)
(* does a load request that has timed out and that the host goes on with.   *)
HostChanges ==
  /\ \/ \E i \in loaded : loaded' = loaded \ {i}
     \/ \E m \in Model : loaded' \in AfterLoad(m, loaded)
  /\ Remember({})
  /\ UNCHANGED <<holders, pc, snapshot, todo, listed, cleaned, run>>

RunStep(b) ==
  \/ \E m \in Model : Acquire(b, m)
  \/ BaselineFault(b) \/ RefuseBattery(b) \/ CancelBeforeLoad(b) \/ Baseline(b)
  \/ TakeSnapshot(b) \/ SnapshotFault(b)
  \/ Load(b) \/ LoadFault(b) \/ Observe(b) \/ ObserveFault(b)
  \/ CancelBeforeSample(b) \/ StartSample(b)
  \/ Sample(b) \/ SampleUnobserved(b) \/ SampleFault(b) \/ Complete(b)
  \/ ListForRestore(b) \/ ListForRestoreFault(b)
  \/ Unload(b) \/ UnloadFault(b) \/ Restored(b) \/ Release(b)

Next ==
  \/ \E b \in Bench : RunStep(b) \/ Abort(b) \/ Crash(b)
  \/ HostChanges

Spec == Init /\ [][Next]_vars

-----------------------------------------------------------------------------
(* A benchmark that reports completed measured every sample: no way through *)
(* the loop leaves the initial status "completed" on a shortened run.  One  *)
(* that does not says why. *)
CompletedMeansMeasured ==
  \A b \in Bench : pc[b] \in {"restoring", "unloading", "releasing"} =>
    /\ status[b] = "completed" => measured[b] = Samples /\ errorCode[b] = "none"
    /\ status[b] \in {"failed", "canceled"} => errorCode[b] # "none"

(* A run that took its snapshot unloads nothing that was loaded before it,  *)
(* whatever loads and unloads others do meanwhile: "restore unloads only    *)
(* instances the run created" (rest-v1-adapter.ts).  It holds with one      *)
(* runtime per run, as the CLI has. *)
PreloadedSurvive ==
  \A b \in Bench : pc[b] = "releasing" /\ listed[b] => kept[b] \subseteq loaded

(* A run that took its snapshot, was alone with the host and whose restore  *)
(* met no error leaves the host exactly as it found it. *)
RestoreIsExact ==
  \A b \in Bench :
    pc[b] = "releasing" /\ listed[b] /\ cleaned[b] /\ found[b] # Stale =>
      loaded = found[b]

-----------------------------------------------------------------------------
(* The inductive invariant behind the properties above. *)

(* The result of a run is decided by the step that ends its measurement. *)
ResultFits(b) ==
  /\ pc[b] \notin {"restoring", "unloading", "releasing"} =>
       status[b] = "completed" /\ errorCode[b] = "none"
  /\ pc[b] = "measuring" => measured[b] < Samples
  /\ pc[b] \in {"restoring", "unloading", "releasing"} =>
       /\ status[b] = "completed" => measured[b] = Samples /\ errorCode[b] = "none"
       /\ status[b] \in {"failed", "canceled"} => errorCode[b] # "none"

(* What was loaded before a run, and nobody else evicted, is in its         *)
(* snapshot, stays out of what restore() unloads, and stays loaded. *)
KeepsPreloaded(b) ==
  /\ pc[b] \in {"idle", "baseline", "snapshot"} => ~listed[b]
  /\ listed[b] \/ pc[b] \in {"baseline", "snapshot"} => kept[b] \subseteq loaded
  /\ listed[b] => kept[b] \subseteq snapshot[b]
  /\ listed[b] /\ pc[b] = "unloading" => todo[b] \cap kept[b] = {}

(* What a run that was alone with the host knows of it, stage by stage. *)
KnowsHost(b) ==
  found[b] # Stale =>
    /\ pc[b] \in {"baseline", "snapshot"} => loaded = found[b]
    /\ listed[b] /\ pc[b] # "idle" => snapshot[b] = found[b] /\ found[b] \subseteq loaded
    /\ listed[b] /\ pc[b] = "unloading" =>
         /\ todo[b] \cap found[b] = {}
         /\ cleaned[b] => loaded \subseteq found[b] \cup todo[b]
    /\ listed[b] /\ pc[b] = "releasing" /\ cleaned[b] => loaded = found[b]

IInv ==
  /\ TypeOK
  /\ \A b \in Bench : ResultFits(b) /\ KeepsPreloaded(b) /\ KnowsHost(b)

-----------------------------------------------------------------------------
(* Not kept by the code, and refuted by TLC on MCBenchmark's instance:      *)
(* benchmarks "restore the previous model afterwards" (README.md): also     *)
(* those that were refused or canceled before they loaded anything. *)
BenchmarkLeavesHost ==
  \A b \in Bench :
    pc[b] = "releasing" /\ measured[b] = 0 /\ found[b] # Stale => found[b] \subseteq loaded
=============================================================================
