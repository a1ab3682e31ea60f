--------------------------- MODULE BenchmarkProofs ---------------------------
(***************************************************************************)
(* Theorems about Benchmark for any number of processes and samples and    *)
(* any catalog that is not empty.                                          *)
(***************************************************************************)
EXTENDS Benchmark, TLAPS

USE DEF Goto, run, past

Measuring == {"baseline", "snapshot", "loading", "observing", "sampling", "measuring"}

(* The finally block comes next. *)
LEMMA ConcludeTypes ==
  ASSUME TypeOK, NEW b \in Bench, NEW outcome \in {"failed", "canceled", "threw"},
         NEW code \in Codes, Conclude(b, outcome, code)
  PROVE  /\ pc' \in [Bench -> {"idle"} \cup Locked]
         /\ status' \in [Bench -> {"completed", "failed", "canceled", "threw"}]
         /\ errorCode' \in [Bench -> Codes]
         /\ target' = target /\ aborted' = aborted
BY DEF TypeOK, Conclude, Locked

(* What runs remember of a host that changed. *)
LEMMA RememberTypes ==
  ASSUME TypeOK, NEW who, Remember(who)
  PROVE  /\ found' \in [Bench -> (SUBSET Instance) \cup {Stale}]
         /\ kept' \in [Bench -> SUBSET Instance]
BY DEF TypeOK, Remember

(* What is loaded stays in the catalog. *)
LEMMA LoadTypes ==
  ASSUME TypeOK, NEW m \in Model, loaded' \in AfterLoad(m, loaded)
  PROVE  loaded' \in SUBSET Instance /\ loaded \subseteq loaded'
<1>1. loaded \subseteq Instance
  BY DEF TypeOK
<1>2. CASE loaded' = loaded
  BY <1>1, <1>2
<1>3. ASSUME NEW k \in 1 .. Copies[m], loaded' = loaded \cup {<<m, k>>}
      PROVE  loaded' \in SUBSET Instance /\ loaded \subseteq loaded'
  <2>1. <<m, k>> \in Instance
    BY DEF Instance
  <2> QED BY <1>1, <1>3, <2>1
<1> QED BY <1>2, <1>3 DEF AfterLoad

(* A run that is over leaves nothing but initial values. *)
LEMMA ForgetTypes ==
  ASSUME TypeOK, Model # {}, NEW b \in Bench, Forget(b), loaded' = loaded, Lock!Leave(b),
         snapshot' = snapshot \/ snapshot' = [snapshot EXCEPT ![b] = {}]
  PROVE  TypeOK'
<1>1. (CHOOSE m \in Model : TRUE) \in Model
  OBVIOUS
<1>2. 0 \in 0 .. Samples
  BY SamplesAssumption
<1> QED BY <1>1, <1>2 DEF TypeOK, Forget, Lock!Leave, Codes

(* Steps that change neither the host nor the result. *)
LEMMA QuietTypes ==
  ASSUME TypeOK, NEW b \in Bench,
         \/ \E m \in Model : Acquire(b, m)
         \/ Baseline(b) \/ TakeSnapshot(b) \/ SnapshotFault(b) \/ Observe(b)
         \/ StartSample(b) \/ Complete(b) \/ ListForRestore(b) \/ ListForRestoreFault(b)
         \/ Restored(b) \/ Abort(b)
  PROVE  TypeOK'
<1> USE DEF TypeOK, Locked
<1>1. CASE \E m \in Model : Acquire(b, m)
  <2>1. PICK m \in Model : Acquire(b, m)
    BY <1>1
  <2> QED BY <2>1 DEF Acquire, Lock!Enter
<1>2. CASE Baseline(b) \/ Observe(b) \/ StartSample(b) \/ Complete(b) \/ Restored(b)
  BY <1>2 DEF Baseline, Observe, StartSample, Complete, Restored
<1>3. CASE TakeSnapshot(b) \/ SnapshotFault(b)
  BY <1>3 DEF TakeSnapshot, SnapshotFault
<1>4. CASE ListForRestore(b)
  <2>1. loaded \ Snapshot(b) \in SUBSET Instance
    OBVIOUS
  <2> QED BY <1>4, <2>1 DEF ListForRestore
<1>6. CASE ListForRestoreFault(b)
  BY <1>6 DEF ListForRestoreFault
<1>5. CASE Abort(b)
  BY <1>5 DEF Abort
<1> QED BY <1>1, <1>2, <1>3, <1>4, <1>5, <1>6

(* Steps that end the measurement. *)
LEMMA EndTypes ==
  ASSUME TypeOK, NEW b \in Bench, pc[b] = "measuring" => measured[b] < Samples,
         \/ BaselineFault(b) \/ RefuseBattery(b) \/ CancelBeforeLoad(b) \/ LoadFault(b)
         \/ ObserveFault(b) \/ CancelBeforeSample(b) \/ SampleUnobserved(b) \/ SampleFault(b)
  PROVE  TypeOK'
<1>1. PICK outcome \in {"failed", "canceled", "threw"}, code \in Codes : Conclude(b, outcome, code)
  BY DEF BaselineFault, RefuseBattery, CancelBeforeLoad, LoadFault, ObserveFault,
     CancelBeforeSample, SampleUnobserved, SampleFault, Codes
<1>2. measured' \in [Bench -> 0 .. Samples]
  <2>1. CASE SampleUnobserved(b)
    <3>1. measured[b] + 1 \in 0 .. Samples
      BY <2>1, SamplesAssumption DEF SampleUnobserved, TypeOK
    <3> QED BY <2>1, <3>1 DEF SampleUnobserved, TypeOK
  <2>2. CASE ~SampleUnobserved(b)
    BY <2>2 DEF BaselineFault, RefuseBattery, CancelBeforeLoad, LoadFault, ObserveFault,
       CancelBeforeSample, SampleFault, TypeOK
  <2> QED BY <2>1, <2>2
<1>3. /\ loaded' = loaded /\ holders' = holders /\ snapshot' = snapshot /\ todo' = todo
      /\ found' = found /\ kept' = kept /\ listed' = listed /\ cleaned' = cleaned
  BY DEF BaselineFault, RefuseBattery, CancelBeforeLoad, LoadFault, ObserveFault,
     CancelBeforeSample, SampleUnobserved, SampleFault
<1> QED BY <1>1, <1>2, <1>3, ConcludeTypes DEF TypeOK

(* Every step keeps the types. *)
LEMMA NextTypes ==
  ASSUME TypeOK, Model # {}, [Next]_vars,
         \A b \in Bench : pc[b] = "measuring" => measured[b] < Samples
  PROVE  TypeOK'
<1>1. ASSUME NEW b \in Bench, RunStep(b) \/ Abort(b) \/ Crash(b) PROVE TypeOK'
  <2>1. CASE Load(b)
    <3>1. target[b] \in Model
      BY DEF TypeOK
    <3>2. loaded' \in SUBSET Instance
      BY <2>1, <3>1, LoadTypes DEF Load
    <3>3. Remember({b})
      BY <2>1 DEF Load
    <3> QED BY <2>1, <3>2, <3>3, RememberTypes DEF Load, TypeOK, Locked
  <2>2. CASE Sample(b)
    <3>1. measured[b] + 1 \in 0 .. Samples
      BY <2>2, SamplesAssumption DEF Sample, TypeOK
    <3> QED BY <2>2, <3>1 DEF Sample, TypeOK, Locked
  <2>3. CASE Unload(b)
    <3>1. Remember({b})
      BY <2>3 DEF Unload
    <3>2. loaded' \in SUBSET Instance /\ todo' \in [Bench -> SUBSET Instance]
      BY <2>3 DEF Unload, TypeOK
    <3> QED BY <2>3, <3>1, <3>2, RememberTypes DEF Unload, TypeOK
  <2>4. CASE UnloadFault(b)
    BY <2>4 DEF UnloadFault, TypeOK
  <2>5. CASE Release(b) \/ Crash(b)
    BY <2>5, ForgetTypes DEF Release, Crash
  <2>6. CASE ~(Load(b) \/ Sample(b) \/ Unload(b) \/ UnloadFault(b) \/ Release(b) \/ Crash(b))
    BY <1>1, <2>6, QuietTypes, EndTypes DEF RunStep
  <2> QED BY <2>1, <2>2, <2>3, <2>4, <2>5, <2>6
<1>2. CASE HostChanges
  <2>1. Remember({})
    BY <1>2 DEF HostChanges
  <2>2. loaded' \in SUBSET Instance
    BY <1>2, LoadTypes DEF HostChanges, TypeOK
  <2> QED BY <1>2, <2>1, <2>2, RememberTypes DEF HostChanges, TypeOK
<1>3. CASE UNCHANGED vars
  BY <1>3 DEF vars, TypeOK
<1> QED BY <1>1, <1>2, <1>3 DEF Next

-----------------------------------------------------------------------------
(* The result of a run. *)

(* A step of one process leaves the results of the others alone. *)
SameResult(b) ==
  pc'[b] = pc[b] /\ measured'[b] = measured[b] /\ status'[b] = status[b] /\ errorCode'[b] = errorCode[b]

(* A result that did not change still fits. *)
LEMMA SameFits ==
  ASSUME NEW b \in Bench, ResultFits(b), SameResult(b)
  PROVE  ResultFits(b)'
BY DEF ResultFits, SameResult

(* Every step of a run keeps its result in step with its measurement. *)
LEMMA OwnResult ==
  ASSUME TypeOK, NEW b \in Bench, ResultFits(b), RunStep(b) \/ Abort(b) \/ Crash(b)
  PROVE  ResultFits(b)'
<1> USE DEF TypeOK, ResultFits
<1>1. CASE \/ \E m \in Model : Acquire(b, m)
  BY <1>1 DEF Acquire
<1>2. CASE \/ BaselineFault(b) \/ RefuseBattery(b) \/ CancelBeforeLoad(b) \/ LoadFault(b)
           \/ ObserveFault(b) \/ CancelBeforeSample(b) \/ SampleUnobserved(b) \/ SampleFault(b)
  BY <1>2 DEF BaselineFault, RefuseBattery, CancelBeforeLoad, LoadFault, ObserveFault,
     CancelBeforeSample, SampleUnobserved, SampleFault, Conclude, Codes
<1>3. CASE \/ Baseline(b) \/ TakeSnapshot(b) \/ SnapshotFault(b) \/ Load(b) \/ Observe(b)
           \/ StartSample(b) \/ Sample(b) \/ Complete(b)
  BY <1>3 DEF Baseline, TakeSnapshot, SnapshotFault, Load, Observe, StartSample, Sample, Complete
<1>4. CASE \/ ListForRestore(b) \/ ListForRestoreFault(b) \/ Unload(b) \/ UnloadFault(b)
           \/ Restored(b) \/ Abort(b)
  BY <1>4 DEF ListForRestore, ListForRestoreFault, Unload, UnloadFault, Restored, Abort
<1>5. CASE Release(b) \/ Crash(b)
  BY <1>5 DEF Release, Crash, Forget
<1> QED BY <1>1, <1>2, <1>3, <1>4, <1>5 DEF RunStep

(* A step leaves the other processes as they are, but for what they remember of *)
(* a host that changed. *)
Elsewhere(b) ==
  /\ SameResult(b)
  /\ snapshot'[b] = snapshot[b] /\ todo'[b] = todo[b]
  /\ listed'[b] = listed[b] /\ cleaned'[b] = cleaned[b]
  /\ \/ found'[b] = found[b] /\ kept'[b] = kept[b] /\ loaded' = loaded
     \/ (found'[b] = Stale \/ (loaded' = loaded /\ found'[b] = found[b])) /\ kept'[b] = kept[b] \cap loaded'

(* Remember() spares a run, or makes it stale. *)
LEMMA RememberElsewhere ==
  ASSUME TypeOK, NEW who, Remember(who), NEW b \in Bench \ who
  PROVE  /\ found'[b] = Stale \/ (loaded' = loaded /\ found'[b] = found[b])
         /\ kept'[b] = kept[b] \cap loaded'
BY DEF TypeOK, Remember

(* Remember() and unchanged fields of its own are all Elsewhere(c) asks for. *)
LEMMA RememberIsElsewhere ==
  ASSUME TypeOK, NEW who, Remember(who), NEW c \in Bench \ who, SameResult(c),
         snapshot'[c] = snapshot[c], todo'[c] = todo[c],
         listed'[c] = listed[c], cleaned'[c] = cleaned[c]
  PROVE  Elsewhere(c)
<1>1. /\ found'[c] = Stale \/ (loaded' = loaded /\ found'[c] = found[c])
      /\ kept'[c] = kept[c] \cap loaded'
  BY RememberElsewhere
<1> QED BY <1>1 DEF Elsewhere

(* A step of process b does no more than that to process c. *)
LEMMA OthersElsewhere ==
  ASSUME TypeOK, NEW b \in Bench, RunStep(b) \/ Abort(b) \/ Crash(b), NEW c \in Bench, c # b
  PROVE  Elsewhere(c)
<1>1. CASE \/ \E m \in Model : Acquire(b, m)
  BY <1>1 DEF Acquire, TypeOK, Elsewhere, SameResult
<1>2. CASE \/ BaselineFault(b) \/ RefuseBattery(b) \/ CancelBeforeLoad(b) \/ LoadFault(b)
           \/ ObserveFault(b) \/ CancelBeforeSample(b) \/ SampleUnobserved(b) \/ SampleFault(b)
  BY <1>2 DEF BaselineFault, RefuseBattery, CancelBeforeLoad, LoadFault, ObserveFault,
     CancelBeforeSample, SampleUnobserved, SampleFault, Conclude, TypeOK, Elsewhere, SameResult
<1>3. CASE \/ Baseline(b) \/ TakeSnapshot(b) \/ SnapshotFault(b) \/ Observe(b)
           \/ StartSample(b) \/ Sample(b) \/ Complete(b)
  BY <1>3 DEF Baseline, TakeSnapshot, SnapshotFault, Observe, StartSample, Sample, Complete,
     TypeOK, Elsewhere, SameResult
<1>4. CASE Load(b) \/ Unload(b)
  <2>1. Remember({b})
    BY <1>4 DEF Load, Unload
  <2>2. SameResult(c)
    BY <1>4 DEF Load, Unload, TypeOK, SameResult
  <2>3. /\ snapshot'[c] = snapshot[c] /\ todo'[c] = todo[c]
        /\ listed'[c] = listed[c] /\ cleaned'[c] = cleaned[c]
    BY <1>4 DEF Load, Unload, TypeOK
  <2>4. c \in Bench \ {b}
    OBVIOUS
  <2> QED BY <2>1, <2>2, <2>3, <2>4, RememberIsElsewhere
<1>5. CASE \/ ListForRestore(b) \/ ListForRestoreFault(b) \/ UnloadFault(b)
           \/ Restored(b) \/ Abort(b)
  BY <1>5 DEF ListForRestore, ListForRestoreFault, UnloadFault, Restored, Abort,
     TypeOK, Elsewhere, SameResult
<1>6. CASE Release(b) \/ Crash(b)
  BY <1>6 DEF Release, Crash, Forget, TypeOK, Elsewhere, SameResult
<1> QED BY <1>1, <1>2, <1>3, <1>4, <1>5, <1>6 DEF RunStep

(* Whatever happens elsewhere, a run keeps what it has not lost. *)
LEMMA ElsewhereKnows ==
  ASSUME NEW b \in Bench, KeepsPreloaded(b), KnowsHost(b), Elsewhere(b)
  PROVE  KeepsPreloaded(b)' /\ KnowsHost(b)'
<1>1. KeepsPreloaded(b)'
  BY DEF KeepsPreloaded, Elsewhere, SameResult
<1>2. KnowsHost(b)'
  BY DEF KnowsHost, Elsewhere, SameResult
<1> QED BY <1>1, <1>2

-----------------------------------------------------------------------------
(* What a run knows of the host. *)

(* The start of a run, and its snapshot. *)
LEMMA StartKnows ==
  ASSUME TypeOK, NEW b \in Bench, KeepsPreloaded(b), KnowsHost(b),
         \/ \E m \in Model : Acquire(b, m)
         \/ Baseline(b) \/ TakeSnapshot(b) \/ SnapshotFault(b) \/ Load(b)
  PROVE  KeepsPreloaded(b)' /\ KnowsHost(b)'
<1> USE DEF TypeOK, KeepsPreloaded, KnowsHost
<1>1. CASE \E m \in Model : Acquire(b, m)
  BY <1>1 DEF Acquire
<1>2. CASE Baseline(b)
  BY <1>2 DEF Baseline
<1>3. CASE TakeSnapshot(b)
  BY <1>3 DEF TakeSnapshot
<1>4. CASE SnapshotFault(b)
  BY <1>4 DEF SnapshotFault
<1>5. CASE Load(b)
  <2>1. target[b] \in Model /\ loaded' \in AfterLoad(target[b], loaded)
    BY <1>5 DEF Load
  <2>2. loaded \subseteq loaded'
    BY <2>1, LoadTypes
  <2>3. found'[b] = found[b] /\ kept'[b] = kept[b]
    BY <1>5 DEF Load, Remember
  <2> QED BY <1>5, <2>2, <2>3 DEF Load
<1> QED BY <1>1, <1>2, <1>3, <1>4, <1>5

(* The restore of a run that has its snapshot. *)
LEMMA RestoreKnows ==
  ASSUME SharedRuntime, TypeOK, NEW b \in Bench, KeepsPreloaded(b), KnowsHost(b),
         \/ ListForRestore(b) \/ ListForRestoreFault(b) \/ Unload(b) \/ UnloadFault(b)
         \/ Restored(b) \/ Release(b) \/ Crash(b)
  PROVE  KeepsPreloaded(b)' /\ KnowsHost(b)'
<1> USE DEF TypeOK, KeepsPreloaded, KnowsHost
<1>1. CASE ListForRestore(b)
  BY <1>1 DEF ListForRestore, Snapshot
<1>2. CASE ListForRestoreFault(b)
  BY <1>2 DEF ListForRestoreFault
<1>3. CASE Unload(b)
  <2>1. PICK i \in todo[b] : todo' = [todo EXCEPT ![b] = @ \ {i}] /\ loaded' = loaded \ {i}
    BY <1>3 DEF Unload
  <2>2. /\ found'[b] = found[b] /\ kept'[b] = kept[b] /\ pc' = pc
        /\ listed' = listed /\ cleaned' = cleaned /\ snapshot' = snapshot
    BY <1>3 DEF Unload, Remember
  <2>3. KeepsPreloaded(b)'
    BY <1>3, <2>1, <2>2 DEF Unload
  <2>4. KnowsHost(b)'
    BY <1>3, <2>1, <2>2 DEF Unload
  <2> QED BY <2>3, <2>4
<1>4. CASE UnloadFault(b)
  BY <1>4 DEF UnloadFault
<1>5. CASE Restored(b)
  BY <1>5 DEF Restored
<1>6. CASE Release(b) \/ Crash(b)
  BY <1>6 DEF Release, Crash, Forget
<1> QED BY <1>1, <1>2, <1>3, <1>4, <1>5, <1>6

(* All steps of a run. *)
LEMMA OwnKnows ==
  ASSUME SharedRuntime, TypeOK, NEW b \in Bench, KeepsPreloaded(b), KnowsHost(b),
         RunStep(b) \/ Abort(b) \/ Crash(b)
  PROVE  KeepsPreloaded(b)' /\ KnowsHost(b)'
<1>1. CASE \/ BaselineFault(b) \/ RefuseBattery(b) \/ CancelBeforeLoad(b) \/ LoadFault(b)
           \/ ObserveFault(b) \/ CancelBeforeSample(b) \/ SampleUnobserved(b) \/ SampleFault(b)
  BY <1>1 DEF BaselineFault, RefuseBattery, CancelBeforeLoad, LoadFault, ObserveFault,
     CancelBeforeSample, SampleUnobserved, SampleFault, Conclude, TypeOK, KeepsPreloaded, KnowsHost
<1>2. CASE Observe(b) \/ StartSample(b) \/ Sample(b) \/ Complete(b) \/ Abort(b)
  BY <1>2 DEF Observe, StartSample, Sample, Complete, Abort, TypeOK, KeepsPreloaded, KnowsHost
<1> QED BY <1>1, <1>2, StartKnows, RestoreKnows DEF RunStep

(* What a step does to a process other than its own. *)
LEMMA NextElsewhere ==
  ASSUME TypeOK, HostChanges \/ UNCHANGED vars, NEW c \in Bench
  PROVE  Elsewhere(c)
<1>1. CASE HostChanges
  <2>1. Remember({}) /\ c \in Bench \ {}
    BY <1>1 DEF HostChanges
  <2>2. SameResult(c)
    BY <1>1 DEF HostChanges, SameResult
  <2>3. /\ snapshot'[c] = snapshot[c] /\ todo'[c] = todo[c]
        /\ listed'[c] = listed[c] /\ cleaned'[c] = cleaned[c]
    BY <1>1 DEF HostChanges
  <2> QED BY <2>1, <2>2, <2>3, RememberIsElsewhere
<1>2. CASE UNCHANGED vars
  BY <1>2 DEF vars, Elsewhere, SameResult
<1> QED BY <1>1, <1>2

-----------------------------------------------------------------------------
(* The types and the results, whatever runtime restore() uses. *)
Results == TypeOK /\ \A b \in Bench : ResultFits(b)

(* No run has a result to begin with. *)
LEMMA InitResults ==
  ASSUME Model # {}
  PROVE  Init => Results
<1> SUFFICES ASSUME Init PROVE Results
  OBVIOUS
<1>1. (CHOOSE m \in Model : TRUE) \in Model /\ 0 \in 0 .. Samples
  BY SamplesAssumption
<1>2. TypeOK
  BY <1>1 DEF Init, TypeOK, Codes
<1>3. \A b \in Bench : pc[b] = "idle" /\ status[b] = "completed" /\ errorCode[b] = "none"
  BY DEF Init
<1> QED BY <1>2, <1>3 DEF Results, ResultFits

(* Every step keeps types and results. *)
LEMMA NextResults ==
  ASSUME Model # {}
  PROVE  Results /\ [Next]_vars => Results'
<1> SUFFICES ASSUME Results, [Next]_vars PROVE Results'
  OBVIOUS
<1>1. TypeOK /\ TypeOK'
  BY NextTypes DEF Results, ResultFits
<1>2. ASSUME NEW b \in Bench, RunStep(b) \/ Abort(b) \/ Crash(b) PROVE Results'
  <2>1. \A c \in Bench \ {b} : ResultFits(c)'
    BY <1>1, <1>2, OthersElsewhere, SameFits DEF Results, Elsewhere
  <2>2. ResultFits(b)'
    BY <1>1, <1>2, OwnResult DEF Results
  <2> QED BY <1>1, <2>1, <2>2 DEF Results
<1>3. CASE HostChanges \/ UNCHANGED vars
  BY <1>1, <1>3, NextElsewhere, SameFits DEF Results, Elsewhere
<1> QED BY <1>2, <1>3 DEF Next

(* The variables of runs and runtimes keep their types. *)
THEOREM TypeCorrect ==
  ASSUME Model # {}
  PROVE  Spec => []TypeOK
<1>1. Init => Results
  BY InitResults
<1>2. Results /\ [Next]_vars => Results'
  BY NextResults
<1>3. Results => TypeOK
  BY DEF Results
<1> QED BY <1>1, <1>2, <1>3, PTL DEF Spec

(* A benchmark that reports completed measured every sample, whatever       *)
(* failed, was canceled or went on elsewhere. *)
THEOREM CompletedIsMeasured ==
  ASSUME Model # {}
  PROVE  Spec => []CompletedMeansMeasured
<1>1. Init => Results
  BY InitResults
<1>2. Results /\ [Next]_vars => Results'
  BY NextResults
<1>3. Results => CompletedMeansMeasured
  BY DEF Results, ResultFits, CompletedMeansMeasured
<1> QED BY <1>1, <1>2, <1>3, PTL DEF Spec

-----------------------------------------------------------------------------
(* IInv holds in every reachable state, with one runtime per run. *)
LEMMA Inductive ==
  ASSUME SharedRuntime, Model # {}
  PROVE  Spec => []IInv
<1>1. Init => IInv
  <2> SUFFICES ASSUME Init PROVE IInv
    OBVIOUS
  <2>1. \A b \in Bench : pc[b] = "idle" /\ ~listed[b] /\ found[b] = Stale
    BY DEF Init
  <2> QED BY <2>1, InitResults DEF Results, IInv, KeepsPreloaded, KnowsHost
<1>2. IInv /\ [Next]_vars => IInv'
  <2> SUFFICES ASSUME IInv, [Next]_vars PROVE IInv'
    OBVIOUS
  <2>1. Results'
    BY NextResults DEF IInv, Results
  <2>2. ASSUME NEW b \in Bench, RunStep(b) \/ Abort(b) \/ Crash(b) PROVE IInv'
    <3>1. \A c \in Bench \ {b} : KeepsPreloaded(c)' /\ KnowsHost(c)'
      BY <2>2, OthersElsewhere, ElsewhereKnows DEF IInv
    <3>2. KeepsPreloaded(b)' /\ KnowsHost(b)'
      BY <2>2, OwnKnows DEF IInv
    <3> QED BY <2>1, <3>1, <3>2 DEF IInv, Results
  <2>3. CASE HostChanges \/ UNCHANGED vars
    BY <2>1, <2>3, NextElsewhere, ElsewhereKnows DEF IInv, Results
  <2> QED BY <2>2, <2>3 DEF Next
<1> QED BY <1>1, <1>2, PTL DEF Spec

(* A run that took its snapshot unloads nothing that was loaded before it,  *)
(* if load() and restore() use one runtime. *)
THEOREM NothingElseUnloaded ==
  ASSUME SharedRuntime, Model # {}
  PROVE  Spec => []PreloadedSurvive
<1>1. IInv => PreloadedSurvive
  BY DEF IInv, KeepsPreloaded, PreloadedSurvive
<1> QED BY <1>1, Inductive, PTL

(* A run whose restore met no error leaves the host as it found it, if it   *)
(* was alone with it. *)
THEOREM HostIsRestored ==
  ASSUME SharedRuntime, Model # {}
  PROVE  Spec => []RestoreIsExact
<1>1. IInv => RestoreIsExact
  BY DEF IInv, KnowsHost, RestoreIsExact
<1> QED BY <1>1, Inductive, PTL
=============================================================================
