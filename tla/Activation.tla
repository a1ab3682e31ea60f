----------------------------- MODULE Activation -----------------------------
(***************************************************************************)
(* Activation runs (packages/core/src/runner.ts) and unloads               *)
(* (activation.unload in apps/core-service/src/handlers.ts) over the REST  *)
(* runtime, which compete for the activation lock and share one host.      *)
(*                                                                         *)
(* A stage races its host call against a timeout and the abort signal; the *)
(* call it stops waiting for is not stopped (runWithGuards), so it may     *)
(* still reach the host later, whoever holds the lock by then.  An HTTP    *)
(* request that times out leaves the host at work in the same way.         *)
(***************************************************************************)
EXTENDS Host, FiniteSets

CONSTANTS
  Run,        \* the activations and unloads under way
  Requests,   \* what the runs may be asked for
  MaxLate,    \* bound on the host calls nobody waits for any more
  NoCall, Begun,  \* the stage has not called the host; it has
  NoRequest,  \* a run that has not begun
  Stale       \* the active state a run read is no longer the present one

Request ==
  [kind : {"apply"}, target : Model, mode : {"exclusive", "coexist"},
   rollback : {"disabled", "always"}]
  \cup {[kind |-> "unload"]}

ASSUME CallAssumption == NoCall # Begun /\ {NoCall, Begun} \cap Instance = {}
ASSUME RequestAssumption == Requests \subseteq Request /\ NoRequest \notin Request
ASSUME LateAssumption == MaxLate \in Nat

VARIABLES
  loaded,     \* the host: its loaded instances
  holders,    \* who holds the activation lock
  late,       \* host calls whose stage has given up on them
  pc,         \* the stage of each run
  req,        \* what each run was asked to do
  call,       \* its host call: an unload also remembers the instance it listed
  aborted,    \* its AbortSignal
  ended,      \* how its forward stages ended, when not with success
  result,     \* the outcome it reports, once pc is past its last stage
  found       \* the active state it read, until another actor changes the host

vars == <<loaded, holders, late, pc, req, call, aborted, ended, result, found>>

Forward  == {"estimating", "unloading-conflicts", "loading", "health-checking"}
Recovery == {"cleaning-failed-instance", "restoring-previous-profile"}
Evicting == {"unloading-conflicts", "unloading"} \cup Recovery
Locked   == Forward \cup Recovery \cup {"unloading", "flushing", "unlocking"}
Running(r) == pc[r] # "idle"

(* A host call that outlives its stage: an unload, listed or not, or a load. *)
LateCall == [unload : Instance \cup {Begun}] \cup [load : Model]

TypeOK ==
  /\ loaded \in SUBSET Instance
  /\ holders \in SUBSET Run
  /\ late \in SUBSET LateCall
  /\ pc \in [Run -> {"idle", "validating", "locking"} \cup Locked]
  /\ req \in [Run -> Request \cup {NoRequest}]
  /\ call \in [Run -> Instance \cup {NoCall, Begun}]
  /\ aborted \in [Run -> BOOLEAN]
  /\ ended \in [Run -> {"no", "failed", "canceled", "wait aborted"}]
  /\ result \in [Run -> {"none", "ok", "active", "failed", "failed-but-recovered",
                         "canceled", "threw"}]
  /\ found \in [Run -> (SUBSET Instance) \cup {Stale}]

Init ==
  /\ loaded \in SUBSET Instance
  /\ holders = {}
  /\ late = {}
  /\ pc = [r \in Run |-> "idle"]
  /\ req = [r \in Run |-> NoRequest]
  /\ call = [r \in Run |-> NoCall]
  /\ aborted = [r \in Run |-> FALSE]
  /\ ended = [r \in Run |-> "no"]
  /\ result = [r \in Run |-> "none"]
  /\ found = [r \in Run |-> Stale]

-----------------------------------------------------------------------------
Lock == INSTANCE Mutex WITH Actor <- Run

Goto(r, stage) == /\ pc' = [pc EXCEPT ![r] = stage]
                  /\ call' = [call EXCEPT ![r] = NoCall]

Report(r, outcome) == result' = [result EXCEPT ![r] = outcome]

(* The host changes under every run, or every run but r. *)
MakeStale(runs) ==
  found' = [q \in Run |-> IF q \in runs /\ loaded' # loaded THEN Stale ELSE found[q]]

(* The call of a run returns or its process ends, and its variables go.     *)
Return(r) ==
  /\ Goto(r, "idle")
  /\ Report(r, "none")
  /\ req' = [req EXCEPT ![r] = NoRequest]
  /\ aborted' = [aborted EXCEPT ![r] = FALSE]
  /\ ended' = [ended EXCEPT ![r] = "no"]
  /\ found' = [found EXCEPT ![r] = Stale]

(* runner.run or activation.unload is called. *)
Begin(r, q) ==
  /\ pc[r] = "idle"
  /\ req' = [req EXCEPT ![r] = q]
  /\ Goto(r, "validating")
  /\ UNCHANGED <<loaded, holders, late, aborted, ended, result, found>>

(* getActiveState fails: ACTIVATION_PREFLIGHT or LM_UNREACHABLE. *)
ReadFault(r) ==
  /\ pc[r] = "validating"
  /\ Return(r)
  /\ UNCHANGED <<loaded, holders, late>>

(* activation.unload returns before the lock when nothing is loaded. *)
NothingToUnload(r) ==
  /\ pc[r] = "validating"
  /\ req[r].kind = "unload" /\ loaded = {}
  /\ Return(r)
  /\ UNCHANGED <<loaded, holders, late>>

(* The active state is read, without the lock. *)
Read(r) ==
  /\ pc[r] = "validating"
  /\ req[r].kind = "unload" => loaded # {}
  /\ Goto(r, "locking")
  /\ found' = [found EXCEPT ![r] = loaded]
  /\ UNCHANGED <<loaded, holders, late, req, aborted, ended, result>>

Acquire(r) ==
  /\ pc[r] = "locking"
  /\ Lock!Enter(r)
  /\ Goto(r, IF req[r].kind = "unload" THEN "unloading" ELSE "estimating")
  /\ UNCHANGED <<loaded, late, req, aborted, ended, result, found>>

(* (Faulty variant: acquire() waits until the lock is free.) *)
AcquireWaits(r) ==
  /\ pc[r] = "locking" /\ holders = {}
  /\ Return(r)
  /\ UNCHANGED <<loaded, holders, late>>

(* acquire() says false, ACTIVATION_LOCK_BUSY, or rejects. *)
AcquireFails(r) ==
  /\ pc[r] = "locking"
  /\ Return(r)
  /\ UNCHANGED <<loaded, holders, late>>

-----------------------------------------------------------------------------
(* How a stage hands over to the next one. *)

Canceled(r) == ended[r] = "canceled"

(* (Faulty variant: no stage unloads the previous configuration.) *)
StageAfterWithoutUnload(r) ==
  CASE pc[r] = "estimating" -> "loading"
    [] pc[r] = "loading" -> "health-checking"
    [] pc[r] = "cleaning-failed-instance" /\ req[r].rollback # "disabled" ->
         "restoring-previous-profile"
    [] OTHER -> "flushing"
StageAfter(r) ==
  CASE pc[r] = "estimating" ->
         IF req[r].mode = "exclusive" THEN "unloading-conflicts" ELSE "loading"
    [] pc[r] = "unloading-conflicts" -> "loading"
    [] pc[r] = "loading" -> "health-checking"
    [] pc[r] = "cleaning-failed-instance" /\ req[r].rollback # "disabled" ->
         "restoring-previous-profile"
    [] OTHER -> "flushing"

(* The outcome the run will report if its present stage succeeds and is its *)
(* last (after a faulty variant that names an outcome nobody knows). *)
OutcomeMisnamed(r) ==
  CASE pc[r] = "unloading" -> "ok"
    [] pc[r] = "health-checking" -> "active"
    [] OTHER -> "recovered"
OutcomeAfter(r) ==
  CASE pc[r] = "unloading" -> "ok"
    [] pc[r] = "health-checking" -> "active"
    [] pc[r] \in Recovery /\ Canceled(r) -> "canceled"
    [] pc[r] = "cleaning-failed-instance" -> "failed"
    [] pc[r] = "restoring-previous-profile" -> "failed-but-recovered"

Succeed(r) ==
  /\ Goto(r, StageAfter(r))
  /\ IF StageAfter(r) = "flushing" THEN Report(r, OutcomeAfter(r))
                                   ELSE UNCHANGED result
  /\ UNCHANGED ended

(* (Faulty variant: a restore that fails counts as a restore.) *)
FailWithoutStrictRestore(r, how) ==
  \/ /\ pc[r] \in Forward
     /\ Goto(r, "cleaning-failed-instance")
     /\ ended' = [ended EXCEPT ![r] = how]
     /\ UNCHANGED result
  \/ /\ pc[r] \in Recovery
     /\ Succeed(r)
  \/ /\ pc[r] = "unloading"
     /\ Goto(r, "unlocking")
     /\ Report(r, "threw")
     /\ UNCHANGED ended

(* A forward stage that fails starts the recovery, which ignores a failing  *)
(* clean-up and calls a failing restore a failed activation. *)
Fail(r, how) ==
  \/ /\ pc[r] \in Forward
     /\ Goto(r, "cleaning-failed-instance")
     /\ ended' = [ended EXCEPT ![r] = how]
     /\ UNCHANGED result
  \/ /\ pc[r] = "cleaning-failed-instance"
     /\ Succeed(r)
  \/ /\ pc[r] = "restoring-previous-profile"
     /\ Goto(r, "flushing")
     /\ Report(r, IF Canceled(r) THEN "canceled" ELSE "failed")
     /\ UNCHANGED ended
  \/ /\ pc[r] = "unloading"
     /\ Goto(r, "unlocking")
     /\ Report(r, "threw")
     /\ UNCHANGED ended

(* A stage starts its work, unless the signal of a forward stage is aborted *)
(* already. *)
StartStage(r) ==
  /\ pc[r] \in Forward \cup Recovery \cup {"unloading"}
  /\ call[r] = NoCall
  /\ ~(pc[r] \in Forward /\ aborted[r])
  /\ call' = [call EXCEPT ![r] = Begun]
  /\ UNCHANGED <<loaded, holders, late, pc, req, aborted, ended, result, found>>

CancelStage(r) ==
  /\ pc[r] \in Forward
  /\ call[r] = NoCall
  /\ aborted[r]
  /\ Fail(r, "canceled")
  /\ UNCHANGED <<loaded, holders, late, req, aborted, found>>

(* The stages that call no host operation, or only read it. *)
Estimate(r) ==
  /\ pc[r] = "estimating" /\ call[r] = Begun
  /\ Succeed(r)
  /\ UNCHANGED <<loaded, holders, late, req, aborted, found>>

PassHealth(r) ==
  /\ pc[r] = "health-checking" /\ call[r] = Begun
  /\ InstancesOf(req[r].target, loaded) # {}
  /\ Succeed(r)
  /\ UNCHANGED <<loaded, holders, late, req, aborted, found>>

(* unload() and restore() of the REST runtime: list, then unload the first. *)
ListNothing(r) ==
  /\ pc[r] \in Evicting /\ call[r] = Begun
  /\ loaded = {}
  /\ Succeed(r)
  /\ UNCHANGED <<loaded, holders, late, req, aborted, found>>

(* (Faulty variant: any loaded instance will do.) *)
ListAny(r) ==
  /\ pc[r] \in Evicting /\ call[r] = Begun
  /\ \E i \in loaded : call' = [call EXCEPT ![r] = i]
  /\ UNCHANGED <<loaded, holders, late, pc, req, aborted, ended, result, found>>
ListFirst(r) ==
  /\ pc[r] \in Evicting /\ call[r] = Begun
  /\ loaded # {}
  /\ call' = [call EXCEPT ![r] = FirstLoaded(loaded)]
  /\ UNCHANGED <<loaded, holders, late, pc, req, aborted, ended, result, found>>

Evict(r) ==
  /\ pc[r] \in Evicting /\ call[r] \in loaded
  /\ loaded' = loaded \ {call[r]}
  /\ Succeed(r)
  /\ MakeStale(Run \ {r})
  /\ UNCHANGED <<holders, late, req, aborted>>

Load(r) ==
  /\ pc[r] = "loading" /\ call[r] = Begun
  /\ loaded' \in AfterLoad(req[r].target, loaded)
  /\ Succeed(r)
  /\ MakeStale(Run \ {r})
  /\ UNCHANGED <<holders, late, req, aborted>>

-----------------------------------------------------------------------------
(* Failing stages. *)

(* The host or the estimator answers with an error: nothing is done. *)
StageRejected(r) ==
  /\ call[r] # NoCall
  /\ Fail(r, "failed")
  /\ UNCHANGED <<loaded, holders, late, req, aborted, found>>

LateCallOf(r) ==
  IF pc[r] = "loading" THEN [load |-> req[r].target] ELSE [unload |-> call[r]]

(* A stage gives up on a host call that can still change the host.  An      *)
(* unload under no stage timer is given up only by its HTTP request. *)
Detach(r) ==
  /\ pc[r] \in Evicting \cup {"loading"}
  /\ call[r] # NoCall
  /\ pc[r] = "unloading" => call[r] # Begun
  /\ Cardinality(late) < MaxLate /\ LateCallOf(r) \notin late
  /\ late' = late \cup {LateCallOf(r)}

(* The stage timeout or the HTTP timeout expires. *)
TimeOut(r) ==
  /\ Detach(r)
  /\ Fail(r, "failed")
  /\ UNCHANGED <<loaded, holders, req, aborted, found>>

(* The signal aborts while the stage waits: ctx.wait rejects with a plain   *)
(* error, which runWithGuards does not tell from a failing host call. *)
AbortStage(r) ==
  /\ pc[r] \in Forward /\ call[r] # NoCall
  /\ aborted[r]
  /\ Fail(r, "wait aborted")
  /\ IF pc[r] \in Evicting \cup {"loading"} THEN Detach(r) ELSE UNCHANGED late
  /\ UNCHANGED <<loaded, holders, req, aborted, found>>

-----------------------------------------------------------------------------
(* The end of a run. *)

(* flushLog, or the audit row of an unload. *)
Flush(r) ==
  /\ pc[r] = "flushing"
  /\ Goto(r, "unlocking")
  /\ UNCHANGED <<loaded, holders, late, req, aborted, ended, result, found>>

(* The log cannot be written: the call rejects, whatever the run did. *)
FlushFault(r) ==
  /\ pc[r] = "flushing"
  /\ Goto(r, "unlocking")
  /\ Report(r, "threw")
  /\ UNCHANGED <<loaded, holders, late, req, aborted, ended, found>>

(* (Faulty variant: the release is not in a finally block.) *)
ReleaseUnlessThrown(r) ==
  /\ pc[r] = "unlocking"
  /\ IF result[r] = "threw" THEN UNCHANGED holders ELSE Lock!Leave(r)
  /\ Return(r)
  /\ UNCHANGED <<loaded, late>>

(* finally: release() *)
Release(r) ==
  /\ pc[r] = "unlocking"
  /\ Lock!Leave(r)
  /\ Return(r)
  /\ UNCHANGED <<loaded, late>>

(* Ctrl+C or rpc.cancel, while it makes a difference: the recovery ignores  *)
(* the signal, and activation.unload takes none. *)
Cancel(r) ==
  /\ pc[r] \in {"validating", "locking"} \cup Forward
  /\ req[r].kind = "apply" /\ ~aborted[r]
  /\ aborted' = [aborted EXCEPT ![r] = TRUE]
  /\ UNCHANGED <<loaded, holders, late, pc, req, call, ended, result, found>>

(* The process dies; its lease is residue and the request it had sent to    *)
(* the host may still be served. *)
Crash(r) ==
  /\ Running(r)
  /\ \/ UNCHANGED late
     \/ Detach(r) /\ (pc[r] = "loading" \/ call[r] # Begun)
  /\ Return(r)
  /\ IF r \in holders THEN Lock!Leave(r) ELSE UNCHANGED holders
  /\ UNCHANGED loaded

-----------------------------------------------------------------------------
(* Host calls that outlived their stage, and the rest of the world. *)

LateList(c) ==
  /\ c = [unload |-> Begun]
  /\ loaded # {}
  /\ late' = (late \ {c}) \cup {[unload |-> FirstLoaded(loaded)]}
  /\ UNCHANGED <<loaded, found>>

LateEvict(i) ==
  /\ [unload |-> i] \in late
  /\ loaded' = loaded \ {i}
  /\ late' = late \ {[unload |-> i]}
  /\ MakeStale(Run)

LateLoad(m) ==
  /\ [load |-> m] \in late
  /\ loaded' \in AfterLoad(m, loaded)
  /\ late' = late \ {[load |-> m]}
  /\ MakeStale(Run)

(* It finds nothing to unload, is refused, or ends with its process. *)
LateVoid(c) ==
  /\ late' = late \ {c}
  /\ UNCHANGED <<loaded, found>>

LateStep ==
  /\ \/ \E c \in late : LateList(c) \/ LateVoid(c)
     \/ \E i \in loaded : LateEvict(i)
     \/ \E m \in Model : LateLoad(m)
  /\ UNCHANGED <<holders, pc, req, call, aborted, ended, result>>

(* An instance is ejected by a user of LM Studio or after its idle time. *)
HostEvicts ==
  /\ \E i \in loaded : loaded' = loaded \ {i}
  /\ MakeStale(Run)
  /\ UNCHANGED <<holders, late, pc, req, call, aborted, ended, result>>

RunStep(r) ==
  \/ ReadFault(r) \/ NothingToUnload(r) \/ Read(r)
  \/ Acquire(r) \/ AcquireFails(r)
  \/ StartStage(r) \/ CancelStage(r)
  \/ Estimate(r) \/ PassHealth(r)
  \/ ListNothing(r) \/ ListFirst(r) \/ Evict(r) \/ Load(r)
  \/ StageRejected(r) \/ TimeOut(r) \/ AbortStage(r)
  \/ Flush(r) \/ FlushFault(r) \/ Release(r)

Next ==
  \/ \E r \in Run : \/ RunStep(r) \/ Cancel(r) \/ Crash(r)
                    \/ \E q \in Requests : Begin(r, q)
  \/ LateStep
  \/ HostEvicts

Spec == Init /\ [][Next]_vars

(* Every stage has a timer or an HTTP timeout, and so has every late call.  *)
FairSpec == Spec /\ (\A r \in Run : WF_vars(RunStep(r))) /\ WF_vars(LateStep)

-----------------------------------------------------------------------------
(* A run holds the lock in its stages and at no other time: every way out   *)
(* of a stage, a failing log included, goes through release(). *)
LockHeldInStages == \A r \in Run : r \in holders <=> pc[r] \in Locked

AtMostOne(S) == \A i, j \in S : i = j

(* Nobody else touched the host since the run read its active state, when   *)
(* it held at most one instance. *)
Alone(r) == found[r] # Stale /\ AtMostOne(found[r])

ServesOnly(m) == \E i \in loaded : i[1] = m /\ loaded = {i}

Reported(r, outcome) == pc[r] = "flushing" /\ result[r] = outcome

(* An exclusive activation that reports active leaves its target and        *)
(* nothing else on the host. *)
ExclusiveServesTarget ==
  \A r \in Run :
    Reported(r, "active") /\ req[r].mode = "exclusive" /\ Alone(r) =>
      ServesOnly(req[r].target)

(* An exclusive activation that reports failed-but-recovered leaves nothing *)
(* on the host that was not there before: no instance of a half-done switch *)
(* stays. *)
RecoveredAddsNothing ==
  \A r \in Run :
    Reported(r, "failed-but-recovered") /\ req[r].mode = "exclusive" /\ Alone(r) =>
      loaded \subseteq found[r]

(* An unload audited as ok unloaded the model it names, which is the one    *)
(* read before the lock, and no other. *)
UnloadAuditsWhatItUnloaded ==
  \A r \in Run :
    Reported(r, "ok") /\ found[r] # Stale =>
      loaded = found[r] \ {FirstLoaded(found[r])}

(* Every run that has begun ends, whatever the host and the others do. *)
EveryRunEnds == \A r \in Run : Running(r) ~> ~Running(r)

-----------------------------------------------------------------------------
(* The inductive invariant behind the safety properties. *)

SoleHolder == \A a, b \in holders : a = b

(* A run is in the stages of the request it was given. *)
KindFits(r) ==
  /\ Running(r) => req[r] \in Request
  /\ pc[r] \in Forward \cup Recovery => req[r].kind = "apply"
  /\ pc[r] = "unloading" => req[r].kind = "unload"
  /\ pc[r] = "flushing" => (result[r] = "ok" <=> req[r].kind = "unload")

(* What an unload that nobody overtook knows of the host, stage by stage.   *)
UnloadKnows(r) ==
  found[r] # Stale /\ req[r].kind = "unload" =>
    /\ pc[r] \in {"locking", "unloading"} => loaded = found[r] /\ loaded # {}
    /\ pc[r] = "unloading" => call[r] \in {NoCall, Begun, FirstLoaded(found[r])}
    /\ pc[r] = "flushing" => loaded = found[r] \ {FirstLoaded(found[r])}

(* The same for an exclusive activation. *)
SwitchKnows(r) ==
  Alone(r) /\ req[r].kind = "apply" /\ req[r].mode = "exclusive" =>
    /\ pc[r] \in {"locking", "estimating", "unloading-conflicts"} => loaded = found[r]
    /\ pc[r] = "loading" => loaded = {}
    /\ pc[r] = "health-checking" => ServesOnly(req[r].target)
    /\ pc[r] \in Recovery => AtMostOne(loaded)
    /\ Reported(r, "active") => ServesOnly(req[r].target)
    /\ Reported(r, "failed-but-recovered") => loaded = {}

StagesInv ==
  /\ TypeOK
  /\ LockHeldInStages
  /\ SoleHolder
  /\ \A r \in Run : KindFits(r)

IInv == StagesInv /\ \A r \in Run : UnloadKnows(r) /\ SwitchKnows(r)

-----------------------------------------------------------------------------
(* Two claims about the runner that its code does not keep: TLC refutes both *)
(* on the instance of MCActivation (the first in MCActivationRollback.cfg).  *)

(* "activation failures roll back to the previous configuration"             *)
(* (README.md): an exclusive activation that reports failed-but-recovered,   *)
(* and was alone with the host, leaves it as it found it.                    *)
RecoveredMeansRestored ==
  \A r \in Run :
    Reported(r, "failed-but-recovered") /\ req[r].mode = "exclusive" /\ Alone(r) =>
      loaded = found[r]

(* Exit code 2, canceled (docs/CLI_SPEC.md): a run that was stopped by its  *)
(* signal reports canceled. *)
StoppedMeansCanceled ==
  \A r \in Run : pc[r] = "flushing" /\ ended[r] = "wait aborted" => result[r] = "canceled"
=============================================================================
