-------------------------- MODULE ActivationProofs --------------------------
(***************************************************************************)
(* Theorems about Activation for any number of runs, any catalog, any      *)
(* requests and any bound on late calls: first the types of the runs and   *)
(* the lock, then what a run knows of the host.                            *)
(***************************************************************************)
EXTENDS Activation, TLAPS, WellFoundedInduction

-----------------------------------------------------------------------------
(* What the operators of Host return, for any catalog. *)

(* A set of naturals that is not empty has a least element. *)
LEMMA LeastNat ==
  ASSUME NEW T, T \subseteq Nat, T # {}
  PROVE  \E x \in T : \A y \in T : x <= y
<1> DEFINE R == {ss \in Nat \X Nat : ss[1] < ss[2]}
<1>1. IsWellFoundedOn(R, Nat)
  BY NatLessThanWellFounded DEF OpToRel
<1>2. \E x \in T : \A y \in T : <<y, x>> \notin R
  <2> HIDE DEF R
  <2> QED BY <1>1, WFMin
<1>3. \A x, y \in Nat : <<y, x>> \notin R => x <= y
  <2> SUFFICES ASSUME NEW x \in Nat, NEW y \in Nat, ~(x <= y) PROVE <<y, x>> \in R
    OBVIOUS
  <2>1. <<y, x>> \in Nat \X Nat /\ <<y, x>>[1] = y /\ <<y, x>>[2] = x /\ y < x
    OBVIOUS
  <2> QED BY <2>1
<1> HIDE DEF R
<1> QED BY <1>2, <1>3

(* What unload() finds first in the list is loaded, for every catalog. *)
LEMMA FirstIsLoaded ==
  ASSUME NEW S, S \subseteq Instance, S # {}
  PROVE  FirstLoaded(S) \in S
<1>1. \A i \in Instance : i = <<i[1], i[2]>> /\ i[1] \in Nat /\ i[2] \in Nat
  BY CatalogAssumption DEF Instance, Model
<1>2. PICK i \in S : \A j \in S : i[1] <= j[1]
  <2>1. {j[1] : j \in S} \subseteq Nat /\ {j[1] : j \in S} # {}
    BY <1>1
  <2>2. PICK m \in {j[1] : j \in S} : \A n \in {j[1] : j \in S} : m <= n
    BY <2>1, LeastNat
  <2> QED BY <2>2
<1>3. PICK k \in {j \in S : j[1] = i[1]} : \A j \in {j \in S : j[1] = i[1]} : k[2] <= j[2]
  <2> DEFINE T == {j[2] : j \in {j \in S : j[1] = i[1]}}
  <2>1. T \subseteq Nat /\ T # {}
    BY <1>1
  <2>2. \E m \in T : \A n \in T : m <= n
    <3> HIDE DEF T
    <3> QED BY <2>1, LeastNat
  <2> QED BY <2>2
<1>4. \A j \in S \ {k} : ListedBefore(k, j)
  <2> SUFFICES ASSUME NEW j \in S, j # k PROVE ListedBefore(k, j)
    OBVIOUS
  <2>1. CASE i[1] < j[1]
    BY <2>1, <1>3 DEF ListedBefore
  <2>2. CASE i[1] = j[1]
    <3>1. k[2] <= j[2] /\ k[1] = j[1] /\ k \in Instance /\ j \in Instance
      BY <2>2, <1>3
    <3>2. k[2] # j[2]
      BY <1>1, <3>1
    <3>3. k[2] \in Nat /\ j[2] \in Nat
      BY <1>1, <3>1
    <3> QED BY <3>1, <3>2, <3>3 DEF ListedBefore
  <2>3. i[1] < j[1] \/ i[1] = j[1]
    BY <1>1, <1>2
  <2> QED BY <2>1, <2>2, <2>3
<1> QED BY <1>3, <1>4 DEF FirstLoaded

(* A load adds at most one instance, leaves the model loaded, and alone on  *)
(* a host that was empty. *)
LEMMA LoadServes ==
  ASSUME NEW S, S \subseteq Instance, NEW m \in Model, NEW L \in AfterLoad(m, S)
  PROVE  /\ L \subseteq Instance
         /\ S \subseteq L
         /\ S = {} => \E i \in L : i[1] = m /\ L = {i}
<1>1. CASE L = S /\ InstancesOf(m, S) # {}
  BY <1>1 DEF InstancesOf
<1>2. ASSUME NEW k \in 1 .. Copies[m], L = S \cup {<<m, k>>}
      PROVE  /\ L \subseteq Instance
             /\ S \subseteq L
             /\ S = {} => \E i \in L : i[1] = m /\ L = {i}
  <2>1. <<m, k>> \in Instance /\ <<m, k>>[1] = m
    BY DEF Instance
  <2> QED BY <1>2, <2>1
<1> QED BY <1>1, <1>2 DEF AfterLoad

-----------------------------------------------------------------------------
(* Types. *)

USE DEF Goto, Report

Stages == {"idle", "validating", "locking"} \cup Locked
Outcomes == {"none", "ok", "active", "failed", "failed-but-recovered", "canceled", "threw"}

(* The part of the state that belongs to the runs keeps its types. *)
RunTypes ==
  /\ pc \in [Run -> Stages]
  /\ call \in [Run -> Instance \cup {NoCall, Begun}]
  /\ ended \in [Run -> {"no", "failed", "canceled", "wait aborted"}]
  /\ result \in [Run -> Outcomes]

(* TypeOK, with the types of the run's own variables apart. *)
LEMMA SplitTypes ==
  TypeOK <=> /\ RunTypes
             /\ loaded \in SUBSET Instance
             /\ holders \in SUBSET Run
             /\ late \in SUBSET LateCall
             /\ req \in [Run -> Request \cup {NoRequest}]
             /\ aborted \in [Run -> BOOLEAN]
             /\ found \in [Run -> (SUBSET Instance) \cup {Stale}]
BY DEF TypeOK, RunTypes, Stages, Outcomes

(* A stage that succeeds, or fails, hands over to a stage with an outcome   *)
(* of the declared types. *)
LEMMA SucceedTypes ==
  ASSUME RunTypes, NEW r \in Run, pc[r] \in Forward \cup Recovery \cup {"unloading"},
         Succeed(r)
  PROVE  RunTypes'
<1>1. StageAfter(r) \in Stages
  BY DEF StageAfter, Stages, Locked, Forward, Recovery
<1>2. StageAfter(r) = "flushing" => OutcomeAfter(r) \in Outcomes
  BY DEF StageAfter, OutcomeAfter, Outcomes, Forward, Recovery, Canceled
<1> QED BY <1>1, <1>2 DEF Succeed, RunTypes

(* The same for a stage that fails, whatever it failed of. *)
LEMMA FailTypes ==
  ASSUME RunTypes, NEW r \in Run, NEW how \in {"failed", "canceled", "wait aborted"},
         Fail(r, how)
  PROVE  RunTypes'
<1>1. CASE pc[r] = "cleaning-failed-instance" /\ Succeed(r)
  BY <1>1, SucceedTypes DEF Recovery
<1>2. CASE ~(pc[r] = "cleaning-failed-instance" /\ Succeed(r))
  BY <1>2 DEF Fail, RunTypes, Stages, Outcomes, Locked, Recovery
<1> QED BY <1>1, <1>2

(* A run that is over leaves nothing but initial values. *)
LEMMA ReturnTypes ==
  ASSUME TypeOK, NEW r \in Run, Return(r)
  PROVE  /\ RunTypes'
         /\ req' \in [Run -> Request \cup {NoRequest}]
         /\ aborted' \in [Run -> BOOLEAN]
         /\ found' \in [Run -> (SUBSET Instance) \cup {Stale}]
BY DEF TypeOK, Return, RunTypes, Stages, Outcomes, Locked

(* What the runs remember of the host after it changed. *)
LEMMA StaleTypes ==
  ASSUME TypeOK, NEW R \in SUBSET Run, MakeStale(R)
  PROVE  found' \in [Run -> (SUBSET Instance) \cup {Stale}]
BY DEF TypeOK, MakeStale

(* What a stage gives up on is a load or an unload. *)
LEMMA DetachTypes ==
  ASSUME TypeOK, NEW r \in Run, Running(r) => req[r] \in Request,
         pc[r] \in Forward \cup Recovery => req[r].kind = "apply", Detach(r)
  PROVE  late' \in SUBSET LateCall
<1>1. LateCallOf(r) \in LateCall
  <2>1. CASE pc[r] = "loading"
    <3>1. req[r].target \in Model
      BY <2>1 DEF Running, Forward, Request
    <3> QED BY <2>1, <3>1 DEF LateCallOf, LateCall
  <2>2. CASE pc[r] # "loading"
    <3>1. call[r] \in Instance \cup {Begun}
      BY DEF Detach, TypeOK
    <3> QED BY <2>2, <3>1 DEF LateCallOf, LateCall
  <2> QED BY <2>1, <2>2
<1> QED BY <1>1 DEF Detach, TypeOK

-----------------------------------------------------------------------------
(* The stages: who holds the lock, and which request a stage belongs to.    *)

Work == Forward \cup Recovery \cup {"unloading"}

USE DEF Work

(* A step of run r leaves the stages of the other runs alone. *)
OnlyOf(r) ==
  \A q \in Run \ {r} : pc'[q] = pc[q] /\ req'[q] = req[q] /\ result'[q] = result[q]

LEMMA OthersFit ==
  ASSUME StagesInv, NEW r \in Run, OnlyOf(r), KindFits(r)'
  PROVE  \A q \in Run : KindFits(q)'
BY DEF StagesInv, OnlyOf, KindFits, Running

(* A step within the locked stages, or outside them, keeps the lock in step *)
(* with them. *)
LEMMA LockUntouched ==
  ASSUME StagesInv, NEW r \in Run, OnlyOf(r), holders' = holders,
         pc[r] \in Locked <=> pc'[r] \in Locked
  PROVE  LockHeldInStages' /\ SoleHolder'
BY DEF StagesInv, OnlyOf, LockHeldInStages, SoleHolder

(* A stage that succeeds stays in the stages of its request, with the lock. *)
LEMMA SucceedFits ==
  ASSUME StagesInv, NEW r \in Run, pc[r] \in Work, Succeed(r), req' = req
  PROVE  OnlyOf(r) /\ KindFits(r)' /\ pc[r] \in Locked /\ pc'[r] \in Locked
<1> USE DEF StagesInv, TypeOK
<1>1. OnlyOf(r) /\ pc[r] \in Locked
  BY DEF OnlyOf, Succeed, Locked
<1>2. CASE StageAfter(r) = "flushing"
  <2>1. pc'[r] = "flushing" /\ result'[r] = OutcomeAfter(r)
    BY <1>2 DEF Succeed
  <2>2. OutcomeAfter(r) = "ok" <=> pc[r] = "unloading"
    BY <1>2 DEF StageAfter, OutcomeAfter, Forward, Recovery
  <2>3. pc[r] = "unloading" <=> req[r].kind = "unload"
    BY DEF KindFits, Forward, Recovery
  <2> QED BY <1>1, <2>1, <2>2, <2>3 DEF KindFits, Forward, Recovery, Locked, Running
<1>3. CASE StageAfter(r) # "flushing"
  <2>1. /\ pc[r] # "unloading"
        /\ StageAfter(r) \in Forward \cup Recovery
    BY <1>3 DEF StageAfter, Forward, Recovery
  <2>2. pc'[r] = StageAfter(r)
    BY DEF Succeed
  <2>3. req[r].kind = "apply" /\ req[r] \in Request
    BY <2>1 DEF KindFits, Running, Forward, Recovery
  <2> QED BY <1>1, <2>1, <2>2, <2>3 DEF KindFits, Forward, Recovery, Locked, Running
<1> QED BY <1>2, <1>3

(* So does a stage that fails. *)
LEMMA FailFits ==
  ASSUME StagesInv, NEW r \in Run, NEW how, Fail(r, how), req' = req
  PROVE  /\ OnlyOf(r) /\ KindFits(r)'
         /\ pc[r] \in Locked /\ pc'[r] \in Locked
         /\ Running(r) => req[r] \in Request
         /\ pc[r] \in Forward \cup Recovery => req[r].kind = "apply"
<1> USE DEF StagesInv, TypeOK
<1>1. CASE pc[r] = "cleaning-failed-instance"
  <2>1. Succeed(r)
    BY <1>1 DEF Fail, Forward
  <2> QED BY <1>1, <2>1, SucceedFits DEF Recovery, KindFits
<1>2. CASE pc[r] \in Forward
  BY <1>2 DEF Fail, OnlyOf, KindFits, Forward, Recovery, Locked, Running
<1>3. CASE pc[r] = "restoring-previous-profile"
  <2>1. req[r].kind = "apply" /\ result'[r] # "ok"
    BY <1>3 DEF Fail, KindFits, Forward, Recovery
  <2> QED BY <1>3, <2>1 DEF Fail, OnlyOf, KindFits, Forward, Recovery, Locked, Running
<1>4. CASE pc[r] = "unloading"
  BY <1>4 DEF Fail, OnlyOf, KindFits, Forward, Recovery, Locked, Running
<1> QED BY <1>1, <1>2, <1>3, <1>4 DEF Fail

(* A run that is over is idle, and the only one that moved. *)
LEMMA ReturnFits ==
  ASSUME StagesInv, NEW r \in Run, Return(r)
  PROVE  OnlyOf(r) /\ KindFits(r)' /\ pc'[r] = "idle"
BY DEF StagesInv, TypeOK, Return, OnlyOf, KindFits, Running, Forward, Recovery

(* Assembling StagesInv' from what a step of run r was shown to keep. *)
LEMMA Assemble ==
  ASSUME StagesInv, NEW r \in Run, OnlyOf(r), KindFits(r)', TypeOK',
         holders' = holders, pc[r] \in Locked <=> pc'[r] \in Locked
  PROVE  StagesInv'
BY OthersFit, LockUntouched DEF StagesInv

(* No run holds the lock before it has begun. *)
LEMMA InitStages == Init => StagesInv
<1> SUFFICES ASSUME Init PROVE StagesInv
  OBVIOUS
<1>1. TypeOK
  BY DEF Init, TypeOK
<1>2. \A r \in Run : pc[r] = "idle"
  BY DEF Init
<1>3. LockHeldInStages /\ SoleHolder
  BY <1>2 DEF Init, LockHeldInStages, SoleHolder, Locked, Forward, Recovery
<1>4. \A r \in Run : KindFits(r)
  BY <1>2 DEF KindFits, Running, Forward, Recovery
<1> QED BY <1>1, <1>3, <1>4 DEF StagesInv

(* Steps of a run that change neither the host nor the lock. *)
LEMMA QuietStages ==
  ASSUME StagesInv, NEW r \in Run,
         \/ \E q \in Requests : Begin(r, q)
         \/ Read(r) \/ StartStage(r) \/ ListFirst(r) \/ Cancel(r)
         \/ Flush(r) \/ FlushFault(r)
  PROVE  StagesInv'
<1> USE RequestAssumption DEF StagesInv, TypeOK
<1>1. OnlyOf(r) /\ holders' = holders
  BY DEF OnlyOf, Begin, Read, StartStage, ListFirst, Cancel, Flush, FlushFault
<1>2. pc[r] \in Locked <=> pc'[r] \in Locked
  BY DEF Begin, Read, StartStage, ListFirst, Cancel, Flush, FlushFault, Locked, Forward,
     Recovery
<1>3. KindFits(r)'
  BY DEF KindFits, Running, Begin, Read, StartStage, ListFirst, Cancel, Flush, FlushFault,
     Forward, Recovery
<1>4. TypeOK'
  <2>1. CASE ListFirst(r)
    <3>1. FirstLoaded(loaded) \in Instance
      BY <2>1, FirstIsLoaded DEF ListFirst
    <3> QED BY <2>1, <3>1 DEF ListFirst
  <2>2. CASE \E q \in Requests : Begin(r, q)
    <3>1. PICK q \in Requests : Begin(r, q)
      BY <2>2
    <3> QED BY <3>1 DEF Begin
  <2>3. CASE Read(r)
    BY <2>3 DEF Read
  <2>4. CASE StartStage(r) \/ Cancel(r)
    BY <2>4 DEF StartStage, Cancel
  <2>5. CASE Flush(r) \/ FlushFault(r)
    BY <2>5 DEF Flush, FlushFault, Locked
  <2> QED BY <2>1, <2>2, <2>3, <2>4, <2>5
<1> QED BY <1>1, <1>2, <1>3, <1>4, Assemble

(* A request is an activation or an unload. *)
LEMMA Kinds == \A q \in Request : q.kind = "apply" \/ q.kind = "unload"
<1> SUFFICES ASSUME NEW q \in Request, q.kind # "apply" PROVE q.kind = "unload"
  OBVIOUS
<1>1. q = [kind |-> "unload"]
  BY DEF Request
<1> QED BY <1>1

(* A successful acquire() makes the run the only holder. *)
LEMMA AcquireStages ==
  ASSUME StagesInv, NEW r \in Run, Acquire(r)
  PROVE  StagesInv'
<1> USE DEF StagesInv, TypeOK
<1>1. OnlyOf(r)
  BY DEF OnlyOf, Acquire
<1>2. holders = {} /\ holders' = {r}
  BY DEF Acquire, Lock!Enter
<1>3. pc[r] = "locking" /\ pc'[r] = IF req[r].kind = "unload" THEN "unloading"
                                                               ELSE "estimating"
  BY DEF Acquire
<1>4. pc'[r] \in Locked
  BY <1>3 DEF Locked, Forward
<1>5. LockHeldInStages' /\ SoleHolder'
  BY <1>1, <1>2, <1>4 DEF LockHeldInStages, SoleHolder, OnlyOf
<1>6. KindFits(r)'
  <2>1. req' = req /\ req[r] \in Request
    BY <1>3 DEF KindFits, Running, Acquire
  <2>2. req[r].kind = "apply" \/ req[r].kind = "unload"
    BY <2>1, Kinds
  <2> QED BY <1>3, <2>1, <2>2 DEF KindFits, Running, Forward, Recovery
<1>7. TypeOK'
  BY <1>2, <1>4 DEF Acquire
<1> QED BY <1>1, <1>5, <1>6, <1>7, OthersFit

(* A run that returns, or whose process ends, leaves the lock if it has it. *)
LEMMA ReturnStages ==
  ASSUME StagesInv, NEW r \in Run,
         ReadFault(r) \/ NothingToUnload(r) \/ AcquireFails(r) \/ Release(r) \/ Crash(r)
  PROVE  StagesInv'
<1>1. Return(r)
  BY DEF ReadFault, NothingToUnload, AcquireFails, Release, Crash
<1>2. OnlyOf(r) /\ KindFits(r)' /\ pc'[r] = "idle"
  BY <1>1, ReturnFits
<1>3. holders' = holders \ {r}
  <2>1. CASE ReadFault(r) \/ NothingToUnload(r) \/ AcquireFails(r)
    BY <2>1 DEF ReadFault, NothingToUnload, AcquireFails, StagesInv, LockHeldInStages,
       Locked, Forward, Recovery
  <2>2. CASE Release(r) \/ Crash(r)
    BY <2>2 DEF Release, Crash, Lock!Leave
  <2> QED BY <2>1, <2>2
<1>4. LockHeldInStages' /\ SoleHolder'
  BY <1>2, <1>3 DEF StagesInv, LockHeldInStages, SoleHolder, OnlyOf, Locked, Forward, Recovery
<1>5. loaded' = loaded /\ late' \in SUBSET LateCall
  <2>1. CASE Crash(r) /\ Detach(r)
    BY <2>1, DetachTypes DEF Crash, StagesInv, KindFits
  <2>2. CASE ~(Crash(r) /\ Detach(r))
    BY <2>2 DEF ReadFault, NothingToUnload, AcquireFails, Release, Crash, StagesInv, TypeOK
  <2>3. loaded' = loaded
    BY DEF ReadFault, NothingToUnload, AcquireFails, Release, Crash
  <2> QED BY <2>1, <2>2, <2>3
<1>6. TypeOK
  BY DEF StagesInv
<1>7. /\ RunTypes'
      /\ req' \in [Run -> Request \cup {NoRequest}]
      /\ aborted' \in [Run -> BOOLEAN]
      /\ found' \in [Run -> (SUBSET Instance) \cup {Stale}]
  BY <1>1, <1>6, ReturnTypes
<1>8. TypeOK'
  BY <1>3, <1>5, <1>6, <1>7 DEF TypeOK, RunTypes, Stages, Outcomes
<1> QED BY <1>2, <1>4, <1>8, OthersFit DEF StagesInv

(* A stage that does its work hands over to the next one. *)
LEMMA SuccessStages ==
  ASSUME StagesInv, NEW r \in Run,
         Estimate(r) \/ PassHealth(r) \/ ListNothing(r) \/ Evict(r) \/ Load(r)
  PROVE  StagesInv'
<1>1. pc[r] \in Work /\ Succeed(r)
  BY DEF Estimate, PassHealth, ListNothing, Evict, Load, Evicting, Forward
<1>2. /\ req' = req /\ aborted' = aborted
      /\ late' = late /\ holders' = holders
  BY DEF Estimate, PassHealth, ListNothing, Evict, Load
<1>3. TypeOK /\ RunTypes
  BY SplitTypes DEF StagesInv
<1>4. OnlyOf(r) /\ KindFits(r)' /\ pc[r] \in Locked /\ pc'[r] \in Locked
  BY <1>1, <1>2, SucceedFits
<1>5. loaded' \in SUBSET Instance
  <2>1. CASE Load(r)
    <3>1. req[r].target \in Model
      BY <2>1 DEF Load, StagesInv, KindFits, Running, Forward, Request
    <3>2. loaded' \in AfterLoad(req[r].target, loaded) /\ loaded \subseteq Instance
      BY <2>1, <1>3 DEF Load, TypeOK
    <3> QED BY <3>1, <3>2, LoadServes
  <2>2. CASE ~Load(r)
    BY <2>2, <1>3 DEF Estimate, PassHealth, ListNothing, Evict, TypeOK
  <2> QED BY <2>1, <2>2
<1>6. found' \in [Run -> (SUBSET Instance) \cup {Stale}]
  <2>1. CASE Evict(r) \/ Load(r)
    <3>1. Run \ {r} \in SUBSET Run /\ MakeStale(Run \ {r})
      BY <2>1 DEF Evict, Load
    <3> QED BY <1>3, <3>1, StaleTypes
  <2>2. CASE ~(Evict(r) \/ Load(r))
    BY <2>2, <1>3 DEF Estimate, PassHealth, ListNothing, TypeOK
  <2> QED BY <2>1, <2>2
<1>7. RunTypes'
  BY <1>1, <1>3, SucceedTypes
<1>8. TypeOK'
  BY <1>2, <1>3, <1>5, <1>6, <1>7 DEF TypeOK, RunTypes, Stages, Outcomes
<1> QED BY <1>2, <1>4, <1>8, Assemble

(* A stage that fails hands over to the recovery, or ends the run. *)
LEMMA FailureStages ==
  ASSUME StagesInv, NEW r \in Run,
         CancelStage(r) \/ StageRejected(r) \/ TimeOut(r) \/ AbortStage(r)
  PROVE  StagesInv'
<1>1. PICK how \in {"failed", "canceled", "wait aborted"} : Fail(r, how)
  BY DEF CancelStage, StageRejected, TimeOut, AbortStage
<1>2. /\ req' = req /\ aborted' = aborted /\ found' = found
      /\ loaded' = loaded /\ holders' = holders
  BY DEF CancelStage, StageRejected, TimeOut, AbortStage
<1>3. late' = late \/ Detach(r)
  BY DEF CancelStage, StageRejected, TimeOut, AbortStage
<1>4. TypeOK /\ RunTypes
  BY SplitTypes DEF StagesInv
<1>5. /\ OnlyOf(r) /\ KindFits(r)' /\ pc[r] \in Locked /\ pc'[r] \in Locked
      /\ Running(r) => req[r] \in Request
      /\ pc[r] \in Forward \cup Recovery => req[r].kind = "apply"
  BY <1>1, <1>2, FailFits
<1>6. late' \in SUBSET LateCall
  <2>1. CASE late' = late
    BY <2>1, <1>4 DEF TypeOK
  <2>2. CASE Detach(r)
    BY <2>2, <1>4, <1>5, DetachTypes
  <2> QED BY <1>3, <2>1, <2>2
<1>7. RunTypes'
  BY <1>1, <1>4, FailTypes
<1>8. TypeOK'
  BY <1>2, <1>4, <1>6, <1>7 DEF TypeOK, RunTypes, Stages, Outcomes
<1> QED BY <1>2, <1>5, <1>8, Assemble

(* A late call, or a user of LM Studio, changes only the host. *)
LEMMA WorldStages ==
  ASSUME StagesInv, LateStep \/ HostEvicts
  PROVE  StagesInv'
<1>1. /\ holders' = holders /\ pc' = pc /\ req' = req /\ call' = call
      /\ aborted' = aborted /\ ended' = ended /\ result' = result
  BY DEF LateStep, HostEvicts
<1>2. TypeOK
  BY DEF StagesInv
<1>3. loaded' \in SUBSET Instance
  <2>1. CASE \E m \in Model : LateLoad(m)
    <3>1. PICK m \in Model : loaded' \in AfterLoad(m, loaded)
      BY <2>1 DEF LateLoad
    <3>2. loaded \subseteq Instance
      BY <1>2 DEF TypeOK
    <3> QED BY <3>1, <3>2, LoadServes
  <2>2. CASE ~\E m \in Model : LateLoad(m)
    BY <2>2, <1>2 DEF LateStep, HostEvicts, LateList, LateVoid, LateEvict, TypeOK
  <2> QED BY <2>1, <2>2
<1>4. late' \in SUBSET LateCall
  <2>1. CASE \E c \in late : LateList(c)
    <3>1. loaded # {} /\ loaded \subseteq Instance
      BY <2>1, <1>2 DEF LateList, TypeOK
    <3>2. [unload |-> FirstLoaded(loaded)] \in LateCall
      BY <3>1, FirstIsLoaded DEF LateCall
    <3> QED BY <2>1, <3>2, <1>2 DEF LateList, TypeOK
  <2>2. CASE ~\E c \in late : LateList(c)
    BY <2>2, <1>2 DEF LateStep, HostEvicts, LateVoid, LateEvict, LateLoad, TypeOK
  <2> QED BY <2>1, <2>2
<1>5. found' \in [Run -> (SUBSET Instance) \cup {Stale}]
  <2>1. CASE MakeStale(Run)
    BY <1>2, <2>1, StaleTypes
  <2>2. CASE found' = found
    BY <1>2, <2>2 DEF TypeOK
  <2> QED BY <2>1, <2>2 DEF LateStep, HostEvicts, LateList, LateVoid, LateEvict, LateLoad
<1>6. TypeOK'
  BY <1>1, <1>2, <1>3, <1>4, <1>5 DEF TypeOK
<1>7. LockHeldInStages' /\ SoleHolder' /\ \A r \in Run : KindFits(r)'
  BY <1>1 DEF StagesInv, LockHeldInStages, SoleHolder, KindFits, Running
<1> QED BY <1>6, <1>7 DEF StagesInv

(* The stages and the lock stay in step over every action. *)
LEMMA NextStages == StagesInv /\ [Next]_vars => StagesInv'
<1> SUFFICES ASSUME StagesInv, [Next]_vars PROVE StagesInv'
  OBVIOUS
<1>1. ASSUME NEW r \in Run, RunStep(r) PROVE StagesInv'
  <2>1. CASE Read(r) \/ StartStage(r) \/ ListFirst(r) \/ Flush(r) \/ FlushFault(r)
    BY <2>1, QuietStages
  <2>2. CASE Acquire(r)
    BY <2>2, AcquireStages
  <2>3. CASE ReadFault(r) \/ NothingToUnload(r) \/ AcquireFails(r) \/ Release(r)
    BY <2>3, ReturnStages
  <2>4. CASE Estimate(r) \/ PassHealth(r) \/ ListNothing(r) \/ Evict(r) \/ Load(r)
    BY <2>4, SuccessStages
  <2>5. CASE CancelStage(r) \/ StageRejected(r) \/ TimeOut(r) \/ AbortStage(r)
    BY <2>5, FailureStages
  <2> QED BY <1>1, <2>1, <2>2, <2>3, <2>4, <2>5 DEF RunStep
<1>2. ASSUME NEW r \in Run, Cancel(r) \/ Crash(r) \/ \E q \in Requests : Begin(r, q)
      PROVE  StagesInv'
  BY <1>2, QuietStages, ReturnStages
<1>3. CASE LateStep \/ HostEvicts
  BY <1>3, WorldStages
<1>4. CASE UNCHANGED vars
  BY <1>4 DEF vars, StagesInv, TypeOK, LockHeldInStages, SoleHolder, KindFits, Running
<1> QED BY <1>1, <1>2, <1>3, <1>4 DEF Next

(* The types, the lock and the requests fit the stages in every reachable   *)
(* state: the part of the inductive invariant without the host. *)
THEOREM StagesHold == Spec => []StagesInv
<1> QED BY InitStages, NextStages, PTL DEF Spec

(* Whatever runs, models, requests and late calls there are, the variables  *)
(* of runner.ts keep their types. *)
THEOREM TypeCorrect == Spec => []TypeOK
<1>1. StagesInv => TypeOK
  BY DEF StagesInv
<1> QED BY <1>1, StagesHold, PTL

(* A run holds the activation lock exactly in its stages, and never with    *)
(* another run: no failure, abort, crash or failing log leaks the lock, and *)
(* no stage begins a host call without it. *)
THEOREM StagesAreLocked == Spec => [](LockHeldInStages /\ SoleHolder)
<1>1. StagesInv => LockHeldInStages /\ SoleHolder
  BY DEF StagesInv
<1> QED BY <1>1, StagesHold, PTL

-----------------------------------------------------------------------------
(* What a run knows of the host, and that the outcome it reports is true of it. *)
HIDE DEF Work

(* The part of IInv about the host, for one run. *)
Knows(r) == UnloadKnows(r) /\ SwitchKnows(r)

(* Another actor leaves a run that it does not make stale as it was. *)
Spared(q) ==
  /\ pc'[q] = pc[q] /\ req'[q] = req[q] /\ call'[q] = call[q] /\ result'[q] = result[q]
  /\ found'[q] = Stale \/ (found'[q] = found[q] /\ loaded' = loaded)

(* A run that is stale knows nothing, and needs to know nothing. *)
LEMMA StaleKnows ==
  ASSUME NEW r \in Run, found'[r] = Stale
  PROVE  Knows(r)'
BY DEF Knows, UnloadKnows, SwitchKnows, Alone

(* A run that is spared knows what it knew. *)
LEMMA SparedKnows ==
  ASSUME NEW q \in Run, Knows(q), Spared(q)
  PROVE  Knows(q)'
<1>1. CASE found'[q] = Stale
  BY <1>1, StaleKnows
<1>2. CASE found'[q] = found[q] /\ loaded' = loaded
  BY <1>2 DEF Spared, Knows, UnloadKnows, SwitchKnows, Alone, Reported, ServesOnly, AtMostOne
<1> QED BY <1>1, <1>2 DEF Spared

(* Before it has begun, and once it is over, a run knows nothing. *)
LEMMA IdleKnows ==
  ASSUME NEW r \in Run, pc'[r] \in {"idle", "validating", "unlocking"}
  PROVE  Knows(r)'
BY DEF Knows, UnloadKnows, SwitchKnows, Reported, Recovery

(* The others are spared by a step of run r. *)
LEMMA OthersSpared ==
  ASSUME IInv, NEW r \in Run, RunStep(r) \/ Cancel(r) \/ Crash(r) \/ \E q \in Requests : Begin(r, q)
  PROVE  \A q \in Run \ {r} : Spared(q)
<1> SUFFICES ASSUME NEW q \in Run \ {r} PROVE Spared(q)
  OBVIOUS
<1> USE DEF IInv, StagesInv, TypeOK, Spared
<1>1. CASE \/ ReadFault(r) \/ NothingToUnload(r) \/ AcquireFails(r) \/ Release(r) \/ Crash(r)
  BY <1>1 DEF ReadFault, NothingToUnload, AcquireFails, Release, Crash, Return
<1>2. CASE \/ Read(r) \/ Acquire(r) \/ StartStage(r) \/ ListFirst(r) \/ Cancel(r)
           \/ Flush(r) \/ FlushFault(r) \/ \E k \in Requests : Begin(r, k)
  BY <1>2 DEF Read, Acquire, StartStage, ListFirst, Cancel, Flush, FlushFault, Begin
<1>3. CASE Estimate(r) \/ PassHealth(r) \/ ListNothing(r)
  BY <1>3 DEF Estimate, PassHealth, ListNothing, Succeed
<1>4. CASE Evict(r) \/ Load(r)
  BY <1>4 DEF Evict, Load, Succeed, MakeStale
<1>5. CASE CancelStage(r) \/ StageRejected(r) \/ TimeOut(r) \/ AbortStage(r)
  BY <1>5 DEF CancelStage, StageRejected, TimeOut, AbortStage, Fail, Succeed
<1> QED BY <1>1, <1>2, <1>3, <1>4, <1>5 DEF RunStep

(* Steps that leave the host alone begin what a run knows, or keep it. *)
LEMMA QuietKnows ==
  ASSUME IInv, NEW r \in Run,
         Read(r) \/ Acquire(r) \/ StartStage(r) \/ ListFirst(r) \/ Cancel(r)
  PROVE  Knows(r)'
<1> USE DEF IInv, StagesInv, TypeOK
<1>1. CASE Read(r)
  <2>1. /\ pc'[r] = "locking" /\ found'[r] = loaded
        /\ loaded' = loaded /\ req' = req
        /\ req[r].kind = "unload" => loaded # {}
    BY <1>1 DEF Read
  <2> QED BY <2>1 DEF Knows, UnloadKnows, SwitchKnows, Reported, Recovery
<1>2. CASE Acquire(r)
  BY <1>2 DEF Acquire, Knows, UnloadKnows, SwitchKnows, Alone, Reported, Recovery
<1>3. CASE Cancel(r)
  BY <1>3, SparedKnows DEF Cancel, Knows, Spared
<1>5. CASE StartStage(r)
  <2>1. /\ pc' = pc /\ req' = req /\ result' = result /\ found' = found
        /\ loaded' = loaded /\ call'[r] = Begun
    BY <1>5 DEF StartStage
  <2> QED BY <2>1 DEF Knows, UnloadKnows, SwitchKnows, Alone, Reported, ServesOnly, AtMostOne
<1>4. CASE ListFirst(r)
  BY <1>4 DEF ListFirst, Knows, UnloadKnows, SwitchKnows, Alone, Reported, ServesOnly,
     AtMostOne
<1> QED BY <1>1, <1>2, <1>3, <1>4, <1>5

(* A failing stage of a switch leaves at most one instance to clean up. *)
LEMMA FailureKnows ==
  ASSUME IInv, NEW r \in Run, NEW how, Fail(r, how),
         loaded' = loaded, found' = found, req' = req
  PROVE  Knows(r)'
<1> USE DEF IInv, StagesInv, TypeOK
<1>1. CASE pc[r] \in Forward
  <2>1. pc'[r] = "cleaning-failed-instance"
    BY <1>1 DEF Fail, Forward, Recovery
  <2>2. ASSUME Alone(r), req[r].kind = "apply", req[r].mode = "exclusive"
        PROVE  AtMostOne(loaded)
    BY <1>1, <2>2 DEF SwitchKnows, Forward, Alone, AtMostOne, ServesOnly
  <2> QED BY <2>1, <2>2 DEF Knows, UnloadKnows, SwitchKnows, Alone, Reported, Recovery
<1>2. CASE pc[r] \in Recovery
  <2>1. \/ pc'[r] = "restoring-previous-profile"
        \/ pc'[r] = "flushing" /\ result'[r] \in {"canceled", "failed"}
    BY <1>2 DEF Fail, Succeed, StageAfter, OutcomeAfter, Forward, Recovery
  <2>2. req[r].kind = "apply"
    BY <1>2 DEF KindFits
  <2> QED BY <1>2, <2>1, <2>2 DEF Knows, UnloadKnows, SwitchKnows, Alone, Reported, Recovery,
         AtMostOne
<1>3. CASE pc[r] = "unloading"
  BY <1>3, IdleKnows DEF Fail, Forward, Recovery
<1> QED BY <1>1, <1>2, <1>3 DEF Fail, Recovery

(* A load on an empty host leaves its target alone there. *)
LEMMA LoadKnows ==
  ASSUME IInv, NEW r \in Run, Load(r)
  PROVE  loaded = {} => \E i \in loaded' : i[1] = req[r].target /\ loaded' = {i}
<1>1. pc[r] = "loading" /\ loaded' \in AfterLoad(req[r].target, loaded)
  BY DEF Load
<1>2. req[r] \in Request /\ req[r].kind = "apply"
  BY <1>1 DEF IInv, StagesInv, KindFits, Running, Forward
<1>3. req[r].target \in Model
  BY <1>2 DEF Request
<1>4. loaded \subseteq Instance
  BY DEF IInv, StagesInv, TypeOK
<1> QED BY <1>1, <1>3, <1>4, LoadServes

(* A stage that did its work knows what it did. *)
LEMMA SuccessKnows ==
  ASSUME IInv, NEW r \in Run,
         Estimate(r) \/ PassHealth(r) \/ ListNothing(r) \/ Evict(r) \/ Load(r)
  PROVE  Knows(r)'
<1> USE DEF IInv, StagesInv, TypeOK
<1>1. /\ Succeed(r) /\ req' = req /\ found'[r] = found[r]
      /\ pc[r] \in Forward \cup Recovery => req[r].kind = "apply"
      /\ pc[r] = "unloading" => req[r].kind = "unload"
  BY DEF Estimate, PassHealth, ListNothing, Evict, Load, MakeStale, KindFits
<1>2. /\ pc'[r] = StageAfter(r)
      /\ StageAfter(r) = "flushing" => result'[r] = OutcomeAfter(r)
  BY <1>1 DEF Succeed
<1>3. CASE Estimate(r)
  <2>1. /\ pc[r] = "estimating" /\ loaded' = loaded
        /\ pc'[r] = IF req[r].mode = "exclusive" THEN "unloading-conflicts" ELSE "loading"
    BY <1>2, <1>3 DEF Estimate, StageAfter
  <2> QED BY <1>1, <2>1 DEF Knows, UnloadKnows, SwitchKnows, Alone, Reported, Recovery, Forward
<1>4. CASE PassHealth(r)
  <2>1. /\ pc[r] = "health-checking" /\ loaded' = loaded
        /\ pc'[r] = "flushing" /\ result'[r] = "active"
    BY <1>2, <1>4 DEF PassHealth, StageAfter, OutcomeAfter, Recovery
  <2> QED BY <1>1, <2>1 DEF Knows, UnloadKnows, SwitchKnows, Alone, Reported, Recovery,
         Forward, ServesOnly
<1>5. CASE Load(r)
  <2>1. pc[r] = "loading" /\ pc'[r] = "health-checking"
    BY <1>2, <1>5 DEF Load, StageAfter
  <2>2. loaded = {} => \E i \in loaded' : i[1] = req[r].target /\ loaded' = {i}
    BY <1>5, LoadKnows
  <2> QED BY <1>1, <2>1, <2>2 DEF Knows, UnloadKnows, SwitchKnows, Alone, Reported,
         Recovery, Forward, ServesOnly
<1>6. CASE ListNothing(r) \/ Evict(r)
  <2>1. /\ loaded' \subseteq loaded
        /\ AtMostOne(loaded) => loaded' = {}
        /\ pc[r] \in Evicting
    BY <1>6 DEF ListNothing, Evict, AtMostOne
  <2>2. CASE pc[r] = "unloading"
    <3>1. pc'[r] = "flushing" /\ result'[r] = "ok"
      BY <1>2, <2>2 DEF StageAfter, OutcomeAfter, Recovery
    <3>2. found[r] # Stale => loaded' = found[r] \ {FirstLoaded(found[r])}
      <4> SUFFICES ASSUME found[r] # Stale PROVE loaded' = found[r] \ {FirstLoaded(found[r])}
        OBVIOUS
      <4>1. /\ loaded = found[r] /\ loaded # {}
            /\ call[r] \in {NoCall, Begun, FirstLoaded(found[r])}
        BY <1>1, <2>2 DEF UnloadKnows
      <4>2. Evict(r) /\ call[r] \in Instance
        BY <1>6, <4>1 DEF ListNothing, Evict
      <4> QED BY <4>1, <4>2, CallAssumption DEF Evict
    <3> QED BY <1>1, <2>2, <3>1, <3>2 DEF Knows, UnloadKnows, SwitchKnows, Reported, Recovery
  <2>3. CASE pc[r] = "unloading-conflicts"
    <3>1. pc'[r] = "loading" /\ req[r].kind = "apply"
      BY <1>1, <1>2, <2>3 DEF StageAfter, Forward
    <3>2. Alone(r) /\ req[r].mode = "exclusive" => loaded' = {}
      BY <2>1, <2>3, <3>1 DEF SwitchKnows, Alone
    <3> QED BY <1>1, <3>1, <3>2 DEF Knows, UnloadKnows, SwitchKnows, Alone, Reported, Recovery
  <2>4. CASE pc[r] \in Recovery
    <3>1. /\ req[r].kind = "apply"
          /\ pc'[r] \in {"restoring-previous-profile", "flushing"}
          /\ pc'[r] = "flushing" => result'[r] # "active"
      BY <1>1, <1>2, <2>4 DEF StageAfter, OutcomeAfter, Recovery
    <3>2. Alone(r) /\ req[r].mode = "exclusive" => loaded' = {}
      BY <2>1, <2>4, <3>1 DEF SwitchKnows
    <3>3. UnloadKnows(r)'
      BY <1>1, <3>1 DEF UnloadKnows
    <3>4. Alone(r)' <=> Alone(r)
      BY <1>1 DEF Alone
    <3>5. loaded' = {} => AtMostOne(loaded)'
      BY DEF AtMostOne
    <3>6. SwitchKnows(r)'
      BY <1>1, <3>1, <3>2, <3>4, <3>5 DEF SwitchKnows, Reported, Recovery
    <3> QED BY <3>3, <3>6 DEF Knows
  <2> QED BY <2>1, <2>2, <2>3, <2>4 DEF Evicting
<1> QED BY <1>3, <1>4, <1>5, <1>6

(* Whatever changes the host behind every run makes them all stale. *)
LEMMA WorldKnows ==
  ASSUME IInv, LateStep \/ HostEvicts, NEW r \in Run
  PROVE  Knows(r)'
<1>1. Spared(r)
  BY DEF IInv, StagesInv, TypeOK, LateStep, HostEvicts, LateList, LateVoid, LateEvict,
     LateLoad, MakeStale, Spared
<1> QED BY <1>1, SparedKnows DEF IInv, Knows

(* The knowledge of the runs is inductive, given the stages. *)
LEMMA NextKnows == IInv /\ [Next]_vars => IInv'
<1> SUFFICES ASSUME IInv, [Next]_vars PROVE \A r \in Run : Knows(r)'
  BY NextStages DEF IInv, Knows
<1>1. ASSUME NEW r \in Run,
             RunStep(r) \/ Cancel(r) \/ Crash(r) \/ \E q \in Requests : Begin(r, q)
      PROVE  \A q \in Run : Knows(q)'
  <2>1. \A q \in Run \ {r} : Knows(q)'
    BY <1>1, OthersSpared, SparedKnows DEF IInv, Knows
  <2>2. Knows(r)'
    <3> USE DEF IInv, StagesInv, TypeOK
    <3>1. CASE \/ ReadFault(r) \/ NothingToUnload(r) \/ AcquireFails(r) \/ Release(r)
               \/ Crash(r) \/ Flush(r) \/ FlushFault(r) \/ \E q \in Requests : Begin(r, q)
      <4>1. pc'[r] \in {"idle", "validating", "unlocking"}
        BY <3>1 DEF ReadFault, NothingToUnload, AcquireFails, Release, Crash, Return, Flush,
           FlushFault, Begin
      <4> QED BY <4>1, IdleKnows
    <3>2. CASE Read(r) \/ Acquire(r) \/ StartStage(r) \/ ListFirst(r) \/ Cancel(r)
      BY <3>2, QuietKnows
    <3>3. CASE Estimate(r) \/ PassHealth(r) \/ ListNothing(r) \/ Evict(r) \/ Load(r)
      BY <3>3, SuccessKnows
    <3>4. CASE CancelStage(r) \/ StageRejected(r) \/ TimeOut(r) \/ AbortStage(r)
      BY <3>4, FailureKnows DEF CancelStage, StageRejected, TimeOut, AbortStage
    <3> QED BY <1>1, <3>1, <3>2, <3>3, <3>4 DEF RunStep
  <2> QED BY <2>1, <2>2
<1>2. CASE LateStep \/ HostEvicts
  BY <1>2, WorldKnows
<1>3. CASE UNCHANGED vars
  BY <1>3, SparedKnows DEF vars, IInv, Knows, Spared
<1> QED BY <1>1, <1>2, <1>3 DEF Next

-----------------------------------------------------------------------------
(* Stages, lock and knowledge together hold in every reachable state. *)
THEOREM KnowledgeHolds == Spec => []IInv
<1>1. Init => IInv
  <2> SUFFICES ASSUME Init PROVE IInv
    OBVIOUS
  <2>1. \A r \in Run : found[r] = Stale
    BY DEF Init
  <2> QED BY <2>1, InitStages DEF IInv, UnloadKnows, SwitchKnows, Alone
<1> QED BY <1>1, NextKnows, PTL DEF Spec

(* A request that reports an outcome of an activation is one. *)
LEMMA OutcomesFit ==
  ASSUME IInv, NEW r \in Run, NEW outcome, Reported(r, outcome)
  PROVE  req[r].kind = IF outcome = "ok" THEN "unload" ELSE "apply"
<1>1. req[r] \in Request /\ (outcome = "ok" <=> req[r].kind = "unload")
  BY DEF IInv, StagesInv, KindFits, Running, Reported
<1> QED BY <1>1, Kinds

(* An exclusive activation that reports active, and was alone with the      *)
(* host, leaves its target and nothing else on it: also after timeouts,     *)
(* aborts and late calls of other runs. *)
THEOREM ActiveServesTarget == Spec => []ExclusiveServesTarget
<1>1. IInv => ExclusiveServesTarget
  BY OutcomesFit DEF IInv, SwitchKnows, ExclusiveServesTarget
<1> QED BY <1>1, KnowledgeHolds, PTL

(* An exclusive activation that reports failed-but-recovered leaves no      *)
(* instance of a half-done switch. *)
THEOREM RecoveryLeavesNoRest == Spec => []RecoveredAddsNothing
<1>1. IInv => RecoveredAddsNothing
  BY OutcomesFit DEF IInv, SwitchKnows, RecoveredAddsNothing
<1> QED BY <1>1, KnowledgeHolds, PTL

(* An unload audited as ok unloaded the model it read before it had the     *)
(* lock, and no other. *)
THEOREM AuditIsTrue == Spec => []UnloadAuditsWhatItUnloaded
<1>1. IInv => UnloadAuditsWhatItUnloaded
  BY OutcomesFit DEF IInv, UnloadKnows, UnloadAuditsWhatItUnloaded, Reported
<1> QED BY <1>1, KnowledgeHolds, PTL
=============================================================================
